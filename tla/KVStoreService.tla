--------------------------- MODULE KVStoreService ---------------------------
(***************************************************************************)
(* The KeyValueStore service, which clients call at any server             *)
(* (kv-store-service-impl.cc), on top of the servers of Lifecycle.         *)
(* RequestFlow forwards a request to the MultiPaxos service of the         *)
(* coordinator.  If that one is unavailable, or does not answer in time,   *)
(* this server nominates itself and forwards the request once more, to     *)
(* whomever it then takes for the coordinator.                             *)
(***************************************************************************)
EXTENDS Lifecycle

CONSTANTS
    Client,       \* client processes: each waits for an answer before it goes on
    Contact,      \* the servers whose addresses clients are given
    First,        \* the coordinator when clients begin
    MaxRequests,  \* bound: requests that clients send
    MaxTimeouts   \* bound: calls of RequestFlow whose deadline passes

ASSUME FirstAssumption == First \in Server /\ Contact \subseteq Server /\ Run # {}
ASSUME RequestAssumption == MaxRequests \in Nat /\ MaxTimeouts \in Nat

VARIABLES
    flow,      \* flow[c]: the locals of the RequestFlow thread of c's request
    late,      \* calls given up whose handler has passed its IsCancelled test only
    sent,      \* requests sent (bounded)
    timeouts,  \* deadlines that passed (bounded)
    readable   \* history: readable[k], what a read of k may answer

clientVars == <<flow, late, sent, timeouts, readable>>
serviceVars == <<lifeVars, clientVars>>

-----------------------------------------------------------------------------
\* "server" is the one the client called, "call" the Paxos run of the call
\* that RequestFlow waits for; "alone": no write of the
\* key was going on when this request was sent.
NoFlow ==
    [phase |-> "Idle", server |-> Nil, key |-> Nil, op |-> NoProposal, call |-> Nil,
     alone |-> FALSE, status |-> Nil, value |-> Nil]

Get == [type |-> "GET", value |-> Nil]
Writes == [type : {"SET"}, value : Value] \cup {[type |-> "DELETE", value |-> Nil]}
Election(s) == [type |-> "SET_COORDINATOR", value |-> s]

Waiting(c) == flow[c].phase \notin {"Idle", "Answered"}

\* The coordinator that the stubs map of c's server names.
Coordinator(c) == coordinator[flow[c].server]

\* Any request thread that has not begun; they are interchangeable.
NewRun == CHOOSE p \in Run : run[p].phase = "Idle"
RunLeft == \E p \in Run : run[p].phase = "Idle"

\* No thread is left that could still do anything about a write of k.
NoThreads(k) ==
    /\ \A p \in Run : run[p].key = k => ~ Active(p) /\ \A h \in handlers : h.run # p
    /\ \A x \in late : x.key # k

\* The request by which First was elected while it was alone.
FirstElection == CHOOSE p \in Run : TRUE
Elected ==
    [NotStarted EXCEPT !.phase = "OK", !.server = First, !.key = CoordinatorKey,
                       !.op = Election(First), !.round = 1, !.live = {First},
                       !.promised = {First}, !.proposal = Election(First), !.accepted = {First}]

\* All servers run and have recovered from First, which was elected.
ServiceInit ==
    /\ up = Server
    /\ logs = [s \in Server |-> [k \in Key |->
                 IF k = CoordinatorKey
                 THEN AddAccepted(NoRounds, 1, ProposeId, Election(First))
                 ELSE NoRounds]]
    /\ data = [s \in Server |-> [k \in Key |-> Nil]]
    /\ coordinator = [s \in Server |-> First]
    /\ run = [p \in Run |-> IF p = FirstElection THEN Elected ELSE NotStarted]
    /\ handlers = {}
    /\ faults = 0
    /\ applied = [s \in Server |-> IF s = First THEN {FirstElection} ELSE {}]
    /\ prior = [p \in Run |-> {}]
    /\ boot = [s \in Server |-> [NotStarting EXCEPT !.phase = "Ready", !.source = First]]
    /\ starts = 0
    /\ flow = [c \in Client |-> NoFlow]
    /\ late = {}
    /\ sent = 0
    /\ timeouts = 0
    /\ readable = [k \in Key |-> {Nil}]

\* GetValue, PutPair and DeletePair of the client: a blocking call, no deadline.
Send(c, s, k, op) ==
    /\ ~ Waiting(c)
    /\ s \in Contact \cap up
    /\ sent < MaxRequests
    /\ flow' = [flow EXCEPT ![c] = [NoFlow EXCEPT !.phase = "Forward", !.server = s, !.key = k,
                                                  !.op = op, !.alone = NoThreads(k)]]
    /\ sent' = sent + 1
    /\ UNCHANGED <<lifeVars, late, timeouts, readable>>

\* What a client may read once its write is answered, if no other one was going
\* on when it was sent: if its first attempt is aborted, what it could before; if
\* it is OK, what it wrote.  Else either.
Learns(c, status) ==
    LET k == flow[c].key
        v == flow[c].op.value
    IN
    IF \/ flow[c].op = Get
       \/ status = "ABORTED" /\ flow[c].phase = "Forwarded" /\ flow[c].alone
    THEN UNCHANGED readable
    ELSE readable' = [readable EXCEPT ![k] =
                         IF status = "OK" /\ flow[c].alone THEN {v} ELSE @ \cup {v}]

Answered(c, status, value) ==
    /\ flow' = [flow EXCEPT ![c].phase = "Answered", ![c].status = status, ![c].value = value]
    /\ Learns(c, status)

GoTo(c, phase) == flow' = [flow EXCEPT ![c].phase = phase] /\ UNCHANGED readable

-----------------------------------------------------------------------------
\* GetValue of the coordinator's MultiPaxos service: no Paxos run.
ForwardGet(c) ==
    LET v == data[Coordinator(c)][flow[c].key] IN
    /\ flow[c].op = Get
    /\ Answered(c, CASE flow[c].key = CoordinatorKey -> "ABORTED"
                     [] flow[c].key # CoordinatorKey /\ v = Nil -> "NOT_FOUND"
                     [] OTHER -> "OK", v)
    /\ UNCHANGED lifeVars

\* A handler of the MultiPaxos service of s begins to serve a write or an election.
Handle(s, k, op) ==
    /\ RunLeft
    /\ CASE op.type = "SET"             -> PutPair(NewRun, s, k, op.value)
         [] op.type = "DELETE"          -> DeletePair(NewRun, s, k)
         [] op.type = "SET_COORDINATOR" -> ElectCoordinator(NewRun, s)
    /\ UNCHANGED <<boot, starts>>

\* RequestFlow of c calls s and will wait in the given phase.
Call(c, s, k, op, phase) ==
    /\ Handle(s, k, op)
    /\ flow' = [flow EXCEPT ![c].phase = phase, ![c].call = NewRun]
    /\ UNCHANGED readable

ForwardWrite(c, phase) ==
    flow[c].op \in Writes /\ Call(c, Coordinator(c), flow[c].key, flow[c].op, phase)

\* The deadline of a call passes.  Its handler may have begun, finds the call
\* cancelled, or has just seen that it is not and is late.
TimesOut == timeouts < MaxTimeouts /\ timeouts' = timeouts + 1

MayBeLate(s, k, op) ==
    late' = late \/ (op # Get /\ late' = late \cup {[server |-> s, key |-> k, op |-> op]})

\* UNAVAILABLE: this server will nominate itself.
CoordinatorDown(c) ==
    /\ Coordinator(c) \in Server \ up
    /\ GoTo(c, "Elect")
    /\ UNCHANGED <<lifeVars, timeouts, late>>

\* RequestFlow up to the first forward, whose deadline may pass.
Forward(c) ==
    /\ flow[c].phase = "Forward"
    /\ \/ /\ Coordinator(c) = Nil
          /\ Answered(c, "ABORTED", Nil)
          /\ UNCHANGED <<lifeVars, timeouts, late>>
       \/ /\ Coordinator(c) \in up
          /\ ForwardGet(c) \/ ForwardWrite(c, "Forwarded")
          /\ UNCHANGED <<timeouts, late>>
       \/ CoordinatorDown(c)
       \/ /\ Coordinator(c) \in up
          /\ TimesOut
          /\ MayBeLate(Coordinator(c), flow[c].key, flow[c].op)
          /\ GoTo(c, "Elect")
          /\ UNCHANGED lifeVars
    /\ UNCHANGED sent

\* Mutant of ForwardReturns: a broken call passes for one that returned OK.
ForwardReturnsOk(c) ==
    LET p == flow[c].call IN
    /\ flow[c].phase = "Forwarded"
    /\ \/ Returned(p) /\ Answered(c, run[p].phase, Nil)
       \/ run[p].phase = "Lost" /\ Answered(c, "OK", Nil)
    /\ UNCHANGED <<lifeVars, late, sent, timeouts>>

\* The forwarded call returns, or breaks because the coordinator dies, or its
\* deadline passes while the coordinator goes on.
ForwardReturns(c) ==
    LET p == flow[c].call IN
    /\ flow[c].phase = "Forwarded"
    /\ \/ Returned(p) /\ Answered(c, run[p].phase, Nil) /\ UNCHANGED timeouts
       \/ run[p].phase = "Lost" /\ GoTo(c, "Elect") /\ UNCHANGED timeouts
       \/ Active(p) /\ GoTo(c, "Elect") /\ TimesOut
    /\ UNCHANGED <<lifeVars, late, sent>>

\* Mutant of Elect: the call goes to the coordinator, which nominates itself.
ElectOldCoordinator(c) ==
    LET s == Coordinator(c) IN
    /\ flow[c].phase = "Elect"
    /\ \/ /\ Call(c, s, CoordinatorKey, Election(s), "Electing")
          /\ UNCHANGED <<late, timeouts>>
       \/ /\ s \notin up
          /\ Answered(c, "UNAVAILABLE", Nil)
          /\ UNCHANGED <<lifeVars, late, timeouts>>
    /\ UNCHANGED sent

\* ElectNewCoordinator: a call of the own MultiPaxos service, with a deadline.
Elect(c) ==
    LET s == flow[c].server IN
    /\ flow[c].phase = "Elect"
    /\ \/ /\ Call(c, s, CoordinatorKey, Election(s), "Electing")
          /\ UNCHANGED <<late, timeouts>>
       \/ /\ TimesOut
          /\ MayBeLate(s, CoordinatorKey, Election(s))
          /\ Answered(c, "DEADLINE_EXCEEDED", Nil)
          /\ UNCHANGED lifeVars
    /\ UNCHANGED sent

ElectReturns(c) ==
    LET p == flow[c].call IN
    /\ flow[c].phase = "Electing"
    /\ \/ run[p].phase = "OK" /\ GoTo(c, "ForwardAgain") /\ UNCHANGED timeouts
       \/ run[p].phase = "ABORTED" /\ Answered(c, "ABORTED", Nil) /\ UNCHANGED timeouts
       \/ Active(p) /\ Answered(c, "DEADLINE_EXCEEDED", Nil) /\ TimesOut
    /\ UNCHANGED <<lifeVars, late, sent>>

\* The second forward has no deadline.
ForwardAgain(c) ==
    /\ flow[c].phase = "ForwardAgain"
    /\ \/ /\ Coordinator(c) \in up
          /\ ForwardGet(c) \/ ForwardWrite(c, "ForwardedAgain")
       \/ /\ Coordinator(c) \notin up
          /\ Answered(c, "UNAVAILABLE", Nil)
          /\ UNCHANGED lifeVars
    /\ UNCHANGED <<late, sent, timeouts>>

\* Mutant of ForwardAgainReturns: only an answer ends the call, which has no
\* deadline (as if it were made with wait_for_ready and repeated).
ForwardAgainWaits(c) ==
    LET p == flow[c].call IN
    /\ flow[c].phase = "ForwardedAgain"
    /\ Returned(p) /\ Answered(c, run[p].phase, Nil)
    /\ UNCHANGED <<lifeVars, late, sent, timeouts>>

\* The second call returns, or breaks because that server dies, too.
ForwardAgainReturns(c) ==
    LET p == flow[c].call IN
    /\ flow[c].phase = "ForwardedAgain"
    /\ \/ Returned(p) /\ Answered(c, run[p].phase, Nil)
       \/ run[p].phase = "Lost" /\ Answered(c, "UNAVAILABLE", Nil)
    /\ UNCHANGED <<lifeVars, late, sent, timeouts>>

RequestFlow(c) ==
    \/ Forward(c) \/ ForwardReturns(c) \/ Elect(c) \/ ElectReturns(c)
    \/ ForwardAgain(c) \/ ForwardAgainReturns(c)

\* A handler without a caller begins after all.
HandleLate ==
    \E x \in late :
        /\ Handle(x.server, x.key, x.op)
        /\ late' = late \ {x}
        /\ UNCHANGED <<flow, sent, timeouts, readable>>

-----------------------------------------------------------------------------
\* The calls of clients to s break; what s had asked others to do may go on.
CallsBreak(s) ==
    LET broken == {c \in Client : Waiting(c) /\ flow[c].server = s}
        begun  == {[server |-> Coordinator(c), key |-> flow[c].key, op |-> flow[c].op] :
                     c \in {d \in broken : /\ flow[d].phase \in {"Forward", "ForwardAgain"}
                                           /\ Coordinator(d) \in up /\ flow[d].op # Get}}
    IN
    /\ flow' = [c \in Client |-> IF c \in broken
                                 THEN [flow[c] EXCEPT !.phase = "Answered", !.status = "UNAVAILABLE"]
                                 ELSE flow[c]]
    /\ \E more \in SUBSET begun : late' = {x \in late \cup more : x.server # s}
    /\ readable' = [k \in Key |-> readable[k] \cup
                     {flow[c].op.value : c \in {d \in broken : flow[d].key = k /\ flow[d].op # Get}}]
    /\ UNCHANGED <<sent, timeouts>>

ProcessEnds(s) == (CrashProcess(s) \/ AssertFails(s)) /\ CallsBreak(s)

ServerStep(s) ==
    /\ Start(s) \/ (Initialize(s) /\ up' = up)
    /\ UNCHANGED clientVars

ServiceNext ==
    \/ \E c \in Client, s \in Server, k \in Key, op \in Writes \cup {Get} : Send(c, s, k, op)
    \/ \E c \in Client : RequestFlow(c)
    \/ HandleLate
    \/ \E p \in Run : PaxosStep(p) /\ UNCHANGED clientVars
    \/ \E s \in Server : ServerStep(s) \/ ProcessEnds(s)

ServiceSpec == ServiceInit /\ [][ServiceNext]_serviceVars

\* The threads of RequestFlow are scheduled too.  Clients, deadlines, crashes
\* and starts are not fair.
FairServiceSpec ==
    ServiceSpec /\ LifeFairness /\ \A c \in Client : WF_serviceVars(RequestFlow(c))
-----------------------------------------------------------------------------
(* Types *)

FlowPhase ==
    {"Idle", "Forward", "Forwarded", "Elect", "Electing", "ForwardAgain", "ForwardedAgain",
     "Answered"}
Status == {"OK", "ABORTED", "NOT_FOUND", "DEADLINE_EXCEEDED", "UNAVAILABLE"}

FlowLocals ==
    [phase : FlowPhase, server : Server \cup {Nil}, key : Key \cup {Nil},
     op : Writes \cup {Get, NoProposal}, call : Run \cup {Nil}, alone : BOOLEAN,
     status : Status \cup {Nil}, value : AnyValue]

\* A call that nobody waits for.
LateCall == [server : up, key : Key, op : Writes \cup {Election(s) : s \in Server}]

\* m, the locals of RequestFlow, waits for r, the run of its request or the
\* election of its own server.
Fits(m, r) ==
    /\ m.phase \in {"Forwarded", "ForwardedAgain"} =>
          m.op \in Writes /\ r.phase # "Idle" /\ r.key = m.key /\ r.op = m.op
    /\ m.phase = "Electing" =>
          r.phase # "Idle" /\ r.key = CoordinatorKey /\ r.op = Election(m.server)

CallsFit == \A c \in Client : Fits(flow[c], run[flow[c].call])

\* The locals of RequestFlow have the types the C++ code gives them; a request
\* is waited for, and a call handled, only at a server that runs; and RequestFlow
\* waits for the run of its own request, or of its own nomination, whatever was
\* forwarded, given up and forwarded again.
ServiceTypeOK ==
    /\ LifeTypeOK
    /\ flow \in [Client -> FlowLocals]
    /\ late \subseteq LateCall
    /\ sent \in 0..MaxRequests /\ timeouts \in 0..MaxTimeouts
    /\ readable \in [Key -> SUBSET AnyValue]
    /\ \A c \in Client : Waiting(c) =>
          flow[c].server \in up /\ flow[c].key \in Key /\ flow[c].op \in Writes \cup {Get}
    /\ \A c \in Client : flow[c].phase \in {"Forwarded", "Electing", "ForwardedAgain"} =>
          flow[c].call \in Run
    /\ CallsFit

-----------------------------------------------------------------------------
(* Properties *)

\* At most one request for k was lost with its server.
LostOnce(k) ==
    \A p, q \in Run : /\ run[p].key = k /\ run[p].phase = "Lost"
                      /\ run[q].key = k /\ run[q].phase = "Lost"
                      => p = q

\* What client.cc:59 prints of a put that is answered OK, "is now added to the
\* store", for one client that may call any server: a read answers with the
\* last write that was answered OK, or with one whose outcome its client cannot
\* know, also when coordinators die and others are elected.  So it is until a
\* server is started again, or a second request for the key is lost with its
\* server: each may leave a round that only some replicas have logged, and those
\* drop a write that gets an earlier round.  And so it is as long as no deadline
\* of RequestFlow passes: the second forward of a write whose first one was only
\* slow makes two runs of it, and one may keep learners from executing the other.
ReadsAreCurrent ==
    (faults = 0 /\ starts = 0 /\ \A c, d \in Client : c = d) =>
        \A c \in Client :
            /\ flow[c].phase = "Answered" /\ flow[c].op = Get
            /\ flow[c].status \in {"OK", "NOT_FOUND"}
            /\ LostOnce(flow[c].key)
            => flow[c].value \in readable[flow[c].key]

\* The bound on runs leaves none for the call that the request of c comes to.
\* One that has begun its last call is not excused.
NoRunFor(c) ==
    /\ ~ RunLeft
    /\ \/ flow[c].phase = "Elect"
       \/ flow[c].phase \in {"Forward", "ForwardAgain"} /\ flow[c].op # Get

\* Every request is answered, although the second forward has no deadline: a
\* call to a server that dies breaks, and RunPaxos returns.
RequestsAnswered ==
    \A c \in Client : Waiting(c) ~> (~ Waiting(c) \/ NoRunFor(c))

=============================================================================
