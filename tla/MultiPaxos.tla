----------------------------- MODULE MultiPaxos -----------------------------
(***************************************************************************)
(* The MultiPaxos service of the replicas (multi-paxos-service-impl.cc):   *)
(* RunPaxos as the proposer of one request executes it, and the Prepare,   *)
(* Propose and Inform handlers of the acceptors and learners it calls.     *)
(*                                                                         *)
(* A request is served by a thread of its own, a "run".  The thread calls  *)
(* one replica at a time, in the order of the addresses, and waits for the *)
(* answer or the deadline of each call.  A called handler is a thread of   *)
(* the other replica; it takes the database mutex several times, so it is  *)
(* several steps here.  It looks once, at its start, whether the caller    *)
(* has given up (IsCancelled), and goes on whatever happens to the caller  *)
(* after that.                                                             *)
(***************************************************************************)
EXTENDS KVDatabase, FiniteSets

CONSTANTS
    Server,          \* the Paxos addresses, numbered in the order of std::map
    Proposer,        \* the servers that requests are sent to
    DataKey,         \* the keys clients use
    CoordinatorKey,  \* the string "coordinator"
    Value,           \* the values clients put
    Run,             \* the requests: one RunPaxos thread each
    RandomFail,      \* what RandomFail() may return: {FALSE}, {TRUE} or both
    MaxPerKey,       \* bound: requests for one key served at the same time
    MaxFaults,       \* bound: calls to a live server that fail or time out
    MaxCrashes       \* bound: servers that are down after a crash

ASSUME ServerAssumption == Server \subseteq Nat /\ IsFiniteSet(Server)
ASSUME ProposerAssumption == Proposer \subseteq Server
ASSUME KeyAssumption == CoordinatorKey \notin DataKey
ASSUME ValueAssumption == Nil \notin Value /\ Nil \notin Server
ASSUME RandomFailAssumption == RandomFail \subseteq BOOLEAN
ASSUME BoundAssumption == MaxPerKey \in Nat /\ MaxFaults \in Nat /\ MaxCrashes \in Nat

Key == DataKey \cup {CoordinatorKey}

VARIABLES
    up,           \* the servers that are running
    logs,         \* logs[s][k]: paxos_logs_map_[k] of server s
    data,         \* data[s]: data_map_ of server s
    coordinator,  \* coordinator[s]: coordinator_ in the stubs map of s
    run,          \* run[p]: the locals of the RunPaxos thread p
    handlers,     \* handler threads between two critical sections
    faults,       \* calls that failed though the server was up (bounded)
    applied,      \* history: applied[s], the runs whose operation s executed
    prior         \* history: prior[p], the runs that had returned when p began

serverVars == <<up, logs, data, coordinator>>
vars == <<serverVars, run, handlers, faults, applied, prior>>

-----------------------------------------------------------------------------
\* The proposal id of every run: "int propose_id = 1".
ProposeId == 1

NoProposal == [type |-> "NOT_SET", value |-> Nil]

\* accepted_id, accepted_type and accepted_value before any promise.
NothingAccepted == [id |-> 0, prop |-> NoProposal]

NotStarted ==
    [phase |-> "Idle", server |-> Nil, key |-> Nil, op |-> NoProposal,
     round |-> 0, live |-> {}, todo |-> {}, promised |-> {}, best |-> NothingAccepted,
     proposal |-> NoProposal, accepted |-> {}]

Working == {"Ping", "Prepare", "Propose", "Inform"}

Active(p) == run[p].phase \in Working
Returned(p) == run[p].phase \in {"OK", "ABORTED"}
RunsOf(s) == {p \in Run : Active(p) /\ run[p].server = s}

\* The loop of p over the replicas has come to s in the given phase.
Calls(p, phase, s) ==
    /\ run[p].phase = phase
    /\ s \in run[p].todo
    /\ \A t \in run[p].todo : s <= t

\* The thread that handles p's call to s has this left to do: all of the named
\* handler, or what follows one of its critical sections.
Handler(p, s, step) == [run |-> p, at |-> s, step |-> step]

\* The steps of each handler after its first critical section.
LaterSteps ==
    [Prepare |-> {"promise"}, Propose |-> {"accept"}, Inform |-> {"check", "execute"}]

\* A handler enters its first critical section.  Its caller is waiting for it,
\* or was when the handler looked (IsCancelled) and has given up since.
Starts(p, phase, s) ==
    /\ s \in up
    /\ \/ /\ Calls(p, phase, s)
          /\ \A step \in LaterSteps[phase] : Handler(p, s, step) \notin handlers
       \/ Handler(p, s, phase) \in handlers

\* The handler of the call p is waiting for at s, if it has done nothing yet.
Unstarted(p, s) ==
    {Handler(p, s, phase) : phase \in {x \in DOMAIN LaterSteps : Starts(p, x, s)}}

\* The calls of the server s that may yet be handled.
CallsOf(s) == UNION {Unstarted(p, t) : p \in RunsOf(s), t \in Server}

\* The handler threads when the one in step "from" comes to a step of "to".
Moved(p, s, from, to) ==
    (handlers \ {Handler(p, s, from)}) \cup {Handler(p, s, step) : step \in to}

\* The locals of p once s has answered or failed, for whatever reason.
PastCall(p, s) == [run[p] EXCEPT !.todo = @ \ {s}]

\* A handler's answer reaches p only if p is still waiting for it.
Answer(p, phase, s, locals) ==
    run' = IF Calls(p, phase, s) THEN [run EXCEPT ![p] = locals] ELSE run

\* Mutant of Log: the log of the round before.
LogOfRoundBefore(p, s) == GetPaxosLog(logs[s][run[p].key], run[p].round - 1)

\* What s has logged for the Paxos instance of p.
Log(p, s) == GetPaxosLog(logs[s][run[p].key], run[p].round)

\* Mutant of ReachesQuorum: half is enough.
ReachesHalf(voters, live) == 2 * Cardinality(voters) >= Cardinality(live)

\* num_of_promised <= num_of_acceptors / 2 aborts the run.
ReachesQuorum(voters, live) == Cardinality(voters) > Cardinality(live) \div 2

-----------------------------------------------------------------------------
Init ==
    /\ up = Server
    /\ logs = [s \in Server |-> [k \in Key |-> NoRounds]]
    /\ data = [s \in Server |-> [k \in Key |-> Nil]]
    /\ coordinator = [s \in Server |-> Nil]
    /\ run = [p \in Run |-> NotStarted]
    /\ handlers = {}
    /\ faults = 0
    /\ applied = [s \in Server |-> {}]
    /\ prior = [p \in Run |-> {}]

\* A request arrives: a handler thread of s starts working on it.
Begin(p, s, key, op, phase, round, todo) ==
    /\ run[p].phase = "Idle"
    /\ s \in up \cap Proposer
    /\ Cardinality({q \in Run : Active(q) /\ run[q].key = key}) < MaxPerKey
    /\ run' = [run EXCEPT ![p] = [NotStarted EXCEPT !.phase = phase, !.server = s, !.key = key,
                                     !.op = op, !.round = round, !.todo = todo]]
    /\ prior' = [prior EXCEPT ![p] = {q \in Run : Returned(q)}]
    /\ UNCHANGED <<serverVars, handlers, faults, applied>>

\* Mutant of RunPaxos: the latest round again, not the one after it.
RunPaxosSameRound(p, s, key, op) ==
    \E n \in DOMAIN logs[s][key] \cup {0} :
        /\ IsLatestRound(logs[s][key], n)
        /\ Begin(p, s, key, op, "Ping", n, Server)

\* RunPaxos up to the ping loop: the round is the one after the latest round
\* this server knows of.
RunPaxos(p, s, key, op) ==
    \E n \in DOMAIN logs[s][key] \cup {0} :
        /\ IsLatestRound(logs[s][key], n)
        /\ Begin(p, s, key, op, "Ping", n + 1, Server)

\* Mutant of ClientRequest: no "Illegal keyword" check.
ClientRequestUnchecked(p, s, key, op) == RunPaxos(p, s, key, op)

\* PutPair and DeletePair refuse the key the elections use.
ClientRequest(p, s, key, op) ==
    \/ key = CoordinatorKey /\ Begin(p, s, key, op, "ABORTED", 0, {})
    \/ key # CoordinatorKey /\ RunPaxos(p, s, key, op)

PutPair(p, s, key, value) == ClientRequest(p, s, key, [type |-> "SET", value |-> value])
DeletePair(p, s, key) == ClientRequest(p, s, key, [type |-> "DELETE", value |-> Nil])

\* A server nominates itself, by a call to its own MultiPaxos service.
ElectCoordinator(p, s) ==
    RunPaxos(p, s, CoordinatorKey, [type |-> "SET_COORDINATOR", value |-> s])

-----------------------------------------------------------------------------
\* Mutant of Unreachable: the loop ends at the first replica that is down.
UnreachableBreaks(p, s) ==
    /\ s \notin up
    /\ \E phase \in Working : Calls(p, phase, s)
    /\ run' = [run EXCEPT ![p].todo = {}]
    /\ UNCHANGED <<serverVars, handlers, faults, applied, prior>>

\* Mutant of Unreachable: the call is repeated until the replica answers.
UnreachableRetries(p, s) ==
    /\ s \notin up
    /\ \E phase \in Working : Calls(p, phase, s)
    /\ UNCHANGED vars

\* The call ends without an answer because the server is down.
Unreachable(p, s) ==
    /\ s \notin up
    /\ \E phase \in Working : Calls(p, phase, s)
    /\ run' = [run EXCEPT ![p] = PastCall(p, s)]
    /\ UNCHANGED <<serverVars, handlers, faults, applied, prior>>

\* The deadline of a call to a running server passes.  A handler that has not
\* looked yet finds the call cancelled and does nothing; one that has looked,
\* or is further on, goes on without a caller.
DeadlineExceeded(p, s) ==
    /\ s \in up
    /\ faults < MaxFaults
    /\ \E phase \in Working : Calls(p, phase, s)
    /\ run' = [run EXCEPT ![p] = PastCall(p, s)]
    /\ faults' = faults + 1
    /\ handlers' = handlers \/ handlers' = handlers \cup Unstarted(p, s)
    /\ UNCHANGED <<serverVars, applied, prior>>

Ping(p, s) ==
    /\ s \in up
    /\ Calls(p, "Ping", s)
    /\ run' = [run EXCEPT ![p] = [PastCall(p, s) EXCEPT !.live = @ \cup {s}]]
    /\ UNCHANGED <<serverVars, handlers, faults, applied, prior>>

\* No replica answered: abort.  Otherwise ask the live ones to promise.
PingDone(p) ==
    /\ run[p].phase = "Ping" /\ run[p].todo = {}
    /\ run' = [run EXCEPT ![p].phase = IF run[p].live = {} THEN "ABORTED" ELSE "Prepare",
                          ![p].todo = run[p].live]
    /\ UNCHANGED <<serverVars, handlers, faults, applied, prior>>

-----------------------------------------------------------------------------
(* Prepare: the acceptor s first makes the round exist, then reads its log. *)

PrepareBegin(p, s) ==
    /\ Starts(p, "Prepare", s)
    /\ logs' = [logs EXCEPT ![s][run[p].key] = AddRound(@, run[p].round)]
    /\ handlers' = Moved(p, s, "Prepare", {"promise"})
    /\ UNCHANGED <<up, data, coordinator, run, faults, applied, prior>>

\* The locals of p after the promise of s, which carries what s has accepted.
Promised(p, s) ==
    [PastCall(p, s) EXCEPT
        !.promised = @ \cup {s},
        !.best = IF Log(p, s).accepted_id > @.id
                 THEN [id   |-> Log(p, s).accepted_id,
                       prop |-> [type  |-> Log(p, s).accepted_type,
                                 value |-> Log(p, s).accepted_value]]
                 ELSE @]

\* The acceptor rejects a proposal id it has promised, or fails at random
\* (never on elections); otherwise it promises.  Nothing records the promise.
PrepareEnd(p, s) ==
    /\ Handler(p, s, "promise") \in handlers
    /\ \/ /\ \/ Log(p, s).promised_id >= ProposeId
             \/ run[p].key # CoordinatorKey /\ TRUE \in RandomFail
          /\ Answer(p, "Prepare", s, PastCall(p, s))
       \/ /\ Log(p, s).promised_id < ProposeId
          /\ run[p].key = CoordinatorKey \/ FALSE \in RandomFail
          /\ Answer(p, "Prepare", s, Promised(p, s))
    /\ handlers' = Moved(p, s, "promise", {})
    /\ UNCHANGED <<serverVars, faults, applied, prior>>

\* With a quorum of the live replicas, propose what they have accepted or
\* else the request's own operation (SetProposeValue).
PrepareDone(p) ==
    /\ run[p].phase = "Prepare" /\ run[p].todo = {}
    /\ run' = [run EXCEPT ![p] =
                  IF ReachesQuorum(run[p].promised, run[p].live)
                  THEN [@ EXCEPT !.phase = "Propose", !.todo = run[p].live,
                                 !.proposal = IF run[p].best.id > 0 THEN run[p].best.prop
                                                                    ELSE run[p].op]
                  ELSE [@ EXCEPT !.phase = "ABORTED"]]
    /\ UNCHANGED <<serverVars, handlers, faults, applied, prior>>

-----------------------------------------------------------------------------
(* Propose: the acceptor reads its log (which inserts a missing round) and  *)
(* decides; then it writes the acceptance.                                  *)

ProposeBegin(p, s) ==
    /\ Starts(p, "Propose", s)
    /\ logs' = [logs EXCEPT ![s][run[p].key] = AddRound(@, run[p].round)]
    /\ \/ /\ \/ Log(p, s).promised_id > ProposeId
             \/ run[p].key # CoordinatorKey /\ TRUE \in RandomFail
          /\ Answer(p, "Propose", s, PastCall(p, s))
          /\ handlers' = Moved(p, s, "Propose", {})
       \/ /\ Log(p, s).promised_id <= ProposeId
          /\ run[p].key = CoordinatorKey \/ FALSE \in RandomFail
          /\ handlers' = Moved(p, s, "Propose", {"accept"})
          /\ UNCHANGED run
    /\ UNCHANGED <<up, data, coordinator, faults, applied, prior>>

ProposeEnd(p, s) ==
    /\ Handler(p, s, "accept") \in handlers
    /\ logs' = [logs EXCEPT ![s][run[p].key] =
                   AddAccepted(@, run[p].round, ProposeId, run[p].proposal)]
    /\ Answer(p, "Propose", s, [PastCall(p, s) EXCEPT !.accepted = @ \cup {s}])
    /\ handlers' = Moved(p, s, "accept", {})
    /\ UNCHANGED <<up, data, coordinator, faults, applied, prior>>

ProposeDone(p) ==
    /\ run[p].phase = "Propose" /\ run[p].todo = {}
    /\ run' = [run EXCEPT ![p] =
                  IF ReachesQuorum(run[p].accepted, run[p].live)
                  THEN [@ EXCEPT !.phase = "Inform", !.todo = run[p].live]
                  ELSE [@ EXCEPT !.phase = "ABORTED"]]
    /\ UNCHANGED <<serverVars, handlers, faults, applied, prior>>

-----------------------------------------------------------------------------
(* Inform: the learner logs the acceptance, then looks for a later round,   *)
(* then executes; three critical sections.  The acceptance that p sends is  *)
(* the last AcceptResponse, which repeats p's proposal.                     *)

InformBegin(p, s) ==
    /\ Starts(p, "Inform", s)
    /\ logs' = [logs EXCEPT ![s][run[p].key] =
                   AddAccepted(@, run[p].round, ProposeId, run[p].proposal)]
    /\ handlers' = Moved(p, s, "Inform", {"check"})
    /\ UNCHANGED <<up, data, coordinator, run, faults, applied, prior>>

\* Mutant of InformCheck: "acceptance.round() <= GetLatestRound(key)".
InformCheckOwnRound(p, s) ==
    /\ Handler(p, s, "check") \in handlers
    /\ \E r \in DOMAIN logs[s][run[p].key] : r >= run[p].round
    /\ handlers' = Moved(p, s, "check", {})
    /\ Answer(p, "Inform", s, PastCall(p, s))
    /\ UNCHANGED <<serverVars, faults, applied, prior>>

InformCheck(p, s) ==
    /\ Handler(p, s, "check") \in handlers
    /\ \/ /\ HasLaterRound(logs[s][run[p].key], run[p].round)
          /\ handlers' = Moved(p, s, "check", {})
          /\ Answer(p, "Inform", s, PastCall(p, s))
       \/ /\ ~ HasLaterRound(logs[s][run[p].key], run[p].round)
          /\ handlers' = Moved(p, s, "check", {"execute"})
          /\ UNCHANGED run
    /\ UNCHANGED <<serverVars, faults, applied, prior>>

\* The operation of p's proposal on the state of s.  SetCoordinator ignores
\* an address that is not in the stubs map.
Execute(p, s) ==
    LET prop == run[p].proposal
        key  == run[p].key
    IN
    /\ data' = CASE prop.type = "SET"    -> [data EXCEPT ![s] = SetValue(@, key, prop.value)]
                 [] prop.type = "DELETE" -> [data EXCEPT ![s] = DeleteEntry(@, key)]
                 [] OTHER                -> data
    /\ coordinator' = IF prop.type = "SET_COORDINATOR" /\ prop.value \in Server
                      THEN [coordinator EXCEPT ![s] = prop.value]
                      ELSE coordinator

InformEnd(p, s) ==
    /\ Handler(p, s, "execute") \in handlers
    /\ Execute(p, s)
    /\ applied' = [applied EXCEPT ![s] = @ \cup {p}]
    /\ handlers' = Moved(p, s, "execute", {})
    /\ Answer(p, "Inform", s, PastCall(p, s))
    /\ UNCHANGED <<up, logs, faults, prior>>

\* Whatever the learners answered, the request has succeeded.
InformDone(p) ==
    /\ run[p].phase = "Inform" /\ run[p].todo = {}
    /\ run' = [run EXCEPT ![p].phase = "OK"]
    /\ UNCHANGED <<serverVars, handlers, faults, applied, prior>>

-----------------------------------------------------------------------------
\* The process of s ends, and with it its threads and everything it stored.
\* The handlers its own calls started elsewhere go on.
Die(s) ==
    /\ s \in up
    /\ up' = up \ {s}
    /\ logs' = [logs EXCEPT ![s] = [k \in Key |-> NoRounds]]
    /\ data' = [data EXCEPT ![s] = [k \in Key |-> Nil]]
    /\ coordinator' = [coordinator EXCEPT ![s] = Nil]
    /\ applied' = [applied EXCEPT ![s] = {}]
    /\ \E late \in SUBSET CallsOf(s) :
          handlers' = {h \in handlers \cup late : h.at # s}
    /\ run' = [p \in Run |-> IF p \in RunsOf(s) THEN [run[p] EXCEPT !.phase = "Lost"]
                                                ELSE run[p]]
    /\ UNCHANGED <<faults, prior>>

Crash(s) == Cardinality(Server \ up) < MaxCrashes /\ Die(s)

Arrive(p) ==
    \E s \in Server :
        \/ \E k \in Key : (\E v \in Value : PutPair(p, s, k, v)) \/ DeletePair(p, s, k)
        \/ ElectCoordinator(p, s)

\* A step of the thread p that needs no other thread.
Proceed(p) ==
    \/ PingDone(p) \/ PrepareDone(p) \/ ProposeDone(p) \/ InformDone(p)
    \/ \E s \in Server : Ping(p, s) \/ Unreachable(p, s)

\* A step of a handler that p's call to s starts or has started.
Serve(p, s) ==
    \/ PrepareBegin(p, s) \/ PrepareEnd(p, s)
    \/ ProposeBegin(p, s) \/ ProposeEnd(p, s)
    \/ InformBegin(p, s) \/ InformCheck(p, s) \/ InformEnd(p, s)

Next ==
    \/ \E p \in Run : Arrive(p) \/ Proceed(p)
    \/ \E p \in Run, s \in Server : Serve(p, s) \/ DeadlineExceeded(p, s)
    \/ \E s \in Server : Crash(s)

Spec == Init /\ [][Next]_vars
-----------------------------------------------------------------------------
(* Types *)

OperationType == {"NOT_SET", "SET", "DELETE", "SET_COORDINATOR"}
Phase == {"Idle", "OK", "ABORTED", "Lost"} \cup Working
AnyValue == Value \cup Server \cup {Nil}
Proposal == [type : OperationType, value : AnyValue]

\* What clients and elections ask for.
Operation ==
    [type : {"SET"}, value : Value] \cup [type : {"DELETE"}, value : {Nil}]
        \cup [type : {"SET_COORDINATOR"}, value : Server]

PaxosLog == [promised_id : Nat, accepted_id : Nat,
             accepted_type : OperationType, accepted_value : AnyValue]

RunLocals ==
    [phase : Phase, server : Server \cup {Nil}, key : Key \cup {Nil}, op : Proposal,
     round : Nat, live : SUBSET Server, todo : SUBSET Server, promised : SUBSET Server,
     best : [id : Nat, prop : Proposal], proposal : Proposal, accepted : SUBSET Server]

HandlerThread == [run : Run, at : Server, 
                  step : {"Prepare", "promise", "Propose", "accept",
                          "Inform", "check", "execute"}]

\* A std::map<int, PaxosLog> of positive rounds.
IsRounds(rounds) ==
    /\ DOMAIN rounds \subseteq Nat \ {0}
    /\ rounds \in [DOMAIN rounds -> PaxosLog]

\* The state has the shape the C++ types give it: rounds are positive, a log
\* is a map from some rounds to PaxosLogs, a handler runs on a live server.
TypeOK ==
    /\ up \subseteq Server
    /\ logs = [s \in Server |-> [k \in Key |-> logs[s][k]]]
    /\ \A s \in Server, k \in Key : IsRounds(logs[s][k])
    /\ data \in [Server -> [Key -> AnyValue]]
    /\ coordinator \in [Server -> Server \cup {Nil}]
    /\ run \in [Run -> RunLocals]
    /\ handlers \subseteq HandlerThread
    /\ faults \in Nat
    /\ applied \in [Server -> SUBSET Run]
    /\ prior \in [Run -> SUBSET Run]

-----------------------------------------------------------------------------
(* Properties that hold however requests, deadlines and crashes interleave *)

\* A majority, in the usual sense, of the replicas p found live accepted p's
\* proposal.
Chosen(p) == 2 * Cardinality(run[p].accepted) > Cardinality(run[p].live)

SameInstance(p, q) == run[p].key = run[q].key /\ run[p].round = run[q].round

\* An acceptor's log holds only what a proposer proposed in that very round of
\* that very key after a quorum promised, and every proposal is the operation
\* of a request of the same round: what promises carry back never leaks from
\* one Paxos instance into another.
AcceptedWasProposed ==
    /\ \A s \in Server, k \in Key : \A r \in DOMAIN logs[s][k] :
          logs[s][k][r].accepted_id > 0 =>
             \E p \in Run : /\ run[p].key = k /\ run[p].round = r
                            /\ run[p].proposal = [type  |-> logs[s][k][r].accepted_type,
                                                  value |-> logs[s][k][r].accepted_value]
                            /\ 2 * Cardinality(run[p].promised) > Cardinality(run[p].live)
    /\ \A p \in Run : run[p].proposal # NoProposal =>
          \E q \in Run : SameInstance(p, q) /\ run[q].op = run[p].proposal

\* What a replica stores, and whom it takes for the coordinator, was put there
\* by a run whose proposal a majority of its live replicas had accepted:
\* learners never act on a proposal that could still fail.
ExecutedWasChosen ==
    \A s \in Server :
        /\ \A p \in applied[s] : Chosen(p)
        /\ \A k \in Key : data[s][k] # Nil =>
              \E p \in applied[s] : /\ run[p].key = k
                                    /\ run[p].proposal = [type |-> "SET", value |-> data[s][k]]
        /\ coordinator[s] # Nil =>
              \E p \in applied[s] :
                  run[p].proposal = [type |-> "SET_COORDINATOR", value |-> coordinator[s]]

\* Clients cannot write into the rounds of the elections, and no election can
\* write a client's key: the key "coordinator" is reserved (the "Illegal
\* keyword" check), so its log holds elections only and it is never stored.
ElectionsStayApart ==
    \A s \in Server :
        /\ data[s][CoordinatorKey] = Nil
        /\ \A k \in Key : \A r \in DOMAIN logs[s][k] :
              logs[s][k][r].accepted_id > 0 =>
                 (k = CoordinatorKey <=> logs[s][k][r].accepted_type = "SET_COORDINATOR")

\* A request that begins after another one of the same round has returned OK,
\* and is promised by a replica that accepted the other's proposal, gives up
\* its own operation: it proposes one that was accepted before.
LaterRunAdopts ==
    \A p, q \in Run :
        /\ p \in prior[q] /\ run[p].phase = "OK" /\ SameInstance(p, q)
        /\ run[p].accepted \cap run[q].promised # {}
        => run[q].best.id > 0

\* When no call fails, a request that a server begins after an earlier one of
\* the same key returned gets a round of its own, even if every acceptor
\* failed at random on the earlier one: the Prepare handler logs the round
\* before it decides.
FreshRound ==
    faults = 0 =>
        \A p, q \in Run :
            /\ p \in prior[q]
            /\ run[p].key = run[q].key /\ run[p].server = run[q].server
            /\ run[q].round > 0
            => run[p].round < run[q].round

\* When no call fails, every live replica that a request which returned OK
\* informed has executed its proposal or knows of a later round.
Settled(p, s) ==
    \/ p \in applied[s]
    \/ run[p].key \in Key /\ HasLaterRound(logs[s][run[p].key], run[p].round)

InformedOrSuperseded ==
    faults = 0 =>
        \A p \in Run : run[p].phase = "OK" =>
            \A s \in run[p].live \cap up : Settled(p, s)

\* With one request per key at a time, no failed calls and no proposer lost in
\* the middle of a run, the running replicas agree on a key (on its value, or
\* on the coordinator) whenever no request for it is being served.
SettledReplicasAgree ==
    (MaxPerKey = 1 /\ faults = 0) =>
        \A k \in Key :
            (\A p \in Run : run[p].key = k => ~ Active(p) /\ run[p].phase # "Lost") =>
                \A s, t \in up :
                    /\ DOMAIN logs[s][k] = DOMAIN logs[t][k]
                    /\ data[s][k] = data[t][k]
                    /\ k = CoordinatorKey => coordinator[s] = coordinator[t]

-----------------------------------------------------------------------------
(* Liveness *)

\* RunPaxos returns: no call is waited for beyond its deadline, so the thread
\* of a request ends unless its process does.
RunsReturn == \A p \in Run : Active(p) ~> ~ Active(p)

\* Once a proposal is chosen, every replica its proposer found live executes
\* it or learns of a later round, unless that replica crashes, the proposer
\* is lost or a call fails.
ChosenIsLearned ==
    \A p \in Run, s \in Server :
        (run[p].phase = "Inform" /\ s \in run[p].live) ~>
            (Settled(p, s) \/ s \notin up \/ run[p].phase = "Lost" \/ faults > 0)

-----------------------------------------------------------------------------
(* What the repository says and the code does not do *)

\* README.md:80, "Servers reach fault-tolerant consensus by running Multi-Paxos
\* runs": one instance decides one operation.
OneDecisionPerRound ==
    \A p, q \in Run :
        SameInstance(p, q) /\ Chosen(p) /\ Chosen(q) => run[p].proposal = run[q].proposal

\* multi-paxos-service-impl.cc:324, "Will NOT execute operation if it's not
\* the latest round".
OnlyLatestExecutes ==
    [][\A s \in Server : \A p \in applied'[s] \ applied[s] :
          ~ HasLaterRound(logs[s][run[p].key], run[p].round)]_vars

\* README.md:83, "Servers always forward client requests to Coordinator": there
\* is one coordinator to forward to.  Between elections, when no call has failed
\* and no server has died, all servers that know one name the same.
OneCoordinator ==
    /\ \A p \in Run : ~ Active(p)
    /\ handlers = {} /\ faults = 0 /\ up = Server
    => \A s, t \in Server : Nil \notin {coordinator[s], coordinator[t]} =>
           coordinator[s] = coordinator[t]

=============================================================================
