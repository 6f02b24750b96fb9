-------------------------- MODULE MultiPaxosProofs --------------------------
(***************************************************************************)
(* Proofs that the state keeps its types (TypeCorrect) and that threads    *)
(* and handlers belong to requests that have begun and to running          *)
(* servers: the invariant Basic.  The middle of the module, from the       *)
(* Change lemmas on, says what a step may do to the locals of one          *)
(* RunPaxos thread; the proofs of the safety properties work from that     *)
(* and not from the actions.  The last part proves what the rounds keep    *)
(* apart: an acceptor's log holds proposals of its own instance only       *)
(* (OnlyProposedIsAccepted), replicas execute chosen proposals only        *)
(* (OnlyChosenIsExecuted), and the elections and the clients' keys never   *)
(* meet (ElectionsAreApart).  All follow from one invariant, Orderly: what *)
(* a thread's locals hold is determined by how far it has come.            *)
(***************************************************************************)
EXTENDS MultiPaxosInvariant, FiniteSetTheorems, TLAPS

USE DEF ProposeId, HasInstance

\* A step of MultiPaxos in which a process may die whatever MaxCrashes is:
\* what the lemmas say also holds where a failed assertion ends a process.
AnyStep ==
    \/ \E p \in Run : Arrive(p) \/ Proceed(p)
    \/ \E p \in Run, s \in Server : Serve(p, s) \/ DeadlineExceeded(p, s)
    \/ \E s \in Server : Die(s)

\* Every step of the specification is such a step.
LEMMA NextIsAnyStep == [Next]_vars => [AnyStep]_vars
  BY DEF Next, AnyStep, Crash

\* An empty log is a map of positive rounds.
LEMMA NoRoundsType == IsRounds(NoRounds)
  BY DEF IsRounds, NoRounds, PaxosLog, NewPaxosLog, OperationType, AnyValue

\* The log that addPaxosLog and operator[] insert has the type of a log.
LEMMA NewPaxosLogType == NewPaxosLog \in PaxosLog
  BY DEF PaxosLog, NewPaxosLog, OperationType, AnyValue

\* Reading a round, logged or not, yields a PaxosLog.
LEMMA GetPaxosLogType ==
    ASSUME NEW rounds, IsRounds(rounds), NEW r
    PROVE  GetPaxosLog(rounds, r) \in PaxosLog
  BY NewPaxosLogType DEF IsRounds, GetPaxosLog

\* Making a round exist keeps a log a map of positive rounds.
LEMMA AddRoundType ==
    ASSUME NEW rounds, IsRounds(rounds), NEW r \in Nat \ {0}
    PROVE  IsRounds(AddRound(rounds, r))
  <1> DEFINE new == AddRound(rounds, r)
  <1>1. DOMAIN new = DOMAIN rounds \cup {r}
    BY DEF AddRound
  <1>2. \A x \in DOMAIN new : new[x] \in PaxosLog
    BY GetPaxosLogType DEF AddRound
  <1>3. new = [x \in DOMAIN new |-> new[x]]
    BY DEF AddRound
  <1> QED BY <1>1, <1>2, <1>3 DEF IsRounds

\* So does writing an acceptance.
LEMMA AddAcceptedType ==
    ASSUME NEW rounds, IsRounds(rounds), NEW r \in Nat \ {0},
           NEW id \in Nat, NEW prop \in Proposal
    PROVE  IsRounds(AddAccepted(rounds, r, id, prop))
  <1> DEFINE new == AddAccepted(rounds, r, id, prop)
  <1>1. DOMAIN new = DOMAIN rounds \cup {r}
    BY DEF AddAccepted
  <1>2. \A x \in DOMAIN new : new[x] \in PaxosLog
    <2>1. GetPaxosLog(rounds, r).promised_id \in Nat
      BY GetPaxosLogType DEF PaxosLog
    <2>2. new[r] \in PaxosLog
      BY <2>1 DEF AddAccepted, PaxosLog, Proposal
    <2>3. ASSUME NEW x \in DOMAIN rounds, x # r PROVE new[x] \in PaxosLog
      BY <2>3 DEF AddAccepted, IsRounds
    <2> QED BY <1>1, <2>2, <2>3
  <1>3. new = [x \in DOMAIN new |-> new[x]]
    BY DEF AddAccepted
  <1> QED BY <1>1, <1>2, <1>3 DEF IsRounds

\* The proposer's locals keep their type when a call ends,
LEMMA PastCallType ==
    ASSUME TypeOK, NEW p \in Run, NEW s
    PROVE  PastCall(p, s) \in RunLocals
  <1>1. run[p] \in RunLocals
    BY DEF TypeOK
  <1>2. run[p].todo \ {s} \in SUBSET Server
    BY <1>1 DEF RunLocals
  <1> QED BY <1>1, <1>2 DEF PastCall, RunLocals

\* and when it ends with a promise.
LEMMA PromisedType ==
    ASSUME TypeOK, NEW p \in Run, NEW s \in Server, run[p].key \in Key
    PROVE  Promised(p, s) \in RunLocals
  <1>1. Log(p, s) \in PaxosLog
    BY GetPaxosLogType DEF TypeOK, Log
  <1> DEFINE old == PastCall(p, s)
  <1>2. old \in RunLocals
    BY PastCallType
  <1>3. [id |-> Log(p, s).accepted_id,
         prop |-> [type |-> Log(p, s).accepted_type, value |-> Log(p, s).accepted_value]]
            \in [id : Nat, prop : Proposal]
    BY <1>1 DEF PaxosLog, Proposal
  <1>4. old.promised \cup {s} \in SUBSET Server
    BY <1>2 DEF RunLocals
  <1>5. old.best \in [id : Nat, prop : Proposal]
    BY <1>2 DEF RunLocals
  <1> HIDE DEF old
  <1>6. \A b \in [id : Nat, prop : Proposal] :
          [old EXCEPT !.promised = old.promised \cup {s}, !.best = b] \in RunLocals
    BY <1>2, <1>4 DEF RunLocals
  <1> QED BY <1>3, <1>5, <1>6 DEF Promised, old

\* Whether or not the caller still waits, an answer keeps the type of run.
LEMMA AnswerType ==
    ASSUME TypeOK, NEW p \in Run, NEW phase, NEW s, NEW locals \in RunLocals,
           Answer(p, phase, s, locals)
    PROVE  run' \in [Run -> RunLocals]
  BY DEF TypeOK, Answer

-----------------------------------------------------------------------------
BeginsRight(p, s, key, op, phase, round, todo) ==
    /\ Begin(p, s, key, op, phase, round, todo)
    /\ op \in Operation
    /\ \/ phase = "ABORTED" /\ round = 0 /\ todo = {}
       \/ /\ phase = "Ping" /\ round > 0 /\ todo = Server
          /\ \A r \in DOMAIN logs[s][key] : r < round
          /\ key = CoordinatorKey <=> op.type = "SET_COORDINATOR"
          /\ op # NoProposal

\* What RunPaxos does to the state: it begins p in the Ping loop.
LEMMA RunPaxosBegins ==
    ASSUME TypeOK, NEW p \in Run, NEW s \in Server, NEW key \in Key, NEW op \in Operation,
           RunPaxos(p, s, key, op),
           key = CoordinatorKey <=> op.type = "SET_COORDINATOR", op # NoProposal
    PROVE  \E round \in Nat : BeginsRight(p, s, key, op, "Ping", round, Server)
  <1>1. PICK n \in DOMAIN logs[s][key] \cup {0} :
              IsLatestRound(logs[s][key], n) /\ Begin(p, s, key, op, "Ping", n + 1, Server)
    BY DEF RunPaxos
  <1>2. DOMAIN logs[s][key] \subseteq Nat
    BY DEF TypeOK, IsRounds
  <1>3. n \in Nat /\ n + 1 \in Nat /\ n + 1 > 0
    BY <1>1, <1>2
  <1>4. \A r \in DOMAIN logs[s][key] : r < n + 1
    BY <1>1, <1>2, <1>3 DEF IsLatestRound
  <1> QED BY <1>1, <1>3, <1>4 DEF BeginsRight

\* However a request arrives, it begins p right.
LEMMA ArriveBegins ==
    ASSUME TypeOK, NEW p \in Run, Arrive(p)
    PROVE  \E s \in Server, key \in Key, op \in Proposal, phase \in {"Ping", "ABORTED"},
              round \in Nat, todo \in SUBSET Server :
              BeginsRight(p, s, key, op, phase, round, todo)
  <1>1. ASSUME NEW s \in Server, NEW key \in Key, NEW op \in Operation, op # NoProposal,
               op.type # "SET_COORDINATOR", ClientRequest(p, s, key, op)
        PROVE  \E phase \in {"Ping", "ABORTED"}, round \in Nat, todo \in SUBSET Server :
                  BeginsRight(p, s, key, op, phase, round, todo)
    <2>1. CASE key = CoordinatorKey
      BY <1>1, <2>1 DEF ClientRequest, BeginsRight
    <2>2. CASE key # CoordinatorKey
      BY <1>1, <2>2, RunPaxosBegins DEF ClientRequest
    <2> QED BY <2>1, <2>2
  <1>2. ASSUME NEW s \in Server, NEW k \in Key, NEW v \in Value, PutPair(p, s, k, v)
        PROVE  \E op \in Proposal, phase \in {"Ping", "ABORTED"}, round \in Nat,
                  todo \in SUBSET Server : BeginsRight(p, s, k, op, phase, round, todo)
    <2>1. /\ [type |-> "SET", value |-> v] \in Proposal \cap Operation
          /\ [type |-> "SET", value |-> v].type # "SET_COORDINATOR"
          /\ [type |-> "SET", value |-> v] # NoProposal
      BY DEF Proposal, Operation, OperationType, AnyValue, NoProposal
    <2> QED BY <1>1, <1>2, <2>1 DEF PutPair
  <1>3. ASSUME NEW s \in Server, NEW k \in Key, DeletePair(p, s, k)
        PROVE  \E op \in Proposal, phase \in {"Ping", "ABORTED"}, round \in Nat,
                  todo \in SUBSET Server : BeginsRight(p, s, k, op, phase, round, todo)
    <2>1. /\ [type |-> "DELETE", value |-> Nil] \in Proposal \cap Operation
          /\ [type |-> "DELETE", value |-> Nil].type # "SET_COORDINATOR"
          /\ [type |-> "DELETE", value |-> Nil] # NoProposal
      BY DEF Proposal, Operation, OperationType, AnyValue, NoProposal
    <2> QED BY <1>1, <1>3, <2>1 DEF DeletePair
  <1>4. ASSUME NEW s \in Server, ElectCoordinator(p, s)
        PROVE  \E op \in Proposal, round \in Nat :
                  BeginsRight(p, s, CoordinatorKey, op, "Ping", round, Server)
    <2>1. /\ [type |-> "SET_COORDINATOR", value |-> s] \in Proposal \cap Operation
          /\ [type |-> "SET_COORDINATOR", value |-> s].type = "SET_COORDINATOR"
          /\ [type |-> "SET_COORDINATOR", value |-> s] # NoProposal
          /\ CoordinatorKey \in Key
      BY DEF Proposal, Operation, OperationType, AnyValue, NoProposal, Key
    <2> QED BY <1>4, <2>1, RunPaxosBegins DEF ElectCoordinator
  <1>5. CoordinatorKey \in Key
    BY DEF Key
  <1> QED BY <1>2, <1>3, <1>4, <1>5 DEF Arrive

\* A request arrives at a thread that had not begun, and writes its locals only.
LEMMA ArrivalIsNew ==
    ASSUME TypeOK, NEW p \in Run, Arrive(p)
    PROVE  /\ run[p].phase = "Idle"
           /\ prior' = [prior EXCEPT ![p] = {q \in Run : Returned(q)}]
           /\ UNCHANGED <<serverVars, handlers, faults, applied>>
  <1>1. PICK s \in Server, key \in Key, op \in Proposal, phase \in {"Ping", "ABORTED"},
             round \in Nat, todo \in SUBSET Server : Begin(p, s, key, op, phase, round, todo)
    BY ArriveBegins DEF BeginsRight
  <1> QED BY <1>1 DEF Begin

-----------------------------------------------------------------------------
Basic == TypeOK /\ Begun

\* A thread that is calling a replica has a key and a round.
LEMMA CallsRight ==
    ASSUME Basic, NEW p \in Run, NEW phase \in Working, NEW s, Calls(p, phase, s)
    PROVE  /\ run[p].phase = phase /\ Active(p)
           /\ run[p] \in RunLocals
           /\ run[p].key \in Key
           /\ run[p].round \in Nat \ {0}
           /\ s \in run[p].todo /\ s \in Server
  <1>1. run[p] \in RunLocals
    BY DEF Basic, TypeOK
  <1>2. run[p].phase = phase /\ s \in run[p].todo /\ Active(p)
    BY DEF Calls, Active
  <1>3. phase # "Idle" /\ phase # "ABORTED"
    BY DEF Working
  <1>4. run[p].round \in Nat /\ run[p].todo \subseteq Server
    BY <1>1 DEF RunLocals
  <1>5. run[p].key \in Key /\ run[p].round > 0
    BY <1>2, <1>3 DEF Basic, Begun
  <1> QED BY <1>1, <1>2, <1>4, <1>5

\* So has the thread whose handler is at work, and the server it is on runs,
LEMMA HandlerRight ==
    ASSUME Basic, NEW p \in Run, NEW s, NEW step, Handler(p, s, step) \in handlers
    PROVE  /\ s \in up /\ s \in Server
           /\ run[p].phase # "Idle"
           /\ run[p] \in RunLocals
           /\ run[p].key \in Key
           /\ run[p].round \in Nat \ {0}
  <1>1. run[p] \in RunLocals /\ up \subseteq Server
    BY DEF Basic, TypeOK
  <1>2. Handler(p, s, step).run = p /\ Handler(p, s, step).at = s
    BY DEF Handler
  <1>3. s \in up /\ run[p].phase # "Idle" /\ run[p].round > 0
    BY <1>2 DEF Basic, Begun
  <1>4. run[p].key \in Key
    BY <1>3 DEF Basic, Begun
  <1>5. run[p].round \in Nat
    BY <1>1 DEF RunLocals
  <1> QED BY <1>1, <1>3, <1>4, <1>5

\* also when the handler is only about to start.
LEMMA StartsRight ==
    ASSUME Basic, NEW p \in Run, NEW phase \in {"Prepare", "Propose", "Inform"}, NEW s,
           Starts(p, phase, s)
    PROVE  /\ s \in up /\ s \in Server
           /\ run[p].phase # "Idle"
           /\ run[p] \in RunLocals
           /\ run[p].key \in Key
           /\ run[p].round \in Nat \ {0}
  <1>1. CASE Calls(p, phase, s)
    BY <1>1, CallsRight DEF Starts, Working
  <1>2. CASE Handler(p, s, phase) \in handlers
    BY <1>2, HandlerRight
  <1> QED BY <1>1, <1>2 DEF Starts

\* What keeps Begun when a step changes the locals of the begun run p, and adds
\* no handlers but p's on running servers.
LEMMA BegunStep ==
    ASSUME Basic, NEW p \in Run, run' \in [Run -> RunLocals],
           \A q \in Run \ {p} : run'[q] = run[q],
           run[p].phase # "Idle", run[p].round > 0,
           run'[p].phase # "Idle",
           run'[p].key = run[p].key, run'[p].round = run[p].round,
           up' = up,
           \A h \in handlers' : h \in handlers \/ (h.run = p /\ h.at \in up)
    PROVE  Begun'
  <1>1. \A q \in Run : run'[q].phase = "Idle" => run'[q] = NotStarted
    BY DEF Basic, Begun
  <1>2. \A q \in Run : run'[q].phase # "Idle" =>
           run'[q].key \in Key /\ (run'[q].round > 0 \/ run'[q].phase = "ABORTED")
    BY DEF Basic, Begun
  <1>3. handlers \subseteq HandlerThread
    BY DEF Basic, TypeOK
  <1>4. \A h \in handlers : h.run \in Run
    BY <1>3 DEF HandlerThread
  <1>5. \A h \in handlers' : /\ h.at \in up'
                             /\ run'[h.run].phase # "Idle"
                             /\ run'[h.run].round > 0
    BY <1>4 DEF Basic, Begun
  <1> QED BY <1>1, <1>2, <1>5 DEF Begun, NotStarted, NothingAccepted, NoProposal

\* A handler in any of its steps is a handler thread.
LEMMA HandlerType ==
    \A p \in Run, s \in Server :
        \A step \in {"Prepare", "promise", "Propose", "accept", "Inform", "check", "execute"} :
            Handler(p, s, step) \in HandlerThread
  BY DEF Handler, HandlerThread

\* A call that outlives its caller leaves a handler of p on a running server.
LEMMA UnstartedType ==
    ASSUME Basic, NEW p \in Run, NEW s
    PROVE  /\ Unstarted(p, s) \subseteq HandlerThread
           /\ \A h \in Unstarted(p, s) :
                 /\ h.run = p /\ h.at = s /\ s \in up
                 /\ run[p].phase # "Idle" /\ run[p].round > 0
  <1> SUFFICES ASSUME NEW h \in Unstarted(p, s)
               PROVE  /\ h \in HandlerThread
                      /\ h.run = p /\ h.at = s /\ s \in up
                      /\ run[p].phase # "Idle" /\ run[p].round > 0
    OBVIOUS
  <1>1. PICK phase \in {"Prepare", "Propose", "Inform"} :
              h = Handler(p, s, phase) /\ Starts(p, phase, s)
    BY DEF Unstarted, LaterSteps
  <1>2. s \in up /\ s \in Server /\ run[p].phase # "Idle" /\ run[p].round > 0
    BY <1>1, StartsRight
  <1>3. h \in HandlerThread
    BY <1>1, <1>2, HandlerType
  <1> QED BY <1>1, <1>2, <1>3 DEF Handler

\* A handler that writes one key's log at one server leaves the others alone.
LEMMA LogsStep ==
    ASSUME TypeOK, NEW s \in Server, NEW k \in Key, NEW rounds, IsRounds(rounds),
           logs' = [logs EXCEPT ![s][k] = rounds]
    PROVE  /\ logs' = [t \in Server |-> [j \in Key |-> logs'[t][j]]]
           /\ \A t \in Server, j \in Key : IsRounds(logs'[t][j])
           /\ \A t \in Server, j \in Key :
                 logs'[t][j] = IF t = s /\ j = k THEN rounds ELSE logs[t][j]
  <1>1. logs = [t \in Server |-> [j \in Key |-> logs[t][j]]]
    BY DEF TypeOK
  <1>2. /\ logs' = [t \in Server |-> [j \in Key |-> logs'[t][j]]]
        /\ \A t \in Server, j \in Key :
              logs'[t][j] = IF t = s /\ j = k THEN rounds ELSE logs[t][j]
    BY <1>1
  <1>3. \A t \in Server, j \in Key : IsRounds(logs'[t][j])
    BY <1>2 DEF TypeOK
  <1> QED BY <1>2, <1>3

\* A handler that moves on adds no handlers but its own.
LEMMA MovedType ==
    ASSUME Basic, NEW p \in Run, NEW s \in Server, NEW from,
           NEW to \in SUBSET {"Prepare", "promise", "Propose", "accept",
                              "Inform", "check", "execute"},
           handlers' = Moved(p, s, from, to)
    PROVE  /\ handlers' \subseteq HandlerThread
           /\ \A h \in handlers' : h \in handlers \/ (h.run = p /\ h.at = s)
  <1>1. handlers \subseteq HandlerThread
    BY DEF Basic, TypeOK
  <1>2. \A step \in to : /\ Handler(p, s, step) \in HandlerThread
                         /\ Handler(p, s, step).run = p
                         /\ Handler(p, s, step).at = s
    BY HandlerType DEF Handler
  <1> QED BY <1>1, <1>2 DEF Moved

\* An answer changes the locals of its caller only, and never its phase or key.
LEMMA AnswerStep ==
    ASSUME Basic, NEW p \in Run, NEW phase \in Working, NEW s, NEW locals \in RunLocals,
           Answer(p, phase, s, locals),
           locals.phase = run[p].phase, locals.key = run[p].key,
           locals.round = run[p].round
    PROVE  /\ run' \in [Run -> RunLocals]
           /\ \A q \in Run \ {p} : run'[q] = run[q]
           /\ run'[p].phase = run[p].phase
           /\ run'[p].key = run[p].key
           /\ run'[p].round = run[p].round
  BY DEF Basic, TypeOK, Answer

\* The end of a call keeps the caller's phase, key and round,
LEMMA PastCallKeeps ==
    ASSUME TypeOK, NEW p \in Run, NEW s
    PROVE  /\ PastCall(p, s).phase = run[p].phase
           /\ PastCall(p, s).key = run[p].key
           /\ PastCall(p, s).round = run[p].round
  BY DEF TypeOK, PastCall, RunLocals

\* and so does a promise.
LEMMA PromisedKeeps ==
    ASSUME TypeOK, NEW p \in Run, NEW s
    PROVE  /\ Promised(p, s).phase = run[p].phase
           /\ Promised(p, s).key = run[p].key
           /\ Promised(p, s).round = run[p].round
  <1>1. run[p] \in RunLocals
    BY DEF TypeOK
  <1> QED BY <1>1 DEF PastCall, Promised, RunLocals

\* Basic holds at the start.
LEMMA BasicInit == Init => Basic
  <1> SUFFICES ASSUME Init PROVE Basic
    OBVIOUS
  <1> USE DEF Init
  <1>1. NotStarted \in RunLocals
    BY DEF NotStarted, NothingAccepted, NoProposal, RunLocals, Phase, Proposal,
           OperationType, AnyValue
  <1>2. logs = [s \in Server |-> [k \in Key |-> logs[s][k]]]
    OBVIOUS
  <1>3. \A s \in Server, k \in Key : IsRounds(logs[s][k])
    BY NoRoundsType
  <1>4. TypeOK
    BY <1>1, <1>2, <1>3 DEF TypeOK, AnyValue
  <1>5. Begun
    BY DEF Begun, NotStarted
  <1> QED BY <1>4, <1>5 DEF Basic

\* Every action but Begin and Die is a step of the thread of a begun run, or
\* of a handler of one.
LEMMA BasicArrive ==
    ASSUME Basic, NEW p \in Run, Arrive(p)
    PROVE  Basic'
  <1>1. PICK s \in Server, key \in Key, op \in Proposal, phase \in {"Ping", "ABORTED"},
             round \in Nat, todo \in SUBSET Server :
             BeginsRight(p, s, key, op, phase, round, todo)
    BY ArriveBegins DEF Basic
  <1> DEFINE new == [NotStarted EXCEPT !.phase = phase, !.server = s, !.key = key,
                        !.op = op, !.round = round, !.todo = todo]
  <1>2. /\ run[p].phase = "Idle"
        /\ run' = [run EXCEPT ![p] = new]
        /\ prior' = [prior EXCEPT ![p] = {q \in Run : Returned(q)}]
        /\ UNCHANGED <<up, logs, data, coordinator, handlers, faults, applied>>
    BY <1>1 DEF BeginsRight, Begin, serverVars
  <1>3. /\ new \in RunLocals
        /\ new.phase = phase /\ new.key = key /\ new.round = round
    BY DEF NotStarted, NothingAccepted, NoProposal, RunLocals, Phase, Working, Proposal,
           OperationType, AnyValue
  <1>4. round > 0 \/ phase = "ABORTED"
    BY <1>1 DEF BeginsRight
  <1> HIDE DEF new
  <1>5. TypeOK'
    BY <1>2, <1>3 DEF Basic, TypeOK
  <1>6. \A h \in handlers : h.run \in Run /\ h.run # p
    BY <1>2 DEF Basic, TypeOK, Begun, HandlerThread
  <1>7. run' \in [Run -> RunLocals] /\ run'[p] = new /\ \A q \in Run \ {p} : run'[q] = run[q]
    BY <1>2, <1>3 DEF Basic, TypeOK
  <1>8. Begun'
    BY <1>2, <1>3, <1>4, <1>6, <1>7 DEF Basic, Begun
  <1> QED BY <1>5, <1>8 DEF Basic

-----------------------------------------------------------------------------
(* How the locals of a begun run change.  Every invariant about runs follows *)
(* from these few changes instead of from the actions.                       *)

SameRequest(p, m) ==
    /\ m.server = run[p].server /\ m.key = run[p].key
    /\ m.op = run[p].op /\ m.round = run[p].round

SameBallot(p, m) ==
    /\ m.live = run[p].live /\ m.promised = run[p].promised /\ m.best = run[p].best

PastCalled(p, m, phase, s) ==
    /\ Calls(p, phase, s) /\ m.phase = phase /\ m.todo = run[p].todo \ {s}

GivesUpCall(p, m) ==
    /\ \E phase \in Working, s \in Server : PastCalled(p, m, phase, s)
    /\ SameBallot(p, m)
    /\ m.proposal = run[p].proposal /\ m.accepted = run[p].accepted

Pinged(p, m) ==
    \E s \in Server :
        /\ PastCalled(p, m, "Ping", s)
        /\ m.live = run[p].live \cup {s}
        /\ m.promised = run[p].promised /\ m.best = run[p].best
        /\ m.proposal = run[p].proposal /\ m.accepted = run[p].accepted

PromisedBy(p, m, s) ==
    /\ PastCalled(p, m, "Prepare", s)
    /\ Handler(p, s, "promise") \in handlers
    /\ m.live = run[p].live
    /\ m.promised = run[p].promised \cup {s}
    /\ m.best = IF Log(p, s).accepted_id > run[p].best.id
                THEN [id   |-> Log(p, s).accepted_id,
                      prop |-> [type  |-> Log(p, s).accepted_type,
                                value |-> Log(p, s).accepted_value]]
                ELSE run[p].best
    /\ m.proposal = run[p].proposal /\ m.accepted = run[p].accepted

AcceptedBy(p, m, s) ==
    /\ PastCalled(p, m, "Propose", s)
    /\ Handler(p, s, "accept") \in handlers
    /\ SameBallot(p, m)
    /\ m.proposal = run[p].proposal /\ m.accepted = run[p].accepted \cup {s}

Advances(p, m) ==
    /\ run[p].todo = {}
    /\ SameBallot(p, m)
    /\ m.accepted = run[p].accepted
    /\ \/ /\ run[p].phase = "Ping" /\ m.phase = "Prepare"
          /\ m.proposal = run[p].proposal /\ m.todo = run[p].live
       \/ /\ run[p].phase = "Prepare" /\ m.phase = "Propose" /\ m.todo = run[p].live
          /\ ReachesQuorum(run[p].promised, run[p].live)
          /\ m.proposal = IF run[p].best.id > 0 THEN run[p].best.prop ELSE run[p].op
       \/ /\ run[p].phase = "Propose" /\ m.phase = "Inform" /\ m.todo = run[p].live
          /\ ReachesQuorum(run[p].accepted, run[p].live)
          /\ m.proposal = run[p].proposal
       \/ /\ run[p].phase = "Inform" /\ m.phase = "OK"
          /\ m.proposal = run[p].proposal
       \/ /\ run[p].phase \in {"Ping", "Prepare", "Propose"} /\ m.phase = "ABORTED"
          /\ m.proposal = run[p].proposal

IsLost(p, m) ==
    /\ Active(p) /\ m.phase = "Lost"
    /\ SameBallot(p, m)
    /\ m.proposal = run[p].proposal /\ m.accepted = run[p].accepted

Change(p, m) ==
    \/ m = run[p]
    \/ /\ SameRequest(p, m)
       /\ \/ GivesUpCall(p, m) \/ Pinged(p, m) \/ Advances(p, m) \/ IsLost(p, m)
          \/ \E s \in Server : PromisedBy(p, m, s) \/ AcceptedBy(p, m, s)

\* The locals of p change to m, no other run changes.
ChangesTo(p, m) ==
    /\ m \in RunLocals /\ Change(p, m)
    /\ run' = [run EXCEPT ![p] = m]

\* The end of a call is a change its thread may make.
LEMMA PastCallChange ==
    ASSUME Basic, NEW p \in Run, NEW phase \in Working, NEW s, Calls(p, phase, s)
    PROVE  /\ PastCall(p, s) \in RunLocals
           /\ Change(p, PastCall(p, s))
  <1>1. run[p] \in RunLocals /\ s \in Server /\ run[p].phase = phase
    BY CallsRight
  <1>2. PastCall(p, s) \in RunLocals
    BY PastCallType DEF Basic
  <1>3. /\ PastCall(p, s).todo = run[p].todo \ {s}
        /\ PastCall(p, s).phase = phase
        /\ SameRequest(p, PastCall(p, s))
        /\ SameBallot(p, PastCall(p, s))
        /\ PastCall(p, s).proposal = run[p].proposal
        /\ PastCall(p, s).accepted = run[p].accepted
    BY <1>1 DEF PastCall, RunLocals, SameRequest, SameBallot
  <1>4. GivesUpCall(p, PastCall(p, s))
    BY <1>1, <1>3 DEF GivesUpCall, PastCalled
  <1> QED BY <1>2, <1>3, <1>4 DEF Change

\* A step of the thread itself changes its own locals only, as it may.
LEMMA ProceedChange ==
    ASSUME Basic, NEW p \in Run, Proceed(p)
    PROVE  /\ \E m \in RunLocals : ChangesTo(p, m)
           /\ Active(p)
           /\ UNCHANGED <<serverVars, handlers, faults, applied, prior>>
  <1>1. run[p] \in RunLocals
    BY DEF Basic, TypeOK
  <1>2. CASE PingDone(p)
    <2> DEFINE new == [run[p] EXCEPT
                          !.phase = IF run[p].live = {} THEN "ABORTED" ELSE "Prepare",
                          !.todo = run[p].live]
    <2>1. run' = [run EXCEPT ![p] = new]
      BY <1>2 DEF PingDone, Basic, TypeOK
    <2>2. new \in RunLocals
      BY <1>1 DEF RunLocals, Phase, Working
    <2>3. SameRequest(p, new) /\ Advances(p, new)
      BY <1>1, <1>2 DEF RunLocals, PingDone, Advances, SameRequest, SameBallot
    <2> QED BY <1>2, <2>1, <2>2, <2>3 DEF PingDone, Change, ChangesTo, Active, Working
  <1>3. CASE PrepareDone(p)
    <2> DEFINE prop == IF run[p].best.id > 0 THEN run[p].best.prop ELSE run[p].op
               new  == IF ReachesQuorum(run[p].promised, run[p].live)
                       THEN [run[p] EXCEPT !.phase = "Propose", !.todo = run[p].live,
                                           !.proposal = prop]
                       ELSE [run[p] EXCEPT !.phase = "ABORTED"]
    <2>1. run' = [run EXCEPT ![p] = new]
      BY <1>3 DEF PrepareDone, Basic, TypeOK
    <2>2. prop \in Proposal
      BY <1>1 DEF RunLocals
    <2> HIDE DEF prop
    <2>3. new \in RunLocals
      BY <1>1, <2>2 DEF RunLocals, Phase, Working
    <2>4. SameRequest(p, new) /\ Advances(p, new)
      BY <1>1, <1>3 DEF RunLocals, PrepareDone, Advances, SameRequest, SameBallot, prop
    <2> QED BY <1>3, <2>1, <2>3, <2>4 DEF PrepareDone, Change, ChangesTo, Active, Working
  <1>4. CASE ProposeDone(p)
    <2> DEFINE new  == IF ReachesQuorum(run[p].accepted, run[p].live)
                       THEN [run[p] EXCEPT !.phase = "Inform", !.todo = run[p].live]
                       ELSE [run[p] EXCEPT !.phase = "ABORTED"]
    <2>1. run' = [run EXCEPT ![p] = new]
      BY <1>4 DEF ProposeDone, Basic, TypeOK
    <2>2. new \in RunLocals
      BY <1>1 DEF RunLocals, Phase, Working
    <2>3. SameRequest(p, new) /\ Advances(p, new)
      BY <1>1, <1>4 DEF RunLocals, ProposeDone, Advances, SameRequest, SameBallot
    <2> QED BY <1>4, <2>1, <2>2, <2>3 DEF ProposeDone, Change, ChangesTo, Active, Working
  <1>5. CASE InformDone(p)
    <2> DEFINE new  == [run[p] EXCEPT !.phase = "OK"]
    <2>1. run' = [run EXCEPT ![p] = new]
      BY <1>5 DEF InformDone, Basic, TypeOK
    <2>2. new \in RunLocals
      BY <1>1 DEF RunLocals, Phase, Working
    <2>3. SameRequest(p, new) /\ Advances(p, new)
      BY <1>1, <1>5 DEF RunLocals, InformDone, Advances, SameRequest, SameBallot
    <2> QED BY <1>5, <2>1, <2>2, <2>3 DEF InformDone, Change, ChangesTo, Active, Working
  <1>6. ASSUME NEW s \in Server, Ping(p, s)
        PROVE  (\E m \in RunLocals : ChangesTo(p, m)) /\ Active(p)
    <2> DEFINE new == [PastCall(p, s) EXCEPT !.live = PastCall(p, s).live \cup {s}]
    <2>1. run' = [run EXCEPT ![p] = new]
      BY <1>6 DEF Ping
    <2>2. PastCall(p, s) \in RunLocals
      BY PastCallType DEF Basic
    <2>3. new \in RunLocals
      BY <2>2 DEF RunLocals
    <2>4. SameRequest(p, new) /\ Pinged(p, new)
      BY <1>1, <1>6 DEF RunLocals, PastCall, Ping, Pinged, PastCalled, SameRequest,
                        SameBallot, Calls
    <2> QED BY <1>6, <2>1, <2>3, <2>4 DEF Ping, Calls, Change, ChangesTo, Active, Working
  <1>7. ASSUME NEW s \in Server, Unreachable(p, s)
        PROVE  (\E m \in RunLocals : ChangesTo(p, m)) /\ Active(p)
    <2>1. PICK phase \in Working : Calls(p, phase, s)
      BY <1>7 DEF Unreachable
    <2> QED BY <1>7, <2>1, PastCallChange, CallsRight DEF Unreachable, ChangesTo
  <1>8. UNCHANGED <<serverVars, handlers, faults, applied, prior>>
    BY DEF Proceed, PingDone, PrepareDone, ProposeDone, InformDone, Ping, Unreachable
  <1> QED BY <1>2, <1>3, <1>4, <1>5, <1>6, <1>7, <1>8 DEF Proceed

\* The steps of requests and proposers write their own locals only.
LEMMA QuietSteps ==
    ASSUME Basic, NEW p \in Run, Arrive(p) \/ Proceed(p)
    PROVE  UNCHANGED <<serverVars, handlers, faults, applied>>
  BY ArrivalIsNew, ProceedChange DEF Basic

\* An answer changes the caller's locals as it may, or leaves them,
LEMMA AnswerChange ==
    ASSUME Basic, NEW p \in Run, NEW phase, NEW s, NEW locals,
           Answer(p, phase, s, locals),
           Calls(p, phase, s) => locals \in RunLocals /\ Change(p, locals)
    PROVE  \E m \in RunLocals : ChangesTo(p, m)
  <1>1. CASE Calls(p, phase, s)
    BY <1>1 DEF Answer, ChangesTo
  <1>2. CASE ~ Calls(p, phase, s)
    <2>1. run[p] \in RunLocals /\ run' = [run EXCEPT ![p] = run[p]] /\ Change(p, run[p])
      BY <1>2 DEF Answer, Basic, TypeOK, Change
    <2> QED BY <2>1 DEF ChangesTo
  <1> QED BY <1>1, <1>2

\* and so does an answer without a promise or an acceptance.
LEMMA PassChange ==
    ASSUME Basic, NEW p \in Run, NEW phase \in Working, NEW s,
           Answer(p, phase, s, PastCall(p, s))
    PROVE  \E m \in RunLocals : ChangesTo(p, m)
  BY AnswerChange, PastCallChange

\* Leaving all locals alone counts as such a change.
LEMMA StutterChange ==
    ASSUME Basic, NEW p \in Run, UNCHANGED run
    PROVE  \E m \in RunLocals : ChangesTo(p, m)
  BY DEF Basic, TypeOK, ChangesTo, Change

\* A handler's step changes the locals of its caller only, as it may.
LEMMA ServeChange ==
    ASSUME Basic, NEW p \in Run, NEW s \in Server, Serve(p, s)
    PROVE  \E m \in RunLocals : ChangesTo(p, m)
  <1>1. CASE PrepareBegin(p, s) \/ InformBegin(p, s)
    BY <1>1, StutterChange DEF PrepareBegin, InformBegin
  <1>2. CASE PrepareEnd(p, s)
    <2>1. CASE Answer(p, "Prepare", s, PastCall(p, s))
      BY <2>1, PassChange DEF Working
    <2>2. CASE Answer(p, "Prepare", s, Promised(p, s))
      <3>1. ASSUME Calls(p, "Prepare", s)
            PROVE  Promised(p, s) \in RunLocals /\ Change(p, Promised(p, s))
        <4>1. run[p] \in RunLocals /\ run[p].key \in Key /\ run[p].phase = "Prepare"
          BY <3>1, CallsRight DEF Working
        <4>2. Promised(p, s) \in RunLocals
          BY <4>1, PromisedType DEF Basic
        <4>3. SameRequest(p, Promised(p, s)) /\ PromisedBy(p, Promised(p, s), s)
          BY <1>2, <3>1, <4>1 DEF PrepareEnd, RunLocals, SameRequest, PromisedBy, PastCalled,
                                  Promised, PastCall
        <4> QED BY <4>2, <4>3 DEF Change
      <3> QED BY <2>2, <3>1, AnswerChange
    <2> QED BY <1>2, <2>1, <2>2 DEF PrepareEnd
  <1>3. CASE ProposeBegin(p, s)
    BY <1>3, PassChange, StutterChange DEF ProposeBegin, Working
  <1>4. CASE ProposeEnd(p, s)
    <2> DEFINE new == [PastCall(p, s) EXCEPT !.accepted = PastCall(p, s).accepted \cup {s}]
    <2>1. ASSUME Calls(p, "Propose", s)
          PROVE  new \in RunLocals /\ Change(p, new)
      <3>1. run[p] \in RunLocals /\ run[p].phase = "Propose"
        BY <2>1, CallsRight DEF Working
      <3>2. PastCall(p, s) \in RunLocals
        BY PastCallType DEF Basic
      <3>3. new \in RunLocals
        BY <3>2 DEF RunLocals
      <3>4. SameRequest(p, new) /\ AcceptedBy(p, new, s)
        BY <1>4, <2>1, <3>1 DEF ProposeEnd, RunLocals, SameRequest, SameBallot, AcceptedBy,
                                PastCalled, PastCall
      <3> QED BY <3>3, <3>4 DEF Change
    <2>2. Answer(p, "Propose", s, new)
      BY <1>4 DEF ProposeEnd
    <2> QED BY <2>1, <2>2, AnswerChange
  <1>5. CASE InformCheck(p, s)
    BY <1>5, PassChange, StutterChange DEF InformCheck, Working
  <1>6. CASE InformEnd(p, s)
    BY <1>6, PassChange DEF InformEnd, Working
  <1> QED BY <1>1, <1>2, <1>3, <1>4, <1>5, <1>6 DEF Serve

\* So does a deadline.
LEMMA DeadlineChange ==
    ASSUME Basic, NEW p \in Run, NEW s \in Server, DeadlineExceeded(p, s)
    PROVE  /\ \E m \in RunLocals : ChangesTo(p, m)
           /\ Active(p)
  <1>1. PICK phase \in Working : Calls(p, phase, s)
    BY DEF DeadlineExceeded
  <1> QED BY <1>1, PastCallChange, CallsRight DEF DeadlineExceeded, ChangesTo

\* After a change, p is as begun as before, and the rest of Begun stands.
LEMMA ChangeKeepsBegun ==
    ASSUME Basic, NEW p \in Run, NEW m \in RunLocals, ChangesTo(p, m),
           run[p].phase # "Idle", run[p].round > 0,
           up' = up,
           \A h \in handlers' : h \in handlers \/ (h.run = p /\ h.at \in up)
    PROVE  Begun' /\ run' \in [Run -> RunLocals]
  <1>1. /\ run' \in [Run -> RunLocals] /\ run'[p] = m
        /\ \A q \in Run \ {p} : run'[q] = run[q]
    BY DEF Basic, TypeOK, ChangesTo
  <1>2. m.phase # "Idle"
    <2>1. CASE m = run[p]
      BY <2>1
    <2>2. CASE GivesUpCall(p, m)
      BY <2>2 DEF GivesUpCall, PastCalled, Working
    <2>3. CASE Pinged(p, m)
      BY <2>3 DEF Pinged, PastCalled
    <2>4. CASE Advances(p, m)
      BY <2>4 DEF Advances
    <2>5. CASE IsLost(p, m)
      BY <2>5 DEF IsLost
    <2>6. ASSUME NEW s \in Server, PromisedBy(p, m, s) \/ AcceptedBy(p, m, s)
          PROVE  m.phase # "Idle"
      BY <2>6 DEF PromisedBy, AcceptedBy, PastCalled
    <2> QED BY <2>1, <2>2, <2>3, <2>4, <2>5, <2>6 DEF ChangesTo, Change
  <1>3. m.key = run[p].key /\ m.round = run[p].round
    BY DEF ChangesTo, Change, SameRequest
  <1> QED BY <1>1, <1>2, <1>3, BegunStep

\* A thread at work has begun.
LEMMA ActiveBegun ==
    ASSUME Basic, NEW p \in Run, Active(p)
    PROVE  run[p].phase # "Idle" /\ run[p].round > 0 /\ run[p].key \in Key
  BY DEF Basic, Begun, Active, Working

\* Basic is kept by the steps of the proposers.
LEMMA BasicProceed ==
    ASSUME Basic, NEW p \in Run, Proceed(p)
    PROVE  Basic'
  <1>1. PICK m \in RunLocals : ChangesTo(p, m)
    BY ProceedChange
  <1>2. Active(p) /\ UNCHANGED <<serverVars, handlers, faults, applied, prior>>
    BY ProceedChange
  <1>3. Begun' /\ run' \in [Run -> RunLocals]
    BY <1>1, <1>2, ChangeKeepsBegun, ActiveBegun DEF serverVars
  <1>4. TypeOK'
    BY <1>2, <1>3 DEF Basic, TypeOK, serverVars
  <1> QED BY <1>3, <1>4 DEF Basic

\* A handler that takes a step is on a running server, for a begun request.
LEMMA ServeRight ==
    ASSUME Basic, NEW p \in Run, NEW s \in Server, Serve(p, s)
    PROVE  /\ s \in up
           /\ run[p].phase # "Idle"
           /\ run[p] \in RunLocals
           /\ run[p].key \in Key
           /\ run[p].round \in Nat \ {0}
  <1>1. CASE PrepareBegin(p, s) \/ ProposeBegin(p, s) \/ InformBegin(p, s)
    BY <1>1, StartsRight DEF PrepareBegin, ProposeBegin, InformBegin
  <1>2. CASE PrepareEnd(p, s) \/ ProposeEnd(p, s) \/ InformCheck(p, s) \/ InformEnd(p, s)
    BY <1>2, HandlerRight DEF PrepareEnd, ProposeEnd, InformCheck, InformEnd
  <1> QED BY <1>1, <1>2 DEF Serve

\* A handler's step writes to the log of its instance on its server only, and
\* never takes an acceptance away.
LEMMA ServeHandlers ==
    ASSUME Basic, NEW p \in Run, NEW s \in Server, Serve(p, s)
    PROVE  /\ handlers' \subseteq HandlerThread
           /\ \A h \in handlers' : h \in handlers \/ (h.run = p /\ h.at = s)
  <1> DEFINE Steps == {"Prepare", "promise", "Propose", "accept", "Inform", "check", "execute"}
  <1>1. PICK from \in Steps, to \in SUBSET Steps : handlers' = Moved(p, s, from, to)
    <2>1. CASE PrepareBegin(p, s)
      BY <2>1 DEF PrepareBegin
    <2>2. CASE PrepareEnd(p, s)
      BY <2>2 DEF PrepareEnd
    <2>3. CASE ProposeBegin(p, s)
      BY <2>3 DEF ProposeBegin
    <2>4. CASE ProposeEnd(p, s)
      BY <2>4 DEF ProposeEnd
    <2>5. CASE InformBegin(p, s)
      BY <2>5 DEF InformBegin
    <2>6. CASE InformCheck(p, s)
      BY <2>6 DEF InformCheck
    <2>7. CASE InformEnd(p, s)
      BY <2>7 DEF InformEnd
    <2> QED BY <2>1, <2>2, <2>3, <2>4, <2>5, <2>6, <2>7 DEF Serve
  <1> QED BY <1>1, MovedType

\* A handler's step keeps the type of the logs,
LEMMA ServeLogs ==
    ASSUME Basic, NEW p \in Run, NEW s \in Server, Serve(p, s)
    PROVE  /\ logs' = [t \in Server |-> [j \in Key |-> logs'[t][j]]]
           /\ \A t \in Server, j \in Key : IsRounds(logs'[t][j])
  <1>1. run[p] \in RunLocals /\ run[p].key \in Key /\ run[p].round \in Nat \ {0}
    BY ServeRight
  <1>2. IsRounds(logs[s][run[p].key]) /\ run[p].proposal \in Proposal
    BY <1>1 DEF Basic, TypeOK, RunLocals
  <1>3. CASE PrepareBegin(p, s) \/ ProposeBegin(p, s)
    <2>1. logs' = [logs EXCEPT ![s][run[p].key] = AddRound(logs[s][run[p].key], run[p].round)]
      BY <1>3 DEF PrepareBegin, ProposeBegin
    <2> QED BY <2>1, <1>1, <1>2, AddRoundType, LogsStep DEF Basic
  <1>4. CASE ProposeEnd(p, s) \/ InformBegin(p, s)
    <2>1. logs' = [logs EXCEPT ![s][run[p].key] =
                      AddAccepted(logs[s][run[p].key], run[p].round, 1, run[p].proposal)]
      BY <1>4 DEF ProposeEnd, InformBegin
    <2>2. IsRounds(AddAccepted(logs[s][run[p].key], run[p].round, 1, run[p].proposal))
      BY <1>1, <1>2, AddAcceptedType
    <2> QED BY <2>1, <2>2, <1>1, LogsStep DEF Basic
  <1>5. CASE PrepareEnd(p, s) \/ InformCheck(p, s) \/ InformEnd(p, s)
    <2>1. UNCHANGED logs
      BY <1>5 DEF PrepareEnd, InformCheck, InformEnd, serverVars
    <2> QED BY <2>1 DEF Basic, TypeOK
  <1> QED BY <1>3, <1>4, <1>5 DEF Serve

\* and of what the replica stores; it touches no bound and no history of begins.
LEMMA ServeData ==
    ASSUME Basic, NEW p \in Run, NEW s \in Server, Serve(p, s)
    PROVE  /\ data' \in [Server -> [Key -> AnyValue]]
           /\ coordinator' \in [Server -> Server \cup {Nil}]
           /\ applied' \in [Server -> SUBSET Run]
           /\ UNCHANGED <<up, faults, prior>>
  <1>1. run[p] \in RunLocals /\ run[p].key \in Key
    BY ServeRight
  <1>2. CASE ~ InformEnd(p, s)
    <2>1. UNCHANGED <<up, data, coordinator, applied, faults, prior>>
      BY <1>2 DEF Serve, PrepareBegin, PrepareEnd, ProposeBegin, ProposeEnd, InformBegin,
                  InformCheck, serverVars
    <2> QED BY <2>1 DEF Basic, TypeOK
  <1>3. CASE InformEnd(p, s)
    <2>1. run[p].proposal.value \in AnyValue /\ Nil \in AnyValue
      BY <1>1 DEF RunLocals, Proposal, AnyValue
    <2>2. data' \in [Server -> [Key -> AnyValue]]
      <3>1. \/ data' = [data EXCEPT ![s] = SetValue(data[s], run[p].key, run[p].proposal.value)]
            \/ data' = [data EXCEPT ![s] = DeleteEntry(data[s], run[p].key)]
            \/ data' = data
        BY <1>3 DEF InformEnd, Execute
      <3>2. data \in [Server -> [Key -> AnyValue]]
        BY DEF Basic, TypeOK
      <3>3. /\ SetValue(data[s], run[p].key, run[p].proposal.value) \in [Key -> AnyValue]
            /\ DeleteEntry(data[s], run[p].key) \in [Key -> AnyValue]
        BY <1>1, <2>1, <3>2 DEF SetValue, DeleteEntry
      <3> QED BY <3>1, <3>2, <3>3
    <2>3. coordinator' \in [Server -> Server \cup {Nil}]
      BY <1>3 DEF InformEnd, Execute, Basic, TypeOK
    <2>4. applied' \in [Server -> SUBSET Run]
      BY <1>3 DEF InformEnd, Basic, TypeOK
    <2> QED BY <1>3, <2>2, <2>3, <2>4 DEF InformEnd
  <1> QED BY <1>2, <1>3

\* Basic is kept by the handlers,
LEMMA BasicServe ==
    ASSUME Basic, NEW p \in Run, NEW s \in Server, Serve(p, s)
    PROVE  Basic'
  <1>1. PICK m \in RunLocals : ChangesTo(p, m)
    BY ServeChange
  <1>2. Begun' /\ run' \in [Run -> RunLocals]
    BY <1>1, ServeRight, ServeHandlers, ServeData, ChangeKeepsBegun
  <1>3. TypeOK'
    BY <1>2, ServeHandlers, ServeLogs, ServeData DEF Basic, TypeOK
  <1> QED BY <1>2, <1>3 DEF Basic

\* by deadlines,
LEMMA BasicDeadline ==
    ASSUME Basic, NEW p \in Run, NEW s \in Server, DeadlineExceeded(p, s)
    PROVE  Basic'
  <1>1. PICK m \in RunLocals : ChangesTo(p, m)
    BY DeadlineChange
  <1>2. /\ UNCHANGED <<up, logs, data, coordinator, applied, prior>>
        /\ faults' = faults + 1
        /\ handlers' = handlers \/ handlers' = handlers \cup Unstarted(p, s)
    BY DEF DeadlineExceeded, serverVars
  <1>3. /\ handlers' \subseteq HandlerThread
        /\ \A h \in handlers' : h \in handlers \/ (h.run = p /\ h.at \in up)
    BY <1>2, UnstartedType DEF Basic, TypeOK
  <1>4. Begun' /\ run' \in [Run -> RunLocals]
    BY <1>1, <1>2, <1>3, DeadlineChange, ActiveBegun, ChangeKeepsBegun
  <1>5. TypeOK'
    BY <1>2, <1>3, <1>4 DEF Basic, TypeOK
  <1> QED BY <1>4, <1>5 DEF Basic

\* and by crashes.
LEMMA BasicDie ==
    ASSUME Basic, NEW s \in Server, Die(s)
    PROVE  Basic'
  <1>1. PICK late \in SUBSET CallsOf(s) :
              handlers' = {h \in handlers \cup late : h.at # s}
    BY DEF Die
  <1>2. \A h \in late : /\ h \in HandlerThread /\ h.at \in up
                        /\ run[h.run].phase # "Idle" /\ run[h.run].round > 0
    BY <1>1, UnstartedType DEF CallsOf, RunsOf
  <1>3. handlers \subseteq HandlerThread
    BY DEF Basic, TypeOK
  <1>4. \A h \in handlers' : /\ h \in HandlerThread /\ h.at \in up \ {s}
                             /\ run[h.run].phase # "Idle" /\ run[h.run].round > 0
    BY <1>1, <1>2, <1>3 DEF Basic, Begun
  <1>5. run \in [Run -> RunLocals]
    BY DEF Basic, TypeOK
  <1>6. /\ run' \in [Run -> RunLocals]
        /\ \A p \in Run :
              /\ run'[p].key = run[p].key /\ run'[p].round = run[p].round
              /\ \/ run'[p] = run[p]
                 \/ /\ Active(p) /\ run'[p].phase = "Lost"
                    /\ run'[p] = [run[p] EXCEPT !.phase = "Lost"]
    <2>1. \A p \in Run : /\ [run[p] EXCEPT !.phase = "Lost"] \in RunLocals
                         /\ [run[p] EXCEPT !.phase = "Lost"].phase = "Lost"
                         /\ [run[p] EXCEPT !.phase = "Lost"].key = run[p].key
                         /\ [run[p] EXCEPT !.phase = "Lost"].round = run[p].round
      BY <1>5 DEF RunLocals, Phase
    <2>2. run' = [p \in Run |-> IF p \in RunsOf(s) THEN [run[p] EXCEPT !.phase = "Lost"]
                                                   ELSE run[p]]
      BY DEF Die
    <2> QED BY <1>5, <2>1, <2>2 DEF RunsOf
  <1>7. /\ up' = up \ {s}
        /\ logs' = [logs EXCEPT ![s] = [k \in Key |-> NoRounds]]
        /\ data' = [data EXCEPT ![s] = [k \in Key |-> Nil]]
        /\ coordinator' = [coordinator EXCEPT ![s] = Nil]
        /\ applied' = [applied EXCEPT ![s] = {}]
        /\ UNCHANGED <<faults, prior>>
    BY DEF Die
  <1>8. logs' = [t \in Server |-> [k \in Key |-> logs'[t][k]]]
    <2>1. logs = [t \in Server |-> [k \in Key |-> logs[t][k]]]
      BY DEF Basic, TypeOK
    <2>2. \A t \in Server : logs'[t] = [k \in Key |-> logs'[t][k]]
      BY <1>7, <2>1
    <2>3. logs' = [t \in Server |-> logs'[t]]
      BY <1>7, <2>1
    <2> QED BY <2>2, <2>3
  <1>9. \A t \in Server, k \in Key : IsRounds(logs'[t][k])
    BY <1>7, NoRoundsType DEF Basic, TypeOK
  <1>10. TypeOK'
    BY <1>4, <1>6, <1>7, <1>8, <1>9 DEF Basic, TypeOK, AnyValue
  <1>11. Begun'
    <2>1. \A p \in Run : run'[p].phase = "Idle" => run'[p] = NotStarted
      BY <1>6 DEF Basic, Begun
    <2>2. \A p \in Run : run'[p].phase # "Idle" =>
             run'[p].key \in Key /\ (run'[p].round > 0 \/ run'[p].phase = "ABORTED")
      BY <1>6, ActiveBegun DEF Basic, Begun
    <2>3. \A h \in handlers' : h.run \in Run
      BY <1>4 DEF HandlerThread
    <2>4. \A h \in handlers' : run'[h.run].phase # "Idle" /\ run'[h.run].round > 0
      BY <1>4, <1>6, <2>3
    <2> QED BY <1>4, <1>7, <2>1, <2>2, <2>4 DEF Begun
  <1> QED BY <1>10, <1>11 DEF Basic

\* Basic is inductive.
LEMMA BasicStep == Basic /\ [AnyStep]_vars => Basic'
  <1> SUFFICES ASSUME Basic, [AnyStep]_vars PROVE Basic'
    OBVIOUS
  <1>1. CASE UNCHANGED vars
    BY <1>1 DEF Basic, TypeOK, Begun, vars, serverVars
  <1>2. CASE AnyStep
    BY <1>2, BasicArrive, BasicProceed, BasicServe, BasicDeadline, BasicDie DEF AnyStep
  <1> QED BY <1>1, <1>2

\* Every reachable state satisfies Basic.
LEMMA BasicInvariant == Spec => []Basic
  BY BasicInit, BasicStep, NextIsAnyStep, PTL DEF Spec

\* The state always has the shape that the C++ types give it.
THEOREM TypeCorrect == Spec => []TypeOK
  <1>1. Basic => TypeOK
    BY DEF Basic
  <1> QED BY <1>1, BasicInvariant, PTL
-----------------------------------------------------------------------------
(* Safety *)

Begins(p) ==
    \E s \in Server, key \in Key, op \in Proposal, phase \in {"Ping", "ABORTED"},
       round \in Nat, todo \in SUBSET Server :
          BeginsRight(p, s, key, op, phase, round, todo)

\* In any step, a thread's locals change as they may, or the thread begins.
LEMMA NextChange ==
    ASSUME Basic, [AnyStep]_vars, NEW p \in Run
    PROVE  Change(p, run'[p]) \/ Begins(p)
  <1>0. run \in [Run -> RunLocals]
    BY DEF Basic, TypeOK
  <1>1. ASSUME NEW q \in Run, NEW m \in RunLocals, ChangesTo(q, m)
        PROVE  Change(p, run'[p])
    <2>1. CASE p = q
      BY <1>0, <1>1, <2>1 DEF ChangesTo
    <2>2. CASE p # q
      <3>1. run'[p] = run[p]
        BY <1>0, <1>1, <2>2 DEF ChangesTo
      <3> QED BY <3>1 DEF Change
    <2> QED BY <2>1, <2>2
  <1>2. ASSUME NEW q \in Run, Arrive(q)
        PROVE  Change(p, run'[p]) \/ Begins(p)
    <2>1. Begins(q)
      BY <1>2, ArriveBegins DEF Basic, Begins
    <2>2. CASE p = q
      BY <2>1, <2>2
    <2>3. CASE p # q
      <3>1. run'[p] = run[p]
        BY <2>1, <2>3, <1>0 DEF Begins, BeginsRight, Begin
      <3> QED BY <3>1 DEF Change
    <2> QED BY <2>2, <2>3
  <1>3. ASSUME NEW s \in Server, Die(s)
        PROVE  Change(p, run'[p])
    <2>1. run' = [q \in Run |-> IF q \in RunsOf(s) THEN [run[q] EXCEPT !.phase = "Lost"]
                                                   ELSE run[q]]
      BY <1>3 DEF Die
    <2>2. CASE p \in RunsOf(s)
      <3>1. run'[p] = [run[p] EXCEPT !.phase = "Lost"] /\ Active(p) /\ run[p] \in RunLocals
        BY <1>0, <2>1, <2>2 DEF RunsOf
      <3>2. SameRequest(p, run'[p]) /\ IsLost(p, run'[p])
        BY <3>1 DEF RunLocals, SameRequest, IsLost, SameBallot
      <3> QED BY <3>2 DEF Change
    <2>3. CASE p \notin RunsOf(s)
      BY <2>1, <2>3 DEF Change
    <2> QED BY <2>2, <2>3
  <1>4. CASE UNCHANGED vars
    BY <1>4 DEF vars, Change
  <1>5. CASE AnyStep
    BY <1>1, <1>2, <1>3, <1>5, ProceedChange, ServeChange, DeadlineChange DEF AnyStep
  <1> QED BY <1>4, <1>5

-----------------------------------------------------------------------------
\* Sets of servers are finite, so that votes can be counted.
LEMMA ServerSets ==
    ASSUME NEW S \in SUBSET Server
    PROVE  IsFiniteSet(S) /\ Cardinality(S) \in Nat
  BY FS_Subset, FS_CardinalityType, ServerAssumption

\* The code's test, with its integer division, asks for a strict majority.
LEMMA QuorumIsMajority ==
    ASSUME NEW S \in SUBSET Server, NEW T \in SUBSET Server
    PROVE  ReachesQuorum(S, T) <=> Majority(S, T)
  <1>1. Cardinality(S) \in Nat /\ Cardinality(T) \in Nat
    BY ServerSets
  <1>2. \A a, b \in Nat : a > b \div 2 <=> 2 * a > b
    OBVIOUS
  <1> QED BY <1>1, <1>2 DEF ReachesQuorum, Majority

\* Two majorities of the same live set have a replica in common.
LEMMA MajoritiesMeet ==
    ASSUME NEW L \in SUBSET Server, NEW S \in SUBSET L, NEW T \in SUBSET L,
           Majority(S, L), Majority(T, L)
    PROVE  S \cap T # {}
  <1>1. /\ Cardinality(S) \in Nat /\ Cardinality(T) \in Nat /\ Cardinality(L) \in Nat
        /\ IsFiniteSet(L)
    BY ServerSets
  <1>2. Cardinality(S) + Cardinality(T) > Cardinality(L)
    BY <1>1 DEF Majority
  <1> QED BY <1>1, <1>2, FS_MajoritiesIntersect

\* More votes keep a majority.
LEMMA MajorityGrows ==
    ASSUME NEW L \in SUBSET Server, NEW S \in SUBSET Server, NEW T \in SUBSET S,
           Majority(T, L)
    PROVE  Majority(S, L)
  <1>1. /\ Cardinality(S) \in Nat /\ Cardinality(T) \in Nat /\ Cardinality(L) \in Nat
        /\ Cardinality(T) <= Cardinality(S)
    BY ServerSets, FS_Subset
  <1> QED BY <1>1 DEF Majority

\* A majority has a member.
LEMMA MajorityNotEmpty ==
    ASSUME NEW L \in SUBSET Server, NEW S \in SUBSET Server, Majority(S, L)
    PROVE  S # {}
  <1>1. Cardinality(L) \in Nat
    BY ServerSets
  <1> QED BY <1>1, FS_EmptySet DEF Majority

-----------------------------------------------------------------------------
\* What a step cannot change in the locals of p.
LEMMA Stable ==
    ASSUME Basic, RunsInOrder, [AnyStep]_vars, NEW p \in Run
    PROVE  /\ HasInstance(p) =>
                 /\ run'[p].key = run[p].key /\ run'[p].round = run[p].round
                 /\ run'[p].op = run[p].op /\ run'[p].server = run[p].server
           /\ HasProposed(p) =>
                 /\ run'[p].proposal = run[p].proposal
                 /\ run'[p].promised = run[p].promised
                 /\ run'[p].live = run[p].live
           /\ run[p].accepted \subseteq run'[p].accepted
           /\ Chosen(p) => HasProposed(p) /\ Chosen(p)'
  <1>0. run[p] \in RunLocals /\ run'[p] \in RunLocals
    BY BasicStep DEF Basic, TypeOK
  <1>1. CASE Begins(p)
    <2>1. run[p] = NotStarted
      BY <1>1 DEF Begins, BeginsRight, Begin, Basic, Begun
    <2>2. ~ HasInstance(p) /\ ~ HasProposed(p) /\ run[p].accepted = {}
      BY <2>1 DEF NotStarted, HasProposed
    <2>3. ~ Chosen(p)
      <3>1. run[p].live \in SUBSET Server /\ {} \in SUBSET Server
        BY <1>0 DEF RunLocals
      <3>2. ~ Majority({}, run[p].live)
        BY <3>1, MajorityNotEmpty
      <3> QED BY <2>2, <3>2 DEF Chosen, Majority
    <2> QED BY <2>2, <2>3
  <1>2. CASE Change(p, run'[p])
    <2>1. SameRequest(p, run'[p])
      BY <1>2 DEF Change, SameRequest
    <2>2. HasProposed(p) => run[p].phase \notin {"Ping", "Prepare"}
      BY DEF RunsInOrder
    <2>3. HasProposed(p) => /\ run'[p].proposal = run[p].proposal
                            /\ run'[p].promised = run[p].promised
                            /\ run'[p].live = run[p].live
      <3> SUFFICES ASSUME HasProposed(p)
                   PROVE  /\ run'[p].proposal = run[p].proposal
                          /\ run'[p].promised = run[p].promised
                          /\ run'[p].live = run[p].live
        OBVIOUS
      <3>1. CASE GivesUpCall(p, run'[p]) \/ IsLost(p, run'[p])
        BY <3>1 DEF GivesUpCall, IsLost, SameBallot
      <3>2. CASE Pinged(p, run'[p])
        BY <3>2, <2>2 DEF Pinged, PastCalled, Calls
      <3>3. CASE Advances(p, run'[p])
        BY <3>3, <2>2 DEF Advances, SameBallot
      <3>4. ASSUME NEW s \in Server, PromisedBy(p, run'[p], s)
            PROVE  FALSE
        BY <3>4, <2>2 DEF PromisedBy, PastCalled, Calls
      <3>5. ASSUME NEW s \in Server, AcceptedBy(p, run'[p], s)
            PROVE  /\ run'[p].proposal = run[p].proposal
                   /\ run'[p].promised = run[p].promised
                   /\ run'[p].live = run[p].live
        BY <3>5 DEF AcceptedBy, SameBallot
      <3> QED BY <1>2, <3>1, <3>2, <3>3, <3>4, <3>5 DEF Change
    <2>4. run[p].accepted \subseteq run'[p].accepted
      BY <1>2 DEF Change, GivesUpCall, Pinged, Advances, IsLost, PromisedBy, AcceptedBy
    <2>5. ASSUME Chosen(p)
          PROVE  HasProposed(p) /\ Chosen(p)'
      <3>1. run[p].live \in SUBSET Server /\ run[p].accepted \in SUBSET Server
            /\ run'[p].accepted \in SUBSET Server
        BY <1>0 DEF RunLocals
      <3>2. run[p].accepted # {}
        BY <2>5, <3>1, MajorityNotEmpty DEF Chosen, Majority
      <3>3. HasProposed(p)
        BY <3>2 DEF RunsInOrder
      <3>4. Majority(run'[p].accepted, run'[p].live)
        BY <2>3, <2>4, <2>5, <3>1, <3>3, MajorityGrows DEF Chosen, Majority
      <3> QED BY <3>3, <3>4 DEF Chosen, Majority
    <2> QED BY <2>1, <2>3, <2>4, <2>5 DEF SameRequest
  <1> QED BY <1>1, <1>2, NextChange

\* What has been requested in an instance stays requested.
LEMMA RequestedStable ==
    ASSUME Basic, RunsInOrder, [AnyStep]_vars, NEW p \in Run, NEW prop, Requested(p, prop)
    PROVE  Requested(p, prop)'
  <1>1. PICK q \in Run : SameInstance(p, q) /\ run[q].op = prop
    BY DEF Requested
  <1>2. HasInstance(p) /\ HasInstance(q)
    BY <1>1 DEF Requested, SameInstance
  <1>3. /\ run'[p].key = run[p].key /\ run'[p].round = run[p].round
        /\ run'[q].key = run[q].key /\ run'[q].round = run[q].round
        /\ run'[q].op = run[q].op
    BY <1>2, Stable
  <1> QED BY <1>1, <1>2, <1>3 DEF Requested, SameInstance

\* No step makes a client's request of an election, or the reverse.
LEMMA RequestsFitKeysStep ==
    ASSUME Basic, RequestsFitKeys, [AnyStep]_vars
    PROVE  RequestsFitKeys'
  <1> SUFFICES ASSUME NEW p \in Run, HasInstance(p)'
               PROVE  run'[p].op # NoProposal /\ FitsKey(run'[p].key, run'[p].op)
    BY DEF RequestsFitKeys, FitsKey
  <1>1. CASE Change(p, run'[p])
    <2>1. SameRequest(p, run'[p])
      BY <1>1 DEF Change, SameRequest
    <2> QED BY <2>1 DEF SameRequest, RequestsFitKeys
  <1>2. CASE Begins(p)
    <2>1. PICK s \in Server, key \in Key, op \in Proposal, phase \in {"Ping", "ABORTED"},
               round \in Nat, todo \in SUBSET Server :
               BeginsRight(p, s, key, op, phase, round, todo)
      BY <1>2 DEF Begins
    <2>2. run'[p].key = key /\ run'[p].op = op /\ run'[p].round = round
      BY <2>1 DEF BeginsRight, Begin, Basic, TypeOK, NotStarted
    <2> QED BY <2>1, <2>2 DEF BeginsRight, FitsKey
  <1> QED BY <1>1, <1>2, NextChange

\* What a promise carries back is the operation of a request of the instance.
LEMMA LogRequested ==
    ASSUME Basic, RunsInOrder, LogsHoldProposals, NEW p \in Run, HasInstance(p),
           NEW s \in Server, Log(p, s).accepted_id > 0
    PROVE  Requested(p, [type  |-> Log(p, s).accepted_type,
                         value |-> Log(p, s).accepted_value])
  <1>1. run[p].key \in Key
    BY DEF Basic, Begun, NotStarted
  <1>2. run[p].round \in DOMAIN logs[s][run[p].key]
    BY DEF Log, GetPaxosLog, NewPaxosLog
  <1>3. Log(p, s) = logs[s][run[p].key][run[p].round]
    BY <1>2 DEF Log, GetPaxosLog
  <1> DEFINE k == run[p].key
             r == run[p].round
  <1>4. PICK q \in Run : /\ run[q].key = k /\ run[q].round = r
                         /\ HasProposed(q)
                         /\ run[q].proposal = [type  |-> logs[s][k][r].accepted_type,
                                               value |-> logs[s][k][r].accepted_value]
    <2>1. k \in Key /\ r \in DOMAIN logs[s][k] /\ logs[s][k][r].accepted_id > 0
      BY <1>1, <1>2, <1>3
    <2> HIDE DEF k, r
    <2> QED BY <2>1 DEF LogsHoldProposals
  <1>5. \A x \in Run : HasProposed(x) => Requested(x, run[x].proposal)
    BY DEF RunsInOrder
  <1>6. Requested(q, run[q].proposal)
    BY <1>4, <1>5
  <1>7. Log(p, s).accepted_type = logs[s][k][r].accepted_type
        /\ Log(p, s).accepted_value = logs[s][k][r].accepted_value
    BY <1>3
  <1> QED BY <1>4, <1>6, <1>7 DEF Requested, SameInstance

\* RunsInOrder for one run.
InOrder(p) ==
    /\ run[p].best.id > 0 => Requested(p, run[p].best.prop)
    /\ HasProposed(p) => /\ Requested(p, run[p].proposal)
                         /\ Majority(run[p].promised, run[p].live)
    /\ run[p].phase \in {"Idle", "Ping", "Prepare"} =>
          ~ HasProposed(p) /\ run[p].accepted = {}
    /\ run[p].accepted # {} => HasProposed(p)
    /\ run[p].phase \in {"Propose", "Inform", "OK"} => HasProposed(p)
    /\ run[p].phase \in {"Inform", "OK"} => Chosen(p)

\* A thread that keeps what it has collected stays in order, even if it ends.
LEMMA InOrderSame ==
    ASSUME Basic, RunsInOrder, [AnyStep]_vars, NEW p \in Run,
           run'[p].best = run[p].best, run'[p].proposal = run[p].proposal,
           run'[p].promised = run[p].promised, run'[p].live = run[p].live,
           run'[p].accepted = run[p].accepted,
           run'[p].phase = run[p].phase \/ run'[p].phase \in {"ABORTED", "Lost"}
    PROVE  InOrder(p)'
  <1>1. InOrder(p)
    BY DEF RunsInOrder, InOrder
  <1>2. \A prop : Requested(p, prop) => Requested(p, prop)'
    BY RequestedStable
  <1> QED BY <1>1, <1>2 DEF InOrder, HasProposed, Chosen, Majority

\* Each step keeps one thread in order,
LEMMA InOrderStep ==
    ASSUME Basic, RequestsFitKeys, RunsInOrder, HandlersInOrder, LogsHoldProposals,
           [AnyStep]_vars, NEW p \in Run
    PROVE  InOrder(p)'
  <1>0. /\ run[p] \in RunLocals /\ run'[p] \in RunLocals
        /\ InOrder(p)
        /\ \A prop : Requested(p, prop) => Requested(p, prop)'
    BY BasicStep, RequestedStable DEF Basic, TypeOK, RunsInOrder, InOrder
  <1>1. CASE Begins(p)
    <2>1. /\ run'[p].best = NothingAccepted /\ run'[p].proposal = NoProposal
          /\ run'[p].accepted = {} /\ run'[p].phase \in {"Ping", "ABORTED"}
      BY <1>1 DEF Begins, BeginsRight, Begin, Basic, TypeOK, NotStarted
    <2> QED BY <2>1 DEF InOrder, HasProposed, NothingAccepted
  <1>2. CASE run'[p] = run[p] \/ GivesUpCall(p, run'[p]) \/ IsLost(p, run'[p])
    BY <1>2, InOrderSame DEF GivesUpCall, IsLost, SameBallot, PastCalled, Calls
  <1>3. CASE Pinged(p, run'[p])
    BY <1>0, <1>3 DEF Pinged, PastCalled, Calls, InOrder, HasProposed
  <1>4. CASE \E s \in Server : PromisedBy(p, run'[p], s)
    <2>1. PICK s \in Server : PromisedBy(p, run'[p], s)
      BY <1>4
    <2>2. /\ run[p].phase = "Prepare" /\ run'[p].phase = "Prepare"
          /\ run'[p].proposal = run[p].proposal /\ run'[p].accepted = run[p].accepted
      BY <2>1 DEF PromisedBy, PastCalled, Calls
    <2>3. ~ HasProposed(p) /\ run[p].accepted = {}
      BY <1>0, <2>2 DEF InOrder
    <2>4. ASSUME run'[p].best.id > 0
          PROVE  Requested(p, run'[p].best.prop)
      <3>1. HasInstance(p) /\ run[p].key \in Key
        BY <2>2 DEF Basic, Begun
      <3>2. Log(p, s) \in PaxosLog /\ run[p].best.id \in Nat
        BY <1>0, <3>1, GetPaxosLogType DEF Log, Basic, TypeOK, RunLocals
      <3>3. CASE Log(p, s).accepted_id > run[p].best.id
        <4>1. Log(p, s).accepted_id > 0
          BY <3>2, <3>3 DEF PaxosLog
        <4>2. run'[p].best.prop = [type  |-> Log(p, s).accepted_type,
                                   value |-> Log(p, s).accepted_value]
          BY <2>1, <3>3 DEF PromisedBy
        <4> QED BY <3>1, <4>1, <4>2, LogRequested
      <3>4. CASE ~ (Log(p, s).accepted_id > run[p].best.id)
        BY <1>0, <2>1, <2>4, <3>4 DEF PromisedBy, InOrder
      <3> QED BY <3>3, <3>4
    <2> QED BY <1>0, <2>2, <2>3, <2>4 DEF InOrder, HasProposed
  <1>5. CASE \E s \in Server : AcceptedBy(p, run'[p], s)
    <2>1. PICK s \in Server : AcceptedBy(p, run'[p], s)
      BY <1>5
    <2>2. /\ run[p].phase = "Propose" /\ run'[p].phase = "Propose"
          /\ run'[p].proposal = run[p].proposal /\ run'[p].best = run[p].best
          /\ run'[p].promised = run[p].promised /\ run'[p].live = run[p].live
      BY <2>1 DEF AcceptedBy, PastCalled, Calls, SameBallot
    <2> QED BY <1>0, <2>2 DEF InOrder, HasProposed, Majority
  <1>6. CASE Advances(p, run'[p])
    <2>1. /\ run'[p].best = run[p].best /\ run'[p].accepted = run[p].accepted
          /\ run'[p].promised = run[p].promised /\ run'[p].live = run[p].live
      BY <1>6 DEF Advances, SameBallot
    <2>2. CASE run[p].phase = "Ping" /\ run'[p].phase = "Prepare"
      BY <1>0, <1>6, <2>1, <2>2 DEF Advances, InOrder, HasProposed
    <2>3. CASE run[p].phase = "Prepare" /\ run'[p].phase = "Propose"
      <3>1. HasInstance(p)
        BY <2>3 DEF Basic, Begun
      <3>2. Requested(p, run[p].op) /\ run[p].op # NoProposal
        BY <3>1 DEF Requested, SameInstance, RequestsFitKeys
      <3>3. Requested(p, run'[p].proposal)
        BY <1>0, <1>6, <2>3, <3>2 DEF Advances, InOrder
      <3>4. run'[p].proposal # NoProposal
        BY <3>1, <3>3 DEF Requested, SameInstance, RequestsFitKeys
      <3>5. Majority(run[p].promised, run[p].live)
        BY <1>0, <1>6, <2>3, QuorumIsMajority DEF Advances, RunLocals
      <3>6. run[p].accepted = {}
        BY <1>0, <2>3 DEF InOrder
      <3> QED BY <1>0, <2>1, <2>3, <3>3, <3>4, <3>5, <3>6 DEF InOrder, HasProposed
    <2>4. CASE run[p].phase = "Propose" /\ run'[p].phase = "Inform"
      <3>1. run'[p].proposal = run[p].proposal
        BY <1>6, <2>4 DEF Advances
      <3>2. Majority(run[p].accepted, run[p].live)
        BY <1>0, <1>6, <2>4, QuorumIsMajority DEF Advances, RunLocals
      <3> QED BY <1>0, <2>1, <2>4, <3>1, <3>2 DEF InOrder, HasProposed, Chosen, Majority
    <2>5. CASE run[p].phase = "Inform" /\ run'[p].phase = "OK"
      <3>1. run'[p].proposal = run[p].proposal
        BY <1>6, <2>5 DEF Advances
      <3> QED BY <1>0, <2>1, <2>5, <3>1 DEF InOrder, HasProposed, Chosen
    <2>6. CASE run'[p].phase = "ABORTED"
      <3>1. run'[p].proposal = run[p].proposal
        BY <1>6, <2>6 DEF Advances
      <3> QED BY <2>1, <2>6, <3>1, InOrderSame
    <2> QED BY <1>6, <2>2, <2>3, <2>4, <2>5, <2>6 DEF Advances
  <1> QED BY <1>1, <1>2, <1>3, <1>4, <1>5, <1>6, NextChange DEF Change

\* and so all of them.
LEMMA RunsInOrderStep ==
    ASSUME Basic, RequestsFitKeys, RunsInOrder, HandlersInOrder, LogsHoldProposals,
           [AnyStep]_vars
    PROVE  RunsInOrder'
  BY InOrderStep DEF InOrder, RunsInOrder

-----------------------------------------------------------------------------
\* The thread behind a handler has come as far as the handler says.
LEMMA HandlerOf ==
    ASSUME Basic, HandlersInOrder, NEW p \in Run, NEW s, NEW step,
           Handler(p, s, step) \in handlers
    PROVE  /\ step \in {"Propose", "accept"} => HasProposed(p)
           /\ step \in {"Inform", "check", "execute"} => Chosen(p)
  <1>1. Handler(p, s, step).run = p /\ Handler(p, s, step).step = step
    BY DEF Handler
  <1> QED BY <1>1 DEF HandlersInOrder

\* A handler about to start acts on a proposal, or on a chosen one.
LEMMA StartsInOrder ==
    ASSUME Basic, RunsInOrder, HandlersInOrder, NEW p \in Run,
           NEW phase \in {"Prepare", "Propose", "Inform"}, NEW s, Starts(p, phase, s)
    PROVE  /\ phase = "Propose" => HasProposed(p)
           /\ phase = "Inform" => Chosen(p)
  <1>1. CASE Calls(p, phase, s)
    BY <1>1 DEF Calls, RunsInOrder
  <1>2. CASE Handler(p, s, phase) \in handlers
    BY <1>2, HandlerOf
  <1> QED BY <1>1, <1>2 DEF Starts

\* The run of the handler h is as far as the handler's step requires.
RunFitsHandler(h) ==
    /\ h.step \in {"Propose", "accept"} => HasProposed(h.run)
    /\ h.step \in {"Inform", "check", "execute"} => Chosen(h.run)

\* So does one that outlives its caller.
LEMMA UnstartedInOrder ==
    ASSUME Basic, RunsInOrder, HandlersInOrder, NEW p \in Run, NEW s
    PROVE  \A h \in Unstarted(p, s) : RunFitsHandler(h)
  <1> SUFFICES ASSUME NEW h \in Unstarted(p, s) PROVE RunFitsHandler(h)
    OBVIOUS
  <1>1. PICK phase \in {"Prepare", "Propose", "Inform"} :
              h = Handler(p, s, phase) /\ Starts(p, phase, s)
    BY DEF Unstarted, LaterSteps
  <1>2. h.run = p /\ h.step = phase
    BY <1>1 DEF Handler
  <1> QED BY <1>1, <1>2, StartsInOrder DEF RunFitsHandler

\* Every handler after a step fits its thread as that is after the step.
LEMMA HandlersFit ==
    ASSUME Basic, RunsInOrder, HandlersInOrder, [AnyStep]_vars, NEW h \in handlers'
    PROVE  RunFitsHandler(h)
  <1>1. ASSUME h \in handlers PROVE RunFitsHandler(h)
    BY <1>1 DEF HandlersInOrder, RunFitsHandler
  <1>2. ASSUME NEW p \in Run, NEW s \in Server, Serve(p, s), h \notin handlers
        PROVE  RunFitsHandler(h)
    <2>1. ASSUME NEW from, NEW step, handlers' = Moved(p, s, from, {step})
          PROVE  h.run = p /\ h.step = step
      BY <1>2, <2>1 DEF Moved, Handler
    <2>2. ASSUME NEW from, handlers' = Moved(p, s, from, {})
          PROVE  FALSE
      BY <1>2, <2>2 DEF Moved
    <2>3. CASE PrepareBegin(p, s)
      BY <2>1, <2>3 DEF PrepareBegin, RunFitsHandler
    <2>4. CASE PrepareEnd(p, s)
      BY <2>2, <2>4 DEF PrepareEnd
    <2>5. CASE ProposeBegin(p, s)
      <3>1. HasProposed(p)
        BY <2>5, StartsInOrder DEF ProposeBegin
      <3> QED BY <2>1, <2>2, <2>5, <3>1 DEF ProposeBegin, RunFitsHandler
    <2>6. CASE ProposeEnd(p, s)
      BY <2>2, <2>6 DEF ProposeEnd
    <2>7. CASE InformBegin(p, s)
      <3>1. Chosen(p)
        BY <2>7, StartsInOrder DEF InformBegin
      <3> QED BY <2>1, <2>7, <3>1 DEF InformBegin, RunFitsHandler
    <2>8. CASE InformCheck(p, s)
      <3>1. Chosen(p)
        BY <2>8, HandlerOf DEF InformCheck
      <3> QED BY <2>1, <2>2, <2>8, <3>1 DEF InformCheck, RunFitsHandler
    <2>9. CASE InformEnd(p, s)
      BY <2>2, <2>9 DEF InformEnd
    <2> QED BY <1>2, <2>3, <2>4, <2>5, <2>6, <2>7, <2>8, <2>9 DEF Serve
  <1>3. ASSUME NEW p \in Run, NEW s \in Server, DeadlineExceeded(p, s)
        PROVE  RunFitsHandler(h)
    BY <1>1, <1>3, UnstartedInOrder DEF DeadlineExceeded
  <1>4. ASSUME NEW s \in Server, Die(s)
        PROVE  RunFitsHandler(h)
    <2>1. h \in handlers \/ h \in CallsOf(s)
      BY <1>4 DEF Die
    <2> QED BY <1>1, <2>1, UnstartedInOrder DEF CallsOf, RunsOf
  <1>5. ASSUME NEW p \in Run, Arrive(p) \/ Proceed(p)
        PROVE  RunFitsHandler(h)
    <2>1. UNCHANGED handlers
      BY <1>5, QuietSteps
    <2> QED BY <1>1, <2>1
  <1>6. CASE UNCHANGED vars
    BY <1>1, <1>6 DEF vars
  <1> QED BY <1>1, <1>2, <1>3, <1>4, <1>5, <1>6 DEF AnyStep

\* Acceptors and learners keep acting on proposals and on chosen ones only.
LEMMA HandlersInOrderStep ==
    ASSUME Basic, RunsInOrder, HandlersInOrder, [AnyStep]_vars
    PROVE  HandlersInOrder'
  <1> SUFFICES ASSUME NEW h \in handlers'
               PROVE  /\ h.step \in {"Propose", "accept"} => HasProposed(h.run)'
                      /\ h.step \in {"Inform", "check", "execute"} => Chosen(h.run)'
    BY DEF HandlersInOrder
  <1>1. RunFitsHandler(h)
    BY HandlersFit
  <1>2. h.run \in Run
    BY BasicStep DEF Basic, TypeOK, HandlerThread
  <1> QED BY <1>1, <1>2, Stable DEF RunFitsHandler, HasProposed

-----------------------------------------------------------------------------
\* How the log of an instance changes at a server that does not crash: it may
\* be written, it is never removed, its acceptance never taken back.
LEMMA LogsChange ==
    ASSUME Basic, RunsInOrder, HandlersInOrder, [AnyStep]_vars,
           NEW s \in Server, NEW k \in Key, NEW r \in DOMAIN logs'[s][k]
    PROVE  \/ r \in DOMAIN logs[s][k] /\ logs'[s][k][r] = logs[s][k][r]
           \/ logs'[s][k][r] = NewPaxosLog
           \/ \E p \in Run : /\ HasProposed(p) /\ run[p].key = k /\ run[p].round = r
                             /\ logs'[s][k][r].accepted_id = 1
                             /\ run[p].proposal =
                                   [type  |-> logs'[s][k][r].accepted_type,
                                    value |-> logs'[s][k][r].accepted_value]
  <1> DEFINE Goal ==
        \/ r \in DOMAIN logs[s][k] /\ logs'[s][k][r] = logs[s][k][r]
        \/ logs'[s][k][r] = NewPaxosLog
        \/ \E p \in Run : /\ HasProposed(p) /\ run[p].key = k /\ run[p].round = r
                          /\ logs'[s][k][r].accepted_id = 1
                          /\ run[p].proposal =
                                [type  |-> logs'[s][k][r].accepted_type,
                                 value |-> logs'[s][k][r].accepted_value]
  <1> SUFFICES Goal
    OBVIOUS
  <1>1. ASSUME logs'[s][k] = logs[s][k] PROVE Goal
    BY <1>1
  <1>2. ASSUME NEW p \in Run, NEW t \in Server, Serve(p, t)
        PROVE  Goal
    <2>1. run[p] \in RunLocals /\ run[p].key \in Key /\ run[p].round \in Nat \ {0}
      BY <1>2, ServeRight
    <2>2. IsRounds(logs[t][run[p].key]) /\ run[p].proposal \in Proposal
      BY <2>1 DEF Basic, TypeOK, RunLocals
    <2>3. CASE PrepareBegin(p, t) \/ ProposeBegin(p, t)
      <3> DEFINE rounds == AddRound(logs[t][run[p].key], run[p].round)
      <3>1. logs' = [logs EXCEPT ![t][run[p].key] = rounds]
        BY <2>3 DEF PrepareBegin, ProposeBegin
      <3>2. IsRounds(rounds)
        BY <2>1, <2>2, AddRoundType
      <3> HIDE DEF rounds
      <3>3. logs'[s][k] = IF s = t /\ k = run[p].key THEN rounds ELSE logs[s][k]
        <4>1. \A i \in Server, j \in Key :
                 logs'[i][j] = IF i = t /\ j = run[p].key THEN rounds ELSE logs[i][j]
          <5>1. logs = [i \in Server |-> [j \in Key |-> logs[i][j]]]
            BY DEF Basic, TypeOK
          <5> QED BY <2>1, <3>1, <5>1
        <4> QED BY <4>1
      <3> QED BY <1>1, <3>3 DEF AddRound, GetPaxosLog, rounds
    <2>4. CASE ProposeEnd(p, t) \/ InformBegin(p, t)
      <3> DEFINE rounds == AddAccepted(logs[t][run[p].key], run[p].round, 1, run[p].proposal)
      <3>1. logs' = [logs EXCEPT ![t][run[p].key] = rounds]
        BY <2>4 DEF ProposeEnd, InformBegin
      <3>2. IsRounds(rounds)
        BY <2>1, <2>2, AddAcceptedType
      <3> HIDE DEF rounds
      <3>3. logs'[s][k] = IF s = t /\ k = run[p].key THEN rounds ELSE logs[s][k]
        <4>1. \A i \in Server, j \in Key :
                 logs'[i][j] = IF i = t /\ j = run[p].key THEN rounds ELSE logs[i][j]
          <5>1. logs = [i \in Server |-> [j \in Key |-> logs[i][j]]]
            BY DEF Basic, TypeOK
          <5> QED BY <2>1, <3>1, <5>1
        <4> QED BY <4>1
      <3>4. HasProposed(p)
        <4>1. CASE ProposeEnd(p, t)
          BY <4>1, HandlerOf DEF ProposeEnd
        <4>2. CASE InformBegin(p, t)
          <5>1. Chosen(p)
            BY <4>2, StartsInOrder DEF InformBegin
          <5> QED BY <5>1, Stable
        <4> QED BY <2>4, <4>1, <4>2
      <3>5. CASE s = t /\ k = run[p].key /\ r = run[p].round
        <4>1. logs'[s][k][r] = [promised_id    |-> GetPaxosLog(logs[t][k], r).promised_id,
                                accepted_id    |-> 1,
                                accepted_type  |-> run[p].proposal.type,
                                accepted_value |-> run[p].proposal.value]
          BY <3>3, <3>5 DEF AddAccepted, rounds
        <4>2. run[p].proposal = [type  |-> run[p].proposal.type,
                                 value |-> run[p].proposal.value]
          BY <2>2 DEF Proposal
        <4> QED BY <3>4, <3>5, <4>1, <4>2
      <3>6. CASE s = t /\ k = run[p].key /\ r # run[p].round
        <4>1. logs'[s][k] = AddAccepted(logs[s][k], run[p].round, 1, run[p].proposal)
          BY <3>3, <3>6 DEF rounds
        <4>2. r \in DOMAIN logs[s][k] /\ logs'[s][k][r] = logs[s][k][r]
          BY <3>6, <4>1 DEF AddAccepted
        <4> QED BY <4>2
      <3> QED BY <1>1, <3>3, <3>5, <3>6
    <2>5. CASE PrepareEnd(p, t) \/ InformCheck(p, t) \/ InformEnd(p, t)
      BY <1>1, <2>5 DEF PrepareEnd, InformCheck, InformEnd, serverVars
    <2> QED BY <1>2, <2>3, <2>4, <2>5 DEF Serve
  <1>3. ASSUME NEW t \in Server, Die(t)
        PROVE  Goal
    <2>1. logs' = [logs EXCEPT ![t] = [j \in Key |-> NoRounds]]
      BY <1>3 DEF Die
    <2>2. CASE s = t
      BY <2>1, <2>2 DEF Basic, TypeOK, NoRounds
    <2>3. CASE s # t
      BY <1>1, <2>1, <2>3 DEF Basic, TypeOK
    <2> QED BY <2>2, <2>3
  <1>4. ASSUME NEW p \in Run, Arrive(p) \/ Proceed(p)
        PROVE  Goal
    <2>1. UNCHANGED logs
      BY <1>4, QuietSteps DEF serverVars
    <2> QED BY <1>1, <2>1
  <1>5. ASSUME NEW p \in Run, NEW t \in Server, DeadlineExceeded(p, t)
        PROVE  Goal
    BY <1>1, <1>5 DEF DeadlineExceeded, serverVars
  <1>6. CASE UNCHANGED vars
    BY <1>1, <1>6 DEF vars, serverVars
  <1> QED BY <1>2, <1>3, <1>4, <1>5, <1>6 DEF AnyStep

\* No step logs an acceptance of what was not proposed in that instance.
LEMMA LogsHoldProposalsStep ==
    ASSUME Basic, RunsInOrder, HandlersInOrder, LogsHoldProposals, [AnyStep]_vars
    PROVE  LogsHoldProposals'
  <1> SUFFICES ASSUME NEW s \in Server, NEW k \in Key, NEW r \in DOMAIN logs'[s][k],
                      logs'[s][k][r].accepted_id > 0
               PROVE  \E p \in Run :
                         /\ run'[p].key = k /\ run'[p].round = r /\ HasProposed(p)'
                         /\ run'[p].proposal = [type  |-> logs'[s][k][r].accepted_type,
                                                value |-> logs'[s][k][r].accepted_value]
    BY DEF LogsHoldProposals
  <1>1. logs'[s][k][r] # NewPaxosLog
    BY DEF NewPaxosLog
  <1>2. PICK p \in Run : /\ HasProposed(p) /\ run[p].key = k /\ run[p].round = r
                         /\ run[p].proposal = [type  |-> logs'[s][k][r].accepted_type,
                                               value |-> logs'[s][k][r].accepted_value]
    BY <1>1, LogsChange DEF LogsHoldProposals
  <1>3. HasInstance(p)
    BY <1>2 DEF RunsInOrder, Requested
  <1> QED BY <1>2, <1>3, Stable DEF HasProposed

-----------------------------------------------------------------------------
Orderly ==
    /\ Basic
    /\ RequestsFitKeys
    /\ RunsInOrder
    /\ HandlersInOrder
    /\ LogsHoldProposals

\* Orderly holds at the start,
LEMMA OrderlyInit == Init => Orderly
  <1> SUFFICES ASSUME Init PROVE Orderly
    OBVIOUS
  <1>1. \A p \in Run : run[p] = NotStarted
    BY DEF Init
  <1>2. RequestsFitKeys /\ RunsInOrder
    BY <1>1 DEF RequestsFitKeys, RunsInOrder, NotStarted, NothingAccepted, HasProposed
  <1>3. HandlersInOrder /\ LogsHoldProposals
    BY DEF Init, HandlersInOrder, LogsHoldProposals, NoRounds
  <1> QED BY <1>2, <1>3, BasicInit DEF Orderly

\* is kept by every step,
LEMMA OrderlyStep == Orderly /\ [AnyStep]_vars => Orderly'
  <1> SUFFICES ASSUME Orderly, [AnyStep]_vars PROVE Orderly'
    OBVIOUS
  <1> USE DEF Orderly
  <1> QED BY BasicStep, RequestsFitKeysStep, RunsInOrderStep, HandlersInOrderStep,
             LogsHoldProposalsStep

\* and so holds in every reachable state.
LEMMA OrderlyInvariant == Spec => []Orderly
  BY OrderlyInit, OrderlyStep, NextIsAnyStep, PTL DEF Spec

\* AcceptedWasProposed is part of what Orderly says.
LEMMA OrderlyLogs == Orderly => AcceptedWasProposed
  <1> SUFFICES ASSUME Orderly PROVE AcceptedWasProposed
    OBVIOUS
  <1>1. ASSUME NEW s \in Server, NEW k \in Key, NEW r \in DOMAIN logs[s][k],
               logs[s][k][r].accepted_id > 0
        PROVE  \E p \in Run :
                  /\ run[p].key = k /\ run[p].round = r
                  /\ run[p].proposal = [type  |-> logs[s][k][r].accepted_type,
                                        value |-> logs[s][k][r].accepted_value]
                  /\ 2 * Cardinality(run[p].promised) > Cardinality(run[p].live)
    BY <1>1 DEF Orderly, LogsHoldProposals, RunsInOrder, Majority
  <1>2. ASSUME NEW p \in Run, run[p].proposal # NoProposal
        PROVE  \E q \in Run : SameInstance(p, q) /\ run[q].op = run[p].proposal
    BY <1>2 DEF Orderly, RunsInOrder, HasProposed, Requested
  <1> QED BY <1>1, <1>2 DEF AcceptedWasProposed

\* No log ever holds anything but a proposal made in its own instance after a
\* majority promised, and every proposal is the operation of a request of that
\* instance.
THEOREM OnlyProposedIsAccepted == Spec => []AcceptedWasProposed
  BY OrderlyLogs, OrderlyInvariant, PTL

-----------------------------------------------------------------------------
\* The clause of ExecutedWasChosen for one server.
ExecutedAt(s) ==
    /\ \A p \in applied[s] : Chosen(p)
    /\ \A k \in Key : data[s][k] # Nil =>
          \E p \in applied[s] : /\ run[p].key = k
                                /\ run[p].proposal = [type |-> "SET", value |-> data[s][k]]
    /\ coordinator[s] # Nil =>
          \E p \in applied[s] :
              run[p].proposal = [type |-> "SET_COORDINATOR", value |-> coordinator[s]]

\* What a replica has executed stays chosen, with its key and its proposal.
LEMMA AppliedStable ==
    ASSUME Orderly, ExecutedWasChosen, [AnyStep]_vars, NEW s \in Server, NEW p \in applied[s]
    PROVE  /\ Chosen(p)'
           /\ run'[p].key = run[p].key /\ run'[p].proposal = run[p].proposal
  <1>1. p \in Run /\ Chosen(p)
    BY DEF Orderly, Basic, TypeOK, ExecutedWasChosen
  <1>2. HasProposed(p) /\ Chosen(p)'
    BY <1>1, Stable DEF Orderly
  <1>3. HasInstance(p)
    BY <1>1, <1>2 DEF Orderly, RunsInOrder, Requested
  <1> QED BY <1>1, <1>2, <1>3, Stable DEF Orderly

\* A step that leaves a replica's state alone keeps it explained by chosen runs.
LEMMA ExecutedSame ==
    ASSUME Orderly, ExecutedWasChosen, [AnyStep]_vars, NEW s \in Server,
           applied'[s] = applied[s], data'[s] = data[s], coordinator'[s] = coordinator[s]
    PROVE  ExecutedAt(s)'
  <1>1. ExecutedAt(s)
    BY DEF ExecutedWasChosen, ExecutedAt
  <1>2. \A p \in applied[s] : /\ Chosen(p)'
                              /\ run'[p].key = run[p].key
                              /\ run'[p].proposal = run[p].proposal
    BY AppliedStable
  <1> QED BY <1>1, <1>2 DEF ExecutedAt

\* So does every other step.
LEMMA ExecutedAtStep ==
    ASSUME Orderly, ExecutedWasChosen, [AnyStep]_vars, NEW s \in Server
    PROVE  ExecutedAt(s)'
  <1>1. ASSUME NEW p \in Run, InformEnd(p, s)
        PROVE  ExecutedAt(s)'
    <2>1. Chosen(p)
      BY <1>1, HandlerOf DEF InformEnd, Orderly
    <2>2. HasProposed(p) /\ Chosen(p)'
      BY <2>1, Stable DEF Orderly
    <2>3. run'[p].key = run[p].key /\ run'[p].proposal = run[p].proposal /\ run[p].key \in Key
          /\ run[p].proposal \in Proposal
      <3>1. HasInstance(p)
        BY <2>2 DEF Orderly, RunsInOrder, Requested
      <3>2. run[p].key \in Key /\ run[p] \in RunLocals
        BY <3>1 DEF Orderly, Basic, TypeOK, Begun, NotStarted
      <3> QED BY <2>2, <3>1, <3>2, Stable DEF Orderly, RunLocals
    <2>4. applied'[s] = applied[s] \cup {p}
      BY <1>1 DEF InformEnd, Orderly, Basic, TypeOK
    <2>5. \A q \in applied[s] : /\ Chosen(q)'
                                /\ run'[q].key = run[q].key
                                /\ run'[q].proposal = run[q].proposal
      BY AppliedStable
    <2>6. \A q \in applied'[s] : Chosen(q)'
      BY <2>2, <2>4, <2>5
    <2>7. ASSUME NEW k \in Key, data'[s][k] # Nil
          PROVE  \E q \in applied'[s] :
                    /\ run'[q].key = k
                    /\ run'[q].proposal = [type |-> "SET", value |-> data'[s][k]]
      <3>1. data \in [Server -> [Key -> AnyValue]]
        BY DEF Orderly, Basic, TypeOK
      <3>2. CASE data'[s][k] = data[s][k]
        <4>1. PICK q \in applied[s] :
                    /\ run[q].key = k
                    /\ run[q].proposal = [type |-> "SET", value |-> data[s][k]]
          BY <2>7, <3>2 DEF ExecutedWasChosen
        <4> QED BY <2>4, <2>5, <3>2, <4>1
      <3>3. CASE data'[s][k] # data[s][k]
        <4>1. /\ run[p].proposal.type = "SET" /\ k = run[p].key
              /\ data'[s][k] = run[p].proposal.value
          <5>1. CASE run[p].proposal.type = "SET"
            <6>1. data'[s] = SetValue(data[s], run[p].key, run[p].proposal.value)
              BY <1>1, <3>1, <5>1 DEF InformEnd, Execute
            <6> QED BY <2>3, <3>1, <3>3, <5>1, <6>1 DEF SetValue
          <5>2. CASE run[p].proposal.type = "DELETE"
            <6>1. data'[s] = DeleteEntry(data[s], run[p].key)
              BY <1>1, <3>1, <5>2 DEF InformEnd, Execute
            <6> QED BY <2>7, <3>1, <3>3, <6>1 DEF DeleteEntry
          <5>3. CASE run[p].proposal.type \notin {"SET", "DELETE"}
            <6>1. data' = data
              BY <1>1, <5>3 DEF InformEnd, Execute
            <6> QED BY <3>3, <6>1
          <5> QED BY <5>1, <5>2, <5>3
        <4>2. run[p].proposal = [type |-> "SET", value |-> data'[s][k]]
          BY <2>3, <4>1 DEF Proposal
        <4> QED BY <2>3, <2>4, <4>1, <4>2
      <3> QED BY <3>2, <3>3
    <2>8. ASSUME coordinator'[s] # Nil
          PROVE  \E q \in applied'[s] :
                    run'[q].proposal = [type |-> "SET_COORDINATOR", value |-> coordinator'[s]]
      <3>1. coordinator \in [Server -> Server \cup {Nil}]
        BY DEF Orderly, Basic, TypeOK
      <3>2. CASE coordinator'[s] = coordinator[s]
        <4>1. PICK q \in applied[s] :
                    run[q].proposal = [type |-> "SET_COORDINATOR", value |-> coordinator[s]]
          BY <2>8, <3>2 DEF ExecutedWasChosen
        <4> QED BY <2>4, <2>5, <3>2, <4>1
      <3>3. CASE coordinator'[s] # coordinator[s]
        <4>1. /\ run[p].proposal.type = "SET_COORDINATOR"
              /\ coordinator'[s] = run[p].proposal.value
          BY <1>1, <3>1, <3>3 DEF InformEnd, Execute
        <4>2. run[p].proposal = [type |-> "SET_COORDINATOR", value |-> coordinator'[s]]
          BY <2>3, <4>1 DEF Proposal
        <4> QED BY <2>3, <2>4, <4>2
      <3> QED BY <3>2, <3>3
    <2> QED BY <2>6, <2>7, <2>8 DEF ExecutedAt
  <1>2. ASSUME NEW p \in Run, NEW t \in Server, InformEnd(p, t), t # s
        PROVE  ExecutedAt(s)'
    <2>1. applied'[s] = applied[s] /\ data'[s] = data[s] /\ coordinator'[s] = coordinator[s]
      BY <1>2 DEF InformEnd, Execute, Orderly, Basic, TypeOK
    <2> QED BY <2>1, ExecutedSame
  <1>3. ASSUME NEW t \in Server, Die(t)
        PROVE  ExecutedAt(s)'
    <2>1. CASE t # s
      <3>1. applied'[s] = applied[s] /\ data'[s] = data[s] /\ coordinator'[s] = coordinator[s]
        BY <1>3, <2>1 DEF Die, Orderly, Basic, TypeOK
      <3> QED BY <3>1, ExecutedSame
    <2>2. CASE t = s
      <3>1. /\ applied'[s] = {} /\ coordinator'[s] = Nil
            /\ \A k \in Key : data'[s][k] = Nil
        BY <1>3, <2>2 DEF Die, Orderly, Basic, TypeOK
      <3> QED BY <3>1 DEF ExecutedAt
    <2> QED BY <2>1, <2>2
  <1>4. CASE UNCHANGED <<applied, data, coordinator>>
    BY <1>4, ExecutedSame
  <1>5. ASSUME NEW p \in Run, Arrive(p) \/ Proceed(p)
        PROVE  UNCHANGED <<applied, data, coordinator>>
    BY <1>5, QuietSteps DEF Orderly, serverVars
  <1>6. ASSUME NEW p \in Run, NEW t \in Server, DeadlineExceeded(p, t)
        PROVE  UNCHANGED <<applied, data, coordinator>>
    BY <1>6 DEF DeadlineExceeded, serverVars
  <1>7. ASSUME NEW p \in Run, NEW t \in Server, Serve(p, t), ~ InformEnd(p, t)
        PROVE  UNCHANGED <<applied, data, coordinator>>
    BY <1>7 DEF Serve, PrepareBegin, PrepareEnd, ProposeBegin, ProposeEnd, InformBegin,
                InformCheck, serverVars
  <1>8. CASE UNCHANGED vars
    BY <1>4, <1>8 DEF vars, serverVars
  <1> QED BY <1>1, <1>2, <1>3, <1>4, <1>5, <1>6, <1>7, <1>8 DEF AnyStep

\* Replicas store, and take for their coordinator, only what a majority of the
\* live replicas of some proposer accepted.
THEOREM OnlyChosenIsExecuted == Spec => []ExecutedWasChosen
  <1>1. Init => ExecutedWasChosen
    BY DEF Init, ExecutedWasChosen
  <1>2. Orderly /\ ExecutedWasChosen /\ [AnyStep]_vars => ExecutedWasChosen'
    BY ExecutedAtStep DEF ExecutedAt, ExecutedWasChosen
  <1> QED BY <1>1, <1>2, OrderlyInvariant, NextIsAnyStep, PTL DEF Spec

\* Elections, and they only, are proposed for the key of the elections.
LEMMA ProposalFitsKey ==
    ASSUME Orderly, NEW p \in Run, HasProposed(p)
    PROVE  FitsKey(run[p].key, run[p].proposal)
  <1>1. PICK q \in Run : SameInstance(p, q) /\ run[q].op = run[p].proposal
    BY DEF Orderly, RunsInOrder, Requested
  <1>2. HasInstance(q)
    BY <1>1 DEF Orderly, RunsInOrder, Requested, SameInstance
  <1> QED BY <1>1, <1>2 DEF Orderly, RequestsFitKeys, SameInstance

\* Client requests never reach the log of the elections or the other way round.
THEOREM ElectionsAreApart == Spec => []ElectionsStayApart
  <1>1. Orderly /\ ExecutedWasChosen => ElectionsStayApart
    <2> SUFFICES ASSUME Orderly, ExecutedWasChosen PROVE ElectionsStayApart
      OBVIOUS
    <2>1. \A p \in Run : HasProposed(p) => FitsKey(run[p].key, run[p].proposal)
      BY ProposalFitsKey
    <2>2. ASSUME NEW s \in Server, data[s][CoordinatorKey] # Nil
          PROVE  FALSE
      <3>0. CoordinatorKey \in Key
        BY DEF Key
      <3>1. PICK p \in applied[s] :
                  /\ run[p].key = CoordinatorKey
                  /\ run[p].proposal = [type |-> "SET", value |-> data[s][CoordinatorKey]]
        BY <2>2, <3>0 DEF ExecutedWasChosen
      <3>2. p \in Run
        BY DEF Orderly, Basic, TypeOK
      <3>3. HasProposed(p)
        BY <3>1 DEF HasProposed, NoProposal
      <3> QED BY <2>1, <3>1, <3>2, <3>3 DEF FitsKey
    <2>3. ASSUME NEW s \in Server, NEW k \in Key, NEW r \in DOMAIN logs[s][k],
                 logs[s][k][r].accepted_id > 0
          PROVE  k = CoordinatorKey <=> logs[s][k][r].accepted_type = "SET_COORDINATOR"
      <3>1. PICK p \in Run :
                  /\ run[p].key = k /\ HasProposed(p)
                  /\ run[p].proposal = [type  |-> logs[s][k][r].accepted_type,
                                        value |-> logs[s][k][r].accepted_value]
        BY <2>3 DEF Orderly, LogsHoldProposals
      <3>2. FitsKey(run[p].key, run[p].proposal)
        BY <2>1, <3>1
      <3> QED BY <3>1, <3>2 DEF FitsKey
    <2> QED BY <2>2, <2>3 DEF ElectionsStayApart
  <1> QED BY <1>1, OrderlyInvariant, OnlyChosenIsExecuted, PTL
=============================================================================
