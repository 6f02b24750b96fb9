------------------------- MODULE MultiPaxosOutcome -------------------------
(***************************************************************************)
(* Proofs about what a request leaves behind.  A running acceptor forgets  *)
(* nothing it has accepted (AcceptorsRemember), so a later request of the  *)
(* same round that such an acceptor promises to gives up its own operation *)
(* (LaterRunsAdopt).  When no call fails, the learners its proposer found  *)
(* live have executed its proposal or know a later round                   *)
(* (InformedOrSuperseded), and its own server has logged its round, so     *)
(* that the next request of that server gets another one (FreshRound);     *)
(* both rest on LearnersInformed and ProposerLogs, which follow a          *)
(* proposer's loops call by call: a replica leaves the loop only by        *)
(* answering, because it is down, or by a failed call.                     *)
(***************************************************************************)
EXTENDS MultiPaxosProofs

USE DEF ProposeId, HasInstance

\* A process that is not running never comes back.
LEMMA UpShrinks ==
    ASSUME Basic, [AnyStep]_vars
    PROVE  up' \subseteq up
  <1>1. ASSUME NEW p \in Run, NEW s \in Server, Serve(p, s)
        PROVE  up' = up
    BY <1>1, ServeData
  <1>2. ASSUME NEW p \in Run, Arrive(p) \/ Proceed(p)
        PROVE  up' = up
    BY <1>2, QuietSteps DEF serverVars
  <1>3. ASSUME NEW s \in Server, Die(s)
        PROVE  up' = up \ {s}
    BY <1>3 DEF Die
  <1>4. ASSUME NEW p \in Run, NEW s \in Server, DeadlineExceeded(p, s)
        PROVE  up' = up
    BY <1>4 DEF DeadlineExceeded, serverVars
  <1>5. CASE UNCHANGED vars
    BY <1>5 DEF vars, serverVars
  <1> QED BY <1>1, <1>2, <1>3, <1>4, <1>5 DEF AnyStep

\* A running server's log of an instance is never removed and its acceptance
\* never taken back.
LEMMA LogsGrow ==
    ASSUME Basic, [AnyStep]_vars, NEW s \in Server, s \in up', NEW k \in Key,
           NEW r \in DOMAIN logs[s][k]
    PROVE  /\ s \in up
           /\ r \in DOMAIN logs'[s][k]
           /\ logs'[s][k][r] = logs[s][k][r] \/ logs'[s][k][r].accepted_id = 1
  <1> DEFINE Goal == /\ s \in up
                     /\ r \in DOMAIN logs'[s][k]
                     /\ logs'[s][k][r] = logs[s][k][r] \/ logs'[s][k][r].accepted_id = 1
  <1> SUFFICES Goal
    OBVIOUS
  <1>0. logs = [i \in Server |-> [j \in Key |-> logs[i][j]]]
    BY DEF Basic, TypeOK
  <1>1. ASSUME UNCHANGED <<up, logs>> PROVE Goal
    BY <1>1
  <1>2. ASSUME NEW p \in Run, NEW t \in Server, Serve(p, t)
        PROVE  Goal
    <2>0. s \in up
      BY <1>2, ServeData
    <2>1. run[p].key \in Key
      BY <1>2, ServeRight
    <2>2. ASSUME NEW rounds, logs' = [logs EXCEPT ![t][run[p].key] = rounds]
          PROVE  logs'[s][k] = IF s = t /\ k = run[p].key THEN rounds ELSE logs[s][k]
      <3>1. \A i \in Server, j \in Key :
               logs'[i][j] = IF i = t /\ j = run[p].key THEN rounds ELSE logs[i][j]
        BY <1>0, <2>1, <2>2
      <3> QED BY <3>1
    <2>3. CASE PrepareBegin(p, t) \/ ProposeBegin(p, t)
      <3> DEFINE rounds == AddRound(logs[t][run[p].key], run[p].round)
      <3>1. logs' = [logs EXCEPT ![t][run[p].key] = rounds]
        BY <2>3 DEF PrepareBegin, ProposeBegin
      <3> HIDE DEF rounds
      <3>2. logs'[s][k] = IF s = t /\ k = run[p].key THEN rounds ELSE logs[s][k]
        BY <3>1, <2>2
      <3> QED BY <2>0, <3>2 DEF AddRound, GetPaxosLog, rounds
    <2>4. CASE ProposeEnd(p, t) \/ InformBegin(p, t)
      <3> DEFINE rounds == AddAccepted(logs[t][run[p].key], run[p].round, 1, run[p].proposal)
      <3>1. logs' = [logs EXCEPT ![t][run[p].key] = rounds]
        BY <2>4 DEF ProposeEnd, InformBegin
      <3> HIDE DEF rounds
      <3>2. logs'[s][k] = IF s = t /\ k = run[p].key THEN rounds ELSE logs[s][k]
        BY <3>1, <2>2
      <3>3. CASE s = t /\ k = run[p].key
        <4>1. logs'[s][k] = AddAccepted(logs[s][k], run[p].round, 1, run[p].proposal)
          BY <3>2, <3>3 DEF rounds
        <4>2. r \in DOMAIN logs'[s][k]
          BY <4>1 DEF AddAccepted
        <4>3. logs'[s][k][r] = logs[s][k][r] \/ logs'[s][k][r].accepted_id = 1
          BY <4>1 DEF AddAccepted
        <4> QED BY <2>0, <4>2, <4>3
      <3> QED BY <2>0, <3>2, <3>3
    <2>5. CASE PrepareEnd(p, t) \/ InformCheck(p, t) \/ InformEnd(p, t)
      BY <1>1, <2>5 DEF PrepareEnd, InformCheck, InformEnd, serverVars
    <2> QED BY <1>2, <2>3, <2>4, <2>5 DEF Serve
  <1>3. ASSUME NEW t \in Server, Die(t)
        PROVE  Goal
    <2>1. s # t /\ s \in up
      BY <1>3 DEF Die
    <2>2. logs'[s] = logs[s]
      BY <1>0, <1>3, <2>1 DEF Die
    <2> QED BY <2>1, <2>2
  <1>4. ASSUME NEW p \in Run, Arrive(p) \/ Proceed(p)
        PROVE  Goal
    BY <1>1, <1>4, QuietSteps DEF serverVars
  <1>5. ASSUME NEW p \in Run, NEW t \in Server, DeadlineExceeded(p, t)
        PROVE  Goal
    BY <1>1, <1>5 DEF DeadlineExceeded, serverVars
  <1>6. CASE UNCHANGED vars
    BY <1>1, <1>6 DEF vars, serverVars
  <1> QED BY <1>2, <1>3, <1>4, <1>5, <1>6 DEF AnyStep

\* A step of q, or of a handler of q, leaves the locals of the others alone.
LEMMA OtherRuns ==
    ASSUME Basic, NEW p \in Run, NEW q \in Run,
           Arrive(q) \/ Proceed(q) \/ (\E t \in Server : Serve(q, t) \/ DeadlineExceeded(q, t)),
           p # q
    PROVE  run'[p] = run[p]
  <1>0. run \in [Run -> RunLocals] /\ TypeOK
    BY DEF Basic, TypeOK
  <1>1. CASE Arrive(q)
    <2>1. PICK s \in Server, key \in Key, op \in Proposal, phase \in {"Ping", "ABORTED"},
               round \in Nat, todo \in SUBSET Server : Begin(q, s, key, op, phase, round, todo)
      BY <1>0, <1>1, ArriveBegins DEF BeginsRight
    <2> QED BY <1>0, <2>1 DEF Begin
  <1>2. CASE ~ Arrive(q)
    <2>1. PICK m \in RunLocals : ChangesTo(q, m)
      BY <1>2, ProceedChange, ServeChange, DeadlineChange
    <2> QED BY <1>0, <2>1 DEF ChangesTo
  <1> QED BY <1>1, <1>2

\* A proposer counts an acceptance only in the step in which the acceptor
\* writes it.
LEMMA AcceptanceIsWritten ==
    ASSUME Basic, [AnyStep]_vars, NEW p \in Run, NEW s, s \in run'[p].accepted,
           s \notin run[p].accepted
    PROVE  ProposeEnd(p, s)
  <1>0. run[p] \in RunLocals /\ run \in [Run -> RunLocals]
    BY DEF Basic, TypeOK
  <1>1. run'[p] # run[p]
    OBVIOUS
  <1>2. \A t : PastCall(p, t).accepted = run[p].accepted
    BY <1>0 DEF PastCall, RunLocals
  <1>3. ASSUME NEW t \in Server, Serve(p, t)
        PROVE  ProposeEnd(p, s)
    <2>1. CASE PrepareEnd(p, t)
      <3>1. Promised(p, t).accepted = run[p].accepted
        BY <1>0 DEF Promised, PastCall, RunLocals
      <3> QED BY <1>0, <1>2, <2>1, <3>1 DEF PrepareEnd, Answer
    <2>2. CASE ProposeEnd(p, t)
      <3>1. PastCall(p, t) \in RunLocals
        BY PastCallType DEF Basic
      <3>2. run'[p].accepted \subseteq run[p].accepted \cup {t}
        BY <1>0, <1>2, <2>2, <3>1 DEF ProposeEnd, Answer, RunLocals
      <3> QED BY <2>2, <3>2
    <2>3. CASE PrepareBegin(p, t) \/ InformBegin(p, t)
      BY <1>1, <2>3 DEF PrepareBegin, InformBegin
    <2>4. CASE ProposeBegin(p, t) \/ InformCheck(p, t) \/ InformEnd(p, t)
      BY <1>0, <1>2, <2>4 DEF ProposeBegin, InformCheck, InformEnd, Answer
    <2> QED BY <1>3, <2>1, <2>2, <2>3, <2>4 DEF Serve
  <1>4. ASSUME Arrive(p) PROVE FALSE
    <2>1. PICK t \in Server, key \in Key, op \in Proposal, phase \in {"Ping", "ABORTED"},
               round \in Nat, todo \in SUBSET Server : Begin(p, t, key, op, phase, round, todo)
      BY <1>4, ArriveBegins DEF Basic, BeginsRight
    <2> QED BY <1>0, <2>1 DEF Begin, NotStarted
  <1>5. ASSUME Proceed(p) PROVE FALSE
    <2>3. ASSUME NEW t \in Server, Ping(p, t) PROVE FALSE
      <3>1. PastCall(p, t) \in RunLocals
        BY PastCallType DEF Basic
      <3>2. run'[p].accepted = run[p].accepted
        BY <1>0, <1>2, <2>3, <3>1 DEF Ping, RunLocals
      <3> QED BY <3>2
    <2>4. ASSUME NEW t \in Server, Unreachable(p, t) PROVE FALSE
      BY <1>0, <1>2, <2>4 DEF Unreachable
    <2>5. CASE PingDone(p)
      BY <1>0, <2>5 DEF PingDone, RunLocals
    <2>6. CASE PrepareDone(p)
      <3>1. CASE ReachesQuorum(run[p].promised, run[p].live)
        BY <1>0, <2>6, <3>1 DEF PrepareDone, RunLocals
      <3>2. CASE ~ ReachesQuorum(run[p].promised, run[p].live)
        BY <1>0, <2>6, <3>2 DEF PrepareDone, RunLocals
      <3> QED BY <3>1, <3>2
    <2>7. CASE ProposeDone(p)
      <3>1. CASE ReachesQuorum(run[p].accepted, run[p].live)
        BY <1>0, <2>7, <3>1 DEF ProposeDone, RunLocals
      <3>2. CASE ~ ReachesQuorum(run[p].accepted, run[p].live)
        BY <1>0, <2>7, <3>2 DEF ProposeDone, RunLocals
      <3> QED BY <3>1, <3>2
    <2>8. CASE InformDone(p)
      BY <1>0, <2>8 DEF InformDone, RunLocals
    <2> QED BY <1>5, <2>3, <2>4, <2>5, <2>6, <2>7, <2>8 DEF Proceed
  <1>6. ASSUME NEW t \in Server, DeadlineExceeded(p, t) PROVE FALSE
    BY <1>0, <1>2, <1>6 DEF DeadlineExceeded
  <1>7. ASSUME NEW t \in Server, Die(t) PROVE FALSE
    BY <1>0, <1>7 DEF Die, RunLocals
  <1>8. ASSUME UNCHANGED vars PROVE FALSE
    BY <1>1, <1>8 DEF vars
  <1>9. ASSUME NEW q \in Run, q # p,
               Arrive(q) \/ Proceed(q) \/ (\E t \in Server : Serve(q, t) \/ DeadlineExceeded(q, t))
        PROVE  FALSE
    BY <1>1, <1>9, OtherRuns
  <1> QED BY <1>3, <1>4, <1>5, <1>6, <1>7, <1>8, <1>9 DEF AnyStep

\* A thread that has returned changes no more.
LEMMA ReturnedStays ==
    ASSUME Basic, [AnyStep]_vars, NEW p \in Run, Returned(p)
    PROVE  run'[p] = run[p]
  <1>1. run[p].phase \notin Working \cup {"Idle"}
    BY DEF Returned, Working
  <1>2. ~ Begins(p)
    <2>1. ~ (\E s, key, op, phase, round, todo : Begin(p, s, key, op, phase, round, todo))
      BY <1>1 DEF Begin
    <2> QED BY <2>1 DEF Begins, BeginsRight
  <1>3. Change(p, run'[p])
    BY <1>2, NextChange
  <1>4. ~ GivesUpCall(p, run'[p]) /\ ~ Pinged(p, run'[p])
    BY <1>1 DEF GivesUpCall, Pinged, PastCalled, Calls, Working
  <1>5. ~ Advances(p, run'[p]) /\ ~ IsLost(p, run'[p])
    BY <1>1 DEF Advances, IsLost, Active, Working
  <1>6. \A s \in Server : ~ PromisedBy(p, run'[p], s) /\ ~ AcceptedBy(p, run'[p], s)
    BY <1>1 DEF PromisedBy, AcceptedBy, PastCalled, Calls, Working
  <1> QED BY <1>3, <1>4, <1>5, <1>6 DEF Change

\* A run's history is what had returned when it began.
LEMMA PriorKept ==
    ASSUME Basic, [AnyStep]_vars, NEW q \in Run, ~ Begins(q)
    PROVE  prior'[q] = prior[q]
  <1>0. prior \in [Run -> SUBSET Run] /\ TypeOK
    BY DEF Basic, TypeOK
  <1>1. ASSUME NEW p \in Run, Arrive(p)
        PROVE  prior'[q] = prior[q]
    <2>1. Begins(p)
      BY <1>0, <1>1, ArriveBegins DEF Begins
    <2>2. prior' = [prior EXCEPT ![p] = {r \in Run : Returned(r)}]
      BY <1>0, <1>1, ArrivalIsNew
    <2>3. p # q
      BY <2>1
    <2> QED BY <1>0, <2>2, <2>3
  <1>2. ASSUME NEW p \in Run, Proceed(p)
        PROVE  UNCHANGED prior
    BY <1>2, ProceedChange
  <1>3. ASSUME NEW p \in Run, NEW s \in Server, Serve(p, s)
        PROVE  UNCHANGED prior
    BY <1>3, ServeData
  <1>4. ASSUME NEW p \in Run, NEW s \in Server, DeadlineExceeded(p, s)
        PROVE  UNCHANGED prior
    BY <1>4 DEF DeadlineExceeded
  <1>5. ASSUME NEW s \in Server, Die(s)
        PROVE  UNCHANGED prior
    BY <1>5 DEF Die
  <1>6. CASE UNCHANGED vars
    BY <1>6 DEF vars
  <1> QED BY <1>1, <1>2, <1>3, <1>4, <1>5, <1>6 DEF AnyStep

\* A run's history is set when it begins, with no promises yet, and then kept.
LEMMA PriorChange ==
    ASSUME Basic, [AnyStep]_vars, NEW q \in Run
    PROVE  \/ prior'[q] = prior[q]
           \/ prior'[q] = {p \in Run : Returned(p)} /\ run'[q].promised = {}
  <1>1. CASE Begins(q)
    <2>1. PICK s \in Server, key \in Key, op \in Proposal, phase \in {"Ping", "ABORTED"},
               round \in Nat, todo \in SUBSET Server : Begin(q, s, key, op, phase, round, todo)
      BY <1>1 DEF Begins, BeginsRight
    <2> QED BY <2>1 DEF Begin, NotStarted, Basic, TypeOK
  <1>2. CASE ~ Begins(q)
    BY <1>2, PriorKept
  <1> QED BY <1>1, <1>2

\* It holds only runs that have returned, and they stay so.
LEMMA PriorReturnedStep ==
    ASSUME Basic, PriorReturned, [AnyStep]_vars
    PROVE  PriorReturned'
  <1> SUFFICES ASSUME NEW q \in Run, NEW p \in prior'[q]
               PROVE  Returned(p)'
    BY DEF PriorReturned
  <1>1. p \in Run /\ Returned(p)
    BY PriorChange DEF PriorReturned, Basic, TypeOK
  <1> QED BY <1>1, ReturnedStays DEF Returned

-----------------------------------------------------------------------------
\* A running server keeps a logged round, and an acceptance replaces the entry whole.
LEMMA LoggedStays ==
    ASSUME Orderly, [AnyStep]_vars, NEW p \in Run, HasInstance(p), NEW s \in Server, s \in up',
           Logged(p, s)
    PROVE  /\ Logged(p, s)'
           /\ Log(p, s)' = Log(p, s) \/ Log(p, s)'.accepted_id = 1
  <1>1. run[p].key \in Key
    BY DEF Orderly, Basic, Begun, NotStarted
  <1>2. run'[p].key = run[p].key /\ run'[p].round = run[p].round
    BY Stable DEF Orderly
  <1>3. /\ run[p].round \in DOMAIN logs'[s][run[p].key]
        /\ \/ logs'[s][run[p].key][run[p].round] = logs[s][run[p].key][run[p].round]
           \/ logs'[s][run[p].key][run[p].round].accepted_id = 1
    BY <1>1, LogsGrow DEF Logged, Orderly
  <1> QED BY <1>2, <1>3 DEF Logged, Log, GetPaxosLog

\* The Propose handler's write logs the round as accepted.
LEMMA WrittenIsLogged ==
    ASSUME Orderly, [AnyStep]_vars, NEW p \in Run, NEW s \in Server, ProposeEnd(p, s)
    PROVE  Logged(p, s)' /\ Log(p, s)'.accepted_id = 1
  <1>1. Handler(p, s, "accept") \in handlers
    BY DEF ProposeEnd
  <1>2. run[p].key \in Key /\ HasInstance(p)
    BY <1>1, HandlerRight DEF Orderly
  <1>3. run'[p].key = run[p].key /\ run'[p].round = run[p].round
    BY <1>2, Stable DEF Orderly
  <1>4. logs'[s][run[p].key] =
           AddAccepted(logs[s][run[p].key], run[p].round, 1, run[p].proposal)
    <2>1. logs = [i \in Server |-> [j \in Key |-> logs[i][j]]]
      BY DEF Orderly, Basic, TypeOK
    <2>2. logs' = [logs EXCEPT ![s][run[p].key] =
                      AddAccepted(logs[s][run[p].key], run[p].round, 1, run[p].proposal)]
      BY DEF ProposeEnd
    <2> QED BY <1>2, <2>1, <2>2
  <1>5. /\ run[p].round \in DOMAIN logs'[s][run[p].key]
        /\ logs'[s][run[p].key][run[p].round].accepted_id = 1
    <2> DEFINE old == logs[s][run[p].key]
               r == run[p].round
    <2>1. r \in DOMAIN AddAccepted(old, r, 1, run[p].proposal)
      BY DEF AddAccepted
    <2>2. AddAccepted(old, r, 1, run[p].proposal)[r].accepted_id = 1
      BY DEF AddAccepted
    <2> QED BY <1>4, <2>1, <2>2
  <1> QED BY <1>3, <1>5 DEF Logged, Log, GetPaxosLog

\* The Prepare handler's first critical section logs the round.
LEMMA PrepareIsLogged ==
    ASSUME Orderly, [AnyStep]_vars, NEW p \in Run, NEW s \in Server, PrepareBegin(p, s)
    PROVE  Logged(p, s)'
  <1>1. run[p].key \in Key /\ HasInstance(p)
    BY StartsRight DEF Orderly, PrepareBegin
  <1>2. run'[p].key = run[p].key /\ run'[p].round = run[p].round
    BY <1>1, Stable DEF Orderly
  <1>3. logs'[s][run[p].key] = AddRound(logs[s][run[p].key], run[p].round)
    <2>1. logs = [i \in Server |-> [j \in Key |-> logs[i][j]]]
      BY DEF Orderly, Basic, TypeOK
    <2>2. logs' = [logs EXCEPT ![s][run[p].key] = AddRound(logs[s][run[p].key], run[p].round)]
      BY DEF PrepareBegin
    <2> QED BY <1>1, <2>1, <2>2
  <1> QED BY <1>2, <1>3 DEF Logged, AddRound

-----------------------------------------------------------------------------
\* A handler gets to its promise only by the step that logs the round.
LEMMA PromiseHandlers ==
    ASSUME Basic, [AnyStep]_vars, NEW h \in handlers', h.step = "promise", h \notin handlers
    PROVE  \E p \in Run, s \in Server : PrepareBegin(p, s) /\ h = Handler(p, s, "promise")
  <1>1. ASSUME NEW p \in Run, NEW s \in Server, Serve(p, s)
        PROVE  PrepareBegin(p, s) /\ h = Handler(p, s, "promise")
    <2>1. ASSUME NEW from, NEW to, handlers' = Moved(p, s, from, to)
          PROVE  "promise" \in to /\ h = Handler(p, s, "promise")
      BY <1>1, <2>1 DEF Moved, Handler
    <2>2. CASE PrepareBegin(p, s)
      BY <2>1, <2>2 DEF PrepareBegin
    <2>3. CASE ProposeBegin(p, s) \/ InformBegin(p, s) \/ InformCheck(p, s)
      BY <2>1, <2>3 DEF ProposeBegin, InformBegin, InformCheck
    <2>4. CASE PrepareEnd(p, s) \/ ProposeEnd(p, s) \/ InformEnd(p, s)
      BY <2>1, <2>4 DEF PrepareEnd, ProposeEnd, InformEnd
    <2> QED BY <1>1, <2>2, <2>3, <2>4 DEF Serve
  <1>2. ASSUME NEW p \in Run, NEW s, NEW late \in SUBSET Unstarted(p, s), h \in late
        PROVE  FALSE
    BY <1>2 DEF Unstarted, LaterSteps, Handler
  <1>3. ASSUME NEW p \in Run, NEW s \in Server, DeadlineExceeded(p, s)
        PROVE  FALSE
    BY <1>2, <1>3 DEF DeadlineExceeded
  <1>4. ASSUME NEW s \in Server, Die(s)
        PROVE  FALSE
    <2>1. h \in CallsOf(s)
      BY <1>4 DEF Die
    <2> QED BY <1>2, <2>1 DEF CallsOf, RunsOf
  <1>5. ASSUME NEW p \in Run, Arrive(p) \/ Proceed(p)
        PROVE  FALSE
    BY <1>5, QuietSteps
  <1>6. CASE UNCHANGED vars
    BY <1>6 DEF vars
  <1> QED BY <1>1, <1>3, <1>4, <1>5, <1>6 DEF AnyStep

\* No step makes a running acceptor forget.
LEMMA AcceptorsRememberStep ==
    ASSUME Orderly, AcceptorsRemember, [AnyStep]_vars
    PROVE  AcceptorsRemember'
  <1>0. Orderly' /\ handlers \subseteq HandlerThread
    BY OrderlyStep DEF Orderly, Basic, TypeOK
  <1>1. ASSUME NEW h \in handlers', h.step = "promise"
        PROVE  Logged(h.run, h.at)'
    <2>1. CASE h \in handlers
      <3>1. h.run \in Run /\ h.at \in Server
        BY <1>0, <2>1 DEF HandlerThread
      <3>2. HasInstance(h.run) /\ h.at \in up' /\ Logged(h.run, h.at)
        BY <1>0, <1>1, <2>1 DEF Orderly, Basic, Begun, AcceptorsRemember
      <3> QED BY <3>1, <3>2, LoggedStays
    <2>2. CASE h \notin handlers
      <3>1. PICK p \in Run, s \in Server : PrepareBegin(p, s) /\ h = Handler(p, s, "promise")
        BY <1>1, <2>2, PromiseHandlers DEF Orderly
      <3>2. h.run = p /\ h.at = s
        BY <3>1 DEF Handler
      <3> QED BY <3>1, <3>2, PrepareIsLogged
    <2> QED BY <2>1, <2>2
  <1>2. ASSUME NEW p \in Run, NEW s \in (run[p].accepted \cap up)'
        PROVE  Logged(p, s)' /\ Log(p, s)'.accepted_id > 0
    <2>0. s \in Server
      BY <1>0 DEF Orderly, Basic, TypeOK
    <2>1. CASE s \in run[p].accepted
      <3>1. HasInstance(p)
        BY <2>1 DEF Orderly, RunsInOrder, Requested
      <3>2. s \in up
        BY <1>2, <2>0, UpShrinks DEF Orderly
      <3>3. Logged(p, s) /\ Log(p, s).accepted_id > 0
        BY <2>1, <3>2 DEF AcceptorsRemember
      <3> QED BY <1>2, <2>0, <3>1, <3>3, LoggedStays
    <2>2. CASE s \notin run[p].accepted
      <3>1. ProposeEnd(p, s)
        BY <1>2, <2>2, AcceptanceIsWritten DEF Orderly
      <3> QED BY <2>0, <3>1, WrittenIsLogged
    <2> QED BY <2>1, <2>2
  <1> QED BY <1>1, <1>2 DEF AcceptorsRemember

-----------------------------------------------------------------------------
\* A promise makes the proposer's best acceptance at least as high as what the
\* acceptor has accepted, and no step lowers it.
LEMMA BestGrows ==
    ASSUME Orderly, NEW q \in Run, Change(q, run'[q]), NEW t \in run'[q].promised
    PROVE  \/ t \in run[q].promised /\ run'[q].best.id >= run[q].best.id
           \/ /\ t \in up /\ run[q].key \in Key
              /\ run'[q].best.id >= Log(q, t).accepted_id
  <1>0. run[q] \in RunLocals /\ run[q].best.id \in Nat
    BY DEF Orderly, Basic, TypeOK, RunLocals
  <1>1. CASE run'[q] = run[q]
    BY <1>0, <1>1
  <1>2. CASE GivesUpCall(q, run'[q]) \/ Advances(q, run'[q]) \/ IsLost(q, run'[q])
    BY <1>0, <1>2 DEF GivesUpCall, Advances, IsLost, SameBallot
  <1>3. CASE Pinged(q, run'[q])
    BY <1>0, <1>3 DEF Pinged
  <1>4. ASSUME NEW s \in Server, AcceptedBy(q, run'[q], s)
        PROVE  t \in run[q].promised /\ run'[q].best.id >= run[q].best.id
    BY <1>0, <1>4 DEF AcceptedBy, SameBallot
  <1>5. ASSUME NEW s \in Server, PromisedBy(q, run'[q], s)
        PROVE  \/ t \in run[q].promised /\ run'[q].best.id >= run[q].best.id
               \/ /\ t \in up /\ run[q].key \in Key
                  /\ run'[q].best.id >= Log(q, t).accepted_id
    <2>1. s \in up /\ run[q].key \in Key
      BY <1>5, HandlerRight DEF PromisedBy, Orderly
    <2>2. Log(q, s) \in PaxosLog
      BY <2>1, GetPaxosLogType DEF Log, Orderly, Basic, TypeOK
    <2>3. Log(q, s).accepted_id \in Nat
      BY <2>2 DEF PaxosLog
    <2>4. run'[q].best.id >= Log(q, s).accepted_id /\ run'[q].best.id >= run[q].best.id
      BY <1>0, <1>5, <2>3 DEF PromisedBy
    <2>5. t = s \/ t \in run[q].promised
      BY <1>5 DEF PromisedBy
    <2> QED BY <2>1, <2>4, <2>5
  <1> QED BY <1>1, <1>2, <1>3, <1>4, <1>5 DEF Change

Remembering == Orderly /\ AcceptorsRemember /\ PriorReturned

\* A promise of such an acceptor carries what it has accepted.
LEMMA LaterRunAdoptsStep ==
    ASSUME Remembering, LaterRunAdopts, [AnyStep]_vars
    PROVE  LaterRunAdopts'
  <1> USE DEF Remembering
  <1> SUFFICES ASSUME NEW p \in Run, NEW q \in Run, p \in prior'[q], run'[p].phase = "OK",
                      SameInstance(p, q)',
                      NEW t \in run'[p].accepted, t \in run'[q].promised
               PROVE  run'[q].best.id > 0
    BY DEF LaterRunAdopts
  <1>0. run'[q] \in RunLocals /\ run[q] \in RunLocals
    BY BasicStep DEF Orderly, Basic, TypeOK
  <1>1. prior'[q] = prior[q]
    BY PriorChange DEF Orderly
  <1>2. run'[p] = run[p]
    BY <1>1, ReturnedStays DEF PriorReturned, Orderly
  <1>3. Change(q, run'[q])
    <2>1. ASSUME Begins(q) PROVE run'[q].promised = {}
      BY <2>1 DEF Begins, BeginsRight, Begin, NotStarted, Orderly, Basic, TypeOK
    <2> QED BY <2>1, NextChange DEF Orderly
  <1>4. SameInstance(p, q)
    <2>1. run'[q].key = run[q].key /\ run'[q].round = run[q].round
      BY <1>3 DEF Change, SameRequest
    <2> QED BY <1>2, <2>1 DEF SameInstance
  <1>5. CASE t \in run[q].promised /\ run'[q].best.id >= run[q].best.id
    <2>1. run[q].best.id > 0
      BY <1>1, <1>2, <1>4, <1>5 DEF LaterRunAdopts
    <2> QED BY <1>0, <1>5, <2>1 DEF RunLocals
  <1>6. CASE t \in up /\ run[q].key \in Key /\ run'[q].best.id >= Log(q, t).accepted_id
    <2>1. Log(p, t).accepted_id > 0
      BY <1>2, <1>6 DEF AcceptorsRemember
    <2>2. Log(q, t) = Log(p, t)
      BY <1>4 DEF Log, SameInstance
    <2>3. Log(q, t) \in PaxosLog
      BY <1>6, GetPaxosLogType DEF Log, Orderly, Basic, TypeOK
    <2>4. Log(q, t).accepted_id \in Nat /\ run'[q].best.id \in Nat
      BY <1>0, <2>3 DEF PaxosLog, RunLocals
    <2> QED BY <1>6, <2>1, <2>2, <2>4
  <1> QED BY <1>3, <1>5, <1>6, BestGrows

\* Every reachable state satisfies the invariant of this module.
LEMMA RememberingInvariant == Spec => []Remembering
  <1>1. Init => AcceptorsRemember /\ PriorReturned
    BY DEF Init, AcceptorsRemember, PriorReturned, NotStarted
  <1>2. Remembering /\ [AnyStep]_vars => (AcceptorsRemember /\ PriorReturned)'
    BY AcceptorsRememberStep, PriorReturnedStep DEF Remembering, Orderly
  <1> QED BY <1>1, <1>2, OrderlyInvariant, NextIsAnyStep, PTL DEF Spec, Remembering

\* A request that began after another one of its instance returned OK, and was
\* promised by a replica that had accepted the other's proposal, proposes what
\* had been accepted, never its own operation.
THEOREM LaterRunsAdopt == Spec => []LaterRunAdopts
  <1>1. Init => LaterRunAdopts
    BY DEF Init, LaterRunAdopts
  <1>2. Remembering /\ LaterRunAdopts /\ [AnyStep]_vars => LaterRunAdopts'
    BY LaterRunAdoptsStep
  <1> QED BY <1>1, <1>2, RememberingInvariant, NextIsAnyStep, PTL DEF Spec

-----------------------------------------------------------------------------
(* Calls that end, and what they leave *)

\* A replica leaves the loop of p by the step that ends p's call to it.
LEMMA CallEnds ==
    ASSUME Basic, [AnyStep]_vars, NEW p \in Run, NEW t, t \in run[p].todo, t \notin run'[p].todo
    PROVE  /\ t \in Server
           /\ Ping(p, t) \/ Unreachable(p, t) \/ DeadlineExceeded(p, t) \/ Serve(p, t)
  <1>0. run[p] \in RunLocals /\ run \in [Run -> RunLocals]
    BY DEF Basic, TypeOK
  <1>1. t \in Server
    BY <1>0 DEF RunLocals
  <1>2. \A u : PastCall(p, u).todo = run[p].todo \ {u}
    BY <1>0 DEF PastCall, RunLocals
  <1>3. ASSUME NEW u \in Server, Serve(p, u)
        PROVE  t = u
    <2>1. ASSUME NEW phase, NEW locals, Answer(p, phase, u, locals),
                 locals.todo = run[p].todo \ {u}
          PROVE  t = u
      BY <1>0, <2>1 DEF Answer
    <2>2. CASE PrepareEnd(p, u)
      <3>1. Promised(p, u).todo = run[p].todo \ {u}
        BY <1>0 DEF Promised, PastCall, RunLocals
      <3> QED BY <1>2, <2>1, <2>2, <3>1 DEF PrepareEnd
    <2>3. CASE ProposeEnd(p, u)
      <3>1. [PastCall(p, u) EXCEPT !.accepted = @ \cup {u}].todo = run[p].todo \ {u}
        BY <1>0 DEF PastCall, RunLocals
      <3> QED BY <2>1, <2>3, <3>1 DEF ProposeEnd
    <2>4. CASE PrepareBegin(p, u) \/ InformBegin(p, u)
      BY <2>4 DEF PrepareBegin, InformBegin
    <2>5. CASE ProposeBegin(p, u) \/ InformCheck(p, u) \/ InformEnd(p, u)
      BY <1>2, <2>1, <2>5 DEF ProposeBegin, InformCheck, InformEnd
    <2> QED BY <1>3, <2>2, <2>3, <2>4, <2>5 DEF Serve
  <1>4. ASSUME Proceed(p)
        PROVE  Ping(p, t) \/ Unreachable(p, t)
    <2>1. ~ (PingDone(p) \/ PrepareDone(p) \/ ProposeDone(p) \/ InformDone(p))
      BY DEF PingDone, PrepareDone, ProposeDone, InformDone
    <2>2. ASSUME NEW u \in Server, Ping(p, u) PROVE t = u
      <3>1. [PastCall(p, u) EXCEPT !.live = @ \cup {u}].todo = run[p].todo \ {u}
        BY <1>0 DEF PastCall, RunLocals
      <3> QED BY <1>0, <2>2, <3>1 DEF Ping
    <2>3. ASSUME NEW u \in Server, Unreachable(p, u) PROVE t = u
      BY <1>0, <1>2, <2>3 DEF Unreachable
    <2> QED BY <1>4, <2>1, <2>2, <2>3 DEF Proceed
  <1>5. ASSUME NEW u \in Server, DeadlineExceeded(p, u)
        PROVE  t = u
    BY <1>0, <1>2, <1>5 DEF DeadlineExceeded
  <1>6. ASSUME Arrive(p) PROVE FALSE
    <2>1. run[p].phase = "Idle"
      BY <1>6, ArrivalIsNew DEF Basic
    <2> QED BY <2>1 DEF Basic, Begun, NotStarted
  <1>7. ASSUME NEW s \in Server, Die(s) PROVE FALSE
    BY <1>0, <1>7 DEF Die, RunLocals
  <1>8. ASSUME UNCHANGED vars PROVE FALSE
    BY <1>8 DEF vars
  <1>9. ASSUME NEW q \in Run, q # p,
               Arrive(q) \/ Proceed(q) \/ (\E u \in Server : Serve(q, u) \/ DeadlineExceeded(q, u))
        PROVE  FALSE
    BY <1>9, OtherRuns
  <1> QED BY <1>1, <1>3, <1>4, <1>5, <1>6, <1>7, <1>8, <1>9 DEF AnyStep

\* The same, for a replica that stays up while no call fails.
LEMMA CallAnswered ==
    ASSUME Basic, [AnyStep]_vars, faults' = 0, NEW p \in Run, NEW t \in up',
           t \in run[p].todo, t \notin run'[p].todo
    PROVE  t \in Server /\ (Ping(p, t) \/ Serve(p, t))
  <1>1. t \in up
    BY UpShrinks
  <1>2. faults \in Nat
    BY DEF Basic, TypeOK
  <1>3. ~ Unreachable(p, t) /\ ~ DeadlineExceeded(p, t)
    BY <1>1, <1>2 DEF Unreachable, DeadlineExceeded
  <1> QED BY <1>3, CallEnds

\* Failed calls are never uncounted.
LEMMA NoFaultsBefore ==
    ASSUME Basic, [AnyStep]_vars, faults' = 0
    PROVE  faults = 0
  <1>0. faults \in Nat
    BY DEF Basic, TypeOK
  <1>1. ASSUME NEW p \in Run, NEW s \in Server, Serve(p, s)
        PROVE  faults' = faults
    BY <1>1, ServeData
  <1>2. ASSUME NEW p \in Run, Arrive(p) \/ Proceed(p)
        PROVE  faults' = faults
    BY <1>2, QuietSteps
  <1>3. ASSUME NEW s \in Server, Die(s)
        PROVE  faults' = faults
    BY <1>3 DEF Die
  <1>4. ASSUME NEW p \in Run, NEW s \in Server, DeadlineExceeded(p, s)
        PROVE  faults' = faults + 1
    BY <1>4 DEF DeadlineExceeded
  <1>5. CASE UNCHANGED vars
    BY <1>5 DEF vars
  <1> QED BY <1>0, <1>1, <1>2, <1>3, <1>4, <1>5 DEF AnyStep
-----------------------------------------------------------------------------
\* A running server keeps what it has executed.
LEMMA AppliedStays ==
    ASSUME Basic, [AnyStep]_vars, NEW s \in Server, s \in up'
    PROVE  applied[s] \subseteq applied'[s]
  <1>0. applied \in [Server -> SUBSET Run]
    BY DEF Basic, TypeOK
  <1>1. ASSUME UNCHANGED applied PROVE applied[s] \subseteq applied'[s]
    BY <1>1
  <1>2. ASSUME NEW p \in Run, NEW t \in Server, InformEnd(p, t)
        PROVE  applied[s] \subseteq applied'[s]
    BY <1>0, <1>2 DEF InformEnd
  <1>3. ASSUME NEW p \in Run, NEW t \in Server, Serve(p, t), ~ InformEnd(p, t)
        PROVE  UNCHANGED applied
    BY <1>3 DEF Serve, PrepareBegin, PrepareEnd, ProposeBegin, ProposeEnd, InformBegin,
                InformCheck
  <1>4. ASSUME NEW t \in Server, Die(t)
        PROVE  applied[s] \subseteq applied'[s]
    BY <1>0, <1>4 DEF Die
  <1>5. ASSUME NEW p \in Run, Arrive(p) \/ Proceed(p)
        PROVE  UNCHANGED applied
    BY <1>5, QuietSteps
  <1>6. ASSUME NEW p \in Run, NEW t \in Server, DeadlineExceeded(p, t)
        PROVE  UNCHANGED applied
    BY <1>6 DEF DeadlineExceeded
  <1>7. CASE UNCHANGED vars
    BY <1>7 DEF vars
  <1> QED BY <1>1, <1>2, <1>3, <1>4, <1>5, <1>6, <1>7 DEF AnyStep

\* A running learner that is settled stays so.
LEMMA SettledStays ==
    ASSUME Orderly, [AnyStep]_vars, NEW p \in Run, HasInstance(p), NEW s \in Server, s \in up',
           Settled(p, s)
    PROVE  Settled(p, s)'
  <1>1. run'[p].key = run[p].key /\ run'[p].round = run[p].round
    BY Stable DEF Orderly
  <1>2. CASE p \in applied[s]
    BY <1>2, AppliedStays DEF Settled, Orderly
  <1>3. CASE run[p].key \in Key /\ HasLaterRound(logs[s][run[p].key], run[p].round)
    <2>1. PICK r \in DOMAIN logs[s][run[p].key] : r > run[p].round
      BY <1>3 DEF HasLaterRound
    <2>2. r \in DOMAIN logs'[s][run[p].key]
      BY <1>3, LogsGrow DEF Orderly
    <2> QED BY <1>1, <1>3, <2>1, <2>2 DEF Settled, HasLaterRound
  <1> QED BY <1>2, <1>3 DEF Settled

\* A live learner that the proposer no longer waits for is settled.
LEMMA InformEnds ==
    ASSUME Orderly, [AnyStep]_vars, faults' = 0, NEW p \in Run, NEW t \in up',
           run[p].phase = "Inform", t \in run[p].todo, t \notin run'[p].todo
    PROVE  Settled(p, t)'
  <1>0. run[p].key \in Key /\ HasInstance(p) /\ run[p] \in RunLocals
    BY DEF Orderly, Basic, TypeOK, Begun
  <1>1. run'[p] # run[p]
    OBVIOUS
  <1>2. t \in Server /\ (Ping(p, t) \/ Serve(p, t))
    BY CallAnswered DEF Orderly
  <1>3. run'[p].key = run[p].key /\ run'[p].round = run[p].round
    BY <1>0, Stable DEF Orderly
  <1>4. CASE InformCheck(p, t)
    <2>1. HasLaterRound(logs[t][run[p].key], run[p].round) /\ UNCHANGED logs
      BY <1>1, <1>4 DEF InformCheck, serverVars
    <2> QED BY <1>0, <1>3, <2>1 DEF Settled
  <1>5. CASE InformEnd(p, t)
    <2>1. p \in applied'[t]
      BY <1>2, <1>5 DEF InformEnd, Orderly, Basic, TypeOK
    <2> QED BY <2>1 DEF Settled
  <1>6. CASE Ping(p, t)
    BY <1>6 DEF Ping, Calls
  <1>7. CASE PrepareBegin(p, t) \/ InformBegin(p, t)
    BY <1>1, <1>7 DEF PrepareBegin, InformBegin
  <1>8. CASE PrepareEnd(p, t) \/ ProposeBegin(p, t) \/ ProposeEnd(p, t)
    BY <1>1, <1>8 DEF PrepareEnd, ProposeBegin, ProposeEnd, Answer, Calls
  <1> QED BY <1>2, <1>4, <1>5, <1>6, <1>7, <1>8 DEF Serve

\* The replica s is still to be informed by p, or is settled.
HearsOf(p, s) == s \in run[p].todo \/ Settled(p, s)

Informed == LearnersInformed /\ InformedOrSuperseded

\* How the Inform loop of p comes to be where it is.
LEMMA InformPhase ==
    ASSUME Orderly, [AnyStep]_vars, NEW p \in Run, run'[p].phase \in {"Inform", "OK"}
    PROVE  /\ run'[p].live = run[p].live
           /\ \/ run'[p] = run[p]
              \/ run[p].phase = "Inform" /\ run'[p].phase = "Inform"
              \/ run[p].phase = "Inform" /\ run'[p].phase = "OK" /\ run[p].todo = {}
              \/ run'[p].phase = "Inform" /\ run'[p].todo = run[p].live
  <1>1. ASSUME Begins(p) PROVE FALSE
    <2>1. PICK s \in Server, key \in Key, op \in Proposal, phase \in {"Ping", "ABORTED"},
               round \in Nat, todo \in SUBSET Server : Begin(p, s, key, op, phase, round, todo)
      BY <1>1 DEF Begins, BeginsRight
    <2>2. run'[p].phase = phase
      BY <2>1 DEF Begin, NotStarted, Orderly, Basic, TypeOK
    <2> QED BY <2>2
  <1>2. Change(p, run'[p])
    BY <1>1, NextChange DEF Orderly
  <1>3. CASE GivesUpCall(p, run'[p])
    BY <1>3 DEF GivesUpCall, PastCalled, Calls, SameBallot, Working
  <1>4. CASE Advances(p, run'[p])
    BY <1>4 DEF Advances, SameBallot
  <1>5. ~ Pinged(p, run'[p]) /\ ~ IsLost(p, run'[p])
    BY DEF Pinged, PastCalled, IsLost
  <1>6. \A s \in Server : ~ PromisedBy(p, run'[p], s) /\ ~ AcceptedBy(p, run'[p], s)
    BY DEF PromisedBy, AcceptedBy, PastCalled
  <1> QED BY <1>2, <1>3, <1>4, <1>5, <1>6 DEF Change

\* No step leaves a live learner out of the Inform loop unsettled,
LEMMA InformedStep ==
    ASSUME Orderly, Informed, [AnyStep]_vars
    PROVE  Informed'
  <1> SUFFICES ASSUME faults' = 0, NEW p \in Run, run'[p].phase \in {"Inform", "OK"},
                      NEW s \in up', s \in run'[p].live
               PROVE  /\ run'[p].phase = "Inform" => HearsOf(p, s)'
                      /\ run'[p].phase = "OK" => Settled(p, s)'
    BY DEF Informed, LearnersInformed, InformedOrSuperseded, HearsOf
  <1>0. faults = 0 /\ s \in up /\ s \in Server
    BY NoFaultsBefore, UpShrinks DEF Orderly, Basic, TypeOK
  <1>1. s \in run[p].live
    BY InformPhase
  <1>2. ASSUME run[p].phase \in {"Inform", "OK"}, Settled(p, s)
        PROVE  Settled(p, s)'
    <2>1. HasInstance(p)
      BY <1>2 DEF Orderly, Basic, Begun
    <2> QED BY <1>0, <1>2, <2>1, SettledStays
  <1>3. ASSUME run[p].phase = "Inform"
        PROVE  HearsOf(p, s)
    BY <1>0, <1>1, <1>3 DEF Informed, LearnersInformed, HearsOf
  <1>4. CASE run'[p] = run[p]
    <2>1. run[p].phase = "OK" => Settled(p, s)
      BY <1>0, <1>1 DEF Informed, InformedOrSuperseded
    <2> QED BY <1>2, <1>3, <1>4, <2>1 DEF HearsOf
  <1>5. CASE run[p].phase = "Inform" /\ run'[p].phase = "Inform"
    <2>1. CASE Settled(p, s)
      BY <1>2, <1>5, <2>1 DEF HearsOf
    <2>2. CASE s \in run[p].todo
      BY <1>5, <2>2, InformEnds DEF HearsOf
    <2> QED BY <1>3, <1>5, <2>1, <2>2 DEF HearsOf
  <1>6. CASE run[p].phase = "Inform" /\ run'[p].phase = "OK" /\ run[p].todo = {}
    BY <1>2, <1>3, <1>6 DEF HearsOf
  <1>7. CASE run'[p].phase = "Inform" /\ run'[p].todo = run[p].live
    BY <1>1, <1>7 DEF HearsOf
  <1> QED BY <1>4, <1>5, <1>6, <1>7, InformPhase

\* so LearnersInformed holds in every reachable state.
LEMMA InformedInvariant == Spec => []Informed
  <1>1. Init => Informed
    BY DEF Init, Informed, LearnersInformed, InformedOrSuperseded, NotStarted
  <1>2. Orderly /\ Informed /\ [AnyStep]_vars => Informed'
    BY InformedStep
  <1> QED BY <1>1, <1>2, OrderlyInvariant, NextIsAnyStep, PTL DEF Spec

\* When no call has failed, every running replica that a request which returned
\* OK had found live has executed its proposal or logged a later round.
THEOREM LearnersAreInformed == Spec => []InformedOrSuperseded
  <1>1. Informed => InformedOrSuperseded
    BY DEF Informed
  <1> QED BY <1>1, InformedInvariant, PTL

-----------------------------------------------------------------------------
\* ProposerLogs for one run.
LogsOwn(p) ==
    LET s == run[p].server IN
        HasInstance(p) /\ s \in up =>
            /\ run[p].phase = "Ping" => s \in run[p].live \cup run[p].todo
            /\ run[p].phase = "Prepare" =>
                  s \in run[p].live /\ (s \in run[p].todo \/ Logged(p, s))
            /\ run[p].phase \in {"Propose", "Inform", "OK", "ABORTED"} => Logged(p, s)

\* A live replica leaves the Ping loop into the live set, and the Prepare loop
\* with the round logged.
LEMMA PingEnds ==
    ASSUME Basic, [AnyStep]_vars, faults' = 0, NEW p \in Run, NEW t \in up',
           run[p].phase = "Ping", t \in run[p].todo, t \notin run'[p].todo
    PROVE  t \in run'[p].live
  <1>0. run[p] \in RunLocals /\ run \in [Run -> RunLocals]
    BY DEF Basic, TypeOK
  <1>1. run'[p] # run[p]
    OBVIOUS
  <1>2. t \in Server /\ (Ping(p, t) \/ Serve(p, t))
    BY CallAnswered
  <1>3. CASE Ping(p, t)
    <2>1. PastCall(p, t) \in RunLocals
      BY PastCallType DEF Basic
    <2> QED BY <1>0, <1>3, <2>1 DEF Ping, RunLocals
  <1>4. ~ Serve(p, t)
    <2>1. ~ (PrepareBegin(p, t) \/ InformBegin(p, t))
      BY <1>1 DEF PrepareBegin, InformBegin
    <2>2. ~ (PrepareEnd(p, t) \/ ProposeBegin(p, t) \/ ProposeEnd(p, t))
      BY <1>1 DEF PrepareEnd, ProposeBegin, ProposeEnd, Answer, Calls
    <2>3. ~ (InformCheck(p, t) \/ InformEnd(p, t))
      BY <1>1 DEF InformCheck, InformEnd, Answer, Calls
    <2> QED BY <2>1, <2>2, <2>3 DEF Serve
  <1> QED BY <1>2, <1>3, <1>4

\* Without failed calls, a replica leaves the Prepare loop with the round logged.
LEMMA PrepareEnds ==
    ASSUME Orderly, AcceptorsRemember, [AnyStep]_vars, faults' = 0, NEW p \in Run, NEW t \in up',
           run[p].phase = "Prepare", t \in run[p].todo, t \notin run'[p].todo
    PROVE  Logged(p, t)'
  <1>0. Basic /\ HasInstance(p)
    BY DEF Orderly, Basic, Begun
  <1>1. run'[p] # run[p]
    OBVIOUS
  <1>2. t \in Server /\ (Ping(p, t) \/ Serve(p, t))
    BY <1>0, CallAnswered
  <1>3. ~ Ping(p, t)
    BY DEF Ping, Calls
  <1>4. CASE PrepareEnd(p, t)
    <2>1. Handler(p, t, "promise").run = p /\ Handler(p, t, "promise").at = t
          /\ Handler(p, t, "promise").step = "promise"
      BY DEF Handler
    <2>2. Logged(p, t)
      BY <1>4, <2>1 DEF PrepareEnd, AcceptorsRemember
    <2> QED BY <1>0, <1>2, <2>2, LoggedStays
  <1>5. ~ (PrepareBegin(p, t) \/ InformBegin(p, t))
    BY <1>1 DEF PrepareBegin, InformBegin
  <1>6. ~ (ProposeBegin(p, t) \/ ProposeEnd(p, t))
    BY <1>1 DEF ProposeBegin, ProposeEnd, Answer, Calls
  <1>7. ~ (InformCheck(p, t) \/ InformEnd(p, t))
    BY <1>1 DEF InformCheck, InformEnd, Answer, Calls
  <1> QED BY <1>2, <1>3, <1>4, <1>5, <1>6, <1>7 DEF Serve

\* A run whose server is up is only aborted in the Ping phase if its proposer
\* found no replica live.
LEMMA PingAborts ==
    ASSUME Basic, [AnyStep]_vars, NEW p \in Run, run[p].phase = "Ping",
           run'[p].phase \notin {"Ping", "Prepare", "Lost"}
    PROVE  run[p].live = {}
  <1>0. run[p] \in RunLocals /\ run \in [Run -> RunLocals]
    BY DEF Basic, TypeOK
  <1>1. \A u : PastCall(p, u).phase = run[p].phase
    BY PastCallKeeps DEF Basic
  <1>2. CASE PingDone(p)
    BY <1>0, <1>2 DEF PingDone, RunLocals
  <1>3. ASSUME NEW u \in Server, Ping(p, u) PROVE FALSE
    <2>1. [PastCall(p, u) EXCEPT !.live = @ \cup {u}].phase = run[p].phase
      BY <1>0 DEF PastCall, RunLocals
    <2> QED BY <1>0, <1>3, <2>1 DEF Ping
  <1>4. ASSUME NEW u \in Server, Unreachable(p, u) \/ DeadlineExceeded(p, u)
        PROVE  FALSE
    BY <1>0, <1>1, <1>4 DEF Unreachable, DeadlineExceeded
  <1>5. ~ PrepareDone(p) /\ ~ ProposeDone(p) /\ ~ InformDone(p)
    BY DEF PrepareDone, ProposeDone, InformDone
  <1>6. ASSUME NEW u \in Server, Serve(p, u) PROVE FALSE
    <2>1. UNCHANGED run => FALSE
      OBVIOUS
    <2>2. ~ (PrepareBegin(p, u) \/ InformBegin(p, u))
      BY <2>1 DEF PrepareBegin, InformBegin
    <2>3. ~ (PrepareEnd(p, u) \/ ProposeBegin(p, u) \/ ProposeEnd(p, u))
      BY <2>1 DEF PrepareEnd, ProposeBegin, ProposeEnd, Answer, Calls
    <2>4. ~ (InformCheck(p, u) \/ InformEnd(p, u))
      BY <2>1 DEF InformCheck, InformEnd, Answer, Calls
    <2> QED BY <1>6, <2>2, <2>3, <2>4 DEF Serve
  <1>7. ASSUME Arrive(p) PROVE FALSE
    BY <1>7, ArrivalIsNew DEF Basic
  <1>8. ASSUME NEW s \in Server, Die(s) PROVE FALSE
    BY <1>0, <1>8 DEF Die, RunLocals
  <1>9. ASSUME UNCHANGED vars PROVE FALSE
    BY <1>9 DEF vars
  <1>10. ASSUME NEW q \in Run, q # p,
                Arrive(q) \/ Proceed(q) \/ (\E u \in Server : Serve(q, u) \/ DeadlineExceeded(q, u))
         PROVE  FALSE
    BY <1>10, OtherRuns
  <1> QED BY <1>2, <1>3, <1>4, <1>5, <1>6, <1>7, <1>8, <1>9, <1>10 DEF AnyStep, Proceed

\* Each step keeps what ProposerLogs says of one thread,
LEMMA LogsOwnStep ==
    ASSUME Remembering, ProposerLogs, [AnyStep]_vars, faults' = 0, NEW p \in Run
    PROVE  LogsOwn(p)'
  <1>0. /\ Basic /\ Orderly /\ run[p] \in RunLocals /\ run \in [Run -> RunLocals]
        /\ up' \subseteq up
    BY UpShrinks DEF Remembering, Orderly, Basic, TypeOK
  <1>1. LogsOwn(p)
    BY <1>0, NoFaultsBefore DEF ProposerLogs, LogsOwn
  <1>2. CASE Begins(p)
    <2>1. PICK s \in Server, key \in Key, op \in Proposal, phase \in {"Ping", "ABORTED"},
               round \in Nat, todo \in SUBSET Server :
               BeginsRight(p, s, key, op, phase, round, todo)
      BY <1>2 DEF Begins
    <2>2. /\ run'[p].phase = phase /\ run'[p].round = round /\ run'[p].todo = todo
          /\ run'[p].server = s
      BY <1>0, <2>1 DEF BeginsRight, Begin, NotStarted
    <2>3. CASE phase = "ABORTED"
      BY <2>1, <2>2, <2>3 DEF BeginsRight, LogsOwn
    <2>4. CASE phase = "Ping"
      BY <2>1, <2>2, <2>4 DEF BeginsRight, LogsOwn
    <2> QED BY <2>3, <2>4
  <1>3. CASE Change(p, run'[p])
    <2>0. PICK s : s = run[p].server
      OBVIOUS
    <2>1. run'[p].server = s /\ run'[p].key = run[p].key /\ run'[p].round = run[p].round
      BY <1>3, <2>0 DEF Change, SameRequest
    <2> SUFFICES ASSUME HasInstance(p), s \in up'
                 PROVE  /\ run'[p].phase = "Ping" => s \in run'[p].live \cup run'[p].todo
                        /\ run'[p].phase = "Prepare" =>
                              s \in run'[p].live /\ (s \in run'[p].todo \/ Logged(p, s)')
                        /\ run'[p].phase \in {"Propose", "Inform", "OK", "ABORTED"} =>
                              Logged(p, s)'
      BY <2>0, <2>1 DEF LogsOwn, Logged
    <2>2. s \in up /\ s \in Server
      BY <1>0 DEF Basic, TypeOK
    <2>3. Logged(p, s) => Logged(p, s)'
      BY <1>0, <2>2, LoggedStays
    <2>4. run[p].phase = "Ping" => s \in run[p].live \cup run[p].todo
      BY <1>1, <2>0, <2>2 DEF LogsOwn
    <2>5. run[p].phase = "Prepare" => s \in run[p].live /\ (s \in run[p].todo \/ Logged(p, s))
      BY <1>1, <2>0, <2>2 DEF LogsOwn
    <2>6. run[p].phase \in {"Propose", "Inform", "OK", "ABORTED"} => Logged(p, s)
      BY <1>1, <2>0, <2>2 DEF LogsOwn
    <2>7. run[p].phase = "Ping" => s \in run'[p].live \/ s \in run[p].live \/ s \in run'[p].todo
      BY <1>0, <2>2, <2>4, PingEnds
    <2>8. run[p].phase = "Prepare" => s \in run'[p].todo \/ Logged(p, s)'
      BY <1>0, <2>2, <2>3, <2>5, PrepareEnds DEF Remembering
    <2>9. run[p].phase = "Ping" => run'[p].phase \in {"Ping", "Prepare", "Lost"} \/ run[p].live = {}
      BY <1>0, PingAborts
    <2>10. CASE run'[p] = run[p]
      BY <2>3, <2>4, <2>6, <2>8, <2>5, <2>10
    <2>11. CASE GivesUpCall(p, run'[p])
      <3>1. run'[p].phase = run[p].phase /\ run'[p].live = run[p].live /\ run[p].phase \in Working
        BY <2>11 DEF GivesUpCall, PastCalled, Calls, SameBallot
      <3> QED BY <2>3, <2>5, <2>6, <2>7, <2>8, <3>1 DEF Working
    <2>12. CASE Pinged(p, run'[p])
      <3>1. /\ run'[p].phase = "Ping" /\ run[p].phase = "Ping"
            /\ run[p].live \subseteq run'[p].live
        BY <2>12 DEF Pinged, PastCalled, Calls
      <3> QED BY <2>7, <3>1
    <2>13. ASSUME NEW t \in Server, PromisedBy(p, run'[p], t)
           PROVE  /\ run'[p].phase = "Prepare" /\ run[p].phase = "Prepare"
                  /\ run'[p].live = run[p].live
      BY <2>13 DEF PromisedBy, PastCalled, Calls
    <2>14. ASSUME NEW t \in Server, AcceptedBy(p, run'[p], t)
           PROVE  run'[p].phase = "Propose" /\ run[p].phase = "Propose"
      BY <2>14 DEF AcceptedBy, PastCalled, Calls
    <2>15. CASE Advances(p, run'[p])
      <3>1. run'[p].live = run[p].live /\ run[p].todo = {}
        BY <2>15 DEF Advances, SameBallot
      <3>2. CASE run[p].phase = "Ping"
        <4>1. s \in run[p].live
          BY <2>4, <3>1, <3>2
        <4>2. run'[p].phase = "Prepare" /\ run'[p].todo = run[p].live
          BY <2>9, <2>15, <3>2, <4>1 DEF Advances
        <4> QED BY <3>1, <4>1, <4>2
      <3>3. CASE run[p].phase # "Ping"
        <4>1. Logged(p, s)'
          BY <2>3, <2>5, <2>6, <2>15, <3>1, <3>3 DEF Advances
        <4>2. run'[p].phase \notin {"Ping", "Prepare"}
          BY <2>15, <3>3 DEF Advances
        <4> QED BY <4>1, <4>2
      <3> QED BY <3>2, <3>3
    <2>16. CASE IsLost(p, run'[p])
      BY <2>16 DEF IsLost
    <2> QED BY <1>3, <2>3, <2>5, <2>6, <2>8, <2>10, <2>11, <2>12, <2>13, <2>14, <2>15, <2>16 DEF Change
  <1> QED BY <1>0, <1>2, <1>3, NextChange

\* and so of all of them.
LEMMA ProposerLogsStep ==
    ASSUME Remembering, ProposerLogs, [AnyStep]_vars
    PROVE  ProposerLogs'
  BY LogsOwnStep DEF LogsOwn, ProposerLogs

-----------------------------------------------------------------------------
\* A request that begins looks past every round its server has logged.
LEMMA FreshRoundStep ==
    ASSUME Remembering, ProposerLogs, FreshRound, [AnyStep]_vars
    PROVE  FreshRound'
  <1> SUFFICES ASSUME faults' = 0, NEW p \in Run, NEW q \in Run, p \in prior'[q],
                      run'[p].key = run'[q].key, run'[p].server = run'[q].server,
                      run'[q].round > 0
               PROVE  run'[p].round < run'[q].round
    BY DEF FreshRound
  <1>0. Basic /\ Orderly /\ PriorReturned /\ faults = 0
    BY NoFaultsBefore DEF Remembering, Orderly
  <1>1. CASE Begins(q)
    <2>1. PICK s \in Server, key \in Key, op \in Proposal, phase \in {"Ping", "ABORTED"},
               round \in Nat, todo \in SUBSET Server :
               BeginsRight(q, s, key, op, phase, round, todo)
      BY <1>1 DEF Begins
    <2>2. /\ run'[q].round = round /\ run'[q].key = key /\ run'[q].server = s
          /\ prior'[q] = {r \in Run : Returned(r)}
          /\ s \in up
      BY <1>0, <2>1 DEF BeginsRight, Begin, NotStarted, Basic, TypeOK
    <2>3. Returned(p)
      BY <2>2
    <2>4. run'[p] = run[p]
      BY <1>0, <2>3, ReturnedStays
    <2>5. \A r \in DOMAIN logs[s][key] : r < round
      BY <2>1, <2>2 DEF BeginsRight
    <2>6. CASE HasInstance(p)
      <3>1. Logged(p, s)
        BY <1>0, <2>2, <2>3, <2>4, <2>6 DEF ProposerLogs, Returned
      <3> QED BY <2>2, <2>4, <2>5, <3>1 DEF Logged
    <2>7. CASE ~ HasInstance(p)
      <3>1. run[p].round \in Nat
        BY <1>0 DEF Basic, TypeOK, RunLocals
      <3> QED BY <2>2, <2>4, <2>7, <3>1
    <2> QED BY <2>6, <2>7
  <1>2. CASE ~ Begins(q)
    <2>1. /\ run'[q].key = run[q].key /\ run'[q].round = run[q].round
          /\ run'[q].server = run[q].server
      BY <1>0, <1>2, NextChange DEF Change, SameRequest
    <2>2. prior'[q] = prior[q]
      BY <1>0, <1>2, PriorKept
    <2>3. run'[p] = run[p]
      BY <1>0, <2>2, ReturnedStays DEF PriorReturned
    <2> QED BY <1>0, <2>1, <2>2, <2>3 DEF FreshRound
  <1> QED BY <1>1, <1>2

\* Every reachable state satisfies what FreshRound rests on.
LEMMA FreshInvariant == Spec => [](Remembering /\ ProposerLogs /\ FreshRound)
  <1>1. Init => ProposerLogs /\ FreshRound
    BY DEF Init, ProposerLogs, FreshRound, NotStarted
  <1>2. Remembering /\ ProposerLogs /\ FreshRound /\ [AnyStep]_vars =>
           (ProposerLogs /\ FreshRound)'
    BY ProposerLogsStep, FreshRoundStep
  <1> QED BY <1>1, <1>2, RememberingInvariant, NextIsAnyStep, PTL DEF Spec

\* While no call fails, a request that a server begins after an earlier request
\* of the same server and key has returned gets a later round than that one.
THEOREM RoundsAreFresh == Spec => []FreshRound
  <1>1. Remembering /\ ProposerLogs /\ FreshRound => FreshRound
    OBVIOUS
  <1> QED BY <1>1, FreshInvariant, PTL

-----------------------------------------------------------------------------
\* Every reachable state satisfies the whole inductive invariant.
THEOREM InvariantHolds == Spec => []IInv
  <1>1. Remembering /\ ProposerLogs /\ FreshRound /\ Informed /\ ExecutedWasChosen
           /\ LaterRunAdopts => IInv
    BY DEF Remembering, Orderly, Basic, Informed, IInv
  <1> QED BY <1>1, FreshInvariant, InformedInvariant, OnlyChosenIsExecuted, LaterRunsAdopt, PTL
=============================================================================
