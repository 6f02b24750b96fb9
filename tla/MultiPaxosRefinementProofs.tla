--------------------- MODULE MultiPaxosRefinementProofs ---------------------
(***************************************************************************)
(* Proof that one coordinator which is sent one request per key at a time, *)
(* while no call fails, implements the atomic store (StoreImplemented):    *)
(* each step of MultiPaxos is one of SerialStore, or changes nothing that  *)
(* SerialStore speaks of.  A request takes effect when the coordinator, as *)
(* a learner, executes it.                                                 *)
(***************************************************************************)
EXTENDS MultiPaxosRefinement, MultiPaxosSerialProofs

\* What the steps are shown from.
Serving == Remembering /\ SerialIInv /\ faults = 0

\* No call fails, so every reachable state is one of these.
LEMMA NoFaults == Spec => []Serving
  <1>1. Init => faults = 0
    BY DEF Init
  <1>2. Basic /\ faults = 0 /\ [Next]_vars => (faults = 0)'
    <2> SUFFICES ASSUME Basic, faults = 0, [Next]_vars PROVE faults' = 0
      OBVIOUS
    <2>1. ASSUME NEW p \in Run, NEW s \in Server, Serve(p, s)
          PROVE  faults' = faults
      BY <2>1, ServeData
    <2>2. ASSUME NEW p \in Run, Arrive(p) \/ Proceed(p)
          PROVE  faults' = faults
      BY <2>2, QuietSteps
    <2>3. ASSUME NEW p \in Run, NEW s \in Server, DeadlineExceeded(p, s)
          PROVE  FALSE
      BY <2>3, OnePerKey DEF DeadlineExceeded
    <2>4. ASSUME NEW s \in Server, Crash(s)
          PROVE  faults' = faults
      BY <2>4 DEF Crash, Die
    <2>5. CASE UNCHANGED vars
      BY <2>5 DEF vars
    <2> QED BY <2>1, <2>2, <2>3, <2>4, <2>5 DEF Next
  <1> QED BY <1>1, <1>2, RememberingInvariant, SerialInvariant, BasicInvariant, PTL
          DEF Spec, Serving

\* A thread at work is the coordinator's, which has no lost thread then.
LEMMA LeaderServes ==
    ASSUME Serving, NEW p \in Run
    PROVE  /\ Leader \in Server
           /\ Active(p) => run[p].server = Leader /\ Leader \in up
           /\ run[p].phase = "Lost" => Leader \notin up
           /\ Active(p) => Served(run[p].key) /\ InStep(p)
  <1>1. Leader \in Server /\ Proposer = {Leader}
    BY OneLeader, ProposerAssumption
  <1>2. \A q \in Run : /\ Active(q) => run[q].server = Leader /\ Leader \in up
                       /\ run[q].phase = "Lost" => Leader \notin up
    BY <1>1 DEF Serving, SerialIInv, ServersServe
  <1>3. ASSUME Active(p)
        PROVE  Served(run[p].key) /\ InStep(p)
    <2>1. run[p].key \in Key
      BY <1>3, ActiveBegun DEF Serving, Remembering, Orderly
    <2>2. Undisturbed(run[p].key) /\ OneAtATime
      BY <1>2, <1>3, OnePerKey DEF Undisturbed, OneAtATime, Serving
    <2>3. Served(run[p].key)
      BY <2>1, <2>2 DEF Served, Serving, SerialIInv, ReplicasInStep
    <2> QED BY <1>3, <2>3 DEF Served, KeyInStep
  <1> QED BY <1>1, <1>2, <1>3

\* The states of the other requests, when only p's locals change.
LEMMA OthersSeen ==
    ASSUME NEW p \in Run, \A q \in Run \ {p} : run'[q] = run[q],
           \A q \in Run \ {p} : q \in applied'[Leader] <=> q \in applied[Leader]
    PROVE  \A q \in Run \ {p} : /\ RequestState(q)' = RequestState(q)
                                /\ run'[q].key = run[q].key /\ run'[q].op = run[q].op
  BY DEF RequestState, Active

\* A step that p's request is seen to take.
LEMMA SeenStep ==
    ASSUME NEW p \in Run,
           \A q \in Run \ {p} : /\ RequestState(q)' = RequestState(q)
                                /\ run'[q].key = run[q].key /\ run'[q].op = run[q].op
    PROVE  /\ RequestView' = [RequestView EXCEPT ![p] =
                  [state |-> RequestState(p)', key |-> run'[p].key, op |-> run'[p].op]]
           /\ run'[p].key = run[p].key /\ run'[p].op = run[p].op =>
                 RequestView' = [RequestView EXCEPT ![p].state = RequestState(p)']
           /\ run'[p].key = run[p].key /\ run'[p].op = run[p].op
              /\ RequestState(p)' = RequestState(p) => RequestView' = RequestView
  BY DEF RequestView

\* What SerialStore sees of a request.
LEMMA SeenAs ==
    ASSUME NEW p \in Run
    PROVE  /\ RequestView[p].state = RequestState(p) /\ RequestView[p].key = run[p].key
           /\ RequestView[p].op = run[p].op
  BY DEF RequestView

\* The coordinator's store is what it holds.
LEMMA StoreIs == StoreView = [k \in Key |-> Holds(Leader, k)]
  BY DEF StoreView, Holds
-----------------------------------------------------------------------------
\* A request that arrives is invoked, and may be refused at once.
LEMMA ArriveInvokes ==
    ASSUME Serving, NEW p \in Run, Arrive(p)
    PROVE  \E key \in Key, op \in Operation : Store!Invoke(p, key, op)
  <1>0. Basic /\ run[p].phase = "Idle" /\ UNCHANGED serverVars /\ UNCHANGED applied
    BY ArrivalIsNew, QuietSteps DEF Serving, Remembering, Orderly, Basic
  <1>1. PICK s \in Server, key \in Key, op \in Proposal, phase \in {"Ping", "ABORTED"},
             round \in Nat, todo \in SUBSET Server :
             /\ BeginsRight(p, s, key, op, phase, round, todo)
             /\ run'[p] = [NotStarted EXCEPT !.phase = phase, !.server = s, !.key = key,
                              !.op = op, !.round = round, !.todo = todo]
             /\ \A q \in Run \ {p} : run'[q] = run[q]
    BY <1>0, BeginsIn
  <1>2. op \in Operation /\ s \in up /\ s = Leader
    BY <1>1, OneLeader DEF BeginsRight, Begin
  <1>3. run'[p].phase = phase /\ run'[p].key = key /\ run'[p].op = op
    BY <1>1 DEF NotStarted
  <1>4. RequestState(p) = "Idle"
    BY <1>0 DEF RequestState, Active, Working
  <1>5. p \notin applied[Leader]
    BY <1>0, <1>2 DEF Serving, SerialIInv, AppliedWhenInformed
  <1>6. RequestState(p)' \in {"Pending", "ABORTED"}
    BY <1>0, <1>3, <1>5 DEF RequestState, Active, Working
  <1>7. RequestView' = [RequestView EXCEPT ![p] =
                           [state |-> RequestState(p)', key |-> key, op |-> op]]
    BY <1>0, <1>1, <1>3, OthersSeen, SeenStep
  <1>8. StoreView' = StoreView
    BY <1>0 DEF StoreView, serverVars
  <1> QED BY <1>2, <1>4, <1>6, <1>7, <1>8, SeenAs DEF Store!Invoke

\* A thread of RunPaxos goes on unseen, or answers its request.
LEMMA ProceedAnswers ==
    ASSUME Serving, NEW p \in Run, Proceed(p)
    PROVE  Store!Answer(p) \/ UNCHANGED Store!vars
  <1>0. /\ Basic /\ [AnyStep]_vars /\ Active(p) /\ UNCHANGED serverVars /\ UNCHANGED applied
        /\ run[p].phase # "Idle" /\ \A q \in Run \ {p} : run'[q] = run[q]
    <2>1. Basic /\ [AnyStep]_vars
      BY DEF Serving, Remembering, Orderly, AnyStep
    <2> QED BY <2>1, ProceedChange, ActiveBegun, OtherRuns
  <1>1. run'[p].key = run[p].key /\ run'[p].op = run[p].op
    BY <1>0, RunStays DEF SameRequest
  <1>2. StoreView' = StoreView
    BY <1>0 DEF StoreView, serverVars
  <1>3. /\ RequestView' = [RequestView EXCEPT ![p].state = RequestState(p)']
        /\ RequestState(p)' = RequestState(p) => RequestView' = RequestView
    BY <1>0, <1>1, OthersSeen, SeenStep
  <1>4. CASE Active(p)'
    <2>1. RequestState(p)' = RequestState(p)
      BY <1>0, <1>4 DEF RequestState
    <2> QED BY <1>2, <1>3, <2>1 DEF Store!vars
  <1>5. CASE ~ Active(p)'
    <2>1. Change(p, run'[p])
      BY <1>0, ProceedChange DEF ChangesTo, Basic, TypeOK
    <2>2. Advances(p, run'[p])
      <3>1. ~ IsLost(p, run'[p])
        <4>1. ASSUME NEW s \in Server, Die(s) PROVE FALSE
          BY <1>0, <4>1 DEF Die, serverVars, Basic, TypeOK
        <4>2. run'[p].phase = "Lost" => \E s \in Server : Die(s)
          <5>1. AnyStep /\ run[p].phase # "Lost"
            BY <1>0 DEF AnyStep, Active, Working
          <5> QED BY <1>0, <5>1, LostByDeath
        <4> QED BY <4>1, <4>2 DEF IsLost
      <3>2. run'[p] # run[p]
        BY <1>0, <1>5 DEF Active
      <3>3. ~ GivesUpCall(p, run'[p]) /\ ~ Pinged(p, run'[p])
        BY <1>5 DEF GivesUpCall, Pinged, PastCalled, Active, Working
      <3>4. \A s \in Server : ~ PromisedBy(p, run'[p], s) /\ ~ AcceptedBy(p, run'[p], s)
        BY <1>5 DEF PromisedBy, AcceptedBy, PastCalled, Active, Working
      <3> QED BY <2>1, <3>1, <3>2, <3>3, <3>4 DEF Change
    <2>3. CASE run[p].phase = "Inform" /\ run'[p].phase = "OK"
      <3>1. Leader \in up /\ InStep(p)
        BY <1>0, LeaderServes
      <3>2. p \in applied[Leader]
        BY <2>2, <2>3, <3>1 DEF InStep, ValuesInStep, Advances
      <3>3. RequestState(p) = "Done" /\ RequestState(p)' = "OK"
        BY <1>0, <1>5, <2>3, <3>2 DEF RequestState
      <3> QED BY <1>2, <1>3, <3>3, SeenAs DEF Store!Answer, Store!To
    <2>4. CASE run[p].phase \in {"Ping", "Prepare", "Propose"} /\ run'[p].phase = "ABORTED"
      <3>1. Leader \in up /\ AppliedWhenInformed /\ faults = 0
        BY <1>0, LeaderServes DEF Serving, SerialIInv
      <3>2. p \notin applied[Leader]
        BY <2>4, <3>1 DEF AppliedWhenInformed
      <3>3. RequestState(p) = "Pending" /\ RequestState(p)' = "ABORTED"
        BY <1>0, <1>5, <2>4, <3>2 DEF RequestState
      <3> QED BY <1>2, <1>3, <3>3, SeenAs DEF Store!Answer, Store!To
    <2> QED BY <1>5, <2>2, <2>3, <2>4 DEF Advances, Active, Working
  <1> QED BY <1>4, <1>5

\* A handler's step is unseen, unless the coordinator executes the request.
LEMMA ServeTakesEffect ==
    ASSUME Serving, NEW p \in Run, NEW s \in Server, Serve(p, s)
    PROVE  Store!TakeEffect(p) \/ UNCHANGED Store!vars
  <1>0. /\ Basic /\ Orderly /\ [AnyStep]_vars /\ HandlersAwaited /\ faults = 0
        /\ run[p].phase # "Idle" /\ run[p].key \in Key /\ run \in [Run -> RunLocals]
        /\ s \in up /\ applied \in [Server -> SUBSET Run] /\ Leader \in Server
        /\ \A q \in Run \ {p} : run'[q] = run[q]
    <2>1. Basic /\ Orderly /\ [AnyStep]_vars /\ HandlersAwaited /\ faults = 0
      BY DEF Serving, SerialIInv, Remembering, Orderly, AnyStep
    <2> QED BY <2>1, ServeRight, OtherRuns, LeaderServes DEF Basic, TypeOK
  <1>1. run'[p].key = run[p].key /\ run'[p].op = run[p].op
    BY <1>0, RunStays DEF SameRequest
  <1>2. ~ InformEnd(p, s) \/ s # Leader => applied'[Leader] = applied[Leader]
    BY <1>0 DEF Serve, PrepareBegin, PrepareEnd, ProposeBegin, ProposeEnd, InformBegin,
                InformCheck, InformEnd
  <1>3. RequestState(p)' = RequestState(p) \/ (InformEnd(p, s) /\ s = Leader)
    <2>1. SUFFICES ASSUME ~ (InformEnd(p, s) /\ s = Leader)
                   PROVE  RequestState(p)' = RequestState(p)
      OBVIOUS
    <2>2. CASE Active(p)
      <3>1. run'[p].phase = run[p].phase
        BY <1>0, <2>2, LeaderServes, ServeLocals
      <3> QED BY <1>2, <2>1, <3>1 DEF RequestState, Active
    <2>3. CASE ~ Active(p)
      <3>1. run'[p] = run[p]
        BY <1>0, <2>3, RunStays
      <3> QED BY <2>3, <3>1 DEF RequestState, Active
    <2> QED BY <2>2, <2>3
  <1>4. CASE ~ (InformEnd(p, s) /\ s = Leader)
    <2>1. \A k \in Key : Holds(Leader, k)' = Holds(Leader, k)
      BY <1>0, <1>4, ServeHolds
    <2>2. StoreView' = StoreView
      BY <2>1 DEF StoreView, Holds
    <2>3. RequestView' = RequestView
      BY <1>0, <1>1, <1>2, <1>3, <1>4, OthersSeen, SeenStep
    <2> QED BY <2>2, <2>3 DEF Store!vars
  <1>5. CASE InformEnd(p, s) /\ s = Leader
    <2>1. Calls(p, "Inform", Leader) /\ Active(p)
      <3>1. run[p].phase # "Lost"
        BY <1>0, <1>5, LeaderServes
      <3>2. Calls(p, "Inform", Leader)
        BY <1>0, <1>5, <3>1, ServeAwaited
      <3> QED BY <3>2 DEF Calls, Active, Working
    <2>2. p \notin applied[Leader]
      BY <1>0, <1>5, <2>1 DEF Serving, SerialIInv, AppliedWhenInformed, Calls
    <2>3. applied' = [applied EXCEPT ![Leader] = applied[Leader] \cup {p}]
      BY <1>5 DEF InformEnd
    <2>4. p \in applied'[Leader] /\ \A q \in Run \ {p} : q \in applied'[Leader]
                                                         <=> q \in applied[Leader]
      BY <1>0, <2>3
    <2>5. run'[p].phase = run[p].phase
      BY <1>0, <2>1, LeaderServes, ServeLocals
    <2>6. RequestState(p) = "Pending" /\ RequestState(p)' = "Done"
      BY <2>1, <2>2, <2>4, <2>5 DEF RequestState, Active
    <2>7. RequestView' = [RequestView EXCEPT ![p].state = "Done"]
      BY <1>0, <1>1, <2>4, <2>6, OthersSeen, SeenStep
    <2>8. run[p].proposal = run[p].op
      <3>1. HasProposed(p)
        BY <1>0, <2>1 DEF Orderly, RunsInOrder, Calls
      <3> QED BY <2>1, <3>1, LeaderServes DEF InStep
    <2>9. Holds(Leader, run[p].key)' = Outcome(run[p].op)'
      BY <1>0, <1>5, <2>8, ExecutesOutcome DEF Serving, SerialIInv
    <2>10. PICK k \in Key : k = run[p].key
      BY <1>0
    <2>11. Holds(Leader, k)' = Outcome(run[p].op)
      BY <1>1, <2>9, <2>10 DEF Holds, Outcome
    <2>12. \A j \in Key \ {k} : Holds(Leader, j)' = Holds(Leader, j)
      BY <1>0, <2>10, ServeHolds
    <2>13. StoreView' = [StoreView EXCEPT ![k] = Outcome(run[p].op)]
      <3>1. StoreView' = [j \in Key |-> Holds(Leader, j)']
        BY DEF StoreView, Holds
      <3> QED BY <2>11, <2>12, <3>1, StoreIs
    <2>14. Store!Result(run[p].op) = Outcome(run[p].op)
      BY DEF Store!Result, Outcome
    <2> QED BY <2>6, <2>7, <2>10, <2>13, <2>14, SeenAs DEF Store!TakeEffect, Store!To
  <1> QED BY <1>4, <1>5

\* The death of the coordinator stops the store, that of another server is unseen.
LEMMA DieStops ==
    ASSUME Serving, NEW s \in Server, Die(s)
    PROVE  Store!Stop \/ UNCHANGED Store!vars
  <1>0. /\ run \in [Run -> RunLocals] /\ data \in [Server -> [Key -> AnyValue]]
        /\ coordinator \in [Server -> Server \cup {Nil}] /\ applied \in [Server -> SUBSET Run]
    BY DEF Serving, Remembering, Orderly, Basic, TypeOK
  <1>1. Leader \in Server /\ \A p \in Run : Active(p) => run[p].server = Leader
    <2>1. Leader \in Server
      BY OneLeader, ProposerAssumption
    <2> QED BY <2>1, LeaderServes
  <1>2. CASE s # Leader
    <2>1. run' = run
      BY <1>0, <1>1, <1>2 DEF Die, RunsOf
    <2>2. data'[Leader] = data[Leader] /\ coordinator'[Leader] = coordinator[Leader]
          /\ applied'[Leader] = applied[Leader]
      BY <1>0, <1>1, <1>2 DEF Die
    <2> QED BY <2>1, <2>2 DEF StoreView, RequestView, RequestState, Active, Store!vars
  <1>3. CASE s = Leader
    <2>1. data'[Leader] = [k \in Key |-> Nil] /\ coordinator'[Leader] = Nil
      BY <1>0, <1>1, <1>3 DEF Die
    <2>2. StoreView' = [k \in Key |-> Nil]
      BY <2>1 DEF StoreView
    <2>3. ASSUME NEW p \in Run
          PROVE  RequestView'[p] = IF RequestView[p].state \in {"Pending", "Done"}
                                   THEN [RequestView[p] EXCEPT !.state = "Lost"]
                                   ELSE RequestView[p]
      <3>1. CASE Active(p)
        <4>1. p \in RunsOf(Leader)
          BY <1>1, <3>1 DEF RunsOf
        <4>2. run'[p] = [run[p] EXCEPT !.phase = "Lost"]
          BY <1>3, <4>1 DEF Die
        <4>3. run'[p].phase = "Lost" /\ run'[p].key = run[p].key /\ run'[p].op = run[p].op
          BY <1>0, <4>2 DEF RunLocals
        <4>4. RequestState(p)' = "Lost" /\ RequestState(p) \in {"Pending", "Done"}
          BY <3>1, <4>3 DEF RequestState, Active, Working
        <4> QED BY <4>3, <4>4 DEF RequestView
      <3>2. CASE ~ Active(p)
        <4>1. run'[p] = run[p]
          BY <1>3, <3>2 DEF Die, RunsOf
        <4>2. RequestState(p)' = RequestState(p) /\ RequestState(p) = run[p].phase
          BY <3>2, <4>1 DEF RequestState, Active
        <4>3. run[p].phase \notin {"Pending", "Done"}
          BY <1>0 DEF RunLocals, Phase, Working
        <4> QED BY <4>1, <4>2, <4>3 DEF RequestView
      <3> QED BY <3>1, <3>2
    <2>4. RequestView' = [p \in Run |-> RequestView'[p]]
      BY DEF RequestView
    <2> QED BY <2>2, <2>3, <2>4 DEF Store!Stop
  <1> QED BY <1>2, <1>3

\* One coordinator that is sent one request per key at a time, with no failed
\* call, implements the atomic store: a put or delete that returns OK has taken
\* effect exactly once, in between, with the requester's own operation, and an
\* aborted one never does.
THEOREM StoreImplemented == Spec => ImplementsSerialStore
  <1>1. Init => Store!Init
    <2> SUFFICES ASSUME Init PROVE Store!Init
      OBVIOUS
    <2>1. StoreView = [k \in Key |-> Nil]
      <3>1. Leader \in Server
        BY OneLeader, ProposerAssumption
      <3> QED BY <3>1 DEF Init, StoreView
    <2>2. \A p \in Run : RequestState(p) = "Idle"
      BY DEF Init, RequestState, Active, Working, NotStarted
    <2> QED BY <2>1, <2>2, SeenAs DEF Store!Init
  <1>2. Serving /\ [Next]_vars => [Store!Next]_(Store!vars)
    <2> SUFFICES ASSUME Serving, [Next]_vars PROVE [Store!Next]_(Store!vars)
      OBVIOUS
    <2>1. ASSUME NEW p \in Run, Arrive(p)
          PROVE  Store!Next
      BY <2>1, ArriveInvokes DEF Store!Next
    <2>2. ASSUME NEW p \in Run, Proceed(p)
          PROVE  [Store!Next]_(Store!vars)
      BY <2>2, ProceedAnswers DEF Store!Next
    <2>3. ASSUME NEW p \in Run, NEW s \in Server, Serve(p, s)
          PROVE  [Store!Next]_(Store!vars)
      BY <2>3, ServeTakesEffect DEF Store!Next
    <2>4. ASSUME NEW p \in Run, NEW s \in Server, DeadlineExceeded(p, s)
          PROVE  FALSE
      BY <2>4, OnePerKey DEF DeadlineExceeded, Serving
    <2>5. ASSUME NEW s \in Server, Crash(s)
          PROVE  [Store!Next]_(Store!vars)
      BY <2>5, DieStops DEF Crash, Store!Next
    <2>6. CASE UNCHANGED vars
      BY <2>6 DEF vars, serverVars, Store!vars, StoreView, RequestView, RequestState, Active
    <2> QED BY <2>1, <2>2, <2>3, <2>4, <2>5, <2>6 DEF Next
  <1> QED BY <1>1, <1>2, NoFaults, PTL DEF Spec, ImplementsSerialStore, Store!Spec
=============================================================================
