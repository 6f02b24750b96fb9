----------------------- MODULE LifecycleSerialProofs -----------------------
(***************************************************************************)
(* Proofs about servers that start alone while a key is sent one request   *)
(* at a time, no call fails and no server ends in the middle of a request: *)
(* a server that has recovered from another one has what that one has      *)
(* whenever nothing is going on (FollowersKeepUp).  The argument follows   *)
(* the snapshot from the map it is copied from to the map it is installed  *)
(* in, and then every request that both servers take part in.              *)
(***************************************************************************)
EXTENDS LifecycleProofs, MultiPaxosSerialProofs, LifecycleSerial

USE DEF ProposeId, HasInstance

-----------------------------------------------------------------------------
(* Steps *)

\* A request that begins while no server starts, if servers start alone.
ClientStep(p) ==
    /\ ArriveStep(p)
    /\ StartsAlone => \A s \in Server : ~ Starting(s)

\* The kinds of steps.
LEMMA LifeKinds ==
    ASSUME [LifeNext]_lifeVars
    PROVE  \/ \E s \in Server : Start(s)
           \/ \E s \in Server : Initialize(s) /\ ~ AssertFails(s)
           \/ \E s \in Server : Die(s) /\ Ends(s)
           \/ \E p \in Run : ClientStep(p) \/ PaxosStep(p)
           \/ UNCHANGED lifeVars
  <1>1. ASSUME NEW p \in Run, ForwardRequest(p)
        PROVE  ClientStep(p)
    <2>1. PICK s \in Server, k \in DataKey :
                (\E v \in Value : PutPair(p, s, k, v)) \/ DeletePair(p, s, k)
      BY <1>1 DEF ForwardRequest
    <2>2. k \in Key
      BY DEF Key
    <2> QED BY <1>1, <2>1, <2>2 DEF ForwardRequest, ClientStep, ArriveStep, Arrive
  <1>2. ASSUME NEW p \in Run, NEW s \in Server, ReplaceCoordinator(p, s)
        PROVE  ClientStep(p)
    BY <1>2 DEF ReplaceCoordinator, ClientStep, ArriveStep, Arrive
  <1>3. ASSUME NEW s \in Server, CrashProcess(s) \/ AssertFails(s)
        PROVE  Die(s) /\ Ends(s)
    BY <1>3 DEF CrashProcess, Crash, AssertFails
  <1> QED BY <1>1, <1>2, <1>3 DEF LifeNext

\* Every step is one of MultiPaxos, or one of main's threads.
LEMMA PaxosOrMainStep ==
    ASSUME [LifeNext]_lifeVars
    PROVE  [AnyStep]_vars \/ MainStep
  <1>1. LifeMove \/ UNCHANGED vars
    BY LifeNextIsMove DEF lifeVars
  <1> QED BY <1>1, MoveKinds

\* A calm state is followed and preceded by calm ones only, until it is over.
LEMMA CalmBefore ==
    ASSUME LifeBasic, [LifeNext]_lifeVars, Calm'
    PROVE  Calm
  <1>0. Basic /\ faults \in Nat
    BY DEF LifeBasic, LifeTypeOK, Basic, TypeOK
  <1>1. CASE [AnyStep]_vars
    <2>1. faults = 0
      BY <1>0, <1>1, NoFaultsBefore DEF Calm
    <2>2. ASSUME NEW p \in Run, run[p].phase = "Lost" PROVE FALSE
      <3>1. run'[p] = run[p]
        BY <1>0, <1>1, <2>2, RunStays DEF Active, Working
      <3> QED BY <2>2, <3>1 DEF Calm
    <2> QED BY <2>1, <2>2 DEF Calm
  <1>2. CASE MainStep
    BY <1>0, <1>2 DEF MainStep, CallFails, Joins, Follows, StoresCopy, LogsCopy, Calm, serverVars
  <1> QED BY <1>1, <1>2, PaxosOrMainStep

\* What a calm state satisfies.
Following == LifeIInv /\ FollowIInv /\ Calm

LEMMA FollowingIs ==
    ASSUME Following
    PROVE  /\ Basic /\ Orderly /\ LifeBasic /\ LifeTypeOK
           /\ RequestsAreOperations /\ OneActive /\ HandlersAwaited
           /\ MaxPerKey = 1 /\ StartsAlone /\ faults = 0
           /\ \A p \in Run : run[p].phase # "Lost"
           /\ LiveFound /\ StartsAreAlone /\ BlankBeforeInstall
           /\ \A s, c \in Server : RecoveredFrom(s, c) => Follow(s, c)
  <1>1. Orderly /\ LifeBasic
    BY LifeOrderly DEF Following
  <1> QED BY <1>1 DEF Following, FollowIInv, FollowersInStep, Calm, Orderly, LifeBasic

\* The steps of a Paxos run are those of its thread and of its handlers.
LEMMA PaxosStepIs ==
    ASSUME Following, NEW p \in Run, PaxosStep(p)
    PROVE  \/ Proceed(p)
           \/ (\E s \in Server : Serve(p, s))
           \/ faults' # 0
  <1>1. ASSUME NEW s \in Server, DeadlineExceeded(p, s)
        PROVE  faults' # 0
    BY <1>1, FollowingIs DEF DeadlineExceeded
  <1> QED BY <1>1 DEF PaxosStep

\* A handler works for a thread at work.
LEMMA ServesActive ==
    ASSUME Following, NEW p \in Run, NEW s \in Server, Serve(p, s)
    PROVE  /\ Active(p) /\ s \in up
           /\ run[p].phase \in {"Prepare", "Propose", "Inform"}
           /\ Calls(p, run[p].phase, s)
  <1>1. PICK phase \in {"Prepare", "Propose", "Inform"} : Calls(p, phase, s)
    BY FollowingIs, ServeAwaited
  <1>2. s \in up
    BY FollowingIs, ServeRight
  <1> QED BY <1>1, <1>2 DEF Calls, Active, Working

\* Main's threads neither serve requests nor handle calls.
LEMMA RequestsStep ==
    ASSUME LifeIInv, FollowIInv, [LifeNext]_lifeVars
    PROVE  RequestsAreOperations' /\ OneActive' /\ HandlersAwaited'
  <1>0. Basic /\ RequestsAreOperations /\ OneActive /\ HandlersAwaited /\ faults \in Nat
    BY LifeOrderly DEF Orderly, FollowIInv, Basic, TypeOK
  <1>1. CASE [AnyStep]_vars
    BY <1>0, <1>1, OperationsStep, OneActiveStep, HandlersAwaitedStep
  <1>2. CASE MainStep
    <2>1. run' = run /\ handlers' = handlers
      BY <1>2 DEF MainStep
    <2>2. faults' = 0 => faults = 0
      BY <1>0, <1>2 DEF MainStep, CallFails, Joins, Follows, StoresCopy, LogsCopy
    <2> QED BY <1>0, <2>1, <2>2 DEF RequestsAreOperations, OneActive, HandlersAwaited, Active,
                                   Awaited, Calls
  <1> QED BY <1>1, <1>2, PaxosOrMainStep

\* A request is at work after a step if it was before, or has just arrived.
LEMMA WorkedBefore ==
    ASSUME Basic, [AnyStep]_vars, NEW p \in Run, Active(p)'
    PROVE  \/ Active(p) /\ SameRequest(p, run'[p])
           \/ /\ run[p].phase = "Idle" /\ Begins(p)
              /\ run'[p].phase = "Ping" /\ run'[p].todo = Server
  <1>0. run \in [Run -> RunLocals]
    BY DEF Basic, TypeOK
  <1>1. CASE run[p].phase # "Idle"
    BY <1>1, RunStays DEF Active
  <1>2. CASE run[p].phase = "Idle" /\ Begins(p)
    <2>1. PICK s \in Server, key \in Key, op \in Proposal, phase \in {"Ping", "ABORTED"},
               round \in Nat, todo \in SUBSET Server :
               BeginsRight(p, s, key, op, phase, round, todo)
      BY <1>2 DEF Begins
    <2>2. run'[p] = [NotStarted EXCEPT !.phase = phase, !.server = s, !.key = key,
                                       !.op = op, !.round = round, !.todo = todo]
      BY <1>0, <2>1 DEF BeginsRight, Begin
    <2>3. run'[p].phase = phase /\ run'[p].todo = todo
      BY <2>2 DEF NotStarted
    <2> QED BY <1>2, <2>1, <2>3 DEF BeginsRight, Active, Working
  <1>3. CASE run[p].phase = "Idle" /\ Change(p, run'[p])
    BY <1>3 DEF Change, GivesUpCall, Pinged, Advances, IsLost, PromisedBy, AcceptedBy,
                PastCalled, Calls, Active, Working
  <1> QED BY <1>1, <1>2, <1>3, NextChange

\* Past its ping loop, a proposer keeps to the servers it has found.
LEMMA KeepsLive ==
    ASSUME Basic, NEW p \in Run, run[p].phase \in {"Prepare", "Propose", "Inform"},
           Change(p, run'[p])
    PROVE  run'[p].live = run[p].live /\ run'[p].phase # "Ping"
  BY DEF Change, SameBallot, GivesUpCall, Pinged, Advances, IsLost, PromisedBy, AcceptedBy,
         PastCalled, Calls

\* The ping loop misses no server that runs, as long as no call fails.
LEMMA PaxosFinds ==
    ASSUME Basic, HandlersAwaited, LiveFound, [AnyStep]_vars, faults' = 0
    PROVE  LiveFound'
  <1> SUFFICES ASSUME NEW p \in Run, Active(p)', NEW t \in up'
               PROVE  \/ t \in run'[p].live
                      \/ run'[p].phase = "Ping" /\ t \in run'[p].todo
    BY DEF LiveFound
  <1>0. /\ run \in [Run -> RunLocals] /\ faults = 0
        /\ t \in up /\ t \in Server
    BY UpShrinks, NoFaultsBefore DEF Basic, TypeOK
  <1>1. CASE ~ Active(p)
    BY <1>0, <1>1, WorkedBefore
  <1>2. CASE Active(p)
    <2>1. Change(p, run'[p])
      <3>1. ASSUME NEW s, NEW key, NEW op, NEW phase, NEW round, NEW todo,
                   BeginsRight(p, s, key, op, phase, round, todo)
            PROVE  FALSE
        BY <1>2, <3>1 DEF BeginsRight, Begin, Active, Working
      <3> QED BY <3>1, NextChange DEF Begins
    <2>2. t \in run[p].live \/ (run[p].phase = "Ping" /\ t \in run[p].todo)
      BY <1>0, <1>2 DEF LiveFound
    <2>3. CASE run[p].phase # "Ping"
      BY <1>2, <2>1, <2>2, <2>3, KeepsLive DEF Active, Working
    <2>4. CASE run[p].phase = "Ping"
      <3>1. run[p].live \subseteq run'[p].live
        BY <2>1 DEF Change, SameBallot, GivesUpCall, Pinged, Advances, IsLost, PromisedBy,
                    AcceptedBy, PastCalled, Calls
      <3>2. run'[p].phase = "Ping" \/ run[p].todo = {}
        BY <2>1, <2>4 DEF Change, GivesUpCall, Pinged, Advances, IsLost, PromisedBy, AcceptedBy,
                          PastCalled, Calls, Active, Working
      <3>3. CASE t \in run[p].todo /\ t \notin run'[p].todo
        <4>1. Ping(p, t) \/ Serve(p, t)
          BY <3>3, CallAnswered
        <4>2. ~ Serve(p, t)
          BY <1>0, <2>4, ServeAwaited DEF Calls
        <4>3. run'[p] = [PastCall(p, t) EXCEPT !.live = run[p].live \cup {t}]
          BY <1>0, <4>1, <4>2 DEF Ping, PastCall, RunLocals
        <4>4. t \in run'[p].live
          BY <1>0, <4>3 DEF PastCall, RunLocals
        <4> QED BY <4>4
      <3> QED BY <2>2, <3>1, <3>2, <3>3
    <2> QED BY <2>3, <2>4
  <1> QED BY <1>1, <1>2

LEMMA LiveFoundStep ==
    ASSUME Following, [LifeNext]_lifeVars, Calm'
    PROVE  LiveFound'
  <1>0. Basic /\ HandlersAwaited /\ LiveFound /\ StartsAlone /\ faults' = 0
    BY FollowingIs DEF Calm
  <1>1. CASE [AnyStep]_vars
    BY <1>0, <1>1, PaxosFinds
  <1>2. CASE ~ [AnyStep]_vars
    <2> SUFFICES ASSUME NEW p \in Run, Active(p)'
                 PROVE  up' \subseteq run'[p].live
                                  \cup (IF run'[p].phase = "Ping" THEN run'[p].todo ELSE {})
      BY DEF LiveFound
    <2>1. run' = run
      BY <1>2, PaxosOrMainStep DEF MainStep
    <2>2. ASSUME NEW s \in Server, Start(s) PROVE FALSE
      BY <1>0, <2>1, <2>2 DEF Start, Idle, Active
    <2>3. up' = up
      <3>1. ASSUME NEW s \in Server, Initialize(s), ~ AssertFails(s)
            PROVE  up' = up
        BY <3>1, FollowingIs, InitializeGoes
      <3>2. ~ UNCHANGED lifeVars
        BY <1>2 DEF lifeVars
      <3>3. ASSUME NEW q \in Run, ClientStep(q) \/ PaxosStep(q)
            PROVE  FALSE
        BY <1>2, <3>3 DEF ClientStep, ArriveStep, PaxosStep, AnyStep
      <3>4. ASSUME NEW s \in Server, Die(s) PROVE FALSE
        BY <1>2, <3>4 DEF AnyStep
      <3> QED BY <2>2, <3>1, <3>2, <3>3, <3>4, LifeKinds
    <2> QED BY <1>0, <2>1, <2>3 DEF LiveFound, Active
  <1> QED BY <1>1, <1>2
-----------------------------------------------------------------------------
(* Main's threads *)

\* From the call of Recover to its end.
Installing(s) == Recover(s) \/ RecoverLogs(s) \/ InstallValue(s) \/ InstallLog(s)

\* A step of Initialize is one of a process that starts, which keeps its number;
\* it gets to the installation, and to its end, only by these steps.
LEMMA InitializeKeeps ==
    ASSUME LifeBasic, NEW s \in Server, Initialize(s), ~ AssertFails(s)
    PROVE  /\ Starting(s)
           /\ boot'[s].number = boot[s].number
           /\ \A t \in Server \ {s} : boot'[t] = boot[t]
           /\ boot'[s].phase \in BeforeInstall => boot[s].phase \in BeforeInstall
           /\ boot'[s].phase \in {"RecoverLogs", "Install"} => Installing(s)
           /\ boot'[s].phase = "Ready" => Recovered(s)
           /\ boot'[s].source = boot[s].source \/ boot'[s].phase \in {"Recover", "Failed"}
  <1> DEFINE Goal == /\ Starting(s)
                     /\ boot'[s].number = boot[s].number
                     /\ \A t \in Server \ {s} : boot'[t] = boot[t]
                     /\ boot'[s].phase \in BeforeInstall => boot[s].phase \in BeforeInstall
                     /\ boot'[s].phase \in {"RecoverLogs", "Install"} => Installing(s)
                     /\ boot'[s].phase = "Ready" => Recovered(s)
                     /\ \/ boot'[s].source = boot[s].source
                        \/ boot'[s].phase \in {"Recover", "Failed"}
  <1>0. boot[s] \in BootLocals /\ boot \in [Server -> BootLocals]
    BY DEF LifeBasic, LifeTypeOK
  <1>1. ASSUME NEW t \in Server, AskCoordinator(s, t) PROVE Goal
    <2>1. /\ boot'[s].phase = "GetCoordinator" /\ boot[s].phase = "GetCoordinator"
          /\ boot'[s].number = boot[s].number /\ boot'[s].source = boot[s].source
          /\ \A u \in Server \ {s} : boot'[u] = boot[u]
      BY <1>0, <1>1 DEF AskCoordinator, BootLocals
    <2> QED BY <2>1 DEF BeforeInstall, Starting
  <1>2. ASSUME NEW phase, boot' = [boot EXCEPT ![s].phase = phase]
        PROVE  /\ boot'[s].phase = phase
               /\ boot'[s].number = boot[s].number /\ boot'[s].source = boot[s].source
               /\ \A t \in Server \ {s} : boot'[t] = boot[t]
    BY <1>0, <1>2 DEF BootLocals
  <1>3. CASE GetCoordinatorDone(s)
    <2>1. boot[s].phase = "GetCoordinator"
      BY <1>3 DEF GetCoordinatorDone
    <2>2. PICK phase \in {"GetRecovery", "Elect"} : boot' = [boot EXCEPT ![s].phase = phase]
      BY <1>3 DEF GetCoordinatorDone
    <2>3. /\ boot'[s].phase \in {"GetRecovery", "Elect"}
          /\ boot'[s].number = boot[s].number /\ boot'[s].source = boot[s].source
          /\ \A t \in Server \ {s} : boot'[t] = boot[t]
      BY <1>2, <2>2
    <2> QED BY <2>1, <2>3 DEF BeforeInstall, Starting
  <1>4. ASSUME NEW p \in Run, ElectNewCoordinator(s, p) PROVE Goal
    <2>1. /\ boot'[s].phase = "Electing" /\ boot[s].phase = "Elect"
          /\ boot'[s].number = boot[s].number /\ boot'[s].source = boot[s].source
          /\ \A u \in Server \ {s} : boot'[u] = boot[u]
      BY <1>0, <1>4 DEF ElectNewCoordinator, BootLocals
    <2> QED BY <2>1 DEF BeforeInstall, Starting
  <1>5. CASE ElectionDone(s)
    <2>1. boot[s].phase = "Electing"
      BY <1>5 DEF ElectionDone
    <2>2. PICK phase \in {"GetRecovery", "Failed"} : boot' = [boot EXCEPT ![s].phase = phase]
      BY <1>5 DEF ElectionDone
    <2>3. /\ boot'[s].phase \in {"GetRecovery", "Failed"}
          /\ boot'[s].number = boot[s].number /\ boot'[s].source = boot[s].source
          /\ \A t \in Server \ {s} : boot'[t] = boot[t]
      BY <1>2, <2>2
    <2> QED BY <2>1, <2>3 DEF BeforeInstall, Starting
  <1>6. CASE GetRecovery(s)
    <2>1. /\ boot'[s].phase \in {"Recover", "Failed"} /\ boot[s].phase = "GetRecovery"
          /\ boot'[s].number = boot[s].number
          /\ \A u \in Server \ {s} : boot'[u] = boot[u]
      BY <1>0, <1>6 DEF GetRecovery, BootLocals
    <2> QED BY <2>1 DEF BeforeInstall, Starting
  <1>7. CASE RecoverFails(s)
    <2>1. boot[s].phase \in {"Recover", "RecoverLogs"}
      BY <1>7 DEF RecoverFails
    <2>2. boot' = [boot EXCEPT ![s].phase = "Failed"]
      BY <1>7 DEF RecoverFails
    <2>3. /\ boot'[s].phase = "Failed"
          /\ boot'[s].number = boot[s].number /\ boot'[s].source = boot[s].source
          /\ \A t \in Server \ {s} : boot'[t] = boot[t]
      BY <1>2, <2>2
    <2> QED BY <2>1, <2>3 DEF BeforeInstall, Starting
  <1>8. CASE Recover(s)
    <2>1. /\ boot'[s].phase = "RecoverLogs" /\ boot[s].phase = "Recover"
          /\ boot'[s].number = boot[s].number /\ boot'[s].source = boot[s].source
          /\ \A u \in Server \ {s} : boot'[u] = boot[u]
      BY <1>0, <1>8 DEF Recover, BootLocals
    <2> QED BY <1>8, <2>1 DEF BeforeInstall, Starting, Installing
  <1>9. CASE RecoverLogs(s)
    <2>1. /\ boot'[s].phase = "Install" /\ boot[s].phase = "RecoverLogs"
          /\ boot'[s].number = boot[s].number /\ boot'[s].source = boot[s].source
          /\ \A u \in Server \ {s} : boot'[u] = boot[u]
      BY <1>0, <1>9 DEF RecoverLogs, BootLocals
    <2> QED BY <1>9, <2>1 DEF BeforeInstall, Starting, Installing
  <1>10. CASE InstallValue(s) \/ InstallLog(s)
    <2>1. /\ boot'[s].phase = "Install" /\ boot[s].phase = "Install"
          /\ boot'[s].number = boot[s].number /\ boot'[s].source = boot[s].source
          /\ \A u \in Server \ {s} : boot'[u] = boot[u]
      BY <1>0, <1>10 DEF InstallValue, InstallLog, BootLocals
    <2> QED BY <1>10, <2>1 DEF BeforeInstall, Starting, Installing
  <1>11. CASE Recovered(s)
    <2>1. boot[s].phase = "Install"
      BY <1>11 DEF Recovered
    <2>2. boot' = [boot EXCEPT ![s].phase = "Ready"]
      BY <1>11 DEF Recovered
    <2>3. /\ boot'[s].phase = "Ready"
          /\ boot'[s].number = boot[s].number /\ boot'[s].source = boot[s].source
          /\ \A t \in Server \ {s} : boot'[t] = boot[t]
      BY <1>2, <2>2
    <2> QED BY <1>11, <2>1, <2>3 DEF BeforeInstall, Starting
  <1> QED BY <1>1, <1>3, <1>4, <1>5, <1>6, <1>7, <1>8, <1>9, <1>10, <1>11 DEF Initialize

\* A process that starts has a number of its own and nothing else.
LEMMA StartKeeps ==
    ASSUME LifeBasic, NEW s \in Server, Start(s)
    PROVE  /\ boot[s].phase = "Off" /\ boot'[s].phase = "GetCoordinator"
           /\ boot'[s].number = starts + 1 /\ boot'[s].source = Nil
           /\ \A t \in Server \ {s} : boot'[t] = boot[t]
           /\ starts' = starts + 1
           /\ UNCHANGED <<logs, data, run, handlers>>
  <1> DEFINE new == [NotStarting EXCEPT !.phase = "GetCoordinator",
                                        !.number = starts + 1, !.todo = Server]
  <1>1. boot' = [boot EXCEPT ![s] = new] /\ starts' = starts + 1 /\ s \notin up
    BY DEF Start
  <1>2. new.phase = "GetCoordinator" /\ new.number = starts + 1 /\ new.source = Nil
    BY DEF NotStarting
  <1>3. boot \in [Server -> BootLocals] /\ boot[s].phase = "Off"
    BY <1>1 DEF LifeBasic, LifeTypeOK
  <1> HIDE DEF new
  <1> QED BY <1>1, <1>2, <1>3 DEF Start

\* A process that ends takes nobody else's number away, and makes nobody start.
LEMMA EndsKeeps ==
    ASSUME LifeBasic, NEW s \in Server, Die(s), Ends(s)
    PROVE  /\ boot'[s].phase = "Off" /\ boot'[s].number = 0 /\ boot'[s].source = Nil
           /\ starts' = starts
           /\ \A t \in Server \ {s} :
                 /\ boot'[t].number = boot[t].number /\ boot'[t].source = boot[t].source
                 /\ boot'[t].values = boot[t].values /\ boot'[t].entries = boot[t].entries
                 /\ \/ boot'[t].phase = boot[t].phase
                    \/ boot'[t].phase = "Failed" /\ boot[t].phase = "RecoverLogs"
  <1>1. /\ boot'[s] = NotStarting
        /\ \A t \in Server \ {s} :
              boot'[t] = boot[t] \/ (/\ boot[t].phase = "RecoverLogs"
                                     /\ boot'[t] = [boot[t] EXCEPT !.phase = "Failed"])
    BY EndsBoot
  <1>2. \A t \in Server : boot[t] \in BootLocals
    BY DEF LifeBasic, LifeTypeOK
  <1>3. starts' = starts
    BY DEF Ends
  <1>4. /\ NotStarting.phase = "Off" /\ NotStarting.number = 0 /\ NotStarting.source = Nil
    BY DEF NotStarting
  <1>5. ASSUME NEW t \in Server \ {s}, boot'[t] = [boot[t] EXCEPT !.phase = "Failed"]
        PROVE  /\ boot'[t].number = boot[t].number /\ boot'[t].source = boot[t].source
               /\ boot'[t].values = boot[t].values /\ boot'[t].entries = boot[t].entries
               /\ boot'[t].phase = "Failed"
    BY <1>2, <1>5 DEF BootLocals
  <1> QED BY <1>1, <1>3, <1>4, <1>5

\* A step of a Paxos run puts no request to work.
LEMMA PaxosWorkedBefore ==
    ASSUME Following, NEW q \in Run, PaxosStep(q), faults' = 0, NEW p \in Run, Active(p)'
    PROVE  Active(p) /\ SameRequest(p, run'[p])
  <1>1. Basic /\ [AnyStep]_vars
    BY FollowingIs DEF PaxosStep, AnyStep
  <1>2. Proceed(q) \/ (\E s \in Server : Serve(q, s))
    BY PaxosStepIs
  <1>3. run[q].phase # "Idle"
    BY <1>1, <1>2, ProceedChange, ActiveBegun, ServeRight
  <1>4. p # q => run'[p] = run[p]
    BY <1>1, <1>2, OtherRuns
  <1>5. Active(p)' => run'[p].phase # "Idle"
    BY DEF Active, Working
  <1> QED BY <1>1, <1>3, <1>4, <1>5, WorkedBefore

\* The request that main's thread makes is an election; else it makes none.
LEMMA InitializeElects ==
    ASSUME LifeBasic, NEW s \in Server, Initialize(s), ~ AssertFails(s), NEW p \in Run
    PROVE  run'[p] = run[p] \/ (run[p].phase = "Idle" /\ run'[p].key = CoordinatorKey)
  <1>0. run \in [Run -> RunLocals]
    BY DEF LifeBasic, LifeTypeOK, TypeOK
  <1>1. ASSUME NEW q \in Run, ElectNewCoordinator(s, q)
        PROVE  run'[p] = run[p] \/ (run[p].phase = "Idle" /\ run'[p].key = CoordinatorKey)
    <2>1. PICK op, n : Begin(q, s, CoordinatorKey, op, "Ping", n + 1, Server)
      BY <1>1 DEF ElectNewCoordinator, ElectCoordinator, RunPaxos
    <2>2. /\ run[q].phase = "Idle"
          /\ run' = [run EXCEPT ![q] =
                       [NotStarted EXCEPT !.phase = "Ping", !.server = s, !.key = CoordinatorKey,
                                          !.op = op, !.round = n + 1, !.todo = Server]]
      BY <2>1 DEF Begin
    <2>3. run'[q].key = CoordinatorKey /\ (p # q => run'[p] = run[p])
      BY <1>0, <2>2 DEF NotStarted
    <2> QED BY <2>2, <2>3
  <1>2. ASSUME \A q \in Run : ~ ElectNewCoordinator(s, q)
        PROVE  run' = run
    BY <1>2 DEF Initialize, AskCoordinator, GetCoordinatorDone, ElectionDone, GetRecovery,
                RecoverFails, Recover, RecoverLogs, InstallValue, InstallLog, Recovered, vars
  <1> QED BY <1>1, <1>2

\* A server that starts stays alone with its election until it is ready.
LEMMA StartsAreAloneStep ==
    ASSUME Following, [LifeNext]_lifeVars, faults' = 0
    PROVE  StartsAreAlone'
  <1>0. /\ LifeBasic /\ Basic /\ StartsAreAlone /\ StartsAlone /\ starts \in Nat
        /\ \A t \in Server : boot[t].number \in Nat
    BY FollowingIs, LifecycleAssumption DEF LifeTypeOK, BootLocals
  <1> DEFINE Alone(t) == /\ boot[t].number = starts
                         /\ \A u \in Server : Starting(u) => u = t
                         /\ \A p \in Run : Active(p) => run[p].key = CoordinatorKey
  <1>1. /\ \A t \in Server : boot[t].number <= starts
        /\ \A t \in Server : Starting(t) => Alone(t)
    BY <1>0 DEF StartsAreAlone
  <1>2. ASSUME starts' = starts, \A t \in Server : boot'[t].number \in {0, boot[t].number},
               \A t \in Server : Starting(t)' => Starting(t) /\ boot'[t].number = boot[t].number,
               \A p \in Run : Active(p)' /\ run'[p].key # CoordinatorKey =>
                                  Active(p) /\ run[p].key # CoordinatorKey
        PROVE  StartsAreAlone'
    BY <1>0, <1>1, <1>2 DEF StartsAreAlone
  <1>3. ASSUME NEW s \in Server, Start(s)
        PROVE  StartsAreAlone'
    <2>1. /\ boot[s].phase = "Off" /\ boot'[s].phase = "GetCoordinator"
          /\ boot'[s].number = starts + 1 /\ starts' = starts + 1 /\ run' = run
          /\ \A t \in Server \ {s} : boot'[t] = boot[t]
      BY <1>0, <1>3, StartKeeps
    <2>2. Idle
      BY <1>0, <1>3 DEF Start
    <2>3. \A t \in Server : Starting(t)' => t = s
      BY <2>1, <2>2 DEF Idle, Starting
    <2>4. \A p \in Run : ~ Active(p)'
      BY <2>1, <2>2 DEF Idle, Active
    <2>5. \A t \in Server : boot'[t].number <= starts'
      BY <1>0, <1>1, <2>1
    <2> QED BY <2>1, <2>3, <2>4, <2>5 DEF StartsAreAlone
  <1>4. ASSUME NEW s \in Server, Initialize(s), ~ AssertFails(s)
        PROVE  StartsAreAlone'
    <2>1. /\ Starting(s) /\ boot'[s].number = boot[s].number
          /\ \A t \in Server \ {s} : boot'[t] = boot[t]
      BY <1>0, <1>4, InitializeKeeps
    <2>2. starts' = starts
      BY <1>0, <1>4, InitializeGoes
    <2>3. \A t \in Server : Starting(t)' => Starting(t)
      BY <2>1 DEF Starting
    <2>4. \A p \in Run : Active(p)' /\ run'[p].key # CoordinatorKey => run'[p] = run[p]
      BY <1>0, <1>4, InitializeElects
    <2> QED BY <1>2, <2>1, <2>2, <2>3, <2>4 DEF Active
  <1>5. ASSUME NEW s \in Server, Die(s), Ends(s)
        PROVE  StartsAreAlone'
    <2>1. /\ boot'[s].phase = "Off" /\ boot'[s].number = 0 /\ starts' = starts
          /\ \A t \in Server \ {s} :
                /\ boot'[t].number = boot[t].number
                /\ \/ boot'[t].phase = boot[t].phase
                   \/ boot'[t].phase = "Failed" /\ boot[t].phase = "RecoverLogs"
      BY <1>0, <1>5, EndsKeeps
    <2>2. \A t \in Server : Starting(t)' => Starting(t) /\ t # s
      BY <2>1 DEF Starting
    <2>3. \A p \in Run : Active(p)' => run'[p] = run[p]
      BY <1>0, <1>5 DEF Die, Active, Working, Basic, TypeOK, RunLocals
    <2> QED BY <1>2, <2>1, <2>2, <2>3 DEF Active
  <1>6. ASSUME NEW p \in Run, ClientStep(p)
        PROVE  StartsAreAlone'
    <2>1. UNCHANGED <<boot, starts>> /\ \A t \in Server : ~ Starting(t)
      BY <1>0, <1>6 DEF ClientStep, ArriveStep
    <2> QED BY <1>1, <2>1 DEF StartsAreAlone, Starting
  <1>7. ASSUME NEW p \in Run, PaxosStep(p)
        PROVE  StartsAreAlone'
    <2>1. UNCHANGED <<boot, starts>>
      BY <1>7 DEF PaxosStep
    <2>2. \A q \in Run : Active(q)' => Active(q) /\ run'[q].key = run[q].key
      BY <1>7, PaxosWorkedBefore DEF SameRequest
    <2> QED BY <1>2, <2>1, <2>2 DEF Starting
  <1>8. CASE UNCHANGED lifeVars
    BY <1>1, <1>8 DEF lifeVars, vars, StartsAreAlone, Starting, Active
  <1> QED BY <1>3, <1>4, <1>5, <1>6, <1>7, <1>8, LifeKinds

\* What a step of Initialize does to the state of MultiPaxos.
LEMMA InitializeWrites ==
    ASSUME LifeBasic, NEW s \in Server, Initialize(s), ~ AssertFails(s)
    PROVE  /\ handlers' = handlers
           /\ ~ InstallValue(s) => data' = data
           /\ ~ InstallLog(s) => logs' = logs
           /\ \A t \in Server \ {s} : data'[t] = data[t] /\ logs'[t] = logs[t]
  <1>0. /\ data \in [Server -> [Key -> AnyValue]]
        /\ logs = [t \in Server |-> [k \in Key |-> logs[t][k]]]
    BY DEF LifeBasic, LifeTypeOK, TypeOK
  <1>1. ASSUME NEW p \in Run, ElectNewCoordinator(s, p)
        PROVE  UNCHANGED <<data, logs, handlers>>
    <2>1. Arrive(p)
      BY <1>1 DEF ElectNewCoordinator, Arrive
    <2> QED BY <2>1, ArrivalIsNew DEF LifeBasic, LifeTypeOK, serverVars
  <1>2. ASSUME \A p \in Run : ~ ElectNewCoordinator(s, p), ~ InstallValue(s), ~ InstallLog(s)
        PROVE  UNCHANGED <<data, logs, handlers>>
    BY <1>2 DEF Initialize, AskCoordinator, GetCoordinatorDone, ElectionDone, GetRecovery,
                RecoverFails, Recover, RecoverLogs, Recovered, vars, serverVars
  <1>3. CASE InstallValue(s)
    <2>1. logs' = logs /\ handlers' = handlers /\ \A t \in Server \ {s} : data'[t] = data[t]
      BY <1>0, <1>3 DEF InstallValue
    <2>2. ~ InstallLog(s)
      BY <1>3 DEF InstallValue, InstallLog
    <2> QED BY <1>3, <2>1, <2>2
  <1>4. CASE InstallLog(s)
    <2>1. data' = data /\ handlers' = handlers /\ \A t \in Server \ {s} : logs'[t] = logs[t]
      BY <1>0, <1>4 DEF InstallLog
    <2>2. ~ InstallValue(s)
      BY <1>4 DEF InstallValue, InstallLog
    <2> QED BY <1>4, <2>1, <2>2
  <1> QED BY <1>1, <1>2, <1>3, <1>4

\* Under a client's key, a server has what it had, but for handlers of requests
\* for that key, the installation of a snapshot and the end of the process.
Untouched(t, k) ==
    data'[t][k] = data[t][k] /\ DOMAIN logs'[t][k] = DOMAIN logs[t][k]

LEMMA KeyWriters ==
    ASSUME Following, [LifeNext]_lifeVars, faults' = 0, NEW t \in Server, NEW k \in DataKey
    PROVE  \/ Untouched(t, k)
           \/ \E q \in Run : run[q].key = k /\ Serve(q, t)
           \/ InstallValue(t) \/ InstallLog(t)
           \/ Die(t)
  <1>0. /\ LifeBasic /\ Basic /\ Orderly /\ k \in Key /\ k # CoordinatorKey
        /\ data \in [Server -> [Key -> AnyValue]]
        /\ logs = [u \in Server |-> [j \in Key |-> logs[u][j]]]
    BY FollowingIs, KeyAssumption DEF Key, Basic, TypeOK
  <1>1. ASSUME NEW s \in Server, Start(s)
        PROVE  Untouched(t, k)
    BY <1>0, <1>1, StartKeeps DEF Untouched
  <1>2. ASSUME NEW s \in Server, Initialize(s), ~ AssertFails(s)
        PROVE  Untouched(t, k) \/ InstallValue(t) \/ InstallLog(t)
    BY <1>0, <1>2, InitializeWrites DEF Untouched
  <1>3. ASSUME NEW s \in Server, Die(s)
        PROVE  Untouched(t, k) \/ Die(t)
    <2>1. /\ logs' = [logs EXCEPT ![s] = [j \in Key |-> NoRounds]]
          /\ data' = [data EXCEPT ![s] = [j \in Key |-> Nil]]
      BY <1>3 DEF Die
    <2>2. CASE t # s
      <3>1. logs'[t] = logs[t] /\ data'[t] = data[t]
        BY <1>0, <2>1, <2>2
      <3> QED BY <3>1 DEF Untouched
    <2>3. CASE t = s
      BY <1>3, <2>3
    <2> QED BY <2>2, <2>3
  <1>4. ASSUME NEW p \in Run, ClientStep(p) \/ PaxosStep(p)
        PROVE  Untouched(t, k) \/ \E q \in Run : run[q].key = k /\ Serve(q, t)
    <2>1. CASE Arrive(p) \/ Proceed(p)
      BY <1>0, <2>1, QuietSteps DEF serverVars, Untouched
    <2>2. ASSUME NEW s \in Server, Serve(p, s), s # t \/ run[p].key # k
          PROVE  Untouched(t, k)
      <3>1. Holds(t, k)' = Holds(t, k)
        BY <1>0, <2>2, ServeHolds
      <3>2. DOMAIN logs'[t][k] = DOMAIN logs[t][k]
        BY <1>0, <2>2, ServeRounds
      <3> QED BY <1>0, <3>1, <3>2 DEF Holds, Untouched
    <2> QED BY <1>4, <2>1, <2>2, PaxosStepIs DEF ClientStep, ArriveStep
  <1>5. CASE UNCHANGED lifeVars
    BY <1>5 DEF lifeVars, vars, serverVars, Untouched
  <1> QED BY <1>1, <1>2, <1>3, <1>4, <1>5, LifeKinds

\* A server stores nothing of the clients' before it installs.
LEMMA BlankStep ==
    ASSUME Following, [LifeNext]_lifeVars, faults' = 0
    PROVE  BlankBeforeInstall'
  <1> SUFFICES ASSUME NEW t \in Server, boot'[t].phase \in BeforeInstall, NEW k \in DataKey
               PROVE  data'[t][k] = Nil /\ DOMAIN logs'[t][k] = {}
    BY DEF BlankBeforeInstall, BeforeInstall
  <1>0. /\ LifeBasic /\ Basic /\ LifeTypeOK /\ k \in Key /\ k # CoordinatorKey
        /\ data \in [Server -> [Key -> AnyValue]]
        /\ logs = [u \in Server |-> [j \in Key |-> logs[u][j]]]
    BY FollowingIs, KeyAssumption DEF Key, Basic, TypeOK
  <1>1. CASE Die(t)
    <2>1. data'[t] = [j \in Key |-> Nil] /\ logs'[t] = [j \in Key |-> NoRounds]
      BY <1>0, <1>1 DEF Die
    <2> QED BY <1>0, <2>1 DEF NoRounds
  <1>2. CASE ~ Die(t)
    <2>1. boot[t].phase \in BeforeInstall
      <3>1. ASSUME NEW s \in Server, Start(s) PROVE boot[t].phase \in BeforeInstall
        BY <1>0, <3>1, StartKeeps DEF BeforeInstall
      <3>2. ASSUME NEW s \in Server, Initialize(s), ~ AssertFails(s)
            PROVE  boot[t].phase \in BeforeInstall
        BY <1>0, <3>2, InitializeKeeps
      <3>3. ASSUME NEW s \in Server, Die(s), Ends(s)
            PROVE  boot[t].phase \in BeforeInstall
        BY <1>0, <1>2, <3>3, EndsKeeps DEF BeforeInstall
      <3>4. ASSUME NEW p \in Run, ClientStep(p) \/ PaxosStep(p)
            PROVE  boot[t].phase \in BeforeInstall
        BY <3>4 DEF ClientStep, ArriveStep, PaxosStep
      <3>5. CASE UNCHANGED lifeVars
        BY <3>5 DEF lifeVars
      <3> QED BY <3>1, <3>2, <3>3, <3>4, <3>5, LifeKinds
    <2>2. ~ InstallValue(t) /\ ~ InstallLog(t)
      BY <2>1 DEF InstallValue, InstallLog, BeforeInstall
    <2>3. ASSUME NEW q \in Run, run[q].key = k, Serve(q, t)
          PROVE  FALSE
      <3>1. Active(q) /\ t \in up
        BY <2>3, ServesActive
      <3>2. Starting(t)
        BY <1>0, <2>1, <3>1 DEF LifeTypeOK, Starting, BeforeInstall
      <3> QED BY <1>0, <2>3, <3>1, <3>2, FollowingIs DEF StartsAreAlone
    <2>4. Untouched(t, k)
      BY <1>2, <2>2, <2>3, KeyWriters
    <2>5. data[t][k] = Nil /\ DOMAIN logs[t][k] = {}
      BY <2>1, FollowingIs DEF BlankBeforeInstall
    <2> QED BY <2>4, <2>5 DEF Untouched
  <1> QED BY <1>1, <1>2

-----------------------------------------------------------------------------
(* The snapshot *)

\* A server's source is not starting itself, and one that s takes for its source
\* after a step was so before, if s has got to copying.
LEMMA SourceStays ==
    ASSUME Following, [LifeNext]_lifeVars, NEW s \in Server, NEW c \in Server,
           RecoveredFrom(s, c)', boot'[s].phase \notin {"Recover", "Failed"}
    PROVE  /\ RecoveredFrom(s, c) /\ ~ Starting(c) /\ boot[s].source = c
           /\ ~ Die(s) /\ ~ Die(c)
           /\ ~ Start(s) /\ ~ Start(c)
  <1>0. /\ LifeBasic /\ Basic /\ LifeTypeOK /\ StartsAreAlone /\ starts \in Nat
        /\ \A t \in Server : boot[t].number \in Nat
    BY FollowingIs, LifecycleAssumption DEF LifeTypeOK, BootLocals
  <1>1. /\ s \in up' /\ c \in up' /\ s # c /\ boot'[s].source = c
        /\ boot'[c].number < boot'[s].number
    BY DEF RecoveredFrom
  <1>2. ~ Die(s) /\ ~ Die(c)
    BY <1>1 DEF Die
  <1>3. ASSUME NEW x \in Server, Start(x)
        PROVE  RecoveredFrom(s, c) /\ x # s /\ x # c
    <2>1. /\ boot'[x].number = starts + 1 /\ boot'[x].source = Nil
          /\ \A t \in Server \ {x} : boot'[t] = boot[t]
      BY <1>0, <1>3, StartKeeps
    <2>2. x # s
      BY <1>1, <2>1, ValueAssumption
    <2>3. x # c
      <3>1. boot'[s].number <= starts
        BY <1>0, <2>1, <2>2 DEF StartsAreAlone
      <3> QED BY <1>0, <1>1, <2>1, <2>2, <3>1
    <2>4. s \in up /\ c \in up
      BY <1>1, <1>3, <2>2, <2>3 DEF Start
    <2> QED BY <1>1, <2>1, <2>2, <2>3, <2>4 DEF RecoveredFrom
  <1>4. ASSUME NEW x \in Server, Initialize(x), ~ AssertFails(x)
        PROVE  RecoveredFrom(s, c)
    <2>1. up' = up
      BY <1>0, <1>4, InitializeGoes
    <2>2. /\ boot'[s].number = boot[s].number /\ boot'[c].number = boot[c].number
          /\ boot'[s].source = boot[s].source
      BY <1>0, <1>4, InitializeKeeps
    <2> QED BY <1>1, <2>1, <2>2 DEF RecoveredFrom
  <1>5. ASSUME NEW x \in Server, Die(x), Ends(x)
        PROVE  RecoveredFrom(s, c)
    <2>1. x # s /\ x # c /\ up' \subseteq up
      BY <1>2, <1>5 DEF Die
    <2>2. /\ boot'[s].number = boot[s].number /\ boot'[c].number = boot[c].number
          /\ boot'[s].source = boot[s].source
      BY <1>0, <1>5, <2>1, EndsKeeps
    <2> QED BY <1>1, <2>1, <2>2 DEF RecoveredFrom
  <1>6. ASSUME NEW p \in Run, ClientStep(p) \/ PaxosStep(p)
        PROVE  RecoveredFrom(s, c)
    <2>1. boot' = boot /\ [AnyStep]_vars
      BY <1>6 DEF ClientStep, ArriveStep, PaxosStep, AnyStep
    <2>2. up' \subseteq up
      BY <1>0, <2>1, UpShrinks
    <2> QED BY <1>1, <2>1, <2>2 DEF RecoveredFrom
  <1>7. UNCHANGED lifeVars => RecoveredFrom(s, c)
    BY <1>1 DEF lifeVars, vars, serverVars, RecoveredFrom
  <1>8. RecoveredFrom(s, c)
    BY <1>3, <1>4, <1>5, <1>6, <1>7, LifeKinds
  <1>9. ~ Starting(c)
    <2>1. boot[c].number < boot[s].number /\ boot[s].number <= starts
      BY <1>0, <1>8 DEF RecoveredFrom, StartsAreAlone
    <2>2. boot[c].number # starts
      BY <1>0, <2>1
    <2> QED BY <1>0, <2>2 DEF StartsAreAlone
  <1> QED BY <1>2, <1>3, <1>8, <1>9 DEF RecoveredFrom

\* While a server starts, its source keeps what it has of the clients'.
LEMMA SourceUntouched ==
    ASSUME Following, [LifeNext]_lifeVars, faults' = 0, NEW s \in Server, NEW c \in Server,
           Starting(s), ~ Starting(c), ~ Die(s), ~ Die(c), NEW k \in DataKey
    PROVE  /\ Untouched(c, k)
           /\ Untouched(s, k) \/ InstallValue(s) \/ InstallLog(s)
  <1>1. ASSUME NEW t \in Server, NEW q \in Run, run[q].key = k, Serve(q, t)
        PROVE  FALSE
    BY <1>1, ServesActive, FollowingIs, KeyAssumption DEF StartsAreAlone
  <1>2. ~ InstallValue(c) /\ ~ InstallLog(c)
    BY DEF InstallValue, InstallLog, Starting
  <1> QED BY <1>1, <1>2, KeyWriters

\* The copies are taken from a source that keeps them; each is installed once.
LEMMA CopyStep ==
    ASSUME Following, NEW s \in Server, NEW c \in Server, RecoveredFrom(s, c), Installing(s),
           Follow(s, c), NEW k \in DataKey, Untouched(c, k)
    PROVE  /\ ValuesToInstall(s, c, k)'
           /\ boot'[s].phase = "Install" => RoundsToInstall(s, c, k)'
  <1>0. /\ LifeBasic /\ boot \in [Server -> BootLocals] /\ boot[s] \in BootLocals
        /\ BlankBeforeInstall /\ k \in Key /\ s # c /\ c = boot[s].source
        /\ data \in [Server -> [Key -> AnyValue]]
        /\ logs = [u \in Server |-> [j \in Key |-> logs[u][j]]]
    BY FollowingIs DEF LifeTypeOK, RecoveredFrom, Key, TypeOK
  <1>1. CASE Recover(s)
    <2>1. /\ boot[s].phase = "Recover" /\ boot'[s].phase = "RecoverLogs" /\ data' = data
          /\ boot'[s].values = {<<j, data[c][j]>> : j \in {i \in Key : data[c][i] # Nil}}
      BY <1>0, <1>1 DEF Recover, BootLocals, vars, serverVars
    <2>2. data[s][k] = Nil
      BY <1>0, <2>1 DEF BlankBeforeInstall, BeforeInstall
    <2>3. \A e \in boot'[s].values : e[1] = k => e[2] = data'[c][k]
      BY <2>1
    <2>4. data'[s][k] = data'[c][k] \/ <<k, data'[c][k]>> \in boot'[s].values
      BY <1>0, <2>1, <2>2
    <2> QED BY <2>1, <2>3, <2>4 DEF ValuesToInstall
  <1>2. CASE RecoverLogs(s)
    <2>1. /\ boot[s].phase = "RecoverLogs" /\ boot'[s].phase = "Install"
          /\ data' = data /\ logs' = logs
          /\ boot'[s].values = boot[s].values
          /\ boot'[s].entries = UNION {{<<j, r, logs[c][j][r]>> : r \in DOMAIN logs[c][j]}
                                         : j \in Key}
      BY <1>0, <1>2 DEF RecoverLogs, BootLocals, vars, serverVars
    <2>2. DOMAIN logs[s][k] = {}
      BY <1>0, <2>1 DEF BlankBeforeInstall, BeforeInstall
    <2>3. ValuesToInstall(s, c, k)'
      BY <2>1 DEF Follow, ValuesToInstall
    <2>4. \A r \in DOMAIN logs[c][k] :
             r \in {e[2] : e \in {x \in boot'[s].entries : x[1] = k}}
      <3>1. ASSUME NEW r \in DOMAIN logs[c][k]
            PROVE  r \in {e[2] : e \in {x \in boot'[s].entries : x[1] = k}}
        <4> DEFINE e == <<k, r, logs[c][k][r]>>
        <4>1. e \in boot'[s].entries
          BY <1>0, <2>1
        <4>2. e[1] = k /\ e[2] = r
          OBVIOUS
        <4> HIDE DEF e
        <4> QED BY <4>1, <4>2
      <3> QED BY <3>1
    <2>5. \A e \in boot'[s].entries : e[1] = k => e[2] \in DOMAIN logs[c][k]
      BY <2>1
    <2>6. RoundsToInstall(s, c, k)'
      BY <2>1, <2>2, <2>4, <2>5 DEF RoundsToInstall
    <2> QED BY <2>3, <2>6
  <1>3. CASE InstallValue(s)
    <2>1. PICK e \in boot[s].values :
                /\ data' = [data EXCEPT ![s] = SetValue(data[s], e[1], e[2])]
                /\ boot' = [boot EXCEPT ![s].values = boot[s].values \ {e}]
      BY <1>0, <1>3 DEF InstallValue
    <2>2. /\ boot[s].phase = "Install" /\ logs' = logs /\ boot'[s].values = boot[s].values \ {e}
          /\ boot'[s].entries = boot[s].entries
      BY <1>0, <1>3, <2>1 DEF InstallValue, BootLocals
    <2>3. ValuesToInstall(s, c, k) /\ RoundsToInstall(s, c, k)
      BY <2>2 DEF Follow
    <2>4. e \in Key \X AnyValue
      BY <1>0 DEF BootLocals
    <2>5. data'[c] = data[c] /\ data'[s][k] = IF e[1] = k THEN e[2] ELSE data[s][k]
      BY <1>0, <2>1, <2>4 DEF SetValue
    <2>6. RoundsToInstall(s, c, k)'
      BY <2>2, <2>3 DEF RoundsToInstall
    <2>7. e[1] = k => e[2] = data[c][k]
      BY <2>3 DEF ValuesToInstall
    <2>8. e[1] # k => e # <<k, data[c][k]>>
      OBVIOUS
    <2>9. \A x \in boot'[s].values : x[1] = k => x[2] = data'[c][k]
      BY <2>2, <2>3, <2>5 DEF ValuesToInstall
    <2>10. data'[s][k] = data'[c][k] \/ <<k, data'[c][k]>> \in boot'[s].values
      BY <2>2, <2>3, <2>5, <2>7, <2>8 DEF ValuesToInstall
    <2> QED BY <2>6, <2>9, <2>10 DEF ValuesToInstall
  <1>4. CASE InstallLog(s)
    <2>1. PICK e \in boot[s].entries :
                /\ logs' = [logs EXCEPT ![s][e[1]] = AddRecovered(logs[s][e[1]], e[2], e[3])]
                /\ boot' = [boot EXCEPT ![s].entries = boot[s].entries \ {e}]
      BY <1>0, <1>4 DEF InstallLog
    <2>2. /\ boot[s].phase = "Install" /\ data' = data /\ boot'[s].values = boot[s].values
          /\ boot'[s].entries = boot[s].entries \ {e}
      BY <1>0, <1>4, <2>1 DEF InstallLog, BootLocals
    <2>3. ValuesToInstall(s, c, k) /\ RoundsToInstall(s, c, k)
      BY <2>2 DEF Follow
    <2>4. e[1] \in Key
      BY <1>0, EntryType
    <2>5. /\ logs'[c][k] = logs[c][k]
          /\ DOMAIN logs'[s][k] = IF e[1] = k THEN DOMAIN logs[s][k] \cup {e[2]}
                                              ELSE DOMAIN logs[s][k]
      <3> DEFINE rounds == AddRecovered(logs[s][e[1]], e[2], e[3])
      <3>1. DOMAIN rounds = DOMAIN logs[s][e[1]] \cup {e[2]}
        BY DEF AddRecovered
      <3>2. logs' = [logs EXCEPT ![s][e[1]] = rounds]
        BY <2>1
      <3> HIDE DEF rounds
      <3>3. /\ logs'[c][k] = logs[c][k]
            /\ logs'[s][k] = IF e[1] = k THEN rounds ELSE logs[s][k]
        BY <1>0, <2>4, <3>2
      <3> QED BY <3>1, <3>3
    <2>6. ValuesToInstall(s, c, k)'
      BY <2>2, <2>3 DEF ValuesToInstall
    <2> DEFINE left == {x[2] : x \in {y \in boot[s].entries : y[1] = k}}
               left2 == {x[2] : x \in {y \in boot[s].entries \ {e} : y[1] = k}}
    <2>7. DOMAIN logs[c][k] = DOMAIN logs[s][k] \cup left
      BY <2>3 DEF RoundsToInstall
    <2>8. left \subseteq left2 \cup (IF e[1] = k THEN {e[2]} ELSE {}) /\ left2 \subseteq left
      OBVIOUS
    <2>9. e[1] = k => e[2] \in left
      OBVIOUS
    <2> HIDE DEF left, left2
    <2>10. DOMAIN logs'[c][k] = DOMAIN logs'[s][k] \cup left2
      BY <2>5, <2>7, <2>8, <2>9
    <2>11. RoundsToInstall(s, c, k)'
      BY <2>2, <2>10 DEF RoundsToInstall, left2
    <2> QED BY <2>6, <2>11
  <1> QED BY <1>1, <1>2, <1>3, <1>4 DEF Installing

\* Main's thread of s stays where it is, unless it takes a step of its own.
LEMMA MainStays ==
    ASSUME Following, [LifeNext]_lifeVars, NEW s \in Server,
           boot'[s].phase # "Failed", ~ Start(s), ~ Die(s)
    PROVE  \/ Initialize(s) /\ ~ AssertFails(s)
           \/ /\ boot'[s].phase = boot[s].phase /\ boot'[s].values = boot[s].values
              /\ boot'[s].entries = boot[s].entries
  <1> DEFINE Stays == /\ boot'[s].phase = boot[s].phase /\ boot'[s].values = boot[s].values
                      /\ boot'[s].entries = boot[s].entries
  <1>0. LifeBasic
    BY FollowingIs
  <1>1. ASSUME NEW x \in Server, Start(x) PROVE Stays
    BY <1>0, <1>1, StartKeeps
  <1>2. ASSUME NEW x \in Server \ {s}, Initialize(x), ~ AssertFails(x) PROVE Stays
    BY <1>0, <1>2, InitializeKeeps
  <1>3. ASSUME NEW x \in Server, Die(x), Ends(x) PROVE Stays
    BY <1>0, <1>3, EndsKeeps
  <1>4. ASSUME NEW p \in Run, ClientStep(p) \/ PaxosStep(p) PROVE Stays
    BY <1>4 DEF ClientStep, ArriveStep, PaxosStep
  <1>5. UNCHANGED lifeVars => Stays
    BY DEF lifeVars
  <1> QED BY <1>1, <1>2, <1>3, <1>4, <1>5, LifeKinds

\* So the snapshot is of what the source has, until all of it is installed.
LEMMA SnapshotStep ==
    ASSUME Following, [LifeNext]_lifeVars, faults' = 0, NEW s \in Server, NEW c \in Server,
           RecoveredFrom(s, c)', boot'[s].phase \in {"RecoverLogs", "Install"}, NEW k \in DataKey
    PROVE  /\ ValuesToInstall(s, c, k)'
           /\ boot'[s].phase = "Install" => RoundsToInstall(s, c, k)'
  <1>1. /\ RecoveredFrom(s, c) /\ ~ Starting(c)
        /\ ~ Die(s) /\ ~ Die(c) /\ ~ Start(s)
    BY SourceStays
  <1>2. Follow(s, c) /\ LifeBasic
    BY <1>1, FollowingIs
  <1>3. CASE Initialize(s) /\ ~ AssertFails(s)
    <2>1. Starting(s) /\ Installing(s)
      BY <1>2, <1>3, InitializeKeeps
    <2>2. Untouched(c, k)
      BY <1>1, <2>1, SourceUntouched
    <2> QED BY <1>1, <1>2, <2>1, <2>2, CopyStep
  <1>4. CASE ~ (Initialize(s) /\ ~ AssertFails(s))
    <2>1. /\ boot'[s].phase = boot[s].phase /\ boot'[s].values = boot[s].values
          /\ boot'[s].entries = boot[s].entries
      BY <1>1, <1>4, MainStays
    <2>2. Starting(s) /\ boot[s].phase # "Failed"
      BY <2>1 DEF Starting
    <2>3. ~ InstallValue(s) /\ ~ InstallLog(s)
      BY <1>4, <2>2 DEF Initialize, AssertFails
    <2>4. Untouched(c, k) /\ Untouched(s, k)
      BY <1>1, <2>2, <2>3, SourceUntouched
    <2>5. /\ ValuesToInstall(s, c, k)
          /\ boot[s].phase = "Install" => RoundsToInstall(s, c, k)
      BY <1>2, <2>1 DEF Follow
    <2>6. ValuesToInstall(s, c, k)'
      BY <2>1, <2>4, <2>5 DEF ValuesToInstall, Untouched
    <2>7. boot'[s].phase = "Install" => RoundsToInstall(s, c, k)'
      BY <2>1, <2>4, <2>5 DEF RoundsToInstall, Untouched
    <2> QED BY <2>6, <2>7
  <1> QED BY <1>3, <1>4

\* When all of it is installed, the two have the same.
LEMMA InstalledIsSame ==
    ASSUME Following, NEW s \in Server, NEW c \in Server, RecoveredFrom(s, c), Recovered(s),
           NEW k \in DataKey
    PROVE  KeyTogether(k, s, c)'
  <1>1. /\ boot[s].phase = "Install" /\ boot[s].values = {} /\ boot[s].entries = {}
        /\ UNCHANGED <<run, data, logs, handlers>>
    BY DEF Recovered, vars, serverVars
  <1>2. ValuesToInstall(s, c, k) /\ RoundsToInstall(s, c, k)
    BY <1>1, FollowingIs DEF Follow
  <1>3. data[s][k] = data[c][k] /\ DOMAIN logs[c][k] = DOMAIN logs[s][k]
    BY <1>1, <1>2 DEF ValuesToInstall, RoundsToInstall
  <1>4. SameUnder(k, s, c)'
    BY <1>1, <1>3 DEF SameUnder
  <1>5. \A p \in Run : Active(p) => run[p].key # k
    BY <1>1, FollowingIs, KeyAssumption DEF StartsAreAlone, Starting
  <1>6. \A p \in Run : ~ (run'[p].key = k /\ Active(p)')
    BY <1>1, <1>5 DEF Active
  <1> QED BY <1>4, <1>6 DEF KeyTogether

-----------------------------------------------------------------------------
(* A server and the one it has recovered from *)

\* A step that has nothing to do with k.
LEMMA TogetherFrame ==
    ASSUME NEW k \in DataKey, NEW s \in Server, NEW c \in Server, KeyTogether(k, s, c),
           Untouched(s, k), Untouched(c, k),
           \A p \in Run : \/ run'[p] = run[p]
                          \/ /\ ~ (run[p].key = k /\ Active(p))
                             /\ ~ (run'[p].key = k /\ Active(p)'),
           \A p \in Run, t \in {s, c}, step \in {"promise", "execute"} :
              run[p].key = k /\ Active(p) /\ Handler(p, t, step) \in handlers' =>
                 Handler(p, t, step) \in handlers
    PROVE  KeyTogether(k, s, c)'
  <1>1. ASSUME NEW p \in Run, run'[p].key = k, Active(p)'
        PROVE  RunTogether(p, s, c)'
    <2>1. run'[p] = run[p]
      BY <1>1
    <2>2. run[p].key = k /\ Active(p)
      BY <1>1, <2>1 DEF Active
    <2>3. RunTogether(p, s, c)
      BY <2>2 DEF KeyTogether
    <2>4. \A t \in {s, c} : /\ Logged(p, t)' <=> Logged(p, t)
                            /\ Late(p, t)' <=> Late(p, t)
                            /\ data'[t][k] = data[t][k]
                            /\ DOMAIN logs'[t][k] = DOMAIN logs[t][k]
      BY <2>1, <2>2 DEF Logged, Late, HasLaterRound, Untouched
    <2>5. \A t \in {s, c} :
             /\ Handler(p, t, "promise") \in handlers' => Handler(p, t, "promise") \in handlers
             /\ Handler(p, t, "execute") \in handlers' => Handler(p, t, "execute") \in handlers
      BY <2>2
    <2> QED BY <2>1, <2>2, <2>3, <2>4, <2>5 DEF RunTogether
  <1>2. ASSUME \A p \in Run : run'[p].key = k => ~ Active(p)'
        PROVE  SameUnder(k, s, c)'
    <2>1. ASSUME NEW p \in Run, run[p].key = k, Active(p)
          PROVE  FALSE
      <3>1. run'[p] = run[p]
        BY <2>1
      <3> QED BY <1>2, <2>1, <3>1 DEF Active
    <2>2. SameUnder(k, s, c)
      BY <2>1 DEF KeyTogether
    <2> QED BY <2>2 DEF SameUnder, Untouched
  <1> QED BY <1>1, <1>2 DEF KeyTogether

\* A step of the one request q at work on k.
LEMMA WorkerTogether ==
    ASSUME OneActive, MaxPerKey = 1, NEW k \in DataKey, NEW s \in Server, NEW c \in Server,
           NEW q \in Run, run[q].key = k, Active(q), SameRequest(q, run'[q]),
           \A p \in Run \ {q} : run'[p] = run[p],
           Active(q)' => RunTogether(q, s, c)',
           ~ Active(q)' => SameUnder(k, s, c)'
    PROVE  KeyTogether(k, s, c)'
  <1>1. \A p \in Run \ {q} : run[p].key = k => ~ Active(p)
    BY DEF OneActive
  <1>2. ASSUME NEW p \in Run, run'[p].key = k, Active(p)'
        PROVE  RunTogether(p, s, c)'
    <2>1. p = q
      BY <1>1, <1>2 DEF Active
    <2> QED BY <1>2, <2>1
  <1>3. ASSUME \A p \in Run : run'[p].key = k => ~ Active(p)'
        PROVE  SameUnder(k, s, c)'
    BY <1>3 DEF SameRequest
  <1> QED BY <1>2, <1>3 DEF KeyTogether

\* A step of main's threads, and the end of a process that serves nobody.
LEMMA MainTogether ==
    ASSUME Following, NEW k \in DataKey, NEW s \in Server, NEW c \in Server,
           KeyTogether(k, s, c), ~ Starting(s), ~ Starting(c), ~ Die(s), ~ Die(c),
           \A p \in Run : run'[p].phase # "Lost",
           NEW x \in Server,
           Start(x) \/ (Initialize(x) /\ ~ AssertFails(x)) \/ Die(x)
    PROVE  KeyTogether(k, s, c)'
  <1>0. /\ LifeBasic /\ Basic /\ k \in Key /\ k # CoordinatorKey
        /\ run \in [Run -> RunLocals]
        /\ data \in [Server -> [Key -> AnyValue]]
        /\ logs = [t \in Server |-> [j \in Key |-> logs[t][j]]]
    BY FollowingIs, KeyAssumption DEF Key, Basic, TypeOK
  <1>1. CASE Start(x)
    <2>1. UNCHANGED <<logs, data, run, handlers>>
      BY <1>0, <1>1, StartKeeps
    <2> QED BY <2>1, TogetherFrame DEF Untouched
  <1>2. CASE Initialize(x) /\ ~ AssertFails(x)
    <2>1. x # s /\ x # c
      BY <1>0, <1>2, InitializeKeeps
    <2>2. handlers' = handlers /\ Untouched(s, k) /\ Untouched(c, k)
      BY <1>0, <1>2, <2>1, InitializeWrites DEF Untouched
    <2>3. \A p \in Run : \/ run'[p] = run[p]
                         \/ /\ ~ (run[p].key = k /\ Active(p))
                            /\ ~ (run'[p].key = k /\ Active(p)')
      BY <1>0, <1>2, InitializeElects DEF Active, Working
    <2> QED BY <2>2, <2>3, TogetherFrame
  <1>3. CASE Die(x)
    <2>1. x # s /\ x # c
      BY <1>3
    <2>2. Untouched(s, k) /\ Untouched(c, k)
      BY <1>0, <1>3, <2>1 DEF Die, Untouched
    <2>3. \A p \in Run : run'[p] = run[p]
      <3>1. \A p \in Run : run'[p] = run[p] \/ run'[p] = [run[p] EXCEPT !.phase = "Lost"]
        BY <1>3 DEF Die
      <3>2. \A p \in Run : [run[p] EXCEPT !.phase = "Lost"].phase = "Lost"
        BY <1>0 DEF RunLocals
      <3> QED BY <3>1, <3>2
    <2>4. ASSUME NEW p \in Run, NEW t \in {s, c}, NEW step \in {"promise", "execute"},
                 Handler(p, t, step) \in handlers'
          PROVE  Handler(p, t, step) \in handlers
      <3>1. SUFFICES ASSUME Handler(p, t, step) \in CallsOf(x) PROVE FALSE
        BY <1>3, <2>4 DEF Die
      <3>2. PICK q \in RunsOf(x), u \in Server : Handler(p, t, step) \in Unstarted(q, u)
        BY <3>1 DEF CallsOf
      <3>3. PICK phase \in DOMAIN LaterSteps : Handler(p, t, step) = Handler(q, u, phase)
        BY <3>2 DEF Unstarted
      <3>4. step = phase
        BY <3>3 DEF Handler
      <3> QED BY <3>4, LaterStepsAre
    <2> QED BY <2>2, <2>3, <2>4, TogetherFrame
  <1> QED BY <1>1, <1>2, <1>3

\* A request that begins finds the two the same under its key.
LEMMA ArriveTogether ==
    ASSUME Following, NEW k \in DataKey, NEW s \in Server, NEW c \in Server,
           KeyTogether(k, s, c), NEW p \in Run, Arrive(p)
    PROVE  KeyTogether(k, s, c)'
  <1>0. /\ Basic /\ OneActive /\ MaxPerKey = 1 /\ run[p].phase = "Idle" /\ run[p] = NotStarted
        /\ UNCHANGED <<logs, data, handlers>>
    <2>1. Basic /\ OneActive /\ MaxPerKey = 1 /\ TypeOK
      BY FollowingIs DEF Basic
    <2>2. run[p].phase = "Idle" /\ UNCHANGED serverVars /\ UNCHANGED handlers
      BY <2>1, ArrivalIsNew
    <2> QED BY <2>1, <2>2 DEF Basic, Begun, serverVars
  <1>1. PICK t \in Server, key \in Key, op \in Proposal, phase \in {"Ping", "ABORTED"},
             round \in Nat, todo \in SUBSET Server :
             /\ BeginsRight(p, t, key, op, phase, round, todo)
             /\ run'[p] = [NotStarted EXCEPT !.phase = phase, !.server = t, !.key = key,
                              !.op = op, !.round = round, !.todo = todo]
             /\ \A q \in Run \ {p} : run'[q] = run[q]
    BY <1>0, BeginsIn
  <1>2. run'[p].phase = phase /\ run'[p].key = key
    BY <1>1 DEF NotStarted
  <1>3. ~ Active(p)
    BY <1>0 DEF Active, Working
  <1>4. CASE phase = "ABORTED" \/ key # k
    <2>1. \A q \in Run : \/ run'[q] = run[q]
                         \/ /\ ~ (run[q].key = k /\ Active(q))
                            /\ ~ (run'[q].key = k /\ Active(q)')
      BY <1>1, <1>2, <1>3, <1>4 DEF Active, Working
    <2> QED BY <1>0, <2>1, TogetherFrame DEF Untouched
  <1>5. CASE phase = "Ping" /\ key = k
    <2>1. \A q \in Run : run[q].key = k => ~ Active(q)
      BY <1>0, <1>1, <1>5, BeginsAlone DEF BeginsRight
    <2>2. SameUnder(k, s, c)
      BY <2>1 DEF KeyTogether
    <2>3. \A u, step : Handler(p, u, step) \notin handlers
      BY <1>0 DEF Basic, Begun, Handler
    <2>4. RunTogether(p, s, c)'
      BY <1>0, <1>2, <1>5, <2>2, <2>3 DEF RunTogether, SameUnder
    <2>5. \A q \in Run \ {p} : run'[q].key = k => ~ Active(q)'
      BY <1>1, <2>1 DEF Active
    <2>6. Active(p)'
      BY <1>2, <1>5 DEF Active, Working
    <2> QED BY <1>2, <1>5, <2>4, <2>5, <2>6 DEF KeyTogether
  <1> QED BY <1>4, <1>5

\* A request for another key.
LEMMA OtherKeyTogether ==
    ASSUME Following, NEW k \in DataKey, NEW s \in Server, NEW c \in Server,
           KeyTogether(k, s, c), NEW q \in Run, run[q].key # k,
           Proceed(q) \/ (\E x \in Server : Serve(q, x))
    PROVE  KeyTogether(k, s, c)'
  <1>0. Basic /\ Orderly /\ [AnyStep]_vars /\ k \in Key /\ k # CoordinatorKey
    BY FollowingIs, KeyAssumption DEF AnyStep, Key
  <1>1. run[q].phase # "Idle"
    BY <1>0, ServeRight, ProceedChange, ActiveBegun
  <1>2. SameRequest(q, run'[q])
    BY <1>0, <1>1, RunStays
  <1>3. \A p \in Run : \/ run'[p] = run[p]
                       \/ /\ ~ (run[p].key = k /\ Active(p))
                          /\ ~ (run'[p].key = k /\ Active(p)')
    BY <1>0, <1>2, OtherRuns DEF SameRequest
  <1>4. CASE Proceed(q)
    BY <1>0, <1>3, <1>4, QuietSteps, TogetherFrame DEF serverVars, Untouched
  <1>5. ASSUME NEW x \in Server, Serve(q, x)
        PROVE  KeyTogether(k, s, c)'
    <2>1. \A t \in Server : Holds(t, k)' = Holds(t, k) /\ logs'[t][k] = logs[t][k]
      BY <1>0, <1>5, ServeHolds, ServeRounds
    <2>2. Untouched(s, k) /\ Untouched(c, k)
      BY <1>0, <2>1 DEF Holds, Untouched
    <2>3. \A h \in handlers' : h \in handlers \/ h.run = q
      BY <1>0, <1>5, ServeHandlers
    <2>4. ASSUME NEW p \in Run, NEW t, NEW step, run[p].key = k, Handler(p, t, step) \in handlers'
          PROVE  Handler(p, t, step) \in handlers
      BY <2>3, <2>4 DEF Handler
    <2> QED BY <1>3, <2>2, <2>4, TogetherFrame
  <1> QED BY <1>4, <1>5

\* The loops of RunPaxos come to an end when both have been asked and told.
LEMMA ProceedTogether ==
    ASSUME Following, NEW k \in DataKey, NEW s \in Server, NEW c \in Server, {s, c} \subseteq up,
           KeyTogether(k, s, c), NEW q \in Run, run[q].key = k, Proceed(q)
    PROVE  KeyTogether(k, s, c)'
  <1> DEFINE m == run'[q]
             r == run[q].round
             Told == IF run[q].phase = "Inform" THEN {s, c} \ run[q].todo ELSE {}
             Told2 == IF m.phase = "Inform" THEN {s, c} \ m.todo ELSE {}
             Asked(t) == \/ run[q].phase \in {"Propose", "Inform"}
                         \/ run[q].phase = "Prepare" /\ t \notin run[q].todo
             Asked2(t) == \/ m.phase \in {"Propose", "Inform"}
                          \/ m.phase = "Prepare" /\ t \notin m.todo
  <1>0. /\ Basic /\ OneActive /\ MaxPerKey = 1 /\ Active(q) /\ run[q] \in RunLocals
        /\ run \in [Run -> RunLocals]
        /\ UNCHANGED <<logs, data, handlers>>
        /\ \A p \in Run \ {q} : run'[p] = run[p]
        /\ up \subseteq run[q].live \cup (IF run[q].phase = "Ping" THEN run[q].todo ELSE {})
    <2>1. Basic /\ OneActive /\ MaxPerKey = 1 /\ run \in [Run -> RunLocals] /\ LiveFound
      BY FollowingIs DEF Basic, TypeOK
    <2>2. Active(q) /\ UNCHANGED serverVars /\ UNCHANGED handlers
      BY <2>1, ProceedChange
    <2>3. \A p \in Run \ {q} : run'[p] = run[p]
      BY <2>1, OtherRuns
    <2> QED BY <2>1, <2>2, <2>3 DEF serverVars, LiveFound
  <1>1. SameRequest(q, m)
    <2>1. [AnyStep]_vars /\ run[q].phase # "Idle"
      BY <1>0, ActiveBegun DEF AnyStep
    <2> QED BY <1>0, <2>1, RunStays
  <1>2. m.key = k /\ m.round = r
    BY <1>1 DEF SameRequest
  <1>3. RunTogether(q, s, c)
    BY <1>0 DEF KeyTogether
  <1>4. /\ DOMAIN logs[s][k] \ {r} = DOMAIN logs[c][k] \ {r}
        /\ \A t \in {s, c} : Asked(t) => r \in DOMAIN logs[t][k]
        /\ Late(q, s) \/ Told = {} => data[s][k] = data[c][k]
        /\ ~ Late(q, s) => \A t \in Told : data[t][k] = Outcome(run[q].proposal)
    BY <1>3 DEF RunTogether, Logged
  <1>5. ASSUME m.phase \in Working, \A t \in {s, c} : Asked2(t) => r \in DOMAIN logs[t][k],
               Told2 = Told, Told = {} \/ m.proposal = run[q].proposal
        PROVE  KeyTogether(k, s, c)'
    <2>1. Active(q)'
      BY <1>5 DEF Active
    <2>2. \A t \in {s, c} : /\ Logged(q, t)' <=> Logged(q, t)
                            /\ Late(q, t)' <=> Late(q, t)
      BY <1>0, <1>2 DEF Logged, Late, HasLaterRound
    <2>3. \A t \in {s, c} :
             /\ Handler(q, t, "promise") \in handlers' => Logged(q, t)'
             /\ Handler(q, t, "execute") \in handlers' => ~ Late(q, t)'
      BY <1>0, <1>3, <2>2 DEF RunTogether
    <2>4. \A t \in {s, c} : Asked2(t) => Logged(q, t)'
      BY <1>0, <1>2, <1>5 DEF Logged
    <2>5. /\ Late(q, s)' \/ Told2 = {} => data'[s][k] = data'[c][k]
          /\ ~ Late(q, s)' => \A t \in Told2 : data'[t][k] = Outcome(m.proposal)
      <3> HIDE DEF Told, Told2
      <3> QED BY <1>0, <1>4, <1>5, <2>2
    <2>6. DOMAIN logs'[s][k] \ {r} = DOMAIN logs'[c][k] \ {r}
      BY <1>0, <1>4
    <2>7. RunTogether(q, s, c)'
      BY <1>2, <2>3, <2>4, <2>5, <2>6 DEF RunTogether
    <2> QED BY <1>0, <1>1, <2>1, <2>7, WorkerTogether
  <1>6. ASSUME m.phase \notin Working, \A t \in {s, c} : Asked(t), data[s][k] = data[c][k]
        PROVE  KeyTogether(k, s, c)'
    <2>1. ~ Active(q)'
      BY <1>6 DEF Active
    <2>2. r \in DOMAIN logs[s][k] /\ r \in DOMAIN logs[c][k]
      BY <1>4, <1>6
    <2>3. DOMAIN logs[s][k] = DOMAIN logs[c][k]
      BY <1>4, <2>2
    <2>4. SameUnder(k, s, c)'
      BY <1>0, <1>6, <2>3 DEF SameUnder
    <2> QED BY <1>0, <1>1, <2>1, <2>4, WorkerTogether
  <1>7. ASSUME NEW x \in Server, Unreachable(q, x)
        PROVE  KeyTogether(k, s, c)'
    <2>1. m = PastCall(q, x) /\ x \notin up
      BY <1>0, <1>7 DEF Unreachable
    <2>2. /\ m.phase = run[q].phase /\ m.todo = run[q].todo \ {x}
          /\ m.proposal = run[q].proposal
      BY <1>0, <2>1 DEF PastCall, RunLocals
    <2>3. \A t \in {s, c} : t \in m.todo <=> t \in run[q].todo
      BY <2>1, <2>2
    <2>4. Told2 = Told /\ \A t \in {s, c} : Asked2(t) <=> Asked(t)
      BY <2>2, <2>3
    <2> QED BY <1>0, <1>4, <1>5, <2>2, <2>4 DEF Active
  <1>8. ASSUME NEW x \in Server, Ping(q, x)
        PROVE  KeyTogether(k, s, c)'
    <2>1. m = [PastCall(q, x) EXCEPT !.live = @ \cup {x}] /\ run[q].phase = "Ping"
      BY <1>0, <1>8 DEF Ping, Calls
    <2>2. m.phase = "Ping"
      BY <1>0, <2>1 DEF PastCall, RunLocals
    <2> QED BY <1>5, <2>1, <2>2 DEF Working
  <1>9. CASE PingDone(q)
    <2>1. /\ run[q].phase = "Ping" /\ run[q].todo = {} /\ m.todo = run[q].live
          /\ m.phase = IF run[q].live = {} THEN "ABORTED" ELSE "Prepare"
      BY <1>0, <1>9 DEF PingDone, RunLocals
    <2>2. {s, c} \subseteq run[q].live
      BY <1>0, <2>1
    <2>3. m.phase = "Prepare" /\ {s, c} \subseteq m.todo
      BY <2>1, <2>2
    <2> QED BY <1>5, <2>1, <2>3 DEF Working
  <1>10. CASE PrepareDone(q)
    <2>1. /\ run[q].phase = "Prepare" /\ run[q].todo = {}
          /\ \/ /\ m = [run[q] EXCEPT !.phase = "Propose", !.todo = run[q].live,
                              !.proposal = IF run[q].best.id > 0 THEN run[q].best.prop
                                                                 ELSE run[q].op]
             \/ m = [run[q] EXCEPT !.phase = "ABORTED"]
      BY <1>0, <1>10 DEF PrepareDone
    <2>2. m.phase \in {"Propose", "ABORTED"}
      BY <1>0, <2>1 DEF RunLocals
    <2>3. Told = {} /\ Told2 = {} /\ \A t \in {s, c} : Asked(t)
      BY <2>1, <2>2
    <2> QED BY <1>4, <1>5, <1>6, <2>2, <2>3 DEF Working
  <1>11. CASE ProposeDone(q)
    <2>1. /\ run[q].phase = "Propose" /\ run[q].todo = {}
          /\ \/ m = [run[q] EXCEPT !.phase = "Inform", !.todo = run[q].live]
             \/ m = [run[q] EXCEPT !.phase = "ABORTED"]
      BY <1>0, <1>11 DEF ProposeDone
    <2>2. m.phase \in {"Inform", "ABORTED"} /\ (m.phase = "Inform" => m.todo = run[q].live)
      BY <1>0, <2>1 DEF RunLocals
    <2>3. {s, c} \subseteq run[q].live
      BY <1>0, <2>1
    <2>4. Told = {} /\ Told2 = {} /\ \A t \in {s, c} : Asked(t)
      BY <2>1, <2>2, <2>3
    <2> QED BY <1>4, <1>5, <1>6, <2>2, <2>4 DEF Working
  <1>12. CASE InformDone(q)
    <2>1. run[q].phase = "Inform" /\ run[q].todo = {} /\ m.phase = "OK"
      BY <1>0, <1>12 DEF InformDone, RunLocals
    <2>2. Told = {s, c} /\ \A t \in {s, c} : Asked(t)
      BY <2>1
    <2>3. data[s][k] = data[c][k]
      <3> HIDE DEF Told
      <3> QED BY <1>4, <2>2
    <2> QED BY <1>6, <2>1, <2>2, <2>3 DEF Working
  <1> QED BY <1>7, <1>8, <1>9, <1>10, <1>11, <1>12 DEF Proceed

\* The locals of a thread after a step of a handler it waits for.
LEMMA ServedLocals ==
    ASSUME Following, NEW q \in Run, NEW x \in Server, Serve(q, x)
    PROVE  /\ SameRequest(q, run'[q])
           /\ run'[q].phase = run[q].phase /\ run'[q].proposal = run[q].proposal
           /\ run'[q].todo \in {run[q].todo, run[q].todo \ {x}}
  <1>0. Basic /\ Orderly /\ AnyStep /\ run[q].phase # "Lost" /\ HandlersAwaited /\ faults = 0
    BY FollowingIs DEF AnyStep
  <1>1. PICK phase \in {"Prepare", "Propose", "Inform"} : Calls(q, phase, x)
    BY <1>0, ServeAwaited
  <1>2. run[q].phase = phase /\ x \in run[q].todo /\ run[q].phase # "Idle"
    BY <1>1 DEF Calls
  <1>3. SameRequest(q, run'[q])
    BY <1>0, <1>2, RunStays
  <1>4. Change(q, run'[q])
    <2>1. run \in [Run -> RunLocals]
      BY <1>0 DEF Basic, TypeOK
    <2> QED BY <1>0, <2>1, ServeChange DEF ChangesTo
  <1>5. run'[q].phase # "Lost"
    <2>1. ASSUME NEW t \in Server, Die(t) PROVE FALSE
      BY <1>0, <2>1, ServeData DEF Die
    <2> QED BY <1>0, <2>1, LostByDeath
  <1>6. ASSUME NEW other \in Working, NEW t, PastCalled(q, run'[q], other, t)
        PROVE  other = phase /\ t = x
    BY <1>0, <1>1, <1>6, OneCall DEF PastCalled, Working
  <1>7. ~ Advances(q, run'[q]) /\ ~ IsLost(q, run'[q]) /\ ~ Pinged(q, run'[q])
    BY <1>2, <1>5, <1>6 DEF Advances, IsLost, Pinged, Working
  <1>8. ASSUME NEW other \in Working, NEW t, PastCalled(q, run'[q], other, t)
        PROVE  run'[q].phase = run[q].phase /\ run'[q].todo = run[q].todo \ {x}
    BY <1>2, <1>6, <1>8 DEF PastCalled
  <1>9. CASE GivesUpCall(q, run'[q])
    BY <1>3, <1>8, <1>9 DEF GivesUpCall
  <1>10. ASSUME NEW t \in Server, PromisedBy(q, run'[q], t) \/ AcceptedBy(q, run'[q], t)
         PROVE  /\ run'[q].phase = run[q].phase /\ run'[q].todo = run[q].todo \ {x}
                /\ run'[q].proposal = run[q].proposal
    BY <1>8, <1>10 DEF PromisedBy, AcceptedBy, Working
  <1> QED BY <1>3, <1>4, <1>7, <1>9, <1>10 DEF Change

\* A learner that executes a proposal for a client's key has its outcome.
LEMMA ExecutesProposal ==
    ASSUME Following, NEW q \in Run, NEW x \in Server, InformEnd(q, x), run[q].key \in DataKey
    PROVE  data'[x][run[q].key] = Outcome(run[q].proposal)
  <1> DEFINE k == run[q].key
             prop == run[q].proposal
  <1>0. /\ data \in [Server -> [Key -> AnyValue]] /\ k \in Key /\ k # CoordinatorKey
        /\ Basic /\ RunsInOrder /\ RequestsFitKeys /\ RequestsAreOperations
    BY FollowingIs, KeyAssumption DEF Key, Orderly, Basic, TypeOK
  <1>1. Calls(q, "Inform", x)
    BY FollowingIs, ServeAwaited DEF Serve
  <1>2. HasProposed(q)
    BY <1>0, <1>1 DEF Calls, RunsInOrder
  <1>3. PICK p \in Run : SameInstance(q, p) /\ run[p].op = prop /\ HasInstance(q)
    BY <1>0, <1>2 DEF RunsInOrder, Requested
  <1>4. HasInstance(p) /\ run[p].key = k
    BY <1>3 DEF SameInstance
  <1>5. run[p].phase # "Idle"
    BY <1>0, <1>4 DEF Basic, Begun, NotStarted
  <1>6. prop \in Operation /\ prop.type # "SET_COORDINATOR"
    BY <1>0, <1>3, <1>4, <1>5 DEF RequestsAreOperations, RequestsFitKeys, FitsKey
  <1>7. CASE prop.type = "SET"
    <2>1. data' = [data EXCEPT ![x] = [data[x] EXCEPT ![k] = prop.value]]
      BY <1>7 DEF InformEnd, Execute, SetValue
    <2> QED BY <1>0, <1>7, <2>1 DEF Outcome
  <1>8. CASE prop.type = "DELETE"
    <2>1. data' = [data EXCEPT ![x] = [data[x] EXCEPT ![k] = Nil]]
      BY <1>8 DEF InformEnd, Execute, DeleteEntry
    <2> QED BY <1>0, <1>8, <2>1 DEF Outcome
  <1> QED BY <1>6, <1>7, <1>8 DEF Operation

\* What a handler of q does at one of the two, when it answers q or starts to
\* promise or to execute.
LEMMA ServedAnswers ==
    ASSUME Following, NEW k \in DataKey, NEW s \in Server, NEW c \in Server,
           NEW q \in Run, run[q].key = k, RunTogether(q, s, c), NEW x \in {s, c}, Serve(q, x)
    PROVE  /\ run'[q].todo # run[q].todo /\ run[q].phase = "Prepare" => Logged(q, x)
           /\ run'[q].todo # run[q].todo /\ run[q].phase = "Inform" =>
                 Late(q, x) \/ InformEnd(q, x)
           /\ Handler(q, x, "promise") \in handlers' \ handlers =>
                 run[q].round \in DOMAIN logs'[x][k]
           /\ Handler(q, x, "execute") \in handlers' \ handlers => ~ Late(q, x)
           /\ InformEnd(q, x) =>
                 /\ ~ Late(q, x) /\ run[q].phase = "Inform"
                 /\ run'[q].todo = run[q].todo \ {x}
  <1>0. /\ Basic /\ HandlersAwaited /\ faults = 0 /\ run[q].phase # "Lost"
        /\ k \in Key /\ x \in Server /\ run \in [Run -> RunLocals]
        /\ logs = [t \in Server |-> [j \in Key |-> logs[t][j]]]
    BY FollowingIs DEF Key, Basic, TypeOK
  <1>1. ASSUME run'[q].todo # run[q].todo, run[q].phase = "Prepare"
        PROVE  Logged(q, x)
    <2>1. PrepareBegin(q, x) \/ PrepareEnd(q, x)
      BY <1>0, <1>1, ServeAwaited DEF Serve, Calls
    <2>2. Handler(q, x, "promise") \in handlers
      BY <1>1, <2>1 DEF PrepareBegin, PrepareEnd
    <2> QED BY <2>2 DEF RunTogether
  <1>2. ASSUME run'[q].todo # run[q].todo, run[q].phase = "Inform"
        PROVE  Late(q, x) \/ InformEnd(q, x)
    <2>1. InformBegin(q, x) \/ InformCheck(q, x) \/ InformEnd(q, x)
      BY <1>0, <1>2, ServeAwaited DEF Serve, Calls
    <2> QED BY <1>2, <2>1 DEF InformBegin, InformCheck, Late
  <1>3. ASSUME NEW from, NEW to, handlers' = Moved(q, x, from, to), NEW step,
               Handler(q, x, step) \in handlers' \ handlers
        PROVE  step \in to
    BY <1>3 DEF Moved, Handler
  <1>4. ASSUME Handler(q, x, "promise") \in handlers' \ handlers
        PROVE  run[q].round \in DOMAIN logs'[x][k]
    <2>1. PrepareBegin(q, x)
      <3>1. ASSUME NEW from
            PROVE  handlers' \notin {Moved(q, x, from, to) :
                                       to \in {{}, {"accept"}, {"check"}, {"execute"}}}
        BY <1>3, <1>4
      <3>2. ~ PrepareEnd(q, x) /\ ~ ProposeEnd(q, x) /\ ~ InformEnd(q, x)
        BY <3>1 DEF PrepareEnd, ProposeEnd, InformEnd
      <3>3. ~ ProposeBegin(q, x) /\ ~ InformBegin(q, x)
        BY <3>1 DEF ProposeBegin, InformBegin
      <3>4. ~ InformCheck(q, x)
        BY <3>1 DEF InformCheck
      <3> QED BY <3>2, <3>3, <3>4 DEF Serve
    <2> DEFINE new == AddRound(logs[x][k], run[q].round)
    <2>2. logs' = [logs EXCEPT ![x][k] = new]
      BY <2>1 DEF PrepareBegin
    <2>3. run[q].round \in DOMAIN new
      BY DEF AddRound
    <2> HIDE DEF new
    <2>4. logs'[x][k] = new
      BY <1>0, <2>2
    <2> QED BY <2>3, <2>4
  <1>5. ASSUME Handler(q, x, "execute") \in handlers' \ handlers
        PROVE  ~ Late(q, x)
    <2>1. InformCheck(q, x)
      <3>1. ASSUME NEW from
            PROVE  handlers' \notin {Moved(q, x, from, to) :
                                       to \in {{}, {"promise"}, {"accept"}, {"check"}}}
        BY <1>3, <1>5
      <3>2. ~ PrepareEnd(q, x) /\ ~ ProposeEnd(q, x) /\ ~ InformEnd(q, x)
        BY <3>1 DEF PrepareEnd, ProposeEnd, InformEnd
      <3>3. ~ PrepareBegin(q, x) /\ ~ InformBegin(q, x)
        BY <3>1 DEF PrepareBegin, InformBegin
      <3>4. ~ ProposeBegin(q, x)
        BY <3>1 DEF ProposeBegin
      <3> QED BY <3>2, <3>3, <3>4 DEF Serve
    <2>2. ~ handlers' = Moved(q, x, "check", {})
      BY <1>3, <1>5
    <2> QED BY <2>1, <2>2 DEF InformCheck, Late
  <1>6. ASSUME InformEnd(q, x)
        PROVE  /\ ~ Late(q, x) /\ run[q].phase = "Inform"
               /\ run'[q].todo = run[q].todo \ {x}
    <2>1. Handler(q, x, "execute") \in handlers
      BY <1>6 DEF InformEnd
    <2>2. Calls(q, "Inform", x)
      BY <1>0, <1>6, ServeAwaited
    <2>3. run'[q] = PastCall(q, x)
      BY <1>0, <1>6, <2>2 DEF InformEnd, Answer
    <2>4. PastCall(q, x).todo = run[q].todo \ {x}
      BY <1>0 DEF PastCall, RunLocals
    <2> QED BY <2>1, <2>2, <2>3, <2>4 DEF RunTogether, Calls
  <1> QED BY <1>1, <1>2, <1>4, <1>5, <1>6

\* The handlers of the one request for k do at one of the two what they do, or
\* have yet to do, at the other.
LEMMA ServeTogether ==
    ASSUME Following, NEW k \in DataKey, NEW s \in Server, NEW c \in Server,
           KeyTogether(k, s, c), NEW q \in Run, run[q].key = k, NEW x \in Server, Serve(q, x)
    PROVE  KeyTogether(k, s, c)'
  <1> DEFINE m == run'[q]
             r == run[q].round
             Told == IF run[q].phase = "Inform" THEN {s, c} \ run[q].todo ELSE {}
             Told2 == IF run[q].phase = "Inform" THEN {s, c} \ m.todo ELSE {}
             Asked(t) == \/ run[q].phase \in {"Propose", "Inform"}
                         \/ run[q].phase = "Prepare" /\ t \notin run[q].todo
             Asked2(t) == \/ run[q].phase \in {"Propose", "Inform"}
                          \/ run[q].phase = "Prepare" /\ t \notin m.todo
  <1>0. /\ Basic /\ Orderly /\ OneActive /\ MaxPerKey = 1 /\ Active(q) /\ r \in Nat
        /\ k \in Key /\ k # CoordinatorKey
        /\ \A p \in Run \ {q} : run'[p] = run[p]
        /\ \A t \in Server : DOMAIN logs[t][k] \subseteq Nat
    <2>1. Basic /\ Orderly /\ OneActive /\ MaxPerKey = 1 /\ k \in Key /\ k # CoordinatorKey
      BY FollowingIs, KeyAssumption DEF Key
    <2> QED BY <2>1, ServesActive, ServeRight, OtherRuns DEF Basic, TypeOK, IsRounds
  <1>1. /\ SameRequest(q, m) /\ m.phase = run[q].phase /\ m.proposal = run[q].proposal
        /\ m.todo \in {run[q].todo, run[q].todo \ {x}}
    BY ServedLocals
  <1>2. m.key = k /\ m.round = r
    BY <1>1 DEF SameRequest
  <1>3. RunTogether(q, s, c)
    BY <1>0 DEF KeyTogether
  <1>4. /\ DOMAIN logs[s][k] \ {r} = DOMAIN logs[c][k] \ {r}
        /\ \A t \in {s, c} : Asked(t) => r \in DOMAIN logs[t][k]
        /\ Late(q, s) \/ Told = {} => data[s][k] = data[c][k]
        /\ ~ Late(q, s) => \A t \in Told : data[t][k] = Outcome(run[q].proposal)
    BY <1>3 DEF RunTogether, Logged
  <1>5. ASSUME NEW t \in Server
        PROVE  /\ DOMAIN logs[t][k] \subseteq DOMAIN logs'[t][k]
               /\ DOMAIN logs'[t][k] \subseteq DOMAIN logs[t][k] \cup {r}
    BY <1>0, ServeRounds
  <1>6. ASSUME NEW t \in {s, c}
        PROVE  /\ Late(q, t)' <=> Late(q, t)
               /\ Late(q, t) <=> Late(q, s)
    <2>1. Late(q, t)' <=> Late(q, t)
      BY <1>0, <1>2, <1>5 DEF Late, HasLaterRound
    <2>2. Late(q, c) <=> Late(q, s)
      BY <1>0, <1>4 DEF Late, HasLaterRound
    <2> QED BY <2>1, <2>2
  <1>7. ASSUME x \in {s, c}
        PROVE  /\ run'[q].todo # run[q].todo /\ run[q].phase = "Prepare" => Logged(q, x)
               /\ run'[q].todo # run[q].todo /\ run[q].phase = "Inform" =>
                     Late(q, x) \/ InformEnd(q, x)
               /\ Handler(q, x, "promise") \in handlers' \ handlers => r \in DOMAIN logs'[x][k]
               /\ Handler(q, x, "execute") \in handlers' \ handlers => ~ Late(q, x)
               /\ InformEnd(q, x) =>
                     /\ ~ Late(q, x) /\ run[q].phase = "Inform"
                     /\ run'[q].todo = run[q].todo \ {x}
    BY <1>3, <1>7, ServedAnswers
  <1>8. DOMAIN logs'[s][k] \ {r} = DOMAIN logs'[c][k] \ {r}
    BY <1>4, <1>5
  <1>9. ASSUME NEW t \in {s, c}, Asked2(t)
        PROVE  Logged(q, t)'
    <2>1. CASE Asked(t)
      BY <1>2, <1>4, <1>5, <2>1 DEF Logged
    <2>2. CASE ~ Asked(t)
      <3>1. t = x /\ m.todo # run[q].todo /\ run[q].phase = "Prepare"
        BY <1>1, <1>9, <2>2
      <3>2. Logged(q, x)
        BY <1>7, <3>1
      <3> QED BY <1>2, <1>5, <3>1, <3>2 DEF Logged
    <2> QED BY <2>1, <2>2
  <1>10. ASSUME NEW t \in {s, c}, NEW step, t # x, Handler(q, t, step) \in handlers'
         PROVE  Handler(q, t, step) \in handlers
    <2>1. \A h \in handlers' : h \in handlers \/ (h.run = q /\ h.at = x)
      BY <1>0, ServeHandlers
    <2> QED BY <1>10, <2>1 DEF Handler
  <1>11. ASSUME NEW t \in {s, c}
         PROVE  /\ Handler(q, t, "promise") \in handlers' => Logged(q, t)'
                /\ Handler(q, t, "execute") \in handlers' => ~ Late(q, t)'
    <2>1. /\ Handler(q, t, "promise") \in handlers => Logged(q, t)
          /\ Handler(q, t, "execute") \in handlers => ~ Late(q, t)
      BY <1>3 DEF RunTogether
    <2>2. Logged(q, t) => Logged(q, t)'
      BY <1>2, <1>5 DEF Logged
    <2>3. r \in DOMAIN logs'[t][k] => Logged(q, t)'
      BY <1>2 DEF Logged
    <2>4. CASE t # x
      BY <1>6, <1>10, <2>1, <2>2, <2>4
    <2>5. CASE t = x
      BY <1>6, <1>7, <2>1, <2>2, <2>3, <2>5
    <2> QED BY <2>4, <2>5
  <1>12. /\ Late(q, s)' \/ Told2 = {} => data'[s][k] = data'[c][k]
         /\ ~ Late(q, s)' => \A t \in Told2 : data'[t][k] = Outcome(m.proposal)
    <2>1. CASE InformEnd(q, x) /\ x \in {s, c}
      <3>1. ~ Late(q, s)' /\ Told2 = Told \cup {x} /\ ~ Late(q, s)
        BY <1>6, <1>7, <2>1
      <3>2. data'[x][k] = Outcome(run[q].proposal)
        BY <2>1, ExecutesProposal
      <3>3. \A t \in {s, c} : t # x => data'[t][k] = data[t][k]
        <4>1. \A t \in {s, c} : t # x => Holds(t, k)' = Holds(t, k)
          BY <1>0, ServeHolds
        <4> QED BY <1>0, <4>1 DEF Holds
      <3>4. Told \subseteq {s, c}
        OBVIOUS
      <3> HIDE DEF Told, Told2
      <3> QED BY <1>1, <1>4, <3>1, <3>2, <3>3, <3>4
    <2>2. CASE ~ (InformEnd(q, x) /\ x \in {s, c})
      <3>1. \A t \in {s, c} : data'[t][k] = data[t][k]
        <4>1. \A t \in {s, c} : Holds(t, k)' = Holds(t, k)
          BY <1>0, <2>2, ServeHolds
        <4> QED BY <1>0, <4>1 DEF Holds
      <3>2. Told2 = Told \/ Late(q, s)
        <4>1. CASE x \in {s, c}
          BY <1>1, <1>6, <1>7, <2>2, <4>1
        <4>2. CASE x \notin {s, c}
          BY <1>1, <4>2
        <4> QED BY <4>1, <4>2
      <3>3. Told \subseteq {s, c}
        OBVIOUS
      <3> HIDE DEF Told, Told2
      <3> QED BY <1>1, <1>4, <1>6, <3>1, <3>2, <3>3
    <2> QED BY <2>1, <2>2
  <1>13. RunTogether(q, s, c)'
    BY <1>1, <1>2, <1>8, <1>9, <1>11, <1>12 DEF RunTogether
  <1>14. Active(q)'
    BY <1>0, <1>1 DEF Active
  <1> QED BY <1>0, <1>1, <1>13, <1>14, WorkerTogether

-----------------------------------------------------------------------------
(* Followers *)

\* A server that is ready and its source stay together on every key.
LEMMA ReadyStep ==
    ASSUME Following, [LifeNext]_lifeVars, Calm', NEW s \in Server, NEW c \in Server,
           RecoveredFrom(s, c)', boot'[s].phase = "Ready", NEW k \in DataKey
    PROVE  KeyTogether(k, s, c)'
  <1>1. /\ RecoveredFrom(s, c) /\ ~ Starting(c)
        /\ ~ Die(s) /\ ~ Die(c) /\ ~ Start(s)
    BY SourceStays
  <1>2. /\ LifeBasic /\ Follow(s, c) /\ faults' = 0 /\ {s, c} \subseteq up
        /\ \A p \in Run : run'[p].phase # "Lost"
    BY <1>1, FollowingIs DEF Calm, RecoveredFrom
  <1>3. CASE Initialize(s) /\ ~ AssertFails(s)
    <2>1. Recovered(s)
      BY <1>2, <1>3, InitializeKeeps
    <2> QED BY <1>1, <2>1, InstalledIsSame
  <1>4. CASE ~ (Initialize(s) /\ ~ AssertFails(s))
    <2>1. boot[s].phase = "Ready"
      BY <1>1, <1>4, MainStays
    <2>2. KeyTogether(k, s, c) /\ ~ Starting(s)
      BY <1>2, <2>1 DEF Follow, Starting
    <2>3. ASSUME NEW x \in Server, Start(x) \/ (Initialize(x) /\ ~ AssertFails(x)) \/ Die(x)
          PROVE  KeyTogether(k, s, c)'
      BY <1>1, <1>2, <2>2, <2>3, MainTogether
    <2>4. ASSUME NEW p \in Run, ClientStep(p)
          PROVE  KeyTogether(k, s, c)'
      BY <2>2, <2>4, ArriveTogether DEF ClientStep, ArriveStep
    <2>5. ASSUME NEW q \in Run, PaxosStep(q)
          PROVE  KeyTogether(k, s, c)'
      <3>1. Proceed(q) \/ \E x \in Server : Serve(q, x)
        BY <1>2, <2>5, PaxosStepIs
      <3>2. CASE run[q].key # k
        BY <2>2, <3>1, <3>2, OtherKeyTogether
      <3>3. CASE run[q].key = k
        BY <1>2, <2>2, <3>1, <3>3, ProceedTogether, ServeTogether
      <3> QED BY <3>2, <3>3
    <2>6. CASE UNCHANGED lifeVars
      <3>1. UNCHANGED <<run, data, logs, handlers>>
        BY <2>6 DEF lifeVars, vars, serverVars
      <3> QED BY <2>2, <3>1, TogetherFrame DEF Untouched
    <2> QED BY <2>3, <2>4, <2>5, <2>6, LifeKinds
  <1> QED BY <1>3, <1>4

LEMMA FollowersInStepStep ==
    ASSUME LifeIInv, FollowIInv, [LifeNext]_lifeVars
    PROVE  FollowersInStep'
  <1> SUFFICES ASSUME Calm'
               PROVE  /\ LiveFound' /\ StartsAreAlone' /\ BlankBeforeInstall'
                      /\ \A s, c \in Server : RecoveredFrom(s, c)' => Follow(s, c)'
    BY DEF FollowersInStep
  <1>1. Following /\ faults' = 0
    BY LifeOrderly, CalmBefore DEF Following, Calm
  <1>2. LiveFound' /\ StartsAreAlone' /\ BlankBeforeInstall'
    BY <1>1, LiveFoundStep, StartsAreAloneStep, BlankStep
  <1>3. ASSUME NEW s \in Server, NEW c \in Server, RecoveredFrom(s, c)'
        PROVE  Follow(s, c)'
    <2>1. ASSUME NEW k \in DataKey, boot'[s].phase \in {"RecoverLogs", "Install"}
          PROVE  /\ ValuesToInstall(s, c, k)'
                 /\ boot'[s].phase = "Install" => RoundsToInstall(s, c, k)'
      BY <1>1, <1>3, <2>1, SnapshotStep
    <2>2. ASSUME NEW k \in DataKey, boot'[s].phase = "Ready"
          PROVE  KeyTogether(k, s, c)'
      BY <1>1, <1>3, <2>2, ReadyStep
    <2> QED BY <2>1, <2>2 DEF Follow
  <1> QED BY <1>2, <1>3

LEMMA FollowInit == LifeInit => FollowIInv
  <1> SUFFICES ASSUME LifeInit PROVE FollowIInv
    OBVIOUS
  <1>1. \A p \in Run : run[p].phase = "Idle"
    BY DEF LifeInit, NotStarted
  <1>2. \A p \in Run : ~ Active(p)
    BY <1>1 DEF Active, Working
  <1>3. \A s \in Server : boot[s].phase = "Off" /\ boot[s].number = 0 /\ ~ Starting(s)
    BY DEF LifeInit, NotStarting, Starting
  <1>4. starts = 0 /\ up = {} /\ handlers = {}
    BY DEF LifeInit
  <1>5. BlankBeforeInstall
    BY DEF LifeInit, BlankBeforeInstall, Key, NoRounds
  <1>6. LiveFound /\ StartsAreAlone
    BY <1>2, <1>3, <1>4 DEF LiveFound, StartsAreAlone
  <1>7. \A s, c \in Server : ~ RecoveredFrom(s, c)
    BY <1>4 DEF RecoveredFrom
  <1> QED BY <1>1, <1>2, <1>4, <1>5, <1>6, <1>7
          DEF FollowIInv, RequestsAreOperations, OneActive, HandlersAwaited, FollowersInStep

\* THEOREM (invariance).  In every state of LifeSpec, while servers start alone,
\* a key is sent one request at a time and nothing was cut short, a snapshot is
\* of what its source still has, and then the two differ by the request at work.
THEOREM FollowInvariant == LifeSpec => []FollowIInv
  <1>1. LifeInit => FollowIInv
    BY FollowInit
  <1>2. LifeIInv /\ FollowIInv /\ [LifeNext]_lifeVars => FollowIInv'
    BY RequestsStep, FollowersInStepStep DEF FollowIInv
  <1> QED BY <1>1, <1>2, RecoveryInvariant, PTL DEF LifeSpec

\* THEOREM (README.md:105).  If clients wait while servers start and send one
\* request for a key at a time, a server that has recovered from another one
\* has the values and the rounds of that one whenever nothing is going on: no
\* interleaving of the recovery, of deaths of third servers and of requests
\* makes it lose or gain any.
THEOREM FollowersKeepUp ==
    ASSUME StartsAlone, MaxPerKey = 1
    PROVE  LifeSpec => []FollowersCatchUp
  <1>1. ASSUME FollowIInv, LifeTypeOK
        PROVE  FollowersCatchUp
    <2> SUFFICES ASSUME Quiet, NEW s \in Server, NEW c \in Server, RecoveredFrom(s, c),
                        NEW k \in DataKey
                 PROVE  data[s][k] = data[c][k] /\ DOMAIN logs[s][k] = DOMAIN logs[c][k]
      BY DEF FollowersCatchUp
    <2>1. Calm
      BY DEF Quiet, Calm
    <2>2. Follow(s, c)
      BY <1>1, <2>1 DEF FollowIInv, FollowersInStep
    <2>3. boot[s].phase = "Ready"
      BY DEF Quiet, RecoveredFrom
    <2>4. KeyTogether(k, s, c)
      BY <2>2, <2>3 DEF Follow
    <2>5. SameUnder(k, s, c)
      BY <2>4 DEF Quiet, KeyTogether
    <2> QED BY <2>5 DEF SameUnder
  <1>2. LifeSpec => [](FollowIInv /\ LifeTypeOK)
    BY FollowInvariant, LifeTypesCorrect, PTL
  <1> QED BY <1>1, <1>2, PTL
=============================================================================
