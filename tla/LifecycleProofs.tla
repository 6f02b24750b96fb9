--------------------------- MODULE LifecycleProofs ---------------------------
(***************************************************************************)
(* Proofs about servers that start, recover, crash and start again: the    *)
(* state keeps its types (LifeTypesCorrect), recovery brings into a        *)
(* replica only what was decided (RecoveryIsDecided), and the logs still   *)
(* hold proposals of their own instance only (RestartsKeepProposals).      *)
(* A step is one of MultiPaxos, to which its lemmas apply, or main's       *)
(* thread writes one piece of the state.                                   *)
(***************************************************************************)
EXTENDS LifecycleInvariant, MultiPaxosProofs

USE DEF ProposeId, HasInstance

\* A request arrives at a server, whoever sends it.
ArriveStep(p) == Arrive(p) /\ UNCHANGED <<boot, starts>>

\* A step, but for which requests are sent to which servers.
LifeMove ==
    \/ \E s \in Server : Start(s) \/ Initialize(s) \/ CrashProcess(s)
    \/ \E p \in Run : ArriveStep(p) \/ PaxosStep(p)

\* The requests of Lifecycle are requests of MultiPaxos.
LEMMA LifeNextIsMove == LifeNext => LifeMove
  <1> SUFFICES ASSUME LifeNext PROVE LifeMove
    OBVIOUS
  <1>1. DataKey \subseteq Key
    BY DEF Key
  <1>2. ASSUME NEW p \in Run, ForwardRequest(p)
        PROVE  ArriveStep(p)
    <2>1. PICK s \in Server, k \in DataKey :
                (\E v \in Value : PutPair(p, s, k, v)) \/ DeletePair(p, s, k)
      BY <1>2 DEF ForwardRequest
    <2> QED BY <1>1, <1>2, <2>1 DEF ForwardRequest, ArriveStep, Arrive
  <1>3. ASSUME NEW p \in Run, NEW s \in Server, ReplaceCoordinator(p, s)
        PROVE  ArriveStep(p)
    BY <1>3 DEF ReplaceCoordinator, ArriveStep, Arrive
  <1> QED BY <1>2, <1>3 DEF LifeNext, LifeMove

-----------------------------------------------------------------------------
(* What main's threads do to the state of MultiPaxos *)

\* A server is there.
Joins(s) ==
    /\ s \notin up /\ up' = up \cup {s}
    /\ UNCHANGED <<logs, data, coordinator, faults>>

\* A call of main's thread fails.
CallFails == faults' = faults + 1 /\ UNCHANGED serverVars

\* s takes for the coordinator whom the others named.
Follows(s) ==
    /\ \E c \in boot[s].coordinators : coordinator' = [coordinator EXCEPT ![s] = c]
    /\ UNCHANGED <<up, logs, data, faults>>

\* s installs a value, or a log, of the snapshot.
StoresCopy(s) ==
    /\ \E e \in boot[s].values : data' = [data EXCEPT ![s] = SetValue(@, e[1], e[2])]
    /\ UNCHANGED <<up, logs, coordinator, faults>>

LogsCopy(s) ==
    /\ \E e \in boot[s].entries : logs' = [logs EXCEPT ![s][e[1]] = AddRecovered(@, e[2], e[3])]
    /\ UNCHANGED <<up, data, coordinator, faults>>

MainStep ==
    /\ \/ CallFails
       \/ \E s \in Server : Joins(s) \/ Follows(s) \/ StoresCopy(s) \/ LogsCopy(s)
    /\ UNCHANGED <<run, handlers, applied, prior>>

\* Every step is one of MultiPaxos or one of these.
LEMMA MoveKinds ==
    ASSUME LifeMove
    PROVE  [AnyStep]_vars \/ MainStep
  <1>1. ASSUME NEW s \in Server, Start(s)
        PROVE  MainStep
    BY <1>1 DEF Start, MainStep, Joins
  <1>2. ASSUME NEW s \in Server, Initialize(s)
        PROVE  [AnyStep]_vars \/ MainStep
    <2>1. ASSUME NEW t \in Server, AskCoordinator(s, t)
          PROVE  UNCHANGED vars \/ MainStep
      BY <2>1 DEF AskCoordinator, vars, MainStep, CallFails
    <2>2. ASSUME GetCoordinatorDone(s)
          PROVE  UNCHANGED vars \/ MainStep
      <3>1. CASE UNCHANGED coordinator
        BY <2>2, <3>1 DEF GetCoordinatorDone, vars, serverVars
      <3>2. CASE \E c \in boot[s].live : /\ boot[s].coordinators = {c}
                                         /\ coordinator' = [coordinator EXCEPT ![s] = c]
        BY <2>2, <3>2 DEF GetCoordinatorDone, MainStep, Follows
      <3> QED BY <2>2, <3>1, <3>2 DEF GetCoordinatorDone
    <2>3. ASSUME NEW p \in Run, ElectNewCoordinator(s, p)
          PROVE  AnyStep
      BY <2>3 DEF ElectNewCoordinator, AnyStep, Arrive
    <2>4. ASSUME ElectionDone(s)
          PROVE  UNCHANGED vars \/ MainStep
      BY <2>4 DEF ElectionDone, vars, MainStep, CallFails
    <2>5. ASSUME GetRecovery(s) \/ Recover(s) \/ RecoverLogs(s) \/ Recovered(s)
          PROVE  UNCHANGED vars
      BY <2>5 DEF GetRecovery, Recover, RecoverLogs, Recovered
    <2>6. ASSUME RecoverFails(s)
          PROVE  UNCHANGED vars \/ MainStep
      BY <2>6 DEF RecoverFails, vars, MainStep, CallFails
    <2>7. ASSUME InstallValue(s)
          PROVE  MainStep
      BY <2>7 DEF InstallValue, MainStep, StoresCopy
    <2>8. ASSUME InstallLog(s)
          PROVE  MainStep
      BY <2>8 DEF InstallLog, MainStep, LogsCopy
    <2>9. ASSUME AssertFails(s)
          PROVE  AnyStep
      BY <2>9 DEF AssertFails, AnyStep
    <2> QED BY <1>2, <2>1, <2>2, <2>3, <2>4, <2>5, <2>6, <2>7, <2>8, <2>9 DEF Initialize
  <1>3. ASSUME NEW s \in Server, CrashProcess(s)
        PROVE  AnyStep
    BY <1>3 DEF CrashProcess, Crash, AnyStep
  <1>4. ASSUME NEW p \in Run, ArriveStep(p) \/ PaxosStep(p)
        PROVE  AnyStep
    BY <1>4 DEF ArriveStep, PaxosStep, AnyStep
  <1> QED BY <1>1, <1>2, <1>3, <1>4 DEF LifeMove

-----------------------------------------------------------------------------
(* Types *)

LifeBasic == LifeTypeOK /\ Begun

\* Installing a log keeps the logs of a key a map of positive rounds.
LEMMA AddRecoveredType ==
    ASSUME NEW rounds, IsRounds(rounds), NEW r \in Nat \ {0}, NEW log \in PaxosLog
    PROVE  IsRounds(AddRecovered(rounds, r, log))
  <1> DEFINE new == AddRecovered(rounds, r, log)
  <1>1. DOMAIN new = DOMAIN rounds \cup {r} /\ new = [x \in DOMAIN new |-> new[x]]
    BY DEF AddRecovered
  <1>2. \A x \in DOMAIN new : new[x] \in PaxosLog
    BY <1>1 DEF AddRecovered, IsRounds
  <1> QED BY <1>1, <1>2 DEF IsRounds

\* An entry of a snapshot is a log of a positive round.
LEMMA EntryType ==
    ASSUME LifeBasic, NEW s \in Server, NEW e \in boot[s].entries
    PROVE  e[1] \in Key /\ e[2] \in Nat \ {0} /\ e[3] \in PaxosLog
  <1>1. boot[s].entries \subseteq Key \X (Nat \ {0}) \X PaxosLog
    BY DEF LifeBasic, LifeTypeOK, BootLocals
  <1> QED BY <1>1

\* What installing a log does to the logs.
LEMMA LogsCopyWrites ==
    ASSUME LifeBasic, NEW s \in Server, LogsCopy(s)
    PROVE  \E e \in boot[s].entries :
              \A t \in Server, k \in Key :
                 logs'[t][k] = IF t = s /\ k = e[1] THEN AddRecovered(logs[t][k], e[2], e[3])
                                                    ELSE logs[t][k]
  <1>1. PICK e \in boot[s].entries :
              logs' = [logs EXCEPT ![s][e[1]] = AddRecovered(logs[s][e[1]], e[2], e[3])]
    BY DEF LogsCopy, LifeBasic, LifeTypeOK, TypeOK
  <1>2. e[1] \in Key /\ e[2] \in Nat \ {0} /\ e[3] \in PaxosLog
    BY EntryType
  <1> DEFINE rounds == AddRecovered(logs[s][e[1]], e[2], e[3])
  <1> HIDE DEF rounds
  <1>3. \A t \in Server, k \in Key :
           logs'[t][k] = IF t = s /\ k = e[1] THEN rounds ELSE logs[t][k]
    <2>1. logs = [t \in Server |-> [k \in Key |-> logs[t][k]]]
      BY DEF LifeBasic, LifeTypeOK, TypeOK
    <2>2. logs' = [logs EXCEPT ![s][e[1]] = rounds]
      BY <1>1 DEF rounds
    <2> QED BY <1>2, <2>1, <2>2
  <1> QED BY <1>3 DEF rounds

\* Main's threads keep the types of what MultiPaxos works on.
LEMMA BasicMain ==
    ASSUME LifeBasic, MainStep
    PROVE  Basic'
  <1> USE DEF LifeBasic, LifeTypeOK
  <1>1. Begun' /\ up' \subseteq Server
    <2>1. up \subseteq up' /\ up' \subseteq Server
      BY DEF MainStep, CallFails, Joins, Follows, StoresCopy, LogsCopy, serverVars, TypeOK
    <2> QED BY <2>1 DEF MainStep, Begun
  <1>2. CASE CallFails
    BY <1>1, <1>2 DEF MainStep, CallFails, serverVars, TypeOK, Basic
  <1>3. ASSUME NEW s \in Server, Joins(s)
        PROVE  TypeOK'
    BY <1>1, <1>3 DEF MainStep, Joins, TypeOK
  <1>4. ASSUME NEW s \in Server, Follows(s)
        PROVE  TypeOK'
    <2>1. boot[s].coordinators \subseteq Server
      BY DEF BootLocals
    <2>2. coordinator' \in [Server -> Server \cup {Nil}]
      BY <1>4, <2>1 DEF Follows, TypeOK
    <2>3. UNCHANGED <<logs, data, run, handlers, faults, applied, prior>>
      BY <1>4 DEF MainStep, Follows
    <2> QED BY <1>1, <2>2, <2>3 DEF TypeOK
  <1>5. ASSUME NEW s \in Server, StoresCopy(s)
        PROVE  TypeOK'
    <2>1. PICK e \in boot[s].values : data' = [data EXCEPT ![s] = SetValue(data[s], e[1], e[2])]
      BY <1>5 DEF StoresCopy, TypeOK
    <2>2. e[1] \in Key /\ e[2] \in AnyValue
      <3>1. boot[s].values \subseteq Key \X AnyValue
        BY DEF BootLocals
      <3> QED BY <3>1
    <2>3. SetValue(data[s], e[1], e[2]) \in [Key -> AnyValue]
      BY <2>2 DEF SetValue, TypeOK
    <2>4. data' \in [Server -> [Key -> AnyValue]]
      BY <2>1, <2>3 DEF TypeOK
    <2> QED BY <1>1, <1>5, <2>4 DEF MainStep, StoresCopy, TypeOK
  <1>6. ASSUME NEW s \in Server, LogsCopy(s)
        PROVE  TypeOK'
    <2>1. PICK e \in boot[s].entries :
                logs' = [logs EXCEPT ![s][e[1]] = AddRecovered(logs[s][e[1]], e[2], e[3])]
      BY <1>6 DEF LogsCopy, TypeOK
    <2>2. IsRounds(AddRecovered(logs[s][e[1]], e[2], e[3])) /\ e[1] \in Key
      BY EntryType, AddRecoveredType DEF TypeOK
    <2>3. /\ logs' = [t \in Server |-> [j \in Key |-> logs'[t][j]]]
          /\ \A t \in Server, j \in Key : IsRounds(logs'[t][j])
      BY <2>1, <2>2, LogsStep
    <2> QED BY <1>1, <1>6, <2>3 DEF MainStep, LogsCopy, TypeOK
  <1> QED BY <1>1, <1>2, <1>3, <1>4, <1>5, <1>6 DEF MainStep, Basic

\* A step of a Paxos run, or the arrival of a request, ends no process.
LEMMA PaxosKeepsUp ==
    ASSUME Basic, NEW p \in Run, ArriveStep(p) \/ PaxosStep(p)
    PROVE  UNCHANGED <<up, boot, starts>>
  <1>1. ASSUME NEW s \in Server, Serve(p, s)
        PROVE  up' = up
    BY <1>1, ServeData
  <1>2. ASSUME NEW s \in Server, DeadlineExceeded(p, s)
        PROVE  up' = up
    BY <1>2 DEF DeadlineExceeded, serverVars
  <1>3. CASE Arrive(p) \/ Proceed(p)
    BY <1>3, QuietSteps DEF ArriveStep, PaxosStep, serverVars
  <1> QED BY <1>1, <1>2, <1>3 DEF ArriveStep, PaxosStep

\* What main's thread of s may do to its locals; a phase it enters is that of a
\* running process.
Goes(s, locals) ==
    /\ locals \in BootLocals /\ locals.phase # "Off"
    /\ boot' = [boot EXCEPT ![s] = locals]

\* The thread of Initialize writes its own locals,
LEMMA InitializeGoes ==
    ASSUME LifeBasic, NEW s \in Server, Initialize(s), ~ AssertFails(s)
    PROVE  /\ boot[s].phase # "Off" /\ starts' = starts /\ up' = up
           /\ \E locals : Goes(s, locals)
  <1> USE DEF LifeBasic, LifeTypeOK
  <1> DEFINE Goal == /\ boot[s].phase # "Off" /\ starts' = starts /\ up' = up
                     /\ \E locals : Goes(s, locals)
  <1>0. boot[s] \in BootLocals /\ boot \in [Server -> BootLocals]
    OBVIOUS
  <1>1. ASSUME NEW t \in Server, AskCoordinator(s, t) PROVE Goal
    <2>1. \/ boot' = [boot EXCEPT ![s] = [boot[s] EXCEPT !.todo = boot[s].todo \ {t}]]
          \/ /\ Knows(t)
             /\ boot' = [boot EXCEPT ![s] =
                           [boot[s] EXCEPT
                               !.todo = boot[s].todo \ {t}, !.live = boot[s].live \cup {t},
                               !.coordinators = boot[s].coordinators \cup {coordinator[t]}]]
      BY <1>0, <1>1 DEF AskCoordinator
    <2>2. [boot[s] EXCEPT !.todo = boot[s].todo \ {t}] \in BootLocals
      BY <1>0 DEF BootLocals
    <2>3. Knows(t) => [boot[s] EXCEPT
                          !.todo = boot[s].todo \ {t}, !.live = boot[s].live \cup {t},
                          !.coordinators = boot[s].coordinators \cup {coordinator[t]}]
                      \in BootLocals
      BY <1>0 DEF BootLocals, Knows, TypeOK
    <2>4. \E locals \in BootLocals :
             locals.phase = boot[s].phase /\ boot' = [boot EXCEPT ![s] = locals]
      BY <1>0, <2>1, <2>2, <2>3 DEF BootLocals
    <2> QED BY <1>1, <2>4 DEF AskCoordinator, Goes, serverVars
  <1>2. ASSUME NEW phase \in BootPhase \ {"Off"},
               boot' = [boot EXCEPT ![s].phase = phase]
        PROVE  \E locals : Goes(s, locals)
    <2>1. [boot[s] EXCEPT !.phase = phase] \in BootLocals
      BY <1>0 DEF BootLocals
    <2>2. [boot[s] EXCEPT !.phase = phase].phase = phase
      BY <1>0 DEF BootLocals
    <2>3. boot' = [boot EXCEPT ![s] = [boot[s] EXCEPT !.phase = phase]]
      BY <1>0, <1>2
    <2> QED BY <2>1, <2>2, <2>3 DEF Goes
  <1>3. CASE GetCoordinatorDone(s)
    BY <1>2, <1>3 DEF GetCoordinatorDone, BootPhase
  <1>4. ASSUME NEW p \in Run, ElectNewCoordinator(s, p) PROVE Goal
    <2> DEFINE new == [boot[s] EXCEPT !.phase = "Electing", !.election = p]
    <2>1. new \in BootLocals /\ new.phase = "Electing"
      BY <1>0 DEF BootLocals, BootPhase
    <2>2. boot' = [boot EXCEPT ![s] = new]
      BY <1>0, <1>4 DEF ElectNewCoordinator
    <2>3. up' = up
      <3>1. Arrive(p)
        BY <1>4 DEF ElectNewCoordinator, Arrive
      <3> QED BY <3>1, ArrivalIsNew DEF serverVars
    <2> QED BY <1>4, <2>1, <2>2, <2>3 DEF ElectNewCoordinator, Goes
  <1>5. CASE ElectionDone(s)
    <2>1. \E phase \in {"GetRecovery", "Failed"} : boot' = [boot EXCEPT ![s].phase = phase]
      BY <1>5 DEF ElectionDone
    <2> QED BY <1>2, <1>5, <2>1 DEF ElectionDone, BootPhase, serverVars
  <1>6. CASE GetRecovery(s)
    <2> DEFINE phase == IF coordinator[s] = Nil THEN "Failed" ELSE "Recover"
               new   == [boot[s] EXCEPT !.source = coordinator[s], !.phase = phase]
    <2>1. coordinator[s] \in Server \cup {Nil}
      BY DEF TypeOK
    <2>2. new \in BootLocals /\ new.phase # "Off"
      BY <1>0, <2>1 DEF BootLocals, BootPhase
    <2>3. boot' = [boot EXCEPT ![s] = new]
      BY <1>0, <1>6 DEF GetRecovery
    <2> QED BY <1>6, <2>2, <2>3 DEF GetRecovery, Goes, vars, serverVars
  <1>7. CASE RecoverFails(s)
    BY <1>2, <1>7 DEF RecoverFails, BootPhase, serverVars
  <1>8. CASE Recover(s)
    <2> DEFINE c     == boot[s].source
               copy  == {<<k, data[c][k]>> : k \in {j \in Key : data[c][j] # Nil}}
               new   == [boot[s] EXCEPT !.phase = "RecoverLogs", !.values = copy]
    <2>1. c \in Server
      BY <1>8 DEF Recover, TypeOK
    <2>2. copy \in SUBSET (Key \X AnyValue)
      BY <2>1 DEF TypeOK
    <2>3. boot' = [boot EXCEPT ![s] = new]
      BY <1>0, <1>8 DEF Recover
    <2> HIDE DEF copy
    <2>4. new \in BootLocals /\ new.phase # "Off"
      BY <1>0, <2>2 DEF BootLocals, BootPhase
    <2> QED BY <1>8, <2>3, <2>4 DEF Recover, Goes, vars, serverVars
  <1>9. CASE RecoverLogs(s)
    <2> DEFINE c     == boot[s].source
               copy  == UNION {{<<k, r, logs[c][k][r]>> : r \in DOMAIN logs[c][k]} : k \in Key}
               new   == [boot[s] EXCEPT !.phase = "Install", !.entries = copy]
    <2>1. c \in Server
      BY <1>9 DEF RecoverLogs, TypeOK
    <2>2. copy \in SUBSET (Key \X (Nat \ {0}) \X PaxosLog)
      <3>1. \A k \in Key : \A r \in DOMAIN logs[c][k] :
               r \in Nat \ {0} /\ logs[c][k][r] \in PaxosLog
        BY <2>1 DEF TypeOK, IsRounds
      <3> QED BY <3>1
    <2>3. boot' = [boot EXCEPT ![s] = new]
      BY <1>0, <1>9 DEF RecoverLogs
    <2> HIDE DEF copy
    <2>4. new \in BootLocals /\ new.phase # "Off"
      BY <1>0, <2>2 DEF BootLocals, BootPhase
    <2> QED BY <1>9, <2>3, <2>4 DEF RecoverLogs, Goes, vars, serverVars
  <1>10. CASE InstallValue(s)
    <2>1. PICK e \in boot[s].values :
                boot' = [boot EXCEPT ![s] = [boot[s] EXCEPT !.values = boot[s].values \ {e}]]
      BY <1>0, <1>10 DEF InstallValue
    <2> DEFINE new == [boot[s] EXCEPT !.values = boot[s].values \ {e}]
    <2>2. new \in BootLocals /\ new.phase = "Install"
      BY <1>0, <1>10 DEF InstallValue, BootLocals
    <2> QED BY <1>10, <2>1, <2>2 DEF InstallValue, Goes
  <1>11. CASE InstallLog(s)
    <2>1. PICK e \in boot[s].entries :
                boot' = [boot EXCEPT ![s] = [boot[s] EXCEPT !.entries = boot[s].entries \ {e}]]
      BY <1>0, <1>11 DEF InstallLog
    <2> DEFINE new == [boot[s] EXCEPT !.entries = boot[s].entries \ {e}]
    <2>2. new \in BootLocals /\ new.phase = "Install"
      BY <1>0, <1>11 DEF InstallLog, BootLocals
    <2> QED BY <1>11, <2>1, <2>2 DEF InstallLog, Goes
  <1>12. CASE Recovered(s)
    BY <1>2, <1>12 DEF Recovered, BootPhase, vars, serverVars
  <1> QED BY <1>1, <1>3, <1>4, <1>5, <1>6, <1>7, <1>8, <1>9, <1>10, <1>11, <1>12 DEF Initialize

\* A process that ends leaves no locals.
LEMMA EndsBoot ==
    ASSUME LifeBasic, NEW s \in Server, Die(s), Ends(s)
    PROVE  /\ boot' \in [Server -> BootLocals]
           /\ boot'[s] = NotStarting
           /\ \A t \in Server \ {s} :
                 boot'[t] = boot[t] \/ (/\ boot[t].phase = "RecoverLogs"
                                        /\ boot'[t] = [boot[t] EXCEPT !.phase = "Failed"])
  <1> USE DEF LifeBasic, LifeTypeOK
  <1>1. NotStarting \in BootLocals
    BY LifecycleAssumption DEF NotStarting, BootLocals, BootPhase
  <1>2. \A t \in Server : [boot[t] EXCEPT !.phase = "Failed"] \in BootLocals
    BY DEF BootLocals, BootPhase
  <1> QED BY <1>1, <1>2 DEF Ends

\* Main's threads keep the types of their locals.
LEMMA LifeBasicStep == LifeBasic /\ [LifeMove]_lifeVars => LifeBasic'
  <1> SUFFICES ASSUME LifeBasic, [LifeMove]_lifeVars PROVE LifeBasic'
    OBVIOUS
  <1> DEFINE BootOK == /\ starts \in 0..MaxStarts
                       /\ boot \in [Server -> BootLocals]
                       /\ \A s \in Server : s \in up <=> boot[s].phase # "Off"
  <1>0. BootOK /\ Basic /\ up \subseteq Server
    BY DEF LifeBasic, LifeTypeOK, Basic, TypeOK
  <1>1. Basic'
    <2>1. UNCHANGED lifeVars => UNCHANGED vars
      BY DEF lifeVars
    <2> QED BY <1>0, <2>1, MoveKinds, BasicStep, BasicMain
  <1>2. BootOK'
    <2>1. ASSUME NEW s \in Server, Start(s)
          PROVE  BootOK'
      <3> DEFINE new == [NotStarting EXCEPT !.phase = "GetCoordinator",
                                            !.number = starts + 1, !.todo = Server]
      <3>1. starts + 1 \in 0..MaxStarts
        BY <1>0, <2>1, LifecycleAssumption DEF Start
      <3>2. new \in BootLocals /\ new.phase = "GetCoordinator"
        BY <3>1 DEF NotStarting, BootLocals, BootPhase
      <3>3. boot' = [boot EXCEPT ![s] = new] /\ up' = up \cup {s} /\ starts' = starts + 1
        BY <2>1 DEF Start
      <3> HIDE DEF new
      <3> QED BY <1>0, <3>1, <3>2, <3>3
    <2>2. ASSUME NEW s \in Server, Initialize(s), ~ AssertFails(s)
          PROVE  BootOK'
      <3>1. PICK locals : Goes(s, locals)
        BY <2>2, InitializeGoes
      <3> QED BY <1>0, <2>2, <3>1, InitializeGoes DEF Goes
    <2>3. ASSUME NEW s \in Server, AssertFails(s) \/ CrashProcess(s)
          PROVE  BootOK'
      <3>1. Die(s) /\ Ends(s)
        BY <2>3 DEF AssertFails, CrashProcess, Crash
      <3>2. up' = up \ {s} /\ starts' = starts
        BY <3>1 DEF Die, Ends
      <3>3. NotStarting.phase = "Off"
        BY DEF NotStarting
      <3>4. \A t \in Server \ {s} : boot'[t].phase # "Off" <=> boot[t].phase # "Off"
        BY <1>0, <3>1, EndsBoot DEF BootLocals
      <3> QED BY <1>0, <3>1, <3>2, <3>3, <3>4, EndsBoot
    <2>4. ASSUME NEW p \in Run, ArriveStep(p) \/ PaxosStep(p)
          PROVE  BootOK'
      BY <1>0, <2>4, PaxosKeepsUp
    <2>5. CASE UNCHANGED lifeVars
      BY <1>0, <2>5 DEF lifeVars, vars, serverVars
    <2> QED BY <2>1, <2>2, <2>3, <2>4, <2>5 DEF LifeMove
  <1> QED BY <1>1, <1>2 DEF Basic, LifeBasic, LifeTypeOK

\* They have them at the start.
LEMMA LifeBasicInit == LifeInit => LifeBasic
  <1> SUFFICES ASSUME LifeInit PROVE LifeBasic
    OBVIOUS
  <1>1. NotStarted \in RunLocals
    BY DEF NotStarted, NothingAccepted, NoProposal, RunLocals, Phase, Proposal,
           OperationType, AnyValue
  <1>2. /\ logs = [s \in Server |-> [k \in Key |-> logs[s][k]]]
        /\ \A s \in Server, k \in Key : IsRounds(logs[s][k])
    BY NoRoundsType DEF LifeInit
  <1>3. TypeOK
    BY <1>1, <1>2 DEF LifeInit, TypeOK, AnyValue
  <1>4. NotStarting \in BootLocals /\ NotStarting.phase = "Off"
    BY LifecycleAssumption DEF NotStarting, BootLocals, BootPhase
  <1>5. LifeTypeOK
    BY <1>3, <1>4, LifecycleAssumption DEF LifeInit, LifeTypeOK
  <1>6. Begun
    BY DEF LifeInit, Begun, NotStarted
  <1> QED BY <1>5, <1>6 DEF LifeBasic

\* Every reachable state has the types of the C++ code; a process has a main
\* thread exactly while it runs, however often servers start and crash.
THEOREM LifeTypesCorrect == LifeSpec => []LifeTypeOK
  <1>1. [LifeNext]_lifeVars => [LifeMove]_lifeVars
    BY LifeNextIsMove
  <1>2. LifeBasic => LifeTypeOK
    BY DEF LifeBasic
  <1> QED BY <1>1, <1>2, LifeBasicInit, LifeBasicStep, PTL DEF LifeSpec

-----------------------------------------------------------------------------
(* What was decided stays decided *)

\* A step of MultiPaxos, or one of main's thread, which touches no run.
PaxosOrMain == [AnyStep]_vars \/ MainStep

\* No run forgets its proposal, or that it was chosen.
LEMMA ProposalsStay ==
    ASSUME Orderly, PaxosOrMain, NEW p \in Run, HasProposed(p)
    PROVE  /\ run'[p].key = run[p].key /\ run'[p].round = run[p].round
           /\ run'[p].proposal = run[p].proposal
           /\ Chosen(p) => Chosen(p)'
  <1>1. HasInstance(p)
    BY DEF Orderly, RunsInOrder, Requested
  <1>2. CASE MainStep
    BY <1>2 DEF MainStep, Chosen
  <1>3. CASE [AnyStep]_vars
    BY <1>1, <1>3, Stable DEF Orderly
  <1> QED BY <1>2, <1>3 DEF PaxosOrMain

\* A chosen run has a proposal.
LEMMA ChosenHasProposed ==
    ASSUME Orderly, NEW p \in Run, Chosen(p)
    PROVE  HasProposed(p)
  <1>1. run[p].live \in SUBSET Server /\ run[p].accepted \in SUBSET Server
    BY DEF Orderly, Basic, TypeOK, RunLocals
  <1>2. run[p].accepted # {}
    BY <1>1, MajorityNotEmpty DEF Chosen, Majority
  <1> QED BY <1>2 DEF Orderly, RunsInOrder

\* Therefore neither does the system forget a decision,
LEMMA DecisionsStay ==
    ASSUME Orderly, PaxosOrMain, NEW k, NEW prop, Decided(k, prop)
    PROVE  Decided(k, prop)'
  <1>1. PICK p \in Run : Chosen(p) /\ run[p].key = k /\ run[p].proposal = prop
    BY DEF Decided
  <1> QED BY <1>1, ChosenHasProposed, ProposalsStay DEF Decided

\* and what a copied log holds stays a proposal of its instance.
LEMMA CopiedLogsStay ==
    ASSUME Orderly, PaxosOrMain, NEW k, NEW r, NEW log, HoldsProposal(k, r, log)
    PROVE  HoldsProposal(k, r, log)'
  BY ProposalsStay DEF HoldsProposal, HasProposed

-----------------------------------------------------------------------------
(* What a server stores, and what main's threads copy *)

\* A step of MultiPaxos stores a value only if it was decided, and makes a
\* server take for the coordinator only one that was elected.
LEMMA PaxosStores ==
    ASSUME Orderly, [AnyStep]_vars, NEW s \in Server
    PROVE  /\ \A k \in Key : data'[s][k] \in {Nil, data[s][k]} \/ Decided(k, SetTo(data'[s][k]))
           /\ \/ coordinator'[s] \in {Nil, coordinator[s]}
              \/ Decided(CoordinatorKey, CoordinatorIs(coordinator'[s]))
  <1> DEFINE Goal ==
        /\ \A k \in Key : data'[s][k] \in {Nil, data[s][k]} \/ Decided(k, SetTo(data'[s][k]))
        /\ \/ coordinator'[s] \in {Nil, coordinator[s]}
           \/ Decided(CoordinatorKey, CoordinatorIs(coordinator'[s]))
  <1>0. /\ data \in [Server -> [Key -> AnyValue]]
        /\ coordinator \in [Server -> Server \cup {Nil}]
        /\ run \in [Run -> RunLocals]
    BY DEF Orderly, Basic, TypeOK
  <1>1. CASE UNCHANGED <<data, coordinator>>
    BY <1>1
  <1>2. ASSUME NEW p \in Run, NEW t \in Server, InformEnd(p, t)
        PROVE  Goal
    <2>1. Chosen(p) /\ HasProposed(p)
      <3>1. Chosen(p)
        BY <1>2, HandlerOf DEF InformEnd, Orderly
      <3> QED BY <3>1, ChosenHasProposed
    <2>2. run[p].proposal \in Proposal
      BY <1>0 DEF RunLocals
    <2>3. run[p].proposal = [type |-> run[p].proposal.type, value |-> run[p].proposal.value]
      BY <2>2 DEF Proposal
    <2>4. ASSUME NEW k \in Key
          PROVE  data'[s][k] \in {Nil, data[s][k]} \/ Decided(k, SetTo(data'[s][k]))
      <3>1. CASE run[p].proposal.type = "SET"
        <4>1. data' = [data EXCEPT ![t] = SetValue(data[t], run[p].key, run[p].proposal.value)]
          BY <1>0, <1>2, <3>1 DEF InformEnd, Execute
        <4>2. CASE s = t /\ k = run[p].key
          <5>1. data'[s][k] = run[p].proposal.value
            BY <1>0, <4>1, <4>2 DEF SetValue
          <5> QED BY <2>1, <2>3, <3>1, <4>2, <5>1 DEF Decided, SetTo
        <4>3. CASE ~ (s = t /\ k = run[p].key)
          BY <1>0, <4>1, <4>3 DEF SetValue
        <4> QED BY <4>2, <4>3
      <3>2. CASE run[p].proposal.type = "DELETE"
        <4>1. data' = [data EXCEPT ![t] = DeleteEntry(data[t], run[p].key)]
          BY <1>0, <1>2, <3>2 DEF InformEnd, Execute
        <4> QED BY <1>0, <4>1 DEF DeleteEntry
      <3>3. CASE run[p].proposal.type \notin {"SET", "DELETE"}
        BY <1>2, <3>3 DEF InformEnd, Execute
      <3> QED BY <3>1, <3>2, <3>3
    <2>5. \/ coordinator'[s] \in {Nil, coordinator[s]}
          \/ Decided(CoordinatorKey, CoordinatorIs(coordinator'[s]))
      <3>1. CASE run[p].proposal.type = "SET_COORDINATOR"
        <4>1. run[p].key = CoordinatorKey
          BY <2>1, <3>1, ProposalFitsKey DEF FitsKey
        <4>2. Decided(CoordinatorKey, CoordinatorIs(run[p].proposal.value))
          BY <2>1, <2>3, <3>1, <4>1 DEF Decided, CoordinatorIs
        <4>3. coordinator'[s] \in {coordinator[s], run[p].proposal.value}
          BY <1>0, <1>2 DEF InformEnd, Execute
        <4> QED BY <4>2, <4>3
      <3>2. CASE run[p].proposal.type # "SET_COORDINATOR"
        BY <1>2, <3>2 DEF InformEnd, Execute
      <3> QED BY <3>1, <3>2
    <2> QED BY <2>4, <2>5
  <1>3. ASSUME NEW t \in Server, Die(t)
        PROVE  Goal
    BY <1>0, <1>3 DEF Die
  <1>4. ASSUME NEW p \in Run, Arrive(p) \/ Proceed(p)
        PROVE  UNCHANGED <<data, coordinator>>
    BY <1>4, QuietSteps DEF Orderly, serverVars
  <1>5. ASSUME NEW p \in Run, NEW t \in Server, DeadlineExceeded(p, t)
        PROVE  UNCHANGED <<data, coordinator>>
    BY <1>5 DEF DeadlineExceeded, serverVars
  <1>6. ASSUME NEW p \in Run, NEW t \in Server, Serve(p, t), ~ InformEnd(p, t)
        PROVE  UNCHANGED <<data, coordinator>>
    BY <1>6 DEF Serve, PrepareBegin, PrepareEnd, ProposeBegin, ProposeEnd, InformBegin,
                InformCheck, serverVars
  <1>7. CASE UNCHANGED vars
    BY <1>1, <1>7 DEF vars, serverVars
  <1> QED BY <1>1, <1>2, <1>3, <1>4, <1>5, <1>6, <1>7 DEF AnyStep
-----------------------------------------------------------------------------
(* The inductive invariant *)

\* It says of the runs and the logs what Orderly says.
LEMMA LifeOrderly == LifeIInv => Orderly /\ LifeBasic
  BY DEF LifeIInv, Orderly, LifeBasic, LifeTypeOK, Basic

\* A log that is installed holds a proposal of its own instance.
LEMMA LogsHoldMain ==
    ASSUME LifeIInv, MainStep
    PROVE  LogsHoldProposals'
  <1>0. Orderly /\ LifeBasic
    BY LifeOrderly
  <1>1. ASSUME NEW t \in Server, NEW k \in Key, NEW r \in DOMAIN logs[t][k]
        PROVE  HoldsProposal(k, r, logs[t][k][r])
    BY DEF LifeIInv, LogsHoldProposals, HoldsProposal
  <1>2. ASSUME NEW t \in Server, NEW k \in Key, NEW r \in DOMAIN logs'[t][k]
        PROVE  HoldsProposal(k, r, logs'[t][k][r])
    <2>1. CASE logs' = logs
      BY <1>1, <2>1
    <2>2. ASSUME NEW s \in Server, LogsCopy(s)
          PROVE  HoldsProposal(k, r, logs'[t][k][r])
      <3>1. PICK e \in boot[s].entries :
               logs'[t][k] = IF t = s /\ k = e[1] THEN AddRecovered(logs[t][k], e[2], e[3])
                                                  ELSE logs[t][k]
        BY <1>0, <2>2, LogsCopyWrites
      <3>2. HoldsProposal(e[1], e[2], e[3])
        BY DEF LifeIInv, CopiesDecided
      <3>3. \/ r \in DOMAIN logs[t][k] /\ logs'[t][k][r] = logs[t][k][r]
            \/ k = e[1] /\ r = e[2] /\ logs'[t][k][r] = e[3]
        BY <3>1 DEF AddRecovered
      <3> QED BY <1>1, <3>2, <3>3
    <2> QED BY <2>1, <2>2 DEF MainStep, CallFails, Joins, Follows, StoresCopy, serverVars
  <1>3. ASSUME NEW t \in Server, NEW k \in Key, NEW r \in DOMAIN logs'[t][k],
               logs'[t][k][r].accepted_id > 0
        PROVE  \E p \in Run :
                  /\ run'[p].key = k /\ run'[p].round = r /\ HasProposed(p)'
                  /\ run'[p].proposal = [type  |-> logs'[t][k][r].accepted_type,
                                         value |-> logs'[t][k][r].accepted_value]
    <2>1. PICK log : log = logs'[t][k][r]
      OBVIOUS
    <2>2. HoldsProposal(k, r, log)'
      BY <1>0, <1>2, <2>1, CopiedLogsStay DEF PaxosOrMain
    <2> QED BY <1>3, <2>1, <2>2 DEF HoldsProposal
  <1> QED BY <1>3 DEF LogsHoldProposals

\* Therefore the runs and logs stay in order, whoever steps.
LEMMA LifeOrderlyStep ==
    ASSUME LifeIInv, PaxosOrMain
    PROVE  Orderly'
  <1>0. Orderly /\ LifeBasic
    BY LifeOrderly
  <1>1. CASE [AnyStep]_vars
    BY <1>0, <1>1, OrderlyStep
  <1>2. CASE MainStep
    <2>1. Basic' /\ LogsHoldProposals'
      BY <1>0, <1>2, BasicMain, LogsHoldMain
    <2>2. UNCHANGED <<run, handlers>>
      BY <1>2 DEF MainStep
    <2>3. RequestsFitKeys'
      BY <1>0, <2>2 DEF Orderly, RequestsFitKeys, HasInstance, FitsKey
    <2>4. RunsInOrder'
      BY <1>0, <2>2 DEF Orderly, RunsInOrder, HasProposed, Requested, Majority, Chosen,
                        HasInstance, SameInstance
    <2>5. HandlersInOrder'
      BY <1>0, <2>2 DEF Orderly, HandlersInOrder, HasProposed, Chosen
    <2> QED BY <2>1, <2>3, <2>4, <2>5 DEF Orderly
  <1> QED BY <1>1, <1>2 DEF PaxosOrMain
-----------------------------------------------------------------------------
(* What main's threads have copied *)

\* What s has copied was copied before, or is copied now from where it is.
Copied(s) ==
    /\ \A c \in boot'[s].coordinators : c \in boot[s].coordinators \/
          \E u \in Server : c = coordinator[u] /\ c # Nil
    /\ \A e \in boot'[s].values : e \in boot[s].values \/
          \E u \in Server, k \in Key : e = <<k, data[u][k]>> /\ data[u][k] # Nil
    /\ \A e \in boot'[s].entries : e \in boot[s].entries \/
          \E u \in Server, k \in Key : \E r \in DOMAIN logs[u][k] :
             e = <<k, r, logs[u][k][r]>>

\* Initialize copies only whom replicas name and what they store.
LEMMA InitializeCopies ==
    ASSUME LifeBasic, NEW s \in Server, Initialize(s), ~ AssertFails(s)
    PROVE  Copied(s) /\ \A t \in Server \ {s} : boot'[t] = boot[t]
  <1> USE DEF LifeBasic, LifeTypeOK
  <1> DEFINE Goal == Copied(s) /\ \A t \in Server \ {s} : boot'[t] = boot[t]
  <1>0. boot[s] \in BootLocals /\ boot \in [Server -> BootLocals]
    OBVIOUS
  <1>1. ASSUME NEW locals, boot' = [boot EXCEPT ![s] = locals],
               locals.coordinators \subseteq boot[s].coordinators,
               locals.values \subseteq boot[s].values,
               locals.entries \subseteq boot[s].entries
        PROVE  Goal
    BY <1>0, <1>1 DEF Copied
  <1>2. ASSUME NEW phase, boot' = [boot EXCEPT ![s].phase = phase]
        PROVE  Goal
    <2>1. boot' = [boot EXCEPT ![s] = [boot[s] EXCEPT !.phase = phase]]
      BY <1>0, <1>2
    <2> QED BY <1>0, <1>1, <2>1 DEF BootLocals
  <1>3. ASSUME NEW t \in Server, AskCoordinator(s, t) PROVE Goal
    <2>1. CASE boot' = [boot EXCEPT ![s].todo = @ \ {t}]
      <3>1. boot' = [boot EXCEPT ![s] = [boot[s] EXCEPT !.todo = boot[s].todo \ {t}]]
        BY <1>0, <2>1
      <3> QED BY <1>0, <1>1, <3>1 DEF BootLocals
    <2>2. CASE /\ Knows(t)
               /\ boot' = [boot EXCEPT ![s].todo = @ \ {t}, ![s].live = @ \cup {t},
                                       ![s].coordinators = @ \cup {coordinator[t]}]
      <3>1. /\ boot'[s].coordinators = boot[s].coordinators \cup {coordinator[t]}
            /\ boot'[s].values = boot[s].values /\ boot'[s].entries = boot[s].entries
            /\ \A u \in Server \ {s} : boot'[u] = boot[u]
        BY <1>0, <2>2 DEF BootLocals
      <3> QED BY <2>2, <3>1 DEF Copied, Knows
    <2> QED BY <1>3, <2>1, <2>2 DEF AskCoordinator
  <1>4. ASSUME NEW p \in Run, ElectNewCoordinator(s, p) PROVE Goal
    <2>1. boot' = [boot EXCEPT ![s] = [boot[s] EXCEPT !.phase = "Electing", !.election = p]]
      BY <1>0, <1>4 DEF ElectNewCoordinator
    <2> QED BY <1>0, <1>1, <2>1 DEF BootLocals
  <1>5. CASE GetRecovery(s)
    <2> DEFINE phase == IF coordinator[s] = Nil THEN "Failed" ELSE "Recover"
    <2>1. boot' = [boot EXCEPT ![s] = [boot[s] EXCEPT !.source = coordinator[s],
                                                      !.phase = phase]]
      BY <1>0, <1>5 DEF GetRecovery
    <2> QED BY <1>0, <1>1, <2>1 DEF BootLocals
  <1>6. CASE Recover(s)
    <2> DEFINE c    == boot[s].source
               copy == {<<k, data[c][k]>> : k \in {j \in Key : data[c][j] # Nil}}
    <2>1. c \in Server
      BY <1>6 DEF Recover, TypeOK
    <2>2. \A e \in copy : \E k \in Key : e = <<k, data[c][k]>> /\ data[c][k] # Nil
      OBVIOUS
    <2>3. boot' = [boot EXCEPT ![s].phase = "RecoverLogs", ![s].values = copy]
      BY <1>6 DEF Recover
    <2> HIDE DEF copy
    <2>4. /\ boot'[s].coordinators = boot[s].coordinators
          /\ boot'[s].values = copy /\ boot'[s].entries = boot[s].entries
          /\ \A u \in Server \ {s} : boot'[u] = boot[u]
      BY <1>0, <2>3 DEF BootLocals
    <2> QED BY <2>1, <2>2, <2>4 DEF Copied
  <1>7. CASE RecoverLogs(s)
    <2> DEFINE c    == boot[s].source
               copy == UNION {{<<k, r, logs[c][k][r]>> : r \in DOMAIN logs[c][k]} : k \in Key}
    <2>1. c \in Server
      BY <1>7 DEF RecoverLogs, TypeOK
    <2>2. \A e \in copy : \E k \in Key : \E r \in DOMAIN logs[c][k] :
                             e = <<k, r, logs[c][k][r]>>
      OBVIOUS
    <2>3. boot' = [boot EXCEPT ![s].phase = "Install", ![s].entries = copy]
      BY <1>7 DEF RecoverLogs
    <2> HIDE DEF copy
    <2>4. /\ boot'[s].coordinators = boot[s].coordinators
          /\ boot'[s].values = boot[s].values /\ boot'[s].entries = copy
          /\ \A u \in Server \ {s} : boot'[u] = boot[u]
      BY <1>0, <2>3 DEF BootLocals
    <2> QED BY <2>1, <2>2, <2>4 DEF Copied
  <1>8. CASE InstallValue(s)
    <2>1. PICK e \in boot[s].values :
                boot' = [boot EXCEPT ![s] = [boot[s] EXCEPT !.values = boot[s].values \ {e}]]
      BY <1>0, <1>8 DEF InstallValue
    <2> QED BY <1>0, <1>1, <2>1 DEF BootLocals
  <1>9. CASE InstallLog(s)
    <2>1. PICK e \in boot[s].entries :
                boot' = [boot EXCEPT ![s] = [boot[s] EXCEPT !.entries = boot[s].entries \ {e}]]
      BY <1>0, <1>9 DEF InstallLog
    <2> QED BY <1>0, <1>1, <2>1 DEF BootLocals
  <1>10. CASE GetCoordinatorDone(s) \/ RecoverFails(s) \/ Recovered(s)
    BY <1>2, <1>10 DEF GetCoordinatorDone, RecoverFails, Recovered
  <1>11. CASE ElectionDone(s)
    BY <1>2, <1>11 DEF ElectionDone
  <1> QED BY <1>3, <1>4, <1>5, <1>6, <1>7, <1>8, <1>9, <1>10, <1>11 DEF Initialize

\* No step puts anything else into a copy.
LEMMA MoveCopies ==
    ASSUME LifeBasic, [LifeMove]_lifeVars, NEW s \in Server
    PROVE  Copied(s)
  <1>1. CASE boot'[s] = boot[s]
    BY <1>1 DEF Copied
  <1>2. ASSUME NEW t \in Server, Start(t), boot'[s] # boot[s]
        PROVE  Copied(s)
    <2>1. boot'[s] = [NotStarting EXCEPT !.phase = "GetCoordinator",
                                         !.number = starts + 1, !.todo = Server]
      BY <1>2 DEF Start, LifeBasic, LifeTypeOK
    <2>2. /\ boot'[s].coordinators = {} /\ boot'[s].values = {} /\ boot'[s].entries = {}
      BY <2>1 DEF NotStarting
    <2> QED BY <2>2 DEF Copied
  <1>3. ASSUME NEW t \in Server, Initialize(t), ~ AssertFails(t)
        PROVE  Copied(s)
    BY <1>1, <1>3, InitializeCopies
  <1>4. ASSUME NEW t \in Server, AssertFails(t) \/ CrashProcess(t)
        PROVE  Copied(s)
    <2>1. Die(t) /\ Ends(t)
      BY <1>4 DEF AssertFails, CrashProcess, Crash
    <2>2. CASE s = t
      <3>1. boot'[s] = NotStarting
        BY <2>1, <2>2, EndsBoot
      <3>2. /\ boot'[s].coordinators = {} /\ boot'[s].values = {} /\ boot'[s].entries = {}
        BY <3>1 DEF NotStarting
      <3> QED BY <3>2 DEF Copied
    <2>3. CASE boot'[s] = [boot[s] EXCEPT !.phase = "Failed"]
      <3>1. boot[s] \in BootLocals
        BY DEF LifeBasic, LifeTypeOK
      <3>2. /\ boot'[s].coordinators = boot[s].coordinators
            /\ boot'[s].values = boot[s].values /\ boot'[s].entries = boot[s].entries
        BY <2>3, <3>1 DEF BootLocals
      <3> QED BY <3>2 DEF Copied
    <2> QED BY <1>1, <2>1, <2>2, <2>3, EndsBoot
  <1>5. ASSUME NEW p \in Run, ArriveStep(p) \/ PaxosStep(p)
        PROVE  Copied(s)
    BY <1>1, <1>5 DEF ArriveStep, PaxosStep
  <1>6. CASE UNCHANGED lifeVars
    BY <1>1, <1>6 DEF lifeVars
  <1> QED BY <1>1, <1>2, <1>3, <1>4, <1>5, <1>6 DEF LifeMove

\* So what main's threads hold stays decided, or proposed.
LEMMA CopiesDecidedStep ==
    ASSUME LifeIInv, [LifeMove]_lifeVars
    PROVE  CopiesDecided'
  <1>0. Orderly /\ LifeBasic /\ PaxosOrMain
    BY LifeOrderly, MoveKinds DEF PaxosOrMain, lifeVars
  <1> SUFFICES ASSUME NEW s \in Server
               PROVE  /\ \A c \in boot'[s].coordinators : Decided(CoordinatorKey, CoordinatorIs(c))'
                      /\ \A e \in boot'[s].values : Decided(e[1], SetTo(e[2]))'
                      /\ \A e \in boot'[s].entries : HoldsProposal(e[1], e[2], e[3])'
    BY DEF CopiesDecided
  <1>1. Copied(s)
    BY <1>0, MoveCopies
  <1>2. ASSUME NEW c \in boot'[s].coordinators
        PROVE  Decided(CoordinatorKey, CoordinatorIs(c))'
    <2>1. Decided(CoordinatorKey, CoordinatorIs(c))
      BY <1>1 DEF Copied, LifeIInv, CopiesDecided, RecoveredWasChosen, Decided, CoordinatorIs
    <2> QED BY <1>0, <2>1, DecisionsStay
  <1>3. ASSUME NEW e \in boot'[s].values
        PROVE  Decided(e[1], SetTo(e[2]))'
    <2>1. Decided(e[1], SetTo(e[2]))
      <3>1. CASE e \in boot[s].values
        BY <3>1 DEF LifeIInv, CopiesDecided
      <3>2. ASSUME NEW u \in Server, NEW k \in Key, e = <<k, data[u][k]>>, data[u][k] # Nil
            PROVE  Decided(e[1], SetTo(e[2]))
        <4>1. e[1] = k /\ e[2] = data[u][k]
          BY <3>2
        <4>2. Decided(k, SetTo(data[u][k]))
          BY <3>2 DEF LifeIInv, RecoveredWasChosen, Decided, SetTo
        <4> QED BY <4>1, <4>2
      <3> QED BY <1>1, <3>1, <3>2 DEF Copied
    <2>2. PICK k, v : k = e[1] /\ v = e[2]
      OBVIOUS
    <2> QED BY <1>0, <2>1, <2>2, DecisionsStay
  <1>4. ASSUME NEW e \in boot'[s].entries
        PROVE  HoldsProposal(e[1], e[2], e[3])'
    <2>1. HoldsProposal(e[1], e[2], e[3])
      <3>1. CASE e \in boot[s].entries
        BY <3>1 DEF LifeIInv, CopiesDecided
      <3>2. ASSUME NEW u \in Server, NEW k \in Key, NEW r \in DOMAIN logs[u][k],
                   e = <<k, r, logs[u][k][r]>>
            PROVE  HoldsProposal(e[1], e[2], e[3])
        BY <3>2 DEF LifeIInv, LogsHoldProposals, HoldsProposal
      <3> QED BY <1>1, <3>1, <3>2 DEF Copied
    <2> QED BY <1>0, <2>1, CopiedLogsStay
  <1> QED BY <1>2, <1>3, <1>4

\* And what the replicas store and whom they follow stays decided.
LEMMA RecoveredStep ==
    ASSUME LifeIInv, PaxosOrMain
    PROVE  RecoveredWasChosen'
  <1>0. Orderly /\ LifeBasic
    BY LifeOrderly
  <1>1. ASSUME NEW s \in Server, NEW k \in Key, data[s][k] # Nil
        PROVE  Decided(k, SetTo(data[s][k]))
    BY <1>1 DEF LifeIInv, RecoveredWasChosen, Decided, SetTo
  <1>2. ASSUME NEW s \in Server, coordinator[s] # Nil
        PROVE  Decided(CoordinatorKey, CoordinatorIs(coordinator[s]))
    BY <1>2 DEF LifeIInv, RecoveredWasChosen, Decided, CoordinatorIs
  <1>3. ASSUME NEW s \in Server, NEW k \in Key, data'[s][k] # Nil
        PROVE  Decided(k, SetTo(data'[s][k]))
    <2>1. CASE [AnyStep]_vars
      BY <1>0, <1>1, <1>3, <2>1, PaxosStores
    <2>2. CASE data' = data
      BY <1>1, <1>3, <2>2
    <2>3. ASSUME NEW t \in Server, StoresCopy(t)
          PROVE  Decided(k, SetTo(data'[s][k]))
      <3>1. PICK e \in boot[t].values : data' = [data EXCEPT ![t] = SetValue(data[t], e[1], e[2])]
        BY <1>0, <2>3 DEF StoresCopy, LifeBasic, LifeTypeOK, TypeOK
      <3>2. Decided(e[1], SetTo(e[2]))
        BY DEF LifeIInv, CopiesDecided
      <3>3. data'[s][k] = data[s][k] \/ (k = e[1] /\ data'[s][k] = e[2])
        BY <1>0, <3>1 DEF SetValue, LifeBasic, LifeTypeOK, TypeOK
      <3> QED BY <1>1, <1>3, <3>2, <3>3
    <2> QED BY <2>1, <2>2, <2>3
            DEF PaxosOrMain, MainStep, CallFails, Joins, Follows, LogsCopy, serverVars
  <1>4. ASSUME NEW s \in Server, coordinator'[s] # Nil
        PROVE  Decided(CoordinatorKey, CoordinatorIs(coordinator'[s]))
    <2>1. CASE [AnyStep]_vars
      BY <1>0, <1>2, <1>4, <2>1, PaxosStores
    <2>2. CASE coordinator' = coordinator
      BY <1>2, <1>4, <2>2
    <2>3. ASSUME NEW t \in Server, Follows(t)
          PROVE  Decided(CoordinatorKey, CoordinatorIs(coordinator'[s]))
      <3>1. PICK c \in boot[t].coordinators : coordinator' = [coordinator EXCEPT ![t] = c]
        BY <2>3 DEF Follows
      <3>2. coordinator'[s] \in {coordinator[s], c}
        BY <1>0, <3>1 DEF LifeBasic, LifeTypeOK, TypeOK
      <3> QED BY <1>2, <1>4, <3>2 DEF LifeIInv, CopiesDecided
    <2> QED BY <2>1, <2>2, <2>3
            DEF PaxosOrMain, MainStep, CallFails, Joins, StoresCopy, LogsCopy, serverVars
  <1>5. ASSUME NEW s \in Server, NEW k \in Key, data'[s][k] # Nil
        PROVE  \E p \in Run : /\ Chosen(p)' /\ run'[p].key = k
                              /\ run'[p].proposal = [type |-> "SET", value |-> data'[s][k]]
    <2>1. PICK v : v = data'[s][k]
      OBVIOUS
    <2>2. Decided(k, SetTo(v))'
      BY <1>0, <1>3, <1>5, <2>1, DecisionsStay
    <2> QED BY <2>1, <2>2 DEF Decided, SetTo
  <1>6. ASSUME NEW s \in Server, coordinator'[s] # Nil
        PROVE  \E p \in Run : /\ Chosen(p)' /\ run'[p].key = CoordinatorKey
                              /\ run'[p].proposal = [type  |-> "SET_COORDINATOR",
                                                     value |-> coordinator'[s]]
    <2>1. PICK c : c = coordinator'[s]
      OBVIOUS
    <2>2. Decided(CoordinatorKey, CoordinatorIs(c))'
      BY <1>0, <1>4, <1>6, <2>1, DecisionsStay
    <2> QED BY <2>1, <2>2 DEF Decided, CoordinatorIs
  <1> QED BY <1>5, <1>6 DEF RecoveredWasChosen

-----------------------------------------------------------------------------
\* The invariant holds at the start,
LEMMA LifeIInvInit == LifeInit => LifeIInv
  <1> SUFFICES ASSUME LifeInit PROVE LifeIInv
    OBVIOUS
  <1>1. \A p \in Run : run[p] = NotStarted
    BY DEF LifeInit
  <1>2. RequestsFitKeys /\ RunsInOrder
    BY <1>1 DEF RequestsFitKeys, RunsInOrder, NotStarted, NothingAccepted, HasProposed,
                HasInstance
  <1>3. HandlersInOrder /\ LogsHoldProposals
    BY DEF LifeInit, HandlersInOrder, LogsHoldProposals, NoRounds
  <1>4. CopiesDecided
    BY DEF LifeInit, CopiesDecided, NotStarting
  <1>5. RecoveredWasChosen
    BY DEF LifeInit, RecoveredWasChosen
  <1> QED BY <1>2, <1>3, <1>4, <1>5, LifeBasicInit DEF LifeIInv, LifeBasic

\* every step keeps it,
LEMMA LifeIInvStep == LifeIInv /\ [LifeMove]_lifeVars => LifeIInv'
  <1> SUFFICES ASSUME LifeIInv, [LifeMove]_lifeVars PROVE LifeIInv'
    OBVIOUS
  <1>1. PaxosOrMain
    BY MoveKinds DEF PaxosOrMain, lifeVars
  <1>2. Orderly' /\ RecoveredWasChosen' /\ CopiesDecided'
    BY <1>1, LifeOrderlyStep, RecoveredStep, CopiesDecidedStep
  <1>3. LifeBasic'
    BY LifeOrderly, LifeBasicStep
  <1> QED BY <1>2, <1>3 DEF LifeIInv, LifeBasic, Orderly

\* so it holds however servers start, crash, recover and serve requests.
THEOREM RecoveryInvariant == LifeSpec => []LifeIInv
  <1>1. [LifeNext]_lifeVars => [LifeMove]_lifeVars
    BY LifeNextIsMove
  <1> QED BY <1>1, LifeIInvInit, LifeIInvStep, PTL DEF LifeSpec

\* Recovery brings nothing into a replica that was not decided: what a replica
\* stores, and whom it takes for the coordinator, a majority of some proposer's
\* live replicas had accepted, however the servers have crashed since.
THEOREM RecoveryIsDecided == LifeSpec => []RecoveredWasChosen
  <1>1. LifeIInv => RecoveredWasChosen
    BY DEF LifeIInv
  <1> QED BY <1>1, RecoveryInvariant, PTL

\* The logs that recovery installs, like those that acceptors write, hold only
\* what was proposed in the very round of the very key they are logged for.
THEOREM RestartsKeepProposals == LifeSpec => []AcceptedWasProposed
  BY LifeOrderly, OrderlyLogs, RecoveryInvariant, PTL

\* Restarts do not let the elections and the clients' keys mix: recovery stores
\* nothing under the key of the elections, and no election under a client's key.
THEOREM RestartsKeepElectionsApart == LifeSpec => []ElectionsStayApart
  <1>1. ASSUME LifeIInv PROVE ElectionsStayApart
    <2>0. Orderly
      BY <1>1, LifeOrderly
    <2>1. ASSUME NEW s \in Server PROVE data[s][CoordinatorKey] = Nil
      <3> SUFFICES ASSUME data[s][CoordinatorKey] # Nil PROVE FALSE
        OBVIOUS
      <3>1. CoordinatorKey \in Key
        BY DEF Key
      <3>2. PICK p \in Run :
               /\ Chosen(p) /\ run[p].key = CoordinatorKey
               /\ run[p].proposal = [type |-> "SET", value |-> data[s][CoordinatorKey]]
        BY <1>1, <3>1 DEF LifeIInv, RecoveredWasChosen
      <3>3. FitsKey(run[p].key, run[p].proposal)
        BY <2>0, <3>2, ChosenHasProposed, ProposalFitsKey
      <3> QED BY <3>2, <3>3 DEF FitsKey
    <2>2. ASSUME NEW s \in Server, NEW k \in Key, NEW r \in DOMAIN logs[s][k],
                 logs[s][k][r].accepted_id > 0
          PROVE  k = CoordinatorKey <=> logs[s][k][r].accepted_type = "SET_COORDINATOR"
      <3>1. PICK p \in Run :
               /\ run[p].key = k /\ HasProposed(p)
               /\ run[p].proposal = [type  |-> logs[s][k][r].accepted_type,
                                     value |-> logs[s][k][r].accepted_value]
        BY <1>1, <2>2 DEF LifeIInv, LogsHoldProposals
      <3> QED BY <2>0, <3>1, ProposalFitsKey DEF FitsKey
    <2> QED BY <2>1, <2>2 DEF ElectionsStayApart
  <1> QED BY <1>1, RecoveryInvariant, PTL
=============================================================================
