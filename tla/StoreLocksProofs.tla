-------------------------- MODULE StoreLocksProofs --------------------------
(***************************************************************************)
(* What the locks of a server do guarantee, for any number of threads,     *)
(* keys and rounds: the data map and the map of the stubs are never in a   *)
(* data race.                                                              *)
(***************************************************************************)
EXTENDS StoreLocks, SequenceTheorems, TLAPS

Locks == [mutex : Mutex, exclusive : BOOLEAN]

\* The accesses that keep to the discipline of the two maps.
Guarded ==
    {a \in [locks : Seq(Locks), reads : SUBSET Object, writes : SUBSET Object,
            elements : SUBSET (Key \X (Round \cup {0}))] :
        /\ "data_map_" \in a.writes => a.locks = <<Exclusive("data_mtx_")>>
        /\ "data_map_" \in a.reads => a.locks = <<Shared("data_mtx_")>>
        /\ "stubs_" \notin a.writes}

\* An exclusive owner of a mutex is its only one.
Exclusion ==
    \A t, u \in Thread, m \in Mutex :
        t # u /\ Holds(t, Exclusive(m)) => ~ Holds(u, Exclusive(m)) /\ ~ Holds(u, Shared(m))

LockInv ==
    /\ todo \in [Thread -> Seq(Guarded)]
    /\ held \in [Thread -> Nat]
    /\ \A t \in Thread : IF todo[t] = <<>> THEN held[t] = 0 ELSE held[t] <= Len(Access(t).locks)
    /\ Exclusion

-----------------------------------------------------------------------------
LEMMA IsGuarded ==
    ASSUME NEW locks \in Seq(Locks), NEW reads \in SUBSET Object, NEW writes \in SUBSET Object,
           NEW elements \in SUBSET (Key \X (Round \cup {0})),
           "data_map_" \in writes => locks = <<Exclusive("data_mtx_")>>,
           "data_map_" \in reads => locks = <<Shared("data_mtx_")>>,
           "stubs_" \notin writes
    PROVE  [locks |-> locks, reads |-> reads, writes |-> writes, elements |-> elements] \in Guarded
BY DEF Guarded

LEMMA LocksTyped ==
    ASSUME NEW m \in Mutex, NEW n \in Mutex
    PROVE  /\ <<>> \in Seq(Locks)
           /\ <<Shared(m)>> \in Seq(Locks)
           /\ <<Exclusive(m)>> \in Seq(Locks)
           /\ <<Shared(m), Shared(n)>> \in Seq(Locks)
BY DEF Shared, Exclusive, Locks

\* Every member function keeps to the discipline, whatever its arguments.
LEMMA MembersGuarded ==
    /\ GetValue \in Guarded /\ SetValue \in Guarded
    /\ GetPaxosLogKeys \in Guarded /\ GetPaxosLogsMap \in Guarded
    /\ GetPaxosStubs \in Guarded /\ GetCoordinator \in Guarded /\ SetCoordinator \in Guarded
    /\ GetCoordinatorStub \in Guarded /\ GetStub \in Guarded
<1>1. /\ {"data_map_"} \in SUBSET Object /\ {"stubs_"} \in SUBSET Object
      /\ {"paxos_logs_map_"} \in SUBSET Object /\ {"coordinator_"} \in SUBSET Object
      /\ {"stubs_", "coordinator_"} \in SUBSET Object /\ {} \in SUBSET Object
      /\ {} \in SUBSET (Key \X (Round \cup {0}))
  BY DEF Object
<1>2. GetValue \in Guarded
  <2>1. <<Shared("data_mtx_")>> \in Seq(Locks)
    BY LocksTyped DEF Mutex
  <2> QED
    BY <1>1, <2>1, IsGuarded DEF GetValue, Reads
<1>3. SetValue \in Guarded
  <2>1. <<Exclusive("data_mtx_")>> \in Seq(Locks)
    BY LocksTyped DEF Mutex
  <2> QED
    BY <1>1, <2>1, IsGuarded DEF SetValue, Writes
<1>4. GetPaxosLogKeys \in Guarded
  <2>1. <<Shared("paxos_logs_mtx_")>> \in Seq(Locks)
    BY LocksTyped DEF Mutex
  <2> QED
    BY <1>1, <2>1, IsGuarded DEF GetPaxosLogKeys, Reads
<1>5. GetPaxosLogsMap \in Guarded
  <2>1. <<>> \in Seq(Locks)
    BY LocksTyped DEF Mutex
  <2> QED
    BY <1>1, <2>1, IsGuarded DEF GetPaxosLogsMap, Reads
<1>6. GetPaxosStubs \in Guarded
  <2>1. <<Shared("stubs_mtx_")>> \in Seq(Locks)
    BY LocksTyped DEF Mutex
  <2> QED
    BY <1>1, <2>1, IsGuarded DEF GetPaxosStubs, Reads
<1>7. GetCoordinator \in Guarded
  <2>1. <<Shared("coordinator_mtx_")>> \in Seq(Locks)
    BY LocksTyped DEF Mutex
  <2> QED
    BY <1>1, <2>1, IsGuarded DEF GetCoordinator, Reads
<1>8. SetCoordinator \in Guarded
  <2>1. <<Exclusive("coordinator_mtx_")>> \in Seq(Locks)
    BY LocksTyped DEF Mutex
  <2> QED
    BY <1>1, <2>1, IsGuarded DEF SetCoordinator, Writes
<1>9. GetCoordinatorStub \in Guarded
  <2>1. <<Shared("stubs_mtx_")>> \in Seq(Locks)
    BY LocksTyped DEF Mutex
  <2> QED
    BY <1>1, <2>1, IsGuarded DEF GetCoordinatorStub, Reads
<1>10. GetStub \in Guarded
  <2>1. <<Shared("coordinator_mtx_"), Shared("stubs_mtx_")>> \in Seq(Locks)
    BY LocksTyped DEF Mutex
  <2> QED
    BY <1>1, <2>1, IsGuarded DEF GetStub, Reads
<1> QED
  BY <1>2, <1>3, <1>4, <1>5, <1>6, <1>7, <1>8, <1>9, <1>10

LEMMA LogMembersGuarded ==
    ASSUME NEW k \in Key, NEW r \in Round
    PROVE  /\ GetLatestRound(k) \in Guarded
           /\ GetPaxosLog(k, r) \in Guarded
           /\ AddPaxosLog(k, r) \in Guarded
<1>1. /\ {"paxos_logs_map_"} \in SUBSET Object /\ {} \in SUBSET Object
      /\ {<<k, 0>>} \in SUBSET (Key \X (Round \cup {0}))
      /\ {<<k, 0>>, <<k, r>>} \in SUBSET (Key \X (Round \cup {0}))
  BY DEF Object
<1>2. /\ <<Shared("paxos_logs_mtx_")>> \in Seq(Locks)
      /\ <<Exclusive("paxos_logs_mtx_")>> \in Seq(Locks)
  BY LocksTyped DEF Mutex
<1>3. GetLatestRound(k) \in Guarded
  BY <1>1, <1>2, IsGuarded DEF GetLatestRound, LooksUp
<1>4. GetPaxosLog(k, r) \in Guarded
  BY <1>1, <1>2, IsGuarded DEF GetPaxosLog, LooksUp
<1>5. AddPaxosLog(k, r) \in Guarded
  BY <1>1, <1>2, IsGuarded DEF AddPaxosLog, Logs
<1> QED
  BY <1>3, <1>4, <1>5

\* So does every handler, whatever it does.
LEMMA CallsGuarded ==
    Calls \cup Proposals \subseteq Seq(Guarded)
<1>1. GetDataMap \in Guarded /\ DeleteEntry \in Guarded /\ IsStub \in Guarded
  BY MembersGuarded DEF GetDataMap, DeleteEntry, IsStub
<1>2. ASSUME NEW k \in Key, NEW r \in Round
      PROVE  /\ RunPaxos(k) \in Seq(Guarded)
             /\ Prepare(k, r) \in Seq(Guarded)
             /\ GetRecovery(k, r) \in Seq(Guarded)
             /\ Propose(k, r) \subseteq Seq(Guarded)
             /\ Inform(k, r) \subseteq Seq(Guarded)
  <2>1. GetLatestRound(k) \in Guarded /\ GetPaxosLog(k, r) \in Guarded
        /\ AddPaxosLog(k, r) \in Guarded
    BY LogMembersGuarded
  <2>2. RunPaxos(k) \in Seq(Guarded) /\ Prepare(k, r) \in Seq(Guarded)
    BY <2>1, MembersGuarded DEF RunPaxos, Prepare
  <2>3. GetRecovery(k, r) \in Seq(Guarded)
    BY <2>1, <1>1, MembersGuarded DEF GetRecovery
  <2>4. Propose(k, r) \subseteq Seq(Guarded)
    BY <2>1 DEF Propose
  <2>5. Inform(k, r) \subseteq Seq(Guarded)
    BY <2>1, <1>1, MembersGuarded DEF Inform
  <2> QED
    BY <2>2, <2>3, <2>4, <2>5
<1>3. FindCoordinator \subseteq Seq(Guarded)
  BY <1>1, MembersGuarded DEF FindCoordinator
<1>4. RequestFlow \subseteq Seq(Guarded)
  BY <1>1, MembersGuarded DEF RequestFlow
<1>5. {Recover, <<GetValue>>, <<GetCoordinator>>} \subseteq Seq(Guarded)
  BY <1>1, MembersGuarded DEF Recover
<1>6. Proposals \subseteq Seq(Guarded)
  <2> SUFFICES ASSUME NEW x \in present \cap (Key \X Round)
               PROVE  Propose(x[1], x[2]) \subseteq Seq(Guarded)
    BY DEF Proposals
  <2> QED
    BY <1>2
<1>7. (UNION {CallsOf(k, r) : k \in Key, r \in Round}) \subseteq Seq(Guarded)
  <2> SUFFICES ASSUME NEW k \in Key, NEW r \in Round, NEW call \in CallsOf(k, r)
               PROVE  call \in Seq(Guarded)
    OBVIOUS
  <2> QED
    BY <1>2 DEF CallsOf
<1> QED
  <2> SUFFICES ASSUME NEW call \in Calls \cup Proposals
               PROVE  call \in Seq(Guarded)
    OBVIOUS
  <2>1. CASE call \in UNION {CallsOf(k, r) : k \in Key, r \in Round}
    BY <2>1, <1>7
  <2>2. CASE call \in FindCoordinator \cup RequestFlow \cup Proposals
    BY <2>2, <1>3, <1>4, <1>6
  <2>3. CASE call \in {Recover, <<GetValue>>, <<GetCoordinator>>}
    BY <2>3, <1>5
  <2> QED
    BY <2>1, <2>2, <2>3 DEF Calls

-----------------------------------------------------------------------------
LEMMA LockInvHolds == Init => LockInv
BY DEF Init, LockInv, Exclusion, Holds

\* A thread's turn leaves what the others hold.
LEMMA OthersHold ==
    ASSUME NEW t \in Thread, NEW u \in Thread, NEW lock, t # u,
           todo'[u] = todo[u], held'[u] = held[u]
    PROVE  Holds(u, lock)' = Holds(u, lock)
BY DEF Holds, Access

LEMMA BeginKeeps ==
    ASSUME LockInv, NEW t \in Thread, Begin(t)
    PROVE  LockInv'
<1>1. PICK call \in Seq(Guarded) : todo' = [todo EXCEPT ![t] = call]
  BY CallsGuarded DEF Begin
<1>2. /\ todo \in [Thread -> Seq(Guarded)] /\ held \in [Thread -> Nat] /\ held' = held
      /\ todo[t] = <<>> /\ held[t] = 0
  BY DEF LockInv, Begin
<1>3. todo' \in [Thread -> Seq(Guarded)] /\ held' \in [Thread -> Nat]
  BY <1>1, <1>2
<1>4. ASSUME NEW u \in Thread
      PROVE  IF todo'[u] = <<>> THEN held'[u] = 0 ELSE held'[u] <= Len(Access(u)'.locks)
  <2>1. CASE u = t
    <3>1. ASSUME todo'[t] # <<>>
          PROVE  Len(Access(t)'.locks) \in Nat
      <4>1. Head(todo'[t]) \in Guarded
        BY <1>3, <3>1, HeadTailProperties
      <4> QED
        BY <4>1, LenProperties DEF Guarded, Access
    <3> QED
      BY <1>2, <2>1, <3>1
  <2>2. CASE u # t
    BY <1>1, <1>2, <2>2 DEF LockInv, Access
  <2> QED
    BY <2>1, <2>2
<1>5. \A lock : ~ Holds(t, lock)'
  BY <1>2 DEF Holds
<1>6. \A lock : \A u \in Thread : u # t => Holds(u, lock)' = Holds(u, lock)
  BY <1>1, <1>2, OthersHold
<1>7. Exclusion'
  <2> SUFFICES ASSUME NEW u \in Thread, NEW v \in Thread, NEW m \in Mutex,
                      u # v, Holds(u, Exclusive(m))'
               PROVE  ~ Holds(v, Exclusive(m))' /\ ~ Holds(v, Shared(m))'
    BY DEF Exclusion
  <2>1. u # t /\ Holds(u, Exclusive(m))
    BY <1>5, <1>6
  <2>2. ~ Holds(v, Exclusive(m)) /\ ~ Holds(v, Shared(m))
    BY <2>1 DEF LockInv, Exclusion
  <2> QED
    BY <1>5, <1>6, <2>2
<1> QED
  BY <1>3, <1>4, <1>7, Zenon DEF LockInv

LEMMA LockKeeps ==
    ASSUME LockInv, NEW t \in Thread, Lock(t)
    PROVE  LockInv'
<1> DEFINE lock == Access(t).locks[held[t] + 1]
<1>1. /\ todo \in [Thread -> Seq(Guarded)] /\ held \in [Thread -> Nat]
      /\ todo' = todo /\ held' = [held EXCEPT ![t] = @ + 1]
      /\ todo[t] # <<>> /\ held[t] < Len(Access(t).locks)
  BY DEF LockInv, Lock
<1>2. Access(t) \in Guarded
  BY <1>1, HeadTailProperties DEF Access
<1>3. Len(Access(t).locks) \in Nat /\ lock \in Locks
  <2>1. Access(t).locks \in Seq(Locks) /\ held[t] \in Nat
    BY <1>1, <1>2 DEF Guarded
  <2> HIDE DEF Guarded
  <2> QED
    BY <1>1, <2>1, ElementOfSeq, LenProperties
<1>4. ASSUME NEW u \in Thread
      PROVE  IF todo'[u] = <<>> THEN held'[u] = 0 ELSE held'[u] <= Len(Access(u)'.locks)
  BY <1>1, <1>3 DEF LockInv, Access
<1>5. \A l : \A u \in Thread : u # t => Holds(u, l)' = Holds(u, l)
  BY <1>1, OthersHold
<1>6. \A l : Holds(t, l)' => Holds(t, l) \/ l = lock
  BY <1>1 DEF Holds, Access
<1>7. \A u \in Thread \ {t} : /\ ~ Holds(u, Exclusive(lock.mutex))
                              /\ lock.exclusive => ~ Holds(u, Shared(lock.mutex))
  BY DEF Lock
<1>8. Exclusion'
  <2> SUFFICES ASSUME NEW u \in Thread, NEW v \in Thread, NEW m \in Mutex,
                      u # v, Holds(u, Exclusive(m))'
               PROVE  ~ Holds(v, Exclusive(m))' /\ ~ Holds(v, Shared(m))'
    BY DEF Exclusion
  <2>1. /\ Exclusive(m).mutex = m /\ Exclusive(m).exclusive = TRUE
        /\ Shared(m).mutex = m /\ Shared(m).exclusive = FALSE
    BY DEF Exclusive, Shared
  <2>2. CASE u = t /\ Exclusive(m) = lock
    BY <1>5, <1>7, <2>1, <2>2
  <2>3. CASE u = t /\ Exclusive(m) # lock
    BY <1>5, <1>6, <2>3 DEF LockInv, Exclusion
  <2>4. CASE u # t /\ v = t
    <3>1. Holds(u, Exclusive(m))
      BY <1>5, <2>4
    <3>2. lock # Exclusive(m) /\ lock # Shared(m)
      BY <1>7, <2>1, <2>4, <3>1
    <3> QED
      BY <1>6, <2>4, <3>1, <3>2 DEF LockInv, Exclusion
  <2>5. CASE u # t /\ v # t
    BY <1>5, <2>5 DEF LockInv, Exclusion
  <2> QED
    BY <2>2, <2>3, <2>4, <2>5
<1> QED
  BY <1>1, <1>4, <1>8 DEF LockInv

LEMMA LeaveKeeps ==
    ASSUME LockInv, NEW t \in Thread, Leave(t)
    PROVE  LockInv'
<1>1. /\ todo \in [Thread -> Seq(Guarded)] /\ held \in [Thread -> Nat]
      /\ todo[t] # <<>>
      /\ todo' = [todo EXCEPT ![t] = Tail(@)] /\ held' = [held EXCEPT ![t] = 0]
  BY DEF LockInv, Leave
<1>2. todo' \in [Thread -> Seq(Guarded)] /\ held' \in [Thread -> Nat]
  BY <1>1, HeadTailProperties
<1>3. ASSUME NEW u \in Thread
      PROVE  IF todo'[u] = <<>> THEN held'[u] = 0 ELSE held'[u] <= Len(Access(u)'.locks)
  <2>1. CASE u = t
    <3>1. ASSUME todo'[t] # <<>>
          PROVE  Len(Access(t)'.locks) \in Nat
      <4>1. Head(todo'[t]) \in Guarded
        BY <1>2, <3>1, HeadTailProperties
      <4> QED
        BY <4>1, LenProperties DEF Guarded, Access
    <3> QED
      BY <1>1, <2>1, <3>1
  <2>2. CASE u # t
    BY <1>1, <2>2 DEF LockInv, Access
  <2> QED
    BY <2>1, <2>2
<1>4. \A lock : ~ Holds(t, lock)'
  BY <1>1 DEF Holds
<1>5. \A lock : \A u \in Thread : u # t => Holds(u, lock)' = Holds(u, lock)
  BY <1>1, OthersHold
<1>6. Exclusion'
  <2> SUFFICES ASSUME NEW u \in Thread, NEW v \in Thread, NEW m \in Mutex,
                      u # v, Holds(u, Exclusive(m))'
               PROVE  ~ Holds(v, Exclusive(m))' /\ ~ Holds(v, Shared(m))'
    BY DEF Exclusion
  <2>1. u # t /\ Holds(u, Exclusive(m))
    BY <1>4, <1>5
  <2>2. ~ Holds(v, Exclusive(m)) /\ ~ Holds(v, Shared(m))
    BY <2>1 DEF LockInv, Exclusion
  <2> QED
    BY <1>4, <1>5, <2>2
<1> QED
  BY <1>2, <1>3, <1>6, Zenon DEF LockInv

-----------------------------------------------------------------------------
\* A thread that uses the data map holds its mutex, exclusively if it writes.
LEMMA UsersHold ==
    ASSUME LockInv, NEW t \in Thread, Uses(t, "data_map_")
    PROVE  /\ Holds(t, Shared("data_mtx_")) \/ Holds(t, Exclusive("data_mtx_"))
           /\ Changes(t, "data_map_") => Holds(t, Exclusive("data_mtx_"))
<1>1. /\ todo \in [Thread -> Seq(Guarded)] /\ todo[t] # <<>>
      /\ held[t] = Len(Access(t).locks)
      /\ "data_map_" \in Access(t).reads \cup Access(t).writes
  BY DEF LockInv, Uses
<1>2. Access(t) \in Guarded
  BY <1>1, HeadTailProperties DEF Access
<1>3. ASSUME NEW lock, Access(t).locks = <<lock>>
      PROVE  Holds(t, lock)
  BY <1>1, <1>3 DEF Holds
<1>4. "data_map_" \in Access(t).writes => Holds(t, Exclusive("data_mtx_"))
  BY <1>2, <1>3 DEF Guarded
<1>5. "data_map_" \in Access(t).reads => Holds(t, Shared("data_mtx_"))
  BY <1>2, <1>3 DEF Guarded
<1> QED
  BY <1>1, <1>4, <1>5 DEF Changes

LEMMA GuardedMaps == LockInv => MapsAreGuarded
<1> SUFFICES ASSUME LockInv PROVE MapsAreGuarded
  OBVIOUS
<1>1. ASSUME NEW t \in Thread, NEW u \in Thread, t # u,
             Changes(t, "data_map_"), Uses(u, "data_map_")
      PROVE  FALSE
  <2>1. Holds(t, Exclusive("data_mtx_"))
    BY <1>1, UsersHold DEF Changes
  <2>2. Holds(u, Shared("data_mtx_")) \/ Holds(u, Exclusive("data_mtx_"))
    BY <1>1, UsersHold
  <2> QED
    BY <1>1, <2>1, <2>2 DEF LockInv, Exclusion, Mutex
<1>2. ASSUME NEW t \in Thread, Changes(t, "stubs_")
      PROVE  FALSE
  <2>1. /\ todo \in [Thread -> Seq(Guarded)] /\ todo[t] # <<>>
        /\ "stubs_" \in Access(t).writes
    BY <1>2 DEF LockInv, Changes, Uses
  <2>2. Access(t) \in Guarded
    BY <2>1, HeadTailProperties DEF Access
  <2> QED
    BY <2>1, <2>2 DEF Guarded
<1> QED
  BY <1>1, <1>2 DEF MapsAreGuarded, Race

\* Neither what clients read and write nor the stubs that calls are made with
\* is ever in a data race: the maps that kv-database.h:27 and
\* paxos-stubs-map.h:18 call thread-safe are, but for the logs.
THEOREM MapsNeverRace == Spec => []MapsAreGuarded
<1>1. ASSUME LockInv, [Next]_vars
      PROVE  LockInv'
  <2>1. CASE Next
    BY <1>1, <2>1, BeginKeeps, LockKeeps, LeaveKeeps DEF Next
  <2>2. CASE UNCHANGED vars
    BY <1>1, <2>2 DEF vars, LockInv, Exclusion, Holds, Access
  <2> QED
    BY <1>1, <2>1, <2>2
<1> QED
  BY <1>1, LockInvHolds, GuardedMaps, PTL DEF Spec

=============================================================================
