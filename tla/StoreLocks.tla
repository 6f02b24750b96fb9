----------------------------- MODULE StoreLocks -----------------------------
(***************************************************************************)
(* The locks of one server: which of its shared_mutexes the member         *)
(* functions of KeyValueDataBase and PaxosStubsMap hold while they use the *)
(* maps (kv-database.cc, paxos-stubs-map.cc), and the order in which the   *)
(* handlers of the services call them.  The other modules take each call   *)
(* for atomic; this one asks where it is.                                  *)
(***************************************************************************)
EXTENDS Naturals, Sequences

CONSTANTS
    Thread,   \* gRPC's threads: each serves one call after another
    Key,
    Round     \* the rounds of a key, other than 0

VARIABLES
    todo,     \* todo[t]: the accesses left of the handler that t executes
    held,     \* held[t]: how many of the locks of the first one t has taken
    present   \* elements of paxos_logs_map_: <<k, 0>> for key k, <<k, r>> for a round

vars == <<todo, held, present>>

Object == {"data_map_", "paxos_logs_map_", "stubs_", "coordinator_"}
Mutex == {"data_mtx_", "paxos_logs_mtx_", "stubs_mtx_", "coordinator_mtx_"}

-----------------------------------------------------------------------------
(* An access: the locks it is made under, the objects it reads and writes, *)
(* and the elements that operator[] inserts into the logs if they are      *)
(* missing.                                                                *)

Shared(m) == [mutex |-> m, exclusive |-> FALSE]
Exclusive(m) == [mutex |-> m, exclusive |-> TRUE]

Reads(locks, objects) == [locks |-> locks, reads |-> objects, writes |-> {}, elements |-> {}]
Writes(locks, object) == [locks |-> locks, reads |-> {}, writes |-> {object}, elements |-> {}]
LooksUp(lock, elements) ==
    [locks |-> <<lock>>, reads |-> {"paxos_logs_map_"}, writes |-> {}, elements |-> elements]
Logs(k, r) ==
    [locks |-> <<Exclusive("paxos_logs_mtx_")>>, reads |-> {}, writes |-> {"paxos_logs_map_"},
     elements |-> {<<k, 0>>, <<k, r>>}]

GetValue == Reads(<<Shared("data_mtx_")>>, {"data_map_"})
GetDataMap == GetValue
SetValue == Writes(<<Exclusive("data_mtx_")>>, "data_map_")
DeleteEntry == SetValue

GetPaxosLogKeys == Reads(<<Shared("paxos_logs_mtx_")>>, {"paxos_logs_map_"})
GetPaxosLogsMap == Reads(<<>>, {"paxos_logs_map_"})
GetLatestRound(k) == LooksUp(Shared("paxos_logs_mtx_"), {<<k, 0>>})
GetPaxosLog(k, r) == LooksUp(Shared("paxos_logs_mtx_"), {<<k, 0>>, <<k, r>>})
AddPaxosLog(k, r) == Logs(k, r)

GetPaxosStubs == Reads(<<Shared("stubs_mtx_")>>, {"stubs_"})
GetCoordinator == Reads(<<Shared("coordinator_mtx_")>>, {"coordinator_"})
GetCoordinatorStub == Reads(<<Shared("stubs_mtx_")>>, {"stubs_", "coordinator_"})
GetStub == Reads(<<Shared("coordinator_mtx_"), Shared("stubs_mtx_")>>, {"stubs_"})
IsStub == GetPaxosStubs
SetCoordinator == Writes(<<Exclusive("coordinator_mtx_")>>, "coordinator_")

-----------------------------------------------------------------------------
\* The accesses of a RunPaxos thread, of the handlers of the two services, and
\* of main's thread in Initialize.
RunPaxos(k) == <<GetLatestRound(k), GetPaxosStubs>>
Prepare(k, r) == <<AddPaxosLog(k, r), GetPaxosLog(k, r)>>
Propose(k, r) == {<<GetPaxosLog(k, r)>>, <<GetPaxosLog(k, r), AddPaxosLog(k, r)>>}
Inform(k, r) ==
    {<<AddPaxosLog(k, r), GetLatestRound(k)>>,
     <<AddPaxosLog(k, r), GetLatestRound(k), SetValue>>,
     <<AddPaxosLog(k, r), GetLatestRound(k), DeleteEntry>>,
     <<AddPaxosLog(k, r), GetLatestRound(k), IsStub, SetCoordinator>>}
Recover == <<GetDataMap, GetPaxosLogsMap>>
GetRecovery(k, r) ==
    <<GetCoordinatorStub, SetValue, AddPaxosLog(k, r), GetDataMap, GetPaxosLogKeys,
      GetLatestRound(k)>>
FindCoordinator ==
    {<<GetPaxosStubs, IsStub, SetCoordinator, GetCoordinatorStub>>,
     <<GetPaxosStubs, GetCoordinatorStub, GetStub>>}
RequestFlow == {<<GetCoordinatorStub>>, <<GetCoordinatorStub, GetStub, GetCoordinatorStub>>}

CallsOf(k, r) == {RunPaxos(k), Prepare(k, r), GetRecovery(k, r)} \cup Inform(k, r)
Calls ==
    (UNION {CallsOf(k, r) : k \in Key, r \in Round}) \cup FindCoordinator \cup RequestFlow
    \cup {Recover, <<GetValue>>, <<GetCoordinator>>}

\* A Propose follows the Prepare of its round.
Proposals == UNION {Propose(x[1], x[2]) : x \in present \cap (Key \X Round)}

-----------------------------------------------------------------------------
Init ==
    /\ todo = [t \in Thread |-> <<>>]
    /\ held = [t \in Thread |-> 0]
    /\ present = {}

\* The access that t is about to make, and the locks it holds for it.
Access(t) == Head(todo[t])
Holds(t, lock) ==
    todo[t] # <<>> /\ \E i \in 1..held[t] : Access(t).locks[i] = lock

\* A call arrives, or main's thread goes on.
Begin(t) ==
    /\ todo[t] = <<>>
    /\ \E call \in Calls \cup Proposals : todo' = [todo EXCEPT ![t] = call]
    /\ UNCHANGED <<held, present>>

\* A shared_mutex has several shared owners or one exclusive owner.
Lock(t) ==
    /\ todo[t] # <<>> /\ held[t] < Len(Access(t).locks)
    /\ LET lock == Access(t).locks[held[t] + 1] IN
       \A u \in Thread \ {t} :
          /\ ~ Holds(u, Exclusive(lock.mutex))
          /\ lock.exclusive => ~ Holds(u, Shared(lock.mutex))
    /\ held' = [held EXCEPT ![t] = @ + 1]
    /\ UNCHANGED <<todo, present>>

\* t is in the middle of its access to the object.
Uses(t, object) ==
    /\ todo[t] # <<>> /\ held[t] = Len(Access(t).locks)
    /\ object \in Access(t).reads \cup Access(t).writes

Changes(t, object) ==
    /\ Uses(t, object)
    /\ \/ object \in Access(t).writes
       \/ object = "paxos_logs_map_" /\ ~ (Access(t).elements \subseteq present)

\* The access ends, and the scope of its locks.
Leave(t) ==
    /\ todo[t] # <<>> /\ held[t] = Len(Access(t).locks)
    /\ present' = present \cup Access(t).elements
    /\ todo' = [todo EXCEPT ![t] = Tail(@)]
    /\ held' = [held EXCEPT ![t] = 0]

Next == \E t \in Thread : Begin(t) \/ Lock(t) \/ Leave(t)

Spec == Init /\ [][Next]_vars
-----------------------------------------------------------------------------
\* Two threads use the object at once and one of them changes it.
Race(object) ==
    \E t, u \in Thread : t # u /\ Changes(t, object) /\ Uses(u, object)

\* The data map and the map of the stubs are never in a data race: what
\* clients read and write, and the stubs every call is made with.
MapsAreGuarded == ~ Race("data_map_") /\ ~ Race("stubs_")

\* kv-database.h:27 and paxos-stubs-map.h:18, "Thread-safe.": no thread changes
\* a member while another one uses it.
ThreadSafe == \A object \in Object : ~ Race(object)

=============================================================================
