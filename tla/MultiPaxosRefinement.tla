------------------------ MODULE MultiPaxosRefinement ------------------------
(***************************************************************************)
(* With a single coordinator that is sent one request per key at a time,   *)
(* and with no call to a live replica failing, RunPaxos implements an      *)
(* atomic store: the database of the coordinator is the store, a request   *)
(* takes effect when the coordinator, as a learner, executes its proposal. *)
(***************************************************************************)
EXTENDS MultiPaxos

\* The one server that requests are sent to.
Leader == CHOOSE s \in Proposer : TRUE

ASSUME OneLeader == Proposer = {Leader}
ASSUME OnePerKey == MaxPerKey = 1 /\ MaxFaults = 0

StoreView ==
    [k \in Key |-> IF k = CoordinatorKey THEN coordinator[Leader] ELSE data[Leader][k]]

RequestState(p) ==
    IF Active(p) THEN IF p \in applied[Leader] THEN "Done" ELSE "Pending"
                 ELSE run[p].phase

RequestView ==
    [p \in Run |-> [state |-> RequestState(p), key |-> run[p].key, op |-> run[p].op]]

Store == INSTANCE SerialStore
            WITH Request <- Run, store <- StoreView, request <- RequestView

\* Every behaviour of RunPaxos under the assumptions above is one of the
\* atomic store: an OK put or delete has taken effect once, between request
\* and answer, with the requester's own operation; an aborted one never does.
ImplementsSerialStore == Store!Spec
=============================================================================
