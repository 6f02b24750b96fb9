---------------------------- MODULE SerialStore ----------------------------
(***************************************************************************)
(* What clients are told about the store: one map, and requests that take  *)
(* effect on it atomically, at some moment between the request and its     *)
(* answer.  A request that is answered OK has taken effect exactly once; a *)
(* request that is answered ABORTED never does.  The map is kept in the    *)
(* memory of the server that serves it and is lost with it.                *)
(***************************************************************************)
CONSTANTS Key, Operation, Request, Nil

VARIABLES
    store,     \* store[k]: the value of key k, Nil if it has none
    request    \* request[p]: the state, key and operation of request p

vars == <<store, request>>

\* What a key holds after an operation on it.
Result(op) == IF op.type = "DELETE" THEN Nil ELSE op.value

To(p, from, to) ==
    /\ request[p].state = from
    /\ request' = [request EXCEPT ![p].state = to]

Init ==
    /\ store = [k \in Key |-> Nil]
    /\ \A p \in Request : request[p].state = "Idle"

Invoke(p, key, op) ==
    /\ request[p].state = "Idle"
    /\ \E answer \in {"Pending", "ABORTED"} :
          request' = [request EXCEPT ![p] = [state |-> answer, key |-> key, op |-> op]]
    /\ UNCHANGED store

TakeEffect(p) ==
    /\ To(p, "Pending", "Done")
    /\ store' = [store EXCEPT ![request[p].key] = Result(request[p].op)]

Answer(p) ==
    /\ To(p, "Done", "OK") \/ To(p, "Pending", "ABORTED")
    /\ UNCHANGED store

\* The serving process dies.
Stop ==
    /\ store' = [k \in Key |-> Nil]
    /\ request' = [p \in Request |->
                      IF request[p].state \in {"Pending", "Done"}
                      THEN [request[p] EXCEPT !.state = "Lost"]
                      ELSE request[p]]

Next ==
    \/ \E p \in Request :
          \/ \E key \in Key, op \in Operation : Invoke(p, key, op)
          \/ TakeEffect(p)
          \/ Answer(p)
    \/ Stop

Spec == Init /\ [][Next]_vars
=============================================================================
