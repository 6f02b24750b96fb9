------------------------- MODULE LifecycleInvariant -------------------------
(***************************************************************************)
(* The inductive strengthening of the safety properties of Lifecycle: what *)
(* Orderly of MultiPaxosProofs says of the runs, and that the copies which *)
(* main's threads hold between two steps of Initialize were decided, or    *)
(* proposed, before they were taken.                                       *)
(***************************************************************************)
EXTENDS Lifecycle, MultiPaxosInvariant

\* prop was accepted for k by a majority of some proposer's live replicas.
Decided(k, prop) ==
    \E p \in Run : Chosen(p) /\ run[p].key = k /\ run[p].proposal = prop

SetTo(v) == [type |-> "SET", value |-> v]
CoordinatorIs(c) == [type |-> "SET_COORDINATOR", value |-> c]

\* What log says was accepted was proposed in the instance of k and r.
HoldsProposal(k, r, log) ==
    log.accepted_id > 0 =>
        \E p \in Run : /\ run[p].key = k /\ run[p].round = r /\ HasProposed(p)
                       /\ run[p].proposal = [type  |-> log.accepted_type,
                                             value |-> log.accepted_value]

\* Whom the others named, and what a snapshot holds that is not yet installed.
CopiesDecided ==
    \A s \in Server :
        /\ \A c \in boot[s].coordinators : Decided(CoordinatorKey, CoordinatorIs(c))
        /\ \A e \in boot[s].values : Decided(e[1], SetTo(e[2]))
        /\ \A e \in boot[s].entries : HoldsProposal(e[1], e[2], e[3])

LifeIInv ==
    /\ LifeTypeOK
    /\ Begun
    /\ RequestsFitKeys
    /\ RunsInOrder
    /\ HandlersInOrder
    /\ LogsHoldProposals
    /\ CopiesDecided
    /\ RecoveredWasChosen
=============================================================================
