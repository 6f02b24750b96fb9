------------------------ MODULE MultiPaxosInvariant ------------------------
(***************************************************************************)
(* What every state of MultiPaxos satisfies besides its types: the         *)
(* inductive strengthening of its safety properties.  Each part says what  *)
(* one piece of state has to do with the others.                           *)
(***************************************************************************)
EXTENDS MultiPaxos

\* A request that was not refused has the key and the round of an instance.
HasInstance(p) == run[p].round > 0

\* Threads belong to requests that have begun, handlers to running servers.
Begun ==
    /\ \A p \in Run : run[p].phase = "Idle" => run[p] = NotStarted
    /\ \A p \in Run : run[p].phase # "Idle" =>
          run[p].key \in Key /\ (HasInstance(p) \/ run[p].phase = "ABORTED")
    /\ \A h \in handlers :
          h.at \in up /\ run[h.run].phase # "Idle" /\ HasInstance(h.run)

FitsKey(key, prop) == key = CoordinatorKey <=> prop.type = "SET_COORDINATOR"

\* Only elections use the key of the elections.
RequestsFitKeys ==
    \A p \in Run : HasInstance(p) =>
        run[p].op # NoProposal /\ FitsKey(run[p].key, run[p].op)

HasProposed(p) == run[p].proposal # NoProposal
Majority(votes, live) == 2 * Cardinality(votes) > Cardinality(live)

\* prop is the operation of a request in the instance of p.
Requested(p, prop) ==
    HasInstance(p) /\ \E q \in Run : SameInstance(p, q) /\ run[q].op = prop

\* How far a run has come determines what its locals hold.
RunsInOrder ==
    \A p \in Run :
        /\ run[p].best.id > 0 => Requested(p, run[p].best.prop)
        /\ HasProposed(p) => /\ Requested(p, run[p].proposal)
                             /\ Majority(run[p].promised, run[p].live)
        /\ run[p].phase \in {"Idle", "Ping", "Prepare"} =>
              ~ HasProposed(p) /\ run[p].accepted = {}
        /\ run[p].accepted # {} => HasProposed(p)
        /\ run[p].phase \in {"Propose", "Inform", "OK"} => HasProposed(p)
        /\ run[p].phase \in {"Inform", "OK"} => Chosen(p)

\* Acceptors act on proposals only, learners on chosen ones only.
HandlersInOrder ==
    \A h \in handlers :
        /\ h.step \in {"Propose", "accept"} => HasProposed(h.run)
        /\ h.step \in {"Inform", "check", "execute"} => Chosen(h.run)

\* What a log says was accepted is a proposal of its instance.
LogsHoldProposals ==
    \A s \in Server, k \in Key : \A r \in DOMAIN logs[s][k] :
        logs[s][k][r].accepted_id > 0 =>
            \E p \in Run : /\ run[p].key = k /\ run[p].round = r /\ HasProposed(p)
                           /\ run[p].proposal = [type  |-> logs[s][k][r].accepted_type,
                                                 value |-> logs[s][k][r].accepted_value]

\* The round of an instance is logged where its Prepare handler has got past
\* the first critical section; a running acceptor never forgets that it has
\* accepted in an instance.
Logged(p, s) == run[p].round \in DOMAIN logs[s][run[p].key]

AcceptorsRemember ==
    /\ \A h \in handlers : h.step = "promise" => Logged(h.run, h.at)
    /\ \A p \in Run : \A s \in run[p].accepted \cap up :
          Logged(p, s) /\ Log(p, s).accepted_id > 0

PriorReturned == \A q \in Run : \A p \in prior[q] : Returned(p)

\* Without failed calls, a live replica that its proposer no longer has to
\* inform has executed the proposal or knows a later round.
LearnersInformed ==
    faults = 0 =>
        \A p \in Run : run[p].phase = "Inform" =>
            \A s \in run[p].live \cap up : s \in run[p].todo \/ Settled(p, s)

\* Without failed calls, a running proposer finds itself live and has logged
\* the round of its own run once it has called itself.
ProposerLogs ==
    faults = 0 =>
        \A p \in Run : LET s == run[p].server IN
            HasInstance(p) /\ s \in up =>
                /\ run[p].phase = "Ping" => s \in run[p].live \cup run[p].todo
                /\ run[p].phase = "Prepare" =>
                      s \in run[p].live /\ (s \in run[p].todo \/ Logged(p, s))
                /\ run[p].phase \in {"Propose", "Inform", "OK", "ABORTED"} => Logged(p, s)

IInv ==
    /\ TypeOK
    /\ Begun
    /\ RequestsFitKeys
    /\ RunsInOrder
    /\ HandlersInOrder
    /\ LogsHoldProposals
    /\ AcceptorsRemember
    /\ PriorReturned
    /\ LearnersInformed
    /\ ProposerLogs
    /\ ExecutedWasChosen
    /\ LaterRunAdopts
    /\ FreshRound
    /\ InformedOrSuperseded
=============================================================================
