-------------------------- MODULE MultiPaxosSerial --------------------------
(***************************************************************************)
(* What every state satisfies while no call fails and a key is sent one    *)
(* request at a time: the inductive strengthening of SettledReplicasAgree  *)
(* and of the refinement of the atomic store.  The replicas agree on a key *)
(* but for what the one request at work has not yet told all of them.      *)
(***************************************************************************)
EXTENDS MultiPaxosInvariant

OneAtATime == MaxPerKey = 1 /\ faults = 0

\* No server has died while it served a request for k.
Undisturbed(k) == \A p \in Run : run[p].key = k => run[p].phase # "Lost"

\* What s has under k: for the key of the elections, whom it follows.
Holds(s, k) == IF k = CoordinatorKey THEN coordinator[s] ELSE data[s][k]

\* What a replica has that has executed prop.
Outcome(prop) == IF prop.type = "DELETE" THEN Nil ELSE prop.value

RequestsAreOperations == \A p \in Run : run[p].phase # "Idle" => run[p].op \in Operation

\* A thread at work is one of a running server; it is lost with its server.
ServersServe ==
    \A p \in Run :
        /\ Active(p) => run[p].server \in up \cap Proposer
        /\ run[p].phase = "Lost" => run[p].server \in Proposer \ up

OneActive ==
    MaxPerKey = 1 =>
        \A p, q \in Run : Active(p) /\ Active(q) /\ run[p].key = run[q].key => p = q

\* p waits for the answer of this handler.
Awaited(p, s, step) ==
    \E phase \in DOMAIN LaterSteps : Calls(p, phase, s) /\ step \in LaterSteps[phase]

\* Without failed calls, a handler works for a thread that waits for it, or
\* that is lost; it is in one place at a time.
HandlersAwaited ==
    faults = 0 =>
        /\ \A h \in handlers : run[h.run].phase = "Lost" \/ Awaited(h.run, h.at, h.step)
        /\ \A g, h \in handlers :
              g.run = h.run /\ g.at = h.at /\ run[g.run].phase # "Lost" => g = h

\* Without failed calls, a learner has executed a proposal only if the proposer
\* has called it, once it informs.
AppliedWhenInformed ==
    faults = 0 =>
        \A s \in up : \A p \in applied[s] :
            \/ run[p].phase \in {"OK", "Lost"}
            \/ run[p].phase = "Inform" /\ s \notin run[p].todo

\* The rounds that the replicas have logged while p is at work: the same ones,
\* and that of p, the latest, where p has asked for a promise.
RoundsInStep(p) ==
    LET k == run[p].key
        r == run[p].round
    IN
    /\ \A s \in up : \A x \in DOMAIN logs[s][k] : x <= r
    /\ \A s \in up : r \in DOMAIN logs[s][k] => run[p].phase # "Ping"
    /\ \A s \in up :
          run[p].phase \in {"Propose", "Inform"} \/ (run[p].phase = "Prepare" /\ s \notin run[p].todo)
          => r \in DOMAIN logs[s][k]
    /\ \A s, t \in up : DOMAIN logs[s][k] \ {r} = DOMAIN logs[t][k] \ {r}

\* What they hold meanwhile: the same, but for the learners already informed.
ValuesInStep(p) ==
    LET k == run[p].key
        Told == IF run[p].phase = "Inform" THEN up \ run[p].todo ELSE {}
    IN
    /\ \A s \in Told : p \in applied[s] /\ Holds(s, k) = Outcome(run[p].proposal)
    /\ \A s, t \in up \ Told : Holds(s, k) = Holds(t, k)

InStep(p) ==
    /\ up \subseteq run[p].live \cup (IF run[p].phase = "Ping" THEN run[p].todo ELSE {})
    /\ RoundsInStep(p)
    /\ ValuesInStep(p)
    /\ \A q \in Run : SameInstance(p, q) => q = p
    /\ run[p].best.id = 0
    /\ HasProposed(p) => run[p].proposal = run[p].op

Agree(k) ==
    \A s, t \in up : DOMAIN logs[s][k] = DOMAIN logs[t][k] /\ Holds(s, k) = Holds(t, k)

KeyInStep(k) ==
    /\ \A p \in Run : run[p].key = k /\ Active(p) => InStep(p)
    /\ \A p \in Run : run[p].key = k /\ HasInstance(p) /\ ~ Active(p) =>
          \A s \in up : Logged(p, s)
    /\ (\A p \in Run : run[p].key = k => ~ Active(p)) => Agree(k)

ReplicasInStep == OneAtATime => \A k \in Key : Undisturbed(k) => KeyInStep(k)

SerialIInv ==
    /\ RequestsAreOperations
    /\ ServersServe
    /\ OneActive
    /\ HandlersAwaited
    /\ AppliedWhenInformed
    /\ ReplicasInStep
=============================================================================
