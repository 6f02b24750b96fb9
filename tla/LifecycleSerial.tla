-------------------------- MODULE LifecycleSerial --------------------------
(***************************************************************************)
(* What every state satisfies while servers start alone, a key is sent one *)
(* request at a time, no call fails and no server ends in the middle of a  *)
(* request: the inductive strengthening of FollowersCatchUp.  A server     *)
(* stores nothing until it installs the snapshot; the snapshot is what its *)
(* source still has; from then on the two are asked and told the same.     *)
(***************************************************************************)
EXTENDS LifecycleInvariant, MultiPaxosSerial

Calm ==
    /\ MaxPerKey = 1 /\ StartsAlone /\ faults = 0
    /\ \A p \in Run : run[p].phase # "Lost"

\* A proposer has found, or is still to call, every server that runs.
LiveFound ==
    \A p \in Run : Active(p) =>
        up \subseteq run[p].live \cup (IF run[p].phase = "Ping" THEN run[p].todo ELSE {})

\* A server that starts is the last one that did, and no client is served.
StartsAreAlone ==
    /\ \A s \in Server : boot[s].number <= starts
    /\ \A s \in Server : Starting(s) =>
          /\ boot[s].number = starts
          /\ \A t \in Server : Starting(t) => t = s
          /\ \A p \in Run : Active(p) => run[p].key = CoordinatorKey

BeforeInstall ==
    {"Off", "GetCoordinator", "Elect", "Electing", "GetRecovery", "Recover", "RecoverLogs"}

\* A server has nothing of the clients' before it installs a snapshot.
BlankBeforeInstall ==
    \A s \in Server : boot[s].phase \in BeforeInstall =>
        \A k \in DataKey : data[s][k] = Nil /\ DOMAIN logs[s][k] = {}

\* What c has under k, s has or is yet to install, and nothing else.
ValuesToInstall(s, c, k) ==
    /\ \A e \in boot[s].values : e[1] = k => e[2] = data[c][k]
    /\ data[s][k] = data[c][k] \/ <<k, data[c][k]>> \in boot[s].values

RoundsToInstall(s, c, k) ==
    DOMAIN logs[c][k] = DOMAIN logs[s][k] \cup {e[2] : e \in {x \in boot[s].entries : x[1] = k}}

SameUnder(k, s, c) == data[s][k] = data[c][k] /\ DOMAIN logs[s][k] = DOMAIN logs[c][k]

Late(p, s) == HasLaterRound(logs[s][run[p].key], run[p].round)

\* While p is at work, s and c differ by its round, until both are asked for a
\* promise, and by its operation, until both are told; if its round is not the
\* latest, neither executes it.
RunTogether(p, s, c) ==
    LET k == run[p].key
        r == run[p].round
        Told == IF run[p].phase = "Inform" THEN {s, c} \ run[p].todo ELSE {}
    IN
    /\ DOMAIN logs[s][k] \ {r} = DOMAIN logs[c][k] \ {r}
    /\ \A t \in {s, c} :
          /\ \/ run[p].phase \in {"Propose", "Inform"}
             \/ run[p].phase = "Prepare" /\ t \notin run[p].todo
             => Logged(p, t)
          /\ Handler(p, t, "promise") \in handlers => Logged(p, t)
          /\ Handler(p, t, "execute") \in handlers => ~ Late(p, t)
    /\ Late(p, s) \/ Told = {} => data[s][k] = data[c][k]
    /\ ~ Late(p, s) => \A t \in Told : data[t][k] = Outcome(run[p].proposal)

KeyTogether(k, s, c) ==
    /\ (\A p \in Run : run[p].key = k => ~ Active(p)) => SameUnder(k, s, c)
    /\ \A p \in Run : run[p].key = k /\ Active(p) => RunTogether(p, s, c)

Follow(s, c) ==
    \A k \in DataKey :
        /\ boot[s].phase \in {"RecoverLogs", "Install"} => ValuesToInstall(s, c, k)
        /\ boot[s].phase = "Install" => RoundsToInstall(s, c, k)
        /\ boot[s].phase = "Ready" => KeyTogether(k, s, c)

FollowersInStep ==
    Calm =>
        /\ LiveFound
        /\ StartsAreAlone
        /\ BlankBeforeInstall
        /\ \A s, c \in Server : RecoveredFrom(s, c) => Follow(s, c)

FollowIInv ==
    /\ RequestsAreOperations
    /\ OneActive
    /\ HandlersAwaited
    /\ FollowersInStep
=============================================================================
