----------------------- MODULE KVStoreServiceInvariant -----------------------
(***************************************************************************)
(* What every state satisfies while one client's requests are served and   *)
(* no server starts, no call fails and no deadline passes: the inductive   *)
(* strengthening of ReadsAreCurrent.  Replicas may differ, but none stores *)
(* or may still come to store what the client cannot expect to read; and   *)
(* a write that is alone is executed by all of them.                       *)
(***************************************************************************)
EXTENDS KVStoreService, LifecycleSerial

Steady ==
    /\ starts = 0 /\ faults = 0 /\ timeouts = 0
    /\ \A c, d \in Client : c = d

NobodyStarts == \A s \in Server : ~ Starting(s)

-----------------------------------------------------------------------------
(* Rounds *)

\* Rounds are given out one after the other, and only runs log them.
RoundsFollow ==
    /\ \A p \in Run : run[p].key \in DataKey /\ run[p].round > 1 =>
          \E o \in Run : run[o].key = run[p].key /\ run[o].round = run[p].round - 1
    /\ \A s \in Server, k \in DataKey : \A r \in DOMAIN logs[s][k] :
          \E o \in Run : run[o].key = k /\ run[o].round = r

\* Every replica that runs has logged the round of a run that has got through
\* its Prepare loop.
Prepared(p) == HasProposed(p) \/ (run[p].phase = "ABORTED" /\ HasInstance(p))

RoundsLogged ==
    \A p \in Run, s \in up :
        Prepared(p) \/ (run[p].phase = "Prepare" /\ s \notin run[p].todo) => Logged(p, s)

-----------------------------------------------------------------------------
(* Values *)

\* What was or will be answered to a read of k, if all goes as it may.
Possible(k) ==
    readable[k] \cup {flow[c].op.value :
                        c \in {d \in Client : Waiting(d) /\ flow[d].key = k /\ flow[d].op # Get}}

\* p has a thread left, its own or one of a handler.
Threads(p) == Active(p) \/ \E h \in handlers : h.run = p

\* What is stored under k, proposed or may yet be proposed has values of P.
ValuesWithin(k, P) ==
    /\ \A s \in up : data[s][k] \in P
    /\ \A x \in late : x.key = k => x.op.value \in P
    /\ \A p \in Run : run[p].key = k /\ Active(p) =>
          /\ run[p].op.value \in P
          /\ run[p].best.id > 0 => run[p].best.prop.value \in P
    /\ \A p, o \in Run : run[p].key = k /\ Threads(p) /\ SameInstance(o, p) /\ HasProposed(o) =>
          run[o].proposal.value \in P

ValuesPossible(k) == ValuesWithin(k, Possible(k))

-----------------------------------------------------------------------------
(* A write that is alone *)

Alone(c) ==
    Waiting(c) /\ flow[c].alone /\ flow[c].op # Get /\ flow[c].key \in DataKey

Calling(c) == flow[c].phase \in {"Forwarded", "ForwardedAgain"}

\* p was lost with its server while it served the request of c.
LostFor(c, p) ==
    /\ run[p].phase = "Lost"
    /\ flow[c].phase # "Forward"
    /\ flow[c].phase = "Forwarded" => p = flow[c].call
    /\ \A o \in Run : SameInstance(o, p) /\ HasProposed(o) => run[o].proposal = flow[c].op

\* Whatever is going on about the key is about this request.
Exclusive(c) ==
    /\ \A x \in late : x.key # flow[c].key
    /\ \A p \in Run : run[p].key = flow[c].key /\ Active(p) => Calling(c) /\ p = flow[c].call
    /\ \A h \in handlers : run[h.run].key = flow[c].key => Active(h.run) \/ LostFor(c, h.run)

\* Its run has the latest round, in which nobody has proposed anything else.
RoundIsLatest(p) ==
    /\ \A o \in Run : run[o].key = run[p].key => run[o].round <= run[p].round
    /\ \A o \in Run : SameInstance(o, p) /\ HasProposed(o) => o = p
    /\ run[p].best.id = 0
    /\ HasProposed(p) => run[p].proposal = run[p].op

\* Until it informs, nothing is stored that was not before; then all that were
\* told store what it writes.
AloneStores(c) ==
    LET p == flow[c].call
        k == flow[c].key
    IN
    /\ \/ flow[c].phase = "Forward"
       \/ flow[c].phase = "Forwarded" /\ run[p].phase \in {"Ping", "Prepare", "Propose", "ABORTED"}
       => \A s \in up : data[s][k] \in readable[k]
    /\ Calling(c) /\ run[p].phase \in {"Inform", "OK"} =>
          \A s \in up : \/ run[p].phase = "Inform" /\ s \in run[p].todo
                        \/ data[s][k] = flow[c].op.value

\* What holds of a write that is alone.
Unopposed(c) ==
    /\ Exclusive(c)
    /\ Calling(c) /\ Active(flow[c].call) => RoundIsLatest(flow[c].call)
    /\ AloneStores(c)

AloneWrites == \A c \in Client : Alone(c) /\ LostOnce(flow[c].key) => Unopposed(c)

-----------------------------------------------------------------------------
Orderliness ==
    /\ NobodyStarts
    /\ ServersServe
    /\ LiveFound
    /\ AcceptorsRemember
    /\ RoundsFollow
    /\ RoundsLogged
    /\ \A k \in DataKey : LostOnce(k) => ValuesPossible(k)
    /\ AloneWrites

ReadIInv ==
    /\ RequestsAreOperations
    /\ HandlersAwaited
    /\ Steady => Orderliness
    /\ Steady => ReadsAreCurrent
=============================================================================
