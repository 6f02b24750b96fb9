----------------------- MODULE MultiPaxosSerialProofs -----------------------
(***************************************************************************)
(* Proofs about requests that are served one at a time per key while no    *)
(* call fails: the replicas that run agree on a key whenever no request    *)
(* for it is at work (ReplicasAgree).  The inductive invariant SerialIInv  *)
(* follows the one request at work from loop to loop: which rounds the     *)
(* replicas have logged, and which learners it has told.                   *)
(***************************************************************************)
EXTENDS MultiPaxosOutcome, MultiPaxosSerial

USE DEF ProposeId, HasInstance

-----------------------------------------------------------------------------
(* The threads of requests *)

\* A thread that has begun keeps its request, and one that has ended its locals.
LEMMA RunStays ==
    ASSUME Basic, [AnyStep]_vars, NEW p \in Run, run[p].phase # "Idle"
    PROVE  /\ SameRequest(p, run'[p]) /\ run'[p].phase # "Idle"
           /\ ~ Active(p) => run'[p] = run[p]
  <1>1. ~ Begins(p)
    <2>1. ASSUME NEW s, NEW key, NEW op, NEW phase, NEW round, NEW todo,
                 BeginsRight(p, s, key, op, phase, round, todo)
          PROVE  FALSE
      BY <2>1 DEF BeginsRight, Begin
    <2> QED BY <2>1 DEF Begins
  <1>2. Change(p, run'[p])
    BY <1>1, NextChange
  <1>3. /\ GivesUpCall(p, run'[p]) => Active(p) /\ run'[p].phase \in Working
        /\ Pinged(p, run'[p]) => Active(p) /\ run'[p].phase \in Working
        /\ \A s : PromisedBy(p, run'[p], s) => Active(p) /\ run'[p].phase \in Working
        /\ \A s : AcceptedBy(p, run'[p], s) => Active(p) /\ run'[p].phase \in Working
    BY DEF GivesUpCall, Pinged, PromisedBy, AcceptedBy, PastCalled, Calls, Active, Working
  <1>4. /\ Advances(p, run'[p]) => Active(p) /\ run'[p].phase # "Idle"
        /\ IsLost(p, run'[p]) => Active(p) /\ run'[p].phase # "Idle"
    BY DEF Advances, IsLost, Active, Working
  <1> QED BY <1>2, <1>3, <1>4 DEF Change, SameRequest, Working

\* A request that begins.
LEMMA BeginsIn ==
    ASSUME Basic, NEW p \in Run, Arrive(p)
    PROVE  \E s \in Server, key \in Key, op \in Proposal, phase \in {"Ping", "ABORTED"},
              round \in Nat, todo \in SUBSET Server :
              /\ BeginsRight(p, s, key, op, phase, round, todo)
              /\ run'[p] = [NotStarted EXCEPT !.phase = phase, !.server = s, !.key = key,
                               !.op = op, !.round = round, !.todo = todo]
              /\ \A q \in Run \ {p} : run'[q] = run[q]
  <1>1. PICK s \in Server, key \in Key, op \in Proposal, phase \in {"Ping", "ABORTED"},
             round \in Nat, todo \in SUBSET Server :
             BeginsRight(p, s, key, op, phase, round, todo)
    BY ArriveBegins DEF Basic
  <1>2. run' = [run EXCEPT ![p] = [NotStarted EXCEPT !.phase = phase, !.server = s, !.key = key,
                                      !.op = op, !.round = round, !.todo = todo]]
    BY <1>1 DEF BeginsRight, Begin
  <1>3. run \in [Run -> RunLocals]
    BY DEF Basic, TypeOK
  <1> QED BY <1>1, <1>2, <1>3

\* What requests ask for stays.
LEMMA OperationsStep ==
    ASSUME Basic, RequestsAreOperations, [AnyStep]_vars
    PROVE  RequestsAreOperations'
  <1> SUFFICES ASSUME NEW p \in Run, run'[p].phase # "Idle" PROVE run'[p].op \in Operation
    BY DEF RequestsAreOperations
  <1>1. CASE run[p].phase # "Idle"
    BY <1>1, RunStays DEF RequestsAreOperations, SameRequest
  <1>2. CASE Begins(p)
    BY <1>2 DEF Begins, BeginsRight, Begin, NotStarted, Basic, TypeOK
  <1>3. CASE run[p].phase = "Idle" /\ Change(p, run'[p])
    BY <1>3 DEF Change, GivesUpCall, Pinged, Advances, IsLost, PromisedBy, AcceptedBy,
                PastCalled, Calls, Active, Working
  <1> QED BY <1>1, <1>2, <1>3, NextChange

\* A thread is lost only with its server.
LEMMA LostByDeath ==
    ASSUME Basic, AnyStep, NEW p \in Run, run'[p].phase = "Lost", run[p].phase # "Lost"
    PROVE  \E s \in Server : Die(s) /\ run[p].server = s /\ Active(p)
  <1>0. run \in [Run -> RunLocals]
    BY DEF Basic, TypeOK
  <1>1. run'[p] # run[p]
    OBVIOUS
  <1>2. ASSUME NEW s \in Server, Die(s)
        PROVE  run[p].server = s /\ Active(p)
    BY <1>1, <1>2 DEF Die, RunsOf
  <1>3. \A s : PastCall(p, s).phase = run[p].phase /\ Promised(p, s).phase = run[p].phase
    BY PastCallKeeps, PromisedKeeps DEF Basic
  <1>4. ASSUME NEW s \in Server, Serve(p, s)
        PROVE  FALSE
    <2>1. [PastCall(p, s) EXCEPT !.accepted = @ \cup {s}].phase = run[p].phase
      BY <1>0 DEF PastCall, RunLocals
    <2>2. CASE PrepareBegin(p, s) \/ InformBegin(p, s)
      BY <1>1, <2>2 DEF PrepareBegin, InformBegin
    <2>3. ASSUME NEW phase, NEW locals, Answer(p, phase, s, locals), locals.phase = run[p].phase
          PROVE  FALSE
      BY <1>0, <2>3 DEF Answer
    <2>4. CASE PrepareEnd(p, s)
      BY <1>3, <2>3, <2>4 DEF PrepareEnd
    <2>5. CASE ProposeBegin(p, s) \/ InformCheck(p, s) \/ InformEnd(p, s)
      BY <1>1, <1>3, <2>3, <2>5 DEF ProposeBegin, InformCheck, InformEnd
    <2>6. CASE ProposeEnd(p, s)
      BY <2>1, <2>3, <2>6 DEF ProposeEnd
    <2> QED BY <1>4, <2>2, <2>4, <2>5, <2>6 DEF Serve
  <1>5. ASSUME Proceed(p)
        PROVE  FALSE
    <2>1. ASSUME NEW s \in Server, Ping(p, s) \/ Unreachable(p, s)
          PROVE  FALSE
      <3>1. [PastCall(p, s) EXCEPT !.live = @ \cup {s}].phase = run[p].phase
        BY <1>0 DEF PastCall, RunLocals
      <3> QED BY <1>0, <1>3, <2>1, <3>1 DEF Ping, Unreachable
    <2>2. CASE PingDone(p) \/ InformDone(p)
      BY <1>0, <2>2 DEF PingDone, InformDone, RunLocals
    <2>3. CASE PrepareDone(p) \/ ProposeDone(p)
      <3>1. run'[p].phase \in {"Propose", "Inform", "ABORTED"}
        <4>1. /\ [run[p] EXCEPT !.phase = "ABORTED"].phase = "ABORTED"
              /\ [run[p] EXCEPT !.phase = "Inform", !.todo = run[p].live].phase = "Inform"
              /\ \A prop : [run[p] EXCEPT !.phase = "Propose", !.todo = run[p].live,
                                          !.proposal = prop].phase = "Propose"
          BY <1>0 DEF RunLocals
        <4> QED BY <1>0, <2>3, <4>1 DEF PrepareDone, ProposeDone
      <3> QED BY <3>1
    <2> QED BY <1>5, <2>1, <2>2, <2>3 DEF Proceed
  <1>6. ASSUME NEW s \in Server, DeadlineExceeded(p, s)
        PROVE  FALSE
    BY <1>0, <1>3, <1>6 DEF DeadlineExceeded
  <1>7. ASSUME Arrive(p)
        PROVE  FALSE
    BY <1>7, BeginsIn DEF NotStarted
  <1>8. ASSUME NEW q \in Run, q # p,
               Arrive(q) \/ Proceed(q) \/ (\E s \in Server : Serve(q, s) \/ DeadlineExceeded(q, s))
        PROVE  FALSE
    BY <1>1, <1>8, OtherRuns
  <1> QED BY <1>2, <1>4, <1>5, <1>6, <1>7, <1>8 DEF AnyStep

\* Threads at work have their server, lost ones do not.
LEMMA ServersServeStep ==
    ASSUME Basic, ServersServe, [AnyStep]_vars
    PROVE  ServersServe'
  <1>0. up' \subseteq up /\ run \in [Run -> RunLocals] /\ up \subseteq Server
    BY UpShrinks DEF Basic, TypeOK
  <1> SUFFICES ASSUME NEW p \in Run
               PROVE  /\ Active(p)' => run'[p].server \in up' \cap Proposer
                      /\ run'[p].phase = "Lost" => run'[p].server \in Proposer \ up'
    BY DEF ServersServe
  <1>1. CASE run[p].phase = "Idle" /\ run'[p].phase # "Idle"
    <2>1. Arrive(p)
      <3>1. run'[p] # run[p]
        BY <1>1
      <3>2. ~ Proceed(p) /\ \A s \in Server : ~ Serve(p, s) /\ ~ DeadlineExceeded(p, s)
        BY <1>1, ProceedChange, ServeRight, DeadlineChange DEF Active, Working
      <3>3. ASSUME NEW s \in Server, Die(s) PROVE FALSE
        BY <1>1, <3>1, <3>3 DEF Die, RunsOf, Active, Working
      <3>4. ~ UNCHANGED vars
        BY <3>1 DEF vars
      <3> QED BY <3>1, <3>2, <3>3, <3>4, OtherRuns DEF AnyStep
    <2>2. UNCHANGED up
      BY <2>1, QuietSteps DEF serverVars
    <2>3. run'[p].server \in up \cap Proposer /\ run'[p].phase # "Lost"
      <3>1. PICK s \in Server, key \in Key, op \in Proposal, phase \in {"Ping", "ABORTED"},
                 round \in Nat, todo \in SUBSET Server :
                 /\ BeginsRight(p, s, key, op, phase, round, todo)
                 /\ run'[p] = [NotStarted EXCEPT !.phase = phase, !.server = s, !.key = key,
                                  !.op = op, !.round = round, !.todo = todo]
                 /\ \A q \in Run \ {p} : run'[q] = run[q]
        BY <2>1, BeginsIn
      <3>2. s \in up \cap Proposer
        BY <3>1 DEF BeginsRight, Begin
      <3>3. run'[p].server = s /\ run'[p].phase = phase
        BY <3>1 DEF NotStarted
      <3> QED BY <3>2, <3>3
    <2> QED BY <2>2, <2>3
  <1>2. CASE run[p].phase = "Idle" /\ run'[p].phase = "Idle"
    BY <1>2 DEF Active, Working
  <1>3. CASE run[p].phase # "Idle"
    <2>1. run'[p].server = run[p].server /\ (~ Active(p) => run'[p] = run[p])
      BY <1>3, RunStays DEF SameRequest
    <2>2. CASE run'[p].phase = "Lost"
      <3>1. CASE run[p].phase = "Lost"
        BY <1>0, <2>1, <2>2, <3>1 DEF ServersServe, Active, Working
      <3>2. CASE run[p].phase # "Lost"
        <4>1. AnyStep
          BY <2>2, <3>2 DEF vars
        <4>2. PICK s \in Server : Die(s) /\ run[p].server = s /\ Active(p)
          BY <2>2, <3>2, <4>1, LostByDeath
        <4>3. run[p].server \notin up'
          BY <4>2 DEF Die
        <4> QED BY <2>1, <2>2, <4>2, <4>3 DEF ServersServe, Active, Working
      <3> QED BY <3>1, <3>2
    <2>3. CASE Active(p)'
      <3>1. Active(p)
        BY <2>1, <2>3 DEF Active
      <3>2. run[p].server \in up \cap Proposer
        BY <3>1 DEF ServersServe
      <3>3. run[p].server \in up'
        <4>1. CASE \E s \in Server : Die(s)
          <5>1. PICK s \in Server : Die(s)
            BY <4>1
          <5>2. p \in RunsOf(s) => run'[p].phase = "Lost"
            BY <1>0, <5>1 DEF Die, RunLocals
          <5>3. run[p].server # s
            BY <2>3, <3>1, <5>2 DEF RunsOf, Active, Working
          <5> QED BY <3>2, <5>1, <5>3 DEF Die
        <4>2. CASE ~ \E s \in Server : Die(s)
          <5>1. up' = up
            BY <4>2, ServeData, QuietSteps DEF AnyStep, DeadlineExceeded, vars, serverVars
          <5> QED BY <3>2, <5>1
        <4> QED BY <4>1, <4>2
      <3> QED BY <2>1, <2>3, <3>2, <3>3 DEF Active, Working
    <2> QED BY <2>2, <2>3
  <1> QED BY <1>1, <1>2, <1>3

\* A request that begins finds no other one of its key at work.
LEMMA BeginsAlone ==
    ASSUME Basic, OneActive, MaxPerKey = 1, NEW p \in Run, NEW s, NEW key, NEW op, NEW phase,
           NEW round, NEW todo, Begin(p, s, key, op, phase, round, todo),
           NEW q \in Run, run[q].key = key
    PROVE  ~ Active(q)
  <1> SUFFICES ASSUME Active(q) PROVE FALSE
    OBVIOUS
  <1>1. {x \in Run : Active(x) /\ run[x].key = key} = {q}
    BY DEF OneActive
  <1>2. Cardinality({q}) = 1
    BY FS_Singleton
  <1>3. Cardinality({x \in Run : Active(x) /\ run[x].key = key}) < MaxPerKey
    BY DEF Begin
  <1> QED BY <1>1, <1>2, <1>3

\* So there is never more than one.
LEMMA OneActiveStep ==
    ASSUME Basic, OneActive, [AnyStep]_vars
    PROVE  OneActive'
  <1> SUFFICES ASSUME MaxPerKey = 1, NEW p \in Run, NEW q \in Run, Active(p)', Active(q)',
                      run'[p].key = run'[q].key, p # q
               PROVE  FALSE
    BY DEF OneActive
  <1>1. ASSUME NEW x \in Run, run[x].phase # "Idle", Active(x)'
        PROVE  Active(x) /\ run'[x].key = run[x].key
    BY <1>1, RunStays DEF Active, SameRequest
  <1>2. ASSUME NEW x \in Run, NEW y \in Run, x # y, run[x].phase = "Idle",
               Active(x)', Active(y)', run'[x].key = run'[y].key
        PROVE  FALSE
    <2>1. Begins(x)
      BY <1>2, NextChange DEF Change, GivesUpCall, Pinged, Advances, IsLost, PromisedBy,
                              AcceptedBy, PastCalled, Calls, Active, Working
    <2>2. PICK s \in Server, key \in Key, op \in Proposal, phase \in {"Ping", "ABORTED"},
               round \in Nat, todo \in SUBSET Server : Begin(x, s, key, op, phase, round, todo)
      BY <2>1 DEF Begins, BeginsRight
    <2>3. run'[y] = run[y] /\ run'[x].key = key
      BY <1>2, <2>2 DEF Begin, Basic, TypeOK, NotStarted
    <2>4. Active(y) /\ run[y].key = key
      BY <1>2, <2>3 DEF Active
    <2> QED BY <2>2, <2>4, BeginsAlone
  <1>3. run[p].phase # "Idle" /\ run[q].phase # "Idle"
    BY <1>2
  <1> QED BY <1>1, <1>3 DEF OneActive
-----------------------------------------------------------------------------
(* The handlers and their callers *)

\* A thread waits for one call.
LEMMA OneCall ==
    ASSUME Basic, NEW p \in Run, NEW phase \in Working, NEW s, Calls(p, phase, s),
           NEW other \in Working, NEW t, Calls(p, other, t)
    PROVE  s = t /\ phase = other
  <1>1. s \in Nat /\ t \in Nat
    BY CallsRight, ServerAssumption
  <1>2. s <= t /\ t <= s
    BY DEF Calls
  <1> QED BY <1>1, <1>2 DEF Calls

\* The steps after which a caller has its answer.
LEMMA LaterStepsAre ==
    /\ DOMAIN LaterSteps = {"Prepare", "Propose", "Inform"}
    /\ LaterSteps["Prepare"] = {"promise"}
    /\ LaterSteps["Propose"] = {"accept"}
    /\ LaterSteps["Inform"] = {"check", "execute"}
  BY DEF LaterSteps

\* A handler works for a thread that waits for it.
LEMMA HandlerAwaited ==
    ASSUME Basic, HandlersAwaited, faults = 0, NEW p \in Run, run[p].phase # "Lost",
           NEW s, NEW step, Handler(p, s, step) \in handlers
    PROVE  /\ step = "promise" => Calls(p, "Prepare", s)
           /\ step = "accept" => Calls(p, "Propose", s)
           /\ step \in {"check", "execute"} => Calls(p, "Inform", s)
           /\ step \notin {"Prepare", "Propose", "Inform"}
           /\ \A h \in handlers : h.run = p /\ h.at = s => h = Handler(p, s, step)
  <1>1. /\ Handler(p, s, step).run = p /\ Handler(p, s, step).at = s
        /\ Handler(p, s, step).step = step
    BY DEF Handler
  <1>2. Awaited(p, s, step)
    BY <1>1 DEF HandlersAwaited
  <1>3. \A h \in handlers : h.run = p /\ h.at = s => h = Handler(p, s, step)
    BY <1>1 DEF HandlersAwaited
  <1> QED BY <1>2, <1>3, LaterStepsAre DEF Awaited

\* A handler that starts does so for a thread that waits, and is the only one.
LEMMA StartsAwaited ==
    ASSUME Basic, HandlersAwaited, faults = 0, NEW p \in Run, run[p].phase # "Lost",
           NEW phase \in {"Prepare", "Propose", "Inform"}, NEW s, Starts(p, phase, s)
    PROVE  /\ Calls(p, phase, s)
           /\ \A h \in handlers : ~ (h.run = p /\ h.at = s)
  <1>1. Calls(p, phase, s) /\ \A step \in LaterSteps[phase] : Handler(p, s, step) \notin handlers
    BY HandlerAwaited DEF Starts
  <1>2. ASSUME NEW h \in handlers, h.run = p, h.at = s
        PROVE  FALSE
    <2>1. PICK other \in {"Prepare", "Propose", "Inform"} :
             Calls(p, other, s) /\ h.step \in LaterSteps[other]
      BY <1>2, LaterStepsAre DEF HandlersAwaited, Awaited
    <2>2. other = phase
      BY <1>1, <2>1 DEF Calls
    <2>3. h = Handler(p, s, h.step)
      BY <1>2 DEF Basic, TypeOK, HandlerThread, Handler
    <2> QED BY <1>1, <2>1, <2>2, <2>3
  <1> QED BY <1>1, <1>2

\* So every step of a handler answers, or goes towards answering, such a thread.
LEMMA ServeAwaited ==
    ASSUME Basic, HandlersAwaited, faults = 0, NEW p \in Run, run[p].phase # "Lost",
           NEW s \in Server, Serve(p, s)
    PROVE  /\ PrepareBegin(p, s) \/ PrepareEnd(p, s) => Calls(p, "Prepare", s)
           /\ ProposeBegin(p, s) \/ ProposeEnd(p, s) => Calls(p, "Propose", s)
           /\ InformBegin(p, s) \/ InformCheck(p, s) \/ InformEnd(p, s) => Calls(p, "Inform", s)
           /\ \E phase \in {"Prepare", "Propose", "Inform"} : Calls(p, phase, s)
  <1>1. PrepareBegin(p, s) \/ PrepareEnd(p, s) => Calls(p, "Prepare", s)
    BY StartsAwaited, HandlerAwaited DEF PrepareBegin, PrepareEnd
  <1>2. ProposeBegin(p, s) \/ ProposeEnd(p, s) => Calls(p, "Propose", s)
    BY StartsAwaited, HandlerAwaited DEF ProposeBegin, ProposeEnd
  <1>3. InformBegin(p, s) \/ InformCheck(p, s) \/ InformEnd(p, s) => Calls(p, "Inform", s)
    BY StartsAwaited, HandlerAwaited DEF InformBegin, InformCheck, InformEnd
  <1> QED BY <1>1, <1>2, <1>3 DEF Serve

\* The handlers of a call after a step of it are those the step moves to.
LEMMA MovedOnly ==
    ASSUME NEW p \in Run, NEW s \in Server, NEW from, NEW to, handlers' = Moved(p, s, from, to),
           \A h \in handlers : h.run = p /\ h.at = s => h = Handler(p, s, from),
           NEW h \in handlers', h.run = p, h.at = s
    PROVE  \E step \in to : h = Handler(p, s, step) /\ h.step = step
  BY DEF Moved, Handler

\* The next step of a handler has a caller that waits for it, too.
LEMMA ServeStaysAwaited ==
    ASSUME Basic, HandlersAwaited, faults = 0, NEW p \in Run, run[p].phase # "Lost",
           NEW s \in Server, Serve(p, s), NEW h \in handlers', h.run = p, h.at = s
    PROVE  /\ Awaited(p, s, h.step)'
           /\ \A g \in handlers' : g.run = p /\ g.at = s => g = h
  <1> DEFINE Goal == /\ Awaited(p, s, h.step)'
                     /\ \A g \in handlers' : g.run = p /\ g.at = s => g = h
  <1>1. ASSUME NEW from, NEW next, handlers' = Moved(p, s, from, {next}),
               \A g \in handlers : g.run = p /\ g.at = s => g = Handler(p, s, from)
        PROVE  /\ h.step = next
               /\ \A g \in handlers' : g.run = p /\ g.at = s => g = h
    <2>1. \A g \in handlers' : g.run = p /\ g.at = s => g = Handler(p, s, next) /\ g.step = next
      BY <1>1, MovedOnly
    <2> QED BY <2>1
  <1>2. ASSUME NEW from, handlers' = Moved(p, s, from, {}),
               \A g \in handlers : g.run = p /\ g.at = s => g = Handler(p, s, from)
        PROVE  FALSE
    BY <1>2, MovedOnly
  <1>3. CASE PrepareBegin(p, s)
    <2>1. Calls(p, "Prepare", s) /\ \A g \in handlers : ~ (g.run = p /\ g.at = s)
      BY <1>3, StartsAwaited DEF PrepareBegin
    <2>2. run' = run /\ handlers' = Moved(p, s, "Prepare", {"promise"})
      BY <1>3 DEF PrepareBegin
    <2> QED BY <1>1, <2>1, <2>2, LaterStepsAre DEF Awaited, Calls
  <1>4. CASE PrepareEnd(p, s)
    BY <1>2, <1>4, HandlerAwaited DEF PrepareEnd
  <1>5. CASE ProposeBegin(p, s)
    <2>1. Calls(p, "Propose", s) /\ \A g \in handlers : ~ (g.run = p /\ g.at = s)
      BY <1>5, StartsAwaited DEF ProposeBegin
    <2>2. run' = run /\ handlers' = Moved(p, s, "Propose", {"accept"})
      BY <1>2, <1>5, <2>1 DEF ProposeBegin
    <2> QED BY <1>1, <2>1, <2>2, LaterStepsAre DEF Awaited, Calls
  <1>6. CASE ProposeEnd(p, s)
    BY <1>2, <1>6, HandlerAwaited DEF ProposeEnd
  <1>7. CASE InformBegin(p, s)
    <2>1. Calls(p, "Inform", s) /\ \A g \in handlers : ~ (g.run = p /\ g.at = s)
      BY <1>7, StartsAwaited DEF InformBegin
    <2>2. run' = run /\ handlers' = Moved(p, s, "Inform", {"check"})
      BY <1>7 DEF InformBegin
    <2> QED BY <1>1, <2>1, <2>2, LaterStepsAre DEF Awaited, Calls
  <1>8. CASE InformCheck(p, s)
    <2>1. /\ Calls(p, "Inform", s)
          /\ \A g \in handlers : g.run = p /\ g.at = s => g = Handler(p, s, "check")
      BY <1>8, HandlerAwaited DEF InformCheck
    <2>2. run' = run /\ handlers' = Moved(p, s, "check", {"execute"})
      BY <1>2, <1>8, <2>1 DEF InformCheck
    <2> QED BY <1>1, <2>1, <2>2, LaterStepsAre DEF Awaited, Calls
  <1>9. CASE InformEnd(p, s)
    BY <1>2, <1>9, HandlerAwaited DEF InformEnd
  <1> QED BY <1>3, <1>4, <1>5, <1>6, <1>7, <1>8, <1>9 DEF Serve

\* A step of another thread or of another of its calls leaves a caller waiting.
LEMMA StaysAwaited ==
    ASSUME Basic, HandlersAwaited, [AnyStep]_vars, faults' = 0, NEW h \in handlers,
           h \in handlers', run'[h.run].phase # "Lost",
           ~ Serve(h.run, h.at)
    PROVE  Awaited(h.run, h.at, h.step)'
  <1>0. /\ run \in [Run -> RunLocals] /\ h.run \in Run /\ h.at \in up /\ h.at \in Server
        /\ run[h.run].phase # "Idle" /\ faults = 0
    BY NoFaultsBefore DEF Basic, TypeOK, Begun, HandlerThread
  <1> DEFINE p == h.run
             s == h.at
  <1>1. run[p].phase # "Lost"
    BY <1>0, RunStays DEF Active, Working
  <1>2. PICK phase \in {"Prepare", "Propose", "Inform"} :
           Calls(p, phase, s) /\ h.step \in LaterSteps[phase]
    BY <1>0, <1>1, LaterStepsAre DEF HandlersAwaited, Awaited
  <1> SUFFICES run'[p] = run[p]
    <2>1. ASSUME run'[p] = run[p] PROVE Calls(p, phase, s)'
      BY <2>1, <1>2 DEF Calls
    <2> QED BY <2>1, <1>2, LaterStepsAre DEF Awaited
  <1>3. ASSUME NEW q \in Run, q # p,
               Arrive(q) \/ Proceed(q) \/ (\E t \in Server : Serve(q, t) \/ DeadlineExceeded(q, t))
        PROVE  run'[p] = run[p]
    BY <1>0, <1>3, OtherRuns
  <1>4. ~ Arrive(p)
    BY <1>0, ArrivalIsNew DEF Basic
  <1>5. ~ Proceed(p)
    <2>1. run[p].phase = phase /\ s \in run[p].todo
      BY <1>2 DEF Calls
    <2>2. ~ (PingDone(p) \/ PrepareDone(p) \/ ProposeDone(p) \/ InformDone(p))
      BY <2>1 DEF PingDone, PrepareDone, ProposeDone, InformDone
    <2>3. ASSUME NEW t \in Server, Ping(p, t) \/ Unreachable(p, t) PROVE FALSE
      <3>1. ~ Ping(p, t)
        BY <2>1 DEF Ping, Calls
      <3>2. PICK other \in Working : Calls(p, other, t) /\ t \notin up
        BY <2>3, <3>1 DEF Unreachable
      <3> QED BY <1>0, <1>2, <3>2, OneCall DEF Working
    <2> QED BY <2>2, <2>3 DEF Proceed
  <1>6. ASSUME NEW t \in Server, Serve(p, t) PROVE FALSE
    <2>1. PICK other \in {"Prepare", "Propose", "Inform"} : Calls(p, other, t)
      BY <1>0, <1>1, <1>6, ServeAwaited
    <2>2. t = s
      BY <1>0, <1>2, <2>1, OneCall DEF Working
    <2> QED BY <1>6, <2>2
  <1>7. ASSUME NEW q \in Run, NEW t \in Server, DeadlineExceeded(q, t) PROVE FALSE
    BY <1>0, <1>7 DEF DeadlineExceeded
  <1>8. ASSUME NEW t \in Server, Die(t)
        PROVE  run'[p] = run[p]
    <2>1. p \notin RunsOf(t)
      <3>1. p \in RunsOf(t) => run'[p].phase = "Lost"
        BY <1>0, <1>8 DEF Die, RunLocals
      <3> QED BY <3>1
    <2> QED BY <1>0, <1>8, <2>1 DEF Die
  <1>9. CASE UNCHANGED vars
    BY <1>9 DEF vars
  <1> QED BY <1>3, <1>4, <1>5, <1>6, <1>7, <1>8, <1>9 DEF AnyStep

\* Handlers stay awaited.
LEMMA HandlersAwaitedStep ==
    ASSUME Basic, HandlersAwaited, [AnyStep]_vars
    PROVE  HandlersAwaited'
  <1> SUFFICES ASSUME faults' = 0, NEW h \in handlers', run'[h.run].phase # "Lost"
               PROVE  /\ Awaited(h.run, h.at, h.step)'
                      /\ \A g \in handlers' : g.run = h.run /\ g.at = h.at => g = h
    BY DEF HandlersAwaited
  <1>0. faults = 0 /\ h \in HandlerThread /\ h.run \in Run /\ h.at \in Server
    BY NoFaultsBefore, BasicStep DEF Basic, TypeOK, HandlerThread
  <1>1. CASE Serve(h.run, h.at)
    <2>1. run[h.run].phase # "Lost"
      BY <1>0, RunStays DEF Active, Working
    <2> QED BY <1>0, <1>1, <2>1, ServeStaysAwaited
  <1>2. ASSUME ~ Serve(h.run, h.at), NEW g \in handlers', g.run = h.run, g.at = h.at
        PROVE  g \in handlers
    <2>1. ASSUME NEW q \in Run, NEW t \in Server, Serve(q, t)
          PROVE  g \in handlers
      <3>1. g \in handlers \/ (g.run = q /\ g.at = t)
        BY <2>1, ServeHandlers
      <3> QED BY <1>2, <2>1, <3>1
    <2>2. ASSUME NEW q \in Run, Arrive(q) \/ Proceed(q)
          PROVE  g \in handlers
      BY <2>2, QuietSteps
    <2>3. ASSUME NEW q \in Run, NEW t \in Server, DeadlineExceeded(q, t) PROVE FALSE
      BY <1>0, <2>3 DEF DeadlineExceeded
    <2>4. ASSUME NEW t \in Server, Die(t)
          PROVE  g \in handlers
      <3>1. PICK late \in SUBSET CallsOf(t) : handlers' = {x \in handlers \cup late : x.at # t}
        BY <2>4 DEF Die
      <3>2. ASSUME g \in late PROVE FALSE
        <4>1. PICK q \in RunsOf(t), u \in Server : g \in Unstarted(q, u)
          BY <3>1, <3>2 DEF CallsOf
        <4>2. g.run = q
          BY <4>1 DEF Unstarted, Handler
        <4>3. run'[q].phase = "Lost"
          BY <2>4, <4>1 DEF Die, RunsOf, Basic, TypeOK, RunLocals
        <4> QED BY <1>2, <4>2, <4>3
      <3> QED BY <3>1, <3>2
    <2>5. CASE UNCHANGED vars
      BY <2>5 DEF vars
    <2> QED BY <2>1, <2>2, <2>3, <2>4, <2>5 DEF AnyStep
  <1>3. CASE ~ Serve(h.run, h.at)
    <2>1. h \in handlers /\ \A g \in handlers' : g.run = h.run /\ g.at = h.at => g \in handlers
      BY <1>2, <1>3
    <2>2. run[h.run].phase # "Lost"
      BY <1>0, <2>1, RunStays DEF Active, Working, Basic, Begun
    <2>3. Awaited(h.run, h.at, h.step)'
      BY <1>3, <2>1, StaysAwaited
    <2> QED BY <1>0, <2>1, <2>2, <2>3 DEF HandlersAwaited
  <1> QED BY <1>1, <1>3

\* A replica executes a proposal in one step only.
LEMMA ExecutesBy ==
    ASSUME Basic, [AnyStep]_vars, NEW p \in Run, NEW s \in Server, p \in applied'[s],
           p \notin applied[s]
    PROVE  InformEnd(p, s)
  <1>0. applied \in [Server -> SUBSET Run]
    BY DEF Basic, TypeOK
  <1>1. ASSUME NEW q \in Run, NEW t \in Server, Serve(q, t)
        PROVE  InformEnd(p, s)
    <2>1. CASE InformEnd(q, t)
      <3>1. p = q /\ s = t
        BY <1>0, <2>1 DEF InformEnd
      <3> QED BY <2>1, <3>1
    <2>2. CASE ~ InformEnd(q, t)
      BY <1>1, <2>2 DEF Serve, PrepareBegin, PrepareEnd, ProposeBegin, ProposeEnd, InformBegin,
                        InformCheck
    <2> QED BY <2>1, <2>2
  <1>2. ASSUME NEW q \in Run, Arrive(q) \/ Proceed(q) PROVE FALSE
    BY <1>2, QuietSteps
  <1>3. ASSUME NEW q \in Run, NEW t \in Server, DeadlineExceeded(q, t) PROVE FALSE
    BY <1>3 DEF DeadlineExceeded
  <1>4. ASSUME NEW t \in Server, Die(t) PROVE FALSE
    BY <1>0, <1>4 DEF Die
  <1>5. CASE UNCHANGED vars
    BY <1>5 DEF vars
  <1> QED BY <1>1, <1>2, <1>3, <1>4, <1>5 DEF AnyStep

\* What is executed has been informed of.
LEMMA AppliedWhenInformedStep ==
    ASSUME Basic, HandlersAwaited, AppliedWhenInformed, [AnyStep]_vars
    PROVE  AppliedWhenInformed'
  <1> SUFFICES ASSUME faults' = 0, NEW s \in up', NEW p \in applied'[s]
               PROVE  \/ run'[p].phase \in {"OK", "Lost"}
                      \/ run'[p].phase = "Inform" /\ s \notin run'[p].todo
    BY DEF AppliedWhenInformed
  <1>0. faults = 0 /\ s \in up /\ s \in Server /\ p \in Run /\ run \in [Run -> RunLocals]
    BY NoFaultsBefore, UpShrinks, BasicStep DEF Basic, TypeOK
  <1>1. CASE p \in applied[s]
    <2>1. \/ run[p].phase \in {"OK", "Lost"}
          \/ run[p].phase = "Inform" /\ s \notin run[p].todo
      BY <1>0, <1>1 DEF AppliedWhenInformed
    <2>2. ~ Active(p) => run'[p] = run[p]
      BY <1>0, <2>1, RunStays
    <2>3. CASE run[p].phase = "Inform" /\ s \notin run[p].todo
      <3>1. ~ Begins(p)
        <4>1. ASSUME NEW t, NEW key, NEW op, NEW phase, NEW round, NEW todo,
                     BeginsRight(p, t, key, op, phase, round, todo)
              PROVE  FALSE
          BY <2>3, <4>1 DEF BeginsRight, Begin
        <4> QED BY <4>1 DEF Begins
      <3>2. Change(p, run'[p])
        BY <1>0, <3>1, NextChange
      <3>3. CASE GivesUpCall(p, run'[p])
        BY <2>3, <3>3 DEF GivesUpCall, PastCalled, Calls
      <3>4. CASE Advances(p, run'[p]) \/ IsLost(p, run'[p])
        BY <2>3, <3>4 DEF Advances, IsLost
      <3>5. ~ Pinged(p, run'[p]) /\ \A t : ~ PromisedBy(p, run'[p], t) /\ ~ AcceptedBy(p, run'[p], t)
        BY <2>3 DEF Pinged, PromisedBy, AcceptedBy, PastCalled, Calls
      <3> QED BY <2>3, <3>2, <3>3, <3>4, <3>5 DEF Change
    <2> QED BY <2>1, <2>2, <2>3 DEF Active, Working
  <1>2. CASE p \notin applied[s]
    <2>1. InformEnd(p, s)
      BY <1>0, <1>2, ExecutesBy
    <2>2. run[p].phase # "Idle"
      BY <1>0, <2>1, ServeRight DEF Serve
    <2>3. CASE run[p].phase = "Lost"
      BY <1>0, <2>2, <2>3, RunStays DEF Active, Working
    <2>4. CASE run[p].phase # "Lost"
      <3>1. Calls(p, "Inform", s)
        BY <1>0, <2>1, <2>4, ServeAwaited DEF Serve
      <3>2. run'[p] = PastCall(p, s) /\ run[p].phase = "Inform"
        BY <1>0, <2>1, <3>1 DEF InformEnd, Answer, Calls
      <3>3. PastCall(p, s).phase = run[p].phase /\ PastCall(p, s).todo = run[p].todo \ {s}
        BY <1>0 DEF PastCall, RunLocals
      <3> QED BY <3>2, <3>3
    <2> QED BY <2>3, <2>4
  <1> QED BY <1>1, <1>2
-----------------------------------------------------------------------------
(* The replicas keep in step on a key *)

\* p is at work in an instance of k, or has been.
Concerns(p, k) == run[p].key = k /\ (Active(p) \/ HasInstance(p))

\* A step that touches neither the requests for k nor what replicas have under k.
LEMMA KeyFrame ==
    ASSUME Basic, NEW k \in Key, KeyInStep(k), up' \subseteq up,
           \A p \in Run : run'[p] = run[p] \/ (~ Concerns(p, k) /\ ~ Concerns(p, k)'),
           \A t \in up' : /\ DOMAIN logs'[t][k] = DOMAIN logs[t][k]
                          /\ Holds(t, k)' = Holds(t, k)
                          /\ applied[t] \subseteq applied'[t]
    PROVE  KeyInStep(k)'
  <1>1. ASSUME NEW p \in Run, run'[p].key = k, Active(p)'
        PROVE  InStep(p)'
    <2>1. run'[p] = run[p]
      BY <1>1 DEF Concerns
    <2>2. run[p].key = k /\ Active(p)
      BY <1>1, <2>1 DEF Active
    <2>3. InStep(p)
      BY <2>2 DEF KeyInStep
    <2>4. run[p].round > 0
      BY <2>2, ActiveBegun
    <2>5. RoundsInStep(p)'
      BY <2>1, <2>2, <2>3 DEF InStep, RoundsInStep
    <2>6. ValuesInStep(p)'
      BY <2>1, <2>2, <2>3 DEF InStep, ValuesInStep
    <2>7. ASSUME NEW q \in Run, SameInstance(p, q)' PROVE q = p
      <3>1. Concerns(q, k)'
        BY <2>1, <2>2, <2>4, <2>7 DEF Concerns, SameInstance
      <3>2. run'[q] = run[q]
        BY <3>1
      <3>3. SameInstance(p, q)
        BY <2>1, <2>7, <3>2 DEF SameInstance
      <3> QED BY <2>3, <3>3 DEF InStep
    <2>8. /\ up' \subseteq run'[p].live \cup (IF run'[p].phase = "Ping" THEN run'[p].todo ELSE {})
          /\ run'[p].best.id = 0
          /\ HasProposed(p)' => run'[p].proposal = run'[p].op
      BY <2>1, <2>3 DEF InStep, HasProposed
    <2> QED BY <2>5, <2>6, <2>7, <2>8 DEF InStep
  <1>2. ASSUME NEW p \in Run, run'[p].key = k, HasInstance(p)', ~ Active(p)', NEW s \in up'
        PROVE  Logged(p, s)'
    <2>1. run'[p] = run[p]
      BY <1>2 DEF Concerns
    <2>2. Logged(p, s)
      BY <1>2, <2>1 DEF KeyInStep, Active
    <2> QED BY <1>2, <2>1, <2>2 DEF Logged
  <1>3. ASSUME \A p \in Run : run'[p].key = k => ~ Active(p)'
        PROVE  Agree(k)'
    <2>1. ASSUME NEW p \in Run, run[p].key = k, Active(p)
          PROVE  FALSE
      <3>1. run'[p] = run[p]
        BY <2>1 DEF Concerns
      <3> QED BY <1>3, <2>1, <3>1 DEF Active
    <2>2. Agree(k)
      BY <2>1 DEF KeyInStep
    <2> QED BY <2>2 DEF Agree
  <1> QED BY <1>1, <1>2, <1>3 DEF KeyInStep

\* A step of the one request q at work on k.
LEMMA WorkerFrame ==
    ASSUME Basic, OneActive, MaxPerKey = 1, NEW k \in Key, KeyInStep(k), up' = up,
           NEW q \in Run, run[q].key = k, Active(q), SameRequest(q, run'[q]),
           \A p \in Run \ {q} : run'[p] = run[p],
           \A t \in up : DOMAIN logs[t][k] \subseteq DOMAIN logs'[t][k],
           Active(q)' => InStep(q)',
           ~ Active(q)' => Agree(k)' /\ \A t \in up : Logged(q, t)'
    PROVE  KeyInStep(k)'
  <1>1. \A p \in Run \ {q} : run[p].key = k => ~ Active(p)
    BY DEF OneActive
  <1>2. ASSUME NEW p \in Run, run'[p].key = k, Active(p)'
        PROVE  InStep(p)'
    BY <1>1, <1>2 DEF Active
  <1>3. ASSUME NEW p \in Run, run'[p].key = k, HasInstance(p)', ~ Active(p)', NEW t \in up'
        PROVE  Logged(p, t)'
    <2>1. CASE p = q
      BY <1>3, <2>1
    <2>2. CASE p # q
      <3>1. run'[p] = run[p]
        BY <2>2
      <3>2. Logged(p, t)
        BY <1>3, <3>1 DEF KeyInStep, Active
      <3> QED BY <1>3, <3>1, <3>2 DEF Logged
    <2> QED BY <2>1, <2>2
  <1>4. ASSUME \A p \in Run : run'[p].key = k => ~ Active(p)'
        PROVE  Agree(k)'
    BY <1>4 DEF SameRequest
  <1> QED BY <1>2, <1>3, <1>4 DEF KeyInStep

\* The instance of q stays its own.
LEMMA StaysAlone ==
    ASSUME NEW q \in Run, InStep(q), SameRequest(q, run'[q]),
           \A p \in Run \ {q} : run'[p] = run[p],
           NEW p \in Run, SameInstance(q, p)'
    PROVE  p = q
  BY DEF InStep, SameInstance, SameRequest
\* One request for k at a time, none of which has died with its server.
Served(k) ==
    /\ Remembering /\ OneAtATime /\ Undisturbed(k)
    /\ RequestsAreOperations /\ OneActive /\ HandlersAwaited
    /\ KeyInStep(k)

\* The loops of RunPaxos keep the replicas in step.
LEMMA ProceedInStep ==
    ASSUME NEW k \in Key, Served(k), NEW q \in Run, run[q].key = k, Proceed(q)
    PROVE  KeyInStep(k)'
  <1>0. /\ Basic /\ Active(q) /\ run \in [Run -> RunLocals] /\ run[q] \in RunLocals
        /\ up \subseteq Server /\ InStep(q) /\ MaxPerKey = 1 /\ OneActive
        /\ UNCHANGED <<up, logs, data, coordinator, applied>>
        /\ \A p \in Run \ {q} : run'[p] = run[p]
    <2>1. Basic /\ OneActive /\ MaxPerKey = 1 /\ KeyInStep(k)
      BY DEF Served, Remembering, Orderly, OneAtATime
    <2>2. Active(q) /\ UNCHANGED serverVars /\ UNCHANGED applied
      BY <2>1, ProceedChange
    <2>3. run \in [Run -> RunLocals] /\ up \subseteq Server
      BY <2>1 DEF Basic, TypeOK
    <2>4. \A p \in Run \ {q} : run'[p] = run[p]
      BY <2>1, OtherRuns
    <2> QED BY <2>1, <2>2, <2>3, <2>4 DEF KeyInStep, serverVars
  <1> DEFINE m == run'[q]
  <1>1. SameRequest(q, m) /\ run[q].phase # "Idle"
    <2>1. [AnyStep]_vars /\ run[q].phase # "Idle"
      BY <1>0, ActiveBegun DEF AnyStep
    <2> QED BY <1>0, <2>1, RunStays
  <1>2. \A t \in Server : Holds(t, k)' = Holds(t, k)
    BY <1>0 DEF Holds
  <1>3. /\ (Active(q))' <=> m.phase \in Working
        /\ \A p \in Run : SameInstance(q, p)' => p = q
    BY <1>0, <1>1, StaysAlone DEF Active
  <1>4. ASSUME m.phase \in Working, m.best = run[q].best, HasProposed(q)' => m.proposal = m.op,
               up \subseteq m.live \cup (IF m.phase = "Ping" THEN m.todo ELSE {}),
               \A s \in up : run[q].round \in DOMAIN logs[s][k] => m.phase # "Ping",
               \A s \in up : m.phase \in {"Propose", "Inform"}
                             \/ (m.phase = "Prepare" /\ s \notin m.todo)
                             => run[q].round \in DOMAIN logs[s][k],
               m.phase = "Inform" => m.proposal = run[q].proposal,
               (IF m.phase = "Inform" THEN up \ m.todo ELSE {})
                  = (IF run[q].phase = "Inform" THEN up \ run[q].todo ELSE {})
        PROVE  InStep(q)'
    <2>1. m.round = run[q].round /\ m.key = k
      BY <1>1 DEF SameRequest
    <2>2. RoundsInStep(q)'
      BY <1>0, <1>4, <2>1 DEF InStep, RoundsInStep
    <2>3. ValuesInStep(q)'
      <3> DEFINE Told == IF run[q].phase = "Inform" THEN up \ run[q].todo ELSE {}
      <3>1. ASSUME NEW s \in Told
            PROVE  q \in applied'[s] /\ Holds(s, k)' = Outcome(m.proposal)
        BY <1>0, <1>2, <1>4, <3>1 DEF InStep, ValuesInStep
      <3>2. ASSUME NEW s \in up \ Told, NEW t \in up \ Told
            PROVE  Holds(s, k)' = Holds(t, k)'
        BY <1>0, <1>2, <3>2 DEF InStep, ValuesInStep
      <3>3. up' = up /\ (IF m.phase = "Inform" THEN up \ m.todo ELSE {}) = Told
        BY <1>0, <1>4
      <3> HIDE DEF Told
      <3> QED BY <2>1, <3>1, <3>2, <3>3 DEF ValuesInStep
    <2>4. m.best.id = 0
      BY <1>0, <1>4 DEF InStep
    <2> QED BY <1>0, <1>3, <1>4, <2>2, <2>3, <2>4 DEF InStep
  <1>5. ASSUME m.phase \notin Working,
               \A s \in up : run[q].round \in DOMAIN logs[s][k],
               \A s, t \in up : Holds(s, k) = Holds(t, k)
        PROVE  Agree(k)' /\ \A t \in up : Logged(q, t)'
    <2>1. \A s, t \in up : DOMAIN logs[s][k] = DOMAIN logs[t][k]
      <3>1. ASSUME NEW s \in up, NEW t \in up
            PROVE  DOMAIN logs[s][k] = DOMAIN logs[t][k]
        <4>1. /\ DOMAIN logs[s][k] \ {run[q].round} = DOMAIN logs[t][k] \ {run[q].round}
              /\ run[q].round \in DOMAIN logs[s][k] /\ run[q].round \in DOMAIN logs[t][k]
          BY <1>0, <1>5 DEF InStep, RoundsInStep
        <4> QED BY <4>1
      <3> QED BY <3>1
    <2> QED BY <1>0, <1>1, <1>2, <1>5, <2>1 DEF Agree, Logged, SameRequest
  <1>6. ASSUME (Active(q))' => InStep(q)',
               ~ (Active(q))' => Agree(k)' /\ \A t \in up : Logged(q, t)'
        PROVE  KeyInStep(k)'
    <2>1. \A t \in up : DOMAIN logs[t][k] \subseteq DOMAIN logs'[t][k]
      BY <1>0
    <2>2. KeyInStep(k)
      BY DEF Served
    <2> QED BY <1>0, <1>1, <1>6, <2>1, <2>2, WorkerFrame
  <1>7. HasProposed(q) => run[q].proposal = run[q].op
    BY <1>0 DEF InStep
  <1>8. /\ \A s \in up : run[q].round \in DOMAIN logs[s][k] => run[q].phase # "Ping"
        /\ \A s \in up : run[q].phase \in {"Propose", "Inform"}
                         \/ (run[q].phase = "Prepare" /\ s \notin run[q].todo)
                         => run[q].round \in DOMAIN logs[s][k]
        /\ up \subseteq run[q].live \cup (IF run[q].phase = "Ping" THEN run[q].todo ELSE {})
        /\ LET Told == IF run[q].phase = "Inform" THEN up \ run[q].todo ELSE {}
           IN  /\ \A s \in Told : Holds(s, k) = Outcome(run[q].proposal)
               /\ \A s, t \in up \ Told : Holds(s, k) = Holds(t, k)
    BY <1>0 DEF InStep, RoundsInStep, ValuesInStep
  <1>9. ASSUME NEW s \in Server, Unreachable(q, s)
        PROVE  KeyInStep(k)'
    <2>1. m = PastCall(q, s) /\ s \notin up
      BY <1>0, <1>9 DEF Unreachable
    <2>2. /\ m.phase = run[q].phase /\ m.todo = run[q].todo \ {s} /\ m.live = run[q].live
          /\ m.best = run[q].best /\ m.proposal = run[q].proposal /\ m.op = run[q].op
      BY <1>0, <2>1 DEF PastCall, RunLocals
    <2>3. \A t \in up : t \in m.todo <=> t \in run[q].todo
      BY <2>1, <2>2
    <2>4. /\ m.phase \in Working
          /\ HasProposed(q)' => m.proposal = m.op
          /\ up \subseteq m.live \cup (IF m.phase = "Ping" THEN m.todo ELSE {})
          /\ (IF m.phase = "Inform" THEN up \ m.todo ELSE {})
                  = (IF run[q].phase = "Inform" THEN up \ run[q].todo ELSE {})
      BY <1>0, <1>7, <1>8, <2>2, <2>3 DEF HasProposed, Active
    <2> QED BY <1>3, <1>4, <1>6, <1>8, <2>2, <2>3, <2>4
  <1>10. ASSUME NEW s \in Server, Ping(q, s)
         PROVE  KeyInStep(k)'
    <2>1. m = [PastCall(q, s) EXCEPT !.live = @ \cup {s}] /\ run[q].phase = "Ping"
      BY <1>0, <1>10 DEF Ping, Calls
    <2>2. /\ m.phase = "Ping" /\ m.todo = run[q].todo \ {s} /\ m.live = run[q].live \cup {s}
          /\ m.best = run[q].best /\ m.proposal = run[q].proposal /\ m.op = run[q].op
      BY <1>0, <2>1 DEF PastCall, RunLocals
    <2>3. HasProposed(q)' => m.proposal = m.op
      BY <1>7, <2>2 DEF HasProposed
    <2>4. up \subseteq m.live \cup m.todo
      BY <1>8, <2>1, <2>2
    <2> QED BY <1>3, <1>4, <1>6, <1>8, <2>1, <2>2, <2>3, <2>4 DEF Working
  <1>11. CASE PingDone(q)
    <2>1. /\ run[q].phase = "Ping" /\ run[q].todo = {} /\ m.todo = run[q].live
          /\ m.phase = IF run[q].live = {} THEN "ABORTED" ELSE "Prepare"
          /\ m.best = run[q].best /\ m.proposal = run[q].proposal /\ m.op = run[q].op
          /\ m.live = run[q].live
      BY <1>0, <1>11 DEF PingDone, RunLocals
    <2>2. HasProposed(q)' => m.proposal = m.op
      BY <1>7, <2>1 DEF HasProposed
    <2>3. CASE run[q].live = {}
      <3>1. up = {} /\ m.phase \notin Working
        BY <1>8, <2>1, <2>3 DEF Working
      <3> QED BY <1>3, <1>5, <1>6, <3>1
    <2>4. CASE run[q].live # {}
      BY <1>3, <1>4, <1>6, <1>8, <2>1, <2>2, <2>4 DEF Working
    <2> QED BY <2>3, <2>4
  <1>12. CASE PrepareDone(q)
    <2>1. /\ run[q].phase = "Prepare" /\ run[q].todo = {}
          /\ \/ /\ m = [run[q] EXCEPT !.phase = "Propose", !.todo = run[q].live,
                              !.proposal = IF run[q].best.id > 0 THEN run[q].best.prop
                                                                 ELSE run[q].op]
             \/ m = [run[q] EXCEPT !.phase = "ABORTED"]
      BY <1>0, <1>12 DEF PrepareDone
    <2>2. run[q].best.id = 0
      BY <1>0 DEF InStep
    <2>3. CASE m = [run[q] EXCEPT !.phase = "ABORTED"]
      <3>1. m.phase \notin Working
        BY <1>0, <2>3 DEF RunLocals, Working
      <3> QED BY <1>3, <1>5, <1>6, <1>8, <2>1, <3>1
    <2>4. CASE m = [run[q] EXCEPT !.phase = "Propose", !.todo = run[q].live,
                              !.proposal = IF run[q].best.id > 0 THEN run[q].best.prop
                                                                 ELSE run[q].op]
      <3>1. /\ m.phase = "Propose" /\ m.proposal = run[q].op /\ m.op = run[q].op
            /\ m.best = run[q].best /\ m.live = run[q].live
        BY <1>0, <2>2, <2>4 DEF RunLocals
      <3> QED BY <1>3, <1>4, <1>6, <1>8, <2>1, <3>1 DEF Working
    <2> QED BY <2>1, <2>3, <2>4
  <1>13. CASE ProposeDone(q)
    <2>1. /\ run[q].phase = "Propose" /\ run[q].todo = {}
          /\ \/ m = [run[q] EXCEPT !.phase = "Inform", !.todo = run[q].live]
             \/ m = [run[q] EXCEPT !.phase = "ABORTED"]
      BY <1>0, <1>13 DEF ProposeDone
    <2>2. CASE m = [run[q] EXCEPT !.phase = "ABORTED"]
      <3>1. m.phase \notin Working
        BY <1>0, <2>2 DEF RunLocals, Working
      <3> QED BY <1>3, <1>5, <1>6, <1>8, <2>1, <3>1
    <2>3. CASE m = [run[q] EXCEPT !.phase = "Inform", !.todo = run[q].live]
      <3>1. /\ m.phase = "Inform" /\ m.todo = run[q].live /\ m.best = run[q].best
            /\ m.proposal = run[q].proposal /\ m.op = run[q].op /\ m.live = run[q].live
        BY <1>0, <2>3 DEF RunLocals
      <3>2. up \ m.todo = {}
        BY <1>8, <2>1, <3>1
      <3>3. HasProposed(q)' => m.proposal = m.op
        BY <1>7, <3>1 DEF HasProposed
      <3> QED BY <1>3, <1>4, <1>6, <1>8, <2>1, <3>1, <3>2, <3>3 DEF Working
    <2> QED BY <2>1, <2>2, <2>3
  <1>14. CASE InformDone(q)
    <2>1. run[q].phase = "Inform" /\ run[q].todo = {} /\ m.phase = "OK"
      BY <1>0, <1>14 DEF InformDone, RunLocals
    <2>2. \A s, t \in up : Holds(s, k) = Holds(t, k)
      BY <1>8, <2>1
    <2> QED BY <1>3, <1>5, <1>6, <1>8, <2>1, <2>2 DEF Working
  <1> QED BY <1>9, <1>10, <1>11, <1>12, <1>13, <1>14 DEF Proceed
-----------------------------------------------------------------------------
(* The handlers keep the replicas in step *)

\* What a step of a handler does to the logs of its replica.
LEMMA ServeRounds ==
    ASSUME Basic, NEW q \in Run, NEW s \in Server, Serve(q, s), NEW k \in Key
    PROVE  /\ \A t \in Server : t # s \/ run[q].key # k => logs'[t][k] = logs[t][k]
           /\ \/ DOMAIN logs'[s][k] = DOMAIN logs[s][k]
              \/ DOMAIN logs'[s][k] = DOMAIN logs[s][k] \cup {run[q].round}
  <1>0. /\ run[q].key \in Key
        /\ logs = [t \in Server |-> [j \in Key |-> logs[t][j]]]
    BY ServeRight DEF Basic, TypeOK
  <1> DEFINE rounds == logs[s][run[q].key]
  <1>1. ASSUME NEW new, logs' = [logs EXCEPT ![s][run[q].key] = new],
               DOMAIN new = DOMAIN rounds \cup {run[q].round}
        PROVE  /\ \A t \in Server : t # s \/ run[q].key # k => logs'[t][k] = logs[t][k]
               /\ \/ DOMAIN logs'[s][k] = DOMAIN logs[s][k]
                  \/ DOMAIN logs'[s][k] = DOMAIN logs[s][k] \cup {run[q].round}
    <2>1. \A t \in Server : t # s \/ run[q].key # k => logs'[t][k] = logs[t][k]
      BY <1>0, <1>1
    <2>2. run[q].key = k => logs'[s][k] = new
      BY <1>0, <1>1
    <2> QED BY <1>1, <2>1, <2>2
  <1>2. DOMAIN AddRound(rounds, run[q].round) = DOMAIN rounds \cup {run[q].round}
    BY DEF AddRound
  <1>3. DOMAIN AddAccepted(rounds, run[q].round, ProposeId, run[q].proposal)
            = DOMAIN rounds \cup {run[q].round}
    BY DEF AddAccepted
  <1>4. CASE PrepareBegin(q, s) \/ ProposeBegin(q, s)
    BY <1>1, <1>2, <1>4 DEF PrepareBegin, ProposeBegin
  <1>5. CASE ProposeEnd(q, s) \/ InformBegin(q, s)
    BY <1>1, <1>3, <1>5 DEF ProposeEnd, InformBegin
  <1>6. CASE PrepareEnd(q, s) \/ InformCheck(q, s) \/ InformEnd(q, s)
    BY <1>6 DEF PrepareEnd, InformCheck, InformEnd, serverVars
  <1> QED BY <1>4, <1>5, <1>6 DEF Serve

\* Only executing changes what a replica has, and only under the key of the request.
LEMMA ServeHolds ==
    ASSUME Orderly, NEW q \in Run, NEW s \in Server, Serve(q, s), NEW k \in Key, NEW t \in Server,
           ~ InformEnd(q, s) \/ t # s \/ run[q].key # k
    PROVE  Holds(t, k)' = Holds(t, k)
  <1>0. /\ data \in [Server -> [Key -> AnyValue]] /\ coordinator \in [Server -> Server \cup {Nil}]
        /\ run[q].key \in Key
    BY ServeRight DEF Orderly, Basic, TypeOK
  <1>1. CASE ~ InformEnd(q, s)
    <2>1. UNCHANGED <<data, coordinator>>
      BY <1>1 DEF Serve, PrepareBegin, PrepareEnd, ProposeBegin, ProposeEnd, InformBegin,
                  InformCheck, serverVars
    <2> QED BY <2>1 DEF Holds
  <1>2. CASE InformEnd(q, s)
    <2>1. Chosen(q) /\ HasProposed(q)
      <3>1. [AnyStep]_vars
        BY DEF AnyStep
      <3> QED BY <1>2, <3>1, HandlerOf, Stable DEF InformEnd, Orderly
    <2>2. FitsKey(run[q].key, run[q].proposal)
      BY <2>1, ProposalFitsKey
    <2>3. t # s => data'[t] = data[t] /\ coordinator'[t] = coordinator[t]
      BY <1>0, <1>2 DEF InformEnd, Execute, SetValue, DeleteEntry
    <2>4. run[q].key # k => data'[t][k] = data[t][k]
      BY <1>0, <1>2 DEF InformEnd, Execute, SetValue, DeleteEntry
    <2>5. run[q].key # CoordinatorKey => coordinator' = coordinator
      BY <1>2, <2>2 DEF InformEnd, Execute, FitsKey
    <2> QED BY <1>2, <2>3, <2>4, <2>5 DEF Holds
  <1> QED BY <1>1, <1>2

\* A request for another key.
LEMMA OtherKeyInStep ==
    ASSUME NEW k \in Key, Served(k), NEW q \in Run, run[q].key # k,
           Proceed(q) \/ (\E s \in Server : Serve(q, s))
    PROVE  KeyInStep(k)'
  <1>0. Basic /\ Orderly /\ KeyInStep(k) /\ [AnyStep]_vars
    BY DEF Served, Remembering, Orderly, AnyStep
  <1>1. run[q].phase # "Idle"
    BY <1>0, ServeRight, ProceedChange, ActiveBegun
  <1>2. SameRequest(q, run'[q])
    BY <1>0, <1>1, RunStays
  <1>3. \A p \in Run : run'[p] = run[p] \/ (~ Concerns(p, k) /\ ~ Concerns(p, k)')
    BY <1>0, <1>2, OtherRuns DEF Concerns, SameRequest
  <1>4. CASE Proceed(q)
    <2>1. UNCHANGED <<up, logs, data, coordinator, applied>>
      BY <1>0, <1>4, QuietSteps DEF serverVars
    <2> QED BY <1>0, <1>3, <2>1, KeyFrame DEF Holds
  <1>5. ASSUME NEW s \in Server, Serve(q, s)
        PROVE  KeyInStep(k)'
    <2>1. up' = up /\ up \subseteq Server
      BY <1>0, <1>5, ServeData DEF Basic, TypeOK
    <2>2. \A t \in up' : /\ DOMAIN logs'[t][k] = DOMAIN logs[t][k]
                         /\ Holds(t, k)' = Holds(t, k)
                         /\ applied[t] \subseteq applied'[t]
      BY <1>0, <1>5, <2>1, ServeRounds, ServeHolds, AppliedStays
    <2> QED BY <1>0, <1>3, <2>1, <2>2, KeyFrame
  <1> QED BY <1>4, <1>5

\* The locals of a thread after a step of a handler it waits for.
LEMMA ServeLocals ==
    ASSUME NEW k \in Key, Served(k), NEW q \in Run, run[q].key = k, NEW s \in Server, Serve(q, s)
    PROVE  /\ Active(q) /\ InStep(q) /\ s \in run[q].todo /\ SameRequest(q, run'[q])
           /\ run[q].phase \in {"Prepare", "Propose", "Inform"}
           /\ run'[q].phase = run[q].phase /\ run'[q].live = run[q].live
           /\ run'[q].todo \in {run[q].todo, run[q].todo \ {s}}
           /\ run'[q].best.id = 0 /\ run'[q].proposal = run[q].proposal
  <1>0. /\ Basic /\ Orderly /\ KeyInStep(k) /\ [AnyStep]_vars /\ AnyStep /\ HandlersAwaited
        /\ faults = 0 /\ run[q].phase # "Lost"
    BY DEF Served, Remembering, Orderly, AnyStep, OneAtATime, Undisturbed
  <1>1. PICK phase \in {"Prepare", "Propose", "Inform"} : Calls(q, phase, s)
    BY <1>0, ServeAwaited
  <1>2. /\ Active(q) /\ run[q].phase = phase /\ s \in run[q].todo
        /\ run[q].phase # "Idle" /\ InStep(q)
    BY <1>0, <1>1 DEF Calls, Active, Working, KeyInStep
  <1>3. SameRequest(q, run'[q])
    BY <1>0, <1>2, RunStays
  <1>4. Change(q, run'[q])
    <2>1. run \in [Run -> RunLocals]
      BY <1>0 DEF Basic, TypeOK
    <2> QED BY <1>0, <2>1, ServeChange DEF ChangesTo
  <1>5. run'[q].phase # "Lost"
    <2>1. ASSUME NEW t \in Server, Die(t) PROVE FALSE
      BY <1>0, <2>1, ServeData DEF Die
    <2> QED BY <1>0, <2>1, LostByDeath
  <1>6. run[q].best.id = 0
    BY <1>2 DEF InStep
  <1>7. ASSUME NEW other \in Working, NEW t, PastCalled(q, run'[q], other, t)
        PROVE  other = phase /\ t = s
    BY <1>0, <1>1, <1>7, OneCall DEF PastCalled, Working
  <1>8. ~ Advances(q, run'[q]) /\ ~ IsLost(q, run'[q]) /\ ~ Pinged(q, run'[q])
    BY <1>2, <1>5, <1>7 DEF Advances, IsLost, Pinged, Working
  <1>9. CASE run'[q] = run[q]
    BY <1>2, <1>3, <1>6, <1>9
  <1>10. CASE GivesUpCall(q, run'[q])
    BY <1>2, <1>3, <1>6, <1>7, <1>10 DEF GivesUpCall, PastCalled, SameBallot
  <1>11. ASSUME NEW t \in Server, AcceptedBy(q, run'[q], t)
         PROVE  /\ run'[q].phase = phase /\ run'[q].live = run[q].live
                /\ run'[q].todo = run[q].todo \ {s}
                /\ run'[q].best.id = 0 /\ run'[q].proposal = run[q].proposal
    BY <1>2, <1>6, <1>7, <1>11 DEF AcceptedBy, PastCalled, SameBallot, Working
  <1>12. ASSUME NEW t \in Server, PromisedBy(q, run'[q], t)
         PROVE  /\ run'[q].phase = phase /\ run'[q].live = run[q].live
                /\ run'[q].todo = run[q].todo \ {s}
                /\ run'[q].best.id = 0 /\ run'[q].proposal = run[q].proposal
    <2>1. phase = "Prepare" /\ t = s
      BY <1>7, <1>12 DEF PromisedBy, Working
    <2>2. ~ HasProposed(q)
      BY <1>0, <1>2, <2>1 DEF Orderly, RunsInOrder
    <2>3. ~ Log(q, t).accepted_id > 0
      <3>1. CASE run[q].round \in DOMAIN logs[t][k]
        <4>1. Log(q, t) = logs[t][k][run[q].round]
          BY <3>1 DEF Log, GetPaxosLog
        <4>2. ASSUME NEW p \in Run, run[p].key = k, run[p].round = run[q].round, HasProposed(p)
              PROVE  FALSE
          BY <1>2, <2>2, <4>2 DEF InStep, SameInstance
        <4>3. LogsHoldProposals
          BY <1>0 DEF Orderly
        <4>4. ASSUME NEW r \in DOMAIN logs[t][k], r = run[q].round,
                     logs[t][k][r].accepted_id > 0
              PROVE  FALSE
          <5>1. PICK p \in Run :
                   /\ run[p].key = k /\ run[p].round = r /\ HasProposed(p)
                   /\ run[p].proposal = [type  |-> logs[t][k][r].accepted_type,
                                         value |-> logs[t][k][r].accepted_value]
            BY <4>3, <4>4 DEF LogsHoldProposals
          <5> QED BY <4>2, <4>4, <5>1
        <4> QED BY <3>1, <4>1, <4>4
      <3>2. CASE run[q].round \notin DOMAIN logs[t][k]
        BY <3>2 DEF Log, GetPaxosLog, NewPaxosLog
      <3> QED BY <3>1, <3>2
    <2>4. run'[q].best = run[q].best
      BY <1>6, <1>12, <2>3 DEF PromisedBy
    <2> QED BY <1>2, <1>6, <1>12, <2>1, <2>4 DEF PromisedBy, PastCalled
  <1> QED BY <1>2, <1>3, <1>4, <1>8, <1>9, <1>10, <1>11, <1>12 DEF Change

\* A learner that executes a request has its outcome.
LEMMA ExecutesOutcome ==
    ASSUME Orderly, RequestsAreOperations, NEW q \in Run, NEW s \in Server, InformEnd(q, s),
           run[q].proposal = run[q].op
    PROVE  Holds(s, run[q].key)' = Outcome(run[q].op)' /\ run[q].op \in Operation
  <1> DEFINE k == run[q].key
             op == run[q].op
  <1>0. /\ data \in [Server -> [Key -> AnyValue]] /\ coordinator \in [Server -> Server \cup {Nil}]
        /\ k \in Key /\ run[q].phase # "Idle" /\ HasInstance(q) /\ run \in [Run -> RunLocals]
    BY ServeRight DEF Orderly, Basic, TypeOK, Serve
  <1>1. op \in Operation
    BY <1>0 DEF RequestsAreOperations
  <1>2. k = CoordinatorKey <=> op.type = "SET_COORDINATOR"
    BY <1>0 DEF Orderly, RequestsFitKeys, FitsKey
  <1>3. run'[q].key = k /\ run'[q].op = op
    <2>1. [AnyStep]_vars
      BY DEF AnyStep, Serve
    <2>2. SameRequest(q, run'[q])
      BY <1>0, <2>1, RunStays DEF Orderly
    <2> QED BY <2>2 DEF SameRequest
  <1>4. CASE op.type = "SET"
    <2>1. data' = [data EXCEPT ![s] = [data[s] EXCEPT ![k] = op.value]]
      BY <1>4 DEF InformEnd, Execute, SetValue
    <2>2. data'[s][k] = op.value
      BY <1>0, <2>1
    <2> QED BY <1>1, <1>2, <1>3, <1>4, <2>2 DEF Holds, Outcome
  <1>5. CASE op.type = "DELETE"
    <2>1. data' = [data EXCEPT ![s] = [data[s] EXCEPT ![k] = Nil]]
      BY <1>5 DEF InformEnd, Execute, DeleteEntry
    <2>2. data'[s][k] = Nil
      BY <1>0, <2>1
    <2> QED BY <1>1, <1>2, <1>3, <1>5, <2>2 DEF Holds, Outcome
  <1>6. CASE op.type = "SET_COORDINATOR"
    <2>1. op.value \in Server
      BY <1>1, <1>6 DEF Operation
    <2>2. coordinator' = [coordinator EXCEPT ![s] = op.value]
      BY <1>6, <2>1 DEF InformEnd, Execute
    <2>3. coordinator'[s] = op.value
      BY <1>0, <2>2
    <2> QED BY <1>1, <1>2, <1>3, <1>6, <2>3 DEF Holds, Outcome
  <1>7. op.type \in {"SET", "DELETE", "SET_COORDINATOR"}
    BY <1>1 DEF Operation
  <1> QED BY <1>1, <1>4, <1>5, <1>6, <1>7

\* The answer to a call of Prepare finds the round logged; a call of Inform is
\* answered when the learner has executed.
LEMMA AnswersInStep ==
    ASSUME NEW k \in Key, Served(k), NEW q \in Run, run[q].key = k, NEW s \in Server, Serve(q, s),
           run'[q].todo # run[q].todo
    PROVE  /\ run[q].phase = "Prepare" => Logged(q, s) /\ logs' = logs
           /\ run[q].phase = "Inform" => InformEnd(q, s)
  <1>0. /\ Basic /\ HandlersAwaited /\ AcceptorsRemember /\ faults = 0 /\ run[q].phase # "Lost"
        /\ InStep(q) /\ run[q].round \in Nat
    <2>1. Basic /\ HandlersAwaited /\ AcceptorsRemember /\ faults = 0 /\ run[q].phase # "Lost"
      BY DEF Served, Remembering, Orderly, OneAtATime, Undisturbed
    <2> QED BY <2>1, ServeLocals, ServeRight
  <1>1. ASSUME run[q].phase = "Prepare"
        PROVE  Logged(q, s) /\ logs' = logs
    <2>1. PrepareBegin(q, s) \/ PrepareEnd(q, s)
      BY <1>0, <1>1, ServeAwaited DEF Serve, Calls
    <2>2. PrepareEnd(q, s)
      BY <2>1 DEF PrepareBegin
    <2>3. Logged(q, s)
      BY <1>0, <2>2 DEF PrepareEnd, AcceptorsRemember, Handler
    <2> QED BY <2>2, <2>3 DEF PrepareEnd, serverVars
  <1>2. ASSUME run[q].phase = "Inform"
        PROVE  InformEnd(q, s)
    <2>1. InformBegin(q, s) \/ InformCheck(q, s) \/ InformEnd(q, s)
      BY <1>0, <1>2, ServeAwaited DEF Serve, Calls
    <2>2. CASE InformCheck(q, s)
      <3>1. HasLaterRound(logs[s][k], run[q].round)
        BY <2>2 DEF InformCheck
      <3>2. s \in up /\ \A x \in DOMAIN logs[s][k] : x <= run[q].round /\ x \in Nat
        <4>1. s \in up
          BY <1>0, ServeRight
        <4>2. DOMAIN logs[s][k] \subseteq Nat
          BY <1>0 DEF Basic, TypeOK, IsRounds
        <4> QED BY <1>0, <4>1, <4>2 DEF InStep, RoundsInStep
      <3> QED BY <1>0, <3>1, <3>2 DEF HasLaterRound
    <2> QED BY <2>1, <2>2 DEF InformBegin
  <1> QED BY <1>1, <1>2

\* So the handlers keep the replicas in step.
LEMMA ServeInStep ==
    ASSUME NEW k \in Key, Served(k), NEW q \in Run, run[q].key = k, NEW s \in Server, Serve(q, s)
    PROVE  KeyInStep(k)'
  <1> DEFINE r == run[q].round
             m == run'[q]
  <1>0. /\ Basic /\ Orderly /\ KeyInStep(k) /\ [AnyStep]_vars /\ OneActive /\ MaxPerKey = 1
        /\ RequestsAreOperations
    BY DEF Served, Remembering, Orderly, AnyStep, OneAtATime
  <1>1. /\ Active(q) /\ InStep(q) /\ s \in run[q].todo /\ SameRequest(q, m)
        /\ run[q].phase \in {"Prepare", "Propose", "Inform"}
        /\ m.phase = run[q].phase /\ m.live = run[q].live
        /\ m.todo \in {run[q].todo, run[q].todo \ {s}}
        /\ m.best.id = 0 /\ m.proposal = run[q].proposal
    BY ServeLocals
  <1>2. /\ up' = up /\ s \in up /\ up \subseteq Server /\ r \in Nat
        /\ \A p \in Run \ {q} : run'[p] = run[p]
    BY <1>0, ServeData, ServeRight, OtherRuns DEF Basic, TypeOK
  <1>3. /\ \A t \in Server : t # s => logs'[t][k] = logs[t][k]
        /\ \/ DOMAIN logs'[s][k] = DOMAIN logs[s][k]
           \/ DOMAIN logs'[s][k] = DOMAIN logs[s][k] \cup {r}
    BY <1>0, ServeRounds
  <1>4. m.round = r /\ m.key = k /\ m.op = run[q].op
    BY <1>1 DEF SameRequest
  <1>5. RoundsInStep(q)'
    <2> DEFINE Asked(t) == \/ run[q].phase \in {"Propose", "Inform"}
                           \/ run[q].phase = "Prepare" /\ t \notin run[q].todo
    <2>1. /\ \A t \in up : \A x \in DOMAIN logs[t][k] : x <= r
          /\ \A t \in up : Asked(t) => r \in DOMAIN logs[t][k]
          /\ \A t, u \in up : DOMAIN logs[t][k] \ {r} = DOMAIN logs[u][k] \ {r}
      BY <1>1 DEF InStep, RoundsInStep
    <2>2. \A t \in up : \A x \in DOMAIN logs'[t][k] : x <= r
      BY <1>2, <1>3, <2>1
    <2>3. \A t \in up : DOMAIN logs'[t][k] \ {r} = DOMAIN logs[t][k] \ {r}
      BY <1>2, <1>3
    <2>4. ASSUME NEW t \in up, \/ m.phase \in {"Propose", "Inform"}
                               \/ m.phase = "Prepare" /\ t \notin m.todo
          PROVE  r \in DOMAIN logs'[t][k]
      <3>1. CASE Asked(t)
        BY <1>2, <1>3, <2>1, <3>1
      <3>2. CASE ~ Asked(t)
        <4>1. t = s /\ m.todo # run[q].todo /\ run[q].phase = "Prepare"
          BY <1>1, <2>4, <3>2
        <4> QED BY <4>1, AnswersInStep DEF Logged
      <3> QED BY <3>1, <3>2
    <2> HIDE DEF Asked
    <2>5. \A t, u \in up : DOMAIN logs'[t][k] \ {r} = DOMAIN logs'[u][k] \ {r}
      BY <2>1, <2>3
    <2> QED BY <1>1, <1>2, <1>4, <2>2, <2>4, <2>5 DEF RoundsInStep
  <1>6. ValuesInStep(q)'
    <2> DEFINE Told == IF run[q].phase = "Inform" THEN up \ run[q].todo ELSE {}
               Told2 == IF m.phase = "Inform" THEN up \ m.todo ELSE {}
    <2>1. /\ \A t \in Told : q \in applied[t] /\ Holds(t, k) = Outcome(run[q].proposal)
          /\ \A t, u \in up \ Told : Holds(t, k) = Holds(u, k)
      BY <1>1 DEF InStep, ValuesInStep
    <2>2. \A t \in up : applied[t] \subseteq applied'[t]
      BY <1>0, <1>2, AppliedStays
    <2>3. CASE InformEnd(q, s)
      <3>1. run[q].phase = "Inform" /\ m.todo = run[q].todo \ {s}
        <4>1. Calls(q, "Inform", s)
          BY <1>0, <2>3, ServeAwaited DEF Served, OneAtATime, Undisturbed
        <4>2. m = PastCall(q, s)
          BY <1>0, <2>3, <4>1 DEF InformEnd, Answer, Basic, TypeOK
        <4>3. PastCall(q, s).todo = run[q].todo \ {s}
          BY <1>0 DEF PastCall, Basic, TypeOK, RunLocals
        <4> QED BY <4>1, <4>2, <4>3 DEF Calls
      <3>2. Told2 = Told \cup {s}
        BY <1>1, <1>2, <3>1
      <3>3. HasProposed(q)
        BY <1>0, <3>1 DEF Orderly, RunsInOrder
      <3>4. run[q].proposal = run[q].op
        BY <1>1, <3>3 DEF InStep
      <3>5. Holds(s, run[q].key)' = Outcome(run[q].op)'
        BY <1>0, <2>3, <3>4, ExecutesOutcome
      <3>6. Holds(s, k)' = Outcome(m.proposal)
        BY <1>1, <1>4, <3>4, <3>5 DEF Outcome, Holds
      <3>7. q \in applied'[s]
        BY <1>0, <2>3 DEF InformEnd, Basic, TypeOK
      <3>8. \A t \in up : t # s => Holds(t, k)' = Holds(t, k)
        BY <1>0, <1>2, ServeHolds
      <3> HIDE DEF Told, Told2
      <3>9. Told \subseteq up
        BY DEF Told
      <3>10. \A t \in Told2 : q \in applied'[t] /\ Holds(t, k)' = Outcome(m.proposal)
        BY <1>1, <2>1, <2>2, <3>2, <3>6, <3>7, <3>8, <3>9
      <3>11. \A t, u \in up \ Told2 : Holds(t, k)' = Holds(u, k)'
        BY <2>1, <3>2, <3>8
      <3> QED BY <1>2, <1>4, <3>10, <3>11 DEF ValuesInStep, Told2
    <2>4. CASE ~ InformEnd(q, s)
      <3>1. Told2 = Told
        BY <1>1, <2>4, AnswersInStep
      <3>2. \A t \in up : Holds(t, k)' = Holds(t, k)
        BY <1>0, <1>2, <2>4, ServeHolds
      <3> HIDE DEF Told, Told2
      <3>3. Told \subseteq up
        BY DEF Told
      <3>4. \A t \in Told2 : q \in applied'[t] /\ Holds(t, k)' = Outcome(m.proposal)
        BY <1>1, <2>1, <2>2, <3>1, <3>2, <3>3
      <3>5. \A t, u \in up \ Told2 : Holds(t, k)' = Holds(u, k)'
        BY <2>1, <3>1, <3>2
      <3> QED BY <1>2, <1>4, <3>4, <3>5 DEF ValuesInStep, Told2
    <2> QED BY <2>3, <2>4
  <1>7. InStep(q)'
    <2>1. up' \subseteq m.live \cup (IF m.phase = "Ping" THEN m.todo ELSE {})
      BY <1>1, <1>2 DEF InStep
    <2>2. \A p \in Run : SameInstance(q, p)' => p = q
      BY <1>1, <1>2, StaysAlone
    <2>3. HasProposed(q)' => m.proposal = m.op
      BY <1>1, <1>4 DEF InStep, HasProposed
    <2> QED BY <1>1, <1>5, <1>6, <2>1, <2>2, <2>3 DEF InStep
  <1>8. Active(q)'
    BY <1>1 DEF Active
  <1>9. \A t \in up : DOMAIN logs[t][k] \subseteq DOMAIN logs'[t][k]
    BY <1>2, <1>3
  <1> QED BY <1>0, <1>1, <1>2, <1>7, <1>8, <1>9, WorkerFrame
-----------------------------------------------------------------------------
(* Requests that begin, servers that die *)

\* A request that finds the replicas agreed begins in step with them.
LEMMA ArriveInStep ==
    ASSUME NEW k \in Key, Served(k), NEW p \in Run, Arrive(p)
    PROVE  KeyInStep(k)'
  <1>0. /\ Basic /\ KeyInStep(k) /\ OneActive /\ MaxPerKey = 1 /\ up \subseteq Server
        /\ run[p] = NotStarted
        /\ UNCHANGED <<up, logs, data, coordinator, applied>>
    <2>1. Basic /\ KeyInStep(k) /\ OneActive /\ MaxPerKey = 1
      BY DEF Served, Remembering, Orderly, OneAtATime
    <2>2. run[p].phase = "Idle" /\ UNCHANGED serverVars /\ UNCHANGED applied
      BY <2>1, ArrivalIsNew, QuietSteps DEF Basic
    <2> QED BY <2>1, <2>2 DEF Basic, TypeOK, Begun, serverVars
  <1>1. PICK s \in Server, key \in Key, op \in Proposal, phase \in {"Ping", "ABORTED"},
             round \in Nat, todo \in SUBSET Server :
             /\ BeginsRight(p, s, key, op, phase, round, todo)
             /\ run'[p] = [NotStarted EXCEPT !.phase = phase, !.server = s, !.key = key,
                              !.op = op, !.round = round, !.todo = todo]
             /\ \A q \in Run \ {p} : run'[q] = run[q]
    BY <1>0, BeginsIn
  <1>2. /\ run'[p].phase = phase /\ run'[p].key = key /\ run'[p].round = round
        /\ run'[p].todo = todo /\ run'[p].live = {} /\ run'[p].best.id = 0
        /\ run'[p].proposal = NoProposal
    BY <1>1 DEF NotStarted, NothingAccepted
  <1>3. ~ Concerns(p, k)
    BY <1>0 DEF Concerns, NotStarted, Active, Working
  <1>4. CASE phase = "ABORTED" \/ key # k
    <2>1. phase = "ABORTED" => round = 0
      BY <1>1 DEF BeginsRight
    <2>2. ~ Concerns(p, k)'
      BY <1>2, <1>4, <2>1 DEF Concerns, Active, Working
    <2>3. \A q \in Run : run'[q] = run[q] \/ (~ Concerns(q, k) /\ ~ Concerns(q, k)')
      BY <1>1, <1>3, <2>2
    <2> QED BY <1>0, <2>3, KeyFrame DEF Holds
  <1>5. CASE phase = "Ping" /\ key = k
    <2>1. /\ Begin(p, s, key, op, phase, round, todo) /\ todo = Server /\ round > 0 /\ s \in up
          /\ \A r \in DOMAIN logs[s][k] : r < round
      BY <1>1, <1>5 DEF BeginsRight, Begin
    <2>2. \A q \in Run : run[q].key = k => ~ Active(q)
      BY <1>0, <1>5, <2>1, BeginsAlone
    <2>3. Agree(k)
      BY <1>0, <2>2 DEF KeyInStep
    <2>4. /\ \A t \in up : DOMAIN logs[t][k] \subseteq Nat
          /\ \A t \in up : \A x \in DOMAIN logs[t][k] : x < round
      BY <1>0, <2>1, <2>3 DEF Agree, Basic, TypeOK, IsRounds
    <2>5. \A t \in up : round \notin DOMAIN logs[t][k]
      BY <2>4
    <2>6. RoundsInStep(p)'
      <3>1. /\ \A t \in up : \A x \in DOMAIN logs[t][k] : x <= round
            /\ \A t, u \in up : DOMAIN logs[t][k] \ {round} = DOMAIN logs[u][k] \ {round}
        BY <2>3, <2>4 DEF Agree
      <3> QED BY <1>0, <1>2, <1>5, <2>5, <3>1 DEF RoundsInStep
    <2>7. ValuesInStep(p)'
      BY <1>0, <1>2, <1>5, <2>3 DEF ValuesInStep, Agree, Holds
    <2>8. ASSUME NEW q \in Run, SameInstance(p, q)'
          PROVE  q = p
      <3>1. SUFFICES ASSUME q # p PROVE FALSE
        OBVIOUS
      <3>2. run[q].key = k /\ run[q].round = round
        BY <1>1, <1>2, <1>5, <2>8, <3>1 DEF SameInstance
      <3>3. Logged(q, s)
        BY <1>0, <2>1, <2>2, <3>2 DEF KeyInStep
      <3> QED BY <2>1, <2>5, <3>2, <3>3 DEF Logged
    <2>9. InStep(p)'
      <3>1. up' \subseteq run'[p].live \cup (IF run'[p].phase = "Ping" THEN run'[p].todo ELSE {})
        BY <1>0, <1>2, <1>5, <2>1
      <3>2. ~ HasProposed(p)'
        BY <1>2 DEF HasProposed
      <3> QED BY <1>2, <2>6, <2>7, <2>8, <3>1, <3>2 DEF InStep
    <2>10. Active(p)'
      BY <1>2, <1>5 DEF Active, Working
    <2>11. ASSUME NEW q \in Run, run'[q].key = k, Active(q)' PROVE q = p
      BY <1>1, <2>2, <2>11 DEF Active
    <2>12. ASSUME NEW q \in Run, run'[q].key = k, HasInstance(q)', ~ Active(q)', NEW t \in up'
           PROVE  Logged(q, t)'
      <3>1. run'[q] = run[q]
        BY <1>1, <2>10, <2>12
      <3>2. Logged(q, t)
        BY <1>0, <2>12, <3>1 DEF KeyInStep, Active
      <3> QED BY <1>0, <3>1, <3>2 DEF Logged
    <2> QED BY <1>2, <1>5, <2>9, <2>10, <2>11, <2>12 DEF KeyInStep
  <1> QED BY <1>4, <1>5

\* A server that dies without a request for k leaves the others in step.
LEMMA DieInStep ==
    ASSUME NEW k \in Key, Served(k), NEW s \in Server, Die(s), Undisturbed(k)'
    PROVE  KeyInStep(k)'
  <1>0. /\ Basic /\ KeyInStep(k) /\ up \subseteq Server /\ run \in [Run -> RunLocals]
        /\ data \in [Server -> [Key -> AnyValue]] /\ coordinator \in [Server -> Server \cup {Nil}]
        /\ applied \in [Server -> SUBSET Run]
        /\ logs = [t \in Server |-> [j \in Key |-> logs[t][j]]]
    BY DEF Served, Remembering, Orderly, Basic, TypeOK
  <1>1. ASSUME NEW p \in Run
        PROVE  run'[p] = run[p] \/ (~ Concerns(p, k) /\ ~ Concerns(p, k)')
    <2>1. CASE p \in RunsOf(s)
      <3>1. run'[p].phase = "Lost" /\ run'[p].key = run[p].key
        BY <1>0, <2>1 DEF Die, RunLocals
      <3>2. run[p].key # k
        BY <3>1 DEF Undisturbed
      <3> QED BY <3>1, <3>2 DEF Concerns
    <2>2. CASE p \notin RunsOf(s)
      BY <2>2 DEF Die
    <2> QED BY <2>1, <2>2
  <1>2. up' \subseteq up /\ s \notin up'
    BY DEF Die
  <1>3. ASSUME NEW t \in up'
        PROVE  /\ DOMAIN logs'[t][k] = DOMAIN logs[t][k]
               /\ Holds(t, k)' = Holds(t, k)
               /\ applied[t] \subseteq applied'[t]
    <2>1. t # s /\ t \in Server
      BY <1>0, <1>2
    <2>2. /\ logs'[t] = logs[t] /\ data'[t] = data[t] /\ coordinator'[t] = coordinator[t]
          /\ applied'[t] = applied[t]
      BY <1>0, <2>1 DEF Die
    <2> QED BY <2>2 DEF Holds
  <1> QED BY <1>0, <1>1, <1>2, <1>3, KeyFrame

-----------------------------------------------------------------------------
(* The invariant *)

\* Requests that were lost stay so.
LEMMA UndisturbedBefore ==
    ASSUME Basic, [AnyStep]_vars, NEW k \in Key, Undisturbed(k)'
    PROVE  Undisturbed(k)
  <1> SUFFICES ASSUME NEW p \in Run, run[p].key = k, run[p].phase = "Lost"
               PROVE  FALSE
    BY DEF Undisturbed
  <1>1. run'[p] = run[p]
    BY RunStays DEF Active, Working
  <1> QED BY <1>1 DEF Undisturbed

\* The replicas keep in step.
LEMMA ReplicasInStepStep ==
    ASSUME Remembering, SerialIInv, [AnyStep]_vars
    PROVE  ReplicasInStep'
  <1> SUFFICES ASSUME OneAtATime', NEW k \in Key, Undisturbed(k)'
               PROVE  KeyInStep(k)'
    BY DEF ReplicasInStep
  <1>0. Basic /\ Orderly
    BY DEF Remembering, Orderly
  <1>1. OneAtATime /\ Undisturbed(k)
    BY <1>0, NoFaultsBefore, UndisturbedBefore DEF OneAtATime
  <1>2. Served(k)
    BY <1>1 DEF Served, SerialIInv, ReplicasInStep
  <1>3. ASSUME NEW p \in Run, Arrive(p)
        PROVE  KeyInStep(k)'
    BY <1>2, <1>3, ArriveInStep
  <1>4. ASSUME NEW p \in Run, Proceed(p) \/ (\E s \in Server : Serve(p, s))
        PROVE  KeyInStep(k)'
    BY <1>2, <1>4, OtherKeyInStep, ProceedInStep, ServeInStep
  <1>5. ASSUME NEW p \in Run, NEW s \in Server, DeadlineExceeded(p, s)
        PROVE  FALSE
    BY <1>0, <1>1, <1>5 DEF DeadlineExceeded, OneAtATime
  <1>6. ASSUME NEW s \in Server, Die(s)
        PROVE  KeyInStep(k)'
    BY <1>2, <1>6, DieInStep
  <1>7. CASE UNCHANGED vars
    <2>1. UNCHANGED <<up, logs, data, coordinator, run, applied>>
      BY <1>7 DEF vars, serverVars
    <2> QED BY <1>0, <1>2, <2>1, KeyFrame DEF Served, Holds
  <1> QED BY <1>3, <1>4, <1>5, <1>6, <1>7 DEF AnyStep

\* The invariant holds at the start,
LEMMA SerialInit == Init => SerialIInv
  <1> SUFFICES ASSUME Init PROVE SerialIInv
    OBVIOUS
  <1>1. /\ \A p \in Run : run[p] = NotStarted
        /\ handlers = {} /\ \A s \in Server : applied[s] = {}
        /\ up = Server
    BY DEF Init
  <1>2. \A p \in Run : ~ Active(p) /\ run[p].phase = "Idle" /\ ~ HasInstance(p)
    BY <1>1 DEF Active, Working, NotStarted
  <1>3. RequestsAreOperations /\ ServersServe /\ OneActive
    BY <1>2 DEF RequestsAreOperations, ServersServe, OneActive
  <1>4. HandlersAwaited /\ AppliedWhenInformed
    BY <1>1 DEF HandlersAwaited, AppliedWhenInformed
  <1>5. ReplicasInStep
    BY <1>1, <1>2 DEF ReplicasInStep, KeyInStep, Agree, Holds, Init
  <1> QED BY <1>3, <1>4, <1>5 DEF SerialIInv

\* and is kept by every step.
LEMMA SerialStep == Remembering /\ SerialIInv /\ [AnyStep]_vars => SerialIInv'
  <1> SUFFICES ASSUME Remembering, SerialIInv, [AnyStep]_vars PROVE SerialIInv'
    OBVIOUS
  <1>1. Basic
    BY DEF Remembering, Orderly
  <1>2. RequestsAreOperations' /\ ServersServe' /\ OneActive'
    BY <1>1, OperationsStep, ServersServeStep, OneActiveStep DEF SerialIInv
  <1>3. HandlersAwaited' /\ AppliedWhenInformed'
    BY <1>1, HandlersAwaitedStep, AppliedWhenInformedStep DEF SerialIInv
  <1>4. ReplicasInStep'
    BY ReplicasInStepStep
  <1> QED BY <1>2, <1>3, <1>4 DEF SerialIInv

\* While no call fails and a key is sent one request at a time, the replicas
\* differ on that key only by what the one request at work has not yet told
\* all of them.
THEOREM SerialInvariant == Spec => []SerialIInv
  BY SerialInit, SerialStep, RememberingInvariant, NextIsAnyStep, PTL DEF Spec

\* So the running replicas agree on a key, its value or the coordinator,
\* whenever no request for it is being served.
THEOREM ReplicasAgree == Spec => []SettledReplicasAgree
  <1>1. SerialIInv /\ ElectionsStayApart /\ Basic => SettledReplicasAgree
    <2> SUFFICES ASSUME SerialIInv, ElectionsStayApart, Basic, MaxPerKey = 1, faults = 0,
                        NEW k \in Key,
                        \A p \in Run : run[p].key = k => ~ Active(p) /\ run[p].phase # "Lost",
                        NEW s \in up, NEW t \in up
                 PROVE  /\ DOMAIN logs[s][k] = DOMAIN logs[t][k]
                        /\ data[s][k] = data[t][k]
                        /\ k = CoordinatorKey => coordinator[s] = coordinator[t]
      BY DEF SettledReplicasAgree
    <2>1. KeyInStep(k)
      BY DEF SerialIInv, ReplicasInStep, OneAtATime, Undisturbed
    <2>2. DOMAIN logs[s][k] = DOMAIN logs[t][k] /\ Holds(s, k) = Holds(t, k)
      BY <2>1 DEF KeyInStep, Agree
    <2>3. s \in Server /\ t \in Server
      BY DEF Basic, TypeOK
    <2> QED BY <2>2, <2>3 DEF Holds, ElectionsStayApart
  <1> QED BY <1>1, SerialInvariant, ElectionsAreApart, BasicInvariant, PTL
=============================================================================
