------------------------ MODULE KVStoreServiceProofs ------------------------
(***************************************************************************)
(* Proofs about the requests of clients: RequestFlow keeps its types       *)
(* (ServiceTypesCorrect), what a client's calls do to the servers is what  *)
(* Lifecycle allows (ServiceKeepsRecovery), and a read answers with the    *)
(* last write that was answered OK, across the death and the election of   *)
(* coordinators (ReadsStayCurrent).                                        *)
(***************************************************************************)
EXTENDS KVStoreServiceInvariant, LifecycleSerialProofs

USE DEF ProposeId, HasInstance

ServiceBasic == LifeBasic /\ ServiceTypeOK

-----------------------------------------------------------------------------
(* What RequestFlow does to the servers *)

\* The operations that calls ask for have the types of operations.
LEMMA WritesAre ==
    /\ \A op \in Writes : /\ op.type \in {"SET", "DELETE"} /\ op # Get /\ op # NoProposal
                          /\ op.type = "SET" => op.value \in Value /\ op = SetTo(op.value)
                          /\ op.type = "DELETE" => op.value = Nil
    /\ \A s : Election(s).type = "SET_COORDINATOR" /\ Election(s).value = s
    /\ Get.type = "GET" /\ Get \notin Writes
  BY DEF Writes, Election, Get, NoProposal, SetTo

\* A handler that begins is the arrival of a request at MultiPaxos.
LEMMA HandleArrives ==
    ASSUME NEW s \in Server, NEW k \in Key,
           NEW op \in Writes \cup {Election(t) : t \in Server}, Handle(s, k, op)
    PROVE  NewRun \in Run /\ run[NewRun].phase = "Idle" /\ ArriveStep(NewRun)
  <1>1. NewRun \in Run /\ run[NewRun].phase = "Idle"
    BY DEF Handle, RunLeft, NewRun
  <1>2. Arrive(NewRun)
    <2>1. CASE op.type = "SET"
      <3>1. PutPair(NewRun, s, k, op.value) /\ op.value \in Value
        BY <2>1, WritesAre DEF Handle
      <3> QED BY <3>1 DEF Arrive
    <2>2. CASE op.type = "DELETE"
      BY <2>2 DEF Handle, Arrive
    <2>3. CASE op.type = "SET_COORDINATOR"
      BY <2>3 DEF Handle, Arrive
    <2> QED BY <2>1, <2>2, <2>3, WritesAre
  <1> QED BY <1>1, <1>2 DEF Handle, ArriveStep

\* RunPaxos begins in the round after the latest one that its server has logged.
LEMMA RunPaxosIs ==
    ASSUME TypeOK, NEW p \in Run, NEW s, NEW k \in Key, NEW op, RunPaxos(p, s, k, op)
    PROVE  /\ s \in up \cap Proposer /\ run[p].phase = "Idle"
           /\ \E n \in Nat : IsLatestRound(logs[s][k], n) /\ run'[p].round = n + 1
           /\ run'[p].phase = "Ping" /\ run'[p].todo = Server
           /\ run'[p].server = s /\ run'[p].key = k /\ run'[p].op = op
           /\ run'[p].best.id = 0 /\ run'[p].proposal = NoProposal
           /\ \A q \in Run \ {p} : run'[q] = run[q]
           /\ UNCHANGED <<serverVars, handlers, faults>>
  <1>1. PICK n \in DOMAIN logs[s][k] \cup {0} :
              IsLatestRound(logs[s][k], n) /\ Begin(p, s, k, op, "Ping", n + 1, Server)
    BY DEF RunPaxos
  <1>2. s \in Server /\ s \in up \cap Proposer
    BY <1>1 DEF Begin, TypeOK
  <1>3. n \in Nat
    BY <1>2 DEF TypeOK, IsRounds
  <1>4. run'[p] = [NotStarted EXCEPT !.phase = "Ping", !.server = s, !.key = k,
                      !.op = op, !.round = n + 1, !.todo = Server]
    BY <1>1 DEF Begin, TypeOK
  <1>5. /\ run'[p].phase = "Ping" /\ run'[p].todo = Server
        /\ run'[p].server = s /\ run'[p].key = k /\ run'[p].op = op
        /\ run'[p].best.id = 0 /\ run'[p].proposal = NoProposal
        /\ run'[p].round = n + 1
    BY <1>4 DEF NotStarted, NothingAccepted
  <1> QED BY <1>1, <1>2, <1>3, <1>5 DEF Begin, TypeOK

\* A handler that begins: a request that was not there, or one that is refused
\* at once.
LEMMA HandleIs ==
    ASSUME Basic, NEW s \in Server, NEW k \in Key,
           NEW op \in Writes \cup {Election(t) : t \in Server}, Handle(s, k, op)
    PROVE  /\ NewRun \in Run /\ run[NewRun].phase = "Idle" /\ Arrive(NewRun)
           /\ s \in up
           /\ run'[NewRun].phase \in {"Ping", "ABORTED"}
           /\ run'[NewRun].key = IF op \in Writes THEN k ELSE CoordinatorKey
           /\ run'[NewRun].op = IF op \in Writes THEN op ELSE Election(s)
           /\ \A q \in Run \ {NewRun} : run'[q] = run[q]
           /\ UNCHANGED <<serverVars, handlers, faults>>
           /\ op \in Writes /\ k # CoordinatorKey => RunPaxos(NewRun, s, k, op)
  <1>1. NewRun \in Run /\ run[NewRun].phase = "Idle" /\ ArriveStep(NewRun)
    BY HandleArrives
  <1>2. TypeOK /\ run \in [Run -> RunLocals] /\ CoordinatorKey \in Key
    BY DEF Basic, TypeOK, Key
  <1>3. ASSUME NEW j \in Key, NEW o, RunPaxos(NewRun, s, j, o)
        PROVE  /\ s \in up /\ run'[NewRun].phase = "Ping" /\ run'[NewRun].key = j
               /\ run'[NewRun].op = o
               /\ \A q \in Run \ {NewRun} : run'[q] = run[q]
               /\ UNCHANGED <<serverVars, handlers, faults>>
    BY <1>1, <1>2, <1>3, RunPaxosIs
  <1>4. ASSUME NEW o, Begin(NewRun, s, CoordinatorKey, o, "ABORTED", 0, {})
        PROVE  /\ s \in up /\ run'[NewRun].phase = "ABORTED"
               /\ run'[NewRun].key = CoordinatorKey /\ run'[NewRun].op = o
               /\ \A q \in Run \ {NewRun} : run'[q] = run[q]
               /\ UNCHANGED <<serverVars, handlers, faults>>
    <2>1. /\ run' = [run EXCEPT ![NewRun] =
                        [NotStarted EXCEPT !.phase = "ABORTED", !.server = s,
                           !.key = CoordinatorKey, !.op = o, !.round = 0, !.todo = {}]]
          /\ s \in up /\ UNCHANGED <<serverVars, handlers, faults>>
      BY <1>4 DEF Begin
    <2>2. run'[NewRun] = [NotStarted EXCEPT !.phase = "ABORTED", !.server = s,
                             !.key = CoordinatorKey, !.op = o, !.round = 0, !.todo = {}]
      BY <1>1, <1>2, <2>1
    <2>3. run'[NewRun].phase = "ABORTED" /\ run'[NewRun].key = CoordinatorKey /\ run'[NewRun].op = o
      BY <2>2 DEF NotStarted
    <2>4. \A q \in Run \ {NewRun} : run'[q] = run[q]
      BY <1>2, <2>1
    <2> QED BY <2>1, <2>3, <2>4
  <1>5. CASE op \in Writes
    <2>1. ClientRequest(NewRun, s, k, op)
      <3>1. CASE op.type = "SET"
        <4>1. PutPair(NewRun, s, k, op.value) /\ op = [type |-> "SET", value |-> op.value]
          BY <1>5, <3>1, WritesAre DEF Handle, Writes
        <4> QED BY <4>1 DEF PutPair
      <3>2. CASE op.type = "DELETE"
        <4>1. DeletePair(NewRun, s, k) /\ op = [type |-> "DELETE", value |-> Nil]
          BY <1>5, <3>2, WritesAre DEF Handle, Writes
        <4> QED BY <4>1 DEF DeletePair
      <3> QED BY <1>5, <3>1, <3>2, WritesAre
    <2>2. CASE k = CoordinatorKey /\ Begin(NewRun, s, k, op, "ABORTED", 0, {})
      BY <1>1, <1>4, <1>5, <2>2 DEF ArriveStep
    <2>3. CASE k # CoordinatorKey /\ RunPaxos(NewRun, s, k, op)
      BY <1>1, <1>3, <1>5, <2>3 DEF ArriveStep
    <2> QED BY <2>1, <2>2, <2>3 DEF ClientRequest
  <1>6. CASE op \notin Writes
    <2>1. op.type = "SET_COORDINATOR"
      BY <1>6, WritesAre
    <2>2. RunPaxos(NewRun, s, CoordinatorKey, [type |-> "SET_COORDINATOR", value |-> s])
      BY <2>1 DEF Handle, ElectCoordinator
    <2> QED BY <1>1, <1>2, <1>3, <1>6, <2>2 DEF ArriveStep, Election
  <1> QED BY <1>5, <1>6

\* What a step of c's request makes of what may be read.
Tells(c) == UNCHANGED readable \/ \E status : Learns(c, status)

\* The thread of c's request goes on to m and keeps its request.
FlowGoes(c, m) ==
    /\ Tells(c)
    /\ m \in FlowLocals
    /\ m.phase \in {"Forwarded", "Electing", "ForwardedAgain"} => m.call \in Run
    /\ m.server = flow[c].server /\ m.key = flow[c].key /\ m.op = flow[c].op
    /\ m.alone = flow[c].alone
    /\ Fits(m, run'[m.call])
    /\ flow' = [flow EXCEPT ![c] = m]

\* Answers and changes of phase are such steps.
LEMMA AnsweredGoes ==
    ASSUME ServiceBasic, NEW c \in Client, NEW status \in Status, NEW value \in AnyValue,
           Answered(c, status, value)
    PROVE  \E m : FlowGoes(c, m) /\ m.phase = "Answered" /\ m.status = status /\ m.value = value
  <1> DEFINE m == [flow[c] EXCEPT !.phase = "Answered", !.status = status, !.value = value]
  <1>1. flow[c] \in FlowLocals /\ flow \in [Client -> FlowLocals]
    BY DEF ServiceBasic, ServiceTypeOK
  <1>2. flow' = [flow EXCEPT ![c] = m] /\ Tells(c)
    BY <1>1 DEF Answered, Tells
  <1>3. m \in FlowLocals
    BY <1>1 DEF FlowLocals, FlowPhase
  <1>4. /\ m.phase = "Answered" /\ m.status = status /\ m.value = value
        /\ m.server = flow[c].server /\ m.key = flow[c].key /\ m.op = flow[c].op
        /\ m.alone = flow[c].alone
    BY <1>1 DEF FlowLocals
  <1> HIDE DEF m
  <1> QED BY <1>2, <1>3, <1>4 DEF FlowGoes, Fits

LEMMA GoToGoes ==
    ASSUME ServiceBasic, NEW c \in Client, NEW phase \in {"Elect", "ForwardAgain"},
           GoTo(c, phase)
    PROVE  \E m : FlowGoes(c, m) /\ m.phase = phase /\ m.call = flow[c].call
  <1> DEFINE m == [flow[c] EXCEPT !.phase = phase]
  <1>1. flow[c] \in FlowLocals /\ flow \in [Client -> FlowLocals]
    BY DEF ServiceBasic, ServiceTypeOK
  <1>2. flow' = [flow EXCEPT ![c] = m] /\ Tells(c)
    BY <1>1 DEF GoTo, Tells
  <1>3. m \in FlowLocals
    BY <1>1 DEF FlowLocals, FlowPhase
  <1>4. /\ m.phase = phase /\ m.call = flow[c].call
        /\ m.server = flow[c].server /\ m.key = flow[c].key /\ m.op = flow[c].op
        /\ m.alone = flow[c].alone
    BY <1>1 DEF FlowLocals
  <1> HIDE DEF m
  <1> QED BY <1>2, <1>3, <1>4 DEF FlowGoes, Fits

LEMMA CallGoes ==
    ASSUME ServiceBasic, NEW c \in Client, NEW s \in Server, NEW k \in Key, NEW op,
           NEW phase \in {"Forwarded", "Electing", "ForwardedAgain"}, Call(c, s, k, op, phase),
           \/ /\ phase \in {"Forwarded", "ForwardedAgain"}
              /\ op \in Writes /\ op = flow[c].op /\ k = flow[c].key
           \/ /\ phase = "Electing"
              /\ s = flow[c].server /\ op = Election(s) /\ k = CoordinatorKey
    PROVE  \E m : FlowGoes(c, m) /\ m.phase = phase /\ m.call = NewRun
  <1> DEFINE m == [flow[c] EXCEPT !.phase = phase, !.call = NewRun]
  <1>1. flow[c] \in FlowLocals /\ flow \in [Client -> FlowLocals]
    BY DEF ServiceBasic, ServiceTypeOK
  <1>2. flow' = [flow EXCEPT ![c] = m] /\ Tells(c)
    BY <1>1 DEF Call, Tells
  <1>3. NewRun \in Run
    BY DEF Call, Handle, RunLeft, NewRun
  <1>4. m \in FlowLocals
    BY <1>1, <1>3 DEF FlowLocals, FlowPhase
  <1>5. /\ m.phase = phase /\ m.call = NewRun
        /\ m.server = flow[c].server /\ m.key = flow[c].key /\ m.op = flow[c].op
        /\ m.alone = flow[c].alone
    BY <1>1 DEF FlowLocals
  <1> HIDE DEF m
  <1>6. Fits(m, run'[NewRun])
    <2>1. Handle(s, k, op) /\ op \in Writes \cup {Election(t) : t \in Server}
      BY DEF Call
    <2>2. Basic
      BY DEF ServiceBasic, LifeBasic, LifeTypeOK, Basic
    <2>3. op = Election(s) => op \notin Writes
      BY WritesAre
    <2> QED BY <1>5, <2>1, <2>2, <2>3, HandleIs DEF Fits
  <1> QED BY <1>2, <1>3, <1>4, <1>5, <1>6 DEF FlowGoes

\* A request that is waited for has a server that runs, a key and an operation.
LEMMA WaitingIs ==
    ASSUME ServiceBasic, NEW c \in Client, Waiting(c)
    PROVE  /\ flow[c].server \in up /\ flow[c].server \in Server /\ flow[c].key \in Key
           /\ flow[c].op \in Writes \cup {Get}
           /\ Coordinator(c) \in Server \cup {Nil}
  BY DEF ServiceBasic, ServiceTypeOK, LifeTypeOK, TypeOK, Coordinator

\* What a step of RequestFlow does: its thread goes on, and perhaps a handler
\* begins, or a call is given up.
FlowStep(c) ==
    /\ Waiting(c)
    /\ \E m : FlowGoes(c, m)
    /\ UNCHANGED lifeVars \/ (NewRun \in Run /\ ArriveStep(NewRun))
    /\ late' = late \/ (\E x \in LateCall : late' = late \cup {x})
    /\ timeouts' = timeouts \/ TimesOut
    /\ UNCHANGED sent

LEMMA LateIs ==
    ASSUME ServiceBasic, NEW s \in up, NEW k \in Key, NEW op,
           op \in Writes \cup {Get} \/ op = Election(s), MayBeLate(s, k, op)
    PROVE  late' = late \/ \E x \in LateCall : late' = late \cup {x}
  <1>1. CASE op # Get
    <2>1. s \in Server
      BY DEF ServiceBasic, ServiceTypeOK, LifeTypeOK, TypeOK
    <2>2. op \in Writes \cup {Election(t) : t \in Server}
      BY <1>1, <2>1
    <2>3. [server |-> s, key |-> k, op |-> op] \in LateCall
      BY <2>2 DEF LateCall
    <2> QED BY <2>3 DEF MayBeLate
  <1>2. CASE op = Get
    BY <1>2 DEF MayBeLate
  <1> QED BY <1>1, <1>2

\* The forwards of RequestFlow.
LEMMA ForwardGoes ==
    ASSUME ServiceBasic, NEW c \in Client, Waiting(c), Coordinator(c) \in up,
           NEW phase \in {"Forwarded", "ForwardedAgain"},
           ForwardGet(c) \/ ForwardWrite(c, phase)
    PROVE  /\ \E m : FlowGoes(c, m)
           /\ UNCHANGED lifeVars \/ (NewRun \in Run /\ ArriveStep(NewRun))
  <1>0. Coordinator(c) \in Server /\ flow[c].key \in Key
    BY WaitingIs DEF ServiceBasic, ServiceTypeOK, LifeTypeOK, TypeOK
  <1>1. CASE ForwardGet(c)
    <2> DEFINE v == data[Coordinator(c)][flow[c].key]
    <2>1. v \in AnyValue
      BY <1>0 DEF ServiceBasic, ServiceTypeOK, LifeTypeOK, TypeOK
    <2>2. \E status \in Status : Answered(c, status, v)
      <3>1. PICK status : /\ Answered(c, status, v)
                          /\ status = CASE flow[c].key = CoordinatorKey -> "ABORTED"
                                        [] flow[c].key # CoordinatorKey /\ v = Nil -> "NOT_FOUND"
                                        [] OTHER -> "OK"
        BY <1>1 DEF ForwardGet
      <3>2. status \in {"ABORTED", "NOT_FOUND", "OK"}
        BY <3>1
      <3> QED BY <3>1, <3>2 DEF Status
    <2> QED BY <1>1, <2>1, <2>2, AnsweredGoes DEF ForwardGet
  <1>2. CASE ForwardWrite(c, phase)
    <2>1. Call(c, Coordinator(c), flow[c].key, flow[c].op, phase) /\ flow[c].op \in Writes
      BY <1>2 DEF ForwardWrite
    <2> QED BY <1>0, <2>1, CallGoes, HandleArrives DEF Call
  <1> QED BY <1>1, <1>2

LEMMA RequestFlowSteps ==
    ASSUME ServiceBasic, NEW c \in Client, RequestFlow(c)
    PROVE  FlowStep(c)
  <1>0. Waiting(c)
    BY DEF RequestFlow, Forward, ForwardReturns, Elect, ElectReturns, ForwardAgain,
           ForwardAgainReturns, Waiting
  <1>1. /\ flow[c].server \in up /\ flow[c].server \in Server /\ flow[c].key \in Key
        /\ flow[c].op \in Writes \cup {Get} /\ Nil \in AnyValue
    BY <1>0, WaitingIs DEF AnyValue
  <1>2. CASE Forward(c)
    <2>1. CASE Coordinator(c) = Nil /\ Answered(c, "ABORTED", Nil) /\ UNCHANGED <<lifeVars, timeouts, late>>
      BY <1>0, <1>1, <1>2, <2>1, AnsweredGoes DEF FlowStep, Forward, Status
    <2>2. CASE /\ Coordinator(c) \in up
               /\ ForwardGet(c) \/ ForwardWrite(c, "Forwarded")
               /\ UNCHANGED <<timeouts, late>>
      BY <1>0, <1>2, <2>2, ForwardGoes DEF FlowStep, Forward
    <2>3. CASE CoordinatorDown(c)
      BY <1>0, <1>2, <2>3, GoToGoes DEF FlowStep, Forward, CoordinatorDown
    <2>4. CASE /\ Coordinator(c) \in up
               /\ TimesOut
               /\ MayBeLate(Coordinator(c), flow[c].key, flow[c].op)
               /\ GoTo(c, "Elect")
               /\ UNCHANGED lifeVars
      BY <1>0, <1>1, <1>2, <2>4, GoToGoes, LateIs DEF FlowStep, Forward
    <2> QED BY <1>2, <2>1, <2>2, <2>3, <2>4 DEF Forward
  <1>3. CASE ForwardReturns(c)
    <2>1. CASE Returned(flow[c].call) /\ Answered(c, run[flow[c].call].phase, Nil) /\ UNCHANGED timeouts
      <3>1. run[flow[c].call].phase \in Status
        BY <2>1 DEF Returned, Status
      <3> QED BY <1>0, <1>1, <1>3, <2>1, <3>1, AnsweredGoes DEF FlowStep, ForwardReturns
    <2>2. CASE GoTo(c, "Elect") /\ (UNCHANGED timeouts \/ TimesOut)
      BY <1>0, <1>3, <2>2, GoToGoes DEF FlowStep, ForwardReturns
    <2> QED BY <1>3, <2>1, <2>2 DEF ForwardReturns
  <1>4. CASE Elect(c)
    <2> DEFINE s == flow[c].server
    <2>0. CoordinatorKey \in Key
      BY DEF Key
    <2>1. CASE Call(c, s, CoordinatorKey, Election(s), "Electing") /\ UNCHANGED <<late, timeouts>>
      <3>1. \E m : FlowGoes(c, m)
        BY <1>1, <2>0, <2>1, CallGoes
      <3>2. Handle(s, CoordinatorKey, Election(s)) /\ UNCHANGED sent
        BY <1>4, <2>1 DEF Call, Elect
      <3>3. NewRun \in Run /\ ArriveStep(NewRun)
        <4>1. Election(s) \in Writes \cup {Election(t) : t \in Server}
          BY <1>1
        <4> QED BY <1>1, <2>0, <3>2, <4>1, HandleArrives
      <3> QED BY <1>0, <2>1, <3>1, <3>2, <3>3 DEF FlowStep
    <2>2. CASE /\ TimesOut
               /\ MayBeLate(s, CoordinatorKey, Election(s))
               /\ Answered(c, "DEADLINE_EXCEEDED", Nil)
               /\ UNCHANGED lifeVars
      BY <1>0, <1>1, <1>4, <2>0, <2>2, AnsweredGoes, LateIs DEF FlowStep, Elect, Status
    <2> QED BY <1>4, <2>1, <2>2 DEF Elect
  <1>5. CASE ElectReturns(c)
    <2>1. CASE GoTo(c, "ForwardAgain") /\ UNCHANGED timeouts
      BY <1>0, <1>5, <2>1, GoToGoes DEF FlowStep, ElectReturns
    <2>2. ASSUME NEW status \in {"ABORTED", "DEADLINE_EXCEEDED"}, Answered(c, status, Nil),
                 UNCHANGED timeouts \/ TimesOut
          PROVE  FlowStep(c)
      BY <1>0, <1>1, <1>5, <2>2, AnsweredGoes DEF FlowStep, ElectReturns, Status
    <2> QED BY <1>5, <2>1, <2>2 DEF ElectReturns
  <1>6. CASE ForwardAgain(c)
    <2>1. CASE Coordinator(c) \in up /\ (ForwardGet(c) \/ ForwardWrite(c, "ForwardedAgain"))
      BY <1>0, <1>6, <2>1, ForwardGoes DEF FlowStep, ForwardAgain
    <2>2. CASE Answered(c, "UNAVAILABLE", Nil) /\ UNCHANGED lifeVars
      BY <1>0, <1>1, <1>6, <2>2, AnsweredGoes DEF FlowStep, ForwardAgain, Status
    <2> QED BY <1>6, <2>1, <2>2 DEF ForwardAgain
  <1>7. CASE ForwardAgainReturns(c)
    <2>1. CASE Returned(flow[c].call) /\ Answered(c, run[flow[c].call].phase, Nil)
      <3>1. run[flow[c].call].phase \in Status
        BY <2>1 DEF Returned, Status
      <3> QED BY <1>0, <1>1, <1>7, <2>1, <3>1, AnsweredGoes DEF FlowStep, ForwardAgainReturns
    <2>2. CASE Answered(c, "UNAVAILABLE", Nil)
      BY <1>0, <1>1, <1>7, <2>2, AnsweredGoes DEF FlowStep, ForwardAgainReturns, Status
    <2> QED BY <1>7, <2>1, <2>2 DEF ForwardAgainReturns
  <1> QED BY <1>2, <1>3, <1>4, <1>5, <1>6, <1>7 DEF RequestFlow

-----------------------------------------------------------------------------
(* Types *)

\* The servers' part of a step is one of Lifecycle.
LEMMA LateArrives ==
    ASSUME ServiceBasic, HandleLate
    PROVE  NewRun \in Run /\ ArriveStep(NewRun)
  <1>1. PICK x \in late : Handle(x.server, x.key, x.op)
    BY DEF HandleLate
  <1>2. x \in LateCall /\ up \subseteq Server
    BY <1>1 DEF ServiceBasic, ServiceTypeOK, LifeTypeOK, TypeOK
  <1>3. x.server \in Server /\ x.key \in Key /\ x.op \in Writes \cup {Election(t) : t \in Server}
    BY <1>2 DEF LateCall
  <1> QED BY <1>1, <1>3, HandleArrives

LEMMA ServiceIsMove ==
    ASSUME ServiceBasic, [ServiceNext]_serviceVars
    PROVE  [LifeMove]_lifeVars
  <1>1. ASSUME NEW c \in Client, RequestFlow(c)
        PROVE  [LifeMove]_lifeVars
    BY <1>1, RequestFlowSteps DEF FlowStep, LifeMove
  <1>2. ASSUME NEW c, NEW s, NEW k, NEW op, Send(c, s, k, op)
        PROVE  UNCHANGED lifeVars
    BY <1>2 DEF Send
  <1>3. ASSUME NEW s \in Server, ServerStep(s) \/ ProcessEnds(s)
        PROVE  LifeMove
    <2>1. AssertFails(s) => Initialize(s)
      BY DEF Initialize
    <2> QED BY <1>3, <2>1 DEF ServerStep, ProcessEnds, LifeMove
  <1>4. CASE HandleLate
    BY <1>4, LateArrives DEF LifeMove
  <1> QED BY <1>1, <1>2, <1>3, <1>4 DEF ServiceNext, LifeMove, serviceVars

\* What ServiceTypeOK says of the clients.
FlowTypes ==
    /\ flow \in [Client -> FlowLocals]
    /\ late \subseteq LateCall
    /\ sent \in 0..MaxRequests /\ timeouts \in 0..MaxTimeouts
    /\ readable \in [Key -> SUBSET AnyValue]
    /\ \A c \in Client : Waiting(c) =>
          flow[c].server \in up /\ flow[c].key \in Key /\ flow[c].op \in Writes \cup {Get}
    /\ \A c \in Client : flow[c].phase \in {"Forwarded", "Electing", "ForwardedAgain"} =>
          flow[c].call \in Run

\* What a client learns has a type.
LEMMA TellsTypes ==
    ASSUME ServiceBasic, NEW c \in Client, Waiting(c), Tells(c)
    PROVE  readable' \in [Key -> SUBSET AnyValue]
  <1>1. /\ readable \in [Key -> SUBSET AnyValue]
        /\ flow[c].key \in Key /\ flow[c].op.value \in AnyValue
    BY WritesAre DEF ServiceBasic, ServiceTypeOK, Get, AnyValue
  <1>2. CASE UNCHANGED readable
    BY <1>1, <1>2
  <1>3. ASSUME NEW status, Learns(c, status)
        PROVE  readable' \in [Key -> SUBSET AnyValue]
    <2>1. ASSUME NEW S \in SUBSET AnyValue, readable' = [readable EXCEPT ![flow[c].key] = S]
          PROVE  readable' \in [Key -> SUBSET AnyValue]
      BY <1>1, <2>1
    <2>2. /\ {flow[c].op.value} \in SUBSET AnyValue
          /\ readable[flow[c].key] \cup {flow[c].op.value} \in SUBSET AnyValue
      BY <1>1
    <2>3. \/ UNCHANGED readable
          \/ readable' = [readable EXCEPT ![flow[c].key] = {flow[c].op.value}]
          \/ readable' = [readable EXCEPT ![flow[c].key] = readable[flow[c].key] \cup {flow[c].op.value}]
      BY <1>3 DEF Learns
    <2> QED BY <1>1, <2>1, <2>2, <2>3
  <1> QED BY <1>2, <1>3 DEF Tells

\* RequestFlow keeps its types.
LEMMA FlowTypesFlow ==
    ASSUME ServiceBasic, NEW c \in Client, FlowStep(c), up' = up
    PROVE  FlowTypes'
  <1>0. FlowTypes
    BY DEF ServiceBasic, ServiceTypeOK, FlowTypes
  <1>1. PICK m : FlowGoes(c, m)
    BY DEF FlowStep
  <1>2. /\ flow' \in [Client -> FlowLocals]
        /\ \A d \in Client : flow'[d] = IF d = c THEN m ELSE flow[d]
    BY <1>0, <1>1 DEF FlowGoes, FlowTypes
  <1>3. late' \subseteq LateCall'
    <2>1. LateCall' = LateCall
      BY DEF LateCall
    <2> QED BY <1>0, <2>1 DEF FlowStep, FlowTypes
  <1>4. sent' \in 0..MaxRequests /\ timeouts' \in 0..MaxTimeouts
    BY <1>0, RequestAssumption DEF FlowStep, FlowTypes, TimesOut
  <1>5. ASSUME NEW d \in Client, Waiting(d)'
        PROVE  /\ flow'[d].server \in up' /\ flow'[d].key \in Key
               /\ flow'[d].op \in Writes \cup {Get}
    BY <1>0, <1>1, <1>2, <1>5 DEF FlowStep, FlowGoes, FlowTypes, Waiting
  <1>6. ASSUME NEW d \in Client, flow'[d].phase \in {"Forwarded", "Electing", "ForwardedAgain"}
        PROVE  flow'[d].call \in Run
    BY <1>0, <1>1, <1>2, <1>6 DEF FlowGoes, FlowTypes
  <1>7. readable' \in [Key -> SUBSET AnyValue]
    BY <1>1, TellsTypes DEF FlowStep, FlowGoes
  <1> QED BY <1>2, <1>3, <1>4, <1>5, <1>6, <1>7 DEF FlowTypes

\* So do the requests that clients send,
LEMMA FlowTypesSend ==
    ASSUME ServiceBasic, NEW c \in Client, NEW s \in Server, NEW k \in Key,
           NEW op \in Writes \cup {Get}, Send(c, s, k, op)
    PROVE  FlowTypes'
  <1> DEFINE m == [NoFlow EXCEPT !.phase = "Forward", !.server = s, !.key = k, !.op = op,
                                 !.alone = NoThreads(k)]
  <1>0. FlowTypes /\ UNCHANGED <<up, late, timeouts, readable>> /\ sent' = sent + 1 /\ sent < MaxRequests
        /\ s \in up
    BY DEF ServiceBasic, ServiceTypeOK, FlowTypes, Send, lifeVars, vars, serverVars
  <1>1. m \in FlowLocals /\ m.phase = "Forward" /\ m.server = s /\ m.key = k /\ m.op = op
    <2>1. NoThreads(k) \in BOOLEAN
      BY DEF NoThreads
    <2> QED BY <2>1 DEF NoFlow, FlowLocals, FlowPhase, AnyValue
  <1>2. flow' = [flow EXCEPT ![c] = m]
    BY DEF Send
  <1> HIDE DEF m
  <1>3. /\ flow' \in [Client -> FlowLocals]
        /\ \A d \in Client : flow'[d] = IF d = c THEN m ELSE flow[d]
    BY <1>0, <1>1, <1>2 DEF FlowTypes
  <1>4. late' \subseteq LateCall' /\ sent' \in 0..MaxRequests /\ timeouts' \in 0..MaxTimeouts
    BY <1>0, RequestAssumption DEF FlowTypes, LateCall
  <1> QED BY <1>0, <1>1, <1>3, <1>4 DEF FlowTypes, Waiting

\* and a server that ends.
LEMMA FlowTypesEnds ==
    ASSUME ServiceBasic, NEW s \in Server, CallsBreak(s), up' = up \ {s}
    PROVE  FlowTypes'
  <1>0. FlowTypes /\ up \subseteq Server
    BY DEF ServiceBasic, ServiceTypeOK, FlowTypes, LifeTypeOK, TypeOK
  <1> DEFINE broken == {c \in Client : Waiting(c) /\ flow[c].server = s}
             begun  == {[server |-> Coordinator(c), key |-> flow[c].key, op |-> flow[c].op] :
                          c \in {d \in broken : /\ flow[d].phase \in {"Forward", "ForwardAgain"}
                                                /\ Coordinator(d) \in up /\ flow[d].op # Get}}
             Ended(m) == [m EXCEPT !.phase = "Answered", !.status = "UNAVAILABLE"]
  <1>1. /\ flow' = [c \in Client |-> IF c \in broken THEN Ended(flow[c]) ELSE flow[c]]
        /\ \E more \in SUBSET begun : late' = {x \in late \cup more : x.server # s}
        /\ UNCHANGED <<sent, timeouts>>
    BY DEF CallsBreak
  <1>2. \A m \in FlowLocals : Ended(m) \in FlowLocals /\ Ended(m).phase = "Answered"
    BY DEF FlowLocals, FlowPhase, Status
  <1>3. begun \subseteq LateCall
    <2> SUFFICES ASSUME NEW c \in broken, Coordinator(c) \in up, flow[c].op # Get
                 PROVE  [server |-> Coordinator(c), key |-> flow[c].key, op |-> flow[c].op]
                            \in LateCall
      OBVIOUS
    <2>1. flow[c].key \in Key /\ flow[c].op \in Writes
      BY <1>0 DEF FlowTypes
    <2> QED BY <2>1 DEF LateCall
  <1> HIDE DEF Ended, begun
  <1>4. late' \subseteq LateCall'
    <2>1. PICK more \in SUBSET begun : late' = {x \in late \cup more : x.server # s}
      BY <1>1
    <2>2. \A x \in late' : x \in LateCall /\ x.server # s
      BY <1>0, <1>3, <2>1 DEF FlowTypes
    <2>3. \A x \in LateCall : x.server # s => x \in LateCall'
      BY DEF LateCall
    <2> QED BY <2>2, <2>3
  <1>5. flow' \in [Client -> FlowLocals]
    BY <1>0, <1>1, <1>2 DEF FlowTypes
  <1>6. ASSUME NEW c \in Client, flow'[c].phase # "Answered"
        PROVE  flow'[c] = flow[c] /\ (Waiting(c) => flow[c].server # s)
    BY <1>0, <1>1, <1>2, <1>6 DEF FlowTypes
  <1>7. readable' \in [Key -> SUBSET AnyValue]
    <2>1. \A c \in broken : flow[c].op.value \in AnyValue
      BY <1>0, WritesAre DEF FlowTypes, Get, AnyValue
    <2>2. ASSUME NEW k \in Key
          PROVE  readable[k] \cup {flow[c].op.value : c \in {d \in broken : flow[d].key = k
                                                                       /\ flow[d].op # Get}}
                     \in SUBSET AnyValue
      BY <1>0, <2>1 DEF FlowTypes
    <2> QED BY <2>2 DEF CallsBreak
  <1> QED BY <1>0, <1>1, <1>4, <1>5, <1>6, <1>7 DEF FlowTypes, Waiting

\* What a step of the servers does to those that run.
LEMMA UpIs ==
    ASSUME ServiceBasic, ServiceNext
    PROVE  /\ \A c \in Client : RequestFlow(c) => up' = up
           /\ HandleLate => up' = up
           /\ \A p \in Run : PaxosStep(p) => up' = up
           /\ \A s \in Server : Start(s) => up' = up \cup {s}
           /\ \A s \in Server : ProcessEnds(s) => up' = up \ {s}
  <1>0. Basic
    BY DEF ServiceBasic, LifeBasic, LifeTypeOK, Basic
  <1>1. UNCHANGED lifeVars => up' = up
    BY DEF lifeVars, vars, serverVars
  <1>2. ASSUME NEW s \in Server, ProcessEnds(s)
        PROVE  up' = up \ {s}
    BY <1>2 DEF ProcessEnds, CrashProcess, Crash, AssertFails, Die
  <1> QED BY <1>0, <1>1, <1>2, RequestFlowSteps, LateArrives, PaxosKeepsUp DEF FlowStep, Start

\* What a run was begun for does not change.
LEMMA RunsKeepRequests ==
    ASSUME ServiceBasic, [ServiceNext]_serviceVars, NEW p \in Run, run[p].phase # "Idle"
    PROVE  SameRequest(p, run'[p]) /\ run'[p].phase # "Idle"
  <1>1. Basic
    BY DEF ServiceBasic, LifeBasic, LifeTypeOK, Basic
  <1>2. CASE run' = run
    BY <1>2 DEF SameRequest
  <1>3. [AnyStep]_vars \/ run' = run
    BY ServiceIsMove, MoveKinds DEF MainStep, lifeVars, vars
  <1> QED BY <1>1, <1>2, <1>3, RunStays

\* RequestFlow waits for the runs it has asked for.
LEMMA CallsFitStep ==
    ASSUME ServiceBasic, [ServiceNext]_serviceVars
    PROVE  CallsFit'
  <1>0. flow \in [Client -> FlowLocals] /\ CallsFit
    BY DEF ServiceBasic, ServiceTypeOK
  <1> SUFFICES ASSUME NEW c \in Client
               PROVE  Fits(flow'[c], run'[flow'[c].call])
    BY DEF CallsFit
  <1>1. CASE flow'[c] = flow[c]
    <2>1. flow[c].phase \in {"Forwarded", "ForwardedAgain", "Electing"} => flow[c].call \in Run
      BY DEF ServiceBasic, ServiceTypeOK
    <2>2. Fits(flow[c], run[flow[c].call])
      BY <1>0 DEF CallsFit
    <2> QED BY <1>1, <2>1, <2>2, RunsKeepRequests DEF Fits, SameRequest
  <1>2. CASE flow'[c].phase \in {"Forward", "Answered"}
    BY <1>2 DEF Fits
  <1>3. ASSUME NEW d \in Client, RequestFlow(d)
        PROVE  Fits(flow'[c], run'[flow'[c].call])
    <2>1. PICK m : FlowGoes(d, m)
      BY <1>3, RequestFlowSteps DEF FlowStep
    <2>2. flow'[c] = IF c = d THEN m ELSE flow[c]
      BY <1>0, <2>1 DEF FlowGoes
    <2> QED BY <1>1, <2>1, <2>2 DEF FlowGoes
  <1>4. ASSUME NEW d \in Client, NEW s, NEW k, NEW op, Send(d, s, k, op)
        PROVE  flow'[c] = flow[c] \/ flow'[c].phase = "Forward"
    <2> DEFINE m == [NoFlow EXCEPT !.phase = "Forward", !.server = s, !.key = k, !.op = op,
                                   !.alone = NoThreads(k)]
    <2>1. m.phase = "Forward"
      BY DEF NoFlow
    <2>2. flow' = [flow EXCEPT ![d] = m]
      BY <1>4 DEF Send
    <2> HIDE DEF m
    <2> QED BY <1>0, <2>1, <2>2
  <1>5. ASSUME NEW s \in Server, CallsBreak(s)
        PROVE  flow'[c] = flow[c] \/ flow'[c].phase = "Answered"
    <2>1. \/ flow'[c] = flow[c]
          \/ flow'[c] = [flow[c] EXCEPT !.phase = "Answered", !.status = "UNAVAILABLE"]
      BY <1>5 DEF CallsBreak
    <2>2. [flow[c] EXCEPT !.phase = "Answered", !.status = "UNAVAILABLE"].phase = "Answered"
      BY <1>0 DEF FlowLocals
    <2> QED BY <2>1, <2>2
  <1> QED BY <1>1, <1>2, <1>3, <1>4, <1>5
          DEF ServiceNext, HandleLate, ServerStep, ProcessEnds, serviceVars, clientVars

\* Every step keeps the types.
LEMMA ServiceBasicStep == ServiceBasic /\ [ServiceNext]_serviceVars => ServiceBasic'
  <1> SUFFICES ASSUME ServiceBasic, [ServiceNext]_serviceVars PROVE ServiceBasic'
    OBVIOUS
  <1>0. FlowTypes
    BY DEF ServiceBasic, ServiceTypeOK, FlowTypes
  <1>1. LifeBasic'
    BY ServiceIsMove, LifeBasicStep DEF ServiceBasic
  <1>2. ASSUME UNCHANGED clientVars, up \subseteq up'
        PROVE  FlowTypes'
    <2>1. LateCall \subseteq LateCall'
      BY <1>2 DEF LateCall
    <2> QED BY <1>0, <1>2, <2>1 DEF FlowTypes, clientVars, Waiting
  <1>3. CASE HandleLate
    <2>1. up' = up /\ late' \subseteq late /\ UNCHANGED <<flow, sent, timeouts, readable>>
      BY <1>3, UpIs DEF HandleLate, ServiceNext
    <2>2. LateCall' = LateCall
      BY <2>1 DEF LateCall
    <2> QED BY <1>0, <1>1, <2>1, <2>2, CallsFitStep
            DEF FlowTypes, Waiting, ServiceBasic, ServiceTypeOK, LifeBasic
  <1>4. CASE UNCHANGED serviceVars
    <2>1. UNCHANGED clientVars /\ up' = up
      BY <1>4 DEF serviceVars, lifeVars, vars, serverVars
    <2> QED BY <1>1, <1>2, <2>1, CallsFitStep DEF FlowTypes, ServiceBasic, ServiceTypeOK, LifeBasic
  <1>5. CASE ServiceNext /\ ~ HandleLate
    <2>1. ASSUME NEW c \in Client, NEW s \in Server, NEW k \in Key,
                 NEW op \in Writes \cup {Get}, Send(c, s, k, op)
          PROVE  FlowTypes'
      BY <2>1, FlowTypesSend
    <2>2. ASSUME NEW c \in Client, RequestFlow(c)
          PROVE  FlowTypes'
      BY <1>5, <2>2, UpIs, RequestFlowSteps, FlowTypesFlow
    <2>3. ASSUME NEW p \in Run, PaxosStep(p), UNCHANGED clientVars
          PROVE  FlowTypes'
      BY <1>2, <1>5, <2>3, UpIs
    <2>4. ASSUME NEW s \in Server, ServerStep(s)
          PROVE  FlowTypes'
      BY <1>2, <1>5, <2>4, UpIs DEF ServerStep
    <2>5. ASSUME NEW s \in Server, ProcessEnds(s)
          PROVE  FlowTypes'
      BY <1>5, <2>5, UpIs, FlowTypesEnds DEF ProcessEnds
    <2>6. FlowTypes'
      BY <1>5, <2>1, <2>2, <2>3, <2>4, <2>5 DEF ServiceNext
    <2> QED BY <1>1, <2>6, CallsFitStep DEF FlowTypes, ServiceBasic, ServiceTypeOK, LifeBasic
  <1> QED BY <1>3, <1>4, <1>5

-----------------------------------------------------------------------------
(* The servers after the first election *)

\* The first election is a run that was carried through.
LEMMA FirstElectionIs ==
    ASSUME ServiceInit
    PROVE  /\ FirstElection \in Run
           /\ \A p \in Run : run[p] = IF p = FirstElection THEN Elected ELSE NotStarted
           /\ Elected.phase = "OK" /\ Elected.server = First /\ Elected.key = CoordinatorKey
           /\ Elected.op = Election(First) /\ Elected.round = 1
           /\ Elected.live = {First} /\ Elected.promised = {First}
           /\ Elected.accepted = {First} /\ Elected.proposal = Election(First)
           /\ Elected.best = NothingAccepted /\ Elected.todo = {}
           /\ Election(First) # NoProposal
           /\ Majority({First}, {First})
  <1>1. FirstElection \in Run
    BY FirstAssumption DEF FirstElection
  <1>2. Majority({First}, {First})
    BY FS_Singleton DEF Majority
  <1>3. Election(First) # NoProposal
    BY DEF Election, NoProposal
  <1> QED BY <1>1, <1>2, <1>3 DEF ServiceInit, Elected, NotStarted

\* The replicas have logged the first election and nothing else.
LEMMA FirstLogsAre ==
    ASSUME ServiceInit, NEW s \in Server, NEW k \in Key
    PROVE  /\ IsRounds(logs[s][k])
           /\ k # CoordinatorKey => DOMAIN logs[s][k] = {}
           /\ k = CoordinatorKey =>
                 /\ DOMAIN logs[s][k] = {1}
                 /\ logs[s][k][1].accepted_id = 1
                 /\ [type  |-> logs[s][k][1].accepted_type,
                     value |-> logs[s][k][1].accepted_value] = Election(First)
  <1> DEFINE first == AddAccepted(NoRounds, 1, ProposeId, Election(First))
  <1>1. logs[s][k] = IF k = CoordinatorKey THEN first ELSE NoRounds
    BY DEF ServiceInit
  <1>2. Election(First) \in Proposal
    BY FirstAssumption DEF Election, Proposal, OperationType, AnyValue
  <1>3. IsRounds(NoRounds) /\ IsRounds(first)
    BY <1>2, NoRoundsType, AddAcceptedType
  <1>4. /\ DOMAIN NoRounds = {} /\ DOMAIN first = {1}
        /\ first[1].accepted_id = 1 /\ first[1].accepted_type = Election(First).type
        /\ first[1].accepted_value = Election(First).value
    BY DEF AddAccepted, NoRounds
  <1>5. [type |-> Election(First).type, value |-> Election(First).value] = Election(First)
    BY DEF Election
  <1> QED BY <1>1, <1>3, <1>4, <1>5

LEMMA ServiceBasicInit == ServiceInit => ServiceBasic
  <1> SUFFICES ASSUME ServiceInit PROVE ServiceBasic
    OBVIOUS
  <1>1. TypeOK
    <2>1. run \in [Run -> RunLocals]
      <3>1. Election(First) \in Proposal /\ NoProposal \in Proposal /\ First \in Server
        BY FirstAssumption DEF Election, NoProposal, Proposal, OperationType, AnyValue
      <3>2. NotStarted \in RunLocals
        BY <3>1 DEF NotStarted, RunLocals, NothingAccepted, Phase
      <3>3. Elected \in RunLocals
        BY <3>1, <3>2 DEF Elected, RunLocals, NotStarted, NothingAccepted, Phase, Key
      <3> QED BY <3>2, <3>3 DEF ServiceInit
    <2>2. /\ logs = [s \in Server |-> [k \in Key |-> logs[s][k]]]
          /\ \A s \in Server, k \in Key : IsRounds(logs[s][k])
      BY FirstLogsAre DEF ServiceInit
    <2> QED BY <2>1, <2>2, FirstElectionIs, FirstAssumption DEF ServiceInit, TypeOK, AnyValue
  <1>2. LifeTypeOK
    <2> DEFINE ready == [NotStarting EXCEPT !.phase = "Ready", !.source = First]
    <2>1. ready \in BootLocals /\ ready.phase = "Ready"
      <3>1. NotStarting \in BootLocals
        BY LifecycleAssumption DEF NotStarting, BootLocals, BootPhase
      <3> QED BY <3>1, FirstAssumption DEF BootLocals, BootPhase
    <2>2. boot = [s \in Server |-> ready] /\ starts = 0 /\ up = Server
      BY DEF ServiceInit
    <2> HIDE DEF ready
    <2> QED BY <1>1, <2>1, <2>2, LifecycleAssumption DEF LifeTypeOK
  <1>3. Begun
    BY FirstElectionIs DEF ServiceInit, Begun, NotStarted, Key
  <1>4. FlowTypes
    <2>1. NoFlow \in FlowLocals
      BY DEF NoFlow, FlowLocals, FlowPhase, AnyValue
    <2>2. \A c \in Client : flow[c].phase = "Idle"
      BY DEF ServiceInit, NoFlow
    <2>3. late \subseteq LateCall
      BY DEF ServiceInit
    <2>4. readable \in [Key -> SUBSET AnyValue]
      BY DEF ServiceInit, AnyValue
    <2> QED BY <2>1, <2>2, <2>3, <2>4, RequestAssumption DEF ServiceInit, FlowTypes, Waiting
  <1>5. CallsFit
    BY DEF ServiceInit, NoFlow, CallsFit, Fits
  <1> QED BY <1>2, <1>3, <1>4, <1>5 DEF ServiceBasic, LifeBasic, ServiceTypeOK, FlowTypes

LEMMA LifeIInvFirst == ServiceInit => LifeIInv
  <1> SUFFICES ASSUME ServiceInit PROVE LifeIInv
    OBVIOUS
  <1>1. LifeTypeOK /\ Begun
    BY ServiceBasicInit DEF ServiceBasic, LifeBasic
  <1>2. /\ FirstElection \in Run /\ run[FirstElection] = Elected /\ HasProposed(FirstElection)
        /\ Chosen(FirstElection)
        /\ \A p \in Run \ {FirstElection} :
              /\ run[p] = NotStarted /\ ~ HasProposed(p) /\ ~ HasInstance(p)
              /\ run[p].phase = "Idle" /\ run[p].best.id = 0 /\ run[p].accepted = {}
    BY FirstElectionIs DEF HasProposed, Chosen, Majority, NotStarted, NothingAccepted
  <1>3. RequestsFitKeys
    BY <1>2, FirstElectionIs DEF RequestsFitKeys, FitsKey, Election
  <1>4. RunsInOrder
    <2>1. SameInstance(FirstElection, FirstElection)
      BY DEF SameInstance
    <2>2. Requested(FirstElection, Election(First))
      BY <1>2, <2>1, FirstElectionIs DEF Requested
    <2>3. InOrder(FirstElection)
      <3>1. /\ run[FirstElection].best.id = 0 /\ run[FirstElection].phase = "OK"
            /\ run[FirstElection].proposal = Election(First)
            /\ Majority(run[FirstElection].promised, run[FirstElection].live)
        <4>1. run[FirstElection] = Elected /\ NothingAccepted.id = 0
          BY <1>2 DEF NothingAccepted
        <4> QED BY <4>1, FirstElectionIs
      <3> QED BY <1>2, <2>2, <3>1 DEF InOrder
    <2>4. \A p \in Run \ {FirstElection} : InOrder(p)
      BY <1>2 DEF InOrder
    <2> QED BY <2>3, <2>4 DEF RunsInOrder, InOrder
  <1>5. HandlersInOrder
    BY DEF ServiceInit, HandlersInOrder
  <1>6. LogsHoldProposals
    BY <1>2, FirstElectionIs, FirstLogsAre DEF LogsHoldProposals
  <1>7. CopiesDecided
    BY DEF ServiceInit, CopiesDecided, NotStarting
  <1>8. RecoveredWasChosen
    BY <1>2, FirstElectionIs DEF ServiceInit, RecoveredWasChosen, Election
  <1> QED BY <1>1, <1>3, <1>4, <1>5, <1>6, <1>7, <1>8 DEF LifeIInv

\* The locals of RequestFlow keep their types; no request is waited for, and no
\* call is left to handle, at a server that has ended; and RequestFlow waits for
\* the run of its own request, or of its own nomination (RequestFlow and
\* ElectNewCoordinator of kv-store-service-impl.cc).
THEOREM ServiceTypesCorrect == ServiceSpec => []ServiceTypeOK
  <1>1. ServiceBasic => ServiceTypeOK
    BY DEF ServiceBasic
  <1> QED BY ServiceBasicInit, ServiceBasicStep, <1>1, PTL DEF ServiceSpec

\* What clients ask for, at whatever server, disturbs nothing of what holds of
\* servers that start, end and recover.
LEMMA ServiceLife == ServiceSpec => [](ServiceBasic /\ LifeIInv)
  <1>1. ServiceBasic /\ LifeIInv /\ [ServiceNext]_serviceVars => (ServiceBasic /\ LifeIInv)'
    BY ServiceBasicStep, ServiceIsMove, LifeIInvStep
  <1> QED BY ServiceBasicInit, LifeIInvFirst, <1>1, PTL DEF ServiceSpec

\* Whatever a replica stores, and whomever it takes for the coordinator, was
\* decided, also when requests come in by RequestFlow: forwards that time out,
\* that are repeated after an election, or that nobody waits for any more.
THEOREM ServiceKeepsRecovery == ServiceSpec => []RecoveredWasChosen
  <1>1. ServiceBasic /\ LifeIInv => RecoveredWasChosen
    BY DEF LifeIInv
  <1> QED BY ServiceLife, <1>1, PTL

\* And no log takes over what was not proposed in its instance.
THEOREM ServiceKeepsProposals == ServiceSpec => []AcceptedWasProposed
  <1>1. ServiceBasic /\ LifeIInv => AcceptedWasProposed
    BY LifeOrderly, OrderlyLogs
  <1> QED BY ServiceLife, <1>1, PTL

-----------------------------------------------------------------------------
(* Rounds *)

\* A thread that had not begun begins by a request.
LEMMA ArrivesNow ==
    ASSUME Basic, [AnyStep]_vars, NEW p \in Run, run[p].phase = "Idle", run'[p] # run[p]
    PROVE  Arrive(p)
  <1>0. run \in [Run -> RunLocals] /\ ~ Active(p)
    BY DEF Basic, TypeOK, Active, Working
  <1>1. ASSUME NEW q \in Run,
               Proceed(q) \/ (\E s \in Server : Serve(q, s) \/ DeadlineExceeded(q, s))
        PROVE  FALSE
    <2>1. q = p
      BY <1>1, OtherRuns
    <2>2. ~ Proceed(p)
      BY <1>0, ProceedChange
    <2>3. \A s \in Server : ~ Serve(p, s)
      BY ServeRight
    <2>4. \A s \in Server : ~ DeadlineExceeded(p, s)
      BY <1>0, DeadlineChange
    <2> QED BY <1>1, <2>1, <2>2, <2>3, <2>4
  <1>2. ASSUME NEW s \in Server, Die(s)
        PROVE  FALSE
    BY <1>0, <1>2 DEF Die, RunsOf
  <1>3. PICK q \in Run : Arrive(q)
    BY <1>1, <1>2 DEF AnyStep, vars
  <1> QED BY <1>3, OtherRuns

\* A request for a key of the clients arrives by RunPaxos.
LEMMA ArrivesByRunPaxos ==
    ASSUME TypeOK, NEW p \in Run, Arrive(p), run'[p].key \in DataKey
    PROVE  \E s \in up \cap Server : \E op : RunPaxos(p, s, run'[p].key, op)
  <1>1. PICK s \in Server :
            \/ \E k \in Key : (\E v \in Value : PutPair(p, s, k, v)) \/ DeletePair(p, s, k)
            \/ ElectCoordinator(p, s)
    BY DEF Arrive
  <1>2. CoordinatorKey \in Key /\ CoordinatorKey \notin DataKey /\ up \subseteq Server
    BY KeyAssumption DEF Key, TypeOK
  <1>3. ASSUME NEW k \in Key, NEW op, RunPaxos(p, s, k, op)
        PROVE  run'[p].key = k /\ s \in up
    BY <1>3, RunPaxosIs
  <1>4. ~ ElectCoordinator(p, s)
    BY <1>2, <1>3 DEF ElectCoordinator
  <1>5. ASSUME NEW k \in Key, NEW op, ClientRequest(p, s, k, op)
        PROVE  RunPaxos(p, s, k, op)
    <2>1. Begin(p, s, CoordinatorKey, op, "ABORTED", 0, {}) => run'[p].key = CoordinatorKey
      BY DEF Begin, TypeOK
    <2> QED BY <1>2, <1>5, <2>1 DEF ClientRequest
  <1>6. \E k \in Key : \E op : ClientRequest(p, s, k, op)
    BY <1>1, <1>4 DEF PutPair, DeletePair
  <1> QED BY <1>3, <1>5, <1>6

\* What has a round keeps it.
LEMMA RoundStays ==
    ASSUME Basic, [AnyStep]_vars, NEW p \in Run, run[p].round > 0
    PROVE  run'[p].key = run[p].key /\ run'[p].round = run[p].round /\ run[p].phase # "Idle"
  <1>1. run[p].phase # "Idle"
    BY DEF Basic, Begun, NotStarted
  <1> QED BY <1>1, RunStays DEF SameRequest

\* Rounds are given out one after the other.
LEMMA RoundsFollowStep ==
    ASSUME Basic, RoundsFollow, [AnyStep]_vars
    PROVE  RoundsFollow'
  <1>0. /\ run \in [Run -> RunLocals] /\ TypeOK
        /\ \A p \in Run : run[p].round \in Nat
        /\ DataKey \subseteq Key
    BY DEF Basic, TypeOK, RunLocals, Key
  <1>1. ASSUME NEW k, NEW r \in Nat \ {0}, \E o \in Run : run[o].key = k /\ run[o].round = r
        PROVE  \E o \in Run : run'[o].key = k /\ run'[o].round = r
    <2>1. PICK o \in Run : run[o].key = k /\ run[o].round = r
      BY <1>1
    <2> QED BY <2>1, RoundStays
  <1>2. ASSUME NEW p \in Run, run'[p].key \in DataKey, run'[p].round > 1
        PROVE  \E o \in Run : run'[o].key = run'[p].key /\ run'[o].round = run'[p].round - 1
    <2>1. CASE run[p].phase # "Idle"
      <3>1. run'[p].key = run[p].key /\ run'[p].round = run[p].round
        BY <2>1, RunStays DEF SameRequest
      <3>2. PICK o \in Run : run[o].key = run[p].key /\ run[o].round = run[p].round - 1
        BY <1>2, <3>1 DEF RoundsFollow
      <3>3. run[p].round - 1 \in Nat \ {0}
        BY <1>0, <1>2, <3>1
      <3>4. run'[o].key = run[o].key /\ run'[o].round = run[o].round
        <4>1. run[o].round \in Nat \ {0}
          BY <3>2, <3>3
        <4>2. run[o].round > 0
          BY <4>1
        <4> QED BY <4>2, RoundStays
      <3> QED BY <3>1, <3>2, <3>4
    <2>2. CASE run[p].phase = "Idle"
      <3>1. run'[p] # run[p]
        BY <1>2, <2>2 DEF Basic, Begun, NotStarted
      <3>2. PICK s \in up \cap Server : \E op : RunPaxos(p, s, run'[p].key, op)
        BY <1>0, <1>2, <2>2, <3>1, ArrivesNow, ArrivesByRunPaxos
      <3>3. PICK n \in Nat : IsLatestRound(logs[s][run'[p].key], n) /\ run'[p].round = n + 1
        BY <1>0, <1>2, <3>2, RunPaxosIs
      <3>4. n \in DOMAIN logs[s][run'[p].key] /\ n \in Nat \ {0} /\ n = run'[p].round - 1
        BY <1>2, <3>3 DEF IsLatestRound
      <3>5. \E o \in Run : run[o].key = run'[p].key /\ run[o].round = n
        BY <1>2, <3>2, <3>4 DEF RoundsFollow
      <3> QED BY <1>1, <3>4, <3>5
    <2> QED BY <2>1, <2>2
  <1>3. ASSUME NEW s \in Server, NEW k \in DataKey, NEW r \in DOMAIN logs'[s][k]
        PROVE  \E o \in Run : run'[o].key = k /\ run'[o].round = r
    <2>0. k \in Key /\ r \in Nat \ {0}
      <3>1. IsRounds(logs'[s][k])
        BY <1>0, BasicStep DEF Basic, TypeOK
      <3> QED BY <1>0, <1>3, <3>1 DEF IsRounds
    <2>1. CASE r \in DOMAIN logs[s][k]
      BY <1>1, <2>0, <2>1 DEF RoundsFollow
    <2>2. CASE r \notin DOMAIN logs[s][k]
      <3>1. PICK q \in Run, t \in Server : Serve(q, t)
        <4>1. ASSUME NEW t \in Server, Die(t) PROVE FALSE
          <5>1. logs'[s][k] = logs[s][k] \/ logs'[s][k] = NoRounds
            BY <1>0, <2>0, <4>1 DEF Die, TypeOK
          <5> QED BY <1>3, <2>2, <5>1 DEF NoRounds
        <4>2. \A q \in Run, t \in Server : ~ DeadlineExceeded(q, t)
          BY <1>3, <2>2 DEF DeadlineExceeded, serverVars
        <4>3. \A q \in Run : ~ Arrive(q) /\ ~ Proceed(q)
          BY <1>3, <2>2, QuietSteps DEF serverVars
        <4> QED BY <1>3, <2>2, <4>1, <4>2, <4>3 DEF AnyStep, vars, serverVars
      <3>2. run[q].key = k /\ r = run[q].round
        BY <1>3, <2>0, <2>2, <3>1, ServeRounds DEF Basic
      <3> QED BY <1>1, <2>0, <3>2
    <2> QED BY <2>1, <2>2
  <1> QED BY <1>2, <1>3 DEF RoundsFollow

\* A run that has got through its Prepare loop has an instance.
LEMMA PreparedIs ==
    ASSUME Orderly, NEW p \in Run, Prepared(p) \/ run[p].phase = "Prepare"
    PROVE  HasInstance(p) /\ run[p].phase # "Idle"
  <1>1. HasProposed(p) => HasInstance(p)
    BY DEF Orderly, RunsInOrder, Requested
  <1>2. run[p].phase = "Prepare" => HasInstance(p)
    BY DEF Orderly, Basic, Begun
  <1>3. HasInstance(p)
    BY <1>1, <1>2 DEF Prepared
  <1> QED BY <1>3 DEF Orderly, Basic, Begun, NotStarted

\* Every replica that runs logs the rounds of such runs.
LEMMA RoundsLoggedStep ==
    ASSUME Orderly, AcceptorsRemember, LiveFound, RoundsLogged, [AnyStep]_vars, faults' = 0
    PROVE  RoundsLogged'
  <1> SUFFICES ASSUME NEW p \in Run, NEW s \in up',
                      Prepared(p)' \/ (run'[p].phase = "Prepare" /\ s \notin run'[p].todo)
               PROVE  Logged(p, s)'
    BY DEF RoundsLogged
  <1>0. Basic /\ up' \subseteq up /\ s \in up /\ s \in Server
    BY UpShrinks DEF Orderly, Basic, TypeOK
  <1>1. CASE Begins(p)
    <2>1. /\ run'[p].phase \in {"Ping", "ABORTED"} /\ run'[p].proposal = NoProposal
          /\ run'[p].phase = "ABORTED" => run'[p].round = 0
      BY <1>0, <1>1 DEF Begins, BeginsRight, Begin, NotStarted, Basic, TypeOK
    <2> QED BY <2>1 DEF Prepared, HasProposed
  <1>2. CASE Change(p, run'[p])
    <2>1. CASE Prepared(p) \/ (run[p].phase = "Prepare" /\ s \notin run[p].todo)
      <3>1. Logged(p, s) /\ HasInstance(p)
        BY <1>0, <2>1, PreparedIs DEF RoundsLogged
      <3> QED BY <1>0, <3>1, LoggedStays
    <2>2. CASE ~ Prepared(p) /\ ~ (run[p].phase = "Prepare" /\ s \notin run[p].todo)
      <3>0. /\ run[p].proposal = NoProposal
            /\ run[p].phase = "ABORTED" => ~ HasInstance(p)
            /\ run[p].phase = "Prepare" => s \in run[p].todo
            /\ run[p].phase # "Propose"
        BY <2>2 DEF Prepared, HasProposed, Orderly, RunsInOrder
      <3>1. CASE run'[p] = run[p]
        BY <2>2, <3>1 DEF Prepared, HasProposed
      <3>2. CASE Advances(p, run'[p])
        <4>1. run[p].phase # "Prepare"
          BY <3>0, <3>2 DEF Advances
        <4>2. CASE run'[p].phase = "Prepare"
          <5>1. run[p].phase = "Ping" /\ run[p].todo = {} /\ run'[p].todo = run[p].live
            BY <3>2, <4>1, <4>2 DEF Advances
          <5>2. s \in run[p].live
            BY <1>0, <5>1 DEF LiveFound, Active, Working
          <5>3. run'[p].proposal = NoProposal
            BY <3>0, <3>2, <4>2 DEF Advances
          <5> QED BY <4>2, <5>1, <5>2, <5>3 DEF Prepared, HasProposed
        <4>3. CASE run'[p].phase # "Prepare"
          <5>1. run'[p].proposal = NoProposal /\ run[p].phase \in {"Ping", "Inform"}
                /\ (run[p].phase = "Ping" => run'[p].phase = "ABORTED")
                /\ (run[p].phase = "Inform" => run'[p].phase = "OK")
            BY <3>0, <3>2, <4>1, <4>3 DEF Advances
          <5>2. run[p].phase = "Ping" /\ run'[p].phase = "ABORTED"
            BY <5>1 DEF Prepared, HasProposed
          <5>3. run[p].live = {} /\ run[p].todo = {}
            BY <1>0, <3>2, <5>2, PingAborts DEF Advances
          <5> QED BY <1>0, <5>2, <5>3 DEF LiveFound, Active, Working
        <4> QED BY <4>2, <4>3
      <3>3. CASE ~ Advances(p, run'[p]) /\ run'[p] # run[p]
        <4>1. /\ run'[p].proposal = NoProposal
              /\ run'[p].phase = run[p].phase \/ run'[p].phase = "Lost"
              /\ run'[p].round = run[p].round
          BY <1>2, <3>0, <3>3 DEF Change, SameRequest, GivesUpCall, Pinged, IsLost, PromisedBy,
                                  AcceptedBy, PastCalled, Calls
        <4>2. run[p].phase = "Prepare" /\ s \in run[p].todo /\ s \notin run'[p].todo
          BY <3>0, <4>1 DEF Prepared, HasProposed
        <4> QED BY <4>2, PrepareEnds
      <3> QED BY <3>1, <3>2, <3>3
    <2> QED BY <2>1, <2>2
  <1> QED BY <1>0, <1>1, <1>2, NextChange

-----------------------------------------------------------------------------
(* Values *)

\* A thread that is at work has the key and the round of an instance.
LEMMA ThreadsAre ==
    ASSUME Basic, NEW p \in Run, Threads(p)
    PROVE  run[p].phase # "Idle" /\ HasInstance(p) /\ run[p].key \in Key
  <1>1. CASE Active(p)
    BY <1>1, ActiveBegun
  <1>2. CASE \E h \in handlers : h.run = p
    BY <1>2 DEF Basic, Begun
  <1> QED BY <1>1, <1>2 DEF Threads

LEMMA BeginsIdle ==
    ASSUME NEW p \in Run, Begins(p)
    PROVE  run[p].phase = "Idle"
  BY DEF Begins, BeginsRight, Begin

\* A request whose threads have ended gets no new ones.
LEMMA ThreadsStay ==
    ASSUME Basic, [AnyStep]_vars, NEW p \in Run, Threads(p)', run[p].phase # "Idle"
    PROVE  Threads(p)
  <1>1. CASE Active(p)'
    <2>1. Active(p)
      BY <1>1, RunStays DEF Active
    <2> QED BY <2>1 DEF Threads
  <1>2. ASSUME NEW h \in handlers', h.run = p, h \notin handlers
        PROVE  Threads(p)
    <2>1. ASSUME NEW s, NEW phase \in {"Prepare", "Propose", "Inform"}, Starts(p, phase, s)
          PROVE  Threads(p)
      BY <2>1 DEF Starts, Calls, Active, Working, Threads, Handler
    <2>2. ASSUME NEW s, NEW step, Handler(p, s, step) \in handlers
          PROVE  Threads(p)
      BY <2>2 DEF Threads, Handler
    <2>3. ASSUME NEW q \in Run, NEW s \in Server, Serve(q, s)
          PROVE  Threads(p)
      <3>1. q = p
        BY <1>2, <2>3, ServeHandlers
      <3>2. CASE PrepareBegin(p, s) \/ ProposeBegin(p, s) \/ InformBegin(p, s)
        BY <2>1, <3>2 DEF PrepareBegin, ProposeBegin, InformBegin
      <3>3. CASE PrepareEnd(p, s) \/ ProposeEnd(p, s) \/ InformCheck(p, s) \/ InformEnd(p, s)
        BY <2>2, <3>3 DEF PrepareEnd, ProposeEnd, InformCheck, InformEnd
      <3> QED BY <2>3, <3>1, <3>2, <3>3 DEF Serve
    <2>4. ASSUME NEW q \in Run, NEW s \in Server, DeadlineExceeded(q, s)
          PROVE  Threads(p)
      <3>1. h \in Unstarted(q, s) /\ Active(q)
        BY <1>2, <2>4 DEF DeadlineExceeded, Calls, Active
      <3>2. h.run = q
        BY <3>1, UnstartedType
      <3> QED BY <1>2, <3>1, <3>2 DEF Threads
    <2>5. ASSUME NEW s \in Server, Die(s)
          PROVE  Threads(p)
      <3>1. PICK q \in RunsOf(s), t \in Server : h \in Unstarted(q, t)
        BY <1>2, <2>5 DEF Die, CallsOf
      <3>2. h.run = q /\ Active(q)
        BY <3>1, UnstartedType DEF RunsOf
      <3> QED BY <1>2, <3>2 DEF Threads
    <2>6. ASSUME NEW q \in Run, Arrive(q) \/ Proceed(q)
          PROVE  FALSE
      BY <1>2, <2>6, QuietSteps
    <2> QED BY <1>2, <2>3, <2>4, <2>5, <2>6 DEF AnyStep, vars
  <1> QED BY <1>1, <1>2 DEF Threads

\* A learner that executes a proposal for a client's key stores its value.
LEMMA ExecutedValue ==
    ASSUME Orderly, RequestsAreOperations, NEW q \in Run, NEW x \in Server, InformEnd(q, x),
           run[q].key \in DataKey
    PROVE  /\ HasProposed(q) /\ Threads(q)
           /\ data'[x][run[q].key] = run[q].proposal.value
           /\ \A t \in Server, k \in Key : t # x \/ k # run[q].key => data'[t][k] = data[t][k]
  <1> DEFINE k == run[q].key
             prop == run[q].proposal
  <1>0. /\ data \in [Server -> [Key -> AnyValue]] /\ k \in Key /\ k # CoordinatorKey
        /\ Basic /\ RunsInOrder /\ RequestsFitKeys
    BY KeyAssumption DEF Key, Orderly, Basic, TypeOK
  <1>1. HasProposed(q)
    BY <1>0, HandlerOf, ChosenHasProposed DEF InformEnd, Orderly
  <1>2. Threads(q)
    BY DEF InformEnd, Threads, Handler
  <1>3. PICK p \in Run : SameInstance(q, p) /\ run[p].op = prop /\ HasInstance(q)
    BY <1>0, <1>1 DEF RunsInOrder, Requested
  <1>4. HasInstance(p) /\ run[p].key = k
    BY <1>3 DEF SameInstance
  <1>5. run[p].phase # "Idle"
    BY <1>0, <1>4 DEF Basic, Begun, NotStarted
  <1>6. prop \in Operation /\ prop.type # "SET_COORDINATOR"
    BY <1>0, <1>3, <1>4, <1>5 DEF RequestsAreOperations, RequestsFitKeys, FitsKey
  <1>7. CASE prop.type = "SET"
    <2>1. data' = [data EXCEPT ![x] = [data[x] EXCEPT ![k] = prop.value]]
      BY <1>7 DEF InformEnd, Execute, SetValue
    <2> QED BY <1>0, <1>1, <1>2, <2>1
  <1>8. CASE prop.type = "DELETE"
    <2>1. data' = [data EXCEPT ![x] = [data[x] EXCEPT ![k] = Nil]]
      BY <1>8 DEF InformEnd, Execute, DeleteEntry
    <2>2. prop.value = Nil
      BY <1>6, <1>8 DEF Operation
    <2> QED BY <1>0, <1>1, <1>2, <2>1, <2>2
  <1> QED BY <1>6, <1>7, <1>8 DEF Operation

\* Nothing else stores something under a client's key.
LEMMA StoredBy ==
    ASSUME Orderly, [AnyStep]_vars, NEW s \in Server, s \in up', NEW k \in DataKey,
           data'[s][k] # data[s][k]
    PROVE  \E q \in Run : InformEnd(q, s) /\ run[q].key = k
  <1>0. /\ data \in [Server -> [Key -> AnyValue]] /\ k \in Key /\ Basic
    BY DEF Key, Orderly, Basic, TypeOK
  <1>1. ASSUME NEW q \in Run, NEW t \in Server, Serve(q, t)
        PROVE  InformEnd(q, s) /\ run[q].key = k
    <2>1. k # CoordinatorKey
      BY KeyAssumption
    <2>2. Holds(s, k)' # Holds(s, k)
      BY <2>1 DEF Holds
    <2> QED BY <1>0, <1>1, <2>2, ServeHolds
  <1>2. ASSUME NEW t \in Server, Die(t)
        PROVE  FALSE
    BY <1>0, <1>2 DEF Die
  <1>3. ASSUME NEW q \in Run, NEW t \in Server, DeadlineExceeded(q, t)
        PROVE  FALSE
    BY <1>3 DEF DeadlineExceeded, serverVars
  <1>4. ASSUME NEW q \in Run, Arrive(q) \/ Proceed(q)
        PROVE  FALSE
    BY <1>0, <1>4, QuietSteps DEF serverVars
  <1> QED BY <1>1, <1>2, <1>3, <1>4 DEF AnyStep, vars, serverVars

\* What an acceptor has accepted is a proposal of the instance it is asked about.
LEMMA AcceptedIsProposal ==
    ASSUME Orderly, NEW p \in Run, NEW s \in Server, run[p].key \in Key, Log(p, s).accepted_id > 0
    PROVE  \E o \in Run : /\ SameInstance(o, p) /\ HasProposed(o)
                          /\ run[o].proposal = [type  |-> Log(p, s).accepted_type,
                                                value |-> Log(p, s).accepted_value]
  <1>1. run[p].round \in DOMAIN logs[s][run[p].key]
    BY DEF Log, GetPaxosLog, NewPaxosLog
  <1>2. Log(p, s) = logs[s][run[p].key][run[p].round]
    BY <1>1 DEF Log, GetPaxosLog
  <1> QED BY <1>1, <1>2 DEF Orderly, LogsHoldProposals, SameInstance

\* The latest round of a new request has no proposal.
LEMMA NewRoundIsFresh ==
    ASSUME Orderly, RoundsLogged, [AnyStep]_vars, NEW p \in Run, run[p].phase = "Idle",
           run'[p] # run[p], run'[p].key \in DataKey
    PROVE  /\ run'[p].phase = "Ping" /\ run'[p].best.id = 0 /\ run'[p].proposal = NoProposal
           /\ \A o \in Run : SameInstance(o, p)' => ~ HasProposed(o)'
  <1>0. Basic /\ TypeOK
    BY DEF Orderly, Basic
  <1>1. PICK s \in up \cap Server : \E op : RunPaxos(p, s, run'[p].key, op)
    BY <1>0, ArrivesNow, ArrivesByRunPaxos
  <1>2. run'[p].key \in Key
    BY DEF Key
  <1>3. /\ run'[p].phase = "Ping" /\ run'[p].best.id = 0 /\ run'[p].proposal = NoProposal
        /\ \A q \in Run \ {p} : run'[q] = run[q]
    BY <1>0, <1>1, <1>2, RunPaxosIs
  <1>4. PICK n \in Nat : IsLatestRound(logs[s][run'[p].key], n) /\ run'[p].round = n + 1
    BY <1>0, <1>1, <1>2, RunPaxosIs
  <1>5. ASSUME NEW o \in Run, SameInstance(o, p)', HasProposed(o)'
        PROVE  FALSE
    <2>1. o # p /\ run'[o] = run[o]
      BY <1>3, <1>5 DEF HasProposed
    <2>2. Logged(o, s)
      BY <1>1, <1>5, <2>1 DEF RoundsLogged, Prepared, HasProposed
    <2>3. n + 1 \in DOMAIN logs[s][run'[p].key]
      BY <1>4, <1>5, <2>1, <2>2 DEF Logged, SameInstance
    <2>4. n + 1 <= n
      BY <1>4, <2>3 DEF IsLatestRound
    <2> QED BY <2>4
  <1> QED BY <1>3, <1>5

\* No step brings in other values than those of new requests.
LEMMA ValuesWithinStep ==
    ASSUME Orderly, RequestsAreOperations, RoundsLogged, [AnyStep]_vars, NEW k \in DataKey,
           NEW P, ValuesWithin(k, P),
           \A p \in Run : run[p].phase = "Idle" /\ run'[p].phase # "Idle" /\ run'[p].key = k =>
              run'[p].op.value \in P,
           \A x \in late' : x.key = k => x.op.value \in P
    PROVE  ValuesWithin(k, P)'
  <1>0. Basic /\ Basic' /\ up' \subseteq up /\ up \subseteq Server /\ RunsInOrder /\ k \in Key
    BY BasicStep, UpShrinks DEF Orderly, Basic, TypeOK, Key
  <1>1. ASSUME NEW s \in up'
        PROVE  data'[s][k] \in P
    <2>1. CASE data'[s][k] = data[s][k]
      BY <1>0, <2>1 DEF ValuesWithin
    <2>2. CASE data'[s][k] # data[s][k]
      <3>1. PICK q \in Run : InformEnd(q, s) /\ run[q].key = k
        BY <1>0, <2>2, StoredBy
      <3>2. HasProposed(q) /\ Threads(q) /\ data'[s][k] = run[q].proposal.value
        BY <1>0, <3>1, ExecutedValue
      <3> QED BY <3>1, <3>2 DEF ValuesWithin, SameInstance
    <2> QED BY <2>1, <2>2
  <1>2. ASSUME NEW p \in Run, run'[p].key = k, Active(p)'
        PROVE  /\ run'[p].op.value \in P
               /\ run'[p].best.id > 0 => run'[p].best.prop.value \in P
    <2>1. CASE run[p].phase = "Idle"
      <3>1. run'[p].phase # "Idle" /\ run'[p] # run[p]
        BY <1>2, <2>1 DEF Active, Working
      <3>2. run'[p].best.id = 0
        BY <1>2, <2>1, <3>1, NewRoundIsFresh
      <3> QED BY <1>2, <2>1, <3>1, <3>2
    <2>2. CASE run[p].phase # "Idle"
      <3>1. SameRequest(p, run'[p]) /\ Active(p)
        BY <1>0, <1>2, <2>2, RunStays DEF Active
      <3>2. /\ run[p].key = k /\ run'[p].op = run[p].op
            /\ run[p].op.value \in P /\ (run[p].best.id > 0 => run[p].best.prop.value \in P)
        BY <1>2, <3>1 DEF ValuesWithin, SameRequest
      <3>3. CASE run'[p].best = run[p].best
        BY <3>2, <3>3
      <3>4. CASE run'[p].best # run[p].best
        <4>1. ~ Begins(p)
          BY <2>2, BeginsIdle
        <4>2. PICK s \in Server : PromisedBy(p, run'[p], s)
          BY <1>0, <3>4, <4>1, NextChange
             DEF Change, GivesUpCall, Pinged, Advances, IsLost, AcceptedBy, SameBallot
        <4>3. /\ Log(p, s).accepted_id > run[p].best.id
              /\ run'[p].best = [id   |-> Log(p, s).accepted_id,
                                 prop |-> [type  |-> Log(p, s).accepted_type,
                                           value |-> Log(p, s).accepted_value]]
          BY <3>4, <4>2 DEF PromisedBy
        <4>4. Log(p, s).accepted_id > 0
          <5>1. Log(p, s) \in PaxosLog
            BY <1>0, <3>2, GetPaxosLogType DEF Log, Basic, TypeOK
          <5>2. run[p].best.id \in Nat /\ Log(p, s).accepted_id \in Nat
            BY <1>0, <5>1 DEF Basic, TypeOK, RunLocals, PaxosLog
          <5> QED BY <4>3, <5>2
        <4>5. PICK o \in Run : /\ SameInstance(o, p) /\ HasProposed(o)
                               /\ run[o].proposal = run'[p].best.prop
          BY <1>0, <3>2, <4>3, <4>4, AcceptedIsProposal
        <4>6. run[o].proposal.value \in P
          BY <3>1, <3>2, <4>5 DEF ValuesWithin, Threads
        <4> QED BY <3>2, <4>5, <4>6
      <3> QED BY <3>3, <3>4
    <2> QED BY <2>1, <2>2
  <1>3. ASSUME NEW p \in Run, NEW o \in Run, run'[p].key = k, Threads(p)',
               SameInstance(o, p)', HasProposed(o)'
        PROVE  run'[o].proposal.value \in P
    <2>0. run'[p].phase # "Idle" /\ run'[p].round > 0
      BY <1>0, <1>3 DEF Threads, Active, Working, Basic, Begun
    <2>1. run[p].phase # "Idle"
      BY <1>3, <2>0, NewRoundIsFresh
    <2>2. /\ Threads(p) /\ run[p].key = k /\ run'[p].round = run[p].round
      BY <1>0, <1>3, <2>1, ThreadsStay, RunStays DEF SameRequest
    <2>3. run'[o].key = k /\ run'[o].round > 0 /\ run'[o].round = run[p].round
      BY <1>3, <2>0, <2>2 DEF SameInstance
    <2>4. run[o].phase # "Idle"
      <3>1. SameInstance(o, o)'
        BY DEF SameInstance
      <3>2. run[o].phase = "Idle" => run'[o] # run[o]
        BY <1>0, <2>3 DEF Basic, Begun, NotStarted
      <3> QED BY <1>3, <2>3, <3>1, <3>2, NewRoundIsFresh
    <2>5. SameInstance(o, p) /\ SameRequest(o, run'[o])
      BY <1>0, <2>2, <2>3, <2>4, RunStays DEF SameInstance, SameRequest
    <2>6. CASE HasProposed(o)
      <3>1. run'[o].proposal = run[o].proposal
        BY <1>0, <2>6, Stable
      <3> QED BY <2>2, <2>5, <2>6, <3>1 DEF ValuesWithin
    <2>7. CASE ~ HasProposed(o)
      <3>1. ~ Begins(o)
        BY <2>4, BeginsIdle
      <3>2. run'[o].proposal # run[o].proposal
        BY <1>3, <2>7 DEF HasProposed
      <3>3. Advances(o, run'[o])
        BY <1>0, <3>1, <3>2, NextChange
           DEF Change, GivesUpCall, Pinged, PromisedBy, IsLost, AcceptedBy
      <3>4. /\ run[o].phase = "Prepare"
            /\ run'[o].proposal = IF run[o].best.id > 0 THEN run[o].best.prop ELSE run[o].op
        BY <3>2, <3>3 DEF Advances
      <3>5. Active(o) /\ run[o].key = k
        BY <2>2, <2>5, <3>4 DEF Active, Working, SameInstance
      <3> QED BY <3>4, <3>5 DEF ValuesWithin
    <2> QED BY <2>6, <2>7
  <1> QED BY <1>1, <1>2, <1>3 DEF ValuesWithin

-----------------------------------------------------------------------------
(* Steps while no call fails, no deadline passes and no server starts *)

ReadBasic == ServiceBasic /\ LifeIInv /\ ReadIInv
Steadily == ReadBasic /\ [ServiceNext]_serviceVars /\ Steady'

\* The bounded counters only grow.
LEMMA SteadyBefore ==
    ASSUME ServiceBasic, [ServiceNext]_serviceVars, Steady'
    PROVE  Steady /\ faults' = 0 /\ starts' = starts
  <1>0. /\ faults \in Nat /\ starts \in Nat /\ timeouts \in Nat /\ Basic
        /\ starts' = 0 /\ faults' = 0 /\ timeouts' = 0
    BY LifecycleAssumption, RequestAssumption
       DEF ServiceBasic, ServiceTypeOK, LifeBasic, LifeTypeOK, Basic, TypeOK, Steady
  <1>1. faults = 0
    <2>1. [AnyStep]_vars \/ MainStep
      BY ServiceIsMove, MoveKinds DEF lifeVars
    <2>2. MainStep => faults = 0
      BY <1>0 DEF MainStep, CallFails, Joins, Follows, StoresCopy, LogsCopy
    <2> QED BY <1>0, <2>1, <2>2, NoFaultsBefore
  <1>2. starts = 0
    <2>1. ASSUME NEW s \in Server, Start(s) \/ Initialize(s) \/ ProcessEnds(s)
          PROVE  starts = 0
      <3>1. ~ Start(s)
        BY <1>0 DEF Start
      <3>2. Initialize(s) /\ ~ AssertFails(s) => starts' = starts
        BY InitializeGoes DEF ServiceBasic
      <3>3. AssertFails(s) \/ ProcessEnds(s) => starts' = starts
        BY DEF ProcessEnds, CrashProcess, AssertFails, Ends
      <3> QED BY <1>0, <2>1, <3>1, <3>2, <3>3
    <2>2. ASSUME NEW c \in Client, RequestFlow(c)
          PROVE  starts = 0
      BY <1>0, <2>2, RequestFlowSteps DEF FlowStep, ArriveStep, lifeVars
    <2>3. HandleLate => starts = 0
      BY <1>0, LateArrives DEF ArriveStep
    <2> QED BY <1>0, <2>1, <2>2, <2>3 DEF ServiceNext, Send, PaxosStep, ServerStep, serviceVars, lifeVars
  <1>3. timeouts = 0
    <2>1. ASSUME NEW c \in Client, RequestFlow(c)
          PROVE  timeouts = 0
      BY <1>0, <2>1, RequestFlowSteps DEF FlowStep, TimesOut
    <2> QED BY <1>0, <2>1 DEF ServiceNext, Send, HandleLate, ServerStep, ProcessEnds, CallsBreak,
                              serviceVars, clientVars
  <1> QED BY <1>0, <1>1, <1>2, <1>3 DEF Steady

\* What then holds before such a step.
LEMMA SteadilyIs ==
    ASSUME Steadily
    PROVE  /\ ServiceBasic /\ LifeBasic /\ Basic /\ Orderly /\ FlowTypes
           /\ CallsFit /\ RequestsAreOperations /\ HandlersAwaited
           /\ Steady /\ faults = 0 /\ faults' = 0 /\ Orderliness /\ ReadsAreCurrent
           /\ \A c, d \in Client : c = d
  <1>1. Orderly /\ LifeBasic
    BY LifeOrderly DEF Steadily, ReadBasic
  <1>2. Steady /\ faults' = 0
    BY SteadyBefore DEF Steadily, ReadBasic
  <1> QED BY <1>1, <1>2 DEF Steadily, ReadBasic, ReadIInv, Orderly, Steady, ServiceBasic,
                            ServiceTypeOK, FlowTypes

\* A server may only die.
SteadyKind ==
    \/ \E c \in Client, s \in Server, k \in Key, op \in Writes \cup {Get} : Send(c, s, k, op)
    \/ \E c \in Client : RequestFlow(c) /\ ~ TimesOut
    \/ HandleLate
    \/ \E p \in Run : /\ Proceed(p) \/ \E s \in Server : Serve(p, s)
                      /\ UNCHANGED clientVars /\ UNCHANGED <<boot, starts>>
    \/ \E s \in Server : Die(s) /\ Ends(s) /\ CallsBreak(s)
    \/ UNCHANGED serviceVars

LEMMA SteadyKinds ==
    ASSUME Steadily
    PROVE  SteadyKind /\ [AnyStep]_vars
  <1>0. /\ ServiceBasic /\ LifeBasic /\ Basic /\ NobodyStarts /\ [ServiceNext]_serviceVars
        /\ starts' = 0 /\ starts \in Nat /\ faults \in Nat /\ faults' = 0
        /\ timeouts' = 0 /\ timeouts \in Nat
    BY SteadilyIs, RequestAssumption, LifecycleAssumption
       DEF Steadily, Steady, Orderliness, LifeBasic, LifeTypeOK, TypeOK, ServiceBasic, ServiceTypeOK
  <1>1. ASSUME NEW s \in Server
        PROVE  ~ Initialize(s) /\ ~ AssertFails(s) /\ ~ Start(s)
    <2>1. ~ AssertFails(s)
      BY <1>0 DEF AssertFails, NobodyStarts, Starting
    <2>2. ~ Initialize(s)
      BY <1>0, <2>1, InitializeKeeps DEF NobodyStarts
    <2>3. ~ Start(s)
      BY <1>0 DEF Start
    <2> QED BY <2>1, <2>2, <2>3
  <1>2. ~ TimesOut
    BY <1>0 DEF TimesOut
  <1>3. ASSUME NEW p \in Run, PaxosStep(p)
        PROVE  Proceed(p) \/ \E s \in Server : Serve(p, s)
    <2>1. ASSUME NEW s \in Server, DeadlineExceeded(p, s)
          PROVE  FALSE
      BY <1>0, <2>1 DEF DeadlineExceeded
    <2> QED BY <1>3, <2>1 DEF PaxosStep
  <1>4. SteadyKind
    BY <1>0, <1>1, <1>2, <1>3
       DEF ServiceNext, ServerStep, ProcessEnds, CrashProcess, Crash, PaxosStep, SteadyKind
  <1>5. [AnyStep]_vars
    <2>1. ASSUME NEW c \in Client, RequestFlow(c)
          PROVE  [AnyStep]_vars
      BY <1>0, <2>1, RequestFlowSteps DEF FlowStep, ArriveStep, AnyStep, lifeVars
    <2>2. HandleLate => AnyStep
      BY <1>0, LateArrives DEF ArriveStep, AnyStep
    <2> QED BY <1>4, <2>1, <2>2 DEF SteadyKind, AnyStep, Send, serviceVars, lifeVars
  <1> QED BY <1>4, <1>5

\* What holds of the servers alone goes on to hold.
LEMMA ServersOrderly ==
    ASSUME Steadily
    PROVE  /\ NobodyStarts' /\ ServersServe' /\ LiveFound' /\ AcceptorsRemember'
           /\ RoundsFollow' /\ RoundsLogged'
           /\ RequestsAreOperations' /\ HandlersAwaited'
  <1>0. /\ Basic /\ Orderly /\ LifeBasic /\ [AnyStep]_vars /\ faults' = 0 /\ ServiceBasic
        /\ RequestsAreOperations /\ HandlersAwaited /\ SteadyKind
        /\ NobodyStarts /\ ServersServe /\ LiveFound /\ AcceptorsRemember
        /\ RoundsFollow /\ RoundsLogged
    BY SteadilyIs, SteadyKinds DEF Orderliness
  <1>1. NobodyStarts'
    <2>1. ASSUME NEW s \in Server, Die(s), Ends(s), NEW t \in Server
          PROVE  ~ Starting(t)'
      <3>1. boot'[s].phase = "Off" /\ ~ Starting(t)
        BY <1>0, <2>1, EndsKeeps DEF NobodyStarts
      <3>2. t # s => boot'[t].phase = boot[t].phase
        BY <1>0, <2>1, <3>1, EndsKeeps DEF Starting
      <3> QED BY <3>1, <3>2 DEF Starting
    <2>2. boot' = boot => NobodyStarts'
      BY <1>0 DEF NobodyStarts, Starting
    <2>3. ASSUME NEW c \in Client, RequestFlow(c)
          PROVE  boot' = boot
      BY <1>0, <2>3, RequestFlowSteps DEF FlowStep, ArriveStep, lifeVars
    <2>4. HandleLate => boot' = boot
      BY <1>0, LateArrives DEF ArriveStep
    <2>5. boot' = boot \/ \E s \in Server : Die(s) /\ Ends(s)
      BY <1>0, <2>3, <2>4 DEF SteadyKind, Send, serviceVars, lifeVars
    <2> QED BY <2>1, <2>2, <2>5 DEF NobodyStarts
  <1>2. ServersServe' /\ LiveFound' /\ AcceptorsRemember'
    BY <1>0, ServersServeStep, PaxosFinds, AcceptorsRememberStep
  <1>3. RoundsFollow' /\ RoundsLogged'
    BY <1>0, RoundsFollowStep, RoundsLoggedStep
  <1>4. RequestsAreOperations' /\ HandlersAwaited'
    BY <1>0, OperationsStep, HandlersAwaitedStep
  <1> QED BY <1>1, <1>2, <1>3, <1>4

-----------------------------------------------------------------------------
(* The requests of one client *)

\* The steps of RequestFlow while no deadline passes.
GoesOn(c) ==
    /\ \/ flow[c].phase = "Forward" /\ GoTo(c, "Elect")
       \/ flow[c].phase = "Forwarded" /\ run[flow[c].call].phase = "Lost" /\ GoTo(c, "Elect")
       \/ flow[c].phase = "Electing" /\ GoTo(c, "ForwardAgain")
    /\ UNCHANGED <<lifeVars, late>>

Writing(c) ==
    /\ \/ flow[c].phase = "Forward" /\ ForwardWrite(c, "Forwarded")
       \/ flow[c].phase = "ForwardAgain" /\ ForwardWrite(c, "ForwardedAgain")
    /\ UNCHANGED late

Electing(c) ==
    /\ flow[c].phase = "Elect"
    /\ Call(c, flow[c].server, CoordinatorKey, Election(flow[c].server), "Electing")
    /\ UNCHANGED late

Reads(c) ==
    /\ Waiting(c) /\ Coordinator(c) \in up
    /\ ForwardGet(c)
    /\ UNCHANGED late

GivesUp(c) ==
    /\ Waiting(c) /\ flow[c].phase # "Forwarded"
    /\ \E status \in {"ABORTED", "UNAVAILABLE"} : Answered(c, status, Nil)
    /\ UNCHANGED <<lifeVars, late>>

Returns(c) ==
    /\ Calling(c) /\ Returned(flow[c].call)
    /\ Answered(c, run[flow[c].call].phase, Nil)
    /\ UNCHANGED <<lifeVars, late>>

LEMMA FlowKinds ==
    ASSUME NEW c \in Client, RequestFlow(c), ~ TimesOut
    PROVE  GoesOn(c) \/ Writing(c) \/ Electing(c) \/ Reads(c) \/ GivesUp(c) \/ Returns(c)
  <1>1. CASE Forward(c)
    BY <1>1 DEF Forward, CoordinatorDown, GoesOn, Writing, Reads, GivesUp, Waiting
  <1>2. CASE ForwardReturns(c)
    BY <1>2 DEF ForwardReturns, GoesOn, Returns, Calling
  <1>3. CASE Elect(c)
    BY <1>3 DEF Elect, Electing
  <1>4. CASE ElectReturns(c)
    BY <1>4 DEF ElectReturns, GoesOn, GivesUp, Waiting
  <1>5. CASE ForwardAgain(c)
    BY <1>5 DEF ForwardAgain, Writing, Reads, GivesUp, Waiting
  <1>6. CASE ForwardAgainReturns(c)
    BY <1>6 DEF ForwardAgainReturns, Returns, GivesUp, Calling, Waiting
  <1> QED BY <1>1, <1>2, <1>3, <1>4, <1>5, <1>6 DEF RequestFlow

Sends(c) == \E s \in Server, k \in Key, op \in Writes \cup {Get} : Send(c, s, k, op)

FlowRequest(c) ==
    GoesOn(c) \/ Writing(c) \/ Electing(c) \/ Reads(c) \/ GivesUp(c) \/ Returns(c)

\* Steps of the servers, of which clients know nothing.
Unnoticed ==
    /\ \E p \in Run : Proceed(p) \/ \E s \in Server : Serve(p, s)
    /\ UNCHANGED clientVars

LEMMA StepKinds ==
    ASSUME Steadily
    PROVE  \/ \E c \in Client : Sends(c) \/ FlowRequest(c)
           \/ HandleLate
           \/ Unnoticed
           \/ \E s \in Server : Die(s) /\ CallsBreak(s)
           \/ UNCHANGED serviceVars
  <1>1. SteadyKind
    BY SteadyKinds
  <1> QED BY <1>1, FlowKinds DEF SteadyKind, Sends, FlowRequest, Unnoticed

\* What the steps of RequestFlow make of its locals.
FlowKeeps(c) ==
    /\ flow'[c].server = flow[c].server /\ flow'[c].key = flow[c].key
    /\ flow'[c].op = flow[c].op /\ flow'[c].alone = flow[c].alone

LEMMA FlowIs ==
    ASSUME ServiceBasic, NEW c \in Client
    PROVE  /\ \A phase : GoTo(c, phase) =>
                 FlowKeeps(c) /\ flow'[c].phase = phase /\ flow'[c].call = flow[c].call
           /\ \A s, k, op, phase : Call(c, s, k, op, phase) =>
                 FlowKeeps(c) /\ flow'[c].phase = phase /\ flow'[c].call = NewRun
           /\ \A status, value : Answered(c, status, value) =>
                 /\ FlowKeeps(c) /\ flow'[c].phase = "Answered"
                 /\ flow'[c].status = status /\ flow'[c].value = value
  <1>0. flow \in [Client -> FlowLocals] /\ flow[c] \in FlowLocals
    BY DEF ServiceBasic, ServiceTypeOK
  <1>1. ASSUME NEW phase, GoTo(c, phase)
        PROVE  FlowKeeps(c) /\ flow'[c].phase = phase /\ flow'[c].call = flow[c].call
    <2>1. flow'[c] = [flow[c] EXCEPT !.phase = phase]
      BY <1>0, <1>1 DEF GoTo
    <2> QED BY <1>0, <2>1 DEF FlowKeeps, FlowLocals
  <1>2. ASSUME NEW s, NEW k, NEW op, NEW phase, Call(c, s, k, op, phase)
        PROVE  FlowKeeps(c) /\ flow'[c].phase = phase /\ flow'[c].call = NewRun
    <2>1. flow'[c] = [flow[c] EXCEPT !.phase = phase, !.call = NewRun]
      BY <1>0, <1>2 DEF Call
    <2> QED BY <1>0, <2>1 DEF FlowKeeps, FlowLocals
  <1>3. ASSUME NEW status, NEW value, Answered(c, status, value)
        PROVE  /\ FlowKeeps(c) /\ flow'[c].phase = "Answered"
               /\ flow'[c].status = status /\ flow'[c].value = value
    <2>1. flow'[c] = [flow[c] EXCEPT !.phase = "Answered", !.status = status, !.value = value]
      BY <1>0, <1>3 DEF Answered
    <2> QED BY <1>0, <2>1 DEF FlowKeeps, FlowLocals
  <1> QED BY <1>1, <1>2, <1>3

\* The call of a request is a run of it.
LEMMA WritingIs ==
    ASSUME Steadily, NEW c \in Client, Writing(c)
    PROVE  /\ flow[c].op \in Writes /\ flow[c].key \in Key /\ Waiting(c)
           /\ NewRun \in Run /\ run[NewRun].phase = "Idle"
           /\ run'[NewRun].phase \in {"Ping", "ABORTED"}
           /\ run'[NewRun].key = flow[c].key /\ run'[NewRun].op = flow[c].op
           /\ \A q \in Run \ {NewRun} : run'[q] = run[q]
           /\ Coordinator(c) \in up \cap Server
           /\ flow[c].key \in DataKey =>
                 RunPaxos(NewRun, Coordinator(c), flow[c].key, flow[c].op)
           /\ FlowKeeps(c) /\ flow'[c].call = NewRun
           /\ flow'[c].phase = IF flow[c].phase = "Forward" THEN "Forwarded" ELSE "ForwardedAgain"
           /\ flow[c].phase \in {"Forward", "ForwardAgain"}
           /\ UNCHANGED <<serverVars, handlers, late, readable>>
  <1>0. ServiceBasic /\ Basic
    BY SteadilyIs
  <1>1. PICK phase : /\ flow[c].op \in Writes
                     /\ Call(c, Coordinator(c), flow[c].key, flow[c].op, phase)
                     /\ phase = IF flow[c].phase = "Forward" THEN "Forwarded" ELSE "ForwardedAgain"
                     /\ flow[c].phase \in {"Forward", "ForwardAgain"}
    BY DEF Writing, ForwardWrite
  <1>2. Waiting(c) /\ flow[c].key \in Key /\ Coordinator(c) \in Server \cup {Nil}
    BY <1>0, <1>1, WaitingIs DEF Waiting
  <1>3. Coordinator(c) \in up /\ Handle(Coordinator(c), flow[c].key, flow[c].op)
    <2>1. Handle(Coordinator(c), flow[c].key, flow[c].op)
      BY <1>1 DEF Call
    <2>2. \A p, key, op, first, round, todo : Begin(p, Coordinator(c), key, op, first, round, todo)
              => Coordinator(c) \in up
      BY DEF Begin
    <2> QED BY <1>1, <2>1, <2>2, WritesAre
            DEF Handle, PutPair, DeletePair, ClientRequest, RunPaxos
  <1>4. Coordinator(c) \in Server
    BY <1>0, <1>3 DEF Basic, TypeOK
  <1>5. flow[c].key \in DataKey => flow[c].key # CoordinatorKey
    BY KeyAssumption
  <1>6. UNCHANGED <<late, readable>>
    BY <1>1 DEF Writing, Call
  <1> QED BY <1>0, <1>1, <1>2, <1>3, <1>4, <1>5, <1>6, HandleIs, FlowIs

\* So is that of an election.
LEMMA ElectingIs ==
    ASSUME Steadily, NEW c \in Client, Electing(c)
    PROVE  /\ NewRun \in Run /\ run[NewRun].phase = "Idle"
           /\ run'[NewRun].phase # "Idle" /\ run'[NewRun].key = CoordinatorKey
           /\ \A q \in Run \ {NewRun} : run'[q] = run[q]
           /\ FlowKeeps(c) /\ flow'[c].phase = "Electing" /\ flow'[c].call = NewRun
           /\ flow[c].phase = "Elect"
           /\ UNCHANGED <<late, readable>>
  <1>0. ServiceBasic /\ Basic
    BY SteadilyIs
  <1>1. flow[c].server \in Server
    BY <1>0, WaitingIs DEF Electing, Waiting
  <1>2. /\ CoordinatorKey \in Key /\ Election(flow[c].server) \notin Writes
        /\ Election(flow[c].server) \in Writes \cup {Election(t) : t \in Server}
    BY <1>1, WritesAre DEF Key
  <1>3. /\ Call(c, flow[c].server, CoordinatorKey, Election(flow[c].server), "Electing")
        /\ Handle(flow[c].server, CoordinatorKey, Election(flow[c].server))
        /\ UNCHANGED <<late, readable>>
    BY DEF Electing, Call
  <1> QED BY <1>0, <1>1, <1>2, <1>3, HandleIs, FlowIs DEF Electing

\* And a handler that is late.
LEMMA LateHandlerIs ==
    ASSUME Steadily, HandleLate
    PROVE  /\ NewRun \in Run /\ run[NewRun].phase = "Idle" /\ run'[NewRun].phase # "Idle"
           /\ \/ run'[NewRun].key = CoordinatorKey
              \/ \E x \in late : x.key = run'[NewRun].key /\ x.op = run'[NewRun].op
           /\ \A q \in Run \ {NewRun} : run'[q] = run[q]
           /\ late' \subseteq late /\ UNCHANGED <<flow, readable>>
  <1>0. Basic /\ FlowTypes
    BY SteadilyIs
  <1>1. PICK x \in late : Handle(x.server, x.key, x.op) /\ late' = late \ {x}
                          /\ UNCHANGED <<flow, readable>>
    BY DEF HandleLate
  <1>2. x \in LateCall /\ up \subseteq Server
    BY <1>0 DEF FlowTypes, Basic, TypeOK
  <1>3. x.server \in Server /\ x.key \in Key /\ x.op \in Writes \cup {Election(t) : t \in Server}
    BY <1>2 DEF LateCall
  <1> QED BY <1>0, <1>1, <1>3, HandleIs

\* Who asks for a run that begins.
LEMMA NewIsAsked ==
    ASSUME Steadily, NEW p \in Run, run[p].phase = "Idle", run'[p].phase # "Idle"
    PROVE  \/ run'[p].key = CoordinatorKey
           \/ \E c \in Client : /\ Writing(c) /\ p = NewRun
                                /\ run'[p].key = flow[c].key /\ run'[p].op = flow[c].op
           \/ HandleLate /\ \E x \in late : x.key = run'[p].key /\ x.op = run'[p].op
  <1>0. Basic /\ ~ Active(p)
    BY SteadilyIs DEF Active, Working
  <1>1. ASSUME NEW q \in Run, Proceed(q) \/ \E s \in Server : Serve(q, s)
        PROVE  FALSE
    <2>1. q = p
      BY <1>0, <1>1, OtherRuns
    <2> QED BY <1>0, <1>1, <2>1, ProceedChange, ServeRight
  <1>2. ASSUME NEW s \in Server, Die(s)
        PROVE  FALSE
    BY <1>0, <1>2 DEF Die, RunsOf
  <1>3. ASSUME NEW c \in Client, Writing(c)
        PROVE  p = NewRun /\ run'[p].key = flow[c].key /\ run'[p].op = flow[c].op
    BY <1>3, WritingIs
  <1>4. ASSUME NEW c \in Client, Electing(c)
        PROVE  run'[p].key = CoordinatorKey
    BY <1>4, ElectingIs
  <1>5. CASE HandleLate
    BY <1>5, LateHandlerIs
  <1>6. CASE run' = run
    BY <1>6
  <1>7. ASSUME NEW c \in Client, Sends(c) \/ GoesOn(c) \/ Reads(c) \/ GivesUp(c) \/ Returns(c)
        PROVE  run' = run
    BY <1>7 DEF Sends, Send, GoesOn, Reads, ForwardGet, GivesUp, Returns, lifeVars, vars
  <1> QED BY <1>1, <1>2, <1>3, <1>4, <1>5, <1>6, <1>7, StepKinds
          DEF FlowRequest, Unnoticed, serviceVars, lifeVars, vars

\* A request stays lost.
LEMMA LostBefore ==
    ASSUME Basic, [AnyStep]_vars, NEW k, LostOnce(k)'
    PROVE  LostOnce(k)
  <1>1. \A p \in Run : run[p].phase = "Lost" => run'[p] = run[p]
    BY RunStays DEF Active, Working
  <1> QED BY <1>1 DEF LostOnce

-----------------------------------------------------------------------------
(* What may be read *)

\* What an answered client makes of what may be read.
LEMMA LearnsIs ==
    ASSUME ServiceBasic, NEW c \in Client, Waiting(c), NEW status, Learns(c, status), NEW k \in Key
    PROVE  /\ k # flow[c].key \/ flow[c].op = Get => readable'[k] = readable[k]
           /\ status = "ABORTED" /\ flow[c].phase = "Forwarded" /\ flow[c].alone =>
                 readable'[k] = readable[k]
           /\ k = flow[c].key /\ flow[c].op # Get
              /\ ~ (status = "ABORTED" /\ flow[c].phase = "Forwarded" /\ flow[c].alone) =>
                 readable'[k] = IF status = "OK" /\ flow[c].alone
                                THEN {flow[c].op.value}
                                ELSE readable[k] \cup {flow[c].op.value}
  BY DEF Learns, ServiceBasic, ServiceTypeOK

\* A write that nothing else goes on with is answered.
Settles(c) ==
    /\ Returns(c) /\ Alone(c)
    /\ \/ run[flow[c].call].phase = "OK"
       \/ run[flow[c].call].phase = "ABORTED" /\ flow[c].phase = "Forwarded"

\* Otherwise what was possible is still so.
LEMMA PossibleStays ==
    ASSUME Steadily, NEW k \in DataKey, \A c \in Client : Settles(c) => flow[c].key # k
    PROVE  Possible(k) \subseteq Possible(k)'
  <1>0. /\ ServiceBasic /\ FlowTypes /\ CallsFit /\ k \in Key
        /\ readable \in [Key -> SUBSET AnyValue] /\ flow \in [Client -> FlowLocals]
        /\ \A c, d \in Client : c = d
    BY SteadilyIs DEF Orderliness, Key, FlowTypes
  <1> DEFINE Pending(c) == Waiting(c) /\ flow[c].key = k /\ flow[c].op # Get
  <1>1. SUFFICES /\ readable[k] \subseteq readable'[k]
                 /\ \A c \in Client : Pending(c) =>
                       \/ flow[c].op.value \in readable'[k]
                       \/ Waiting(c)' /\ flow'[c].key = k /\ flow'[c].op = flow[c].op
    BY DEF Possible
  <1>2. ASSUME NEW c \in Client, NEW status, Learns(c, status), Waiting(c),
               ~ (flow[c].key = k /\ flow[c].alone /\ flow[c].op # Get
                  /\ (status = "OK" \/ (status = "ABORTED" /\ flow[c].phase = "Forwarded")))
        PROVE  /\ readable[k] \subseteq readable'[k]
               /\ Pending(c) => flow[c].op.value \in readable'[k]
    <2>1. CASE readable'[k] = readable[k] /\ ~ Pending(c)
      BY <2>1
    <2>2. CASE readable'[k] = readable[k] \cup {flow[c].op.value}
      BY <2>2
    <2>3. CASE k # flow[c].key \/ flow[c].op = Get
      BY <1>0, <1>2, <2>1, <2>3, LearnsIs
    <2>4. CASE k = flow[c].key /\ flow[c].op # Get
      <3>1. ~ (status = "OK" /\ flow[c].alone)
            /\ ~ (status = "ABORTED" /\ flow[c].phase = "Forwarded" /\ flow[c].alone)
        BY <1>2, <2>4
      <3> QED BY <1>0, <1>2, <2>2, <2>4, <3>1, LearnsIs
    <2> QED BY <2>3, <2>4
  <1>3. ASSUME NEW c \in Client, Sends(c)
        PROVE  /\ readable' = readable /\ ~ Waiting(c)
    BY <1>3 DEF Sends, Send
  <1>4. ASSUME NEW c \in Client, GoesOn(c) \/ Writing(c) \/ Electing(c)
        PROVE  readable' = readable /\ FlowKeeps(c) /\ Waiting(c)'
    <2>1. CASE GoesOn(c)
      <3>1. flow'[c].phase \in {"Elect", "ForwardAgain"} /\ FlowKeeps(c) /\ readable' = readable
        BY <1>0, <2>1, FlowIs DEF GoesOn, GoTo
      <3> QED BY <3>1 DEF Waiting
    <2>2. CASE Writing(c)
      BY <2>2, WritingIs DEF Waiting
    <2>3. CASE Electing(c)
      BY <2>3, ElectingIs DEF Waiting
    <2> QED BY <1>4, <2>1, <2>2, <2>3
  <1>5. ASSUME NEW c \in Client, Reads(c)
        PROVE  /\ readable[k] \subseteq readable'[k]
               /\ Pending(c) => flow[c].op.value \in readable'[k]
    BY <1>2, <1>5 DEF Reads, ForwardGet, Answered
  <1>6. ASSUME NEW c \in Client, GivesUp(c)
        PROVE  /\ readable[k] \subseteq readable'[k]
               /\ Pending(c) => flow[c].op.value \in readable'[k]
    BY <1>2, <1>6 DEF GivesUp, Answered
  <1>7. ASSUME NEW c \in Client, Returns(c)
        PROVE  /\ readable[k] \subseteq readable'[k]
               /\ Pending(c) => flow[c].op.value \in readable'[k]
    <2>1. Waiting(c) /\ Learns(c, run[flow[c].call].phase)
      BY <1>7 DEF Returns, Calling, Waiting, Answered
    <2>2. flow[c].key = k /\ flow[c].alone /\ flow[c].op # Get => Alone(c)
      BY <2>1 DEF Alone
    <2> QED BY <1>2, <1>7, <2>1, <2>2 DEF Settles
  <1>8. ASSUME NEW s \in Server, CallsBreak(s)
        PROVE  /\ readable[k] \subseteq readable'[k]
               /\ \A c \in Client : Pending(c) =>
                       \/ flow[c].op.value \in readable'[k]
                       \/ Waiting(c)' /\ flow'[c].key = k /\ flow'[c].op = flow[c].op
    <2> DEFINE broken == {c \in Client : Waiting(c) /\ flow[c].server = s}
    <2>1. readable'[k] = readable[k] \cup
              {flow[c].op.value : c \in {d \in broken : flow[d].key = k /\ flow[d].op # Get}}
      BY <1>0, <1>8 DEF CallsBreak
    <2>2. \A c \in Client \ broken : flow'[c] = flow[c]
      BY <1>8 DEF CallsBreak
    <2> QED BY <2>1, <2>2 DEF Waiting
  <1>9. CASE flow' = flow /\ readable' = readable
    BY <1>9 DEF Waiting
  <1>10. HandleLate => flow' = flow /\ readable' = readable
    BY LateHandlerIs
  <1> QED BY <1>0, <1>3, <1>4, <1>5, <1>6, <1>7, <1>8, <1>9, <1>10, StepKinds
          DEF FlowRequest, FlowKeeps, Unnoticed, serviceVars, clientVars

\* What a write brings in is possible since it was sent.
LEMMA NewValues ==
    ASSUME Steadily, NEW k \in DataKey, ValuesPossible(k)
    PROVE  /\ \A p \in Run : run[p].phase = "Idle" /\ run'[p].phase # "Idle" /\ run'[p].key = k =>
                 run'[p].op.value \in Possible(k)
           /\ \A x \in late' : x.key = k => x.op.value \in Possible(k)
  <1>0. \A x \in late : x.key = k => x.op.value \in Possible(k)
    BY DEF ValuesPossible, ValuesWithin
  <1>1. \A c \in Client : Waiting(c) /\ flow[c].key = k /\ flow[c].op # Get =>
            flow[c].op.value \in Possible(k)
    BY DEF Possible
  <1>2. ASSUME NEW p \in Run, run[p].phase = "Idle", run'[p].phase # "Idle", run'[p].key = k
        PROVE  run'[p].op.value \in Possible(k)
    <2>1. k # CoordinatorKey
      BY KeyAssumption
    <2>2. ASSUME NEW c \in Client, Writing(c), run'[p].key = flow[c].key, run'[p].op = flow[c].op
          PROVE  run'[p].op.value \in Possible(k)
      BY <1>1, <1>2, <2>2, WritingIs, WritesAre
    <2> QED BY <1>0, <1>2, <2>1, <2>2, NewIsAsked
  <1>3. ASSUME NEW x \in late', x.key = k
        PROVE  x.op.value \in Possible(k)
    <2>1. CASE late' \subseteq late
      BY <1>0, <1>3, <2>1
    <2>2. ASSUME NEW s \in Server, CallsBreak(s), x \notin late
          PROVE  x.op.value \in Possible(k)
      <3>1. PICK c \in Client : /\ Waiting(c) /\ flow[c].op # Get
                                /\ x = [server |-> Coordinator(c), key |-> flow[c].key,
                                        op |-> flow[c].op]
        BY <1>3, <2>2 DEF CallsBreak
      <3> QED BY <1>1, <1>3, <3>1
    <2>3. ASSUME NEW c \in Client, Sends(c) \/ FlowRequest(c)
          PROVE  late' = late
      BY <2>3, WritingIs, ElectingIs
         DEF FlowRequest, Sends, Send, GoesOn, Reads, GivesUp, Returns
    <2>4. HandleLate => late' \subseteq late
      BY LateHandlerIs
    <2> QED BY <1>0, <1>3, <2>1, <2>2, <2>3, <2>4, StepKinds DEF Unnoticed, serviceVars, clientVars
  <1> QED BY <1>2, <1>3

\* After a write that was alone, nothing else is possible.
LEMMA SettledValues ==
    ASSUME Steadily, NEW c \in Client, Settles(c), LostOnce(flow[c].key)
    PROVE  ValuesPossible(flow[c].key)'
  <1> DEFINE p == flow[c].call
  <1>0. /\ ServiceBasic /\ AloneWrites /\ CallsFit /\ Waiting(c) /\ Calling(c) /\ Alone(c)
        /\ Returned(p) /\ Learns(c, run[p].phase) /\ UNCHANGED <<lifeVars, late>>
        /\ flow[c].alone /\ flow[c].op # Get /\ Returns(c)
    BY SteadilyIs DEF Orderliness, Settles, Returns, Calling, Waiting, Answered, Alone
  <1>1. PICK k \in DataKey : k = flow[c].key
    BY <1>0 DEF Alone
  <1>2. k \in Key /\ Exclusive(c) /\ AloneStores(c)
    BY <1>0 DEF Key, AloneWrites, Unopposed, Alone
  <1>3. UNCHANGED <<up, data, run, handlers, late>>
    BY <1>0 DEF lifeVars, vars, serverVars
  <1>4. /\ \A x \in late : x.key # k
        /\ \A q \in Run : run[q].key = k => ~ Active(q)
        /\ \A h \in handlers : run[h.run].key = k => LostFor(c, h.run)
    <2>1. ~ Active(p)
      BY <1>0 DEF Active, Working, Returned
    <2> QED BY <1>1, <1>2, <2>1, <1>0 DEF Exclusive, ServiceBasic, LifeBasic, LifeTypeOK, TypeOK, HandlerThread
  <1>5. readable'[k] \subseteq Possible(k)'
    BY DEF Possible
  <1>6. /\ \A s \in up : data[s][k] \in readable'[k]
        /\ \A q, o \in Run : run[q].key = k /\ Threads(q) /\ SameInstance(o, q) /\ HasProposed(o) =>
              run[o].proposal.value \in readable'[k]
    <2>0. \A q \in Run : run[q].key = k /\ Threads(q) => LostFor(c, q)
      BY <1>4 DEF Threads
    <2>1. CASE run[p].phase = "OK"
      <3>1. readable'[k] = {flow[c].op.value}
        <4>1. readable'[k] = IF run[p].phase = "OK" /\ flow[c].alone
                             THEN {flow[c].op.value}
                             ELSE readable[k] \cup {flow[c].op.value}
          BY <1>0, <1>1, <1>2, <2>1, LearnsIs
        <4> QED BY <1>0, <2>1, <4>1
      <3>2. \A s \in up : data[s][k] = flow[c].op.value
        BY <1>0, <1>1, <1>2, <2>1 DEF AloneStores
      <3> QED BY <2>0, <3>1, <3>2 DEF LostFor
    <2>2. CASE run[p].phase = "ABORTED" /\ flow[c].phase = "Forwarded"
      <3>1. readable'[k] = readable[k]
        BY <1>0, <1>2, <2>2, LearnsIs
      <3>2. \A s \in up : data[s][k] \in readable[k]
        BY <1>1, <1>2, <2>2 DEF AloneStores
      <3>3. \A q \in Run : ~ LostFor(c, q)
        BY <2>2 DEF LostFor
      <3> QED BY <2>0, <3>1, <3>2, <3>3
    <2> QED BY <2>1, <2>2 DEF Settles
  <1>7. ValuesPossible(k)'
    BY <1>3, <1>4, <1>5, <1>6
       DEF ValuesPossible, ValuesWithin, Active, Threads, SameInstance, HasProposed
  <1> QED BY <1>0, <1>1, <1>7, FlowIs DEF Returns, FlowKeeps

LEMMA ValuesPossibleStep ==
    ASSUME Steadily, NEW k \in DataKey, LostOnce(k)'
    PROVE  ValuesPossible(k)'
  <1>0. /\ Orderly /\ Basic /\ RequestsAreOperations /\ RoundsLogged /\ [AnyStep]_vars
        /\ ServiceBasic
    BY SteadilyIs, SteadyKinds DEF Orderliness
  <1>1. LostOnce(k)
    BY <1>0, LostBefore
  <1>2. ValuesPossible(k)
    BY <1>1, SteadilyIs DEF Orderliness
  <1>3. CASE \A c \in Client : Settles(c) => flow[c].key # k
    <2>1. PICK P : P = Possible(k)
      OBVIOUS
    <2>2. ValuesWithin(k, P)
      BY <1>2, <2>1 DEF ValuesPossible
    <2>3. ValuesWithin(k, P)'
      <3>1. \A p \in Run : run[p].phase = "Idle" /\ run'[p].phase # "Idle" /\ run'[p].key = k =>
                run'[p].op.value \in P
        BY <1>2, <2>1, NewValues
      <3>2. \A x \in late' : x.key = k => x.op.value \in P
        BY <1>2, <2>1, NewValues
      <3> QED BY <1>0, <2>2, <3>1, <3>2, ValuesWithinStep
    <2>4. \A v : v \in P => v \in Possible(k)'
      BY <1>3, <2>1, PossibleStays
    <2> QED BY <2>3, <2>4 DEF ValuesPossible, ValuesWithin
  <1>4. ASSUME NEW c \in Client, Settles(c), flow[c].key = k
        PROVE  ValuesPossible(k)'
    <2>1. ValuesPossible(flow[c].key)'
      BY <1>1, <1>4, SettledValues
    <2>2. flow'[c].key = k
      BY <1>0, <1>4, FlowIs DEF Settles, Returns, FlowKeeps
    <2> QED BY <2>1, <2>2
  <1> QED BY <1>3, <1>4

-----------------------------------------------------------------------------
(* A write that is alone *)

\* The request of c goes on alone: nobody begins another one for its key.
AloneGoes(c) ==
    /\ Steadily /\ Alone(c) /\ Unopposed(c)
    /\ \/ flow'[c] = flow[c]
       \/ flow[c].phase = "Elect" /\ flow'[c].phase = "Electing" /\ FlowKeeps(c)
    /\ readable'[flow[c].key] = readable[flow[c].key]
    /\ \A x \in late' : x.key # flow[c].key
    /\ \A p \in Run : run[p].phase = "Idle" /\ run'[p].phase # "Idle" => run'[p].key # flow[c].key

\* The request itself then stays the same.
LEMMA AloneIs ==
    ASSUME NEW c \in Client, AloneGoes(c)
    PROVE  /\ Basic /\ Basic' /\ Orderly /\ RunsInOrder /\ [AnyStep]_vars /\ Orderliness
           /\ flow[c].key \in DataKey /\ flow[c].key \in Key
           /\ FlowKeeps(c) /\ (Calling(c)' <=> Calling(c))
           /\ Calling(c) => /\ flow'[c] = flow[c] /\ flow[c].call \in Run
                            /\ run[flow[c].call].phase # "Idle"
                            /\ run[flow[c].call].key = flow[c].key
                            /\ run[flow[c].call].op = flow[c].op
           /\ flow'[c].phase = "Forward" => flow'[c] = flow[c]
  <1>1. /\ Basic /\ Orderly /\ RunsInOrder /\ [AnyStep]_vars /\ Orderliness
        /\ FlowTypes /\ CallsFit
    BY SteadilyIs, SteadyKinds DEF AloneGoes, Orderly
  <1>2. Basic'
    BY <1>1, BasicStep
  <1>3. flow[c].key \in DataKey /\ flow[c].key \in Key
    BY DEF AloneGoes, Alone, Key
  <1>4. FlowKeeps(c) /\ (Calling(c)' <=> Calling(c)) /\ (Calling(c) => flow'[c] = flow[c])
        /\ (flow'[c].phase = "Forward" => flow'[c] = flow[c])
    BY DEF AloneGoes, FlowKeeps, Calling
  <1>5. Calling(c) => /\ flow[c].call \in Run /\ run[flow[c].call].phase # "Idle"
                      /\ run[flow[c].call].key = flow[c].key
                      /\ run[flow[c].call].op = flow[c].op
    BY <1>1 DEF Calling, FlowTypes, CallsFit, Fits
  <1> QED BY <1>1, <1>2, <1>3, <1>4, <1>5

\* Whatever goes on about its key is its own run, or one that was lost for it.
LEMMA AloneRuns ==
    ASSUME NEW c \in Client, AloneGoes(c), NEW q \in Run
    PROVE  /\ run'[q].key = flow[c].key /\ run'[q].phase # "Idle" =>
                 run[q].phase # "Idle" /\ SameRequest(q, run'[q]) /\ run[q].key = flow[c].key
           /\ run[q].key = flow[c].key /\ Active(q) =>
                 Calling(c) /\ q = flow[c].call /\ RoundIsLatest(q)
           /\ run[q].key = flow[c].key /\ Threads(q) => Active(q) \/ LostFor(c, q)
  <1>0. Basic /\ [AnyStep]_vars /\ Exclusive(c)
    BY AloneIs DEF AloneGoes, Unopposed
  <1>1. ASSUME run'[q].key = flow[c].key, run'[q].phase # "Idle"
        PROVE  run[q].phase # "Idle" /\ SameRequest(q, run'[q]) /\ run[q].key = flow[c].key
    <2>1. run[q].phase # "Idle"
      BY <1>1 DEF AloneGoes
    <2> QED BY <1>0, <1>1, <2>1, RunStays DEF SameRequest
  <1>2. ASSUME run[q].key = flow[c].key, Active(q)
        PROVE  Calling(c) /\ q = flow[c].call /\ RoundIsLatest(q)
    BY <1>0, <1>2 DEF Exclusive, AloneGoes, Unopposed
  <1>3. ASSUME run[q].key = flow[c].key, Threads(q)
        PROVE  Active(q) \/ LostFor(c, q)
    BY <1>0, <1>3 DEF Exclusive, Threads
  <1> QED BY <1>1, <1>2, <1>3

\* Its run finds nothing that was accepted before, and proposes its operation.
LEMMA AloneProposes ==
    ASSUME NEW c \in Client, AloneGoes(c), NEW o \in Run, run'[o].key = flow[c].key,
           HasProposed(o)'
    PROVE  /\ run[o].phase # "Idle" /\ SameRequest(o, run'[o]) /\ run[o].key = flow[c].key
           /\ \/ HasProposed(o) /\ run'[o].proposal = run[o].proposal
              \/ /\ ~ HasProposed(o) /\ Active(o) /\ Calling(c) /\ o = flow[c].call
                 /\ run'[o].proposal = flow[c].op
  <1>0. Basic /\ Basic' /\ RunsInOrder /\ [AnyStep]_vars
    BY AloneIs
  <1>1. run'[o].phase # "Idle"
    BY <1>0 DEF HasProposed, Basic, Begun, NotStarted
  <1>2. run[o].phase # "Idle" /\ SameRequest(o, run'[o]) /\ run[o].key = flow[c].key
    BY <1>1, AloneRuns
  <1>3. CASE HasProposed(o)
    BY <1>0, <1>2, <1>3, Stable
  <1>4. CASE ~ HasProposed(o)
    <2>1. ~ Begins(o)
      BY <1>2, BeginsIdle
    <2>2. run'[o].proposal # run[o].proposal
      BY <1>4 DEF HasProposed
    <2>3. Advances(o, run'[o])
      BY <1>0, <2>1, <2>2, NextChange
         DEF Change, GivesUpCall, Pinged, PromisedBy, IsLost, AcceptedBy
    <2>4. /\ run[o].phase = "Prepare"
          /\ run'[o].proposal = IF run[o].best.id > 0 THEN run[o].best.prop ELSE run[o].op
      BY <2>2, <2>3 DEF Advances
    <2>5. Active(o)
      BY <2>4 DEF Active, Working
    <2>6. Calling(c) /\ o = flow[c].call /\ RoundIsLatest(o)
      BY <1>2, <2>5, AloneRuns
    <2>7. run[o].best.id = 0
      BY <2>6 DEF RoundIsLatest
    <2>8. run'[o].proposal = flow[c].op
      BY <2>4, <2>6, <2>7, AloneIs
    <2> QED BY <1>2, <1>4, <2>5, <2>6, <2>8
  <1> QED BY <1>3, <1>4

LEMMA ExclusiveStays ==
    ASSUME NEW c \in Client, AloneGoes(c)
    PROVE  Exclusive(c)'
  <1> DEFINE k == flow[c].key
  <1>0. /\ Basic /\ Basic' /\ [AnyStep]_vars /\ k = flow'[c].key /\ flow[c].op = flow'[c].op
        /\ HandlersAwaited' /\ faults' = 0
    BY AloneIs, ServersOrderly, SteadilyIs DEF AloneGoes, FlowKeeps
  <1>1. \A x \in late' : x.key # flow'[c].key
    BY <1>0 DEF AloneGoes
  <1>2. ASSUME NEW q \in Run, run'[q].key = k, Active(q)'
        PROVE  Active(q) /\ Calling(c)' /\ q = flow'[c].call
    <2>1. run'[q].phase # "Idle"
      BY <1>2 DEF Active, Working
    <2>2. run[q].phase # "Idle" /\ run[q].key = k
      BY <1>2, <2>1, AloneRuns
    <2>3. Active(q)
      BY <1>0, <1>2, <2>2, RunStays DEF Active
    <2> QED BY <2>2, <2>3, AloneRuns, AloneIs
  <1>3. ASSUME NEW q \in Run, run[q].key = k, LostFor(c, q)
        PROVE  LostFor(c, q)'
    <2>1. run[q].phase = "Lost" /\ run'[q] = run[q]
      BY <1>0, <1>3, RunStays DEF LostFor, Active, Working
    <2>2. flow'[c].phase # "Forward"
      BY <1>3, AloneIs DEF LostFor
    <2>3. flow'[c].phase = "Forwarded" => q = flow'[c].call
      BY <1>3, AloneIs DEF LostFor, Calling
    <2>4. ASSUME NEW o \in Run, SameInstance(o, q)', HasProposed(o)'
          PROVE  run'[o].proposal = flow'[c].op
      <3>1. run'[o].key = k
        BY <1>3, <2>1, <2>4 DEF SameInstance
      <3>2. SameRequest(o, run'[o])
        BY <2>4, <3>1, AloneProposes
      <3>3. SameInstance(o, q)
        BY <2>1, <2>4, <3>2 DEF SameInstance, SameRequest
      <3>4. HasProposed(o) /\ run'[o].proposal = run[o].proposal => run'[o].proposal = flow[c].op
        BY <1>3, <3>3 DEF LostFor
      <3> QED BY <1>0, <2>4, <3>1, <3>4, AloneProposes
    <2> QED BY <2>1, <2>2, <2>3, <2>4 DEF LostFor
  <1>4. ASSUME NEW h \in handlers', run'[h.run].key = k
        PROVE  Active(h.run)' \/ LostFor(c, h.run)'
    <2> DEFINE q == h.run
    <2>1. q \in Run /\ run'[q].phase # "Idle"
      BY <1>0, <1>4 DEF Basic, TypeOK, HandlerThread, Begun
    <2>2. run[q].phase # "Idle" /\ run[q].key = k
      BY <1>4, <2>1, AloneRuns
    <2>3. Threads(q)'
      BY <1>4 DEF Threads
    <2>4. Active(q) \/ LostFor(c, q)
      BY <1>0, <2>1, <2>2, <2>3, ThreadsStay, AloneRuns
    <2>5. CASE LostFor(c, q)
      BY <1>3, <2>1, <2>2, <2>5
    <2>6. CASE Active(q) /\ run'[q].phase # "Lost"
      <3>1. Awaited(q, h.at, h.step)'
        BY <1>0, <1>4, <2>6 DEF HandlersAwaited
      <3>2. \A phase \in DOMAIN LaterSteps : phase \in Working
        BY LaterStepsAre DEF Working
      <3> QED BY <3>1, <3>2 DEF Awaited, Calls, Active
    <2>7. CASE Active(q) /\ run'[q].phase = "Lost"
      <3>1. Calling(c) /\ q = flow[c].call /\ RoundIsLatest(q)
        BY <2>1, <2>2, <2>7, AloneRuns
      <3>2. /\ flow'[c].phase # "Forward"
            /\ flow'[c].phase = "Forwarded" => q = flow'[c].call
        BY <3>1, AloneIs DEF Calling
      <3>3. ASSUME NEW o \in Run, SameInstance(o, q)', HasProposed(o)'
            PROVE  run'[o].proposal = flow'[c].op
        <4>1. run'[o].key = k
          BY <1>4, <3>3 DEF SameInstance
        <4>2. SameRequest(o, run'[o]) /\ SameRequest(q, run'[q])
          BY <1>4, <2>1, <3>3, <4>1, AloneProposes, AloneRuns
        <4>3. SameInstance(o, q)
          BY <3>3, <4>2 DEF SameInstance, SameRequest
        <4>4. HasProposed(o) => o = q /\ run[q].proposal = run[q].op
          BY <3>1, <4>3 DEF RoundIsLatest
        <4>5. HasProposed(o) => run[o].proposal = flow[c].op
          BY <3>1, <4>4, AloneIs
        <4> QED BY <1>0, <3>3, <4>1, <4>5, AloneProposes
      <3> QED BY <2>7, <3>2, <3>3 DEF LostFor
    <2> QED BY <2>4, <2>5, <2>6, <2>7
  <1> QED BY <1>0, <1>1, <1>2, <1>4 DEF Exclusive

\* Its run still has the latest round.
LEMMA LatestStays ==
    ASSUME NEW c \in Client, AloneGoes(c), Calling(c)', Active(flow[c].call)'
    PROVE  RoundIsLatest(flow[c].call)'
  <1>a. Calling(c) /\ flow[c].call \in Run /\ flow'[c].call = flow[c].call
    BY AloneIs
  <1>b. PICK p \in Run : p = flow[c].call /\ p = flow'[c].call
    BY <1>a
  <1>c. PICK k \in Key : k = flow[c].key
    BY AloneIs
  <1>0. /\ Basic /\ Basic' /\ Orderly /\ RunsInOrder /\ [AnyStep]_vars
        /\ run[p].phase # "Idle" /\ run[p].key = k /\ run[p].op = flow[c].op
        /\ Active(p)'
    <2>1. Active(p)'
      BY <1>b DEF Active
    <2> QED BY <1>a, <1>b, <1>c, <2>1, AloneIs
  <1>1. /\ SameRequest(p, run'[p]) /\ Active(p) /\ RoundIsLatest(p)
        /\ run[p].round \in Nat /\ run'[p].key = k /\ run'[p].round = run[p].round
        /\ run'[p].op = run[p].op
    <2>1. SameRequest(p, run'[p]) /\ Active(p)
      BY <1>0, RunStays DEF Active
    <2>2. run[p].round \in Nat
      BY <1>0 DEF Basic, TypeOK, RunLocals
    <2>3. RoundIsLatest(p)
      BY <1>0, <1>c, <2>1, AloneRuns
    <2> QED BY <1>0, <2>1, <2>2, <2>3 DEF SameRequest
  <1>2. ASSUME NEW o \in Run, run'[o].key = run'[p].key
        PROVE  run'[o].round <= run'[p].round
    <2>1. CASE run'[o].phase = "Idle"
      <3>1. run'[o].round = 0
        BY <1>0, <2>1 DEF Basic, Begun, NotStarted
      <3> QED BY <1>1, <3>1
    <2>2. CASE run'[o].phase # "Idle"
      <3>1. SameRequest(o, run'[o]) /\ run[o].key = k
        BY <1>1, <1>2, <1>c, <2>2, AloneRuns
      <3> QED BY <1>0, <1>1, <3>1 DEF RoundIsLatest, SameRequest
    <2> QED BY <2>1, <2>2
  <1>3. ASSUME NEW o \in Run, SameInstance(o, p)', HasProposed(o)'
        PROVE  o = p
    <2>1. run'[o].key = k
      BY <1>1, <1>3 DEF SameInstance
    <2>2. SameRequest(o, run'[o])
      BY <1>3, <1>c, <2>1, AloneProposes
    <2>3. SameInstance(o, p)
      BY <1>1, <1>3, <2>2 DEF SameInstance, SameRequest
    <2>4. HasProposed(o) \/ o = p
      BY <1>3, <1>b, <1>c, <2>1, AloneProposes
    <2> QED BY <1>1, <2>3, <2>4 DEF RoundIsLatest
  <1>4. run'[p].best.id = 0
    <2>1. CASE run'[p].best = run[p].best
      BY <1>1, <2>1 DEF RoundIsLatest
    <2>2. CASE run'[p].best # run[p].best
      <3>1. ~ Begins(p)
        BY <1>0, BeginsIdle
      <3>2. PICK s \in Server : PromisedBy(p, run'[p], s)
        BY <1>0, <2>2, <3>1, NextChange
           DEF Change, GivesUpCall, Pinged, Advances, IsLost, AcceptedBy, SameBallot
      <3>3. Log(p, s).accepted_id > run[p].best.id /\ run[p].phase = "Prepare"
        BY <2>2, <3>2 DEF PromisedBy, PastCalled, Calls
      <3>4. Log(p, s).accepted_id > 0
        BY <1>1, <3>3 DEF RoundIsLatest
      <3>5. PICK o \in Run : SameInstance(o, p) /\ HasProposed(o)
        BY <1>0, <3>4, AcceptedIsProposal
      <3>6. HasProposed(p)
        BY <1>1, <3>5 DEF RoundIsLatest
      <3> QED BY <1>0, <3>3, <3>6 DEF RunsInOrder
    <2> QED BY <2>1, <2>2
  <1>5. ASSUME HasProposed(p)'
        PROVE  run'[p].proposal = run'[p].op
    <2>1. \/ HasProposed(p) /\ run'[p].proposal = run[p].proposal
          \/ run'[p].proposal = flow[c].op
      BY <1>1, <1>5, <1>c, AloneProposes
    <2> QED BY <1>0, <1>1, <2>1 DEF RoundIsLatest
  <1>6. RoundIsLatest(p)'
    BY <1>2, <1>3, <1>4, <1>5 DEF RoundIsLatest
  <1> QED BY <1>b, <1>6 DEF RoundIsLatest, SameInstance, HasProposed

\* What is stored under its key is its value, stored when its run informs or
\* by one that was lost for it.
LEMMA AloneStored ==
    ASSUME NEW c \in Client, AloneGoes(c), NEW s \in Server, s \in up',
           data'[s][flow[c].key] # data[s][flow[c].key]
    PROVE  /\ data'[s][flow[c].key] = flow[c].op.value
           /\ flow[c].phase # "Forward"
           /\ flow[c].phase = "Forwarded" =>
                 run'[flow[c].call].phase \notin {"Ping", "Prepare", "Propose", "ABORTED"}
  <1> DEFINE k == flow[c].key
  <1>0. /\ Basic /\ Orderly /\ [AnyStep]_vars /\ k \in DataKey
        /\ RequestsAreOperations /\ HandlersAwaited /\ faults = 0
    BY AloneIs, SteadilyIs DEF AloneGoes
  <1>1. PICK q \in Run : InformEnd(q, s) /\ run[q].key = k
    BY <1>0, StoredBy
  <1>2. HasProposed(q) /\ Threads(q) /\ data'[s][k] = run[q].proposal.value
    BY <1>0, <1>1, ExecutedValue
  <1>3. SameInstance(q, q)
    BY DEF SameInstance
  <1>4. CASE LostFor(c, q)
    <2>1. run'[q] = run[q]
      BY <1>0, <1>4, RunStays DEF LostFor, Active, Working
    <2> QED BY <1>2, <1>3, <1>4, <2>1 DEF LostFor
  <1>5. CASE Active(q)
    <2>1. Calling(c) /\ q = flow[c].call /\ RoundIsLatest(q) /\ run[q].op = flow[c].op
      BY <1>1, <1>5, AloneRuns, AloneIs
    <2>2. run[q].phase = "Inform"
      <3>1. Serve(q, s) /\ run[q].phase # "Lost"
        BY <1>1, <1>5 DEF Serve, Active, Working
      <3> QED BY <1>0, <1>1, <3>1, ServeAwaited DEF Calls
    <2>3. run'[q].phase = "Inform"
      <3>1. run' = run \/ run' = [run EXCEPT ![q] = PastCall(q, s)]
        BY <1>1 DEF InformEnd, Answer
      <3>2. run \in [Run -> RunLocals] /\ PastCall(q, s).phase = run[q].phase
        BY <1>0, PastCallKeeps DEF Basic, TypeOK
      <3> QED BY <2>2, <3>1, <3>2
    <2>4. run[q].proposal = flow[c].op
      BY <1>2, <2>1 DEF RoundIsLatest
    <2> QED BY <1>2, <2>1, <2>3, <2>4 DEF Calling
  <1> QED BY <1>1, <1>2, <1>4, <1>5, AloneRuns

\* Nobody knows a later round, so no learner drops what it writes.
LEMMA AloneInforms ==
    ASSUME NEW c \in Client, AloneGoes(c), Calling(c), NEW t \in up',
           run[flow[c].call].phase = "Inform",
           t \in run[flow[c].call].todo, t \notin run'[flow[c].call].todo
    PROVE  data'[t][flow[c].key] = flow[c].op.value
  <1> DEFINE p == flow[c].call
             k == flow[c].key
  <1>0. /\ Basic /\ Orderly /\ [AnyStep]_vars /\ k \in DataKey /\ RoundsFollow
        /\ RequestsAreOperations /\ HandlersAwaited /\ faults = 0 /\ faults' = 0
        /\ p \in Run /\ run[p].key = k /\ run[p].op = flow[c].op
    BY AloneIs, SteadilyIs DEF AloneGoes, Orderliness
  <1>1. Active(p) /\ RoundIsLatest(p)
    <2>1. Active(p)
      BY DEF Active, Working
    <2> QED BY <1>0, <2>1, AloneRuns
  <1>2. t \in Server /\ Serve(p, t)
    <2>1. t \in Server /\ (Ping(p, t) \/ Serve(p, t))
      BY <1>0, CallAnswered
    <2> QED BY <2>1 DEF Ping, Calls
  <1>3. ~ HasLaterRound(logs[t][run[p].key], run[p].round)
    <2> SUFFICES ASSUME NEW r \in DOMAIN logs[t][k], r > run[p].round PROVE FALSE
      BY <1>0 DEF HasLaterRound
    <2>1. PICK o \in Run : run[o].key = k /\ run[o].round = r
      BY <1>0, <1>2 DEF RoundsFollow
    <2>2. r <= run[p].round
      BY <1>0, <1>1, <2>1 DEF RoundIsLatest
    <2>3. run[p].round \in Nat /\ r \in Nat
      BY <1>0, <2>1 DEF Basic, TypeOK, RunLocals
    <2> QED BY <2>2, <2>3
  <1>4. InformEnd(p, t)
    <2>1. run' # run
      OBVIOUS
    <2>2. run[p].phase # "Lost"
      OBVIOUS
    <2>3. ~ InformBegin(p, t) /\ ~ InformCheck(p, t)
      BY <1>3, <2>1 DEF InformBegin, InformCheck
    <2>4. ~ PrepareBegin(p, t) /\ ~ PrepareEnd(p, t) /\ ~ ProposeBegin(p, t) /\ ~ ProposeEnd(p, t)
      BY <1>0, <1>2, <2>2, ServeAwaited DEF Calls
    <2> QED BY <1>2, <2>3, <2>4 DEF Serve
  <1>5. HasProposed(p) /\ data'[t][k] = run[p].proposal.value
    BY <1>0, <1>2, <1>4, ExecutedValue
  <1> QED BY <1>0, <1>1, <1>5 DEF RoundIsLatest

LEMMA AloneStoresStays ==
    ASSUME NEW c \in Client, AloneGoes(c)
    PROVE  AloneStores(c)'
  <1> DEFINE p == flow[c].call
             k == flow[c].key
  <1>0. /\ Basic /\ Orderly /\ [AnyStep]_vars /\ AloneStores(c) /\ up' \subseteq up /\ up \subseteq Server
        /\ flow'[c].key = k /\ flow'[c].op = flow[c].op /\ readable'[k] = readable[k]
        /\ LiveFound'
    BY AloneIs, UpShrinks, ServersOrderly DEF AloneGoes, Unopposed, FlowKeeps, Basic, TypeOK
  <1>1. ASSUME NEW s \in up',
               \/ flow'[c].phase = "Forward"
               \/ /\ flow'[c].phase = "Forwarded"
                  /\ run'[flow'[c].call].phase \in {"Ping", "Prepare", "Propose", "ABORTED"}
        PROVE  data'[s][k] \in readable[k]
    <2>1. flow'[c] = flow[c]
      BY <1>1, AloneIs DEF Calling
    <2>2. data'[s][k] = data[s][k]
      BY <1>0, <1>1, <2>1, AloneStored
    <2>3. CASE flow[c].phase = "Forward"
      BY <1>0, <2>2, <2>3 DEF AloneStores
    <2>4. CASE flow[c].phase = "Forwarded"
      <3>1. p \in Run /\ run[p].phase # "Idle" /\ run'[p].phase \in {"Ping", "Prepare", "Propose", "ABORTED"}
        BY <1>1, <2>1, <2>4, AloneIs DEF Calling
      <3>2. ~ Begins(p) /\ (~ Active(p) => run'[p] = run[p])
        BY <1>0, <3>1, BeginsIdle, RunStays
      <3>3. run[p].phase \in {"Ping", "Prepare", "Propose", "ABORTED"}
        <4>1. run[p].phase # "Inform"
          BY <1>0, <3>1, <3>2, NextChange
             DEF Change, GivesUpCall, Pinged, Advances, IsLost, PromisedBy, AcceptedBy, PastCalled, Calls
        <4> QED BY <3>1, <3>2, <4>1 DEF Active, Working
      <3> QED BY <1>0, <2>2, <2>4, <3>3 DEF AloneStores
    <2> QED BY <1>1, <2>1, <2>3, <2>4
  <1>2. ASSUME Calling(c)', run'[flow'[c].call].phase \in {"Inform", "OK"}, NEW s \in up'
        PROVE  \/ run'[p].phase = "Inform" /\ s \in run'[p].todo
               \/ data'[s][k] = flow[c].op.value
    <2>1. flow'[c] = flow[c] /\ p \in Run /\ Calling(c) /\ run'[p].phase \in {"Inform", "OK"}
      BY <1>2, AloneIs
    <2>2. data[s][k] = flow[c].op.value => data'[s][k] = flow[c].op.value
      BY <1>0, AloneStored
    <2>3. \/ run'[p] = run[p]
          \/ run[p].phase = "Inform" /\ run'[p].phase = "Inform"
          \/ run[p].phase = "Inform" /\ run'[p].phase = "OK" /\ run[p].todo = {}
          \/ run'[p].phase = "Inform" /\ run'[p].todo = run'[p].live
      BY <1>0, <2>1, InformPhase
    <2>4. CASE run'[p].phase = "Inform" /\ run'[p].todo = run'[p].live
      BY <1>0, <2>1, <2>4 DEF LiveFound, Active, Working
    <2>5. CASE run[p].phase \in {"Inform", "OK"}
      <3>1. \/ run[p].phase = "Inform" /\ s \in run[p].todo
            \/ data[s][k] = flow[c].op.value
        BY <1>0, <2>1, <2>5 DEF AloneStores
      <3>2. CASE run[p].phase = "Inform" /\ s \in run[p].todo
        <4>1. run'[p].phase = "Inform"
          BY <2>3, <3>2
        <4> QED BY <2>1, <3>2, <4>1, AloneInforms
      <3> QED BY <2>2, <3>1, <3>2
    <2> QED BY <2>1, <2>3, <2>4, <2>5
  <1>3. flow'[c].call = p \/ ~ Calling(c)'
    BY AloneIs
  <1> QED BY <1>0, <1>1, <1>2, <1>3 DEF AloneStores

LEMMA AloneStays ==
    ASSUME NEW c \in Client, AloneGoes(c)
    PROVE  Unopposed(c)'
  <1>1. (Calling(c) /\ Active(flow[c].call) => RoundIsLatest(flow[c].call))'
    BY LatestStays
  <1> QED BY <1>1, ExclusiveStays, AloneStoresStays DEF Unopposed

-----------------------------------------------------------------------------
(* A write remains alone *)

\* A request that is sent while no thread is left for its key.
LEMMA AloneSends ==
    ASSUME Steadily, NEW c \in Client, Sends(c), Alone(c)', LostOnce(flow[c].key)'
    PROVE  Unopposed(c)'
  <1>1. PICK s \in Server, k \in Key, op \in Writes \cup {Get} : Send(c, s, k, op)
    BY DEF Sends
  <1>2. /\ flow'[c].phase = "Forward" /\ flow'[c].key = k /\ flow'[c].alone = NoThreads(k)
        /\ UNCHANGED <<up, data, run, handlers, late, readable>> /\ ~ Waiting(c)
    <2>1. flow' = [flow EXCEPT ![c] = [NoFlow EXCEPT !.phase = "Forward", !.server = s, !.key = k,
                                                     !.op = op, !.alone = NoThreads(k)]]
      BY <1>1 DEF Send
    <2>2. flow'[c] = [NoFlow EXCEPT !.phase = "Forward", !.server = s, !.key = k,
                                    !.op = op, !.alone = NoThreads(k)]
      BY <2>1, SteadilyIs DEF FlowTypes
    <2>3. flow'[c].phase = "Forward" /\ flow'[c].key = k /\ flow'[c].alone = NoThreads(k)
      BY <2>2 DEF NoFlow
    <2>4. UNCHANGED <<up, data, run, handlers, late, readable>> /\ ~ Waiting(c)
      BY <1>1 DEF Send, lifeVars, vars, serverVars
    <2> QED BY <2>3, <2>4
  <1>3. k \in DataKey /\ NoThreads(k)
    BY <1>2 DEF Alone
  <1>4. LostOnce(k)
    BY <1>2 DEF LostOnce
  <1>5. ValuesPossible(k) /\ Possible(k) = readable[k]
    <2>1. ValuesPossible(k)
      BY <1>3, <1>4, SteadilyIs DEF Orderliness
    <2>2. \A d \in Client : ~ Waiting(d)
      BY <1>2, SteadilyIs
    <2> QED BY <2>1, <2>2 DEF Possible
  <1>6. Exclusive(c)'
    <2>1. \A h \in handlers : h.run \in Run
      BY SteadilyIs DEF Basic, TypeOK, HandlerThread
    <2> QED BY <1>2, <1>3, <2>1 DEF NoThreads, Exclusive, Active
  <1>7. AloneStores(c)'
    BY <1>2, <1>5 DEF AloneStores, Calling, ValuesPossible, ValuesWithin
  <1>8. ~ Calling(c)'
    BY <1>2 DEF Calling
  <1> QED BY <1>6, <1>7, <1>8 DEF Unopposed

\* RequestFlow goes on without a call: its run, if there was one, is lost.
LEMMA AloneGoesOn ==
    ASSUME Steadily, NEW c \in Client, GoesOn(c), Alone(c), Unopposed(c)
    PROVE  Unopposed(c)'
  <1>1. PICK k \in DataKey : k = flow[c].key
    BY DEF Alone
  <1>2. /\ flow'[c].phase \in {"Elect", "ForwardAgain"} /\ FlowKeeps(c)
        /\ UNCHANGED <<run, handlers, late>>
    BY SteadilyIs, FlowIs DEF GoesOn, lifeVars, vars
  <1>3. ~ Calling(c)' /\ AloneStores(c)'
    BY <1>2 DEF Calling, AloneStores
  <1>4. \A p \in Run : run[p].key = k => ~ Active(p)
    BY <1>1 DEF Unopposed, Exclusive, GoesOn, Calling, Active, Working
  <1>5. \A h \in handlers : h.run \in Run
    BY SteadilyIs DEF Basic, TypeOK, HandlerThread
  <1>6. \A h \in handlers : run[h.run].key = k => LostFor(c, h.run)
    BY <1>1, <1>4, <1>5 DEF Unopposed, Exclusive
  <1>7. Exclusive(c)'
    <2>1. \A x \in late : x.key # k
      BY <1>1 DEF Unopposed, Exclusive
    <2>2. flow'[c].key = k /\ flow'[c].op = flow[c].op
      BY <1>1, <1>2 DEF FlowKeeps
    <2>3. \A p \in Run : LostFor(c, p) => LostFor(c, p)'
      BY <1>2, <2>2 DEF LostFor, SameInstance, HasProposed
    <2> QED BY <1>2, <1>4, <1>5, <1>6, <2>1, <2>2, <2>3 DEF Exclusive, Active
  <1> QED BY <1>3, <1>7 DEF Unopposed

\* A run that does nothing any more and was not lost has been logged by all.
LEMMA OverOrLost ==
    ASSUME Orderly, RoundsLogged, NEW s \in up, NEW q \in Run, run[q].round > 0, ~ Active(q)
    PROVE  run[q].phase = "Lost" \/ Logged(q, s)
  <1>1. run[q].phase # "Idle" /\ run[q] \in RunLocals
    BY DEF Orderly, Basic, Begun, NotStarted, TypeOK
  <1>2. run[q].phase \in {"OK", "ABORTED", "Lost"}
    BY <1>1 DEF RunLocals, Phase, Active, Working
  <1>3. run[q].phase = "OK" => HasProposed(q)
    BY DEF Orderly, RunsInOrder
  <1> QED BY <1>2, <1>3 DEF RoundsLogged, Prepared

\* Its run gets a round after all of those that it may know.
LEMMA AloneWriting ==
    ASSUME Steadily, NEW c \in Client, Writing(c), Alone(c), Unopposed(c), LostOnce(flow[c].key)
    PROVE  Unopposed(c)'
  <1>1. PICK k \in DataKey : k = flow[c].key /\ k \in Key
    BY DEF Alone, Key
  <1>2. PICK p \in Run : p = NewRun
    BY WritingIs
  <1>3. PICK s \in Server : s = Coordinator(c) /\ s \in up
    BY WritingIs
  <1>4. /\ Basic /\ Basic' /\ Orderly /\ RoundsFollow /\ RoundsLogged /\ [AnyStep]_vars
        /\ CallsFit' /\ Exclusive(c) /\ AloneStores(c)
    <2>1. Basic /\ [AnyStep]_vars
      BY SteadilyIs, SteadyKinds
    <2>2. CallsFit'
      BY CallsFitStep DEF Steadily, ReadBasic
    <2> QED BY <2>1, <2>2, BasicStep, SteadilyIs DEF Orderliness, Unopposed
  <1>5. /\ run[p].phase = "Idle" /\ run'[p].key = k /\ run'[p].op = flow[c].op
        /\ \A q \in Run \ {p} : run'[q] = run[q]
        /\ RunPaxos(p, s, k, flow[c].op)
        /\ flow'[c].key = k /\ flow'[c].op = flow[c].op /\ flow'[c].call = p
        /\ flow[c].phase \in {"Forward", "ForwardAgain"}
        /\ flow'[c].phase = IF flow[c].phase = "Forward" THEN "Forwarded" ELSE "ForwardedAgain"
        /\ UNCHANGED <<up, logs, data, handlers, late, readable>>
    BY <1>1, <1>2, <1>3, WritingIs DEF FlowKeeps, serverVars
  <1>6. PICK n \in Nat : IsLatestRound(logs[s][k], n) /\ run'[p].round = n + 1
    BY <1>1, <1>4, <1>5, RunPaxosIs DEF Basic
  <1>7. /\ run'[p].phase = "Ping" /\ run'[p].best.id = 0 /\ run'[p].proposal = NoProposal
        /\ \A o \in Run : SameInstance(o, p)' => ~ HasProposed(o)'
    <2>1. run'[p].phase = "Ping"
      BY <1>1, <1>4, <1>5, RunPaxosIs DEF Basic
    <2> QED BY <1>4, <1>5, <2>1, NewRoundIsFresh
  <1>8. ~ Calling(c) /\ Calling(c)'
    BY <1>5 DEF Calling
  <1>9. \A q \in Run : run[q].key = k => ~ Active(q)
    BY <1>1, <1>4, <1>8 DEF Exclusive
  <1>10. Exclusive(c)'
    <2>1. \A x \in late' : x.key # k
      BY <1>1, <1>4, <1>5 DEF Exclusive
    <2>2. \A q \in Run : run'[q].key = k /\ Active(q)' => q = p
      BY <1>5, <1>9 DEF Active
    <2>3. ASSUME NEW h \in handlers, run'[h.run].key = k
          PROVE  LostFor(c, h.run)'
      <3>1. PICK q \in Run : q = h.run /\ q # p
        BY <1>4, <1>5 DEF Basic, Begun, TypeOK, HandlerThread
      <3>2. LostFor(c, q) /\ run'[q] = run[q]
        BY <1>1, <1>4, <1>5, <1>9, <2>3, <3>1 DEF Exclusive
      <3>3. flow'[c].phase = "ForwardedAgain"
        BY <1>5, <3>2 DEF LostFor
      <3>4. \A o \in Run : SameInstance(o, q)' /\ HasProposed(o)' => run'[o].proposal = flow'[c].op
        BY <1>5, <1>7, <3>2 DEF LostFor, SameInstance, HasProposed
      <3>5. LostFor(c, q)'
        BY <3>2, <3>3, <3>4 DEF LostFor
      <3> QED BY <3>1, <3>5
    <2> QED BY <1>5, <1>8, <2>1, <2>2, <2>3 DEF Exclusive
  <1>11. ASSUME NEW o \in Run, run'[o].key = k
         PROVE  run'[o].round <= run'[p].round
    <2>1. CASE o = p
      BY <1>6, <2>1
    <2>2. CASE o # p
      <3>1. run'[o] = run[o] /\ run[o].key = k /\ run[o].round \in Nat
        BY <1>4, <1>5, <1>11, <2>2 DEF Basic, TypeOK, RunLocals
      <3>2. ASSUME NEW q \in Run, run[q].key = k, run[q].round \in Nat, run[q].round > n
            PROVE  run[q].phase = "Lost"
        <4>1. ~ Active(q) /\ run[q].round > 0
          BY <1>9, <3>2
        <4>2. ASSUME Logged(q, s)
              PROVE  FALSE
          <5>1. run[q].round <= n
            BY <1>6, <3>2, <4>2 DEF Logged, IsLatestRound
          <5> QED BY <3>2, <5>1
        <4> QED BY <1>3, <1>4, <4>1, <4>2, OverOrLost
      <3>3. ASSUME run[o].round > n + 1
            PROVE  FALSE
        <4>1. PICK q \in Run : run[q].key = k /\ run[q].round = run[o].round - 1
          BY <1>4, <3>1, <3>3 DEF RoundsFollow
        <4>2. run[q].round \in Nat /\ run[q].round > n /\ run[o].round > n /\ q # o
          BY <3>1, <3>3, <4>1
        <4>3. run[o].phase = "Lost" /\ run[q].phase = "Lost"
          BY <3>1, <3>2, <4>1, <4>2
        <4> QED BY <1>1, <3>1, <4>1, <4>2, <4>3 DEF LostOnce
      <3> QED BY <1>6, <3>1, <3>3
    <2> QED BY <2>1, <2>2
  <1>12. RoundIsLatest(p)'
    <2>1. \A o \in Run : SameInstance(o, p)' /\ HasProposed(o)' => o = p
      BY <1>7
    <2>2. ~ HasProposed(p)'
      BY <1>7 DEF HasProposed
    <2> QED BY <1>5, <1>7, <1>11, <2>1, <2>2 DEF RoundIsLatest
  <1>13. RoundIsLatest(flow[c].call)'
    BY <1>5, <1>12 DEF RoundIsLatest, SameInstance, HasProposed
  <1>14. AloneStores(c)'
    <2>1. flow[c].phase = "Forward" => \A t \in up : data[t][k] \in readable[k]
      BY <1>1, <1>4 DEF AloneStores
    <2> QED BY <1>5, <1>7, <2>1 DEF AloneStores
  <1> QED BY <1>10, <1>13, <1>14 DEF Unopposed

\* No other request brings in a run of its key.
LEMMA NoneBegins ==
    ASSUME Steadily, NEW c \in Client, Alone(c), Unopposed(c), ~ Writing(c), NEW p \in Run,
           run[p].phase = "Idle", run'[p].phase # "Idle"
    PROVE  run'[p].key # flow[c].key
  <1>1. flow[c].key # CoordinatorKey /\ \A x \in late : x.key # flow[c].key
    BY KeyAssumption DEF Alone, Unopposed, Exclusive
  <1>2. \A d \in Client : d = c
    BY SteadilyIs
  <1> QED BY <1>1, <1>2, NewIsAsked

\* Steps that are not about its call: others', those of the servers, an election.
LEMMA AloneOtherwise ==
    ASSUME Steadily, NEW c \in Client, Alone(c), Unopposed(c), Alone(c)',
           ~ FlowRequest(c) \/ Electing(c), ~ Sends(c)
    PROVE  AloneGoes(c)
  <1>1. PICK k \in DataKey : k = flow[c].key /\ k \in Key
    BY DEF Alone, Key
  <1>2. (\A d \in Client : d = c) /\ \A x \in late : x.key # k
    BY <1>1, SteadilyIs DEF Unopposed, Exclusive
  <1>3. ~ Writing(c)
    BY DEF FlowRequest, Electing, Writing
  <1>4. CASE Electing(c)
    <2>1. /\ flow[c].phase = "Elect" /\ flow'[c].phase = "Electing" /\ FlowKeeps(c)
          /\ UNCHANGED <<late, readable>>
      BY <1>4, ElectingIs
    <2> QED BY <1>1, <1>2, <1>3, <2>1, NoneBegins DEF AloneGoes
  <1>5. CASE HandleLate
    <2>1. late' \subseteq late /\ UNCHANGED <<flow, readable>>
      BY <1>5, LateHandlerIs
    <2> QED BY <1>1, <1>2, <1>3, <2>1, NoneBegins DEF AloneGoes
  <1>6. CASE UNCHANGED clientVars
    <2>1. UNCHANGED <<flow, late, readable>>
      BY <1>6 DEF clientVars
    <2> QED BY <1>1, <1>2, <1>3, <2>1, NoneBegins DEF AloneGoes
  <1>7. ASSUME NEW s \in Server, CallsBreak(s)
        PROVE  AloneGoes(c)
    <2>1. flow[c].server # s
      <3>1. ASSUME flow[c].server = s
            PROVE  FALSE
        <4>1. flow'[c] = [flow[c] EXCEPT !.phase = "Answered", !.status = "UNAVAILABLE"]
          BY <1>7, <3>1 DEF CallsBreak, Alone
        <4>2. flow[c] \in FlowLocals
          BY SteadilyIs DEF FlowTypes
        <4>3. flow'[c].phase = "Answered"
          BY <4>1, <4>2 DEF FlowLocals
        <4> QED BY <4>3 DEF Alone, Waiting
      <3> QED BY <3>1
    <2>2. flow'[c] = flow[c]
      BY <1>7, <2>1 DEF CallsBreak
    <2>3. late' \subseteq late
      BY <1>2, <1>7, <2>1 DEF CallsBreak
    <2>4. readable'[k] = readable[k]
      <3>1. readable'[k] = readable[k] \cup
               {flow[d].op.value :
                  d \in {e \in {b \in Client : Waiting(b) /\ flow[b].server = s} :
                           flow[e].key = k /\ flow[e].op # Get}}
        BY <1>1, <1>7 DEF CallsBreak
      <3> QED BY <1>2, <2>1, <3>1
    <2> QED BY <1>1, <1>2, <1>3, <2>2, <2>3, <2>4, NoneBegins DEF AloneGoes
  <1> QED BY <1>2, <1>4, <1>5, <1>6, <1>7, StepKinds DEF Unnoticed, serviceVars

LEMMA AloneWritesStep ==
    ASSUME Steadily
    PROVE  AloneWrites'
  <1> SUFFICES ASSUME NEW c \in Client, Alone(c)', LostOnce(flow[c].key)'
               PROVE  Unopposed(c)'
    BY DEF AloneWrites
  <1>1. PICK k \in DataKey : k = flow'[c].key
    BY DEF Alone
  <1>2. ServiceBasic /\ LostOnce(k)
    <2>1. LostOnce(k)'
      BY <1>1 DEF LostOnce
    <2> QED BY <2>1, LostBefore, SteadilyIs, SteadyKinds
  <1>3. CASE Sends(c)
    BY <1>3, AloneSends
  <1>4. CASE Reads(c) \/ GivesUp(c) \/ Returns(c)
    <2>1. flow'[c].phase = "Answered"
      BY <1>2, <1>4, FlowIs DEF Reads, ForwardGet, GivesUp, Returns
    <2> QED BY <2>1 DEF Alone, Waiting
  <1>5. CASE GoesOn(c) \/ Writing(c) \/ Electing(c)
    <2>1. FlowKeeps(c) /\ Waiting(c)
      BY <1>2, <1>5, FlowIs, WritingIs, ElectingIs DEF GoesOn, Waiting
    <2>2. Alone(c) /\ Unopposed(c)
      <3>1. Alone(c) /\ flow[c].key = k
        BY <1>1, <2>1 DEF Alone, FlowKeeps
      <3> QED BY <1>2, <3>1, SteadilyIs DEF Orderliness, AloneWrites
    <2>3. CASE GoesOn(c)
      BY <2>2, <2>3, AloneGoesOn
    <2>4. CASE Writing(c)
      <3>1. flow[c].key = k
        BY <1>1, <2>1 DEF FlowKeeps
      <3> QED BY <1>2, <2>2, <2>4, <3>1, AloneWriting
    <2>5. CASE Electing(c)
      <3>1. ~ Sends(c)
        BY <2>1 DEF Sends, Send
      <3> QED BY <2>2, <2>5, <3>1, AloneOtherwise, AloneStays
    <2> QED BY <1>5, <2>3, <2>4, <2>5
  <1>6. CASE ~ Sends(c) /\ ~ FlowRequest(c)
    <2>1. flow'[c] = flow[c]
      <3>1. ASSUME NEW s \in Server, CallsBreak(s), flow'[c] # flow[c]
            PROVE  FALSE
        <4>1. flow'[c] = [flow[c] EXCEPT !.phase = "Answered", !.status = "UNAVAILABLE"]
          BY <3>1 DEF CallsBreak
        <4>2. flow[c] \in FlowLocals
          BY SteadilyIs DEF FlowTypes
        <4>3. flow'[c].phase = "Answered"
          BY <4>1, <4>2 DEF FlowLocals
        <4> QED BY <4>3 DEF Alone, Waiting
      <3>2. HandleLate => flow' = flow
        BY LateHandlerIs
      <3>3. \A d \in Client : d = c
        BY SteadilyIs
      <3> QED BY <1>6, <3>1, <3>2, <3>3, StepKinds DEF Unnoticed, serviceVars, clientVars
    <2>2. Alone(c) /\ flow[c].key = k
      BY <1>1, <2>1 DEF Alone, Waiting
    <2>3. Unopposed(c)
      BY <1>2, <2>2, SteadilyIs DEF Orderliness, AloneWrites
    <2> QED BY <1>6, <2>2, <2>3, AloneOtherwise, AloneStays
  <1> QED BY <1>3, <1>4, <1>5, <1>6 DEF FlowRequest

-----------------------------------------------------------------------------
(* Reads are current *)

\* A read answers what the coordinator stores, which is possible; and nothing
\* becomes impossible before the client has sent another request.
LEMMA ReadsStep ==
    ASSUME Steadily
    PROVE  ReadsAreCurrent'
  <1> SUFFICES ASSUME NEW c \in Client, flow'[c].phase = "Answered", flow'[c].op = Get,
                      flow'[c].status \in {"OK", "NOT_FOUND"}, LostOnce(flow[c].key)'
               PROVE  flow'[c].value \in readable'[flow'[c].key]
    BY DEF ReadsAreCurrent
  <1>0. /\ ServiceBasic /\ CallsFit /\ FlowTypes /\ Basic /\ [AnyStep]_vars
        /\ faults = 0 /\ starts = 0 /\ ReadsAreCurrent /\ \A d, e \in Client : d = e
    BY SteadilyIs, SteadyKinds DEF Orderliness, Steady
  <1>1. PICK k : k = flow'[c].key
    OBVIOUS
  <1>2. LostOnce(k)
    <2>1. LostOnce(k)'
      BY <1>1 DEF LostOnce
    <2> QED BY <2>1, <1>0, LostBefore
  <1>3. CASE flow'[c] = flow[c] /\ readable' = readable
    BY <1>0, <1>1, <1>2, <1>3 DEF ReadsAreCurrent
  <1>4. CASE Sends(c)
    <2>1. flow'[c].phase = "Forward"
      BY <1>0, <1>4 DEF Sends, Send, NoFlow, FlowTypes
    <2> QED BY <2>1
  <1>5. CASE GoesOn(c) \/ Writing(c) \/ Electing(c)
    <2>1. flow'[c].phase # "Answered"
      BY <1>0, <1>5, FlowIs, WritingIs, ElectingIs DEF GoesOn
    <2> QED BY <2>1
  <1>6. CASE Reads(c)
    <2>1. PICK s \in Server : s = Coordinator(c) /\ s \in up
      BY <1>0, <1>6 DEF Reads, Basic, TypeOK
    <2>2. Waiting(c) /\ flow[c].op = Get /\ flow[c].key \in Key
      BY <1>0, <1>6, WaitingIs DEF Reads, ForwardGet
    <2>3. PICK status : /\ Answered(c, status, data[s][flow[c].key])
                        /\ flow[c].key = CoordinatorKey => status = "ABORTED"
      BY <1>6, <2>1 DEF Reads, ForwardGet
    <2>4. flow'[c].value = data[s][flow[c].key] /\ flow'[c].status = status /\ flow[c].key = k
      BY <1>0, <1>1, <2>3, FlowIs DEF FlowKeeps
    <2>5. k \in DataKey /\ readable'[k] = readable[k]
      <3>1. Learns(c, status)
        BY <2>3 DEF Answered
      <3> QED BY <1>0, <2>2, <2>3, <2>4, <3>1, LearnsIs DEF Key
    <2>6. data[s][k] \in Possible(k)
      BY <1>2, <2>1, <2>5, SteadilyIs DEF Orderliness, ValuesPossible, ValuesWithin
    <2>7. Possible(k) = readable[k]
      BY <1>0, <2>2 DEF Possible
    <2> QED BY <1>1, <2>4, <2>5, <2>6, <2>7
  <1>7. CASE GivesUp(c)
    <2>1. flow'[c].status \in {"ABORTED", "UNAVAILABLE"}
      BY <1>0, <1>7, FlowIs DEF GivesUp
    <2> QED BY <2>1
  <1>8. CASE Returns(c)
    <2>1. flow[c].op \in Writes /\ flow'[c].op = flow[c].op
      BY <1>0, <1>8, FlowIs DEF Returns, Calling, CallsFit, Fits, FlowKeeps
    <2> QED BY <2>1, WritesAre
  <1>9. ASSUME NEW s \in Server, CallsBreak(s)
        PROVE  flow'[c] = flow[c] /\ readable' = readable
    <2>1. ~ (Waiting(c) /\ flow[c].server = s)
      <3>1. ASSUME Waiting(c) /\ flow[c].server = s
            PROVE  FALSE
        <4>1. flow'[c] = [flow[c] EXCEPT !.phase = "Answered", !.status = "UNAVAILABLE"]
          BY <1>9, <3>1 DEF CallsBreak
        <4>2. flow'[c].status = "UNAVAILABLE"
          BY <1>0, <4>1 DEF FlowTypes, FlowLocals
        <4> QED BY <4>2
      <3> QED BY <3>1
    <2>2. flow'[c] = flow[c]
      BY <1>9, <2>1 DEF CallsBreak
    <2>3. {d \in Client : Waiting(d) /\ flow[d].server = s} = {}
      BY <1>0, <2>1
    <2>4. readable' = [j \in Key |-> readable[j] \cup {}]
      BY <1>9, <2>3 DEF CallsBreak
    <2> QED BY <1>0, <2>2, <2>4 DEF FlowTypes
  <1>10. HandleLate => flow' = flow /\ readable' = readable
    BY LateHandlerIs
  <1> QED BY <1>0, <1>3, <1>4, <1>5, <1>6, <1>7, <1>8, <1>9, <1>10, StepKinds
          DEF FlowRequest, Unnoticed, serviceVars, clientVars

\* What holds whether or not the servers are steady.
LEMMA RequestsKeep ==
    ASSUME ReadBasic, [ServiceNext]_serviceVars
    PROVE  RequestsAreOperations' /\ HandlersAwaited'
  <1>0. Basic /\ RequestsAreOperations /\ HandlersAwaited /\ faults \in Nat
    BY LifeOrderly DEF ReadBasic, ReadIInv, Orderly, Basic, TypeOK
  <1>1. CASE [AnyStep]_vars
    BY <1>0, <1>1, OperationsStep, HandlersAwaitedStep
  <1>2. CASE MainStep
    <2>1. run' = run /\ handlers' = handlers
      BY <1>2 DEF MainStep
    <2>2. faults' = 0 => faults = 0
      BY <1>0, <1>2 DEF MainStep, CallFails, Joins, Follows, StoresCopy, LogsCopy
    <2> QED BY <1>0, <2>1, <2>2 DEF RequestsAreOperations, HandlersAwaited, Awaited, Calls
  <1>3. [AnyStep]_vars \/ MainStep
    BY ServiceIsMove, MoveKinds DEF ReadBasic, lifeVars
  <1> QED BY <1>1, <1>2, <1>3

LEMMA ReadIInvStep ==
    ASSUME ReadBasic, [ServiceNext]_serviceVars
    PROVE  ReadIInv'
  <1>1. ASSUME Steady'
        PROVE  Orderliness' /\ ReadsAreCurrent'
    <2>1. Steadily
      BY <1>1 DEF Steadily
    <2>2. \A k \in DataKey : LostOnce(k)' => ValuesPossible(k)'
      BY <2>1, ValuesPossibleStep
    <2> QED BY <2>1, <2>2, ServersOrderly, AloneWritesStep, ReadsStep
            DEF Orderliness
  <1> QED BY <1>1, RequestsKeep DEF ReadIInv

LEMMA ReadIInvInit == ServiceInit => ReadIInv
  <1> SUFFICES ASSUME ServiceInit PROVE ReadIInv
    OBVIOUS
  <1>1. /\ FirstElection \in Run /\ run[FirstElection] = Elected
        /\ \A p \in Run \ {FirstElection} : run[p] = NotStarted
        /\ CoordinatorKey \notin DataKey /\ DataKey \subseteq Key
    BY FirstElectionIs, KeyAssumption DEF Key
  <1>2. /\ handlers = {} /\ late = {} /\ up = Server
        /\ \A s \in Server : boot[s].phase = "Ready"
        /\ \A s \in Server, k \in Key : data[s][k] = Nil
        /\ \A k \in Key : readable[k] = {Nil}
        /\ \A c \in Client : flow[c].phase = "Idle"
    BY DEF ServiceInit, NotStarting, NoFlow
  <1>3. /\ NotStarted.phase = "Idle" /\ NotStarted.round = 0 /\ NotStarted.accepted = {}
        /\ NotStarted.proposal = NoProposal
    BY DEF NotStarted
  <1>4. \A p \in Run : run[p].phase \in {"Idle", "OK"}
    BY <1>1, <1>3, FirstElectionIs
  <1>5. /\ \A p \in Run : ~ Active(p) /\ run[p].phase \notin {"Lost", "ABORTED", "Prepare"}
        /\ \A c \in Client : ~ Waiting(c) /\ ~ Alone(c)
    BY <1>2, <1>4 DEF Active, Working, Waiting, Alone
  <1>6. RequestsAreOperations
    BY <1>1, <1>3, FirstElectionIs, FirstAssumption DEF RequestsAreOperations, Operation, Election
  <1>7. HandlersAwaited
    BY <1>2 DEF HandlersAwaited
  <1>8. NobodyStarts /\ ServersServe /\ LiveFound
    BY <1>2, <1>5 DEF NobodyStarts, Starting, ServersServe, LiveFound
  <1>9. \A s \in Server :
            /\ DOMAIN logs[s][CoordinatorKey] = {1} /\ logs[s][CoordinatorKey][1].accepted_id = 1
            /\ \A k \in DataKey : DOMAIN logs[s][k] = {}
    BY <1>1, FirstLogsAre DEF Key
  <1>10. Logged(FirstElection, First) /\ \A s \in Server : Logged(FirstElection, s)
    BY <1>1, <1>9, FirstElectionIs, FirstAssumption DEF Logged
  <1>11. AcceptorsRemember
    <2>1. Log(FirstElection, First).accepted_id > 0
      BY <1>1, <1>9, FirstElectionIs, FirstAssumption DEF Log, GetPaxosLog
    <2>2. run[FirstElection].accepted = {First} /\ \A p \in Run \ {FirstElection} : run[p].accepted = {}
      BY <1>1, <1>3, FirstElectionIs
    <2> QED BY <1>2, <1>10, <2>1, <2>2 DEF AcceptorsRemember
  <1>12. RoundsFollow
    <2>1. \A p \in Run : run[p].round \in {0, 1}
      BY <1>1, <1>3, FirstElectionIs
    <2> QED BY <1>9, <2>1 DEF RoundsFollow
  <1>13. RoundsLogged
    <2>1. \A p \in Run \ {FirstElection} : ~ Prepared(p)
      BY <1>1, <1>3, <1>5 DEF Prepared, HasProposed
    <2> QED BY <1>2, <1>5, <1>10, <2>1 DEF RoundsLogged
  <1>14. \A k \in DataKey : ValuesPossible(k)
    <2>1. \A p \in Run : ~ Threads(p)
      BY <1>2, <1>5 DEF Threads
    <2>2. \A k \in DataKey : Nil \in Possible(k)
      BY <1>1, <1>2 DEF Possible
    <2> QED BY <1>1, <1>2, <1>5, <2>1, <2>2 DEF ValuesPossible, ValuesWithin
  <1>15. AloneWrites /\ ReadsAreCurrent
    BY <1>2, <1>5 DEF AloneWrites, ReadsAreCurrent
  <1> QED BY <1>6, <1>7, <1>8, <1>11, <1>12, <1>13, <1>14, <1>15 DEF ReadIInv, Orderliness

\* While one client's requests are served and no server starts, no call fails
\* and no deadline passes, all that holds of the replicas, of the runs and of
\* RequestFlow goes on to hold, whatever is called at whatever server and
\* whichever servers die (RequestFlow of kv-store-service-impl.cc, RunPaxos and
\* its handlers in multi-paxos-service-impl.cc).
THEOREM ReadInvariant == ServiceSpec => []ReadIInv
  <1>1. ServiceInit => ReadBasic
    BY ServiceBasicInit, LifeIInvFirst, ReadIInvInit DEF ReadBasic
  <1>2. ReadBasic /\ [ServiceNext]_serviceVars => ReadBasic'
    BY ServiceBasicStep, ServiceIsMove, LifeIInvStep, ReadIInvStep DEF ReadBasic
  <1>3. ReadBasic => ReadIInv
    BY DEF ReadBasic
  <1> QED BY <1>1, <1>2, <1>3, PTL DEF ServiceSpec

\* Until a deadline of RequestFlow passes, a read answers with the last write
\* that was answered OK, or with one whose outcome its client cannot know, also
\* when coordinators die and others are elected: what client.cc:59 prints of a
\* put, "is now added to the store", for any number of servers, keys, values
\* and requests.
THEOREM ReadsStayCurrent == ServiceSpec => [](timeouts = 0 => ReadsAreCurrent)
  <1>1. ReadIInv => (timeouts = 0 => ReadsAreCurrent)
    BY DEF ReadIInv, Steady, ReadsAreCurrent
  <1> QED BY <1>1, ReadInvariant, PTL
=============================================================================
