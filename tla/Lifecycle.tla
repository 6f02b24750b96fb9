------------------------------ MODULE Lifecycle ------------------------------
(***************************************************************************)
(* Servers that start, crash and start again (server-main.cpp).  A process *)
(* starts its two services and then, in main's thread, Initialize          *)
(* (multi-paxos-service-impl.cc): ask the replicas who the coordinator is, *)
(* elect oneself if that fails, and fetch a snapshot of the coordinator's  *)
(* data and logs (GetRecovery).  If it fails, an assertion ends the        *)
(* process.  Meanwhile the services already take part in Paxos runs, which *)
(* are those of MultiPaxos.                                                *)
(***************************************************************************)
EXTENDS MultiPaxos

CONSTANTS
    MaxStarts,   \* bound: processes started, over all servers
    StartsAlone  \* TRUE: a server starts only while no request is served and no
                 \* other server starts, and requests wait for it

ASSUME LifecycleAssumption == MaxStarts \in Nat /\ StartsAlone \in BOOLEAN

VARIABLES
    boot,        \* boot[s]: the locals of main's thread of s in Initialize
    starts       \* processes started (bounded)

lifeVars == <<vars, boot, starts>>

-----------------------------------------------------------------------------
\* "number" tells the processes of one server apart; "source" is the
\* coordinator whose snapshot, "values" and "entries", is being installed.
NotStarting ==
    [phase |-> "Off", number |-> 0, todo |-> {}, live |-> {}, coordinators |-> {},
     election |-> Nil, source |-> Nil, values |-> {}, entries |-> {}]

Starting(s) == boot[s].phase \notin {"Off", "Ready"}

\* No request is served and no server starts.
Idle == (\A p \in Run : ~ Active(p)) /\ (\A s \in Server : ~ Starting(s))

LifeInit ==
    /\ up = {}
    /\ logs = [s \in Server |-> [k \in Key |-> NoRounds]]
    /\ data = [s \in Server |-> [k \in Key |-> Nil]]
    /\ coordinator = [s \in Server |-> Nil]
    /\ run = [p \in Run |-> NotStarted]
    /\ handlers = {}
    /\ faults = 0
    /\ applied = [s \in Server |-> {}]
    /\ prior = [p \in Run |-> {}]
    /\ boot = [s \in Server |-> NotStarting]
    /\ starts = 0

\* The process of s starts: its services answer before Initialize is called.
\* The calls that the end of the last process of s broke have failed by then.
Start(s) ==
    /\ s \notin up
    /\ \A p \in Run, phase \in Working : ~ Calls(p, phase, s)
    /\ starts < MaxStarts
    /\ StartsAlone => Idle
    /\ up' = up \cup {s}
    /\ boot' = [boot EXCEPT ![s] = [NotStarting EXCEPT !.phase  = "GetCoordinator",
                                                       !.number = starts + 1,
                                                       !.todo   = Server]]
    /\ starts' = starts + 1
    /\ UNCHANGED <<logs, data, coordinator, run, handlers, faults, applied, prior>>

-----------------------------------------------------------------------------
(* GetCoordinator *)

\* The GetCoordinator handler of t answers OK.
Knows(t) == t \in up /\ coordinator[t] # Nil

\* Mutant of AskCoordinator: the replica that answers, not the one it names, is
\* taken for the coordinator.
AskCoordinatorOwnName(s, t) ==
    /\ boot[s].phase = "GetCoordinator"
    /\ t \in boot[s].todo
    /\ \A u \in boot[s].todo : t <= u
    /\ \/ /\ Knows(t)
          /\ boot' = [boot EXCEPT ![s].todo = @ \ {t}, ![s].live = @ \cup {t},
                                  ![s].coordinators = @ \cup {t}]
          /\ UNCHANGED faults
       \/ /\ ~ Knows(t)
          /\ boot' = [boot EXCEPT ![s].todo = @ \ {t}]
          /\ UNCHANGED faults
       \/ /\ t \in up /\ faults < MaxFaults
          /\ boot' = [boot EXCEPT ![s].todo = @ \ {t}]
          /\ faults' = faults + 1
    /\ UNCHANGED <<serverVars, run, handlers, applied, prior, starts>>

\* The loop over the replicas comes to t: t answers, or knows no coordinator,
\* or is down, or the call fails.
AskCoordinator(s, t) ==
    /\ boot[s].phase = "GetCoordinator"
    /\ t \in boot[s].todo
    /\ \A u \in boot[s].todo : t <= u
    /\ \/ /\ Knows(t)
          /\ boot' = [boot EXCEPT ![s].todo = @ \ {t}, ![s].live = @ \cup {t},
                                  ![s].coordinators = @ \cup {coordinator[t]}]
          /\ UNCHANGED faults
       \/ /\ ~ Knows(t)
          /\ boot' = [boot EXCEPT ![s].todo = @ \ {t}]
          /\ UNCHANGED faults
       \/ /\ t \in up /\ faults < MaxFaults
          /\ boot' = [boot EXCEPT ![s].todo = @ \ {t}]
          /\ faults' = faults + 1
    /\ UNCHANGED <<serverVars, run, handlers, applied, prior, starts>>

\* The replicas that answered name one coordinator, which is one of them.
\* Otherwise this server will elect itself.
GetCoordinatorDone(s) ==
    /\ boot[s].phase = "GetCoordinator" /\ boot[s].todo = {}
    /\ \/ \E c \in boot[s].live :
             /\ boot[s].coordinators = {c}
             /\ coordinator' = [coordinator EXCEPT ![s] = c]
             /\ boot' = [boot EXCEPT ![s].phase = "GetRecovery"]
       \/ /\ \A c \in boot[s].live : boot[s].coordinators # {c}
          /\ boot' = [boot EXCEPT ![s].phase = "Elect"]
          /\ UNCHANGED coordinator
    /\ UNCHANGED <<up, logs, data, run, handlers, faults, applied, prior, starts>>

-----------------------------------------------------------------------------
(* ElectNewCoordinator: a call of its own MultiPaxos service *)

ElectNewCoordinator(s, p) ==
    /\ boot[s].phase = "Elect"
    /\ ElectCoordinator(p, s)
    /\ boot' = [boot EXCEPT ![s].phase = "Electing", ![s].election = p]
    /\ UNCHANGED starts

\* The election returns, or its deadline passes.
ElectionDone(s) ==
    /\ boot[s].phase = "Electing"
    /\ \/ /\ Returned(boot[s].election)
          /\ boot' = [boot EXCEPT ![s].phase =
                         IF run[boot[s].election].phase = "OK" THEN "GetRecovery" ELSE "Failed"]
          /\ UNCHANGED faults
       \/ /\ faults < MaxFaults
          /\ boot' = [boot EXCEPT ![s].phase = "Failed"]
          /\ faults' = faults + 1
    /\ UNCHANGED <<serverVars, run, handlers, applied, prior, starts>>

-----------------------------------------------------------------------------
(* GetRecovery: the Recover handler of the coordinator copies the data map  *)
(* and then the logs; the caller installs the copies entry by entry.        *)

\* The coordinator's stub, which is null if no coordinator is known: using it
\* ends the process, as the failed assertion does.
GetRecovery(s) ==
    /\ boot[s].phase = "GetRecovery"
    /\ boot' = [boot EXCEPT ![s].source = coordinator[s],
                            ![s].phase = IF coordinator[s] = Nil THEN "Failed" ELSE "Recover"]
    /\ UNCHANGED <<vars, starts>>

\* Mutant of RecoverFails: only the deadline ends the call, which is repeated
\* until the coordinator answers.
RecoverWaits(s) ==
    /\ boot[s].phase \in {"Recover", "RecoverLogs"}
    /\ faults < MaxFaults /\ faults' = faults + 1
    /\ boot' = [boot EXCEPT ![s].phase = "Failed"]
    /\ UNCHANGED <<serverVars, run, handlers, applied, prior, starts>>

\* The call of Recover fails: the coordinator is down, or too slow.
RecoverFails(s) ==
    /\ boot[s].phase \in {"Recover", "RecoverLogs"}
    /\ \/ boot[s].source \notin up /\ UNCHANGED faults
       \/ boot[s].source \in up /\ faults < MaxFaults /\ faults' = faults + 1
    /\ boot' = [boot EXCEPT ![s].phase = "Failed"]
    /\ UNCHANGED <<serverVars, run, handlers, applied, prior, starts>>

\* Mutant of Recover: a server asks itself for the data.
RecoverOwnData(s) ==
    /\ boot[s].phase = "Recover" /\ boot[s].source \in up
    /\ boot' = [boot EXCEPT ![s].phase = "RecoverLogs",
                            ![s].values = {<<k, data[s][k]>> : k \in {j \in Key : data[s][j] # Nil}}]
    /\ UNCHANGED <<vars, starts>>

Recover(s) ==
    LET c == boot[s].source IN
    /\ boot[s].phase = "Recover" /\ c \in up
    /\ boot' = [boot EXCEPT ![s].phase = "RecoverLogs",
                            ![s].values = {<<k, data[c][k]>> : k \in {j \in Key : data[c][j] # Nil}}]
    /\ UNCHANGED <<vars, starts>>

RecoverLogs(s) ==
    LET c == boot[s].source IN
    /\ boot[s].phase = "RecoverLogs" /\ c \in up
    /\ boot' = [boot EXCEPT ![s].phase = "Install",
                            ![s].entries = UNION {{<<k, r, logs[c][k][r]>> : r \in DOMAIN logs[c][k]}
                                                    : k \in Key}]
    /\ UNCHANGED <<vars, starts>>

InstallValue(s) ==
    /\ boot[s].phase = "Install"
    /\ \E e \in boot[s].values :
          /\ data' = [data EXCEPT ![s] = SetValue(@, e[1], e[2])]
          /\ boot' = [boot EXCEPT ![s].values = @ \ {e}]
    /\ UNCHANGED <<up, logs, coordinator, run, handlers, faults, applied, prior, starts>>

InstallLog(s) ==
    /\ boot[s].phase = "Install" /\ boot[s].values = {}
    /\ \E e \in boot[s].entries :
          /\ logs' = [logs EXCEPT ![s][e[1]] = AddRecovered(@, e[2], e[3])]
          /\ boot' = [boot EXCEPT ![s].entries = @ \ {e}]
    /\ UNCHANGED <<up, data, coordinator, run, handlers, faults, applied, prior, starts>>

Recovered(s) ==
    /\ boot[s].phase = "Install" /\ boot[s].values = {} /\ boot[s].entries = {}
    /\ boot' = [boot EXCEPT ![s].phase = "Ready"]
    /\ UNCHANGED <<vars, starts>>

-----------------------------------------------------------------------------
\* The process of s ends.  The call of one it is sending a snapshot fails.
Ends(s) ==
    /\ boot' = [t \in Server |->
                   IF t = s THEN NotStarting
                   ELSE IF boot[t].phase = "RecoverLogs" /\ boot[t].source = s
                   THEN [boot[t] EXCEPT !.phase = "Failed"]
                   ELSE boot[t]]
    /\ UNCHANGED starts

\* assert(multi_paxos_service.Initialize().ok())
AssertFails(s) == boot[s].phase = "Failed" /\ Die(s) /\ Ends(s)

CrashProcess(s) == Crash(s) /\ Ends(s)

\* KeyValueStoreServiceImpl: a server forwards a request to its coordinator, or
\* elects itself if that one is down, or (a failed call) too slow to answer.
ForwardRequest(p) ==
    /\ StartsAlone => \A s \in Server : ~ Starting(s)
    /\ \E s \in {coordinator[t] : t \in up} \cap Server, k \in DataKey :
          (\E v \in Value : PutPair(p, s, k, v)) \/ DeletePair(p, s, k)
    /\ UNCHANGED <<boot, starts>>

ReplaceCoordinator(p, s) ==
    /\ StartsAlone => \A t \in Server : ~ Starting(t)
    /\ s \in up
    /\ coordinator[s] \in Server
    /\ coordinator[s] \in up => faults < MaxFaults
    /\ ElectCoordinator(p, s)
    /\ UNCHANGED <<boot, starts>>

\* A step of main's thread of s.
Initialize(s) ==
    \/ \E t \in Server : AskCoordinator(s, t)
    \/ GetCoordinatorDone(s)
    \/ \E p \in Run : ElectNewCoordinator(s, p)
    \/ ElectionDone(s)
    \/ GetRecovery(s) \/ RecoverFails(s) \/ Recover(s) \/ RecoverLogs(s)
    \/ InstallValue(s) \/ InstallLog(s) \/ Recovered(s)
    \/ AssertFails(s)

\* A step of a Paxos run of MultiPaxos.
PaxosStep(p) ==
    /\ Proceed(p) \/ \E s \in Server : Serve(p, s) \/ DeadlineExceeded(p, s)
    /\ UNCHANGED <<boot, starts>>

LifeNext ==
    \/ \E s \in Server : Start(s) \/ Initialize(s) \/ CrashProcess(s)
    \/ \E p \in Run : PaxosStep(p) \/ ForwardRequest(p)
    \/ \E p \in Run, s \in Server : ReplaceCoordinator(p, s)

LifeSpec == LifeInit /\ [][LifeNext]_lifeVars
-----------------------------------------------------------------------------
\* The main threads are scheduled, and every call they wait for returns.
LifeFairness ==
    /\ \A s \in Server : WF_lifeVars(Initialize(s))
    /\ \A p \in Run : WF_lifeVars(Proceed(p) /\ UNCHANGED <<boot, starts>>)
    /\ \A p \in Run, s \in Server : WF_lifeVars(Serve(p, s) /\ UNCHANGED <<boot, starts>>)

FairLifeSpec == LifeSpec /\ LifeFairness
-----------------------------------------------------------------------------
(* Types *)

BootPhase ==
    {"Off", "GetCoordinator", "Elect", "Electing", "GetRecovery", "Recover",
     "RecoverLogs", "Install", "Ready", "Failed"}

BootLocals ==
    [phase : BootPhase, number : 0..MaxStarts, todo : SUBSET Server, live : SUBSET Server,
     coordinators : SUBSET Server, election : Run \cup {Nil}, source : Server \cup {Nil},
     values : SUBSET (Key \X AnyValue),
     entries : SUBSET (Key \X (Nat \ {0}) \X PaxosLog)]

\* The locals of main's threads have the types the C++ code gives them; a
\* process that is not running has none.
LifeTypeOK ==
    /\ TypeOK
    /\ starts \in 0..MaxStarts
    /\ boot \in [Server -> BootLocals]
    /\ \A s \in Server : s \in up <=> boot[s].phase # "Off"

-----------------------------------------------------------------------------
(* Properties *)

\* Recovery brings nothing into a replica that was not decided: whatever a
\* replica stores, and whomever it takes for the coordinator, a majority of
\* some proposer's live replicas had accepted, even if all of those have
\* crashed and started again since.
RecoveredWasChosen ==
    \A s \in Server :
        /\ \A k \in Key : data[s][k] # Nil =>
              \E p \in Run : /\ Chosen(p) /\ run[p].key = k
                             /\ run[p].proposal = [type |-> "SET", value |-> data[s][k]]
        /\ coordinator[s] # Nil =>
              \E p \in Run : /\ Chosen(p) /\ run[p].key = CoordinatorKey
                             /\ run[p].proposal = [type |-> "SET_COORDINATOR",
                                                   value |-> coordinator[s]]

\* Nothing is going on and nothing was cut short.
Quiet ==
    /\ \A p \in Run : ~ Active(p) /\ run[p].phase # "Lost"
    /\ handlers = {}
    /\ \A s \in up : boot[s].phase = "Ready"
    /\ faults = 0

\* The process of s recovered from the one of c that runs now.
RecoveredFrom(s, c) ==
    /\ {s, c} \subseteq up /\ s # c
    /\ boot[s].source = c /\ boot[c].number < boot[s].number

\* README.md:105, "To ensure any server can catch up with other replicas after
\* it's brought up, it goes through an Initialize stage": a server that has
\* recovered from another one has what that one has whenever nothing is going
\* on.  So it is if clients wait while servers start and send one request for a
\* key at a time, and not otherwise.
FollowersCatchUp ==
    Quiet =>
        \A s, c \in Server : RecoveredFrom(s, c) =>
            \A k \in DataKey : /\ data[s][k] = data[c][k]
                               /\ DOMAIN logs[s][k] = DOMAIN logs[c][k]

\* A server that starts is ready at last, or its process ends: no step of
\* Initialize waits for what may never come.  (Unless the bound on requests
\* leaves none for its election.)
StartsEnd ==
    \A s \in Server :
        Starting(s) ~> (~ Starting(s) \/ \A p \in Run : run[p].phase # "Idle")

-----------------------------------------------------------------------------
(* What the repository says and the code does not do *)

\* README.md:82, "Any server may be down and restarted at any time. Data
\* recovery(through replication) happens each time a server comes back to
\* live": the replicas that run store the same.
AnyServerRecovers ==
    Quiet => \A s, t \in up, k \in DataKey : data[s][k] = data[t][k]

\* README.md:85, "Each server may start a Coordinator election, self-nominating,
\* when they find Coordinator is unavailable or not elected yet": the election
\* that a starting server has won ends with a coordinator that is available.
ElectionNamesLive ==
    [][\A s \in Server : boot[s].phase = "Electing" /\ boot'[s].phase = "GetRecovery" =>
          coordinator[s] \in up]_lifeVars

\* README.md:106, "to get a snapshot of datastore and paxos logs": the values
\* that another server sends are what it stores when the copy of its logs
\* completes the snapshot.
SnapshotOfOneMoment ==
    [][\A s \in Server :
          LET c == boot[s].source IN
          boot[s].phase = "RecoverLogs" /\ boot'[s].phase = "Install" /\ c # s =>
             boot[s].values = {<<k, data[c][k]>> : k \in {j \in Key : data[c][j] # Nil}}]_lifeVars

\* README.md:105, "To ensure any server can catch up with other replicas after
\* it's brought up, it goes through an Initialize stage once it's started": also
\* a server that is asked to execute requests while it starts has, when it is
\* ready and nothing is going on, what the server that it recovered from has.
\* (Requests that have not found every server live are left aside.)
ServedWhileStarting ==
    /\ Quiet
    /\ \A p \in Run :
          run[p].phase = "OK" /\ run[p].key \in DataKey => up \subseteq run[p].live
    => \A s, c \in Server : RecoveredFrom(s, c) => \A k \in DataKey : data[s][k] = data[c][k]

=============================================================================
