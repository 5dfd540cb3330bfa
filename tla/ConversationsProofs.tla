------------------------ MODULE ConversationsProofs ------------------------
(***************************************************************************)
(* What TLC checks of Conversations with two users, one named agent and    *)
(* two jobs, proved for any number of them, and of messages, commands,     *)
(* edits and restarts.                                                     *)
(***************************************************************************)
EXTENDS Conversations, FiniteSetTheorems, TLAPS

-----------------------------------------------------------------------------
\* The types.

Typed ==
    /\ TypeOK
    /\ bus \in Seq(InboundMessage)
    /\ born \in [Jobs -> Birth \cup {Unborn}]
    /\ faults \in Nat
    /\ Armed \subseteq drawn

LEMMA FreshIsFresh == drawn # Jobs /\ drawn \subseteq Jobs => Fresh \in Jobs /\ Fresh \notin drawn
BY DEF Fresh

LEMMA ReconcileTypes ==
    ASSUME js \in Files, registry \in Specs, version \in Nat, Reconcile
    PROVE  registry' \in Specs /\ version' \in Nat
<1>1. registry' \in Specs
  BY DEF Reconcile, Reconciled, Added, Files, Specs
<1>2. Cardinality(Dropped(js, registry)) \in Nat /\ Cardinality(Added(js, registry)) \in Nat
  <2>1. Dropped(js, registry) \subseteq Names /\ Added(js, registry) \subseteq Names
    BY DEF Dropped, Added
  <2> QED
    BY <2>1, SavedAssumption, FS_Subset, FS_CardinalityType
<1> QED
  BY <1>1, <1>2 DEF Reconcile

LEMMA DesiredTypes == js \in Files => Desired(js) \in Specs
BY DEF Desired, Files, Specs

LEMMA PublishTypes ==
    ASSUME bus \in Seq(InboundMessage), NEW m \in InboundMessage, Publish(m)
    PROVE  bus' \in Seq(InboundMessage) /\ \A i \in DOMAIN bus' : bus'[i] \in InboundMessage
<1>1. bus' \in Seq(InboundMessage)
  BY DEF Publish
<1> QED
  BY <1>1

LEMMA TailTypes ==
    ASSUME bus \in Seq(InboundMessage), bus # <<>>, bus' = Tail(bus)
    PROVE  /\ Head(bus) \in InboundMessage
           /\ bus' \in Seq(InboundMessage)
           /\ \A i \in DOMAIN bus' : bus'[i] \in InboundMessage
<1>1. bus' \in Seq(InboundMessage) /\ Head(bus) \in InboundMessage
  OBVIOUS
<1> QED
  BY <1>1

LEMMA RemoveTypes ==
    ASSUME Armed \subseteq drawn, \A j \in Armed : jobs[j] \in CronJob,
           NEW i, NEW user, RemoveJob(i, user)
    PROVE  /\ Armed' \subseteq Armed
           /\ \A j \in Armed' : jobs'[j] = jobs[j]
BY DEF RemoveJob, Without, Armed

\* A message that a user sends, and one that a job does.
LEMMA SaidTypes ==
    ASSUME NEW u \in Users, NEW h \in Homes, NEW a \in Agents \cup {Default, None}
    PROVE  Said(u, h, a) \in InboundMessage
BY DEF Said, InboundMessage, Contexts

LEMMA FiredTypes ==
    ASSUME NEW j \in Jobs, jobs[j] \in CronJob
    PROVE  Fired(j) \in InboundMessage
BY DEF Fired, InboundMessage, CronJob

\* The turn that StartTurn makes of a message.
LEMMA ResolvedTypes ==
    ASSUME deployed \subseteq Agents, active \in [Users -> AgentMap], NEW m \in InboundMessage
    PROVE  /\ Resolved(m) \in AgentMap
           /\ Resolved(m) \in Agents \cup {Default}
           /\ Effective(m, Resolved(m)) \in Contexts
<1>1. Resolved(m) \in AgentMap
  BY DEF Resolved, AgentMap, InboundMessage
<1>2. Resolved(m) \in Agents \cup {Default}
  BY <1>1 DEF AgentMap
<1>3. m.context \in Contexts
  BY DEF InboundMessage
<1>4. \A a \in Agents : <<"agent", a>> \in Contexts
  BY DEF Contexts
<1> HIDE DEF Contexts
<1> QED
  BY <1>1, <1>2, <1>3, <1>4 DEF Effective

LEMMA InitTyped == Init => Typed
<1> SUFFICES ASSUME Init PROVE Typed
  OBVIOUS
<1>1. js \in Files /\ registry \in Specs
  <2>1. js \in Files
    BY DEF Init, Files
  <2> QED
    BY <2>1, DesiredTypes DEF Init
<1>2. Armed = {} /\ drawn = {}
  BY DEF Init, Armed
<1>3. active \in [Users -> AgentMap] /\ threads \in [Keys -> Trace \cup {NoThread}]
  BY DEF Init, AgentMap
<1>4. born \in [Jobs -> Birth \cup {Unborn}]
  BY DEF Init
<1>5. edits \in 0..MaxEdits
  BY SavedAssumption DEF Init
<1> QED
  BY <1>1, <1>2, <1>3, <1>4, <1>5 DEF Init, Typed, TypeOK

\* What no action of the group below touches.
DiskTyped == js \in Files /\ registry \in Specs /\ version \in Nat /\ edits \in 0..MaxEdits
JobsTyped ==
    /\ Armed \subseteq drawn /\ drawn \subseteq Jobs
    /\ \A j \in Armed : jobs[j] \in CronJob
BusTyped == bus \in Seq(InboundMessage) /\ \A i \in DOMAIN bus : bus[i] \in InboundMessage
TurnsTyped == turns \subseteq Turn /\ disarming \subseteq InboundMessage
SessionsTyped ==
    /\ deployed \in Deploys
    /\ active \in [Users -> AgentMap]
    /\ threads \in [Keys -> Trace \cup {NoThread}]
PastTyped == born \in [Jobs -> Birth \cup {Unborn}] /\ asked \subseteq Jobs

LEMMA TypedParts ==
    Typed <=> /\ DiskTyped /\ JobsTyped /\ BusTyped /\ TurnsTyped /\ SessionsTyped /\ PastTyped
              /\ faults \in Nat
BY DEF Typed, TypeOK, DiskTyped, JobsTyped, BusTyped, TurnsTyped, SessionsTyped, PastTyped

LEMMA TypedNext ==
    /\ DiskTyped' /\ JobsTyped' /\ BusTyped' /\ TurnsTyped' /\ SessionsTyped' /\ PastTyped'
    /\ faults' \in Nat
    => Typed'
BY DEF Typed, TypeOK, DiskTyped, JobsTyped, BusTyped, TurnsTyped, SessionsTyped, PastTyped

LEMMA DiskKeeps ==
    /\ DiskTyped /\ UNCHANGED disk => DiskTyped'
    /\ DiskTyped /\ Reconcile /\ UNCHANGED <<js, edits>> => DiskTyped'
BY ReconcileTypes DEF DiskTyped, disk

LEMMA JobsKeep ==
    /\ JobsTyped /\ UNCHANGED cronVars => JobsTyped'
    /\ \A j, u : JobsTyped /\ RemoveJob(j, u) /\ UNCHANGED drawn => JobsTyped'
<1>1. JobsTyped /\ UNCHANGED cronVars => JobsTyped'
  BY DEF JobsTyped, cronVars, Armed
<1>2. ASSUME NEW j, NEW u, JobsTyped, RemoveJob(j, u), UNCHANGED drawn PROVE JobsTyped'
  <2>1. Armed' \subseteq Armed /\ \A i \in Armed' : jobs'[i] = jobs[i]
    BY <1>2, RemoveTypes DEF JobsTyped
  <2> QED
    BY <1>2, <2>1 DEF JobsTyped
<1> QED
  BY <1>1, <1>2

LEMMA BusKeeps ==
    /\ BusTyped /\ UNCHANGED bus => BusTyped'
    /\ \A m \in InboundMessage : BusTyped /\ Publish(m) => BusTyped'
BY PublishTypes DEF BusTyped

LEMMA TurnsKeep ==
    /\ TurnsTyped /\ UNCHANGED <<turns, disarming>> => TurnsTyped'
    /\ PastTyped /\ UNCHANGED <<born, asked>> => PastTyped'
BY DEF TurnsTyped, PastTyped

LEMMA SessionsKeep ==
    SessionsTyped /\ UNCHANGED <<deployed, active, threads>> => SessionsTyped'
BY DEF SessionsTyped, AgentMap

\* Scheduling: the job of a turn.
LEMMA ScheduleTypes ==
    ASSUME JobsTyped, PastTyped, TurnsTyped, NEW t \in turns, NEW kind, NEW w \in Names \cup {None},
           Schedule(t, kind, w)
    PROVE  JobsTyped' /\ PastTyped'
<1>1. t.msg \in InboundMessage /\ t.agent \in Agents \cup {Default} /\ t.context \in Contexts
  BY DEF TurnsTyped, Turn
<1>2. t.msg.user \in Users /\ t.msg.chat \in Homes
  BY <1>1 DEF InboundMessage
<1>3. AddJob(t.msg.user, t.msg.chat, t.context, kind, w)
  BY DEF Schedule
<1>4. Fresh \in Jobs /\ Fresh \notin drawn
  BY <1>3, FreshIsFresh DEF AddJob, JobsTyped
<1> DEFINE job == [owner |-> t.msg.user, chat |-> t.msg.chat, workflow |-> w,
                   context |-> IF kind = "reminder" THEN t.context ELSE <<"task", Fresh>>,
                   agent |-> AgentIn(t.context)]
           birth == [user |-> t.msg.user, chat |-> t.msg.chat,
                     agent |-> t.agent, context |-> t.context]
<1>5. AgentIn(t.context) \in Agents \cup {None}
  BY <1>1 DEF AgentIn, Contexts
<1>6. (IF kind = "reminder" THEN t.context ELSE <<"task", Fresh>>) \in Contexts
  <2>1. <<"task", Fresh>> \in Contexts
    BY <1>4 DEF Contexts
  <2> QED
    BY <1>1, <2>1
<1>7. job \in CronJob
  BY <1>2, <1>5, <1>6 DEF CronJob
<1>8. birth \in Birth
  BY <1>1, <1>2 DEF Birth
<1>9. jobs' = [j \in Armed \cup {Fresh} |-> IF j # Fresh THEN jobs[j] ELSE job]
  BY <1>3 DEF AddJob
<1>10. drawn' = drawn \cup {Fresh}
  BY <1>3 DEF AddJob
<1>11. born' = [born EXCEPT ![Fresh] = birth] /\ asked' = asked
  BY DEF Schedule
<1> HIDE DEF job, birth
<1>12. Armed' = Armed \cup {Fresh} /\ \A j \in Armed' : jobs'[j] = IF j # Fresh THEN jobs[j] ELSE job
  BY <1>9 DEF Armed
<1>13. JobsTyped'
  BY <1>4, <1>7, <1>10, <1>12 DEF JobsTyped
<1>14. PastTyped'
  BY <1>4, <1>8, <1>11 DEF PastTyped
<1> QED
  BY <1>13, <1>14

LEMMA StartTurnTypes ==
    ASSUME Typed, StartTurn
    PROVE  BusTyped' /\ TurnsTyped' /\ SessionsTyped'
<1> DEFINE m == Head(bus)
           a == Resolved(m)
           c == Effective(m, a)
<1>1. m \in InboundMessage /\ BusTyped'
  BY TailTypes DEF StartTurn, BusTyped, Typed
<1>2. deployed \subseteq Agents /\ active \in [Users -> AgentMap]
  BY ConversationsAssumption DEF Typed, TypeOK
<1>3. a \in Agents \cup {Default} /\ c \in Contexts
  BY <1>1, <1>2, ResolvedTypes
<1>4. /\ turns' = turns \cup {[msg |-> m, agent |-> a, context |-> c]}
      /\ threads' = [threads EXCEPT ![<<m.user, c>>] = [agent |-> a, job |-> m.job]]
      /\ UNCHANGED <<disarming, deployed, active>>
  BY DEF StartTurn, SetThread
<1> HIDE DEF m, a, c
<1>5. TurnsTyped'
  <2>1. [msg |-> m, agent |-> a, context |-> c] \in Turn
    BY <1>1, <1>3 DEF Turn
  <2> QED
    BY <1>4, <2>1 DEF TurnsTyped, Typed, TypeOK
<1>6. SessionsTyped'
  <2>1. [agent |-> a, job |-> m.job] \in Trace
    BY <1>1, <1>3 DEF Trace, InboundMessage
  <2>2. threads' \in [Keys -> Trace \cup {NoThread}]
    BY <1>4, <2>1 DEF Typed, TypeOK
  <2> QED
    BY <1>4, <2>2 DEF SessionsTyped, Typed, TypeOK, AgentMap
<1> QED
  BY <1>1, <1>5, <1>6

LEMMA CommandTypes ==
    ASSUME Typed, NEW u \in Users
    PROVE  /\ \A h \in Homes, a \in Agents \cup {Default} : SendOneOff(u, h, a) => Typed'
           /\ \A a \in Agents \cup {Default} : SwitchAgent(u, a) => Typed'
           /\ \A h \in Homes : Reset(u, h) => Typed'
           /\ \A j \in Jobs : RemoveByCommand(u, j) => Typed'
<1>0. DiskTyped /\ JobsTyped /\ BusTyped /\ TurnsTyped /\ SessionsTyped /\ PastTyped /\ faults \in Nat
  BY TypedParts
<1>1. ASSUME Command
      PROVE  DiskTyped' /\ TurnsTyped' /\ faults' \in Nat /\ UNCHANGED <<drawn, deployed, born>>
  BY <1>0, <1>1, DiskKeeps, TurnsKeep DEF Command
<1>2. ASSUME NEW h \in Homes, NEW a \in Agents \cup {Default}, SendOneOff(u, h, a)
      PROVE  Typed'
  <2>1. Command /\ Publish(Said(u, h, a)) /\ UNCHANGED <<jobs, active, threads, asked>>
    BY <1>2 DEF SendOneOff, sessions
  <2>2. BusTyped'
    BY <1>0, <2>1, BusKeeps, SaidTypes
  <2>3. JobsTyped' /\ SessionsTyped' /\ PastTyped'
    BY <1>0, <1>1, <2>1, JobsKeep, SessionsKeep, TurnsKeep DEF cronVars
  <2> QED
    BY <1>1, <2>1, <2>2, <2>3, TypedNext
<1>3. ASSUME NEW a \in Agents \cup {Default}, SwitchAgent(u, a) PROVE Typed'
  <2>1. /\ Command /\ a \in AgentMap /\ active' = [active EXCEPT ![u] = a]
        /\ UNCHANGED <<jobs, bus, threads, asked>>
    BY <1>3 DEF SwitchAgent, SetActive
  <2>2. JobsTyped' /\ BusTyped' /\ PastTyped'
    BY <1>0, <1>1, <2>1, JobsKeep, BusKeeps, TurnsKeep DEF cronVars
  <2>3. SessionsTyped'
    BY <1>0, <1>1, <2>1 DEF SessionsTyped, AgentMap
  <2> QED
    BY <1>1, <2>1, <2>2, <2>3, TypedNext
<1>4. ASSUME NEW h \in Homes, Reset(u, h) PROVE Typed'
  <2>1. /\ Command /\ threads' = [threads EXCEPT ![<<u, <<"home", h>>>>] = NoThread]
        /\ UNCHANGED <<jobs, bus, active, asked>>
    BY <1>4 DEF Reset, DeleteThread, SetThread
  <2>2. JobsTyped' /\ BusTyped' /\ PastTyped'
    BY <1>0, <1>1, <2>1, JobsKeep, BusKeeps, TurnsKeep DEF cronVars
  <2>3. SessionsTyped'
    BY <1>0, <1>1, <2>1 DEF SessionsTyped, AgentMap
  <2> QED
    BY <1>1, <2>1, <2>2, <2>3, TypedNext
<1>5. ASSUME NEW j \in Jobs, RemoveByCommand(u, j) PROVE Typed'
  <2>1. Command /\ RemoveJob(j, u) /\ Asks(j, u) /\ UNCHANGED <<bus, active, threads>>
    BY <1>5 DEF RemoveByCommand, sessions
  <2>2. JobsTyped' /\ BusTyped' /\ SessionsTyped'
    BY <1>0, <1>1, <2>1, JobsKeep, BusKeeps, SessionsKeep
  <2>3. PastTyped'
    BY <1>0, <1>1, <2>1 DEF PastTyped, Asks
  <2> QED
    BY <1>1, <2>1, <2>2, <2>3, TypedNext
<1> QED
  BY <1>2, <1>3, <1>4, <1>5

LEMMA TurnTypes ==
    ASSUME Typed
    PROVE  /\ StartTurn => Typed'
           /\ \A kind : \A t \in turns, w \in Names \cup {None} : Schedule(t, kind, w) => Typed'
           /\ \A t \in turns, j \in Jobs : RemoveByTool(t, j) => Typed'
           /\ \A t \in turns : EndTurn(t) => Typed'
<1>0. DiskTyped /\ JobsTyped /\ BusTyped /\ TurnsTyped /\ SessionsTyped /\ PastTyped /\ faults \in Nat
  BY TypedParts
<1>1. ASSUME StartTurn PROVE Typed'
  <2>1. UNCHANGED <<disk, cronVars, born, asked, faults>>
    BY <1>1 DEF StartTurn, bounds, history
  <2>2. BusTyped' /\ TurnsTyped' /\ SessionsTyped'
    BY <1>1, StartTurnTypes
  <2>3. DiskTyped' /\ JobsTyped' /\ PastTyped'
    BY <1>0, <2>1, DiskKeeps, JobsKeep, TurnsKeep
  <2> QED
    BY <1>0, <2>1, <2>2, <2>3, TypedNext
<1>2. ASSUME NEW t \in turns, NEW kind, NEW w \in Names \cup {None}, Schedule(t, kind, w)
      PROVE  Typed'
  <2>1. UNCHANGED <<disk, bus, turns, disarming, deployed, active, threads, faults>>
    BY <1>2 DEF Schedule, bounds, sessions
  <2>2. JobsTyped' /\ PastTyped'
    BY <1>0, <1>2, ScheduleTypes
  <2>3. DiskTyped' /\ BusTyped' /\ TurnsTyped' /\ SessionsTyped'
    BY <1>0, <2>1, DiskKeeps, BusKeeps, TurnsKeep, SessionsKeep
  <2> QED
    BY <1>0, <2>1, <2>2, <2>3, TypedNext
<1>3. ASSUME NEW t \in turns, NEW j \in Jobs, RemoveByTool(t, j) PROVE Typed'
  <2>1. /\ RemoveJob(j, t.msg.user) /\ Asks(j, t.msg.user)
        /\ UNCHANGED <<disk, drawn, bus, turns, disarming, deployed, active, threads, faults, born>>
    BY <1>3 DEF RemoveByTool, bounds, sessions
  <2>2. DiskTyped' /\ JobsTyped' /\ BusTyped' /\ TurnsTyped' /\ SessionsTyped'
    BY <1>0, <2>1, DiskKeeps, JobsKeep, BusKeeps, TurnsKeep, SessionsKeep
  <2>3. PastTyped'
    BY <1>0, <2>1 DEF PastTyped, Asks
  <2> QED
    BY <1>0, <2>1, <2>2, <2>3, TypedNext
<1>4. ASSUME NEW t \in turns, EndTurn(t) PROVE Typed'
  <2>1. /\ turns' = turns \ {t}
        /\ UNCHANGED <<disk, cronVars, bus, disarming, deployed, active, threads, faults, born,
                       asked>>
    BY <1>4 DEF EndTurn, bounds, sessions, history
  <2>2. DiskTyped' /\ JobsTyped' /\ BusTyped' /\ SessionsTyped' /\ PastTyped'
    BY <1>0, <2>1, DiskKeeps, JobsKeep, BusKeeps, TurnsKeep, SessionsKeep
  <2>3. TurnsTyped'
    BY <1>0, <2>1 DEF TurnsTyped
  <2> QED
    BY <1>0, <2>1, <2>2, <2>3, TypedNext
<1> QED
  BY <1>1, <1>2, <1>3, <1>4

LEMMA JobTypes ==
    ASSUME Typed
    PROVE  /\ \A j \in Jobs : Fire(j) => Typed'
           /\ RunWorkflow => Typed'
           /\ \A m \in disarming : Disarm(m) => Typed'
<1>0. DiskTyped /\ JobsTyped /\ BusTyped /\ TurnsTyped /\ SessionsTyped /\ PastTyped /\ faults \in Nat
  BY TypedParts
<1>1. ASSUME NEW j \in Jobs, Fire(j) PROVE Typed'
  <2>1. /\ j \in Armed /\ Publish(Fired(j))
        /\ UNCHANGED <<disk, cronVars, turns, disarming, deployed, active, threads, faults, born,
                       asked>>
    BY <1>1 DEF Fire, bounds, sessions, history
  <2>2. DiskTyped' /\ JobsTyped' /\ TurnsTyped' /\ SessionsTyped' /\ PastTyped'
    BY <1>0, <2>1, DiskKeeps, JobsKeep, TurnsKeep, SessionsKeep
  <2>3. BusTyped'
    BY <1>0, <2>1, BusKeeps, FiredTypes DEF JobsTyped
  <2> QED
    BY <1>0, <2>1, <2>2, <2>3, TypedNext
<1>2. ASSUME RunWorkflow PROVE Typed'
  <2>1. /\ bus # <<>> /\ bus' = Tail(bus)
        /\ UNCHANGED <<js, edits, cronVars, turns, deployed, active, threads, born, asked>>
        /\ disarming' \subseteq disarming \cup {Head(bus)}
    BY <1>2 DEF RunWorkflow, sessions, history
  <2>2. Head(bus) \in InboundMessage /\ BusTyped'
    BY <1>0, <2>1, TailTypes DEF BusTyped
  <2>3. TurnsTyped'
    BY <1>0, <2>1, <2>2 DEF TurnsTyped
  <2>4. DiskTyped' /\ faults' \in Nat
    <3>1. CASE Reconcile /\ UNCHANGED faults
      BY <1>0, <2>1, <3>1, DiskKeeps
    <3>2. CASE faults' = faults + 1 /\ UNCHANGED <<registry, version>>
      BY <1>0, <2>1, <3>2 DEF DiskTyped
    <3> QED
      BY <1>2, <3>1, <3>2 DEF RunWorkflow
  <2>5. JobsTyped' /\ SessionsTyped' /\ PastTyped'
    BY <1>0, <2>1, JobsKeep, TurnsKeep, SessionsKeep
  <2> QED
    BY <2>2, <2>3, <2>4, <2>5, TypedNext
<1>3. ASSUME NEW m \in disarming, Disarm(m) PROVE Typed'
  <2>1. /\ disarming' = disarming \ {m}
        /\ UNCHANGED <<disk, drawn, bus, turns, deployed, active, threads, born, asked>>
    BY <1>3 DEF Disarm, sessions, history
  <2>2. DiskTyped' /\ BusTyped' /\ SessionsTyped' /\ PastTyped'
    BY <1>0, <2>1, DiskKeeps, BusKeeps, TurnsKeep, SessionsKeep
  <2>3. TurnsTyped'
    BY <1>0, <2>1 DEF TurnsTyped
  <2>4. JobsTyped' /\ faults' \in Nat
    <3>1. CASE RemoveJob(m.job, m.user) /\ UNCHANGED faults
      BY <1>0, <2>1, <3>1, JobsKeep
    <3>2. CASE faults' = faults + 1 /\ UNCHANGED jobs
      BY <1>0, <2>1, <3>2, JobsKeep DEF cronVars
    <3> QED
      BY <1>3, <3>1, <3>2 DEF Disarm
  <2> QED
    BY <2>2, <2>3, <2>4, TypedNext
<1> QED
  BY <1>1, <1>2, <1>3

LEMMA RestartTypes == ASSUME Typed, Restart PROVE Typed'
<1>0. DiskTyped /\ JobsTyped /\ PastTyped /\ faults \in Nat
  BY TypedParts
<1>1. /\ faults' = faults + 1 /\ bus' = <<>> /\ turns' = {} /\ disarming' = {}
      /\ deployed' \in Deploys
      /\ active' = [u \in Users |-> Default] /\ threads' = [k \in Keys |-> NoThread]
      /\ jobs' = IF Persistent THEN jobs ELSE [j \in {} |-> None]
      /\ registry' = Desired(js) /\ version' = 0
      /\ UNCHANGED <<js, edits, drawn, born, asked>>
  BY DEF Restart, history
<1>2. DiskTyped'
  BY <1>0, <1>1, DesiredTypes DEF DiskTyped
<1>3. JobsTyped'
  BY <1>0, <1>1 DEF JobsTyped, Armed
<1>4. SessionsTyped'
  BY <1>1 DEF SessionsTyped, AgentMap
<1>5. BusTyped' /\ TurnsTyped' /\ PastTyped'
  BY <1>0, <1>1 DEF BusTyped, TurnsTyped, PastTyped
<1> QED
  BY <1>0, <1>1, <1>2, <1>3, <1>4, <1>5, TypedNext

LEMMA NextTyped == Typed /\ [Next]_vars => Typed'
<1> SUFFICES ASSUME Typed, [Next]_vars PROVE Typed'
  OBVIOUS
<1>0. DiskTyped /\ JobsTyped /\ BusTyped /\ TurnsTyped /\ SessionsTyped /\ PastTyped /\ faults \in Nat
  BY TypedParts
<1>1. ASSUME NEW u \in Users, NEW h \in Homes, Send(u, h) PROVE Typed'
  <2>1. /\ Publish(Said(u, h, None))
        /\ UNCHANGED <<disk, cronVars, turns, disarming, deployed, active, threads, faults, born,
                       asked>>
    BY <1>1 DEF Send, sessions, history
  <2>2. DiskTyped' /\ JobsTyped' /\ TurnsTyped' /\ SessionsTyped' /\ PastTyped'
    BY <1>0, <2>1, DiskKeeps, JobsKeep, TurnsKeep, SessionsKeep
  <2>3. BusTyped'
    BY <1>0, <2>1, BusKeeps, SaidTypes
  <2> QED
    BY <1>0, <2>1, <2>2, <2>3, TypedNext
<1>2. ASSUME NEW n \in Names, NEW text \in Texts \cup {Nothing}, Edit(n, text) PROVE Typed'
  <2>1. /\ edits < MaxEdits /\ edits' = edits + 1 /\ js' = [js EXCEPT ![n] = text]
        /\ UNCHANGED <<registry, version, cronVars, bus, turns, disarming, deployed, active,
                       threads, faults, born, asked>>
    BY <1>2 DEF Edit, sessions, bounds, history
  <2>2. DiskTyped'
    BY <1>0, <2>1, SavedAssumption DEF DiskTyped, Files
  <2>3. JobsTyped' /\ BusTyped' /\ TurnsTyped' /\ SessionsTyped' /\ PastTyped'
    BY <1>0, <2>1, JobsKeep, BusKeeps, TurnsKeep, SessionsKeep
  <2> QED
    BY <1>0, <2>1, <2>2, <2>3, TypedNext
<1>3. ASSUME Refresh PROVE Typed'
  <2>1. /\ Reconcile
        /\ UNCHANGED <<js, edits, cronVars, bus, turns, disarming, deployed, active, threads,
                       faults, born, asked>>
    BY <1>3 DEF Refresh, sessions, bounds, history
  <2>2. DiskTyped' /\ JobsTyped' /\ BusTyped' /\ TurnsTyped' /\ SessionsTyped' /\ PastTyped'
    BY <1>0, <2>1, DiskKeeps, JobsKeep, BusKeeps, TurnsKeep, SessionsKeep
  <2> QED
    BY <1>0, <2>1, <2>2, TypedNext
<1>4. ASSUME UNCHANGED vars PROVE Typed'
  <2>1. UNCHANGED <<disk, cronVars, bus, turns, disarming, deployed, active, threads, faults,
                    born, asked>>
    BY <1>4 DEF vars, sessions, bounds, history
  <2>2. DiskTyped' /\ JobsTyped' /\ BusTyped' /\ TurnsTyped' /\ SessionsTyped' /\ PastTyped'
    BY <1>0, <2>1, DiskKeeps, JobsKeep, BusKeeps, TurnsKeep, SessionsKeep
  <2> QED
    BY <1>0, <2>1, <2>2, TypedNext
<1>5. ASSUME NEW u \in Users, NEW h \in Homes,
             Send(u, h) \/ Reset(u, h) \/ \E a \in Agents \cup {Default} : SendOneOff(u, h, a)
      PROVE  Typed'
  BY <1>1, <1>5, CommandTypes
<1>6. ASSUME NEW u \in Users,
             \/ \E a \in Agents \cup {Default} : SwitchAgent(u, a)
             \/ \E j \in Jobs : RemoveByCommand(u, j)
      PROVE  Typed'
  BY <1>6, CommandTypes
<1>7. ASSUME NEW t \in turns,
             \/ \E kind \in {"reminder", "task"} : Schedule(t, kind, None)
             \/ \E w \in Names : Schedule(t, "task", w)
             \/ \E j \in Jobs : RemoveByTool(t, j)
             \/ EndTurn(t)
      PROVE  Typed'
  <2>1. ASSUME NEW kind, NEW w \in Names \cup {None}, Schedule(t, kind, w) PROVE Typed'
    BY <2>1, TurnTypes
  <2>2. ASSUME NEW j \in Jobs, RemoveByTool(t, j) PROVE Typed'
    BY <2>2, TurnTypes
  <2>3. EndTurn(t) => Typed'
    BY TurnTypes
  <2> QED
    BY <1>7, <2>1, <2>2, <2>3
<1>8. ASSUME StartTurn \/ RunWorkflow \/ Restart PROVE Typed'
  BY <1>8, TurnTypes, JobTypes, RestartTypes
<1>9. ASSUME \/ \E j \in Jobs : Fire(j)
             \/ \E m \in disarming : Disarm(m)
      PROVE  Typed'
  BY <1>9, JobTypes
<1> QED
  BY <1>2, <1>3, <1>4, <1>5, <1>6, <1>7, <1>8, <1>9 DEF Next

\* Every variable keeps its type, whoever asks for what and however often the
\* process is started again.
THEOREM ConversationTypes == Spec => []TypeOK
<1>1. Typed => TypeOK
  BY DEF Typed
<1> QED
  BY <1>1, InitTyped, NextTyped, PTL DEF Spec

-----------------------------------------------------------------------------
\* Whose a job is.  What a job publishes, now or before, tells of the turn that
\* scheduled it.

Told(m) ==
    m.job # None =>
        LET b == born[m.job]
        IN  /\ m.job \in drawn
            /\ m.user = b.user /\ m.chat = b.chat
            /\ m.agent = AgentIn(b.context)
            /\ m.context \in {b.context, <<"task", m.job>>}

\* Without a job it is a message of a chat.
Placed(m) == m.job = None => m.context[1] = "home"

JobsTold == \A j \in Armed : Told(Fired(j))
BusTold == \A i \in DOMAIN bus : Told(bus[i]) /\ Placed(bus[i])
TurnsTold ==
    \A t \in turns :
        /\ Told(t.msg)
        /\ t.msg.agent \in AgentMap => t.agent = t.msg.agent
        /\ t.context = Effective(t.msg, t.agent)

\* A named agent schedules in the context that has its name.
BornThere ==
    \A j \in drawn :
        born[j].agent # Default => born[j].context = <<"agent", born[j].agent>>

Owned == JobsTold /\ BusTold /\ TurnsTold /\ BornThere

\* What is told stays so.
LEMMA ToldStays ==
    ASSUME drawn \subseteq drawn', \A j \in drawn : born'[j] = born[j]
    PROVE  \A m : Told(m) => Told(m)'
BY DEF Told

\* The head of the bus leaves, or a message comes to its end.
LEMMA TailTold ==
    ASSUME Typed, BusTold, bus # <<>>, bus' = Tail(bus), UNCHANGED <<drawn, born>>
    PROVE  BusTold' /\ Told(Head(bus)) /\ Placed(Head(bus))
<1>1. \A i \in DOMAIN Tail(bus) : i + 1 \in DOMAIN bus /\ Tail(bus)[i] = bus[i + 1]
  BY DEF Typed
<1>2. Head(bus) = bus[1] /\ 1 \in DOMAIN bus
  BY DEF Typed
<1> QED
  BY <1>1, <1>2, ToldStays DEF BusTold, Placed

LEMMA PublishTold ==
    ASSUME Typed, BusTold, NEW m \in InboundMessage, Publish(m), Told(m), Placed(m),
           UNCHANGED <<drawn, born>>
    PROVE  BusTold'
<1>1. DOMAIN bus = 1..Len(bus) /\ DOMAIN bus' = 1..Len(bus) + 1 /\ Len(bus) \in Nat
  BY DEF Typed, Publish
<1>2. \A i \in DOMAIN bus' : bus'[i] = IF i = Len(bus) + 1 THEN m ELSE bus[i]
  BY <1>1 DEF Typed, Publish
<1>3. \A i \in DOMAIN bus' : i = Len(bus) + 1 \/ i \in DOMAIN bus
  BY <1>1
<1>4. \A i \in DOMAIN bus' : Told(bus'[i]) /\ Placed(bus'[i])
  BY <1>2, <1>3 DEF BusTold
<1> QED
  BY <1>4, ToldStays DEF BusTold, Placed

\* Steps after which the jobs, the turns and the past are what they were, or fewer.
LEMMA OwnedStays ==
    ASSUME Typed, Owned, UNCHANGED <<drawn, born, deployed>>, BusTold',
           Armed' \subseteq Armed, \A j \in Armed' : jobs'[j] = jobs[j], turns' \subseteq turns
    PROVE  Owned'
<1>1. JobsTold'
  <2>1. \A j \in Armed' : Fired(j)' = Fired(j)
    BY DEF Fired
  <2> QED
    BY <2>1, ToldStays DEF Owned, JobsTold
<1>2. TurnsTold'
  BY ToldStays DEF Owned, TurnsTold, AgentMap, Effective
<1>3. BornThere'
  BY DEF Owned, BornThere
<1> QED
  BY <1>1, <1>2, <1>3 DEF Owned

LEMMA BusToldStays ==
    ASSUME BusTold, UNCHANGED <<bus, drawn, born>>
    PROVE  BusTold'
BY ToldStays DEF BusTold, Placed

LEMMA RemoveOwned ==
    ASSUME Typed, Owned, NEW j, NEW u, RemoveJob(j, u),
           UNCHANGED <<drawn, born, deployed, bus, turns>>
    PROVE  Owned'
<1>1. Armed' \subseteq Armed /\ \A i \in Armed' : jobs'[i] = jobs[i]
  BY RemoveTypes DEF Typed, TypeOK
<1> QED
  BY <1>1, OwnedStays, BusToldStays DEF Owned

LEMMA SameOwned ==
    ASSUME Typed, Owned, UNCHANGED <<cronVars, born, deployed, bus>>, turns' \subseteq turns
    PROVE  Owned'
BY OwnedStays, BusToldStays DEF Owned, cronVars, Armed

LEMMA PublishOwned ==
    ASSUME Typed, Owned, NEW m \in InboundMessage, Publish(m), Told(m), Placed(m),
           UNCHANGED <<cronVars, born, deployed, turns>>
    PROVE  Owned'
BY OwnedStays, PublishTold DEF Owned, cronVars, Armed

\* A turn is of the agent that its message names, when there is one.
LEMMA StartTurnOwned == ASSUME Typed, Owned, StartTurn PROVE Owned'
<1> DEFINE m == Head(bus)
           a == Resolved(m)
           t == [msg |-> m, agent |-> a, context |-> Effective(m, a)]
<1>1. /\ bus # <<>> /\ bus' = Tail(bus) /\ turns' = turns \cup {t}
      /\ UNCHANGED <<cronVars, deployed, born>>
  BY DEF StartTurn, history
<1>2. BusTold' /\ Told(m)
  BY <1>1, TailTold DEF Owned, cronVars
<1>3. /\ t.msg = m
      /\ t.msg.agent \in AgentMap => t.agent = t.msg.agent
      /\ t.context = Effective(t.msg, t.agent)
  BY DEF Resolved
<1> HIDE DEF m, t
<1>4. TurnsTold'
  BY <1>1, <1>2, <1>3, ToldStays DEF Owned, TurnsTold, AgentMap, Effective, cronVars
<1>5. JobsTold' /\ BornThere'
  <2>1. \A j : Fired(j)' = Fired(j)
    BY <1>1 DEF Fired, cronVars
  <2> QED
    BY <1>1, <2>1, ToldStays DEF Owned, JobsTold, BornThere, cronVars, Armed
<1> QED
  BY <1>2, <1>4, <1>5 DEF Owned

LEMMA ScheduleOwned ==
    ASSUME Typed, Owned, NEW t \in turns, NEW kind, NEW w, Schedule(t, kind, w)
    PROVE  Owned'
<1>0. PICK f \in Jobs : f = Fresh /\ f \notin drawn
  BY FreshIsFresh DEF Schedule, AddJob, Typed, TypeOK
<1> DEFINE birth == [user |-> t.msg.user, chat |-> t.msg.chat,
                     agent |-> t.agent, context |-> t.context]
           job == [owner |-> t.msg.user, chat |-> t.msg.chat, workflow |-> w,
                   context |-> IF kind = "reminder" THEN t.context ELSE <<"task", f>>,
                   agent |-> AgentIn(t.context)]
<1>2. /\ drawn' = drawn \cup {f}
      /\ jobs' = [j \in Armed \cup {f} |-> IF j # f THEN jobs[j] ELSE job]
      /\ born' = [born EXCEPT ![f] = birth]
      /\ UNCHANGED <<bus, turns, deployed>>
  BY <1>0 DEF Schedule, AddJob
<1>3. born'[f] = birth /\ \A j \in drawn : born'[j] = born[j]
  BY <1>0, <1>2 DEF Typed
<1>4. Armed' = Armed \cup {f} /\ \A j \in Armed : jobs'[j] = jobs[j]
  BY <1>0, <1>2 DEF Armed, Typed
<1>5. jobs'[f] = job
  BY <1>2
<1>6. \A m : Told(m) => Told(m)'
  BY <1>2, <1>3, ToldStays
<1>7. BusTold' /\ TurnsTold'
  BY <1>2, <1>6 DEF Owned, BusTold, TurnsTold, Placed, AgentMap, Effective
<1>8. BornThere'
  <2>1. birth.agent # Default => birth.context = <<"agent", birth.agent>>
    BY DEF Owned, TurnsTold, Effective
  <2> QED
    BY <1>2, <1>3, <2>1 DEF Owned, BornThere
<1>9. Told(Fired(f))'
  <2>1. Fired(f)' = [user |-> job.owner, context |-> job.context, chat |-> job.chat,
                         agent |-> job.agent, workflow |-> job.workflow, job |-> f]
    BY <1>5 DEF Fired
  <2> QED
    BY <1>2, <1>3, <2>1 DEF Told
<1> QED
  BY <1>4, <1>6, <1>7, <1>8, <1>9 DEF Owned, JobsTold, Fired

\* A restart empties the bus and ends the turns; what the jobs tell is on disk.
LEMMA RestartOwned == ASSUME Typed, Owned, Restart PROVE Owned'
<1>1. /\ bus' = <<>> /\ turns' = {}
      /\ jobs' = IF Persistent THEN jobs ELSE [j \in {} |-> None]
      /\ UNCHANGED <<drawn, born>>
  BY DEF Restart, history
<1>2. Armed' \subseteq Armed /\ \A j \in Armed' : Fired(j)' = Fired(j)
  BY <1>1 DEF Armed, Fired
<1>3. JobsTold' /\ BornThere'
  BY <1>1, <1>2, ToldStays DEF Owned, JobsTold, BornThere
<1> QED
  BY <1>1, <1>3 DEF Owned, BusTold, TurnsTold

LEMMA InitOwned == Init => Owned
BY DEF Init, Owned, JobsTold, BusTold, TurnsTold, BornThere, Armed

LEMMA NextOwned == Typed /\ Owned /\ [Next]_vars => Owned'
<1> SUFFICES ASSUME Typed, Owned, [Next]_vars PROVE Owned'
  OBVIOUS
<1>s. \A u \in Users, h \in Homes, a \in Agents \cup {Default, None} :
        Said(u, h, a) \in InboundMessage /\ Told(Said(u, h, a)) /\ Placed(Said(u, h, a))
  BY SaidTypes DEF Said, Told, Placed
<1>1. ASSUME NEW u \in Users, NEW h \in Homes, Send(u, h) PROVE Owned'
  <2>1. Publish(Said(u, h, None)) /\ UNCHANGED <<cronVars, turns, deployed, born>>
    BY <1>1 DEF Send, history
  <2> QED
    BY <1>s, <2>1, PublishOwned
<1>2. ASSUME NEW u \in Users, NEW h \in Homes, NEW a \in Agents \cup {Default}, SendOneOff(u, h, a)
      PROVE  Owned'
  <2>1. Publish(Said(u, h, a)) /\ UNCHANGED <<cronVars, turns, deployed, born>>
    BY <1>2 DEF SendOneOff, Command, cronVars
  <2> QED
    BY <1>s, <2>1, PublishOwned
<1>3. ASSUME NEW u \in Users, NEW j \in Jobs, RemoveByCommand(u, j) PROVE Owned'
  BY <1>3, RemoveOwned DEF RemoveByCommand, Command
<1>4. ASSUME UNCHANGED <<cronVars, born, deployed, bus>>, turns' \subseteq turns PROVE Owned'
  BY <1>4, SameOwned
<1>6. ASSUME NEW t \in turns, NEW j \in Jobs, RemoveByTool(t, j) PROVE Owned'
  BY <1>6, RemoveOwned DEF RemoveByTool
<1>7. ASSUME NEW j \in Jobs, Fire(j) PROVE Owned'
  <2>1. j \in Armed /\ Publish(Fired(j)) /\ UNCHANGED <<cronVars, turns, deployed, born>>
    BY <1>7 DEF Fire, history
  <2>2. Fired(j) \in InboundMessage /\ Told(Fired(j))
    BY <2>1, FiredTypes DEF Typed, TypeOK, Owned, JobsTold
  <2>3. Placed(Fired(j))
    BY CronAssumption DEF Placed, Fired
  <2> QED
    BY <2>1, <2>2, <2>3, PublishOwned
<1>8. ASSUME RunWorkflow PROVE Owned'
  <2>1. bus # <<>> /\ bus' = Tail(bus) /\ UNCHANGED <<cronVars, born, deployed, turns>>
    BY <1>8 DEF RunWorkflow, history
  <2>2. BusTold'
    BY <2>1, TailTold DEF Owned, cronVars
  <2> QED
    BY <2>1, <2>2, OwnedStays DEF cronVars, Armed
<1>9. ASSUME NEW m \in disarming, Disarm(m) PROVE Owned'
  <2>1. UNCHANGED <<drawn, born, deployed, bus, turns>>
    BY <1>9 DEF Disarm, history
  <2>2. CASE RemoveJob(m.job, m.user)
    BY <2>1, <2>2, RemoveOwned
  <2>3. CASE UNCHANGED jobs
    BY <1>4, <2>1, <2>3 DEF cronVars
  <2> QED
    BY <1>9, <2>2, <2>3 DEF Disarm
<1>10. ASSUME NEW t \in turns, EndTurn(t) PROVE Owned'
  BY <1>4, <1>10 DEF EndTurn, history
<1>11. ASSUME \/ \E n \in Names, text \in Texts \cup {Nothing} : Edit(n, text)
              \/ Refresh \/ UNCHANGED vars
       PROVE  Owned'
  BY <1>4, <1>11 DEF Edit, Refresh, vars, history
<1>12. ASSUME NEW u \in Users, NEW a, SwitchAgent(u, a) PROVE Owned'
  BY <1>4, <1>12 DEF SwitchAgent, Command, cronVars
<1>13. ASSUME NEW u \in Users, NEW h \in Homes, Reset(u, h) PROVE Owned'
  BY <1>4, <1>13 DEF Reset, Command, cronVars
<1>14. ASSUME NEW u \in Users, NEW h \in Homes,
              Send(u, h) \/ Reset(u, h) \/ \E a \in Agents \cup {Default} : SendOneOff(u, h, a)
       PROVE  Owned'
  BY <1>1, <1>2, <1>13, <1>14
<1>15. ASSUME NEW t \in turns,
              \/ \E kind \in {"reminder", "task"} : Schedule(t, kind, None)
              \/ \E w \in Names : Schedule(t, "task", w)
              \/ \E j \in Jobs : RemoveByTool(t, j)
              \/ EndTurn(t)
       PROVE  Owned'
  BY <1>6, <1>10, <1>15, ScheduleOwned
<1> QED
  BY <1>3, <1>7, <1>8, <1>9, <1>11, <1>12, <1>14, <1>15, StartTurnOwned, RestartOwned DEF Next

\* A job speaks for who scheduled it, in that chat and as that agent, also one
\* that the turn of a job scheduled, after any number of restarts.
THEOREM JobsKeepTheirOwnerAlways == Spec => []JobsKeepTheirOwner
<1>1. Typed /\ Owned => JobsKeepTheirOwner
  <2> SUFFICES ASSUME Typed, Owned, NEW t \in turns, t.msg.job # None
               PROVE  LET b == born[t.msg.job]
                      IN  /\ t.msg.user = b.user /\ t.msg.chat = b.chat
                          /\ b.agent \in deployed =>
                               t.agent = b.agent /\ t.context = <<"agent", b.agent>>
    BY DEF JobsKeepTheirOwner
  <2> DEFINE b == born[t.msg.job]
  <2>1. Told(t.msg) /\ t.context = Effective(t.msg, t.agent)
        /\ (t.msg.agent \in AgentMap => t.agent = t.msg.agent)
    BY DEF Owned, TurnsTold
  <2>2. t.msg.job \in drawn /\ t.msg.agent = AgentIn(b.context)
        /\ t.msg.user = b.user /\ t.msg.chat = b.chat
    BY <2>1 DEF Told
  <2>3. b.agent # Default => b.context = <<"agent", b.agent>>
    BY <2>2 DEF Owned, BornThere
  <2> HIDE DEF b
  <2>4. ASSUME b.agent \in deployed PROVE t.agent = b.agent /\ t.context = <<"agent", b.agent>>
    <3>1. b.agent # Default /\ b.agent \in AgentMap
      BY <2>4, CronAssumption, ConversationsAssumption DEF Typed, TypeOK, AgentMap
    <3>2. AgentIn(b.context) = b.agent
      BY <2>3, <3>1 DEF AgentIn
    <3> QED
      BY <2>1, <2>2, <3>1, <3>2 DEF Effective
  <2> QED
    BY <2>2, <2>4 DEF b
<1> QED
  BY <1>1, InitTyped, NextTyped, InitOwned, NextOwned, PTL DEF Spec

-----------------------------------------------------------------------------
\* Threads.  The context of a thread tells who speaks in it.

Speaker(c) == IF c[1] = "agent" /\ c[2] \in deployed THEN c[2] ELSE Default

Threaded ==
    \A u \in Users, c \in Contexts :
        threads[<<u, c>>] # NoThread => threads[<<u, c>>].agent = Speaker(c)

\* All but a turn that starts leave a thread as it is, or forget it.
LEMMA ThreadMoves ==
    ASSUME Typed, [Next]_vars
    PROVE  \/ StartTurn
           \/ Restart
           \/ /\ UNCHANGED deployed
              /\ \A k \in Keys : threads'[k] \in {threads[k], NoThread}
<1>1. UNCHANGED <<deployed, threads>> =>
        UNCHANGED deployed /\ \A k \in Keys : threads'[k] \in {threads[k], NoThread}
  OBVIOUS
<1>2. ASSUME NEW u \in Users, NEW h \in Homes, Reset(u, h)
      PROVE  UNCHANGED deployed /\ \A k \in Keys : threads'[k] \in {threads[k], NoThread}
  BY <1>2 DEF Reset, Command, DeleteThread, SetThread, Typed, TypeOK
<1>3. ASSUME NEW u \in Users, NEW h \in Homes,
             Send(u, h) \/ \E a \in Agents \cup {Default} : SendOneOff(u, h, a)
      PROVE  UNCHANGED <<deployed, threads>>
  BY <1>3 DEF Send, SendOneOff, Command, sessions
<1>4. ASSUME NEW u \in Users,
             \/ \E a \in Agents \cup {Default} : SwitchAgent(u, a)
             \/ \E j \in Jobs : RemoveByCommand(u, j)
      PROVE  UNCHANGED <<deployed, threads>>
  BY <1>4 DEF SwitchAgent, RemoveByCommand, Command, sessions
<1>5. ASSUME NEW t \in turns,
             \/ \E kind \in {"reminder", "task"} : Schedule(t, kind, None)
             \/ \E w \in Names : Schedule(t, "task", w)
             \/ \E j \in Jobs : RemoveByTool(t, j)
             \/ EndTurn(t)
      PROVE  UNCHANGED <<deployed, threads>>
  BY <1>5 DEF Schedule, RemoveByTool, EndTurn, sessions
<1>6. ASSUME \/ \E j \in Jobs : Fire(j)
             \/ RunWorkflow
             \/ \E m \in disarming : Disarm(m)
      PROVE  UNCHANGED <<deployed, threads>>
  BY <1>6 DEF Fire, RunWorkflow, Disarm, sessions
<1>7. ASSUME \/ \E n \in Names, text \in Texts \cup {Nothing} : Edit(n, text)
             \/ Refresh \/ UNCHANGED vars
      PROVE  UNCHANGED <<deployed, threads>>
  BY <1>7 DEF Edit, Refresh, vars, sessions
<1> QED
  BY <1>1, <1>2, <1>3, <1>4, <1>5, <1>6, <1>7 DEF Next

\* The turn that starts is of the speaker of its thread, and in the thread of a
\* task it is that task's, or of a job that was scheduled there.
LEMMA StartTurnSpeaks ==
    ASSUME Typed, Owned, StartTurn
    PROVE  \E u \in Users, c \in Contexts, trace \in Trace :
              /\ threads' = [threads EXCEPT ![<<u, c>>] = trace]
              /\ UNCHANGED deployed
              /\ trace.agent = Speaker(c)
              /\ c[1] = "task" =>
                    /\ trace.job # None
                    /\ trace.job = c[2] \/ born[trace.job].context = c
<1> DEFINE m == Head(bus)
           a == Resolved(m)
           c == Effective(m, a)
           trace == [agent |-> a, job |-> m.job]
<1>1. /\ bus # <<>> /\ UNCHANGED deployed
      /\ threads' = [threads EXCEPT ![<<m.user, c>>] = trace]
  BY DEF StartTurn, SetThread
<1>2. Told(m) /\ Placed(m) /\ m \in InboundMessage
  <2>1. Head(bus) = bus[1] /\ 1 \in DOMAIN bus
    BY <1>1 DEF Typed
  <2> QED
    BY <2>1 DEF Owned, BusTold, Typed, TypeOK
<1>3. deployed \subseteq Agents /\ active \in [Users -> AgentMap]
  BY ConversationsAssumption DEF Typed, TypeOK
<1>4. a \in AgentMap /\ a \in Agents \cup {Default} /\ c \in Contexts
  BY <1>2, <1>3, ResolvedTypes
<1>5. (m.agent \in AgentMap => a = m.agent) /\ c = IF a = Default THEN m.context ELSE <<"agent", a>>
  BY DEF Resolved, Effective
<1>6. m.user \in Users /\ trace \in Trace
  BY <1>2, <1>4 DEF Trace, InboundMessage
<1> HIDE DEF m, a, c
<1>7. a = Speaker(c)
  <2>1. CASE a # Default
    BY <1>4, <1>5, <2>1 DEF Speaker, AgentMap
  <2>2. CASE a = Default
    <3>1. c = m.context
      BY <1>5, <2>2
    <3>2. SUFFICES ASSUME c[1] = "agent", c[2] \in deployed PROVE FALSE
      BY <2>2 DEF Speaker
    <3>3. m.job # None /\ c \in {born[m.job].context, <<"task", m.job>>}
          /\ m.agent = AgentIn(born[m.job].context)
      BY <1>2, <3>1, <3>2 DEF Told, Placed
    <3>4. m.agent = c[2]
      BY <3>2, <3>3 DEF AgentIn
    <3> QED
      BY <1>3, <1>5, <2>2, <3>2, <3>4, CronAssumption DEF AgentMap
  <2> QED
    BY <2>1, <2>2
<1>8. ASSUME c[1] = "task"
      PROVE  m.job # None /\ (m.job = c[2] \/ born[m.job].context = c)
  <2>1. c = m.context
    BY <1>5, <1>8
  <2>2. m.job # None /\ c \in {born[m.job].context, <<"task", m.job>>}
    BY <1>2, <1>8, <2>1 DEF Told, Placed
  <2> QED
    BY <2>2
<1> QED
  BY <1>1, <1>4, <1>6, <1>7, <1>8

LEMMA InitThreaded == Init => Threaded
BY DEF Init, Threaded, Keys

LEMMA NextThreaded == Typed /\ Owned /\ Threaded /\ [Next]_vars => Threaded'
<1> SUFFICES ASSUME Typed, Owned, Threaded, [Next]_vars PROVE Threaded'
  OBVIOUS
<1>1. CASE StartTurn
  <2>1. PICK u \in Users, c \in Contexts, trace \in Trace :
              /\ threads' = [threads EXCEPT ![<<u, c>>] = trace]
              /\ UNCHANGED deployed
              /\ trace.agent = Speaker(c)
    BY <1>1, StartTurnSpeaks
  <2>2. \A v \in Users, d \in Contexts : <<v, d>> \in DOMAIN threads
    BY DEF Typed, TypeOK, Keys
  <2>3. \A d : Speaker(d)' = Speaker(d)
    BY <2>1 DEF Speaker
  <2>4. ASSUME NEW v \in Users, NEW d \in Contexts, threads'[<<v, d>>] # NoThread
        PROVE  threads'[<<v, d>>].agent = Speaker(d)
    <3>1. CASE v = u /\ d = c
      BY <2>1, <2>2, <3>1
    <3>2. CASE ~(v = u /\ d = c)
      <4>1. threads'[<<v, d>>] = threads[<<v, d>>]
        BY <2>1, <2>2, <3>2
      <4> QED
        BY <2>4, <4>1 DEF Threaded
    <3> QED
      BY <3>1, <3>2
  <2> QED
    BY <2>3, <2>4 DEF Threaded
<1>2. CASE Restart
  <2>1. threads' = [k \in Keys |-> NoThread]
    BY <1>2 DEF Restart
  <2> QED
    BY <2>1 DEF Threaded, Keys
<1>3. CASE UNCHANGED deployed /\ \A k \in Keys : threads'[k] \in {threads[k], NoThread}
  BY <1>3 DEF Threaded, Speaker, Keys
<1> QED
  BY <1>1, <1>2, <1>3, ThreadMoves

\* No thread is shared by two agents, and the thread of a scheduled task is its own.
THEOREM OneConversationAlways == Spec => OneConversation
<1>1. Typed /\ Owned /\ Threaded /\ [Next]_vars =>
        [\A k \in Keys : threads'[k] \notin {threads[k], NoThread} =>
            /\ threads[k] # NoThread => threads'[k].agent = threads[k].agent
            /\ k[2][1] = "task" =>
                  /\ threads'[k].job # None
                  /\ threads'[k].job = k[2][2] \/ born[threads'[k].job].context = k[2]]_vars
  <2> SUFFICES ASSUME Typed, Owned, Threaded, [Next]_vars,
                      NEW k \in Keys, threads'[k] \notin {threads[k], NoThread}
               PROVE  /\ threads[k] # NoThread => threads'[k].agent = threads[k].agent
                      /\ k[2][1] = "task" =>
                            /\ threads'[k].job # None
                            /\ threads'[k].job = k[2][2] \/ born[threads'[k].job].context = k[2]
    OBVIOUS
  <2>1. StartTurn
    <3>1. Restart => threads'[k] = NoThread
      BY DEF Restart
    <3> QED
      BY <3>1, ThreadMoves
  <2>2. PICK u \in Users, c \in Contexts, trace \in Trace :
              /\ threads' = [threads EXCEPT ![<<u, c>>] = trace]
              /\ UNCHANGED deployed
              /\ trace.agent = Speaker(c)
              /\ c[1] = "task" =>
                    /\ trace.job # None
                    /\ trace.job = c[2] \/ born[trace.job].context = c
    BY <2>1, StartTurnSpeaks
  <2>3. k = <<u, c>> /\ threads'[k] = trace
    BY <2>2 DEF Typed, TypeOK
  <2>4. k[2] = c /\ (threads[k] # NoThread => threads[k].agent = Speaker(c))
    BY <2>3 DEF Threaded
  <2> QED
    BY <2>2, <2>3, <2>4
<1> QED
  BY <1>1, InitTyped, NextTyped, InitOwned, NextOwned, InitThreaded, NextThreaded, PTL
     DEF Spec, OneConversation

-----------------------------------------------------------------------------
\* Jobs that go.

LEMMA RemoveTakes ==
    ASSUME NEW i, NEW u, RemoveJob(i, u), NEW j \in Armed \ Armed'
    PROVE  j = i /\ jobs[j].owner = u
BY DEF RemoveJob, Without, Armed

\* What nobody removes stays armed: commands, turns, messages and files do not
\* touch the schedules of others.
LEMMA JobsMove ==
    ASSUME Typed, [Next]_vars, NEW j \in Armed \ Armed'
    PROVE  \/ \E u \in Users, i \in Jobs : RemoveByCommand(u, i)
           \/ \E t \in turns, i \in Jobs : RemoveByTool(t, i)
           \/ \E m \in disarming : Disarm(m)
           \/ Restart
<1>1. ~UNCHANGED jobs
  BY DEF Armed
<1>2. \A u, h, a : ~(Send(u, h) \/ Reset(u, h) \/ SendOneOff(u, h, a))
  BY <1>1 DEF Send, Reset, SendOneOff, cronVars
<1>3. \A u, a : ~SwitchAgent(u, a)
  BY <1>1 DEF SwitchAgent
<1>4. ~StartTurn /\ ~RunWorkflow /\ ~Refresh
  BY <1>1 DEF StartTurn, RunWorkflow, Refresh, cronVars
<1>5. \A t, kind, w : ~Schedule(t, kind, w)
  <2> SUFFICES ASSUME NEW t, NEW kind, NEW w, Schedule(t, kind, w) PROVE FALSE
    OBVIOUS
  <2> QED
    BY DEF Schedule, AddJob, Armed
<1>6. \A t : ~EndTurn(t)
  BY <1>1 DEF EndTurn, cronVars
<1>7. \A i : ~Fire(i)
  BY <1>1 DEF Fire, cronVars
<1>8. \A n, text : ~Edit(n, text)
  BY <1>1 DEF Edit, cronVars
<1>9. ~UNCHANGED vars
  BY <1>1 DEF vars, cronVars
<1> QED
  BY <1>2, <1>3, <1>4, <1>5, <1>6, <1>7, <1>8, <1>9 DEF Next

\* A job goes only by its owner's wish, because a fire of it did not find its
\* workflow, or with a scheduler that keeps jobs in memory.
THEOREM JobsStayAlways == Spec => JobsStay
<1>1. Typed /\ [Next]_vars =>
        [\A j \in Armed \ Armed' :
            \/ j \in asked'
            \/ \E m \in disarming : m.job = j
            \/ faults' # faults /\ ~Persistent]_vars
  <2> SUFFICES ASSUME Typed, [Next]_vars, NEW j \in Armed \ Armed'
               PROVE  \/ j \in asked'
                      \/ \E m \in disarming : m.job = j
                      \/ faults' # faults /\ ~Persistent
    OBVIOUS
  <2>1. ASSUME NEW u \in Users, NEW i \in Jobs, RemoveByCommand(u, i) PROVE j \in asked'
    BY <2>1, RemoveTakes DEF RemoveByCommand, Asks
  <2>2. ASSUME NEW t \in turns, NEW i \in Jobs, RemoveByTool(t, i) PROVE j \in asked'
    BY <2>2, RemoveTakes DEF RemoveByTool, Asks
  <2>3. ASSUME NEW m \in disarming, Disarm(m) PROVE m.job = j
    BY <2>3, RemoveTakes DEF Disarm, Armed
  <2>4. ASSUME Restart PROVE faults' # faults /\ ~Persistent
    BY <2>4 DEF Restart, Typed, Armed
  <2> QED
    BY <2>1, <2>2, <2>3, <2>4, JobsMove
<1> QED
  BY <1>1, InitTyped, NextTyped, PTL DEF Spec, JobsStay
=============================================================================
