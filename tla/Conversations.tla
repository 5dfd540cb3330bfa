--------------------------- MODULE Conversations ---------------------------
(***************************************************************************)
(* Which agent answers a message, in which thread, and what jobs make of   *)
(* that.  Commands do not take the bus and come between any two steps;     *)
(* agent and thread of a turn are settled when its task starts, and the    *)
(* jobs it schedules inherit them.  Threads, and which agent a user has    *)
(* chosen, are gone with the process; jobs are not.                        *)
(***************************************************************************)
EXTENDS CronJobs, Sequences

CONSTANTS
    Deploys,      \* named agents that an application may declare
    MaxOpen,      \* bound: messages to agents, and turns, at a time
    MaxMessages,  \* bound: messages of users
    MaxCommands,  \* bound: commands
    MaxFaults     \* bound: restarts, and reconciles and removals that fail

ASSUME ConversationsAssumption ==
    /\ Deploys \subseteq SUBSET Agents
    /\ {MaxOpen, MaxMessages, MaxCommands, MaxFaults} \subseteq Nat

VARIABLES
    bus,          \* AsyncioMessageBus
    turns,        \* turns of agents that are under way
    disarming,    \* messages of jobs that await remove_job
    deployed,     \* the named agents in _agent_map
    active,       \* SessionManager._active_agent_store
    threads,      \* SessionManager._store: the last turn of the thread of a key
    edits, sent, commands, faults,
    \* history
    born,         \* the turn that scheduled a job
    asked         \* jobs whose owner had them removed

disk == <<js, registry, version, edits>>
sessions == <<active, threads>>
bounds == <<sent, commands, faults>>
history == <<born, asked>>
vars == <<disk, cronVars, bus, turns, disarming, deployed, sessions, bounds, history>>

Keys == Users \X Contexts
NoThread == [agent |-> None, job |-> None]

\* A turn, as its thread remembers it.
Trace == [agent : Agents \cup {Default}, job : Jobs \cup {None}]
Turn == [msg : InboundMessage, agent : Agents \cup {Default}, context : Contexts]
Birth == [user : Users, chat : Homes, agent : Agents \cup {Default}, context : Contexts]
Unborn == [user |-> None, chat |-> None, agent |-> None, context |-> None]

Init ==
    /\ js \in [Names -> Texts]
    /\ registry = Desired(js)
    /\ version = 0
    /\ edits = 0
    /\ jobs = [j \in {} |-> None]
    /\ drawn = {}
    /\ bus = <<>>
    /\ turns = {}
    /\ disarming = {}
    /\ deployed \in Deploys
    /\ active = [u \in Users |-> Default]
    /\ threads = [k \in Keys |-> NoThread]
    /\ sent = 0 /\ commands = 0 /\ faults = 0
    /\ born = [j \in Jobs |-> Unborn]
    /\ asked = {}

-----------------------------------------------------------------------------
AgentMap == deployed \cup {Default}

Publish(m) == bus' = Append(bus, m)

\* The bound on what agents are asked.
Open == Cardinality(turns) + Cardinality({i \in DOMAIN bus : bus[i].workflow = None})

Said(u, h, a) == [user |-> u, context |-> <<"home", h>>, chat |-> h, agent |-> a,
                  workflow |-> None, job |-> None]

\* A message of a user, or a heartbeat condition that holds.
Send(u, h) ==
    /\ sent < MaxMessages /\ Open < MaxOpen
    /\ sent' = sent + 1
    /\ Publish(Said(u, h, None))
    /\ UNCHANGED <<disk, cronVars, turns, disarming, deployed, sessions, commands, faults,
                   history>>

-----------------------------------------------------------------------------
\* Commands.  Those that change nothing are left out.

Command ==
    /\ commands < MaxCommands
    /\ commands' = commands + 1
    /\ UNCHANGED <<disk, drawn, turns, disarming, deployed, sent, faults, born>>

\* SessionManager.  An entry for the default agent is the same as none.
SetActive(u, a) == active' = [active EXCEPT ![u] = a]
SetThread(k, trace) == threads' = [threads EXCEPT ![k] = trace]

\* MUTANT of SwitchAgent: any name will do.
SwitchToAny(u, a) ==
    /\ Command
    /\ SetActive(u, a)
    /\ UNCHANGED <<jobs, bus, threads, asked>>

\* /agent <name>
SwitchAgent(u, a) ==
    /\ Command
    /\ a \in AgentMap \ {active[u]}
    /\ SetActive(u, a)
    /\ UNCHANGED <<jobs, bus, threads, asked>>

\* /agent <name> <message>
SendOneOff(u, h, a) ==
    /\ Command /\ Open < MaxOpen
    /\ a \in AgentMap
    /\ Publish(Said(u, h, a))
    /\ UNCHANGED <<jobs, sessions, asked>>

DeleteThread(k) == threads[k] # NoThread /\ SetThread(k, NoThread)

\* /reset: the thread of the chat is forgotten, and no other.
Reset(u, h) ==
    /\ Command
    /\ DeleteThread(<<u, <<"home", h>>>>)
    /\ UNCHANGED <<jobs, bus, active, asked>>

Asks(j, u) == asked' = IF j \in Armed /\ jobs[j].owner = u THEN asked \cup {j} ELSE asked

\* /cron remove <id>
RemoveByCommand(u, j) ==
    /\ Command
    /\ j \in Armed
    /\ RemoveJob(j, u)
    /\ Asks(j, u)
    /\ UNCHANGED <<bus, sessions>>

-----------------------------------------------------------------------------
\* Turns of agents.

\* _resolve_agent_name
Resolved(m) ==
    IF m.agent \in AgentMap THEN m.agent
    ELSE IF active[m.user] \in AgentMap THEN active[m.user]
    ELSE Default

\* MUTANT of Effective: the agents of a user share the thread of the chat.
EffectiveShared(m, a) == m.context

\* The context of the thread: a named agent has one of its own.
Effective(m, a) == IF a = Default THEN m.context ELSE <<"agent", a>>

\* _handle, up to get_config: no other step comes between.
StartTurn ==
    /\ bus # <<>>
    /\ Head(bus).workflow = None
    /\ bus' = Tail(bus)
    /\ LET m == Head(bus)
           a == Resolved(m)
           c == Effective(m, a)
       IN  /\ turns' = turns \cup {[msg |-> m, agent |-> a, context |-> c]}
           /\ SetThread(<<m.user, c>>, [agent |-> a, job |-> m.job])
    /\ UNCHANGED <<disk, cronVars, disarming, deployed, active, bounds, history>>

\* The cron tool, add.  The default agent's knows the registry.  The context of
\* a workflow's job is only where its answer goes: it is taken to be a task's.
Schedule(t, kind, w) ==
    /\ t \in turns
    /\ w # None /\ t.agent = Default => registry[w] # Nothing
    /\ AddJob(t.msg.user, t.msg.chat, t.context, kind, w)
    /\ born' = [born EXCEPT ![Fresh] = [user |-> t.msg.user, chat |-> t.msg.chat,
                                        agent |-> t.agent, context |-> t.context]]
    /\ UNCHANGED <<disk, bus, turns, disarming, deployed, sessions, bounds, asked>>

\* The cron tool, remove.
RemoveByTool(t, j) ==
    /\ t \in turns
    /\ RemoveJob(j, t.msg.user)
    /\ Asks(j, t.msg.user)
    /\ UNCHANGED <<disk, drawn, bus, turns, disarming, deployed, sessions, bounds, born>>

EndTurn(t) ==
    /\ t \in turns
    /\ turns' = turns \ {t}
    /\ UNCHANGED <<disk, cronVars, bus, disarming, deployed, sessions, bounds, history>>

-----------------------------------------------------------------------------
\* Jobs.

\* The scheduler fires a job, at most once while its last message is on the bus.
Fire(j) ==
    /\ j \in Armed
    /\ \A i \in DOMAIN bus : bus[i].job # j
    /\ jobs[j].workflow = None => Open < MaxOpen
    /\ Publish(Fired(j))
    /\ UNCHANGED <<disk, cronVars, turns, disarming, deployed, sessions, bounds, history>>

\* _handle_workflow: reconcile, or log why not; a job without its workflow is to
\* be removed.
RunWorkflow ==
    /\ bus # <<>>
    /\ Head(bus).workflow # None
    /\ bus' = Tail(bus)
    /\ \/ Reconcile /\ UNCHANGED faults
       \/ faults < MaxFaults /\ faults' = faults + 1 /\ UNCHANGED <<registry, version>>
    /\ disarming' = IF registry'[Head(bus).workflow] = Nothing
                    THEN disarming \cup {Head(bus)} ELSE disarming
    /\ UNCHANGED <<js, edits, cronVars, turns, deployed, sessions, sent, commands, history>>

\* MUTANT of Disarm: the chat is told, and no more.
DisarmInWords(m) ==
    /\ m \in disarming
    /\ disarming' = disarming \ {m}
    /\ UNCHANGED <<disk, cronVars, bus, turns, deployed, sessions, bounds, history>>

\* Its answer to the chat follows.
Disarm(m) ==
    /\ m \in disarming
    /\ disarming' = disarming \ {m}
    /\ \/ RemoveJob(m.job, m.user) /\ UNCHANGED faults
       \/ faults < MaxFaults /\ faults' = faults + 1 /\ UNCHANGED jobs
    /\ UNCHANGED <<disk, drawn, bus, turns, deployed, sessions, sent, commands,
                   history>>

-----------------------------------------------------------------------------
\* Files and processes.

Edit(n, text) ==
    /\ edits < MaxEdits
    /\ js[n] # text
    /\ edits' = edits + 1
    /\ js' = [js EXCEPT ![n] = text]
    /\ UNCHANGED <<registry, version, cronVars, bus, turns, disarming, deployed, sessions, bounds,
                   history>>

\* The check for a fresh default agent reconciles.
Refresh ==
    /\ Reconcile
    /\ UNCHANGED <<js, edits, cronVars, bus, turns, disarming, deployed, sessions, bounds, history>>

\* The bus is in the process, as is all that SessionManager holds.
Restart ==
    /\ faults < MaxFaults
    /\ faults' = faults + 1
    /\ bus' = <<>>
    /\ turns' = {}
    /\ disarming' = {}
    /\ deployed' \in Deploys
    /\ active' = [u \in Users |-> Default]
    /\ threads' = [k \in Keys |-> NoThread]
    /\ jobs' = IF Persistent THEN jobs ELSE [j \in {} |-> None]
    /\ registry' = Desired(js)
    /\ version' = 0
    /\ UNCHANGED <<js, edits, drawn, sent, commands, history>>

Next ==
    \/ \E u \in Users, h \in Homes :
        Send(u, h) \/ Reset(u, h) \/ \E a \in Agents \cup {Default} : SendOneOff(u, h, a)
    \/ \E u \in Users, a \in Agents \cup {Default} : SwitchAgent(u, a)
    \/ \E u \in Users, j \in Jobs : RemoveByCommand(u, j)
    \/ StartTurn
    \/ \E t \in turns :
        \/ \E kind \in {"reminder", "task"} : Schedule(t, kind, None)
        \/ \E w \in Names : Schedule(t, "task", w)
        \/ \E j \in Jobs : RemoveByTool(t, j)
        \/ EndTurn(t)
    \/ \E j \in Jobs : Fire(j)
    \/ RunWorkflow
    \/ \E m \in disarming : Disarm(m)
    \/ \E n \in Names, text \in Texts \cup {Nothing} : Edit(n, text)
    \/ Refresh
    \/ Restart

Spec == Init /\ [][Next]_vars

\* The scheduler fires what is armed, and the event loop runs what is ready.
FairSpec ==
    /\ Spec
    /\ \A j \in Jobs : WF_vars(Fire(j))
    /\ WF_vars(StartTurn)
    /\ WF_vars(RunWorkflow)
    /\ WF_vars(\E m \in disarming : Disarm(m))

-----------------------------------------------------------------------------
\* Properties.

TypeOK ==
    /\ js \in Files
    /\ registry \in Specs
    /\ version \in Nat
    /\ edits \in 0..MaxEdits
    /\ Armed \subseteq Jobs
    /\ \A j \in Armed : jobs[j] \in CronJob
    /\ drawn \subseteq Jobs
    /\ \A i \in DOMAIN bus : bus[i] \in InboundMessage
    /\ turns \subseteq Turn
    /\ disarming \subseteq InboundMessage
    /\ deployed \in Deploys
    /\ active \in [Users -> AgentMap]
    /\ threads \in [Keys -> Trace \cup {NoThread}]
    /\ \A j \in Jobs : born[j] \in Birth \cup {Unborn}
    /\ asked \subseteq Jobs

\* No thread is shared by two agents, and into the thread of a scheduled task
\* gets nothing but that task and what its own turns scheduled, whatever is
\* switched, reset, sent one-off, fired or deployed.
OneConversation ==
    [][\A k \in Keys : threads'[k] \notin {threads[k], NoThread} =>
        /\ threads[k] # NoThread => threads'[k].agent = threads[k].agent
        /\ k[2][1] = "task" =>
              /\ threads'[k].job # None
              /\ threads'[k].job = k[2][2] \/ born[threads'[k].job].context = k[2]]_vars

\* A job speaks for the user who scheduled it, in that chat, also a job that was
\* scheduled by the turn of a job; and when a named agent scheduled it and is
\* still deployed, with that agent in its thread.
JobsKeepTheirOwner ==
    \A t \in {u \in turns : u.msg.job # None} :
        LET b == born[t.msg.job]
        IN  /\ t.msg.user = b.user /\ t.msg.chat = b.chat
            /\ b.agent \in deployed => (t.agent = b.agent /\ t.context = <<"agent", b.agent>>)

\* A job goes only by its owner's wish or because a fire of it, in this process,
\* did not find its workflow; or with a scheduler that keeps jobs in memory.
JobsStay ==
    [][\A j \in Armed \ Armed' :
        \/ j \in asked'
        \/ \E m \in disarming : m.job = j
        \/ faults' # faults /\ ~Persistent]_vars

\* A job whose workflow is gone for good does not fire for ever.
DanglingDisarmed ==
    \A j \in Jobs :
        []<>~(j \in Armed /\ jobs[j].workflow # None /\ Desired(js)[jobs[j].workflow] = Nothing)
=============================================================================
