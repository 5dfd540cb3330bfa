------------------------------ MODULE CronJobs ------------------------------
(***************************************************************************)
(* Scheduled jobs: the data store of the scheduler, which a restart keeps  *)
(* unless it is in memory.  A job is a prompt for an agent or, with a      *)
(* workflow, the name of a workflow to run; it remembers whose it is and   *)
(* where it was scheduled.                                                 *)
(***************************************************************************)
EXTENDS SavedWorkflows

CONSTANTS
    Users,        \* pairs of a channel and a user of it
    Homes,        \* context ids that channels give: the chats themselves
    Agents,       \* named agents
    Default,      \* the main agent
    Jobs,         \* ids that add_job draws
    None,         \* no agent, job or workflow
    Persistent    \* cron.data_store.backend is not "memory"

ASSUME CronAssumption ==
    /\ Default \notin Agents
    /\ Persistent \in BOOLEAN
    /\ None \notin Agents \cup {Default} \cup Jobs \cup Names

VARIABLES
    jobs,         \* the schedules: a CronJob for each armed id
    drawn         \* ids that are taken

cronVars == <<jobs, drawn>>

\* Context ids: of a chat, "agent:<name>", "cron:task:<uuid>".
Contexts == ({"home"} \X Homes) \cup ({"agent"} \X Agents) \cup ({"task"} \X Jobs)

CronJob == [owner : Users, context : Contexts, chat : Homes,
            agent : Agents \cup {None}, workflow : Names \cup {None}]

\* What a channel, a command, the heartbeat or a job publishes.
InboundMessage == [user : Users, context : Contexts, chat : Homes,
                   agent : Agents \cup {Default, None},
                   workflow : Names \cup {None}, job : Jobs \cup {None}]

Armed == DOMAIN jobs
Without(j) == [i \in Armed \ {j} |-> jobs[i]]

\* The agent a context id names.
AgentIn(context) == IF context[1] = "agent" THEN context[2] ELSE None

\* uuid4: an id that nobody has.
Fresh == CHOOSE j \in Jobs \ drawn : TRUE

\* cron(action="add") of a user in a context: a reminder shares it, a task gets
\* one of its own.
AddJob(user, chat, context, kind, workflow) ==
    /\ drawn # Jobs
    /\ drawn' = drawn \cup {Fresh}
    /\ jobs' = [j \in Armed \cup {Fresh} |->
                   IF j # Fresh THEN jobs[j]
                   ELSE [owner |-> user, chat |-> chat, workflow |-> workflow,
                         context |-> IF kind = "reminder" THEN context ELSE <<"task", j>>,
                         agent |-> AgentIn(context)]]

\* MUTANT of RemoveJob: whoever knows the id can remove the job.
RemoveAnyJob(j, user) == jobs' = IF j \in Armed THEN Without(j) ELSE jobs

\* remove_job: only for the owner.
RemoveJob(j, user) ==
    jobs' = IF j \in Armed /\ jobs[j].owner = user THEN Without(j) ELSE jobs

\* MUTANT of Fired: no agent_name in the metadata.
FiredUnstamped(j) ==
    [user |-> jobs[j].owner, context |-> jobs[j].context, chat |-> jobs[j].chat,
     agent |-> None, workflow |-> jobs[j].workflow, job |-> j]

\* _fire_job
Fired(j) ==
    [user |-> jobs[j].owner, context |-> jobs[j].context, chat |-> jobs[j].chat,
     agent |-> jobs[j].agent, workflow |-> jobs[j].workflow, job |-> j]
=============================================================================
