# langclaw in TLA+

A verification project for [langclaw](../src/langclaw), a framework that runs
LangGraph agents behind chat channels and adds durable, code-defined workflows.
The modules model the code under `src/langclaw`; every definition that stands
for code is listed with its lines in `PROJECT.json` under `map`, every hazard
with its line under `hazards`.

Contents: 1 the system, 2 the modules, 3 how state and actions correspond to the
code, 4 the runs, their bounds and what they show, 5 fairness, 6 what is proved
and how, 7 disagreements between the code and its own words, 8 what is not
modelled, 9 plan.

## 1. The system

A user's message goes channel -> bus -> bus worker -> a task that runs
`GatewayManager._handle` -> the agent's stream -> chunks and updates -> the
channel.  A workflow message (of a cron job, or `/workflows run`) leaves the same
task for `_handle_workflow`, which runs a body through the workflow runtime; the
steps of a body go through the step store.  An agent's workflow tools start runs
through the same runtime.  Commands (`/agent`, `/reset`, `/cron`, `/workflows`,
`/agentsmd`) are handled by the channel's own handler and never see the bus.
Around all of this is `Langclaw._run_async`, which opens the bus, the checkpointer
and the stores on a stack, builds the agents and hands over to
`GatewayManager.run`, which has a task for each channel, one for the bus worker,
and the scheduler.

A process is one event loop: code between two awaits is atomic, and everything
that keeps state is exposed at its awaits.  What survives the process is the
journal, the step and script stores, the checkpointer, the cron data store and
the files of the workspaces.

| Component | State it keeps | Operations | Hard part | What makes it correct |
| --- | --- | --- | --- | --- |
| Workflow runtime (`workflows/runtime.py`) with run journal, step store, script store (`run_store.py`, `resume.py`, `step_store.py`, `authored.py`) | permits of the run gate; a status per run, a value per step, a script per run | `start_run`, `run_registered`, `resume_incomplete` | crash, timeout, cancel and store errors at every await; redelivery; redeployment between crash and resume | what is delivered for a run is its durable record; the gate is exact; a record that says running has an owner; nothing that is over is resumed |
| Workflow dispatch (`gateway/manager.py` 958-1088) | runs in progress | refuse, drop a duplicate, run, report, cancel | the same message twice; cancel at any await | one task per run at a time |
| Workflow context (`workflows/context.py`) | step counter, budget and semaphore shared by branches | `agent`, `tool`, `subagent`, `parallel`, `pipeline` | branches interleave, nest, fail, outlive their batch | slots and budget are exact; step ids and so replays do not depend on the interleaving; batches end |
| Turn of a conversation (`gateway/manager.py` 658-851, 1090-1274; `gateway/base.py`) | a task per message; chunk buffer, stream state, typing tasks, keyed by conversation | bus worker, `_handle`, chunks, updates, apology | turns of one conversation overlap and share what is keyed by it | no text lost or shown twice, or shown as another's; typing stops |
| Channels' inbound handlers (`gateway/{telegram,discord,slack,matrix}.py`, `gateway/utils.py`) | what was taken, reactions, caches of names and of rooms | receive, refuse, dispatch a command, download, publish | one post is several events; handlers overlap; calls of the platform fail one by one; a restart replays | what people say to the bot is taken once, whole, and nothing else is |
| Channels' streaming and sending (the same files) | edited messages, tool calls that wait for their results | `send_ai_message`, `send_ai_chunk`, `send_tool_progress` | platform calls fail; state is keyed by chat | as the turn |
| WebSocket channel (`gateway/websocket.py`) | the set of live connections and what they told of themselves | `_handler`, `_broadcast`, `stop` | the set changes under the broadcasts that go through it | a client that is there sees the whole answer or an apology |
| Agent freshness (`gateway/manager.py` 188-411) | hash of AGENTS.md per agent, hash of the workflows folder, registry version | `_ensure_agent_fresh`, `/agentsmd reload` | files change between the reads of a check; builds fail | baselines that match the disk mean an agent built from it |
| Registry and saved workflows (`workflows/registry.py`, `saved_store.py`, `app.py` 784-852) | specs, version, `workflows/*.js` | register, unregister, reconcile | files written, rewritten and removed in any order | code wins over files; a reconcile is idempotent |
| Sessions and commands (`session/manager.py`, `gateway/commands.py`) | thread per (channel, user, context), active agent per user | `get_config`, `/agent`, `/reset` | commands run beside turns | a reset forgets the conversation it is asked for |
| Cron (`cron/`, `agents/tools/cron.py`) | schedules in a data store, the id of the manager of this process | add, fire, remove, list, self-disarm | jobs outlive the process and the workflow they name; ids of gone managers | a job fires in its owner's context; only its owner removes it |
| Bus (`bus/`) | a queue, or what the broker has not been told of | publish, subscribe, start, stop | what is taken is handled by a task of its own; acknowledgement and offsets; death | no message is lost but in the ways the transport admits |
| Guardrails, rate limit (`middleware/`) | token buckets | `before_agent` | elapsed time, caps | a burst stays within the burst |
| Role-based access (`rbac.py`, `middleware/permissions.py`) | roles and their capabilities | resolve, validate, filter, gate | several entry points to one rule | the list a model sees is the list it may use |
| Heartbeat (`heartbeat/watcher.py`) | conditions | add, remove, tick | conditions change during a tick | one message per condition that holds |
| Application (`app.py`), builder (`agents/builder.py`, `agents/subagents.py`) and scripts (`interpreter/`, `workflows/js_runner.py`, `workflows/bridge.py`) | registered tools, commands, workflows, subagents, agents, roles; the built agents; what workflows are wired to | register in any order, start, build, rebuild | a build that raises half-way, names that collide, parts of a role | the ways to one thing agree; delegation grants nothing |
| Start-up and shutdown (`app.py` 1067-1200, `gateway/manager.py` 580-660) | the stack, the group of tasks | hooks, enter, start, serve, fail, interrupt, unwind | it may stop at any await, for several reasons at once | nothing outlives what it uses; the end comes |
| Configuration, checkpointer, I/O tools, CLI | - | settings, storage, clients | third-party code | - |

## 2. The modules

| Module | What it is |
| --- | --- |
| `RunLedger` | The abstract specification: what a durable run promises, without tasks, crashes, gates, timeouts or buses. |
| `WorkflowRun` | A run from its bus message to its output: dispatch, journal, gate, steps, script, timeout, cancel, store errors, crash, restart and resume. It implements `RunLedger` (`ImplementsLedger`). |
| `WorkflowRunProofs` | Its theorems, the implementation included. |
| `MCWorkflowRun` | A python run beside an authored or a saved one (three cfgs and a liveness cfg). |
| `FanOut` | The body of one run in detail: contexts, batches, branches, the shared semaphore and step counter, attempts that share a step store. |
| `FanOutProofs` | Its theorems, for every tree of batches. |
| `MCFanOut` | Two bodies: a collecting batch with a fail-fast one inside, and the shape of an example of the repository. |
| `Transcript` | The abstract specification: what a chat shows its users, without a bus, streaming, buffers or calls to a platform. |
| `TurnDelivery` | From a message on the bus to the reply in the chat. It implements `Transcript` (`KeepsPromise`). |
| `MCTurnDelivery` | Two turns and a direct message in one chat; without the latter for the refinement. |
| `TurnDeliveryProofs` | Its theorems: types, the typing indicator, what becomes of the pieces of answers and the implementation of `Transcript`, for any turns, chats, pieces and failures. |
| `SavedWorkflows` | The folder of workflow scripts, the registry and the reconcile. Extended by |
| `AgentFreshness` | the check before every turn, with the disk as an actor of its own. |
| `AgentFreshnessProofs` | Its theorems, for any number of agents, files, texts, edits and failures. |
| `MCAgentFreshness` | The default agent, a named one, three names of workflows. |
| `CronJobs` | The store of scheduled jobs; extends `SavedWorkflows`, whose registry jobs name workflows of. Extended by |
| `Conversations` | which agent answers a message and in which thread, the commands that change it, and what scheduled jobs make of it. |
| `ConversationsProofs` | Its theorems, for any users, agents, jobs, commands and restarts. |
| `MCConversations` | Two users of one chat, the main agent and a named one, two jobs, one saved workflow. |
| `MessageBus` | The three transports from publish to the task of a message, and what a stop or a death leaves of it. |
| `LiveClients` | The WebSocket channel's connections and the broadcasts through them, write by write. |
| `Heartbeat` | The loop that goes through a list of conditions while the list changes. |
| `GatewayHost` | The process: start-up, group, failure, interrupt, shutdown, death. Extends the three above, which live in it and die with it. |
| `GatewayHostProofs` | Its theorems, on all transports and for any number of messages, clients, starts and failures. |
| `MCGatewayHost` | Five deployments: the transports, with clients, with a heartbeat. |
| `Intake` | What the channels' inbound sides share: posts, what a platform delivers, handlers with their stages, files one by one. Extended by |
| `TelegramIntake`, `DiscordIntake`, `SlackIntake`, `MatrixIntake` | a module per platform: what its handlers take, drop, refuse; Slack's reactions, Matrix's rooms and clocks. |
| `ChannelIntake` | One deployment of either platform, and the properties of all four. |
| `ChannelIntakeProofs` | Its theorems, for all platforms and any posts, files, updates, redeliveries, starts and failures. |
| `MCChannelIntake` | Six deployments, one or two posts out of two to ten each (two cfgs). |
| `Capabilities` | Roles, grants and filters, identifiers of scripts: pure definitions. Extended by |
| `Registration` | what a developer registers, in any order, and |
| `AgentToolset` | what the builder makes of it: tools, scripts, subagents, what workflows are wired to. |
| `Access` | Both over the life of a host, with workflows that come and go and builds that raise: who may use what, by which way. |
| `AccessProofs` | Its theorems, for all names, roles, grants and users. |
| `MCAccess` | Two names that are one identifier, two roles, three users (two cfgs). |

`WorkflowRun` and `FanOut` look at the same code from two distances.
`WorkflowRun` has one step after the other and everything around a body; `FanOut`
has the tree of branches and of the surroundings only what a body can notice: an
attempt starts, is cancelled as a whole, or dies with the process.

Definitions whose comment begins with MUTANT are variants of the definition named
there with a plausible bug; no specification uses them.  They are what the
properties are tested with: for each property a variant is listed in
`PROJECT.json`, and TLC finds the property violated when it takes the place of the
original.

## 3. State and actions against the code

### WorkflowRun

| In the model | In the code |
| --- | --- |
| `journal`, `stored`, `script` | `RunJournal`, `StepMemoizer` and its store, the frozen bodies of `AuthoredScriptResolver` |
| `live` | `GatewayManager._workflow_runs` |
| `permits` | `WorkflowRuntime._run_gate` |
| `phase[r]` | which await of `_handle_workflow`, `run_registered` or `start_run` the task of run `r` is at |
| `pos`, `seen`, `body`, `error` | the locals of that task |
| `deployed[r]` | what the deployed application makes of `r`: registered or not, permitted or not, input accepted or not, factory wired or not; chosen anew at each restart |
| `stranded` | history: runs abandoned without a terminal mark by a cancel, a failing journal, or a resume that skipped them |
| `DispatchRefused`, `DispatchDuplicate`, `Dispatch` | the three outcomes of `_handle_workflow` up to the first await |
| `MarkRunning` .. `MarkFailed` | `start_run` and the three bodies, one action per stretch between awaits |
| `SendOutput`, `SendRaises`, `Report`, `Cancel` | the rest of `_handle_workflow`, and `/workflows cancel` |
| `Crash`, `Restart`, `Resume*`, `StartServing` | the process, and `Langclaw._run_async` with `resume_incomplete` before the gateway exists |

`workflows.durable_steps` and `resume_on_startup` are on; with them off there is
nothing durable to speak of.  A write to a store happens at the end of its await,
so whatever strikes while it is in flight is that action taken before or after it.

### FanOut

A context is the run's own or that of a branch; `Body[c]` says what its code
awaits in order, `"step"` or `"batch"`, and the children of `c` are the branches of
its batch.  `task[a][c]` is where context `c` of attempt `a` is; `"gathering"` is
the await of `asyncio.gather`.  A value in the store is the number of the attempt
that produced it, which is all a replay has to tell apart.  `CancelRoot` follows a
cancellation down the batches that are awaited, and not below a batch that has
already raised: `asyncio.gather` leaves its other branches alone when one raises,
which is why an attempt can start beside branches of an earlier one (`haunted`).

### TurnDelivery

`turn[m]` is the await that the task of message `m` is at.  `buffer` is
`BaseChannel._chunk_buffer`, `stream` the `_stream_state` of a channel with
`streaming_enabled`, `typing` the typing tasks; all are keyed by conversation as in
the code.  A piece of text is a pair of its turn and its number, so that shown
messages tell whose text they hold.  `NewChunk` is the chunk branch of `_handle`'s
loop, `ModelUpdate` and `WholeUpdate` the update branch, `End*` the code behind
the loop, `Flushed` the last edit.  Channels differ in whether a failed send
raises; `SendFails` allows both.

`tool[m]` is the one tool call that the agent of `m` makes, `stash` is
`_tool_call_buffer`, and piece 0 of a turn is the line that its result shows
(`ToolCall`, `ToolResult`, `ToolSent`).  Between the call and its result a
channel-routed subagent may send its own message (`SubagentReports`), which is one
of `Direct`.  `cron` are the chats whose context is a job's: no typing, no tool
lines, and `send_ai_chunk` collects whatever the configuration says (`Quiet`,
`Live`).  A model of `streams` reports text in chunks and then whole, another one
only whole; `untold` is what such a model writes beside a tool call, which
`_handle` passes over.

`Transcript` says what all this is for.  Its state is the turns under way, those
that shared the chat, those whose agent raised, what has been said and is to be
shown, the messages of each chat, and how many calls the platform refused.
`TurnDelivery` implements it with `open` the turns that have a task (`UnderWay`) and
`told` the text of the model and the lines of tools, less what is `untold` (`Told`);
the other variables are history variables and the chat itself, and what is on the
bus, in a buffer, a stream or a call has no counterpart.  A step of the promise may
add one message or revise one (`Write`).  New in it can only be what has been said,
belongs in this chat and is not shown in it (`Fits`); what was shown stays, unless
its turn shared the chat; the text of a turn that did not share it comes in the
order in which it was said, in a message and down the chat.  A turn can be over
(`Closes`) only when all that it said is shown, unless it shared the chat, its agent
raised or the platform refused something.  Lines of tools are messages of their own
and may come between.

### SavedWorkflows and AgentFreshness

`_ensure_agent_fresh` has no suspension point (it takes an uncontended lock, and
builds synchronously), so one check runs at a time; but tools run in threads and
users have editors, so files change between its reads.  `check.at` says which read
is next: `Begin` hashes AGENTS.md, `ReadFolder` hashes the workflows folder,
`Reload` reconciles, and `FirstSight`, `UseCurrent`, `Rebuild` and `RebuildFails`
are the four ways to return, the build reading AGENTS.md once more.  What a file
says is one of a few texts, which stands for its hash as well (different contents
have different hashes), and any text may come back: a file may be changed and
changed back between any two reads.  An empty AGENTS.md hashes as a missing one
does, and an empty script counts as absent, so neither is a value of its own.

That a text may come back is what the comparison of hashes cannot see.  An agent is
in `torn` when its build read another AGENTS.md than its check had hashed; as long as
the file keeps saying that, the next check finds another hash and builds again, but
once it is taken back to what was hashed (`CameBack`) the check finds nothing new
and the agent keeps the text in between, until the file says something else or the
hash is forgotten.  `stale` holds these agents, with those of a first sight or a
failed build.  `folderTorn` and `missed` say the same of the folder, where the
reconcile of a check, or of a workflow's message, reads what may not be what was hashed.

### CronJobs and Conversations

| In the model | In the code |
| --- | --- |
| `jobs`, `drawn` | the schedules of the data store (`_schedule_to_cronjob`), the ids drawn so far |
| a context `<<"home", h>>`, `<<"agent", a>>`, `<<"task", j>>` | the context id of a chat, `agent:<name>`, `cron:task:<uuid>` |
| `active`, `threads` | `SessionManager._active_agent_store`, `_store`; of a thread the last turn is kept |
| `bus`, `turns`, `disarming` | the queue, the tasks of `_handle` past `get_config`, the tasks of `_handle_workflow` that await `remove_job` |
| `StartTurn`, with `Resolved` and `Effective` | `_handle` up to `get_config`: nothing in it waits for anything but uncontended locks |
| `Schedule`, `RemoveByTool` | the `cron` tool, with what the turn's context tells it |
| `SwitchAgent`, `SendOneOff`, `Reset`, `RemoveByCommand` | commands, which the channel's handler runs at any time |
| `Fire`, `Fired`, `RunWorkflow`, `Disarm` | the scheduler, `_fire_job`, `_handle_workflow` up to its lookup, its self-disarm |
| `Restart` | queue, tasks, threads and active agents are gone; the data store and the files stay; another set of agents may be deployed |

`born`, `asked` and `stale` are history: which turn scheduled a job, whose removal
its owner asked for, which fire ran something else than what was on disk.  A
context of a workflow's job only says where its answer goes, so it is always a
task's.  Ids are drawn in a fixed order, which nothing can notice.

### MessageBus, LiveClients, Heartbeat and GatewayHost

| In the model | In the code |
| --- | --- |
| messages `1 .. last` | the order in which they came to the queue or topic |
| `gone`, `held` | what the transport will not deliver again, RabbitMQ's message between its task and its acknowledgement |
| `committed`, `attached` | Kafka's offset of the group, and whether the consumer has fetched it |
| `handed`, `dropped` | history: tasks that a message was given to, and why there was none |
| `conns`, `known` | `WebSocketChannel._connections`, and those among them whose user and context are the broadcasts' |
| `cast[m]` | the local state of a `_broadcast`: the connection that is written to, what its iterator has still to visit, the size of the set when it began, the dead; one that leaves is out of the lists, since a client that comes back has another connection |
| `seen[c][m]` | history: the frames of turn `m` that client `c` has got since it connected |
| `WriteNext`, `WriteLast`, `WriteRaises` | a write returns, and the iterator goes on, ends, or finds that the set has another size |
| `conditions`, `round` | `HeartbeatManager._conditions`, and the list that `_tick` iterates: the same object until a removal puts a new one in its place (`shared`) |
| `host`, `depth`, `Stack` | where `_run_async` is, and its `AsyncExitStack` |
| `chan`, `worker`, `cron` | the tasks of `GatewayManager.run`'s group, and `CronManager` |
| `Interrupt`, `ChannelFails`, `ChannelReturns`, `WorkerFails` | the ways in which the group ends |
| `CloseSockets` .. `ShutdownHooks` | the awaits of the way back |
| `Die` | SIGKILL; and SIGTERM, for which no handler is installed |
| `turn`, `told` | the task of a message, as far as its broadcasts go; `TurnDelivery` has the rest |

A Python `set` that has lost one member and won another has the size it had, so the
iterator goes on, and what it visits depends on where the new member was put:
`Rests` allows every set of connections (`torn` marks such turns).  Messages on
Kafka are of one partition.  Handler tasks of messages are in no group, so nobody
waits for them: `ShutdownHooks` is where `asyncio.run` cancels them.  A
scheduler left `"entered"` by a start that raised is the one thing that stays
open, and `Nested` says so.

### Intake and the channels

`feed` is what the platform has to deliver, in order, `tasks` the handlers under
way, `at` the next await of each: the name of the user is asked for (Slack), a
reaction is put, the command router is asked, a file is fetched, the message is
published.  Telegram and Matrix run one handler after the other (`Free`), Discord
and Slack start one per event.

What the platform tells of a post is more than one event.  A mention in a Slack
channel is two, and in a direct chat it is one or two (`Delivered`), in the same
context either way.  Discord tells of every update of a message, also when it only
got a preview or was pinned, and the handler compares nothing; Slack tells of
updates, which its handler has no branch for, and delivers again what was not
acknowledged in time (`EditIt`, `Redeliver`).  `rev` counts the times that the
platform told of posts again, so that `TakenOnce` can say: once for each time.

`IsAllowed` is `is_allowed` with and without the name of the user; for Slack the call
that asks for it may fail.  A file is `"good"`, `"empty"`, `"large"` or `"unlinked"`
(Slack sends no link), and `got` and `noted` say whether the agent gets it or is told
of it.  `posts` is the homeserver's clock for Matrix, and `since` what it said when
the channel was started.  A Matrix room may get a third member, or lose all but two
(`Crowd`), as `dmCache` is never asked again in one start; `been` remembers what a
room was in which start.

`tracked`, `marks` and `swaps` are `_reaction_tracking`, the reactions on the
platform and the calls of `_swap_reaction` under way.  The bot may write in any
context at any time (`Speak`): an answer, the reminder of a job that was scheduled
there, a heartbeat, the output of a workflow; the channel does not know which, and
swaps what the context tracks.  `wrote` and `early` remember for which posts it did,
after the eyes were put and before.

### Capabilities, Registration, AgentToolset and Access

`Capabilities` has `rbac.py` and the resolution of names as operators.
`Registration` has the calls of `Langclaw` that a module makes before it runs, with
the refusals of each (a call that raises ends the program and is no step);
`AgentToolset` has `create_claw_agent` as operators, from a selection of tools and
the registered subagents to what the agent, its scripts and its subagents reach, and
to what `WorkflowRuntime` is wired to.  `Access` composes them: `Start` builds all
agents, `Turn` reconciles the folder and rebuilds the default agent if the registry
has changed, `Rebuild` leaves the old agent in place when `Raises` but has wired the
runtime already.  `OfferedTo` is what the filter leaves of an agent's tools with
those that deepagents adds (`Injected`), `task` among them, so that a subagent is
reached only by a role which is offered `task` and passes the gate on its argument;
a script's `task` passes that gate, too, and its list is the same one.  `RoleOf` is `_resolve_user_role` of a message, and `TextOf`,
`CommandOf`, `FireOf` are the messages that a channel, a command and a job make.

## 4. The runs

| Run | Instance | What it shows |
| --- | --- | --- |
| `run_safety` | a memoised run with a timeout, an authored run; 2 steps, 2 results, 1 permit, 2 deliveries each, 2 crashes, 1 store error, redeployments that lose the workflow or reject its input | gate, journal and script stay exact, a resume takes up only what was left running, and deliveries are the durable record |
| `run_liveness` | a memoised run and a saved one; 1 step, 1 crash | a journalled run settles or was abandoned in a known way; a start comes to serve. Left out are redeployments that reject a stored input (section 7) and runs that have no timeout and a step that never returns, which nothing ends |
| `fan_out` | four branches in two nested batches, 2 slots, 3 steps of budget for 4 steps in the body, 2 attempts, 1 failing step, 1 crash | slots and budget are exact, outputs are on record, a returned batch leaves nothing behind, an attempt ends (that branches do not wait for each other's slots is the question of the next run, since this body has one inner batch) |
| `nested_fan_out` | two branches that each open a batch, 2 slots | see section 7 |
| `turn_delivery` | two turns, or one and a message of a subagent, in one chat (`MaxTurns`); a user's chat with and without `streaming_enabled` and a job's (`Configs`); 2 pieces each, 1 tool call, 1 failing platform call | the chat shows what `Transcript` allows: in order, once, nothing taken back, complete at the end; no text is lost or doubled beyond what overlapping turns share; typing stops |
| `agent_freshness` | the default agent and a named one; a workflow in code, a saved one and a reserved name; 2 texts, 3 edits anywhere, 1 failing build or reconcile | no edit is missed but by the exceptions of section 7, code wins, the turn's agent is the current one |
| `conversations` | two users of one chat, an agent that a restart may remove or bring, two jobs, one saved workflow; one message, one command, two edits, one restart or failure; one agent's turn at a time | jobs keep their owner, threads their agent, jobs stay until someone entitled removes them, and a job without a workflow stops |
| `gateway_host` | five deployments: asyncio with two clients that connect three times; each transport with two messages, two starts and a death; a heartbeat with two conditions | no message vanishes unaccounted, nothing outlives what it uses, the shutdown ends, a client sees whole answers or apologies, a tick checks what it has to |
| `channel_intake` | six deployments (table below): one or two posts out of two to ten that differ in sender, chat, mention, text and files | a post is taken once each time the platform tells of it; what is meant for the bot is taken whole, and nothing else is; a reaction settles |
| `replayed_event` | Matrix of the same | see section 7 |
| `access` | two names that are one identifier, grants of a workflow, a subagent and `task`, two registrations in all, two starts, two roles, three users, permissions off and on, scripts off and on | the ways to a workflow, tool or subagent agree, delegation grants nothing, roles add up |
| `entry_points` | the same | see section 7 |

Why these bounds are enough to be interesting: every hazard they are for needs
two of something.  Two runs and one permit make a run wait while another is
cancelled, timed out or crashes inside the gate.  Two steps make a resumed body
replay one and execute the other, two crashes let a resumed run crash again, and
two results make an executed step differ from what is on record.  Two slots and
two levels of batches are the smallest case in which a branch waits for a slot
while it holds one; a budget one short of the body's steps makes it run out inside
a batch.  Two pieces let the other turn's chunk come between those of one turn.
Two texts and three edits let a file change before a check, change again between its
hash and its build, and go back.  The failing call, build, step and store
operation can each hit any action that may fail.

In `gateway_host` the deployments have what their hazard needs and no more, for
clients do not see the transport and a heartbeat sees neither.  Two messages let one
be held, or behind the offset, while the other waits; two starts and a death let
what is left of one process meet the next; two clients and three connections let one
leave and another come within one write.

The deployments of `channel_intake` divide the posts and the bounds so that each
hazard has what it takes.  Two posts are every pair that the platform tells apart:
the second is taken while the handler of the first waits, or replaces what is
tracked of it.

| Deployment | Posts of | At most | Starts | Told again, or members change | Calls that fail |
| --- | --- | --- | --- | --- | --- |
| Telegram | 5 | 2 | 2 | 0 | 1 |
| Discord | 7 | 2 | 2 | 1 | 1 |
| Slack, what is answered | 4 | 2 | 2 | 0 | 1 |
| Slack, what is told of again | 5 | 2 | 1 | 1 | 0 |
| Slack, mentions in a direct chat | 2 | 1 | 2 | 1 | 1 |
| Matrix | 10 | 2 | 2 | 2 | 1 |

In `access` two registrations are any two calls in either order, and names that are
one identifier are the smallest case in which a build raises after it has wired the
runtime.

In `conversations` every message of a user or a command may schedule or
switch, and every job may schedule the second one, so the one message and the one
command start all chains of turns there are between two users, two agents and two
jobs.  Turns of agents are bounded to one at a time because they share nothing in
this model but what a step reads and writes at once; messages of workflows are
bounded to one per job.  Jobs are in a data store that outlives the process, as is
the default.

Symmetry: `run_safety` permutes results, `turn_delivery` the two turns; they have
only invariants and action properties.  Their refinements are `Init /\ [][Next]_v`
without fairness, and neither abstract specification tells the permuted values
apart, so symmetry is sound for them too.  With all three messages at once the
steps of `turn_delivery` to compare with the promise are too many for a run of
minutes; the theorem has any number of them.

`FanOut` keeps the parts of an attempt that failed, so branches that outlive it go
on in the model as they do in the code.

Deadlock is checked in all runs; `Quiescent` is a gateway that waits for a message
the bounds do not let arrive.  (In `Conversations` a check for a fresh agent can
always come.)  `ChannelIntake` is the exception: it stops when all that the bound
allows was posted and taken, so there deadlock is not an error.

## 5. Fairness

`WorkflowRun!Fairness` is weak fairness of the steps of every run's task, of
`Restart` and of `StartServing`: the event loop runs every task that is ready, an
awaited call answers (one that hangs is what `timeout_s` is for, and `TimeoutFires`
is never forced), a supervisor restarts the process.  Nothing is assumed of
messages, failures, timeouts, cancels and crashes.  `FanOut!FairSpec` is weak
fairness of every context's step; weak fairness is enough for slots because the
semaphore is first in, first out, and the bounded bodies leave no one to overtake
for ever.  `Conversations!FairSpec` is weak fairness of firing each armed
job, of the bus worker's two kinds of task and of `Disarm`: the scheduler is due
again and again for a job, and the event loop runs what is ready.  Turns of agents
need not end.  `GatewayHost!FairSpec` is weak fairness of the awaits of the way back:
a channel's `stop` returns or raises, sockets get closed and the handler of a closed
socket ends, the scheduler and the resources of the stack are left.  Nothing is
assumed of clients, brokers or turns, and a `Die` in between ends the shutdown as
well.  `TurnDelivery`, `AgentFreshness`, `ChannelIntake` and `Access` claim no
liveness: a turn may wait for a model as long as it likes, a check has no await, a
platform's call may hang, and nobody has to start a host.

## 6. What is proved

All theorems hold for every value of the constants that satisfies the named
assumptions (`RunAssumption`, `FanOutAssumption`, `SavedAssumption`,
`FreshAssumption`, `TurnAssumption`, `CronAssumption`, `ConversationsAssumption`,
`MessageBusAssumption`, `LiveClientsAssumption`, `GatewayHostAssumption`,
`IntakeAssumption`, `PlatformAssumption`, `MatrixAssumption`,
`CapabilityAssumption`, `SpecAssumption`, `AccessAssumption` and those of the modules
below them); these say that sets are finite, that markers are distinct from
what they mark (no plain tool is named `workflow_...`, `None` is no role), that
bounds are numbers, and of platforms that a post of Telegram or Matrix has at most
one file, and that the bot uses no command of its own and is not told by Telegram
what it said.  TLC evaluates them in every run.

*WorkflowRunProofs.*  `RunInvariant` proves the inductive invariant
`RunInv = TypeOK /\ Replay /\ JournalAgrees`: a body has seen what the store holds
for the steps behind it, a result on its way to the store is the first for its
step, and the await of a task tells what its journal record says.  `TypeOK` alone
is not inductive, because a delivered output is what the body has seen, and only
`Replay` says that these are results.  From it follow `TypeCorrect` and
`RunImplementsLedger`: every step is a step of `RunLedger` or leaves it alone.
`RunningIsAccounted` adds `Owned`, who owns a running record in each stage of the
process; `ResumesOnlyIncomplete` adds `ResumesRunning`, what a resume still touches;
`OneBodyPerRun` adds `FreezesOnce`; `GateIsExact` counts the runs inside the gate
action by action.

*FanOutProofs.*  The types of `FanOut` (`BranchTypeCorrect`) are proved and not run.
`BranchInvariant` proves `Spawned`: a branch that was spawned is
below a context that gathers at its batch or has failed, or it is over.  It is what
`ReturnedBatchIsOver` (`NothingLeftBehind`), `SlotsAreExact` (`SlotsAccounted`),
`BudgetIsTheRuns` (`StepBudget`) and `FewerBatchesThanSlots` need, since a cancel
gives back the slots of a whole subtree at once.  `FewerBatchesThanSlots` has a
hypothesis of its own, that fewer branches open a batch than there are slots: the
run `nested_fan_out` shows that it cannot be dropped.  `OutputIsOnRecord`
(`OutputIsRecord`) needs `OnRecord`: an attempt that did not start beside branches of
an earlier one has all running tasks as long as its Root runs (`LastRuns`, `Alone`),
so what it has seen is what the store holds (`Agrees`); once Root has returned, what
belongs to the output does not grow (`OutputWas`), nobody executes a step of it, and
nobody can begin to, since its place in the store is filled (`Returned`).

*AgentFreshnessProofs.*  `NothingMissed` and `TurnIsCurrent` speak of baselines and
files, and hold because of what is known of an agent that was built from another
text than its baseline.  `FreshInv` says it: an agent that no exception is made of
is built from its baseline, or is torn and its AGENTS.md does not say what was
hashed (`BaseText`), so the next check builds it; inside a check, what was hashed
and what the file says now have both been in it since the turn began to look
(`InCheck`); the registry is what the hashed folder asks for, or the folder has not
come back to what was hashed (`Folder`); and the registry's version tells which
registry the default agent was built from (`Tools`).  No hypothesis is made on how
often a text comes back.  `CodeAlwaysWins` and `FreshTypeCorrect` come with it, and
`NothingRebuiltForNothing` from the fact that a reconcile counts what it changes.

*GatewayHostProofs.*  `HostInvariant` proves two invariants at once.  `BusInv` says
where a message is: it waits, a turn has it unacknowledged, or it is gone with a
reason; on Kafka what a consumer has read is a prefix of the log, which a commit of
its position needs, and what RabbitMQ has handed out is dropped only with its
connection.  `HostInv` says what the host holds in each place of `_run_async` (the
exit stack, the group, the scheduler, the clients of a channel).  They meet in the
lemma `BusMoves`: each step of the host is one of the bus or leaves it alone.  From
them follow `NothingVanishes` (`Accounted`), for the three transports and any number
of messages, stops and crashes, and `HostIsNested` (`Nested`).

The same module goes on to what lives in the process.  `TicksCheckAll` needs
`BeatInv`: names are in a list once, a tick has checked what lies behind its
position once and nothing else, and what was due when it began is in its list;
adding to the list in place and replacing it when something is removed both keep
that.  `ClientsHold` (and with it `HostTypeCorrect`) proves of the live connections
that a broadcast writes to one which is in the set and has not that one ahead of it
again, that those it found dead have no client any more, and that who is steady is
connected and known.  `WholeAnswerOrApology` then follows the frames of an answer.
`Heard`: a turn that clients may have frames of is behind the bus of this process,
so no turn begins with clients that have some already, which is where the bus and
the connections meet.  `Telling`: a broadcast tells the next frame of a turn under
way, or the apology of one that failed.  `Answers`: a steady client has all frames
up to the one that is told, but for that one as long as the broadcast has not come
to it.  Once the set has changed under a broadcast only the last two frames are
known, and the turn is torn or raises at the next step.  Each step of a turn leaves
the others alone but for connections that come and go (`StillMoves`).

*ConversationsProofs.*  `JobsKeepTheirOwner` needs `Owned`: what a job has published,
or would now, tells of the turn that scheduled it (`Told`), a named agent schedules
in the context that has its name (`BornThere`), and what is on the bus without a job
is of a chat.  It survives a restart since the jobs and what they tell are on disk,
while the bus and the turns are gone.  `OneConversationAlways` adds `Threaded`: the
context of a thread tells who speaks in it, given which agents are deployed, because
a message in an agent's context names that agent (`StartTurnSpeaks`).
`JobsStayAlways` goes through the actions that can take a schedule away (`JobsMove`).

*AccessProofs.*  `AccessInvariant` proves `Registered` (what calls have granted is
what they have merged; a job has a role) and `Serving`: the gateway's roles are those
of its start, and the default agent is one that some build gave without an error,
the one of the registry that was seen last unless that build failed.  It is needed
because a failed build leaves the agent of an earlier registry in place and the
runtime's tools are replaced before it fails.  `RolesAddUpAlways` follows with what
the one filter leaves of a main agent's tools, `task` included (`SeenOfMain`),
`DelegationBoundedAlways` with the monotonicity of that filter (`FilteredWithin`),
and `WaysAgreeAlways` with one lemma for each way.

*TurnDeliveryProofs.*  `TurnDeliveryTyped` proves `TypeOK` with `Aimed`, that a call
in flight edits a message which is there.  `TypingIsForATurn` needs `Lined` (the
worker's line holds each queued message once) and `TypingFor`: a chat whose indicator
is on has a turn that will still stop it, or one that ended without a word.

About pieces nothing is inductive alone, since a piece wanders from the model to the
chat's buffer or stream, to a turn's call and into a message.
`Settled` collects what is known of a turn at each await (what it may have in a
call, where it may edit).  Under it every step of a turn is one of nine moves of
pieces (`Move`, lemma `OwnMove`), and the invariants are preserved move by move:
`Belongs` (a piece is found in its own chat, and has been said), `Accounted` for
`NothingDisappears`; `Once` and `TextsOrdered` for `NothingIsShownTwice`: a chat's
stream and the edits in flight are versions of the message they aim at, the versions
that hold a piece are all of one message, and a piece that is buffered or about to be
posted is in none; `Owned` and `Mixed` for `RepliesAreTheirOwn`: what is in a buffer
or a stream is of a turn that still works or that failed, and two turns in flight in
one chat have overlapped.

`AnswersAreComplete` (`StreamComplete`) is about the turn that has its chat for
itself, whose last edit has to show what the throttled ones left out.  `Solo` says
what being alone gives: the calls of the chat are this turn's, the stream covers all
that its message shows and all that an edit in flight is about to show, a turn starts
with an empty stream, and the last edit takes everything the stream has.  With it a
piece stays in the stream or the message from the chunk that brings it to the end
(`LiveKept`), as long as no call has failed (`NothingLost`).

`TurnsKeepThePromise` is the refinement: `Spec => KeepsPromise`.  Its invariant is
`Coherent`, all of the above and what only order needs.  `Chained`: a stream and the
edits of its message in flight begin as the message in the chat does, so an edit
agrees with what it replaces as far as both go and only turns that shared the chat
have text beyond it.  `Kinds`: what a call of each kind carries.  `SpokenInOrder`, of
a turn that has had its chat for itself so far: what it is about to post comes after
all of its text in the chat and the buffer is empty of it (`PostedLast`), what is
buffered comes after all that is in the chat (`BufferedLast`), and a turn that edits
has all its text in the one message of the stream (`OneMessage`, `InItsStream`).
`PiecesFlow` says where each of the nine moves takes pieces, and those conjuncts and
`Once` are preserved by cases on it.  `UntoldUnseen` and `LinesTold` say that what is
nowhere to be shown is in no text, which makes a piece in a call one that the promise
was told (`SomewhereIsTold`).  Then `PostWrites` and `EditWrites` show that the two
ways in which a call ends in the chat are `Write`s, `Closing` that the last step of a
turn closes it (by `CompleteAnswers`, the lemma behind `AnswersAreComplete`), and
`OwnKeepsPromise` takes the steps one by one.

*ChannelIntakeProofs.*  `IntakeHolds` proves two invariants for all four platforms.
`Tracked`: an event of the platform is at one place, in the feed, with one handler,
or among what has ended, once per start of the channel (Matrix replays the
history, hence per start), and what is told of again has a count of its own;
`PostsAreTakenOnce` follows.  `Sane`: whom a handler works for at each of its stages,
what it has of the files it is past (`Right`), what an answer was given for (`Fair`),
and what Matrix remembers of rooms, which is what the room was at some time of this
start (`DmKept`); every stage of every platform is shown to keep it, and
`WhatIsMeantIsTaken` reads the verdict off at the end.

`ReactionsSettle` is about Slack, where the tracking is keyed by the context, the
reaction is put and swapped by calls of their own, a post may be handled more than
once, and the bot writes when it likes.  `Reacted` says in which of four shapes the
reactions of a post are (`Untouched`, `Fresh`, `Eyed`, `Swapped`), by how far its
handler is and whether the bot has written in its context, for posts that are alone
in theirs and that one handler has taken (`Neat`).  That a second handler may come
is why it needs `SoleWas`: who is the only one now has always been.  A step about
something else leaves a post as it is (`NeatOn`); each step of its own handler, each
call of a swap and each message of the bot has its lemma.

Only model-checked: what must eventually happen (`RunsSettle`, `StartupCompletes`,
`AttemptEnds`, `ShutdownCompletes`, `DanglingDisarmed`), since liveness under fairness
is out of the prover's reach.  Every other property of a passing run is a theorem.

## 7. Where the code and its own words disagree

Three are runs that check what a comment or an example says, and find it violated.

- `nested_fan_out`: as many branches with a `parallel` inside as there are slots
  hold all of them and wait for one, for ever.  An example of the repository has
  this shape.
- `replayed_event`: Matrix's filter of events from before the start
  (`matrix.py` 511) compares the event loop's clock, which counts from the boot of
  the host, with the server's, which counts from the epoch.  It drops nothing, so
  every start may take the end of each room's history again.
- `entry_points`: a role that goes by username is found only where a message carries
  the username.  What `/workflows run` publishes does not (`manager.py` 1013 speaks of
  one default-deny list for the bus, cron and the command), so such a user's model is
  offered a workflow that the command refuses.

The others are in the models, where the properties that hold leave room for them by
name, or were met while reading.

Runs and jobs:

- A run cancelled with `/workflows cancel` stays `running` in a process that never
  died, and is resumed at the next start (`stranded` in `WorkflowRun`).
- A run whose stored input the redeployed workflow rejects raises out of
  `resume_incomplete` and makes every start of the host fail (`ResumeAborts`).
- A message that RabbitMQ delivers again after the run was completed runs it again
  (a memoised one replays, so `ImplementsLedger` holds); an exception of
  `channel.send` after the terminal mark is reported to the user as a failed workflow
  (`SendRaises`).
- A job of the main agent carries no agent's name, so it is answered by whichever
  agent its owner has active when it fires; a task that a named agent schedules runs
  in that agent's one thread, where the tool speaks of an isolated one (`Effective`).
- `app.py` 310 says that workflows go through "the same bus -> gateway pipeline" with
  RBAC inherited; the executor calls tools directly, and subagents without a context,
  which makes their role the default one.

Turns:

- The reply of a guardrail or of the rate limit is the update of a node that the
  gateway does not forward, so a blocked user gets no answer (`Block`).
- Text that a model which does not stream puts beside a tool call is dropped
  (`untold`).
- Overlapping turns in one chat swap or merge their text (`ReplyIsOwn` and
  `StreamComplete` are stated of turns that had the chat for themselves).
- `/agentsmd reload` forgets the hash, which makes the next message a first sighting
  that builds nothing; an edit between start and the first message is taken as the
  baseline and built by no turn (`stale` in `AgentFreshness`).
- An AGENTS.md that is changed between its hash (`manager.py` 289) and the build
  (376) and then taken back leaves the agent with the text in between, since the next
  check finds the hash that it knows; the same goes for the folder of workflows
  between its hash and the reconcile, be it the check's or that of a workflow's
  message (`CameBack`, `folderTorn`).
- `/reset` forgets the chat's thread also while a named agent, with another thread,
  is active (`Reset`).  `/agent` lowercases its argument, so an agent registered with
  capitals cannot be reached, and its doc speaks of a `/switch` that is not there.

Channels and host:

- A broadcast raises, and its turn fails for every client, when one joins or leaves
  during a write (`WriteRaises`).  The doc string of `websocket.py` has `"*"` for all
  clients, which matches none.
- Shutdown does not wait for the tasks of messages (`ShutdownHooks`), where
  `deployment.md` derives a grace period from their length.  `CronManager.start` that
  raises half-way is never stopped (`CronEnter`).  The asyncio bus takes messages
  after `stop` without a word (`Publish`).  The RabbitMQ bus calls its prefetch
  at-most-once, and acknowledges when the task is created.  A heartbeat whose publish
  raises is over (`LoopDies`).
- An empty file is lost without a word, as is a Slack file without a link; Matrix
  media needs no mention in a group; a Matrix room is treated until the next start as
  what it was when first asked, so a room that grew has its plain texts answered and
  one that shrank to two has them dropped without a word; an update of a Discord
  message that changed nothing is taken as a message, Slack's redelivery of an event
  is taken again, and a mention in a direct chat of Slack that is reported as two
  events is taken twice; the reminder of a job swaps the reaction of a message that
  nobody has answered yet; a Slack slash command acts on the channel's context where a
  mention acts on the thread's; of two messages in one Slack context only the last
  one's reaction is swapped; Discord's `/agent` has no free argument.

Roles and tools:

- `schema.py` 126 has `"@alice:editor"` as an example of a role by username, which
  never equals a username without the `@`.  `/agent name text` loses the role by
  username as `/workflows run` does.
- A subagent that reports to the channel and lists no tools, by an empty list, has all
  of them (`Reach`; `builder.py` 557), where one that reports to the main agent has
  none, and `app.agent` with an empty list has the built-in ones, where its doc
  speaks of an explicit list.
- A role that is granted a subagent but neither the tool `task` nor all tools reaches
  no subagent, since the filter takes `task` from its model (`RolesAddUp`).
- Two saved files whose names are one identifier in camel case make every build of
  the default agent raise, and each failed build leaves the runtime wired to the new
  tools and to no subagents (`Rebuild`); `WaysAgree` speaks of builds that succeeded.

## 8. What is not modelled

- Third-party code: LangGraph and the checkpointer, deepagents, QuickJS, the chat
  platforms' libraries, the brokers.  They appear as what they may answer.
- What a result says.  Two results are told apart and that is all; in particular a
  pydantic result that is replayed as a dict (`resume.py`) is the same value here.
- Sends that the platform carried out although the call reported an error, and which
  the channels then repeat (`discord.py` 321-339, `telegram.py` 371-376): a failed
  call shows nothing in `TurnDelivery`.
- The splitting of long messages for their length, markup, and tool progress lines
  that no tool call belongs to.
- The progress lines of workflows, which tasks of their own send (`manager.py`
  898-957): they may come in any order, or after the output, and carry no state.
- The token bucket of the rate limit: one float per user that is read and written
  without an await, of a clock that the model would have to invent.
- `validate_capability_registry`, which compares tables of the code with each other
  once at start; commands that only read.
- A file that cannot be decoded: it raises out of every check until it is mended.
- `Prepare` of a turn, beyond that it may raise, is in `TurnDelivery` one step: which
  agent and thread a message gets is what `Conversations` is about, and its role what
  `Access` is about.
- Triggers of cron jobs, `list` and `view`, jobs that the CLI adds, the id of a
  scheduler that is no longer there (one scheduler is always found), and a workflow
  message that no job sent (`WorkflowRun` has those).
- Configuration, prompts, the CLI and the tools that call web services: there is no
  state to go wrong between two calls.

## 9. Plan

1. The token bucket with elapsed time, if a property is found that a unit test does
   not reach.
2. An abstract specification of what users and jobs may expect of a conversation's
   schedules, which `Conversations` implements, as `TurnDelivery` does `Transcript`.
