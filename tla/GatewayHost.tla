---------------------------- MODULE GatewayHost ----------------------------
(***************************************************************************)
(* The process around the gateway: Langclaw._run_async opens a stack of    *)
(* resources, GatewayManager.run keeps the channels, the bus worker and    *)
(* the scheduler going until one of them fails or the process is           *)
(* interrupted, and everything is undone in the reverse order.  Messages   *)
(* go over the bus meanwhile, and every one becomes a task of its own,     *)
(* which belongs to no group: nobody waits for it at the end.              *)
(***************************************************************************)
EXTENDS MessageBus, LiveClients, Heartbeat

CONSTANTS
    Others,       \* channels besides the WebSocket one
    Instances     \* deployments: the transport, and as bounds the messages that
                  \* are published, the clients that connect, the starts and
                  \* deaths of the process, the calls that raise, and
                  \* whether there is a HeartbeatManager and durable workflows

ASSUME GatewayHostAssumption ==
    /\ "websocket" \notin Others
    /\ Turns = Messages
    /\ Instances \subseteq [backend : Backends, messages : 0 .. MaxMessages, joins : Nat,
                           starts : Nat, deaths : Nat, faults : Nat, beats : BOOLEAN,
                           durable : BOOLEAN]

VARIABLES
    bound,        \* the deployment
    host,         \* where _run_async, or GatewayManager.run within it, is
    depth,        \* resources on the AsyncExitStack
    chan,         \* where _run_channel is, for each channel
    worker,       \* whether _bus_worker is running
    cron,         \* CronManager: "off", "entered", "on", "deregistered"
    source,       \* the channel of a message
    turn,         \* where the task of a message is
    told,         \* frames of its answer that have been broadcast
    joins, starts, deaths, faults

hostVars == <<host, depth, chan, worker, cron>>
turnVars == <<source, turn, told>>
bounds == <<bound, joins, starts, deaths, faults>>
vars == <<busVars, clientVars, beatVars, hostVars, turnVars, bounds>>

Web == "websocket"
Channels == Others \cup {Web}

HostStates == {"off", "hooks", "opening", "building", "starting", "serving",
               "stopping", "unwinding", "after"}

\* What the stack holds, in the order in which it is entered.
Stack == <<"bus", "checkpointer">> \o (IF bound.durable THEN <<"stores">> ELSE << >>)

HostTypeOK ==
    /\ bound \in Instances
    /\ host \in HostStates
    /\ depth \in 0 .. Len(Stack)
    /\ chan \in [Channels -> {"idle", "running", "stopping", "stopped"}]
    /\ worker \in BOOLEAN
    /\ cron \in {"off", "entered", "on", "deregistered"}
    /\ source \in [Messages -> Channels \cup {"none"}]
    /\ turn \in [Messages -> {"none", "agent", "failed", "done"}]
    /\ told \in [Messages -> 0 .. End]
    /\ joins \in 0 .. bound.joins
    /\ starts \in 0 .. bound.starts
    /\ deaths \in 0 .. bound.deaths
    /\ faults \in 0 .. bound.faults

\* Every variable has its type.
TypeOK == BusTypeOK /\ ClientsTypeOK /\ BeatTypeOK /\ HostTypeOK

Init ==
    /\ BusInit
    /\ bound \in Instances /\ bound.backend = backend
    /\ ClientsInit
    /\ BeatInit
    /\ host = "off" /\ depth = 0
    /\ chan = [c \in Channels |-> "idle"]
    /\ worker = FALSE /\ cron = "off"
    /\ source = [m \in Messages |-> "none"]
    /\ turn = [m \in Messages |-> "none"]
    /\ told = [m \in Messages |-> 0]
    /\ joins = 0 /\ starts = 0 /\ deaths = 0 /\ faults = 0

Fault == faults < bound.faults /\ faults' = faults + 1
NoFault == UNCHANGED faults

\* What the steps of the host leave alone.
HostOnly == UNCHANGED <<clientVars, beatVars, turnVars, bound, joins, deaths>>

Running == {m \in Messages : turn[m] \in {"agent", "failed"}}

-----------------------------------------------------------------------------
\* Start-up.

Start ==
    /\ host = "off" /\ starts < bound.starts
    /\ starts' = starts + 1
    /\ host' = "hooks"
    /\ chan' = [c \in Channels |-> "idle"]
    /\ cron' = "off"
    /\ UNCHANGED <<busVars, depth, worker, faults>> /\ HostOnly

\* The start-up hooks come before the try: one that raises ends it all.
StartupHooks ==
    /\ host = "hooks"
    /\ \/ host' = "opening" /\ NoFault /\ UNCHANGED beatVars
       \/ host' = "off" /\ Fault /\ BeatDies
    /\ UNCHANGED <<busVars, clientVars, depth, chan, worker, cron, turnVars, bound, joins,
                   starts, deaths>>

\* One resource of the stack is entered, or left.
Enter ==
    /\ depth' = depth + 1
    /\ IF Stack[depth + 1] = "bus" THEN BusStart ELSE UNCHANGED busVars

Exit ==
    /\ depth' = depth - 1
    /\ IF Stack[depth] = "bus" THEN BusStop ELSE UNCHANGED busVars

Open ==
    /\ host = "opening"
    /\ Enter
    /\ host' = IF depth' = Len(Stack) THEN "building" ELSE "opening"
    /\ UNCHANGED <<chan, worker, cron, starts, faults>> /\ HostOnly

OpenRaises ==
    /\ host = "opening" /\ Fault
    /\ host' = "unwinding"
    /\ UNCHANGED <<busVars, depth, chan, worker, cron, starts>> /\ HostOnly

\* The registry is reloaded, the agents are built, runs are resumed.
Build ==
    /\ host = "building"
    /\ \/ host' = "starting" /\ NoFault
       \/ host' = "unwinding" /\ Fault
    /\ UNCHANGED <<busVars, depth, chan, worker, cron, starts>> /\ HostOnly

\* CronManager.start, outside of run's try: if it raises nobody calls stop.
CronEnter ==
    /\ host = "starting" /\ cron = "off"
    /\ \/ cron' = "entered" /\ UNCHANGED host /\ NoFault
       \/ host' = "unwinding" /\ UNCHANGED cron /\ Fault
    /\ UNCHANGED <<busVars, depth, chan, worker, starts>> /\ HostOnly

\* From here to the group nothing is awaited; the group has a task for each
\* channel and one for the bus worker.
CronStart ==
    /\ host = "starting" /\ cron = "entered"
    /\ \/ /\ cron' = "on" /\ host' = "serving"
          /\ chan' = [c \in Channels |-> "running"]
          /\ worker' = TRUE
          /\ NoFault
       \/ host' = "unwinding" /\ Fault /\ UNCHANGED <<cron, chan, worker>>
    /\ UNCHANGED <<busVars, depth, starts>> /\ HostOnly

-----------------------------------------------------------------------------
\* The end.

\* The group is cancelled: CancelledError ends every start(), and
\* _run_channel's finally calls stop(); the worker is gone.
CancelGroup ==
    /\ host' = "stopping"
    /\ chan' = [c \in Channels |-> IF chan[c] = "running" THEN "stopping" ELSE chan[c]]
    /\ worker' = FALSE

\* Ctrl-C cancels the main task, and with it the group.
Interrupt ==
    /\ \/ host = "serving" /\ CancelGroup
       \/ /\ host \in {"opening", "building", "starting"}
          /\ host' = "unwinding" /\ UNCHANGED <<chan, worker>>
    /\ UNCHANGED <<busVars, depth, cron, starts, faults>> /\ HostOnly

\* start() raises, when it connects or at any time after, and the group
\* cancels the others.
ChannelFails(c) ==
    /\ chan[c] = "running" /\ host = "serving" /\ Fault
    /\ CancelGroup
    /\ UNCHANGED <<busVars, depth, cron, starts>> /\ HostOnly

\* start() returns: the channel is stopped, the others go on.
ChannelReturns(c) ==
    /\ c # Web /\ chan[c] = "running" /\ host = "serving" /\ Fault
    /\ chan' = [chan EXCEPT ![c] = "stopping"]
    /\ UNCHANGED <<busVars, host, depth, worker, cron, starts>> /\ HostOnly

\* MUTANT of CloseSockets: only connections that have spoken are closed.
CloseKnownSockets ==
    /\ chan[Web] = "stopping" /\ online \cap known # {}
    /\ HangUp(online \cap known)
    /\ UNCHANGED <<busVars, beatVars, hostVars, turnVars, bounds>>

\* WebSocketChannel.stop closes the sockets and waits for the handlers.
CloseSockets ==
    /\ chan[Web] = "stopping" /\ online # {}
    /\ HangUp(online)
    /\ UNCHANGED <<busVars, beatVars, hostVars, turnVars, bounds>>

Stopped(c) == c = Web => conns = {}

\* stop() returns, or raises, which cancels the group if it is not yet.
ChannelStopped(c) ==
    /\ chan[c] = "stopping" /\ Stopped(c)
    /\ \/ /\ chan' = [chan EXCEPT ![c] = "stopped"]
          /\ NoFault /\ UNCHANGED <<host, worker>>
       \/ /\ host' = "stopping" /\ worker' = FALSE /\ Fault
          /\ chan' = [d \in Channels |-> IF d = c THEN "stopped"
                                         ELSE IF chan[d] = "running" THEN "stopping" ELSE chan[d]]
    /\ UNCHANGED <<busVars, depth, cron, starts>> /\ HostOnly

\* A message cannot be decoded: subscribe raises, and so does _bus_worker.
WorkerFails(m) ==
    /\ host = "serving" /\ worker /\ Fault
    /\ YieldRaises(m)
    /\ CancelGroup
    /\ UNCHANGED <<depth, cron, starts>> /\ HostOnly

GroupOver == ~worker /\ \A c \in Channels : chan[c] \in {"idle", "stopped"}

\* MUTANT of CronDeregister: the scheduler is left out of the finally.
CronForgotten ==
    /\ host = "stopping" /\ GroupOver /\ cron = "on"
    /\ host' = "unwinding"
    /\ UNCHANGED <<busVars, depth, chan, worker, cron, starts, faults>> /\ HostOnly

\* run's finally: the manager leaves the registry in which jobs look it up,
\* and then stops the scheduler.
CronDeregister ==
    /\ host = "stopping" /\ GroupOver /\ cron = "on"
    /\ cron' = "deregistered"
    /\ UNCHANGED <<busVars, host, depth, chan, worker, starts, faults>> /\ HostOnly

CronStop ==
    /\ cron = "deregistered"
    /\ cron' = "off"
    /\ host' = "unwinding"
    /\ UNCHANGED <<busVars, depth, chan, worker, starts, faults>> /\ HostOnly

\* The stack is left; it goes on to the next resource when one raises.
Close ==
    /\ host = "unwinding" /\ depth > 0
    /\ Exit
    /\ UNCHANGED <<host, chan, worker, cron, starts, faults>> /\ HostOnly

Unwound ==
    /\ host = "unwinding" /\ depth = 0
    /\ host' = "after"
    /\ UNCHANGED <<busVars, depth, chan, worker, cron, starts, faults>> /\ HostOnly

\* Tasks that are still running are cancelled, or die.
Cut ==
    /\ turn' = [m \in Messages |-> IF m \in Running THEN "none" ELSE turn[m]]
    /\ told' = [m \in Messages |-> IF m \in Running THEN 0 ELSE told[m]]
    /\ cast' = [m \in Turns |-> NoCast]
    /\ torn' = torn \cup Running

\* The shutdown hooks have run, one may have raised; asyncio.run cancels the
\* tasks that are left.
ShutdownHooks ==
    /\ host = "after"
    /\ host' = "off"
    /\ Cut /\ BeatDies
    /\ UNCHANGED <<busVars, depth, chan, worker, cron, source, bounds>>
    /\ UNCHANGED <<online, conns, known, seen, steady>>

\* SIGKILL, SIGTERM, or the machine.
Die ==
    /\ host # "off" /\ deaths < bound.deaths
    /\ deaths' = deaths + 1
    /\ host' = "off" /\ depth' = 0 /\ worker' = FALSE /\ cron' = "off"
    /\ chan' = [c \in Channels |-> "idle"]
    /\ BusDies /\ Cut /\ BeatDies
    /\ online' = {} /\ conns' = {} /\ known' = {}
    /\ Unsteady(Clients)
    /\ UNCHANGED <<seen, source, bound, joins, starts, faults>>

-----------------------------------------------------------------------------
\* Messages.

Published(c) ==
    /\ last < bound.messages
    /\ Publish
    /\ source' = [source EXCEPT ![last'] = c]
    /\ UNCHANGED <<hostVars, turn, told, bounds>>

Connect(c) ==
    /\ chan[Web] = "running"
    /\ joins < bound.joins
    /\ joins' = joins + 1
    /\ Join(c)
    /\ UNCHANGED <<busVars, beatVars, hostVars, turnVars, bound, starts, deaths, faults>>

\* A frame that is refused or answered on the spot.
Talk(c, anew) ==
    /\ (c \in known) # anew
    /\ Speak(c, anew)
    /\ UNCHANGED <<busVars, beatVars, hostVars, turnVars, bounds>>

\* A frame that is a message.
Say(c) ==
    /\ CanPublish
    /\ Speak(c, TRUE)
    /\ Published(Web)
    /\ UNCHANGED beatVars

Disconnect(c) ==
    /\ HangUp({c}) /\ c \in online
    /\ UNCHANGED <<busVars, beatVars, hostVars, turnVars, bounds>>

HandlerEnds(c) ==
    /\ Leave(c)
    /\ UNCHANGED <<busVars, beatVars, hostVars, turnVars, bounds>>

\* A message of another channel, a job that fires, a tool of a turn that
\* publishes, or another instance at the same broker.
Receive(c) ==
    /\ \/ c \in Others /\ chan[c] = "running" /\ CanPublish
       \/ cron = "on" /\ CanPublish
       \/ Running # {} /\ CanPublish
       \/ backend # "asyncio"
    /\ Published(c)
    /\ UNCHANGED <<clientVars, beatVars>>

\* The application's own HeartbeatManager; _run_async knows nothing of it.
NothingElse == UNCHANGED <<busVars, clientVars, hostVars, turnVars, bounds>>

BeatFires(k) ==
    /\ Checked(k) /\ CanPublish
    /\ \E c \in Channels : Published(c)
    /\ UNCHANGED clientVars

Beat ==
    /\ bound.beats /\ host # "off"
    /\ \/ /\ \/ BeatStart \/ BeatStop \/ TickBegins \/ TickEnds
             \/ \E k \in Conditions : AddCondition(k) \/ RemoveCondition(k) \/ Checked(k)
             \/ \E k \in Conditions : ~CanPublish /\ LoopDies(k)
          /\ NothingElse
       \/ \E k \in Conditions : BeatFires(k)

\* _bus_worker starts a task.
Take(m) ==
    /\ worker
    /\ Yield(m)
    /\ turn' = [turn EXCEPT ![m] = "agent"]
    /\ told' = [told EXCEPT ![m] = 0]
    /\ steady' = [steady EXCEPT ![m] = IF source[m] = Web THEN Matching \cap online ELSE {}]
    /\ torn' = torn \ {m}
    /\ UNCHANGED <<online, conns, known, cast, seen, source, beatVars, hostVars,
                   bounds>>

\* What brokers do by themselves.
Broker ==
    /\ Attach \/ Acknowledge \/ AutoCommit
    /\ UNCHANGED <<clientVars, beatVars, hostVars, turnVars, bounds>>

-----------------------------------------------------------------------------
\* Turns.  Those on other channels only end; TurnDelivery tells about them.

TurnStep == UNCHANGED <<busVars, beatVars, hostVars, source, bounds>>

NoFrame == UNCHANGED clientVars
Broadcast(m, f) ==
    IF Matching = {} THEN NoFrame
    ELSE /\ Begin(m, f)
         /\ UNCHANGED <<online, conns, known, seen, steady, torn>>

\* The next frame of the answer, the last of which ends the stream.
NextFrame(m) ==
    /\ turn[m] = "agent" /\ source[m] = Web /\ ~Casting(m) /\ told[m] < End
    /\ told' = [told EXCEPT ![m] = @ + 1]
    /\ Broadcast(m, told'[m])
    /\ UNCHANGED turn /\ TurnStep

EndTurn(m) ==
    /\ turn[m] = "agent" /\ ~Casting(m)
    /\ source[m] = Web => told[m] = End
    /\ turn' = [turn EXCEPT ![m] = "done"]
    /\ UNCHANGED told /\ NoFrame /\ TurnStep

\* The agent raises, or a broadcast does.
AgentRaises(m) ==
    /\ turn[m] = "agent" /\ ~Casting(m) /\ told[m] < End /\ faults < bound.faults
    /\ turn' = [turn EXCEPT ![m] = "failed"]
    /\ faults' = faults + 1
    /\ UNCHANGED <<busVars, beatVars, hostVars, source, told, bound, joins, starts, deaths>>
    /\ NoFrame

FrameWritten(m) ==
    /\ WriteNext(m) \/ WriteLast(m)
    /\ turn' = IF ~Casting(m)' /\ turn[m] = "failed" THEN [turn EXCEPT ![m] = "done"] ELSE turn
    /\ UNCHANGED told /\ TurnStep

\* _handle's except, or that of the apology.
FrameRaises(m) ==
    /\ WriteRaises(m)
    /\ turn' = [turn EXCEPT ![m] = IF @ = "agent" THEN "failed" ELSE "done"]
    /\ UNCHANGED told /\ TurnStep

Apologise(m) ==
    /\ turn[m] = "failed" /\ ~Casting(m)
    /\ source[m] = Web => Broadcast(m, Apology)
    /\ source[m] # Web => NoFrame
    /\ turn' = IF Casting(m)' THEN turn ELSE [turn EXCEPT ![m] = "done"]
    /\ UNCHANGED told /\ TurnStep

ApologyTimesOut(m) ==
    /\ turn[m] = "failed" /\ WriteCancelled(m)
    /\ turn' = [turn EXCEPT ![m] = "done"]
    /\ UNCHANGED told /\ TurnStep

-----------------------------------------------------------------------------
Quiescent ==
    /\ host = "off" /\ starts = bound.starts
    /\ UNCHANGED vars

HostStep ==
    \/ Start \/ StartupHooks \/ Open \/ OpenRaises \/ Build
    \/ CronEnter \/ CronStart \/ Interrupt
    \/ \E c \in Channels : ChannelFails(c) \/ ChannelReturns(c)
    \/ \E c \in Channels : ChannelStopped(c)
    \/ CloseSockets
    \/ \E m \in Messages : WorkerFails(m)
    \/ CronDeregister \/ CronStop \/ Close \/ Unwound \/ ShutdownHooks \/ Die

ClientStep ==
    \E c \in Clients :
        \/ Connect(c) \/ Say(c) \/ Disconnect(c) \/ HandlerEnds(c)
        \/ \E anew \in BOOLEAN : Talk(c, anew)

TurnSteps ==
    \E m \in Messages :
        \/ Take(m) \/ NextFrame(m) \/ EndTurn(m) \/ AgentRaises(m)
        \/ FrameWritten(m) \/ FrameRaises(m) \/ Apologise(m) \/ ApologyTimesOut(m)

Next ==
    \/ HostStep \/ ClientStep \/ TurnSteps \/ Broker \/ Beat
    \/ \E c \in Channels : Receive(c)
    \/ Quiescent

Spec == Init /\ [][Next]_vars

\* Awaits of the shutdown return, and a handler whose socket is closed ends.
FairSpec ==
    /\ Spec
    /\ \A c \in Channels : WF_vars(ChannelStopped(c))
    /\ \A c \in Clients : WF_vars(c \notin online /\ HandlerEnds(c))
    /\ WF_vars(CloseSockets)
    /\ WF_vars(CronDeregister) /\ WF_vars(CronStop)
    /\ WF_vars(Close) /\ WF_vars(Unwound) /\ WF_vars(ShutdownHooks)

-----------------------------------------------------------------------------
\* Channels, the worker and the scheduler live within the resources that they
\* use, and the scheduler outlives the group; a process that has ended by itself
\* has left nothing open, but for a scheduler whose start raised.
Nested ==
    /\ (worker \/ cron = "on" \/ \E c \in Channels : chan[c] \in {"running", "stopping"})
          => depth = Len(Stack) /\ bus = "open"
    /\ (worker \/ \E c \in Channels : chan[c] \in {"running", "stopping"}) => cron = "on"
    /\ host = "off" =>
          /\ depth = 0 /\ bus # "open" /\ ~worker /\ cron \in {"off", "entered"}
          /\ conns = {} /\ Running = {}
          /\ \A c \in Channels : chan[c] \in {"idle", "stopped"}

\* A client that was there for the whole of a turn has its answer from the
\* first chunk to the end of the stream, or a beginning of it and an apology,
\* unless an interruption hit the apology, or one client came while another
\* went during a write.
WholeOrApology ==
    \A m \in Messages \ torn : \A c \in steady[m] :
        turn[m] = "done" =>
            \/ seen[c][m] = Frames(End)
            \/ \E n \in 0 .. End : seen[c][m] = Append(Frames(n), Apology)

\* Once it has begun, the shutdown ends, and the channels have been stopped.
ShutdownCompletes ==
    host \in {"stopping", "unwinding", "after"} ~> host = "off"
=============================================================================
