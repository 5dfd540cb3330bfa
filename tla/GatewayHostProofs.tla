------------------------- MODULE GatewayHostProofs -------------------------
(***************************************************************************)
(* What TLC checks of GatewayHost in five deployments, proved for every    *)
(* transport and any number of messages, clients, channels, conditions and *)
(* failures: the bus and the process first, then the heartbeat, the live   *)
(* connections, and the answers that are broadcast to them.                *)
(***************************************************************************)
EXTENDS GatewayHost, SequenceTheorems, FiniteSetTheorems, TLAPS

-----------------------------------------------------------------------------
\* The bus.  Whatever is behind it has been handed to a task or dropped with a
\* reason: what is gone, what waits for its acknowledgement, and what the group
\* has committed, of which a new consumer will hear nothing.
Done(m) == handed[m] > 0 \/ dropped[m] # "no"

HeldIsRabbits == backend # "rabbitmq" => held = 0

\* An attached consumer has taken all up to a position, and nothing beyond it.
ReadsInOrder == (backend = "kafka" /\ attached) => \E p \in 0 .. last : gone = 1 .. p

BusInv ==
    /\ BusTypeOK
    /\ \A m \in gone : Done(m)
    /\ held # 0 => handed[held] > 0
    /\ \A m \in 1 .. committed : Done(m)
    /\ HeldIsRabbits
    /\ ReadsInOrder

\* What a step of the host, of a broker or of a publisher does to the bus.
BusStep ==
    \/ BusStart \/ BusStop \/ BusDies
    \/ Attach \/ Acknowledge \/ AutoCommit
    \/ last < MaxMessages /\ Publish
    \/ \E m \in Messages : Yield(m) \/ YieldRaises(m)

LEMMA BusInitInv == BusInit => BusInv
<1> SUFFICES ASSUME BusInit PROVE BusInv
  OBVIOUS
<1>1. BusTypeOK
  <2>1. last \in 0 .. MaxMessages /\ gone \subseteq 1 .. last /\ held \in 0 .. last
    BY MessageBusAssumption DEF BusInit
  <2>2. handed \in [Messages -> Nat] /\ dropped \in [Messages -> Reasons \cup {"no"}]
    BY DEF BusInit
  <2> QED
    BY <2>1, <2>2 DEF BusInit, BusTypeOK
<1>2. 1 .. committed = {}
  BY DEF BusInit, NoOffset
<1> QED
  BY <1>1, <1>2 DEF BusInit, BusInv, HeldIsRabbits, ReadsInOrder

\* What is accounted for stays so.
LEMMA DropKeeps ==
    ASSUME BusTypeOK, NEW ms \in SUBSET Messages, NEW why \in Reasons, Drop(ms, why)
    PROVE  /\ dropped' \in [Messages -> Reasons \cup {"no"}]
           /\ \A m \in Messages : dropped[m] # "no" => dropped'[m] # "no"
           /\ \A m \in ms : handed[m] > 0 \/ dropped'[m] # "no"
  BY DEF BusTypeOK, Drop, Reasons

LEMMA MessagesBelow == ASSUME BusTypeOK PROVE 1 .. last \subseteq Messages
  BY MessageBusAssumption DEF BusTypeOK, Messages

LEMMA StartKeeps == BusInv /\ BusStart => BusInv'
<1> SUFFICES ASSUME BusInv, BusStart PROVE BusInv'
  OBVIOUS
<1> QED
  BY DEF BusInv, BusTypeOK, BusStart, QueueStart, KafkaStart, HeldIsRabbits, ReadsInOrder, Done

LEMMA PublishKeeps == BusInv /\ last < MaxMessages /\ Publish => BusInv'
<1> SUFFICES ASSUME BusInv, last < MaxMessages, Publish PROVE BusInv'
  OBVIOUS
<1>1. last \in Nat /\ last' = last + 1 /\ last' \in Messages
  BY MessageBusAssumption DEF BusInv, BusTypeOK, Publish, Messages
<1>2. /\ dropped' \in [Messages -> Reasons \cup {"no"}]
      /\ \A m \in Messages : dropped[m] # "no" => dropped'[m] # "no"
      /\ gone' \subseteq 1 .. last'
      /\ \A m \in gone' : m \in gone \/ dropped'[m] # "no"
  <2>1. CASE backend = "asyncio" /\ bus = "closed"
    <3>1. gone' = gone \cup {last'} /\ dropped' = [dropped EXCEPT ![last'] = "unheard"]
      BY <2>1 DEF Publish
    <3>2. dropped' \in [Messages -> Reasons \cup {"no"}]
      BY <1>1, <3>1 DEF BusInv, BusTypeOK, Reasons
    <3>3. \A m \in Messages : dropped[m] # "no" => dropped'[m] # "no"
      BY <1>1, <3>1 DEF BusInv, BusTypeOK
    <3>4. dropped'[last'] = "unheard"
      BY <1>1, <3>1 DEF BusInv, BusTypeOK
    <3> QED
      BY <1>1, <3>1, <3>2, <3>3, <3>4 DEF BusInv, BusTypeOK
  <2>2. CASE ~(backend = "asyncio" /\ bus = "closed")
    <3>1. gone' = gone /\ dropped' = dropped
      BY <2>2 DEF Publish
    <3> QED
      BY <1>1, <3>1 DEF BusInv, BusTypeOK
  <2> QED
    BY <2>1, <2>2
<1>3. BusTypeOK'
  BY <1>1, <1>2, MessageBusAssumption DEF BusInv, BusTypeOK, Publish, Messages, NoOffset
<1>4. \A m \in Messages : Done(m) => Done(m)'
  BY <1>2 DEF Publish, Done
<1>5. \A m \in gone' : Done(m)'
  BY <1>1, <1>2, <1>4, MessagesBelow DEF BusInv, Done
<1>6. \A m \in 1 .. committed' : Done(m)'
  <2>1. 1 .. committed \subseteq Messages
    BY MessageBusAssumption DEF BusInv, BusTypeOK, Messages, NoOffset
  <2> QED
    BY <2>1, <1>4 DEF BusInv, Publish
<1>7. ReadsInOrder'
  BY <1>1 DEF BusInv, ReadsInOrder, Publish
<1> QED
  BY <1>3, <1>5, <1>6, <1>7 DEF BusInv, HeldIsRabbits, Publish

\* A consumer that attaches is behind what was committed, or behind everything.
LEMMA AttachKeeps == BusInv /\ Attach => BusInv'
<1> SUFFICES ASSUME BusInv, Attach PROVE BusInv'
  OBVIOUS
<1>1. 1 .. last \subseteq Messages /\ last \in Nat
  BY MessagesBelow, MessageBusAssumption DEF BusInv, BusTypeOK
<1>2. CASE committed = NoOffset
  <2>1. gone' = 1 .. last /\ Drop(1 .. last, "skipped")
    BY <1>2 DEF Attach
  <2>2. /\ dropped' \in [Messages -> Reasons \cup {"no"}]
        /\ \A m \in 1 .. last : handed[m] > 0 \/ dropped'[m] # "no"
    <3>1. "skipped" \in Reasons
      BY DEF Reasons
    <3> QED
      BY <1>1, <2>1, <3>1, DropKeeps DEF BusInv
  <2>3. BusTypeOK'
    BY <1>1, <2>1, <2>2 DEF BusInv, BusTypeOK, Attach
  <2>4. 1 .. committed' = {}
    BY <1>2 DEF Attach, NoOffset
  <2>5. ReadsInOrder'
    BY <1>1, <2>1 DEF ReadsInOrder, Attach
  <2> QED
    BY <2>1, <2>2, <2>3, <2>4, <2>5 DEF BusInv, HeldIsRabbits, Done, Attach
<1>3. CASE committed # NoOffset
  <2>1. gone' = 1 .. committed /\ dropped' = dropped /\ committed \in 0 .. last
    BY <1>3 DEF Attach, BusInv, BusTypeOK
  <2>2. BusTypeOK'
    BY <1>1, <2>1 DEF BusInv, BusTypeOK, Attach
  <2>3. ReadsInOrder'
    BY <1>1, <2>1 DEF ReadsInOrder, Attach
  <2> QED
    BY <2>1, <2>2, <2>3 DEF BusInv, HeldIsRabbits, Done, Attach
<1> QED
  BY <1>2, <1>3

\* The oldest that waits is right behind what a consumer has taken.
LEMMA OldestIsNext ==
    ASSUME BusInv, NEW m \in Messages, Oldest(m)
    PROVE  /\ m \in 1 .. last /\ m \notin gone /\ held = 0 /\ attached
           /\ backend = "kafka" => \E p \in 0 .. last : gone \cup {m} = 1 .. p
<1>1. m \in 1 .. last /\ m \notin gone /\ held = 0 /\ attached /\ last \in Nat
  BY MessageBusAssumption DEF Oldest, Waiting, BusInv, BusTypeOK
<1>2. ASSUME backend = "kafka"
      PROVE  \E p \in 0 .. last : gone \cup {m} = 1 .. p
  <2>1. PICK p \in 0 .. last : gone = 1 .. p
    BY <1>1, <1>2 DEF BusInv, ReadsInOrder
  <2>2. m = p + 1
    <3>1. m > p
      BY <1>1, <2>1
    <3>2. p + 1 \in 1 .. last /\ p + 1 \notin gone
      BY <1>1, <2>1, <3>1
    <3>3. p + 1 \in Waiting
      BY <1>1, <3>2 DEF Waiting
    <3> QED
      BY <1>1, <3>1, <3>3 DEF Oldest
  <2>3. gone \cup {m} = 1 .. m
    BY <1>1, <2>1, <2>2
  <2> QED
    BY <1>1, <2>3
<1> QED
  BY <1>1, <1>2

LEMMA YieldKeeps == ASSUME BusInv, NEW m \in Messages, Yield(m) PROVE BusInv'
<1>1. /\ m \in 1 .. last /\ last \in Nat /\ held = 0 /\ attached
      /\ backend = "kafka" => \E p \in 0 .. last : gone \cup {m} = 1 .. p
  BY OldestIsNext, MessageBusAssumption DEF Yield, BusInv, BusTypeOK
<1>2. /\ handed' \in [Messages -> Nat] /\ handed'[m] > 0
      /\ \A n \in Messages : handed[n] > 0 => handed'[n] > 0
  BY DEF Yield, BusInv, BusTypeOK
<1>3. \A n \in Messages : Done(n) => Done(n)'
  BY <1>2 DEF Done, Yield
<1>4. \/ backend # "rabbitmq" /\ gone' = gone \cup {m} /\ held' = held
      \/ backend = "rabbitmq" /\ gone' = gone /\ held' = m
  BY DEF Yield, AsyncioYield, RabbitYield, KafkaYield
<1>5. BusTypeOK'
  <2>1. gone' \subseteq 1 .. last /\ held' \in 0 .. last
    <3>1. gone \subseteq 1 .. last /\ held \in 0 .. last /\ m \in 1 .. last
      BY <1>1 DEF BusInv, BusTypeOK
    <3>2. 1 .. last \subseteq 0 .. last
      BY <1>1
    <3> QED
      BY <1>4, <3>1, <3>2
  <2>2. handed' \in [Messages -> Nat]
    BY <1>2
  <2>3. UNCHANGED <<backend, bus, last, committed, attached, dropped>>
    BY DEF Yield
  <2> QED
    BY <2>1, <2>2, <2>3 DEF BusInv, BusTypeOK
<1>6. gone \subseteq Messages /\ 1 .. committed \subseteq Messages
  BY MessageBusAssumption DEF BusInv, BusTypeOK, Messages, NoOffset
<1>7. \A n \in gone' : Done(n)'
  BY <1>2, <1>3, <1>4, <1>6 DEF BusInv, Done
<1>8. \A n \in 1 .. committed' : Done(n)'
  BY <1>3, <1>6 DEF BusInv, Yield
<1>9. held' # 0 => handed'[held'] > 0
  BY <1>1, <1>2, <1>4
<1>10. HeldIsRabbits' /\ ReadsInOrder'
  BY <1>1, <1>4 DEF HeldIsRabbits, ReadsInOrder, Yield
<1> QED
  BY <1>5, <1>7, <1>8, <1>9, <1>10 DEF BusInv

LEMMA RaiseKeeps == ASSUME BusInv, NEW m \in Messages, YieldRaises(m) PROVE BusInv'
<1>1. /\ m \in 1 .. last /\ last \in Nat /\ held = 0 /\ attached
      /\ backend = "kafka" => \E p \in 0 .. last : gone \cup {m} = 1 .. p
  BY OldestIsNext, MessageBusAssumption DEF YieldRaises, BusInv, BusTypeOK
<1>2. /\ dropped' \in [Messages -> Reasons \cup {"no"}]
      /\ \A n \in Messages : dropped[n] # "no" => dropped'[n] # "no"
      /\ handed[m] > 0 \/ dropped'[m] # "no"
  <2>1. "undecodable" \in Reasons /\ Drop({m}, "undecodable") /\ {m} \in SUBSET Messages
    BY DEF Reasons, YieldRaises
  <2> QED
    BY <2>1, DropKeeps DEF BusInv
<1>3. \A n \in Messages : Done(n) => Done(n)'
  BY <1>2 DEF Done, YieldRaises
<1>4. gone' = gone \cup {m}
  BY DEF YieldRaises
<1>5. BusTypeOK'
  <2>1. gone' \subseteq 1 .. last'
    BY <1>1, <1>4 DEF BusInv, BusTypeOK, YieldRaises
  <2>2. dropped' \in [Messages -> Reasons \cup {"no"}]
    BY <1>2
  <2>3. UNCHANGED <<backend, bus, last, held, committed, attached, handed>>
    BY DEF YieldRaises
  <2> QED
    BY <2>1, <2>2, <2>3 DEF BusInv, BusTypeOK
<1>6. gone \subseteq Messages /\ 1 .. committed \subseteq Messages
  BY MessageBusAssumption DEF BusInv, BusTypeOK, Messages, NoOffset
<1>7. \A n \in gone' : Done(n)'
  BY <1>2, <1>3, <1>4, <1>6 DEF BusInv, Done, YieldRaises
<1>8. \A n \in 1 .. committed' : Done(n)'
  BY <1>3, <1>6 DEF BusInv, YieldRaises
<1>10. HeldIsRabbits' /\ ReadsInOrder'
  BY <1>1, <1>4 DEF BusInv, HeldIsRabbits, ReadsInOrder, YieldRaises
<1> QED
  BY <1>1, <1>5, <1>7, <1>8, <1>10 DEF BusInv, YieldRaises

LEMMA AcknowledgeKeeps == BusInv /\ Acknowledge => BusInv'
<1> SUFFICES ASSUME BusInv, Acknowledge PROVE BusInv'
  OBVIOUS
<1>1. last \in Nat /\ held \in 1 .. last /\ backend = "rabbitmq"
  BY MessageBusAssumption DEF BusInv, BusTypeOK, HeldIsRabbits, Acknowledge
<1>2. BusTypeOK'
  BY <1>1 DEF BusInv, BusTypeOK, Acknowledge
<1> QED
  BY <1>1, <1>2 DEF BusInv, HeldIsRabbits, ReadsInOrder, Done, Acknowledge

LEMMA PositionIsRead ==
    ASSUME BusInv, backend = "kafka", attached
    PROVE  Position \in 0 .. last /\ gone = 1 .. Position
<1>1. \E p \in 0 .. last : gone = 1 .. p
  BY DEF BusInv, ReadsInOrder
<1> QED
  BY <1>1 DEF Position

LEMMA CommitKeeps == BusInv /\ AutoCommit => BusInv'
<1> SUFFICES ASSUME BusInv, AutoCommit PROVE BusInv'
  OBVIOUS
<1>1. Position \in 0 .. last /\ gone = 1 .. Position
  BY PositionIsRead DEF AutoCommit
<1>2. BusTypeOK'
  BY <1>1 DEF BusInv, BusTypeOK, AutoCommit
<1> QED
  BY <1>1, <1>2 DEF BusInv, HeldIsRabbits, ReadsInOrder, Done, AutoCommit

\* Both ways in which asyncio's queue goes: all that waits is dropped.
LEMMA QueueIsLost ==
    ASSUME BusInv, NEW why \in Reasons, backend = "asyncio",
           gone' = 1 .. last, Drop(Waiting, why), handed' = handed, last' = last
    PROVE  /\ dropped' \in [Messages -> Reasons \cup {"no"}]
           /\ gone' \subseteq 1 .. last'
           /\ \A m \in gone' : Done(m)'
           /\ \A m \in Messages : Done(m) => Done(m)'
<1>1. 1 .. last \subseteq Messages /\ Waiting \in SUBSET Messages /\ held = 0
  BY MessagesBelow DEF BusInv, Waiting, HeldIsRabbits
<1>2. /\ dropped' \in [Messages -> Reasons \cup {"no"}]
      /\ \A m \in Messages : dropped[m] # "no" => dropped'[m] # "no"
      /\ \A m \in Waiting : handed[m] > 0 \/ dropped'[m] # "no"
  BY <1>1, DropKeeps DEF BusInv
<1>3. \A m \in 1 .. last : m \in Waiting \/ m \in gone
  BY <1>1, MessageBusAssumption DEF Waiting, BusInv, BusTypeOK
<1> QED
  BY <1>1, <1>2, <1>3 DEF BusInv, Done

LEMMA EndKeeps ==
    ASSUME BusInv, bus' \in {"new", "open", "closed"},
           UNCHANGED <<backend, last, attached, handed>>,
           held' = 0 \/ held' = held,
           committed' = committed \/ (backend = "kafka" /\ attached /\ committed' = Position),
           \/ UNCHANGED <<gone, dropped>>
           \/ /\ backend = "asyncio" /\ gone' = 1 .. last
              /\ \E why \in Reasons : Drop(Waiting, why)
    PROVE  BusInv'
<1>1. /\ dropped' \in [Messages -> Reasons \cup {"no"}]
      /\ gone' \subseteq 1 .. last'
      /\ \A m \in gone' : Done(m)'
      /\ \A m \in Messages : Done(m) => Done(m)'
  <2>1. CASE UNCHANGED <<gone, dropped>>
    <3>1. dropped' = dropped /\ gone' = gone /\ last' = last /\ handed' = handed
      BY <2>1
    <3>2. \A m \in gone : Done(m)
      BY DEF BusInv
    <3> QED
      BY <3>1, <3>2 DEF BusInv, BusTypeOK, Done
  <2>2. CASE /\ backend = "asyncio" /\ gone' = 1 .. last
             /\ \E why \in Reasons : Drop(Waiting, why)
    <3>1. PICK why \in Reasons : Drop(Waiting, why)
      BY <2>2
    <3>2. handed' = handed /\ last' = last
      OBVIOUS
    <3> HIDE DEF Waiting, Reasons
    <3> QED
      BY <2>2, <3>1, <3>2, QueueIsLost
  <2> QED
    BY <2>1, <2>2
<1>2. /\ committed' \in {NoOffset} \cup 0 .. last'
      /\ \A m \in 1 .. committed' : Done(m)'
  <2>1. CASE committed' = committed
    <3>1. 1 .. committed \subseteq Messages
      BY MessageBusAssumption DEF BusInv, BusTypeOK, Messages, NoOffset
    <3> QED
      BY <1>1, <2>1, <3>1 DEF BusInv, BusTypeOK
  <2>2. CASE backend = "kafka" /\ attached /\ committed' = Position
    <3>1. Position \in 0 .. last /\ gone = 1 .. Position
      BY <2>2, PositionIsRead
    <3>2. gone' = gone
      BY <2>2
    <3> QED
      BY <1>1, <2>2, <3>1, <3>2
  <2> QED
    BY <2>1, <2>2
<1>3. held' \in 0 .. last' /\ (held' # 0 => handed'[held'] > 0)
  BY MessageBusAssumption DEF BusInv, BusTypeOK
<1>4. BusTypeOK'
  BY <1>1, <1>2, <1>3 DEF BusInv, BusTypeOK
<1>5. HeldIsRabbits' /\ ReadsInOrder'
  BY DEF BusInv, HeldIsRabbits, ReadsInOrder
<1> QED
  BY <1>1, <1>2, <1>3, <1>4, <1>5 DEF BusInv

LEMMA StopKeeps == BusInv /\ (BusStop \/ BusDies) => BusInv'
<1>1. ASSUME BusInv, BusStop PROVE BusInv'
  <2>1. "drained" \in Reasons
    BY DEF Reasons
  <2>2. CASE AsyncioStop
    BY <1>1, <2>1, <2>2, EndKeeps DEF BusStop, AsyncioStop
  <2>3. CASE RabbitStop
    BY <1>1, <2>3, EndKeeps DEF BusStop, RabbitStop
  <2>4. CASE KafkaStop
    BY <1>1, <2>4, EndKeeps DEF BusStop, KafkaStop
  <2> QED
    BY <1>1, <2>2, <2>3, <2>4 DEF BusStop
<1>2. ASSUME BusInv, BusDies PROVE BusInv'
  <2>1. "died" \in Reasons /\ bus' \in {"new", "open", "closed"}
    BY <1>2 DEF Reasons, BusDies
  <2> QED
    BY <1>2, <2>1, EndKeeps DEF BusDies
<1> QED
  BY <1>1, <1>2

LEMMA BusStepKeeps == BusInv /\ (BusStep \/ UNCHANGED busVars) => BusInv'
<1> SUFFICES ASSUME BusInv, BusStep \/ UNCHANGED busVars PROVE BusInv'
  OBVIOUS
<1>1. CASE UNCHANGED busVars
  BY <1>1 DEF busVars, BusInv, BusTypeOK, HeldIsRabbits, ReadsInOrder, Done
<1>2. CASE BusStep
  BY <1>2, StartKeeps, StopKeeps, AttachKeeps, AcknowledgeKeeps, CommitKeeps, PublishKeeps,
     YieldKeeps, RaiseKeeps DEF BusStep
<1> QED
  BY <1>1, <1>2

-----------------------------------------------------------------------------
\* The host.  Where it is tells what it holds: the stack, the group of channels
\* and worker, the scheduler; and nobody is connected to a channel that is not up.
Settled(c) == chan[c] \in {"idle", "stopped"}

HostParts ==
    /\ bound \in Instances
    /\ host \in HostStates
    /\ depth \in 0 .. Len(Stack)
    /\ chan \in [Channels -> {"idle", "running", "stopping", "stopped"}]
    /\ worker \in BOOLEAN
    /\ cron \in {"off", "entered", "on", "deregistered"}

Resources ==
    /\ bus = "open" <=> depth > 0
    /\ host \in {"off", "hooks", "after"} => depth = 0
    /\ host = "opening" => depth < Len(Stack)
    /\ host \in {"building", "starting", "serving", "stopping"} => depth = Len(Stack)

Group ==
    /\ worker => host = "serving"
    /\ \A c \in Channels : chan[c] = "running" => host = "serving"
    /\ \A c \in Channels : chan[c] = "stopping" => host \in {"serving", "stopping"}

Scheduler ==
    /\ host = "serving" => cron = "on"
    /\ host = "stopping" => cron \in {"on", "deregistered"}
    /\ cron = "on" => host \in {"serving", "stopping"}
    /\ cron = "deregistered" => host = "stopping" /\ GroupOver

Guests ==
    /\ Settled(Web) => conns = {}
    /\ host \in {"off", "hooks", "opening", "building", "starting"} => Running = {}

HostInv == HostParts /\ Resources /\ Group /\ Scheduler /\ Guests

LEMMA StackShape ==
    ASSUME bound \in Instances
    PROVE  /\ Len(Stack) \in {2, 3}
           /\ Stack[1] = "bus"
           /\ \A i \in 2 .. Len(Stack) : Stack[i] # "bus"
<1>1. CASE bound.durable
  BY <1>1 DEF Stack
<1>2. CASE ~bound.durable
  BY <1>2 DEF Stack
<1> QED
  BY <1>1, <1>2

LEMMA HostInit == Init => HostInv
<1> SUFFICES ASSUME Init PROVE HostInv
  OBVIOUS
<1>1. Len(Stack) \in {2, 3} /\ bound \in Instances
  BY StackShape DEF Init
<1>2. HostParts
  <2>1. chan \in [Channels -> {"idle", "running", "stopping", "stopped"}]
    BY DEF Init
  <2>2. depth \in 0 .. Len(Stack)
    BY <1>1 DEF Init
  <2> QED
    BY <1>1, <2>1, <2>2 DEF Init, HostParts, HostStates
<1>3. Resources /\ Scheduler
  BY DEF Init, BusInit, Resources, Scheduler
<1>4. Group
  BY DEF Init, Group
<1>5. Guests
  BY DEF Init, ClientsInit, Guests, Running
<1> QED
  BY <1>2, <1>3, <1>4, <1>5 DEF HostInv

\* What everybody else does leaves the host where it is.
Visit ==
    /\ UNCHANGED <<hostVars, bound, bus>>
    /\ conns' \subseteq conns \/ chan[Web] = "running"
    /\ Running' \subseteq Running \/ worker

LEMMA VisitKeeps == HostInv /\ Visit => HostInv'
<1> SUFFICES ASSUME HostInv, Visit PROVE HostInv'
  OBVIOUS
<1>1. UNCHANGED <<host, depth, chan, worker, cron, bound, bus>> /\ Stack' = Stack
  BY DEF Visit, hostVars, Stack
<1>2. HostParts' /\ Resources' /\ Group'
  BY <1>1 DEF HostInv, HostParts, Resources, Group, Channels
<1>3. Scheduler'
  BY <1>1 DEF HostInv, Scheduler, GroupOver, Channels
<1>4. (Settled(Web) => conns = {})'
  BY <1>1 DEF HostInv, Guests, Settled, Visit
<1>5. host \in {"off", "hooks", "opening", "building", "starting"} => Running' = {}
  BY DEF HostInv, Guests, Group, Visit
<1> QED
  BY <1>1, <1>2, <1>3, <1>4, <1>5 DEF HostInv, Guests

\* No step of a turn but its first makes a task.
LEMMA TurnsEnd ==
    ASSUME NEW m \in Messages, NEW s \in {"agent", "failed", "done"},
           turn' = [turn EXCEPT ![m] = s], s = "done" \/ turn[m] \in {"agent", "failed"}
    PROVE  Running' \subseteq Running
  BY DEF Running

LEMMA TurnsVisit == HostInv /\ TurnSteps => Visit
<1> SUFFICES ASSUME NEW m \in Messages,
                    \/ Take(m) \/ NextFrame(m) \/ EndTurn(m) \/ AgentRaises(m)
                    \/ FrameWritten(m) \/ FrameRaises(m) \/ Apologise(m) \/ ApologyTimesOut(m)
             PROVE  Visit
  BY DEF TurnSteps
<1> USE DEF Visit, hostVars
<1>1. CASE Take(m)
  BY <1>1 DEF Take, Yield, bounds
<1>2. CASE NextFrame(m)
  BY <1>2 DEF NextFrame, TurnStep, Broadcast, Begin, NoFrame, clientVars, busVars, bounds, Running
<1>3. CASE EndTurn(m)
  BY <1>3, TurnsEnd DEF EndTurn, TurnStep, NoFrame, clientVars, busVars, bounds
<1>4. CASE AgentRaises(m)
  BY <1>4, TurnsEnd DEF AgentRaises, NoFrame, clientVars, busVars
<1>5. CASE FrameWritten(m)
  <2>1. conns' \subseteq conns
    BY <1>5 DEF FrameWritten, WriteNext, WriteLast
  <2>2. Running' \subseteq Running
    BY <1>5, TurnsEnd DEF FrameWritten, Running
  <2> QED
    BY <1>5, <2>1, <2>2 DEF FrameWritten, TurnStep, busVars, bounds
<1>6. CASE FrameRaises(m)
  <2>1. Running' \subseteq Running
    BY <1>6 DEF FrameRaises, Running
  <2> QED
    BY <1>6, <2>1 DEF FrameRaises, WriteRaises, TurnStep, busVars, bounds
<1>7. CASE Apologise(m)
  <2>1. Running' \subseteq Running
    BY <1>7 DEF Apologise, Running
  <2>2. conns' = conns
    BY <1>7 DEF Apologise, Broadcast, Begin, NoFrame, clientVars
  <2> QED
    BY <1>7, <2>1, <2>2 DEF Apologise, TurnStep, busVars, bounds
<1>8. CASE ApologyTimesOut(m)
  BY <1>8, TurnsEnd DEF ApologyTimesOut, WriteCancelled, TurnStep, busVars, bounds
<1> QED
  BY <1>1, <1>2, <1>3, <1>4, <1>5, <1>6, <1>7, <1>8

LEMMA OthersVisit ==
    ClientStep \/ Broker \/ Beat \/ (\E c \in Channels : Receive(c)) \/ Quiescent \/ UNCHANGED vars
        => Visit
<1> USE DEF Visit, hostVars
<1>1. ASSUME UNCHANGED vars PROVE Visit
  BY <1>1 DEF vars, busVars, clientVars, turnVars, bounds, Running
<1>2. ASSUME NEW c \in Channels, Published(c), conns' = conns PROVE Visit
  BY <1>2 DEF Published, Publish, bounds, Running
<1>3. ASSUME ClientStep PROVE Visit
  <2>1. PICK c \in Clients :
            \/ Connect(c) \/ Say(c) \/ Disconnect(c) \/ HandlerEnds(c)
            \/ \E anew \in BOOLEAN : Talk(c, anew)
    BY <1>3 DEF ClientStep
  <2>2. CASE Connect(c)
    BY <2>2 DEF Connect, busVars, turnVars, Running
  <2>3. CASE Say(c)
    BY <1>2, <2>3 DEF Say, Speak, Channels, Web
  <2>4. CASE Disconnect(c)
    BY <2>4 DEF Disconnect, HangUp, busVars, turnVars, bounds, Running
  <2>5. CASE HandlerEnds(c)
    BY <2>5 DEF HandlerEnds, Leave, busVars, turnVars, bounds, Running
  <2>6. CASE \E anew \in BOOLEAN : Talk(c, anew)
    BY <2>6 DEF Talk, Speak, busVars, turnVars, bounds, Running
  <2> QED
    BY <2>1, <2>2, <2>3, <2>4, <2>5, <2>6
<1>4. ASSUME Broker PROVE Visit
  BY <1>4 DEF Broker, Attach, Acknowledge, AutoCommit, clientVars, turnVars, bounds, Running
<1>5. ASSUME Beat PROVE Visit
  <2>1. CASE NothingElse
    BY <2>1 DEF NothingElse, busVars, clientVars, turnVars, bounds, Running
  <2>2. CASE \E k \in Conditions : BeatFires(k)
    BY <1>2, <2>2 DEF BeatFires, clientVars
  <2> QED
    BY <1>5, <2>1, <2>2 DEF Beat
<1>6. ASSUME NEW c \in Channels, Receive(c) PROVE Visit
  BY <1>2, <1>6 DEF Receive, clientVars
<1> QED
  BY <1>1, <1>3, <1>4, <1>5, <1>6 DEF Quiescent

LEMMA HostStepKeeps == HostInv /\ HostStep => HostInv'
<1> SUFFICES ASSUME HostInv, HostStep PROVE HostInv'
  OBVIOUS
<1> USE DEF HostInv, HostParts, HostStates, Resources, Group, Scheduler, Guests
<1>1. bound' = bound /\ Stack' = Stack
  BY DEF HostStep, Start, StartupHooks, Open, OpenRaises, Build, CronEnter, CronStart, Interrupt,
     ChannelFails, ChannelReturns, ChannelStopped, CloseSockets, WorkerFails, CronDeregister,
     CronStop, Close, Unwound, ShutdownHooks, Die, HostOnly, bounds, Stack
<1>2. Len(Stack) \in {2, 3} /\ Stack[1] = "bus" /\ \A i \in 2 .. Len(Stack) : Stack[i] # "bus"
  BY StackShape
<1>3. CASE Start
  <2>1. HostParts'
    BY <1>1, <1>2, <1>3 DEF Start, HostOnly, busVars, Channels, Web
  <2>2. Resources'
    BY <1>1, <1>2, <1>3 DEF Start, HostOnly, busVars
  <2>3. Group' /\ Scheduler'
    BY <1>3 DEF Start, HostOnly, busVars, GroupOver, Channels, Web
  <2>4. Guests'
    BY <1>3 DEF Start, HostOnly, busVars, clientVars, turnVars, Running, Settled, Channels, Web
  <2> QED
    BY <2>1, <2>2, <2>3, <2>4
<1>4. CASE StartupHooks
  BY <1>1, <1>2, <1>4 DEF StartupHooks, busVars, clientVars, turnVars, Running, GroupOver, Settled
<1>5. CASE Open
  <2>1. /\ depth' = depth + 1 /\ bus' = "open"
        /\ host' = IF depth' = Len(Stack) THEN "building" ELSE "opening"
        /\ UNCHANGED <<chan, worker, cron, conns, turn>>
    BY <1>1, <1>2, <1>5 DEF Open, Enter, BusStart, HostOnly, busVars, clientVars, turnVars
  <2> QED
    BY <1>1, <1>2, <1>5, <2>1 DEF Open, Running, GroupOver, Settled
<1>6. CASE OpenRaises
  BY <1>1, <1>2, <1>6 DEF OpenRaises, HostOnly, busVars, clientVars, turnVars, Running, GroupOver, Settled
<1>7. CASE Build
  BY <1>1, <1>2, <1>7 DEF Build, HostOnly, busVars, clientVars, turnVars, Running, GroupOver, Settled
<1>8. CASE CronEnter
  BY <1>1, <1>2, <1>8 DEF CronEnter, HostOnly, busVars, clientVars, turnVars, Running, GroupOver, Settled
<1>9. CASE CronStart
  <2>1. HostParts'
    BY <1>1, <1>2, <1>9 DEF CronStart, HostOnly, busVars, Channels, Web
  <2>2. Resources'
    BY <1>1, <1>2, <1>9 DEF CronStart, HostOnly, busVars
  <2>3. Group' /\ Scheduler'
    BY <1>9 DEF CronStart, HostOnly, busVars, GroupOver, Channels, Web
  <2>4. Guests'
    BY <1>9 DEF CronStart, HostOnly, busVars, clientVars, turnVars, Running, Settled, Channels, Web
  <2> QED
    BY <2>1, <2>2, <2>3, <2>4
<1>10. CASE Interrupt
  <2>1. HostParts'
    BY <1>1, <1>2, <1>10 DEF Interrupt, CancelGroup, HostOnly, busVars, Channels, Web
  <2>2. Resources'
    BY <1>1, <1>2, <1>10 DEF Interrupt, CancelGroup, HostOnly, busVars
  <2>3. Group' /\ Scheduler'
    BY <1>10 DEF Interrupt, CancelGroup, HostOnly, busVars, GroupOver, Channels, Web
  <2>4. Guests'
    BY <1>10 DEF Interrupt, CancelGroup, HostOnly, busVars, clientVars, turnVars, Running, Settled, Channels, Web
  <2> QED
    BY <2>1, <2>2, <2>3, <2>4
<1>11. ASSUME NEW c \in Channels, ChannelFails(c) PROVE HostInv'
  BY <1>1, <1>2, <1>11 DEF ChannelFails, CancelGroup, HostOnly, busVars, clientVars, turnVars, Running, GroupOver, Settled, Channels, Web
<1>12. ASSUME NEW c \in Channels, ChannelReturns(c) PROVE HostInv'
  BY <1>1, <1>2, <1>12 DEF ChannelReturns, HostOnly, busVars, clientVars, turnVars, Running, GroupOver, Settled, Channels, Web
<1>13. ASSUME NEW c \in Channels, ChannelStopped(c) PROVE HostInv'
  <2>1. HostParts'
    BY <1>1, <1>2, <1>13 DEF ChannelStopped, Stopped, HostOnly, busVars, Channels, Web
  <2>2. Resources'
    BY <1>1, <1>2, <1>13 DEF ChannelStopped, Stopped, HostOnly, busVars
  <2>3. Group' /\ Scheduler'
    BY <1>13 DEF ChannelStopped, Stopped, HostOnly, busVars, GroupOver, Channels, Web
  <2>4. Guests'
    BY <1>13 DEF ChannelStopped, Stopped, HostOnly, busVars, clientVars, turnVars, Running, Settled, Channels, Web
  <2> QED
    BY <2>1, <2>2, <2>3, <2>4
<1>14. CASE CloseSockets
  BY <1>1, <1>2, <1>14 DEF CloseSockets, HangUp, hostVars, busVars, clientVars, turnVars, bounds, Running, GroupOver, Settled
<1>15. ASSUME NEW m \in Messages, WorkerFails(m) PROVE HostInv'
  BY <1>1, <1>2, <1>15 DEF WorkerFails, YieldRaises, CancelGroup, HostOnly, busVars, clientVars, turnVars, Running, GroupOver, Settled, Channels, Web
<1>16. CASE CronDeregister
  BY <1>1, <1>2, <1>16 DEF CronDeregister, HostOnly, busVars, clientVars, turnVars, Running, GroupOver, Settled
<1>17. CASE CronStop
  BY <1>1, <1>2, <1>17 DEF CronStop, HostOnly, busVars, clientVars, turnVars, Running, GroupOver, Settled
<1>18. CASE Close
  <2>1. /\ depth' = depth - 1
        /\ bus' = "open" <=> depth' > 0
        /\ UNCHANGED <<host, chan, worker, cron, conns, turn>>
    BY <1>1, <1>2, <1>18 DEF Close, Exit, BusStop, HostOnly, busVars, clientVars, turnVars
  <2> QED
    BY <1>1, <1>2, <1>18, <2>1 DEF Close, Running, GroupOver, Settled
<1>19. CASE Unwound
  BY <1>1, <1>2, <1>19 DEF Unwound, HostOnly, busVars, clientVars, turnVars, Running, GroupOver, Settled
<1>20. CASE ShutdownHooks
  <2>1. Running' = {}
    BY <1>20 DEF ShutdownHooks, Cut, Running
  <2> QED
    BY <1>1, <1>2, <1>20, <2>1 DEF ShutdownHooks, busVars, bounds, GroupOver, Settled
<1>21. CASE Die
  <2>1. Running' = {} /\ conns' = {}
    BY <1>21 DEF Die, Cut, Running
  <2>2. /\ host' = "off" /\ depth' = 0 /\ worker' = FALSE /\ cron' = "off" /\ bus' # "open"
        /\ chan' = [c \in Channels |-> "idle"]
    BY <1>21 DEF Die, BusDies
  <2>3. HostParts'
    <3>1. chan' \in [Channels -> {"idle", "running", "stopping", "stopped"}]
      BY <2>2
    <3>2. depth' \in 0 .. Len(Stack') /\ bound' \in Instances
      BY <1>1, <1>2, <2>2
    <3> QED
      BY <2>2, <3>1, <3>2
  <2>4. Resources'
    BY <1>1, <1>2, <2>2
  <2>5. Group' /\ Scheduler' /\ Guests'
    BY <2>1, <2>2 DEF Settled
  <2> QED
    BY <2>3, <2>4, <2>5
<1> QED
  BY <1>3, <1>4, <1>5, <1>6, <1>7, <1>8, <1>9, <1>10, <1>11, <1>12, <1>13, <1>14, <1>15, <1>16,
     <1>17, <1>18, <1>19, <1>20, <1>21 DEF HostStep

-----------------------------------------------------------------------------
\* What a step of the gateway does to the bus.
LEMMA BusMoves == HostInv /\ BusInv /\ [Next]_vars => BusStep \/ UNCHANGED busVars
<1> SUFFICES ASSUME HostInv, BusInv, [Next]_vars PROVE BusStep \/ UNCHANGED busVars
  OBVIOUS
<1> USE DEF BusStep
<1>1. ASSUME NEW c, Published(c) PROVE BusStep
  <2>1. bound.messages <= MaxMessages /\ last \in Nat /\ bound.messages \in Nat
    BY GatewayHostAssumption, MessageBusAssumption DEF HostInv, HostParts, BusInv, BusTypeOK
  <2> QED
    BY <1>1, <2>1, MessageBusAssumption DEF Published
<1>2. CASE HostStep
  BY <1>2 DEF HostStep, Start, StartupHooks, Open, OpenRaises, Build, CronEnter, CronStart, Interrupt,
     ChannelFails, ChannelReturns, ChannelStopped, CloseSockets, WorkerFails, CronDeregister,
     CronStop, Close, Unwound, ShutdownHooks, Die, Enter, Exit
<1>3. CASE ClientStep
  BY <1>1, <1>3 DEF ClientStep, Connect, Say, Disconnect, HandlerEnds, Talk
<1>4. CASE TurnSteps
  BY <1>4 DEF TurnSteps, Take, NextFrame, EndTurn, AgentRaises, FrameWritten, FrameRaises, Apologise,
     ApologyTimesOut, TurnStep
<1>5. CASE Broker
  BY <1>5 DEF Broker
<1>6. CASE Beat
  BY <1>1, <1>6 DEF Beat, NothingElse, BeatFires
<1>7. CASE \E c \in Channels : Receive(c)
  BY <1>1, <1>7 DEF Receive
<1>8. CASE Quiescent \/ UNCHANGED vars
  BY <1>8 DEF Quiescent, vars
<1> QED
  BY <1>2, <1>3, <1>4, <1>5, <1>6, <1>7, <1>8 DEF Next

\* Both invariants hold in every state of every deployment.
THEOREM HostInvariant == Spec => [](HostInv /\ BusInv)
<1>1. Init => HostInv /\ BusInv
  BY HostInit, BusInitInv DEF Init
<1>2. HostInv /\ BusInv /\ [Next]_vars => HostInv' /\ BusInv'
  <2> SUFFICES ASSUME HostInv, BusInv, [Next]_vars PROVE HostInv' /\ BusInv'
    OBVIOUS
  <2>1. HostInv'
    <3>1. CASE HostStep
      BY <3>1, HostStepKeeps
    <3>2. CASE ~HostStep
      BY <3>2, TurnsVisit, OthersVisit, VisitKeeps DEF Next
    <3> QED
      BY <3>1, <3>2
  <2>2. BusInv'
    BY BusMoves, BusStepKeeps
  <2> QED
    BY <2>1, <2>2
<1> QED
  BY <1>1, <1>2, PTL DEF Spec

\* No message is lost without a trace, on any transport, however often the bus is
\* stopped or the process dies: AsyncioMessageBus, RabbitMQBus and KafkaBus.
THEOREM NothingVanishes == Spec => []Accounted
<1>1. BusInv => Accounted
  BY DEF BusInv, Accounted, Deliverable, Waiting, Done
<1> QED
  BY <1>1, HostInvariant, PTL

\* Channels, worker and scheduler live within what they use, and a host that is
\* off holds nothing, in whichever order starts fail and groups end.
THEOREM HostIsNested == Spec => []Nested
<1>1. HostInv => Nested
  <2> SUFFICES ASSUME HostInv PROVE Nested
    OBVIOUS
  <2> USE DEF HostInv, HostParts, Resources, Group, Scheduler, Guests
  <2>1. Len(Stack) \in {2, 3}
    BY StackShape
  <2>2. (worker \/ cron = "on" \/ \E c \in Channels : chan[c] \in {"running", "stopping"})
           => depth = Len(Stack) /\ bus = "open"
    BY <2>1
  <2>3. (worker \/ \E c \in Channels : chan[c] \in {"running", "stopping"}) => cron = "on"
    BY DEF GroupOver
  <2>4. host = "off" => /\ depth = 0 /\ bus # "open" /\ ~worker /\ cron \in {"off", "entered"}
                        /\ \A c \in Channels : chan[c] \in {"idle", "stopped"}
    OBVIOUS
  <2>5. host = "off" => conns = {} /\ Running = {}
    BY <2>4 DEF Settled, Channels, Web
  <2> QED
    BY <2>2, <2>3, <2>4, <2>5 DEF Nested
<1> QED
  BY <1>1, HostInvariant, PTL

-----------------------------------------------------------------------------
\* The heartbeat.  A tick goes through a list whose names are distinct; what it
\* has passed it has checked once, and what was there from its beginning is in
\* the list as long as it is registered.
Distinct(list) == \A i, j \in DOMAIN list : list[i] = list[j] => i = j

Passed(k) == \E i \in DOMAIN round.list : i < round.at /\ round.list[i] = k

Ticking ==
    /\ round.at <= Len(round.list) + 1
    /\ \A k \in Conditions : checks[k] = IF Passed(k) THEN 1 ELSE 0
    /\ \A k \in due : Contains(round.list, k)

BeatInv ==
    /\ BeatTypeOK
    /\ Distinct(conditions) /\ Distinct(round.list)
    /\ round.shared => round.list = conditions
    /\ IF loop = "checking" THEN Ticking ELSE round = NoRound

LEMMA RemoveFirstIs ==
    ASSUME NEW S, NEW s \in Seq(S), Distinct(s), NEW i \in 1 .. Len(s)
    PROVE  RemoveFirst(s, s[i]) = RemoveAt(s, i)
<1> DEFINE I == {j \in 1 .. Len(s) : s[j] = s[i]}
<1>1. I = {i}
  BY DEF Distinct
<1>2. Min({i}) = i
  BY DEF Min
<1> HIDE DEF I
<1>3. SelectInSeq(s, LAMBDA v : v = s[i]) = IF I # {} THEN Min(I) ELSE 0
  BY DEF SelectInSeq, I
<1>4. SelectInSeq(s, LAMBDA v : v = s[i]) = i
  BY <1>1, <1>2, <1>3
<1>5. \E j \in 1 .. Len(s) : s[j] = s[i]
  OBVIOUS
<1> QED
  BY <1>4, <1>5 DEF RemoveFirst

LEMMA RemoveAtIs ==
    ASSUME NEW S, NEW s \in Seq(S), NEW i \in 1 .. Len(s)
    PROVE  /\ RemoveAt(s, i) \in Seq(S)
           /\ Len(RemoveAt(s, i)) = Len(s) - 1
           /\ \A j \in 1 .. Len(s) - 1 :
                 RemoveAt(s, i)[j] = IF j < i THEN s[j] ELSE s[j + 1]
<1> DEFINE a == SubSeq(s, 1, i - 1)  b == SubSeq(s, i + 1, Len(s))
<1>1. Len(s) \in Nat /\ i \in Nat /\ i >= 1 /\ i <= Len(s)
  OBVIOUS
<1>2. a \in Seq(S) /\ Len(a) = i - 1 /\ \A j \in 1 .. i - 1 : a[j] = s[j]
  <2>1. \A j \in 1 .. i - 1 : s[j] \in S
    BY <1>1
  <2>2. 1 \in Int /\ i - 1 \in Int
    BY <1>1
  <2>3. /\ a \in Seq(S) /\ Len(a) = (IF 1 <= i - 1 THEN (i - 1) - 1 + 1 ELSE 0)
        /\ \A j \in 1 .. (i - 1) - 1 + 1 : a[j] = s[1 + j - 1]
    <3> HIDE DEF a
    <3> QED
      BY <2>1, <2>2, SubSeqProperties DEF a
  <2> QED
    BY <1>1, <2>3
<1>3. b \in Seq(S) /\ Len(b) = Len(s) - i /\ \A j \in 1 .. Len(s) - i : b[j] = s[i + j]
  <2>1. \A j \in i + 1 .. Len(s) : s[j] \in S
    BY <1>1
  <2>2. i + 1 \in Int /\ Len(s) \in Int
    BY <1>1
  <2>3. /\ b \in Seq(S) /\ Len(b) = (IF i + 1 <= Len(s) THEN Len(s) - (i + 1) + 1 ELSE 0)
        /\ \A j \in 1 .. Len(s) - (i + 1) + 1 : b[j] = s[(i + 1) + j - 1]
    <3> HIDE DEF b
    <3> QED
      BY <2>1, <2>2, SubSeqProperties DEF b
  <2> QED
    BY <1>1, <2>3
<1> HIDE DEF a, b
<1>4. /\ a \o b \in Seq(S) /\ Len(a \o b) = Len(a) + Len(b)
      /\ \A j \in 1 .. Len(a) + Len(b) : (a \o b)[j] = IF j <= Len(a) THEN a[j] ELSE b[j - Len(a)]
  BY <1>2, <1>3, ConcatProperties
<1>5. ASSUME NEW j \in 1 .. Len(s) - 1
      PROVE  (a \o b)[j] = IF j < i THEN s[j] ELSE s[j + 1]
  <2>0. j \in Int
    OBVIOUS
  <2>1. (a \o b)[j] = IF j <= i - 1 THEN a[j] ELSE b[j - (i - 1)]
    BY <1>1, <1>2, <1>3, <1>4
  <2>2. CASE j < i
    BY <1>1, <1>2, <2>1, <2>2
  <2>3. CASE j >= i
    <3>1. j - (i - 1) \in 1 .. Len(s) - i
      BY <1>1, <2>3
    <3>2. i + (j - (i - 1)) = j + 1
      BY <1>1
    <3> QED
      BY <1>1, <1>3, <2>1, <2>3, <3>1, <3>2
  <2>4. j < i \/ j >= i
    BY <1>1, <2>0
  <2> QED
    BY <2>2, <2>3, <2>4
<1>6. RemoveAt(s, i) = a \o b
  BY DEF RemoveAt, a, b
<1>7. Len(a \o b) = Len(s) - 1
  BY <1>1, <1>2, <1>3, <1>4
<1> QED
  BY <1>4, <1>5, <1>6, <1>7

LEMMA RemovedOnce ==
    ASSUME NEW S, NEW s \in Seq(S), Distinct(s), NEW k
    PROVE  RemoveFirst(s, k) \in Seq(S) /\ Distinct(RemoveFirst(s, k))
<1>1. CASE \E i \in 1 .. Len(s) : s[i] = k
  <2>1. PICK i \in 1 .. Len(s) : s[i] = k
    BY <1>1
  <2>2. RemoveFirst(s, k) = RemoveAt(s, i)
    BY <2>1, RemoveFirstIs
  <2> DEFINE r == RemoveAt(s, i)
  <2>3. /\ r \in Seq(S) /\ Len(r) = Len(s) - 1
        /\ \A j \in 1 .. Len(s) - 1 : r[j] = IF j < i THEN s[j] ELSE s[j + 1]
    BY RemoveAtIs
  <2> HIDE DEF r
  <2>4. Distinct(r)
    <3> SUFFICES ASSUME NEW x \in DOMAIN r, NEW y \in DOMAIN r, r[x] = r[y] PROVE x = y
      BY DEF Distinct
    <3> DEFINE At(z) == IF z < i THEN z ELSE z + 1
    <3>1. DOMAIN r = 1 .. Len(s) - 1 /\ Len(s) \in Nat /\ i \in Int
      BY <2>3
    <3>2. x \in Int /\ y \in Int /\ At(x) \in 1 .. Len(s) /\ At(y) \in 1 .. Len(s)
      BY <3>1
    <3>3. r[x] = s[At(x)] /\ r[y] = s[At(y)]
      BY <2>3, <3>1
    <3>4. At(x) = At(y)
      <4>1. s[At(x)] = s[At(y)]
        BY <3>3
      <4> HIDE DEF At
      <4> QED
        BY <3>2, <4>1 DEF Distinct
    <3> QED
      BY <3>1, <3>2, <3>4
  <2> QED
    BY <2>2, <2>3, <2>4 DEF r
<1>2. CASE ~ \E i \in 1 .. Len(s) : s[i] = k
  BY <1>2 DEF RemoveFirst
<1> QED
  BY <1>1, <1>2

LEMMA BeatInitInv == BeatInit => BeatInv
  BY DEF BeatInit, BeatInv, BeatTypeOK, NoRound, Distinct

LEMMA AddKeeps == ASSUME BeatInv, NEW k \in Conditions, AddCondition(k) PROVE BeatInv'
<1> USE DEF BeatInv, BeatTypeOK
<1> DEFINE new == Append(conditions, k)
<1>1. /\ new \in Seq(Conditions) /\ Len(new) = Len(conditions) + 1 /\ Distinct(new)
      /\ \A i \in 1 .. Len(conditions) : new[i] = conditions[i]
  <2>1. /\ new \in Seq(Conditions) /\ Len(new) = Len(conditions) + 1 /\ new[Len(new)] = k
        /\ \A i \in 1 .. Len(conditions) : new[i] = conditions[i]
    OBVIOUS
  <2>2. \A i \in 1 .. Len(conditions) : conditions[i] # k
    BY DEF AddCondition, Contains
  <2> QED
    BY <2>1, <2>2 DEF Distinct
<1> HIDE DEF new
<1>2. conditions' = new /\ UNCHANGED <<loop, due, checks>>
  BY DEF AddCondition, new
<1>3. CASE ~round.shared
  <2>1. round' = round
    BY <1>3 DEF AddCondition
  <2>2. Ticking => Ticking'
    <3> HIDE DEF BeatInv, BeatTypeOK
    <3> QED
      BY <1>2, <2>1 DEF Ticking, Passed
  <2> QED
    BY <1>1, <1>2, <1>3, <2>1, <2>2
<1>4. CASE round.shared
  <2>1. round' = [round EXCEPT !.list = new] /\ round.list = conditions
    BY <1>2, <1>4 DEF AddCondition
  <2>2. round'.list = new /\ round'.at = round.at /\ round'.shared = round.shared
    BY <2>1
  <2>3. loop = "checking"
    BY <1>4 DEF NoRound
  <2>4. round.at \in Nat /\ Len(conditions) \in Nat /\ Ticking
    BY <2>3
  <2>5. \A x \in Conditions : Passed(x)' <=> Passed(x)
    <3>0. /\ DOMAIN new = 1 .. Len(conditions) + 1 /\ round.at <= Len(conditions) + 1
          /\ DOMAIN round.list = 1 .. Len(conditions)
      BY <1>1, <2>1, <2>4 DEF Ticking
    <3>1. \A i \in DOMAIN new : i < round.at =>
             i \in DOMAIN round.list /\ new[i] = round.list[i]
      BY <1>1, <2>1, <2>4, <3>0
    <3>2. \A i \in DOMAIN round.list : i \in DOMAIN new /\ new[i] = round.list[i]
      BY <1>1, <2>1, <2>4, <3>0
    <3> HIDE DEF BeatInv, BeatTypeOK
    <3> QED
      BY <2>2, <3>1, <3>2 DEF Passed
  <2>6. Ticking'
    <3>1. round'.at <= Len(round'.list) + 1
      BY <1>1, <2>1, <2>2, <2>4 DEF Ticking
    <3>2. \A x \in due : Contains(new, x)
      BY <1>1, <2>1, <2>4 DEF Ticking, Contains
    <3> QED
      BY <1>2, <2>2, <2>4, <2>5, <3>1, <3>2 DEF Ticking
  <2>7. round' \in [list : Seq(Conditions), at : Nat, shared : BOOLEAN]
    BY <1>1, <2>1
  <2> QED
    BY <1>1, <1>2, <2>2, <2>3, <2>6, <2>7
<1> QED
  BY <1>3, <1>4

LEMMA RemoveKeeps == ASSUME BeatInv, NEW k \in Conditions, RemoveCondition(k) PROVE BeatInv'
<1> USE DEF BeatInv, BeatTypeOK
<1>1. conditions' \in Seq(Conditions) /\ Distinct(conditions')
  BY RemovedOnce DEF RemoveCondition
<1>2. /\ round' = [round EXCEPT !.shared = FALSE] /\ due' = due \ {k}
      /\ UNCHANGED <<loop, checks>>
  BY DEF RemoveCondition
<1>3. round'.list = round.list /\ round'.at = round.at /\ ~round'.shared
  BY <1>2
<1>4. Ticking => Ticking'
  BY <1>2, <1>3 DEF Ticking, Passed
<1>5. round = NoRound => round' = NoRound
  <2> SUFFICES ASSUME round = NoRound PROVE round' = NoRound
    OBVIOUS
  <2> QED
    BY <1>2 DEF NoRound
<1>6. round' \in [list : Seq(Conditions), at : Nat, shared : BOOLEAN]
  BY <1>2
<1> QED
  BY <1>1, <1>2, <1>3, <1>4, <1>5, <1>6

LEMMA TickBeginsKeeps == BeatInv /\ TickBegins => BeatInv'
<1> SUFFICES ASSUME BeatInv, TickBegins PROVE BeatInv'
  OBVIOUS
<1> USE DEF BeatInv, BeatTypeOK
<1>1. /\ loop' = "checking" /\ conditions' = conditions
      /\ round' = [list |-> conditions, at |-> 1, shared |-> TRUE]
      /\ due' = {k \in Conditions : Contains(conditions, k)}
      /\ checks' = [k \in Conditions |-> 0]
  BY DEF TickBegins
<1>2. round'.list = conditions /\ round'.at = 1
  BY <1>1
<1>3. Ticking'
  BY <1>1, <1>2 DEF Ticking, Passed
<1>4. checks' \in [Conditions -> Nat]
  BY <1>1
<1> QED
  BY <1>1, <1>2, <1>3, <1>4

LEMMA CheckedKeeps == ASSUME BeatInv, NEW k \in Conditions, Checked(k) PROVE BeatInv'
<1> USE DEF BeatInv, BeatTypeOK
<1>1. /\ loop = "checking" /\ Ticking /\ round.at \in DOMAIN round.list
      /\ round.list[round.at] = k /\ round.at \in Nat
      /\ checks' = [checks EXCEPT ![k] = @ + 1]
      /\ round' = [round EXCEPT !.at = @ + 1]
      /\ UNCHANGED <<conditions, loop, due>>
  BY DEF Checked, Checking
<1>2. /\ round'.list = round.list /\ round'.at = round.at + 1 /\ round'.shared = round.shared
      /\ round' \in [list : Seq(Conditions), at : Nat, shared : BOOLEAN]
  <2>1. round \in [list : Seq(Conditions), at : Nat, shared : BOOLEAN]
    OBVIOUS
  <2>2. round' = [round EXCEPT !.at = round.at + 1] /\ round.at + 1 \in Nat
    BY <1>1
  <2> QED
    BY <2>1, <2>2
<1>3. \A x \in Conditions : Passed(x)' <=> Passed(x) \/ x = k
  BY <1>1, <1>2 DEF Passed
<1>4. ~Passed(k)
  BY <1>1 DEF Passed, Distinct
<1>5. checks' \in [Conditions -> Nat]
  BY <1>1
<1>6. \A x \in Conditions : checks'[x] = IF x = k THEN checks[k] + 1 ELSE checks[x]
  BY <1>1
<1>7. \A x \in Conditions : checks'[x] = IF Passed(x)' THEN 1 ELSE 0
  BY <1>1, <1>3, <1>4, <1>6 DEF Ticking
<1>8. round'.at <= Len(round'.list) + 1
  BY <1>1, <1>2
<1>9. Ticking'
  BY <1>1, <1>2, <1>7, <1>8 DEF Ticking
<1> QED
  BY <1>1, <1>2, <1>5, <1>9

\* The steps of the application's own HeartbeatManager.
BeatStep ==
    \/ BeatStart \/ BeatStop \/ BeatDies \/ TickBegins \/ TickEnds
    \/ \E k \in Conditions : AddCondition(k) \/ RemoveCondition(k) \/ Checked(k) \/ LoopDies(k)

LEMMA BeatStepKeeps == BeatInv /\ (BeatStep \/ UNCHANGED beatVars) => BeatInv'
<1> SUFFICES ASSUME BeatInv, BeatStep \/ UNCHANGED beatVars PROVE BeatInv'
  OBVIOUS
<1>1. CASE BeatStart
  BY <1>1 DEF BeatStart, BeatInv, BeatTypeOK
<1>2. CASE BeatStop \/ BeatDies
  <2>1. /\ loop' = "off" /\ round' = NoRound /\ due' = {}
        /\ checks' = [k \in Conditions |-> 0]
        /\ conditions' = conditions \/ conditions' = <<>>
    BY <1>2 DEF BeatStop, BeatDies
  <2>2. checks' \in [Conditions -> Nat]
    BY <2>1
  <2>3. /\ round' \in [list : Seq(Conditions), at : Nat, shared : BOOLEAN]
        /\ round'.list = <<>> /\ ~round'.shared /\ Distinct(<<>>)
    BY <2>1 DEF NoRound, Distinct
  <2>4. conditions' \in Seq(Conditions) /\ Distinct(conditions')
    BY <2>1, <2>3 DEF BeatInv, BeatTypeOK
  <2> QED
    BY <2>1, <2>2, <2>3, <2>4 DEF BeatInv, BeatTypeOK
<1>3. CASE TickBegins
  BY <1>3, TickBeginsKeeps
<1>4. CASE TickEnds \/ \E k \in Conditions : LoopDies(k)
  <2>1. /\ loop' \in {"asleep", "dead"} /\ round' = NoRound /\ due' = {}
        /\ UNCHANGED <<conditions, checks>>
    BY <1>4 DEF TickEnds, LoopDies
  <2>2. /\ round' \in [list : Seq(Conditions), at : Nat, shared : BOOLEAN]
        /\ round'.list = <<>> /\ ~round'.shared /\ Distinct(<<>>)
    BY <2>1 DEF NoRound, Distinct
  <2> QED
    BY <2>1, <2>2 DEF BeatInv, BeatTypeOK
<1>5. CASE \E k \in Conditions : AddCondition(k) \/ RemoveCondition(k) \/ Checked(k)
  BY <1>5, AddKeeps, RemoveKeeps, CheckedKeeps
<1>6. CASE UNCHANGED beatVars
  BY <1>6 DEF beatVars, BeatInv, BeatTypeOK, Ticking, Passed
<1> QED
  BY <1>1, <1>2, <1>3, <1>4, <1>5, <1>6 DEF BeatStep

LEMMA BeatMoves == [Next]_vars => BeatStep \/ UNCHANGED beatVars
<1> SUFFICES ASSUME [Next]_vars PROVE BeatStep \/ UNCHANGED beatVars
  OBVIOUS
<1>1. CASE HostStep
  BY <1>1 DEF HostStep, Start, StartupHooks, Open, OpenRaises, Build, CronEnter, CronStart, Interrupt,
     ChannelFails, ChannelReturns, ChannelStopped, CloseSockets, WorkerFails, CronDeregister,
     CronStop, Close, Unwound, ShutdownHooks, Die, HostOnly, BeatStep
<1>2. CASE ClientStep
  BY <1>2 DEF ClientStep, Connect, Say, Disconnect, HandlerEnds, Talk
<1>3. CASE TurnSteps
  BY <1>3 DEF TurnSteps, Take, NextFrame, EndTurn, AgentRaises, FrameWritten, FrameRaises, Apologise,
     ApologyTimesOut, TurnStep
<1>4. CASE Broker
  BY <1>4 DEF Broker
<1>5. CASE Beat
  BY <1>5 DEF Beat, BeatFires, BeatStep
<1>6. CASE \E c \in Channels : Receive(c)
  BY <1>6 DEF Receive
<1>7. CASE Quiescent \/ UNCHANGED vars
  BY <1>7 DEF Quiescent, vars
<1> QED
  BY <1>1, <1>2, <1>3, <1>4, <1>5, <1>6, <1>7 DEF Next

LEMMA BeatHolds == Spec => []BeatInv
<1>1. Init => BeatInv
  BY BeatInitInv DEF Init
<1>2. BeatInv /\ [Next]_vars => BeatInv'
  BY BeatMoves, BeatStepKeeps
<1> QED
  BY <1>1, <1>2, PTL DEF Spec

\* A tick of HeartbeatManager checks each condition that was registered all the
\* while once, and none twice, for any number of conditions, added and removed.
THEOREM TicksCheckAll == Spec => TickChecksAll
<1> DEFINE Once == \A k \in Conditions : IF k \in due THEN checks[k] = 1 ELSE checks[k] <= 1
<1>1. BeatInv /\ TickEnds => Once
  <2> SUFFICES ASSUME BeatInv, TickEnds, NEW k \in Conditions
               PROVE  IF k \in due THEN checks[k] = 1 ELSE checks[k] <= 1
    OBVIOUS
  <2>1. /\ Ticking /\ round.at > Len(round.list) /\ round.at \in Nat
        /\ round.list \in Seq(Conditions)
    BY DEF TickEnds, BeatInv, BeatTypeOK
  <2>2. Contains(round.list, k) => Passed(k)
    BY <2>1 DEF Contains, Passed
  <2>3. k \in due => Contains(round.list, k)
    BY <2>1 DEF Ticking
  <2> QED
    BY <2>1, <2>2, <2>3 DEF Ticking
<1>2. BeatInv /\ [Next]_vars => [TickEnds => Once]_beatVars
  BY <1>1
<1> QED
  BY <1>2, BeatHolds, PTL DEF Spec, TickChecksAll

-----------------------------------------------------------------------------
\* The connections.  A broadcast writes to a connection that is in the set, and
\* those it has found dead have no client any more; who is steady is connected,
\* and has told who it is.
CastRec == [frame : 1 .. Apology, to : SUBSET Clients, rest : SUBSET Clients, size : Nat,
            changed : BOOLEAN, dead : SUBSET Clients]

Writing(m) ==
    Casting(m) =>
        /\ cast[m].to \subseteq conns /\ cast[m].dead \subseteq conns \ online
        /\ cast[m].to \cap cast[m].rest = {}

ClientsInv ==
    /\ ClientsTypeOK
    /\ IsFiniteSet(conns)
    /\ \A m \in Turns : Writing(m)
    /\ \A m \in Turns : steady[m] \subseteq known \cap online

LEMMA Numbers == End \in Nat /\ Apology \in Nat /\ End >= 1 /\ Apology = End + 1 /\ Chunks \in Nat
  BY LiveClientsAssumption DEF End, Apology

LEMMA CastingHas ==
    ASSUME cast \in [Turns -> Cast], NEW m \in Turns, Casting(m)
    PROVE  cast[m] \in CastRec
  BY DEF Casting, Cast, CastRec

LEMMA RecCasts == ASSUME NEW r \in CastRec PROVE r # NoCast /\ r \in Cast
<1>1. r.frame # 0
  BY Numbers DEF CastRec
<1>2. NoCast.frame = 0
  BY DEF NoCast
<1> QED
  BY <1>1, <1>2 DEF CastRec, Cast

\* The broadcasts before and after connections came, or those of cs left.
Disturbs(old, new, cs) ==
    /\ new \in [Turns -> Cast]
    /\ \A m \in Turns : old[m] = NoCast => new[m] = NoCast
    /\ \A m \in Turns : old[m] # NoCast =>
          /\ new[m] # NoCast /\ new[m].changed = TRUE
          /\ new[m].frame = old[m].frame /\ new[m].rest = old[m].rest
          /\ new[m].to = old[m].to \ cs /\ new[m].dead = old[m].dead \ cs

LEMMA DisturbedIs ==
    ASSUME NEW casts \in [Turns -> Cast], NEW cs
    PROVE  Disturbs(casts, Disturbed(casts, cs), cs)
<1> DEFINE d == Disturbed(casts, cs)
<1>1. ASSUME NEW m \in Turns, casts[m] # NoCast
      PROVE  /\ d[m] \in CastRec /\ d[m] # NoCast
             /\ d[m].frame = casts[m].frame
             /\ d[m].to = casts[m].to \ cs
             /\ d[m].rest = casts[m].rest
             /\ d[m].dead = casts[m].dead \ cs
             /\ d[m].changed = TRUE
  <2>1. casts[m] \in CastRec
    BY <1>1 DEF Cast, CastRec
  <2>2. d[m] = [casts[m] EXCEPT !.changed = TRUE, !.to = @ \ cs, !.dead = @ \ cs]
    BY <1>1 DEF Disturbed
  <2>3. d[m] \in CastRec
    BY <2>1, <2>2 DEF CastRec
  <2>4. d[m] # NoCast
    BY <2>3, RecCasts
  <2> QED
    BY <2>1, <2>2, <2>3, <2>4 DEF CastRec
<1>2. \A m \in Turns : casts[m] = NoCast => d[m] = NoCast
  BY DEF Disturbed
<1>3. \A m \in Turns : d[m] \in Cast
  BY <1>1, <1>2, RecCasts DEF Cast
<1>4. d = [m \in Turns |-> d[m]]
  BY DEF Disturbed
<1> HIDE DEF d
<1>5. d \in [Turns -> Cast]
  BY <1>3, <1>4
<1>6. Disturbs(casts, d, cs)
  BY <1>1, <1>2, <1>5 DEF Disturbs
<1> QED
  BY <1>6 DEF d

\* What Disturbed does to the broadcasts is what happens to all of them when
\* connections come, or go, which then are out of every list.
LEMMA DisturbedWrites ==
    ASSUME ClientsInv, NEW cs \in SUBSET Clients, NEW casts \in [Turns -> Cast],
           \A m \in Turns : casts[m] = cast[m] \/ casts[m] = NoCast,
           cast' = Disturbed(casts, cs),
           conns \ cs \subseteq conns', online' \cap conns \subseteq online
    PROVE  cast' \in [Turns -> Cast] /\ \A m \in Turns : Writing(m)'
<1>0. Disturbs(casts, cast', cs)
  BY DisturbedIs
<1>1. cast' \in [Turns -> Cast]
  BY <1>0 DEF Disturbs
<1>2. ASSUME NEW m \in Turns, Casting(m)'
      PROVE  /\ cast'[m].to \subseteq conns' /\ cast'[m].dead \subseteq conns' \ online'
             /\ cast'[m].to \cap cast'[m].rest = {}
  <2>1. casts[m] # NoCast /\ casts[m] = cast[m] /\ Casting(m)
    BY <1>0, <1>2 DEF Casting, Disturbs
  <2>2. /\ cast'[m].to = cast[m].to \ cs /\ cast'[m].rest = cast[m].rest
        /\ cast'[m].dead = cast[m].dead \ cs
    BY <1>0, <2>1 DEF Disturbs
  <2>3. /\ cast[m].to \subseteq conns /\ cast[m].dead \subseteq conns \ online
        /\ cast[m].to \cap cast[m].rest = {}
    BY <2>1 DEF ClientsInv, Writing
  <2> QED
    BY <2>2, <2>3
<1> QED
  BY <1>1, <1>2 DEF Writing

LEMMA JoinKeeps == ASSUME ClientsInv, NEW c \in Clients, Join(c) PROVE ClientsInv'
<1> USE DEF ClientsInv, ClientsTypeOK
<1>1. /\ c \notin online /\ c \notin conns
      /\ online' = online \cup {c} /\ conns' = conns \cup {c} /\ cast' = Disturbed(cast, {})
      /\ seen' = [seen EXCEPT ![c] = Unseen] /\ UNCHANGED <<known, steady, torn>>
  BY DEF Join
<1>2. cast' \in [Turns -> Cast] /\ \A m \in Turns : Writing(m)'
  <2>1. /\ {} \in SUBSET Clients /\ cast \in [Turns -> Cast]
        /\ conns \ {} \subseteq conns' /\ online' \cap conns \subseteq online
    BY <1>1
  <2> HIDE DEF ClientsInv, ClientsTypeOK
  <2> QED
    BY <1>1, <2>1, DisturbedWrites
<1>3. seen' \in [Clients -> [Turns -> Seq(1 .. Apology)]]
  <2>1. Unseen \in [Turns -> Seq(1 .. Apology)]
    BY DEF Unseen
  <2> QED
    BY <1>1, <2>1
<1>4. IsFiniteSet(conns')
  BY <1>1, FS_AddElement
<1>5. \A m \in Turns : steady'[m] \subseteq known' \cap online'
  BY <1>1
<1> QED
  BY <1>1, <1>2, <1>3, <1>4, <1>5

LEMMA UnsteadyIs ==
    ASSUME ClientsInv, NEW cs, Unsteady(cs)
    PROVE  /\ steady' \in [Turns -> SUBSET Clients]
           /\ \A m \in Turns : steady'[m] = steady[m] \ cs
<1>1. steady' = [m \in Turns |-> steady[m] \ cs]
  BY DEF Unsteady
<1>2. \A m \in Turns : steady[m] \ cs \in SUBSET Clients
  BY DEF ClientsInv, ClientsTypeOK
<1> QED
  BY <1>1, <1>2

LEMMA SpeakKeeps ==
    ASSUME ClientsInv, NEW c \in Clients, NEW anew \in BOOLEAN, Speak(c, anew) PROVE ClientsInv'
<1>1. /\ c \in online /\ c \in conns
      /\ known' = (IF anew THEN known \cup {c} ELSE known \ {c})
      /\ UNCHANGED <<online, conns, cast, seen, torn>>
  BY DEF Speak
<1>2. /\ steady' \in [Turns -> SUBSET Clients]
      /\ \A m \in Turns : steady'[m] = steady[m] \/ (~anew /\ steady'[m] = steady[m] \ {c})
  <2>1. CASE anew
    BY <2>1 DEF Speak, ClientsInv, ClientsTypeOK
  <2>2. CASE ~anew
    BY <2>2, UnsteadyIs DEF Speak
  <2> QED
    BY <2>1, <2>2
<1>3. known' \subseteq conns'
  BY <1>1 DEF ClientsInv, ClientsTypeOK
<1>4. \A m \in Turns : Writing(m)'
  BY <1>1 DEF ClientsInv, Writing, Casting
<1>5. \A m \in Turns : steady'[m] \subseteq known' \cap online'
  <2> SUFFICES ASSUME NEW m \in Turns PROVE steady'[m] \subseteq known' \cap online'
    OBVIOUS
  <2>1. steady[m] \subseteq known \cap online
    BY DEF ClientsInv
  <2>2. CASE anew
    BY <1>1, <1>2, <2>1, <2>2
  <2>3. CASE ~anew
    <3>1. steady'[m] = steady[m] \ {c}
      BY <2>3, UnsteadyIs DEF Speak
    <3> QED
      BY <1>1, <2>1, <2>3, <3>1
  <2> QED
    BY <2>2, <2>3
<1> QED
  BY <1>1, <1>2, <1>3, <1>4, <1>5 DEF ClientsInv, ClientsTypeOK

LEMMA HangUpKeeps == ASSUME ClientsInv, NEW cs, HangUp(cs) PROVE ClientsInv'
<1>1. online' = online \ cs /\ UNCHANGED <<conns, known, cast, seen, torn>>
  BY DEF HangUp
<1>2. /\ steady' \in [Turns -> SUBSET Clients]
      /\ \A m \in Turns : steady'[m] = steady[m] \ cs
  BY UnsteadyIs DEF HangUp
<1>3. \A m \in Turns : Writing(m)'
  BY <1>1 DEF ClientsInv, Writing, Casting
<1> QED
  BY <1>1, <1>2, <1>3 DEF ClientsInv, ClientsTypeOK

LEMMA LeaveKeeps == ASSUME ClientsInv, NEW c \in Clients, Leave(c) PROVE ClientsInv'
<1>1. /\ online' = online \ {c} /\ conns' = conns \ {c} /\ known' = known \ {c}
      /\ cast' = Disturbed(cast, {c}) /\ UNCHANGED <<seen, torn>>
  BY DEF Leave
<1>2. /\ steady' \in [Turns -> SUBSET Clients]
      /\ \A m \in Turns : steady'[m] = steady[m] \ {c}
  BY UnsteadyIs DEF Leave
<1>3. cast' \in [Turns -> Cast] /\ \A m \in Turns : Writing(m)'
  <2>1. /\ {c} \in SUBSET Clients /\ cast \in [Turns -> Cast]
        /\ conns \ {c} \subseteq conns' /\ online' \cap conns \subseteq online
    BY <1>1 DEF ClientsInv, ClientsTypeOK
  <2> QED
    BY <1>1, <2>1, DisturbedWrites
<1>4. IsFiniteSet(conns')
  BY <1>1, FS_RemoveElement DEF ClientsInv
<1> QED
  BY <1>1, <1>2, <1>3, <1>4 DEF ClientsInv, ClientsTypeOK

\* The next connection of a broadcast.
LEMMA ReachesIs ==
    ASSUME ClientsInv, NEW m \in Turns, NEW rest \in SUBSET Clients, NEW c \in rest \cap known,
           NEW r \in CastRec, Reaches(m, rest, c, r)
    PROVE  \E x \in CastRec :
              /\ cast' = [cast EXCEPT ![m] = x]
              /\ x.frame = r.frame /\ x.changed = r.changed /\ x.dead = r.dead
              /\ x.to \subseteq conns /\ x.to \cap x.rest = {}
              /\ \A d \in known : d \in rest <=> d \in x.to \cup x.rest
<1>1. PICK over \in SUBSET (rest \ known) :
          cast' = [cast EXCEPT ![m] = [r EXCEPT !.to = {c}, !.rest = rest \ ({c} \cup over)]]
  BY DEF Reaches
<1> DEFINE x == [r EXCEPT !.to = {c}, !.rest = rest \ ({c} \cup over)]
<1>2. /\ x \in CastRec /\ x.frame = r.frame /\ x.changed = r.changed /\ x.dead = r.dead
      /\ x.to = {c} /\ x.rest = rest \ ({c} \cup over)
  BY DEF CastRec
<1>3. c \in conns
  BY DEF ClientsInv, ClientsTypeOK
<1>4. cast' = [cast EXCEPT ![m] = x]
  BY <1>1
<1> HIDE DEF x
<1>5. \A d \in known : d \in rest <=> d \in x.to \cup x.rest
  BY <1>2
<1>6. x.to \subseteq conns /\ x.to \cap x.rest = {}
  BY <1>2, <1>3
<1> QED
  BY <1>2, <1>4, <1>5, <1>6

\* A broadcast of frame f that has just begun.
Fresh(x, f) == x.frame = f /\ x.changed = FALSE /\ x.dead = {}

LEMMA BeginIs ==
    ASSUME ClientsInv, NEW m \in Turns, NEW f \in 1 .. Apology, Begin(m, f)
    PROVE  \E x \in CastRec :
              /\ cast' = [cast EXCEPT ![m] = x]
              /\ Fresh(x, f)
              /\ x.to \subseteq conns /\ x.to \cap x.rest = {}
              /\ \A d \in known : d \in x.to \cup x.rest
<1> DEFINE r == [frame |-> f, to |-> {}, rest |-> {}, size |-> Cardinality(conns),
                 changed |-> FALSE, dead |-> {}]
<1>1. Cardinality(conns) \in Nat
  BY FS_CardinalityType DEF ClientsInv
<1>2. r \in CastRec /\ r.frame = f /\ r.changed = FALSE /\ r.dead = {}
  BY <1>1 DEF CastRec
<1>3. PICK c \in Matching : Reaches(m, conns, c, r)
  BY DEF Begin
<1> HIDE DEF r
<1>4. conns \in SUBSET Clients /\ c \in conns \cap known /\ known \subseteq conns
  BY <1>3 DEF Matching, ClientsInv, ClientsTypeOK
<1>5. PICK x \in CastRec :
              /\ cast' = [cast EXCEPT ![m] = x]
              /\ x.frame = r.frame /\ x.changed = r.changed /\ x.dead = r.dead
              /\ x.to \subseteq conns /\ x.to \cap x.rest = {}
              /\ \A d \in known : d \in conns <=> d \in x.to \cup x.rest
  <2> DEFINE old == conns
  <2>1. old \in SUBSET Clients /\ c \in old \cap known /\ Reaches(m, old, c, r)
    BY <1>3, <1>4
  <2> HIDE DEF old
  <2>2. PICK x \in CastRec :
              /\ cast' = [cast EXCEPT ![m] = x]
              /\ x.frame = r.frame /\ x.changed = r.changed /\ x.dead = r.dead
              /\ x.to \subseteq conns /\ x.to \cap x.rest = {}
              /\ \A d \in known : d \in old <=> d \in x.to \cup x.rest
    BY <1>2, <2>1, ReachesIs
  <2> QED
    BY <2>2 DEF old
<1>6. Fresh(x, f)
  BY <1>2, <1>5 DEF Fresh
<1> QED
  BY <1>4, <1>5, <1>6

LEMMA WriteNextIs ==
    ASSUME ClientsInv, NEW m \in Turns, WriteNext(m)
    PROVE  \E x \in CastRec :
              /\ cast' = [cast EXCEPT ![m] = x]
              /\ x.frame = cast[m].frame /\ x.changed = FALSE /\ x.dead = Dead(m)
              /\ x.to \subseteq conns /\ x.to \cap x.rest = {}
              /\ ~cast[m].changed =>
                    \A d \in known : d \in cast[m].rest <=> d \in x.to \cup x.rest
<1>1. cast[m] \in CastRec
  BY CastingHas DEF WriteNext, ClientsInv, ClientsTypeOK
<1> DEFINE r == [cast[m] EXCEPT !.changed = FALSE, !.dead = Dead(m)]
<1>2. Dead(m) \in SUBSET Clients
  BY <1>1 DEF Dead, CastRec
<1>3. r \in CastRec /\ r.frame = cast[m].frame /\ r.changed = FALSE /\ r.dead = Dead(m)
  BY <1>1, <1>2 DEF CastRec
<1>4. PICK rest \in Rests(m) : \E c \in rest \cap known : Reaches(m, rest, c, r)
  BY DEF WriteNext
<1> HIDE DEF r
<1>5. rest \in SUBSET Clients
  <2>1. conns \subseteq Clients
    BY DEF ClientsInv, ClientsTypeOK
  <2> QED
    BY <1>1, <2>1 DEF Rests, CastRec
<1>6. PICK x \in CastRec :
              /\ cast' = [cast EXCEPT ![m] = x]
              /\ x.frame = r.frame /\ x.changed = r.changed /\ x.dead = r.dead
              /\ x.to \subseteq conns /\ x.to \cap x.rest = {}
              /\ \A d \in known : d \in rest <=> d \in x.to \cup x.rest
  BY <1>3, <1>4, <1>5, ReachesIs
<1>7. ~cast[m].changed => rest = cast[m].rest
  BY DEF Rests
<1> QED
  BY <1>3, <1>6, <1>7

LEMMA DeadAre ==
    ASSUME ClientsInv, NEW m \in Turns, Casting(m)
    PROVE  Dead(m) \subseteq conns \ online /\ Dead(m) \in SUBSET Clients
<1>1. cast[m].to \subseteq conns /\ cast[m].dead \subseteq conns \ online
  BY DEF ClientsInv, Writing
<1>2. conns \subseteq Clients
  BY DEF ClientsInv, ClientsTypeOK
<1> QED
  BY <1>1, <1>2 DEF Dead

LEMMA WrittenIs ==
    ASSUME ClientsInv, NEW m \in Turns, Casting(m), Written(m)
    PROVE  /\ seen' \in [Clients -> [Turns -> Seq(1 .. Apology)]]
           /\ \A c \in Clients : \A n \in Turns :
                 seen'[c][n] = IF n = m /\ c \in cast[m].to /\ c \in online
                               THEN Append(seen[c][m], cast[m].frame) ELSE seen[c][n]
<1>1. cast[m].frame \in 1 .. Apology
  BY CastingHas DEF ClientsInv, ClientsTypeOK, CastRec
<1>2. seen \in [Clients -> [Turns -> Seq(1 .. Apology)]]
  BY DEF ClientsInv, ClientsTypeOK
<1>3. \A c \in Clients :
         seen'[c] = IF c \in cast[m].to \cap online
                    THEN [seen[c] EXCEPT ![m] = Append(seen[c][m], cast[m].frame)] ELSE seen[c]
  BY DEF Written
<1>4. \A c \in Clients : /\ seen[c] \in [Turns -> Seq(1 .. Apology)]
                         /\ Append(seen[c][m], cast[m].frame) \in Seq(1 .. Apology)
  BY <1>1, <1>2
<1> DEFINE S == Seq(1 .. Apology)
<1> HIDE DEF S
<1>5. \A c \in Clients : seen'[c] \in [Turns -> S]
  BY <1>3, <1>4 DEF S
<1>6. seen' = [c \in Clients |-> seen'[c]]
  BY DEF Written
<1>7. seen' \in [Clients -> [Turns -> S]]
  BY <1>5, <1>6
<1>8. \A c \in Clients : \A n \in Turns :
         seen'[c][n] = IF n = m /\ c \in cast[m].to /\ c \in online
                       THEN Append(seen[c][m], cast[m].frame) ELSE seen[c][n]
  <2> SUFFICES ASSUME NEW c \in Clients, NEW n \in Turns
               PROVE  seen'[c][n] = IF n = m /\ c \in cast[m].to /\ c \in online
                                    THEN Append(seen[c][m], cast[m].frame) ELSE seen[c][n]
    OBVIOUS
  <2>1. seen[c] \in [Turns -> S]
    BY <1>4 DEF S
  <2> QED
    BY <1>3, <2>1
<1> QED
  BY <1>7, <1>8 DEF S

LEMMA BeginKeeps ==
    ASSUME ClientsInv, NEW m \in Turns, NEW f \in 1 .. Apology, Begin(m, f),
           UNCHANGED <<online, conns, known, seen, steady, torn>>
    PROVE  ClientsInv'
<1>1. PICK x \in CastRec :
          /\ cast' = [cast EXCEPT ![m] = x]
          /\ Fresh(x, f) /\ x.to \subseteq conns /\ x.to \cap x.rest = {}
  BY BeginIs
<1>2. cast' \in [Turns -> Cast]
  BY <1>1, RecCasts DEF ClientsInv, ClientsTypeOK
<1>3. \A n \in Turns : cast'[n] = IF n = m THEN x ELSE cast[n]
  BY <1>1 DEF ClientsInv, ClientsTypeOK
<1>4. \A n \in Turns : Writing(n)'
  BY <1>1, <1>3 DEF ClientsInv, Writing, Casting, Fresh
<1> QED
  BY <1>2, <1>4 DEF ClientsInv, ClientsTypeOK

LEMMA WriteNextKeeps == ASSUME ClientsInv, NEW m \in Turns, WriteNext(m) PROVE ClientsInv'
<1>1. PICK x \in CastRec :
          /\ cast' = [cast EXCEPT ![m] = x]
          /\ x.dead = Dead(m) /\ x.to \subseteq conns /\ x.to \cap x.rest = {}
  BY WriteNextIs
<1>2. /\ Casting(m) /\ Written(m) /\ Torn(m)
      /\ UNCHANGED <<online, conns, known, steady>>
  BY DEF WriteNext
<1>3. cast' \in [Turns -> Cast]
  BY <1>1, RecCasts DEF ClientsInv, ClientsTypeOK
<1>4. \A n \in Turns : cast'[n] = IF n = m THEN x ELSE cast[n]
  BY <1>1 DEF ClientsInv, ClientsTypeOK
<1>5. Dead(m) \subseteq conns \ online
  BY <1>2, DeadAre
<1>6. \A n \in Turns : Writing(n)'
  BY <1>1, <1>2, <1>4, <1>5 DEF ClientsInv, Writing, Casting
<1>7. seen' \in [Clients -> [Turns -> Seq(1 .. Apology)]] /\ torn' \subseteq Turns
  BY <1>2, WrittenIs DEF Torn, ClientsInv, ClientsTypeOK
<1> QED
  BY <1>2, <1>3, <1>6, <1>7 DEF ClientsInv, ClientsTypeOK

\* The broadcasts after the last write of one.
LEMMA WriteLastIs ==
    ASSUME ClientsInv, NEW m \in Turns, WriteLast(m)
    PROVE  /\ cast' \in [Turns -> Cast] /\ \A n \in Turns : Writing(n)'
           /\ cast'[m] = NoCast
           /\ \A n \in Turns \ {m} :
                 \/ cast'[n] = cast[n]
                 \/ /\ Casting(n) /\ Casting(n)' /\ cast'[n].frame = cast[n].frame
                    /\ cast'[n].to \subseteq cast[n].to /\ cast'[n].changed = TRUE
<1> DEFINE others == [cast EXCEPT ![m] = NoCast]
<1>1. cast \in [Turns -> Cast]
  BY DEF ClientsInv, ClientsTypeOK
<1>2. /\ others \in [Turns -> Cast]
      /\ \A n \in Turns : others[n] = IF n = m THEN NoCast ELSE cast[n]
  BY <1>1 DEF Cast
<1>3. /\ Casting(m) /\ conns' = conns \ Dead(m) /\ UNCHANGED <<online, steady>>
      /\ cast' = IF Dead(m) = {} THEN others ELSE Disturbed(others, Dead(m))
  BY DEF WriteLast
<1>4. Dead(m) \in SUBSET Clients /\ Dead(m) \subseteq conns \ online
  BY <1>3, DeadAre
<1> HIDE DEF others
<1>5. CASE Dead(m) = {}
  <2>1. cast' = others /\ conns' = conns
    BY <1>3, <1>5
  <2>2. \A n \in Turns : Writing(n)'
    BY <1>2, <1>3, <2>1 DEF ClientsInv, Writing, Casting
  <2> QED
    BY <1>2, <2>1, <2>2
<1>6. CASE Dead(m) # {}
  <2>1. cast' = Disturbed(others, Dead(m))
    BY <1>3, <1>6
  <2>2. /\ \A n \in Turns : others[n] = cast[n] \/ others[n] = NoCast
        /\ conns \ Dead(m) \subseteq conns' /\ online' \cap conns \subseteq online
    BY <1>2, <1>3
  <2>3. cast' \in [Turns -> Cast] /\ \A n \in Turns : Writing(n)'
    <3> DEFINE cs == Dead(m)
    <3>1. /\ cs \in SUBSET Clients /\ conns \ cs \subseteq conns'
          /\ cast' = Disturbed(others, cs)
      BY <1>4, <2>1, <2>2
    <3> HIDE DEF cs
    <3> QED
      BY <1>2, <2>2, <3>1, DisturbedWrites
  <2>4. Disturbs(others, cast', Dead(m))
    BY <1>2, <2>1, DisturbedIs
  <2>5. \A n \in Turns : others[n] = NoCast => cast'[n] = NoCast
    BY <2>4 DEF Disturbs
  <2>6. \A n \in Turns : others[n] # NoCast =>
           /\ cast'[n] # NoCast /\ cast'[n].frame = others[n].frame
           /\ cast'[n].to \subseteq others[n].to /\ cast'[n].changed = TRUE
    BY <2>4 DEF Disturbs
  <2> QED
    BY <1>2, <2>3, <2>5, <2>6 DEF Casting
<1> QED
  BY <1>5, <1>6

LEMMA WriteLastKeeps == ASSUME ClientsInv, NEW m \in Turns, WriteLast(m) PROVE ClientsInv'
<1>1. /\ Casting(m) /\ Written(m) /\ Torn(m)
      /\ conns' = conns \ Dead(m) /\ known' = known \ Dead(m) /\ UNCHANGED <<online, steady>>
  BY DEF WriteLast
<1>2. Dead(m) \subseteq conns \ online
  BY <1>1, DeadAre
<1>3. seen' \in [Clients -> [Turns -> Seq(1 .. Apology)]] /\ torn' \subseteq Turns
  BY <1>1, WrittenIs DEF Torn, ClientsInv, ClientsTypeOK
<1>4. IsFiniteSet(conns')
  BY <1>1, FS_Subset DEF ClientsInv
<1>5. cast' \in [Turns -> Cast] /\ \A n \in Turns : Writing(n)'
  BY WriteLastIs
<1>6. \A n \in Turns : steady'[n] \subseteq known' \cap online'
  BY <1>1, <1>2 DEF ClientsInv
<1> QED
  BY <1>1, <1>3, <1>4, <1>5, <1>6 DEF ClientsInv, ClientsTypeOK

LEMMA WriteEndKeeps ==
    ASSUME ClientsInv, NEW m \in Turns, WriteRaises(m) \/ WriteCancelled(m) PROVE ClientsInv'
<1>1. /\ Casting(m) /\ cast' = [cast EXCEPT ![m] = NoCast]
      /\ torn' = torn \/ torn' = torn \cup {m}
      /\ UNCHANGED <<online, conns, known, steady>>
      /\ Written(m) \/ seen' = seen
  BY DEF WriteRaises, WriteCancelled
<1>2. /\ cast' \in [Turns -> Cast]
      /\ \A n \in Turns : cast'[n] = IF n = m THEN NoCast ELSE cast[n]
  BY <1>1 DEF ClientsInv, ClientsTypeOK, Cast
<1>3. \A n \in Turns : Writing(n)'
  BY <1>1, <1>2 DEF ClientsInv, Writing, Casting
<1>4. seen' \in [Clients -> [Turns -> Seq(1 .. Apology)]] /\ torn' \subseteq Turns
  BY <1>1, WrittenIs DEF ClientsInv, ClientsTypeOK
<1> QED
  BY <1>1, <1>2, <1>3, <1>4 DEF ClientsInv, ClientsTypeOK

\* A turn is taken up, all of them are cut off, or all connections are.
LEMMA SteadyKeeps ==
    ASSUME ClientsInv, NEW m \in Turns, NEW cs \in SUBSET (Matching \cap online),
           steady' = [steady EXCEPT ![m] = cs], torn' = torn \ {m},
           UNCHANGED <<online, conns, known, cast, seen>>
    PROVE  ClientsInv'
<1>1. cs \in SUBSET Clients /\ cs \subseteq known \cap online
  BY DEF Matching, ClientsInv, ClientsTypeOK
<1>2. /\ steady' \in [Turns -> SUBSET Clients]
      /\ \A n \in Turns : steady'[n] = IF n = m THEN cs ELSE steady[n]
  BY <1>1 DEF ClientsInv, ClientsTypeOK
<1>3. \A n \in Turns : Writing(n)'
  BY DEF ClientsInv, Writing, Casting
<1> QED
  BY <1>1, <1>2, <1>3 DEF ClientsInv, ClientsTypeOK

-----------------------------------------------------------------------------
\* Types of what the turns have, and the bounds.
TurnsTyped ==
    /\ source \in [Messages -> Channels \cup {"none"}]
    /\ turn \in [Messages -> {"none", "agent", "failed", "done"}]
    /\ told \in [Messages -> 0 .. End]

Counters ==
    /\ joins \in 0 .. bound.joins
    /\ starts \in 0 .. bound.starts
    /\ deaths \in 0 .. bound.deaths
    /\ faults \in 0 .. bound.faults

LEMMA TurnsAre == Turns = Messages
  BY GatewayHostAssumption

LEMMA CutKeeps ==
    ASSUME ClientsInv, Cut, online' = online, conns' = conns, known' = known,
           UNCHANGED <<seen, steady>>
    PROVE  ClientsInv'
<1>1. cast' \in [Turns -> Cast] /\ \A m \in Turns : ~Casting(m)'
  BY DEF Cut, Cast, Casting
<1>2. torn' \subseteq Turns
  BY TurnsAre DEF Cut, Running, ClientsInv, ClientsTypeOK
<1>3. \A m \in Turns : Writing(m)'
  BY <1>1 DEF Writing
<1> QED
  BY <1>1, <1>2, <1>3 DEF ClientsInv, ClientsTypeOK

LEMMA DieClears == ASSUME ClientsInv, Die PROVE ClientsInv'
<1>1. /\ Cut /\ online' = {} /\ conns' = {} /\ known' = {} /\ Unsteady(Clients) /\ seen' = seen
  BY DEF Die
<1>2. cast' \in [Turns -> Cast] /\ \A m \in Turns : ~Casting(m)'
  BY <1>1 DEF Cut, Cast, Casting
<1>3. torn' \subseteq Turns
  BY <1>1, TurnsAre DEF Cut, Running, ClientsInv, ClientsTypeOK
<1>4. steady' \in [Turns -> SUBSET Clients] /\ \A m \in Turns : steady'[m] = {}
  <2>1. \A m \in Turns : steady'[m] = steady[m] \ Clients
    BY <1>1, UnsteadyIs
  <2>2. \A m \in Turns : steady[m] \subseteq Clients
    BY DEF ClientsInv, ClientsTypeOK
  <2> QED
    BY <1>1, <2>1, <2>2, UnsteadyIs
<1>5. \A m \in Turns : Writing(m)'
  BY <1>2 DEF Writing
<1>6. IsFiniteSet(conns')
  BY <1>1, FS_EmptySet
<1> QED
  BY <1>1, <1>2, <1>3, <1>4, <1>5, <1>6 DEF ClientsInv, ClientsTypeOK

LEMMA StillClients == ClientsInv /\ UNCHANGED clientVars => ClientsInv'
<1> SUFFICES ASSUME ClientsInv, UNCHANGED clientVars PROVE ClientsInv'
  OBVIOUS
<1>1. UNCHANGED <<online, conns, known, cast, seen, steady, torn>>
  BY DEF clientVars
<1>2. \A m \in Turns : Writing(m)'
  BY <1>1 DEF ClientsInv, Writing, Casting
<1> QED
  BY <1>1, <1>2 DEF ClientsInv, ClientsTypeOK

\* A broadcast of a turn, if anybody is there to hear it.
LEMMA BroadcastKeeps ==
    ASSUME ClientsInv, NEW m \in Messages, NEW f \in 1 .. Apology, Broadcast(m, f)
    PROVE  ClientsInv'
<1>1. CASE Matching = {}
  BY <1>1, StillClients DEF Broadcast, NoFrame
<1>2. CASE Matching # {}
  <2>1. Begin(m, f) /\ UNCHANGED <<online, conns, known, seen, steady, torn>> /\ m \in Turns
    BY <1>2, TurnsAre DEF Broadcast
  <2> QED
    BY <2>1, BeginKeeps
<1> QED
  BY <1>1, <1>2

LEMMA TurnsClients ==
    ASSUME ClientsInv, TurnsTyped, NEW m \in Messages,
           \/ Take(m) \/ NextFrame(m) \/ EndTurn(m) \/ AgentRaises(m)
           \/ FrameWritten(m) \/ FrameRaises(m) \/ Apologise(m) \/ ApologyTimesOut(m)
    PROVE  ClientsInv'
<1>0. m \in Turns
  BY TurnsAre
<1>1. CASE Take(m)
  <2> DEFINE cs == IF source[m] = Web THEN Matching \cap online ELSE {}
  <2>1. /\ steady' = [steady EXCEPT ![m] = cs] /\ torn' = torn \ {m}
        /\ UNCHANGED <<online, conns, known, cast, seen>> /\ cs \in SUBSET (Matching \cap online)
    BY <1>1 DEF Take
  <2> HIDE DEF cs
  <2> QED
    BY <1>0, <2>1, SteadyKeeps
<1>2. CASE NextFrame(m)
  <2> DEFINE f == told[m] + 1
  <2>1. f \in 1 .. Apology /\ told'[m] = f
    BY <1>2, Numbers DEF NextFrame, TurnsTyped
  <2>2. Broadcast(m, f)
    BY <1>2, <2>1 DEF NextFrame
  <2> HIDE DEF f
  <2> QED
    BY <2>1, <2>2, BroadcastKeeps
<1>3. CASE EndTurn(m) \/ AgentRaises(m)
  BY <1>3, StillClients DEF EndTurn, AgentRaises, NoFrame
<1>4. CASE FrameWritten(m)
  BY <1>0, <1>4, WriteNextKeeps, WriteLastKeeps DEF FrameWritten
<1>5. CASE FrameRaises(m) \/ ApologyTimesOut(m)
  BY <1>0, <1>5, WriteEndKeeps DEF FrameRaises, ApologyTimesOut
<1>6. CASE Apologise(m)
  <2>1. Broadcast(m, Apology) \/ UNCHANGED clientVars
    BY <1>6 DEF Apologise, NoFrame
  <2>2. Apology \in 1 .. Apology
    BY Numbers
  <2> QED
    BY <2>1, <2>2, BroadcastKeeps, StillClients
<1> QED
  BY <1>1, <1>2, <1>3, <1>4, <1>5, <1>6

\* What a step of the gateway does to connections and turns.
LEMMA Moves ==
    ASSUME [Next]_vars
    PROVE  \/ UNCHANGED <<clientVars, turn, told>>
           \/ /\ UNCHANGED <<turn, told>>
              /\ \/ \E c \in Clients : Join(c) \/ Leave(c) \/ \E anew \in BOOLEAN : Speak(c, anew)
                 \/ \E cs : HangUp(cs)
           \/ TurnSteps
           \/ ShutdownHooks \/ Die
<1>1. CASE HostStep
  <2>1. CASE CloseSockets
    BY <2>1 DEF CloseSockets, turnVars
  <2>2. CASE ~CloseSockets /\ ~ShutdownHooks /\ ~Die
    BY <1>1, <2>2 DEF HostStep, Start, StartupHooks, Open, OpenRaises, Build, CronEnter,
       CronStart, Interrupt, ChannelFails, ChannelReturns, ChannelStopped, WorkerFails,
       CronDeregister, CronStop, Close, Unwound, HostOnly, turnVars
  <2> QED
    BY <2>1, <2>2
<1>2. CASE ClientStep
  <2>1. PICK c \in Clients :
            \/ Connect(c) \/ Say(c) \/ Disconnect(c) \/ HandlerEnds(c)
            \/ \E anew \in BOOLEAN : Talk(c, anew)
    BY <1>2 DEF ClientStep
  <2> QED
    BY <2>1 DEF Connect, Say, Published, Disconnect, HandlerEnds, Talk, turnVars
<1>3. CASE Broker \/ Beat \/ (\E c \in Channels : Receive(c)) \/ Quiescent \/ UNCHANGED vars
  BY <1>3 DEF Broker, Beat, NothingElse, BeatFires, Receive, Published, Quiescent, vars, turnVars
<1> QED
  BY <1>1, <1>2, <1>3 DEF Next

LEMMA ClientsStep ==
    ASSUME ClientsInv, TurnsTyped, [Next]_vars
    PROVE  ClientsInv'
<1>1. CASE TurnSteps
  BY <1>1, TurnsClients DEF TurnSteps
<1>2. CASE ShutdownHooks \/ Die
  BY <1>2, CutKeeps, DieClears DEF ShutdownHooks
<1> QED
  BY <1>1, <1>2, Moves, StillClients, JoinKeeps, SpeakKeeps, HangUpKeeps, LeaveKeeps

LEMMA TypesStep ==
    ASSUME HostInv, BusInv, TurnsTyped, Counters, [Next]_vars
    PROVE  TurnsTyped' /\ Counters'
<1>0. /\ bound.joins \in Nat /\ bound.starts \in Nat /\ bound.deaths \in Nat /\ bound.faults \in Nat
      /\ last \in Nat
  BY GatewayHostAssumption, MessageBusAssumption DEF HostInv, HostParts, BusInv, BusTypeOK
<1> USE DEF TurnsTyped, Counters
<1>1. ASSUME NEW c \in Channels, Published(c), UNCHANGED <<turn, told>> PROVE TurnsTyped' /\ Counters'
  BY <1>1 DEF Published, bounds
<1>2. CASE HostStep
  <2>1. TurnsTyped'
    <3>1. CASE ~ShutdownHooks /\ ~Die
      BY <1>2, <3>1 DEF HostStep, Start, StartupHooks, Open, OpenRaises, Build, CronEnter,
         CronStart, Interrupt, ChannelFails, ChannelReturns, ChannelStopped, WorkerFails,
         CloseSockets, CronDeregister, CronStop, Close, Unwound, HostOnly, turnVars
    <3>2. CASE ShutdownHooks \/ Die
      <4>1. source' = source /\ Cut
        BY <3>2 DEF ShutdownHooks, Die
      <4>2. turn' \in [Messages -> {"none", "agent", "failed", "done"}]
        BY <4>1 DEF Cut
      <4>3. told' \in [Messages -> 0 .. End]
        BY <4>1, Numbers DEF Cut
      <4> QED
        BY <4>1, <4>2, <4>3
    <3> QED
      BY <3>1, <3>2
  <2>2. Counters'
    BY <1>0, <1>2 DEF HostStep, Start, StartupHooks, Open, OpenRaises, Build, CronEnter,
       CronStart, Interrupt, ChannelFails, ChannelReturns, ChannelStopped, WorkerFails,
       CloseSockets, CronDeregister, CronStop, Close, Unwound, ShutdownHooks, Die, HostOnly,
       Fault, NoFault, bounds
  <2> QED
    BY <2>1, <2>2
<1>3. CASE ClientStep
  <2>1. PICK c \in Clients :
            \/ Connect(c) \/ Say(c) \/ Disconnect(c) \/ HandlerEnds(c)
            \/ \E anew \in BOOLEAN : Talk(c, anew)
    BY <1>3 DEF ClientStep
  <2>2. CASE Say(c)
    BY <1>1, <2>2 DEF Say, Published, Channels
  <2>3. CASE ~Say(c)
    BY <1>0, <2>1, <2>3 DEF Connect, Disconnect, HandlerEnds, Talk, turnVars, bounds
  <2> QED
    BY <2>2, <2>3
<1>4. CASE TurnSteps
  <2>1. PICK m \in Messages :
            \/ Take(m) \/ NextFrame(m) \/ EndTurn(m) \/ AgentRaises(m)
            \/ FrameWritten(m) \/ FrameRaises(m) \/ Apologise(m) \/ ApologyTimesOut(m)
    BY <1>4 DEF TurnSteps
  <2>2. source' = source
    BY <2>1 DEF Take, NextFrame, EndTurn, AgentRaises, FrameWritten, FrameRaises, Apologise,
       ApologyTimesOut, TurnStep
  <2>3. turn' \in [Messages -> {"none", "agent", "failed", "done"}]
    BY <2>1 DEF Take, NextFrame, EndTurn, AgentRaises, FrameWritten, FrameRaises, Apologise,
       ApologyTimesOut
  <2>4. told' \in [Messages -> 0 .. End]
    <3>1. \/ told' = told \/ told' = [told EXCEPT ![m] = 0]
          \/ told[m] < End /\ told' = [told EXCEPT ![m] = told[m] + 1]
      BY <2>1 DEF Take, NextFrame, EndTurn, AgentRaises, FrameWritten, FrameRaises, Apologise,
         ApologyTimesOut
    <3> QED
      BY <3>1, Numbers
  <2>5. Counters'
    BY <1>0, <2>1 DEF Take, NextFrame, EndTurn, AgentRaises, FrameWritten, FrameRaises, Apologise,
       ApologyTimesOut, TurnStep, bounds
  <2> QED
    BY <2>2, <2>3, <2>4, <2>5
<1>5. CASE \E c \in Channels : Receive(c)
  BY <1>1, <1>5 DEF Receive, Published
<1>6. CASE Beat
  <2>1. CASE NothingElse
    BY <2>1 DEF NothingElse, turnVars, bounds
  <2>2. CASE \E k \in Conditions : BeatFires(k)
    BY <1>1, <2>2 DEF BeatFires, Published
  <2> QED
    BY <1>6, <2>1, <2>2 DEF Beat
<1>7. CASE Broker \/ Quiescent \/ UNCHANGED vars
  BY <1>7 DEF Broker, Quiescent, vars, turnVars, bounds
<1> QED
  BY <1>2, <1>3, <1>4, <1>5, <1>6, <1>7 DEF Next

LEMMA ClientsInitInv == Init => ClientsInv /\ TurnsTyped /\ Counters
<1> SUFFICES ASSUME Init PROVE ClientsInv /\ TurnsTyped /\ Counters
  OBVIOUS
<1>1. cast \in [Turns -> Cast] /\ \A m \in Turns : ~Casting(m)
  BY DEF Init, ClientsInit, Cast, Casting
<1>2. seen \in [Clients -> [Turns -> Seq(1 .. Apology)]]
  BY DEF Init, ClientsInit, Unseen
<1>3. steady \in [Turns -> SUBSET Clients] /\ \A m \in Turns : steady[m] = {}
  BY DEF Init, ClientsInit
<1>4. ClientsInv
  BY <1>1, <1>2, <1>3, FS_EmptySet DEF Init, ClientsInit, ClientsInv, ClientsTypeOK, Writing
<1>5. TurnsTyped
  BY Numbers DEF Init, TurnsTyped
<1>6. Counters
  <2>1. bound \in Instances /\ joins = 0 /\ starts = 0 /\ deaths = 0 /\ faults = 0
    BY DEF Init
  <2>2. bound.joins \in Nat /\ bound.starts \in Nat /\ bound.deaths \in Nat /\ bound.faults \in Nat
    BY <2>1, GatewayHostAssumption
  <2> QED
    BY <2>1, <2>2 DEF Counters
<1> QED
  BY <1>4, <1>5, <1>6

\* The set of connections and the broadcasts that go through it stay in order.
THEOREM ClientsHold == Spec => [](ClientsInv /\ TurnsTyped /\ Counters)
<1>1. Init => ClientsInv /\ TurnsTyped /\ Counters
  BY ClientsInitInv
<1>2. HostInv /\ BusInv /\ (ClientsInv /\ TurnsTyped /\ Counters) /\ [Next]_vars
         => (ClientsInv /\ TurnsTyped /\ Counters)'
  BY ClientsStep, TypesStep
<1> QED
  BY <1>1, <1>2, HostInvariant, PTL DEF Spec

\* Every variable of GatewayHost keeps its type, in any deployment.
THEOREM HostTypeCorrect == Spec => []TypeOK
<1>1. /\ HostInv /\ BusInv /\ ClientsInv /\ TurnsTyped /\ Counters /\ BeatInv => TypeOK
  BY DEF HostInv, HostParts, BusInv, ClientsInv, TurnsTyped, Counters, BeatInv, TypeOK, HostTypeOK
<1> QED
  BY <1>1, HostInvariant, ClientsHold, BeatHolds, PTL

-----------------------------------------------------------------------------
\* Answers.  A message that a client may have heard of is behind the bus of this
\* process, so that no turn begins with clients that have frames of it already.
HeardOf(m) == m \in Running \/ \E c \in conns : seen[c][m] # <<>>

Heard == bus = "open" => \A m \in Messages : HeardOf(m) => attached /\ m \in gone \cup {held}

\* A broadcast belongs to a turn under way, and tells its next frame, or the
\* apology.
Tells(m) ==
    Casting(m) =>
        \/ turn[m] = "agent" /\ told[m] >= 1 /\ cast[m].frame = told[m]
        \/ turn[m] = "failed" /\ cast[m].frame = Apology

Telling == \A m \in Messages : Tells(m)

\* Whom a turn of the WebSocket channel is followed by.
Followed == \A m \in Messages : steady[m] # {} => source[m] = Web /\ m \in 1 .. last

LEMMA SourceStays ==
    ASSUME BusInv, TurnsTyped, [Next]_vars
    PROVE  last <= last' /\ \A m \in 1 .. last : source'[m] = source[m]
<1>0. last \in Nat
  BY MessageBusAssumption DEF BusInv, BusTypeOK
<1>1. ASSUME NEW c, Published(c) PROVE last <= last' /\ \A m \in 1 .. last : source'[m] = source[m]
  <2>1. last' = last + 1 /\ source' = [source EXCEPT ![last'] = c]
    BY <1>1 DEF Published, Publish
  <2> QED
    BY <1>0, <2>1 DEF TurnsTyped
<1>2. (\E c \in Channels : Published(c)) \/ (last' = last /\ source' = source)
  <2>1. CASE HostStep
    BY <2>1 DEF HostStep, Start, StartupHooks, Open, OpenRaises, Build, CronEnter,
       CronStart, Interrupt, ChannelFails, ChannelReturns, ChannelStopped, WorkerFails,
       CloseSockets, CronDeregister, CronStop, Close, Unwound, ShutdownHooks, Die, HostOnly,
       turnVars, busVars, Enter, Exit, BusStart, BusStop, BusDies, YieldRaises
  <2>2. CASE ClientStep
    BY <2>2 DEF ClientStep, Connect, Say, Disconnect, HandlerEnds, Talk, turnVars, busVars, Channels
  <2>3. CASE TurnSteps
    BY <2>3 DEF TurnSteps, Take, NextFrame, EndTurn, AgentRaises, FrameWritten, FrameRaises,
       Apologise, ApologyTimesOut, TurnStep, busVars, Yield
  <2>4. CASE Beat
    BY <2>4 DEF Beat, NothingElse, BeatFires, turnVars, busVars
  <2>5. CASE Broker \/ (\E c \in Channels : Receive(c)) \/ Quiescent \/ UNCHANGED vars
    BY <2>5 DEF Broker, Attach, Acknowledge, AutoCommit, Receive, Quiescent, vars, turnVars, busVars
  <2> QED
    BY <2>1, <2>2, <2>3, <2>4, <2>5 DEF Next
<1> QED
  BY <1>0, <1>1, <1>2

\* Whose steadiness a step of connections or turns leaves, or begins.
LEMMA SteadyShrinks ==
    ASSUME ClientsInv, [Next]_vars, NEW m \in Messages
    PROVE  steady'[m] \subseteq steady[m] \/ Take(m)
<1>0. m \in Turns
  BY TurnsAre
<1>1. ASSUME NEW cs, Unsteady(cs) PROVE steady'[m] \subseteq steady[m]
  BY <1>0, <1>1, UnsteadyIs
<1>2. CASE UNCHANGED <<clientVars, turn, told>>
  BY <1>2 DEF clientVars
<1>3. CASE \/ \E c \in Clients : Join(c) \/ Leave(c) \/ \E anew \in BOOLEAN : Speak(c, anew)
           \/ \E cs : HangUp(cs)
  BY <1>1, <1>3 DEF Join, Leave, Speak, HangUp
<1>4. CASE TurnSteps
  <2>1. PICK n \in Messages :
            \/ Take(n) \/ NextFrame(n) \/ EndTurn(n) \/ AgentRaises(n)
            \/ FrameWritten(n) \/ FrameRaises(n) \/ Apologise(n) \/ ApologyTimesOut(n)
    BY <1>4 DEF TurnSteps
  <2>2. CASE Take(n)
    BY <1>0, <2>2 DEF Take, ClientsInv, ClientsTypeOK
  <2>3. CASE ~Take(n)
    <3>1. steady' = steady
      BY <2>1, <2>3 DEF NextFrame, EndTurn, AgentRaises, FrameWritten, FrameRaises, Apologise,
         ApologyTimesOut, Broadcast, NoFrame, clientVars, WriteNext, WriteLast, WriteRaises,
         WriteCancelled
    <3> QED
      BY <3>1
  <2> QED
    BY <2>2, <2>3
<1>5. CASE ShutdownHooks \/ Die
  BY <1>1, <1>5 DEF ShutdownHooks, Die
<1> QED
  BY <1>2, <1>3, <1>4, <1>5, Moves

LEMMA FollowedStep ==
    ASSUME HostInv, BusInv, ClientsInv, TurnsTyped, Followed, [Next]_vars PROVE Followed'
<1> SUFFICES ASSUME NEW m \in Messages, steady'[m] # {} PROVE source'[m] = Web /\ m \in 1 .. last'
  BY DEF Followed
<1>0. last \in Nat /\ last' \in Nat
  <2>1. BusInv'
    BY BusMoves, BusStepKeeps
  <2> QED
    BY <2>1, MessageBusAssumption DEF BusInv, BusTypeOK
<1>1. CASE Take(m)
  <2>1. source' = source /\ last' = last /\ m \in 1 .. last
    BY <1>1 DEF Take, Yield, Oldest, Waiting
  <2>2. steady'[m] = IF source[m] = Web THEN Matching \cap online ELSE {}
    BY <1>1, TurnsAre DEF Take, ClientsInv, ClientsTypeOK
  <2> QED
    BY <2>1, <2>2
<1>2. CASE ~Take(m)
  <2>1. steady[m] # {}
    BY <1>2, SteadyShrinks
  <2>2. source[m] = Web /\ m \in 1 .. last
    BY <2>1 DEF Followed
  <2> QED
    BY <1>0, <2>2, SourceStays
<1> QED
  BY <1>1, <1>2

-----------------------------------------------------------------------------
\* The bus forgets nothing while it is open.
LEMMA BusGrows ==
    ASSUME BusInv, BusStep \/ UNCHANGED busVars, bus = "open", bus' = "open", attached
    PROVE  attached' /\ \A m \in Messages : m \in gone \cup {held} => m \in gone' \cup {held'}
<1>1. CASE UNCHANGED busVars
  BY <1>1 DEF busVars
<1>2. CASE Acknowledge \/ AutoCommit \/ Attach
  BY <1>2 DEF Acknowledge, AutoCommit, Attach
<1>3. CASE Publish
  BY <1>3 DEF Publish
<1>4. ASSUME NEW n \in Messages, Yield(n) \/ YieldRaises(n)
      PROVE  attached' /\ \A m \in Messages : m \in gone \cup {held} => m \in gone' \cup {held'}
  <2>0. 0 \notin Messages
    BY MessageBusAssumption DEF Messages
  <2>1. held = 0
    BY <1>4 DEF Yield, YieldRaises, Oldest
  <2>2. gone \subseteq gone' /\ attached' = attached
    BY <1>4 DEF Yield, YieldRaises, AsyncioYield, RabbitYield, KafkaYield
  <2> QED
    BY <2>0, <2>1, <2>2
<1>5. CASE BusStart \/ BusStop \/ BusDies
  BY <1>5 DEF BusStart, BusStop, BusDies
<1> QED
  BY <1>1, <1>2, <1>3, <1>4, <1>5 DEF BusStep

\* Only the worker makes a message heard of.
LEMMA HeardMoves ==
    ASSUME HostInv, ClientsInv, TurnsTyped, Telling, [Next]_vars, NEW m \in Messages, HeardOf(m)'
    PROVE  HeardOf(m) \/ Take(m)
<1>0. m \in Turns /\ conns \subseteq Clients /\ seen \in [Clients -> [Turns -> Seq(1 .. Apology)]]
  BY TurnsAre DEF ClientsInv, ClientsTypeOK
<1>1. ASSUME Running' \subseteq Running \/ m \notin Running',
             \A c \in conns' : seen'[c][m] = <<>> \/ (c \in conns /\ seen'[c][m] = seen[c][m])
      PROVE  HeardOf(m)
  BY <1>1 DEF HeardOf
<1>2. CASE UNCHANGED <<clientVars, turn, told>>
  <2>1. Running' = Running
    BY <1>2 DEF Running
  <2> QED
    BY <1>1, <1>2, <2>1 DEF clientVars
<1>3. ASSUME UNCHANGED <<turn, told>>, NEW c \in Clients,
             Join(c) \/ Leave(c) \/ \E anew \in BOOLEAN : Speak(c, anew)
      PROVE  HeardOf(m)
  <2>1. Running' = Running
    BY <1>3 DEF Running
  <2>2. CASE Join(c)
    <3>1. conns' = conns \cup {c} /\ seen' = [seen EXCEPT ![c] = Unseen] /\ Unseen[m] = <<>>
      BY <1>0, <2>2 DEF Join, Unseen
    <3> QED
      BY <1>0, <1>1, <2>1, <3>1
  <2>3. CASE ~Join(c)
    <3>1. conns' \subseteq conns /\ seen' = seen
      BY <1>3, <2>3 DEF Leave, Speak
    <3> QED
      BY <1>1, <2>1, <3>1
  <2> QED
    BY <2>2, <2>3
<1>4. ASSUME UNCHANGED <<turn, told>>, NEW cs, HangUp(cs) PROVE HeardOf(m)
  BY <1>1, <1>4 DEF HangUp, Running
<1>5. CASE TurnSteps
  <2>1. PICK n \in Messages :
            \/ Take(n) \/ NextFrame(n) \/ EndTurn(n) \/ AgentRaises(n)
            \/ FrameWritten(n) \/ FrameRaises(n) \/ Apologise(n) \/ ApologyTimesOut(n)
    BY <1>5 DEF TurnSteps
  <2>2. CASE Take(n)
    <3>1. CASE n # m
      <4>1. m \in Running' => m \in Running
        BY <2>2, <3>1 DEF Take, Running, TurnsTyped
      <4>2. conns' = conns /\ seen' = seen
        BY <2>2 DEF Take
      <4> QED
        BY <4>1, <4>2 DEF HeardOf
    <3> QED
      BY <2>2, <3>1
  <2>3. CASE ~Take(n)
    <3>1. Running' \subseteq Running
      <4>1. turn' = turn \/ (\E s \in {"failed", "done"} : turn' = [turn EXCEPT ![n] = s] /\
                             (s = "done" \/ turn[n] \in {"agent", "failed"}))
        BY <2>1, <2>3 DEF NextFrame, EndTurn, AgentRaises, FrameWritten, FrameRaises, Apologise,
           ApologyTimesOut
      <4> QED
        BY <4>1 DEF Running, TurnsTyped
    <3>2. conns' \subseteq conns
      BY <2>1, <2>3 DEF NextFrame, EndTurn, AgentRaises, FrameWritten, FrameRaises, Apologise,
         ApologyTimesOut, Broadcast, NoFrame, clientVars, WriteNext, WriteLast, WriteRaises,
         WriteCancelled
    <3>3. seen' = seen \/ (Casting(n) /\ Written(n))
      BY <2>1, <2>3 DEF NextFrame, EndTurn, AgentRaises, FrameWritten, FrameRaises, Apologise,
         ApologyTimesOut, Broadcast, NoFrame, clientVars, WriteNext, WriteLast, WriteRaises,
         WriteCancelled
    <3>4. CASE seen' = seen
      BY <1>1, <3>1, <3>2, <3>4
    <3>5. CASE Casting(n) /\ Written(n)
      <4>1. CASE n = m
        <5>1. m \in Running
          BY <3>5, <4>1 DEF Telling, Tells, Running
        <5> QED
          BY <5>1 DEF HeardOf
      <4>2. CASE n # m
        <5>1. \A c \in Clients : seen'[c][m] = seen[c][m]
          BY <1>0, <3>5, <4>2, TurnsAre, WrittenIs
        <5> QED
          BY <1>0, <1>1, <3>1, <3>2, <5>1
      <4> QED
        BY <4>1, <4>2
    <3> QED
      BY <3>3, <3>4, <3>5
  <2> QED
    BY <2>2, <2>3
<1>6. CASE ShutdownHooks \/ Die
  <2>1. Running' = {} /\ conns' \subseteq conns /\ seen' = seen
    BY <1>6 DEF ShutdownHooks, Die, Cut, Running
  <2> QED
    BY <1>1, <2>1
<1> QED
  BY <1>2, <1>3, <1>4, <1>5, <1>6, Moves

LEMMA HeardStep ==
    ASSUME HostInv, BusInv, ClientsInv, TurnsTyped, Telling, Heard, [Next]_vars PROVE Heard'
<1> SUFFICES ASSUME bus' = "open", NEW m \in Messages, HeardOf(m)'
             PROVE  attached' /\ m \in gone' \cup {held'}
  BY DEF Heard
<1>1. HeardOf(m) \/ Take(m)
  BY HeardMoves
<1>2. CASE Take(m)
  BY <1>2 DEF Take, Yield, Oldest, AsyncioYield, RabbitYield, KafkaYield
<1>3. CASE HeardOf(m) /\ bus = "open"
  <2>1. attached /\ m \in gone \cup {held}
    BY <1>3 DEF Heard
  <2> QED
    BY <1>3, <2>1, BusMoves, BusGrows
<1>4. CASE HeardOf(m) /\ bus # "open"
  <2>1. Open
    <3>1. bus' # bus
      BY <1>4
    <3>2. BusStart
      BY <1>4, <3>1, BusMoves DEF BusStep, busVars, BusStart, BusStop, BusDies, Attach,
         Acknowledge, AutoCommit, Publish, Yield, YieldRaises
    <3>3. ~TurnSteps /\ ~ClientStep /\ ~Broker /\ ~Beat /\ ~(\E c \in Channels : Receive(c))
          /\ ~Quiescent /\ ~UNCHANGED vars
      BY <3>1, TurnsVisit, OthersVisit DEF Visit
    <3> QED
      BY <3>1, <3>3, <1>4 DEF Next, HostStep, Start, StartupHooks, OpenRaises, Build, CronEnter,
         CronStart, Interrupt, ChannelFails, ChannelReturns, ChannelStopped, WorkerFails,
         CloseSockets, CronDeregister, CronStop, Close, Exit, BusStop, Unwound, ShutdownHooks, Die,
         BusDies, YieldRaises, busVars
  <2>2. host = "opening"
    BY <2>1 DEF Open
  <2>3. Running = {} /\ conns = {}
    BY <2>2 DEF HostInv, HostParts, Guests, Group, Settled, Channels
  <2> QED
    BY <1>4, <2>3 DEF HeardOf
<1> QED
  BY <1>1, <1>2, <1>3, <1>4

-----------------------------------------------------------------------------
\* What a steady client has of an answer: all frames up to the one that is told,
\* or all but that one as long as the broadcast has not come to it; a beginning if
\* the turn has failed, and the apology behind it when that has come by.
Prefix(s) == \E n \in 0 .. End : s = Frames(n)
Sorry(s) == \E n \in 0 .. End : s = Append(Frames(n), Apology)
Ahead(m) == cast[m].to \cup cast[m].rest

Got(m, c) ==
    /\ turn[m] = "agent" /\ ~Casting(m) => seen[c][m] = Frames(told[m])
    /\ turn[m] = "agent" /\ Casting(m) =>
          /\ seen[c][m] \in {Frames(told[m]), Frames(told[m] - 1)}
          /\ c \in cast[m].to => seen[c][m] = Frames(told[m] - 1)
          /\ ~cast[m].changed =>
                seen[c][m] = IF c \in Ahead(m) THEN Frames(told[m] - 1) ELSE Frames(told[m])
    /\ turn[m] = "failed" /\ ~Casting(m) => Prefix(seen[c][m])
    /\ turn[m] = "failed" /\ Casting(m) /\ ~cast[m].changed =>
          IF c \in Ahead(m) THEN Prefix(seen[c][m]) ELSE Sorry(seen[c][m])
    /\ turn[m] = "done" => seen[c][m] = Frames(End) \/ Sorry(seen[c][m])

Answers == \A m \in Messages \ torn : \A c \in steady[m] : Got(m, c)

\* A step that does not concern a turn, but for connections that come and go.
Still(m) ==
    /\ turn'[m] = turn[m] /\ told'[m] = told[m]
    /\ \/ cast'[m] = cast[m]
       \/ /\ Casting(m) /\ Casting(m)' /\ cast'[m].frame = cast[m].frame
          /\ cast'[m].to \subseteq cast[m].to /\ cast'[m].changed = TRUE
    /\ \A c \in steady'[m] : c \in steady[m] /\ seen'[c][m] = seen[c][m]
    /\ m \in torn => m \in torn'

OwnStep(m) ==
    \/ Take(m) \/ NextFrame(m) \/ EndTurn(m) \/ AgentRaises(m)
    \/ FrameWritten(m) \/ FrameRaises(m) \/ Apologise(m) \/ ApologyTimesOut(m)

LEMMA FramesAre ==
    /\ Frames(0) = <<>>
    /\ \A n \in Nat : Append(Frames(n), n + 1) = Frames(n + 1)
<1>1. Frames(0) = <<>>
  BY DEF Frames
<1>2. ASSUME NEW n \in Nat PROVE Append(Frames(n), n + 1) = Frames(n + 1)
  <2>1. Frames(n) \in Seq(Nat) /\ Len(Frames(n)) = n
    BY DEF Frames
  <2>2. /\ Append(Frames(n), n + 1) \in Seq(Nat) /\ Len(Append(Frames(n), n + 1)) = n + 1
        /\ \A i \in 1 .. n : Append(Frames(n), n + 1)[i] = Frames(n)[i]
        /\ Append(Frames(n), n + 1)[n + 1] = n + 1
    BY <2>1
  <2>3. \A i \in 1 .. n + 1 : Append(Frames(n), n + 1)[i] = Frames(n + 1)[i]
    BY <2>2 DEF Frames
  <2>4. Frames(n + 1) \in Seq(Nat) /\ Len(Frames(n + 1)) = n + 1
    BY DEF Frames
  <2> DEFINE a == Append(Frames(n), n + 1)  b == Frames(n + 1)
  <2>5. a \in Seq(Nat) /\ b \in Seq(Nat) /\ Len(a) = Len(b) /\ \A i \in 1 .. Len(a) : a[i] = b[i]
    BY <2>2, <2>3, <2>4
  <2> HIDE DEF a, b
  <2>6. a = b
    BY <2>5
  <2> QED
    BY <2>6 DEF a, b
<1> QED
  BY <1>1, <1>2

LEMMA DisturbedStill ==
    ASSUME ClientsInv, NEW m \in Turns, NEW cs, cast' = Disturbed(cast, cs)
    PROVE  \/ cast'[m] = cast[m]
           \/ /\ Casting(m) /\ Casting(m)' /\ cast'[m].frame = cast[m].frame
              /\ cast'[m].to \subseteq cast[m].to /\ cast'[m].changed = TRUE
<1>1. cast \in [Turns -> Cast]
  BY DEF ClientsInv, ClientsTypeOK
<1>2. Disturbs(cast, cast', cs)
  BY <1>1, DisturbedIs
<1> QED
  BY <1>2 DEF Disturbs, Casting

LEMMA OthersStill ==
    ASSUME ClientsInv, TurnsTyped, NEW n \in Messages, OwnStep(n), NEW m \in Messages \ {n}
    PROVE  Still(m)
<1>0. /\ m \in Turns /\ n \in Turns /\ steady[m] \subseteq Clients
      /\ cast \in [Turns -> Cast] /\ steady \in [Turns -> SUBSET Clients]
      /\ seen \in [Clients -> [Turns -> Seq(1 .. Apology)]]
  BY TurnsAre DEF ClientsInv, ClientsTypeOK
<1>1. turn'[m] = turn[m] /\ told'[m] = told[m]
  BY DEF OwnStep, Take, NextFrame, EndTurn, AgentRaises, FrameWritten, FrameRaises, Apologise,
     ApologyTimesOut, TurnsTyped
<1>2. CASE Take(n)
  BY <1>0, <1>1, <1>2 DEF Take, Still
<1>3. CASE NextFrame(n) \/ Apologise(n)
  <2>1. UNCHANGED clientVars \/ \E f : Begin(n, f) /\ UNCHANGED <<online, conns, known, seen, steady, torn>>
    BY <1>3 DEF NextFrame, Apologise, Broadcast, NoFrame
  <2>2. cast'[m] = cast[m] /\ UNCHANGED <<seen, steady, torn>>
    BY <1>0, <2>1 DEF clientVars, Begin, Reaches
  <2> QED
    BY <1>1, <2>2 DEF Still
<1>4. CASE EndTurn(n) \/ AgentRaises(n)
  BY <1>1, <1>4 DEF EndTurn, AgentRaises, NoFrame, clientVars, Still
<1>5. CASE FrameWritten(n)
  <2>1. Casting(n) /\ Written(n) /\ torn \subseteq torn' /\ steady' = steady
    BY <1>5 DEF FrameWritten, WriteNext, WriteLast, Torn
  <2>2. \A c \in Clients : seen'[c][m] = seen[c][m]
    BY <1>0, <2>1, WrittenIs
  <2>3. CASE WriteNext(n)
    <3>1. cast'[m] = cast[m]
      BY <1>0, <2>3 DEF WriteNext, Reaches
    <3> QED
      BY <1>0, <1>1, <2>1, <2>2, <3>1 DEF Still
  <2>4. CASE WriteLast(n)
    <3>1. \/ cast'[m] = cast[m]
          \/ /\ Casting(m) /\ Casting(m)' /\ cast'[m].frame = cast[m].frame
             /\ cast'[m].to \subseteq cast[m].to /\ cast'[m].changed = TRUE
      BY <1>0, <2>4, WriteLastIs
    <3> QED
      BY <1>0, <1>1, <2>1, <2>2, <3>1 DEF Still
  <2> QED
    BY <1>5, <2>3, <2>4 DEF FrameWritten
<1>6. CASE FrameRaises(n) \/ ApologyTimesOut(n)
  <2>1. /\ Casting(n) /\ (Written(n) \/ seen' = seen) /\ torn \subseteq torn' /\ steady' = steady
        /\ cast' = [cast EXCEPT ![n] = NoCast]
    BY <1>6 DEF FrameRaises, ApologyTimesOut, WriteRaises, WriteCancelled
  <2>2. \A c \in Clients : seen'[c][m] = seen[c][m]
    BY <1>0, <2>1, WrittenIs
  <2>3. cast'[m] = cast[m]
    BY <1>0, <2>1
  <2> QED
    BY <1>0, <1>1, <2>1, <2>2, <2>3 DEF Still
<1> QED
  BY <1>2, <1>3, <1>4, <1>5, <1>6 DEF OwnStep

\* Each step is the turn's own, or leaves it be, or is the end of the process.
LEMMA StillMoves ==
    ASSUME ClientsInv, TurnsTyped, Telling, [Next]_vars, NEW m \in Messages
    PROVE  Still(m) \/ OwnStep(m) \/ (m \in torn' /\ ~Casting(m)')
<1>0. /\ m \in Turns /\ steady[m] \subseteq Clients /\ steady[m] \subseteq online
      /\ seen \in [Clients -> [Turns -> Seq(1 .. Apology)]]
  BY TurnsAre DEF ClientsInv, ClientsTypeOK
<1>1. ASSUME NEW cs, Unsteady(cs) PROVE steady'[m] \subseteq steady[m]
  BY <1>0, <1>1, UnsteadyIs
<1>2. CASE UNCHANGED <<clientVars, turn, told>>
  BY <1>2 DEF clientVars, Still
<1>3. ASSUME UNCHANGED <<turn, told>>, NEW c \in Clients, Join(c) PROVE Still(m)
  <2>1. /\ c \notin online /\ seen' = [seen EXCEPT ![c] = Unseen] /\ UNCHANGED <<steady, torn>>
        /\ cast' = Disturbed(cast, {})
    BY <1>3 DEF Join
  <2>2. \A d \in steady'[m] : d \in steady[m] /\ seen'[d][m] = seen[d][m]
    BY <1>0, <2>1
  <2> QED
    BY <1>0, <1>3, <2>1, <2>2, DisturbedStill DEF Still
<1>4. ASSUME UNCHANGED <<turn, told>>, NEW c \in Clients, Leave(c) PROVE Still(m)
  <2>1. /\ Unsteady({c}) /\ UNCHANGED <<seen, torn>> /\ cast' = Disturbed(cast, {c})
    BY <1>4 DEF Leave
  <2> QED
    BY <1>0, <1>1, <1>4, <2>1, DisturbedStill DEF Still
<1>5. ASSUME UNCHANGED <<turn, told>>,
             \/ \E c \in Clients : \E anew \in BOOLEAN : Speak(c, anew)
             \/ \E cs : HangUp(cs)
      PROVE  Still(m)
  <2>1. steady'[m] \subseteq steady[m] /\ UNCHANGED <<cast, seen, torn>>
    BY <1>1, <1>5 DEF Speak, HangUp
  <2> QED
    BY <1>5, <2>1 DEF Still
<1>6. CASE TurnSteps
  <2>1. PICK n \in Messages : OwnStep(n)
    BY <1>6 DEF TurnSteps, OwnStep
  <2> QED
    BY <2>1, OthersStill
<1>7. CASE ShutdownHooks \/ Die
  <2>1. Cut /\ seen' = seen /\ steady'[m] \subseteq steady[m]
    BY <1>1, <1>7 DEF ShutdownHooks, Die
  <2>2. ~Casting(m)' /\ cast'[m] = NoCast
    BY <1>0, <2>1 DEF Cut, Casting
  <2>3. CASE m \in Running
    BY <2>1, <2>2, <2>3 DEF Cut
  <2>4. CASE m \notin Running
    <3>1. cast[m] = NoCast
      BY <2>4 DEF Telling, Tells, Running, Casting
    <3> QED
      BY <2>1, <2>2, <2>4, <3>1 DEF Cut, Still
  <2> QED
    BY <2>3, <2>4
<1> QED
  BY <1>2, <1>3, <1>4, <1>5, <1>6, <1>7, Moves

LEMMA StillGot ==
    ASSUME NEW m \in Messages, NEW c \in steady'[m], Still(m), Got(m, c)
    PROVE  Got(m, c)'
<1>1. turn'[m] = turn[m] /\ told'[m] = told[m] /\ seen'[c][m] = seen[c][m]
  BY DEF Still
<1>2. CASE cast'[m] = cast[m]
  BY <1>1, <1>2 DEF Got, Ahead, Casting, Prefix, Sorry
<1>3. CASE /\ Casting(m) /\ Casting(m)'
           /\ cast'[m].to \subseteq cast[m].to /\ cast'[m].changed = TRUE
  BY <1>1, <1>3 DEF Got, Prefix, Sorry
<1> QED
  BY <1>2, <1>3 DEF Still

-----------------------------------------------------------------------------
\* A broadcast that begins, and how the steps of a turn leave theirs.
LEMMA BegunIs ==
    ASSUME ClientsInv, NEW m \in Turns, NEW f \in 1 .. Apology, Begin(m, f)
    PROVE  /\ Casting(m)' /\ cast'[m].frame = f /\ cast'[m].changed = FALSE
           /\ \A d \in known : d \in Ahead(m)'
<1>1. PICK x \in CastRec :
              /\ cast' = [cast EXCEPT ![m] = x]
              /\ Fresh(x, f)
              /\ \A d \in known : d \in x.to \cup x.rest
  BY BeginIs
<1>2. cast'[m] = x /\ x # NoCast
  BY <1>1, RecCasts DEF ClientsInv, ClientsTypeOK
<1> QED
  BY <1>1, <1>2 DEF Casting, Ahead, Fresh

LEMMA OwnTells ==
    ASSUME HostInv, ClientsInv, TurnsTyped, Telling, Heard, NEW m \in Messages, OwnStep(m)
    PROVE  Tells(m)'
<1>0. /\ m \in Turns /\ cast \in [Turns -> Cast] /\ told[m] \in 0 .. End /\ End \in Nat
      /\ told \in [Messages -> 0 .. End]
      /\ turn \in [Messages -> {"none", "agent", "failed", "done"}]
  BY TurnsAre, Numbers DEF ClientsInv, ClientsTypeOK, TurnsTyped
<1>1. CASE Take(m)
  <2>1. m \notin Running
    BY <1>1 DEF Take, Yield, Oldest, Waiting, Heard, HeardOf
  <2>2. ~Casting(m) /\ cast' = cast
    BY <1>1, <2>1 DEF Take, Telling, Tells, Running
  <2> QED
    BY <2>2 DEF Tells, Casting
<1>2. CASE NextFrame(m)
  <2>1. /\ turn[m] = "agent" /\ turn' = turn /\ ~Casting(m) /\ told[m] < End
        /\ told'[m] = told[m] + 1 /\ Broadcast(m, told'[m])
    BY <1>0, <1>2 DEF NextFrame
  <2>2. CASE Matching = {}
    BY <2>1, <2>2 DEF Broadcast, NoFrame, clientVars, Tells, Casting
  <2>3. CASE Matching # {}
    <3>1. PICK f : f = told'[m]
      OBVIOUS
    <3>2. f \in 1 .. Apology /\ Begin(m, f)
      BY <1>0, <2>1, <2>3, <3>1, Numbers DEF Broadcast
    <3>3. cast'[m].frame = f
      <4>1. m \in Turns
        BY <1>0
      <4> QED
        BY <3>2, <4>1, BegunIs
    <3> QED
      BY <1>0, <2>1, <3>1, <3>3 DEF Tells
  <2> QED
    BY <2>2, <2>3
<1>3. CASE EndTurn(m) \/ AgentRaises(m)
  BY <1>3 DEF EndTurn, AgentRaises, NoFrame, clientVars, Tells, Casting
<1>4. CASE FrameWritten(m)
  <2>1. Tells(m)
    BY DEF Telling, Tells
  <2>2. CASE WriteNext(m)
    <3>1. PICK x \in CastRec : cast' = [cast EXCEPT ![m] = x] /\ x.frame = cast[m].frame
      BY <1>0, <2>2, WriteNextIs
    <3>2. cast'[m] = x /\ Casting(m)'
      BY <1>0, <3>1, RecCasts DEF Casting
    <3>3. turn' = turn /\ told' = told
      BY <1>4, <3>2 DEF FrameWritten
    <3> QED
      BY <2>1, <2>2, <3>1, <3>2, <3>3 DEF Tells, WriteNext
  <2>3. CASE WriteLast(m)
    BY <1>0, <2>3, WriteLastIs DEF Tells, Casting
  <2> QED
    BY <1>4, <2>2, <2>3 DEF FrameWritten
<1>5. CASE FrameRaises(m) \/ ApologyTimesOut(m)
  BY <1>0, <1>5 DEF FrameRaises, ApologyTimesOut, WriteRaises, WriteCancelled, Tells, Casting
<1>6. CASE Apologise(m)
  <2>1. turn[m] = "failed" /\ ~Casting(m) /\ (Casting(m)' => turn' = turn)
    BY <1>6 DEF Apologise
  <2>2. CASE Begin(m, Apology)
    <3>0. PICK f \in 1 .. Apology : f = Apology
      BY Numbers
    <3>1. cast'[m].frame = Apology
      <4>1. m \in Turns /\ Begin(m, f)
        BY <1>0, <2>2, <3>0
      <4> QED
        BY <3>0, <4>1, BegunIs
    <3> QED
      BY <2>1, <3>1 DEF Tells
  <2>3. CASE UNCHANGED clientVars
    BY <2>1, <2>3 DEF clientVars, Tells, Casting
  <2> QED
    BY <1>6, <2>2, <2>3 DEF Apologise, Broadcast, NoFrame
<1> QED
  BY <1>1, <1>2, <1>3, <1>4, <1>5, <1>6 DEF OwnStep

LEMMA TellingStep ==
    ASSUME HostInv, ClientsInv, TurnsTyped, Heard, Telling, [Next]_vars
    PROVE  Telling'
<1> SUFFICES ASSUME NEW m \in Messages PROVE Tells(m)'
  BY DEF Telling, Tells
<1>1. CASE OwnStep(m)
  BY <1>1, OwnTells
<1>2. CASE Still(m)
  BY <1>2 DEF Still, Telling, Tells, Casting
<1>3. CASE ~Casting(m)'
  BY <1>3 DEF Tells
<1> QED
  BY <1>1, <1>2, <1>3, StillMoves

-----------------------------------------------------------------------------
\* What the steps of a turn do to what a steady client has of it.
LEMMA WrittenGot ==
    ASSUME ClientsInv, NEW m \in Messages, Casting(m), Written(m), NEW c \in steady[m]
    PROVE  seen'[c][m] = IF c \in cast[m].to THEN Append(seen[c][m], cast[m].frame)
                         ELSE seen[c][m]
<1>1. m \in Turns /\ c \in Clients /\ c \in online
  BY TurnsAre DEF ClientsInv, ClientsTypeOK
<1> QED
  BY <1>1, WrittenIs

LEMMA WroteFrame ==
    ASSUME ClientsInv, TurnsTyped, Telling, NEW m \in Messages, Casting(m), Written(m),
           NEW c \in steady[m], Got(m, c), turn[m] = "agent"
    PROVE  /\ seen'[c][m] \in {Frames(told[m]), Frames(told[m] - 1)}
           /\ ~cast[m].changed =>
                 seen'[c][m] = IF c \in cast[m].rest \ cast[m].to THEN Frames(told[m] - 1)
                               ELSE Frames(told[m])
<1>1. told[m] >= 1 /\ told[m] \in Nat /\ cast[m].frame = told[m]
  BY Numbers DEF Telling, Tells, TurnsTyped
<1>2. Append(Frames(told[m] - 1), told[m]) = Frames(told[m])
  <2>1. told[m] - 1 \in Nat /\ told[m] - 1 + 1 = told[m]
    BY <1>1
  <2> QED
    BY <2>1, FramesAre
<1>3. /\ seen[c][m] \in {Frames(told[m]), Frames(told[m] - 1)}
      /\ c \in cast[m].to => seen[c][m] = Frames(told[m] - 1)
      /\ ~cast[m].changed =>
            seen[c][m] = IF c \in Ahead(m) THEN Frames(told[m] - 1) ELSE Frames(told[m])
  BY DEF Got
<1> QED
  BY <1>1, <1>2, <1>3, WrittenGot DEF Ahead

LEMMA WroteApology ==
    ASSUME ClientsInv, TurnsTyped, Telling, NEW m \in Messages, Casting(m), Written(m),
           NEW c \in steady[m], Got(m, c), turn[m] = "failed", ~cast[m].changed
    PROVE  IF c \in cast[m].rest \ cast[m].to THEN Prefix(seen'[c][m]) ELSE Sorry(seen'[c][m])
<1>1. cast[m].frame = Apology
  BY DEF Telling, Tells
<1>2. IF c \in Ahead(m) THEN Prefix(seen[c][m]) ELSE Sorry(seen[c][m])
  BY DEF Got
<1> DEFINE s == seen[c][m]  t == seen'[c][m]
<1>3. t = IF c \in cast[m].to THEN Append(s, Apology) ELSE s
  BY <1>1, WrittenGot
<1>4. IF c \in Ahead(m) THEN Prefix(s) ELSE Sorry(s)
  BY <1>2
<1> HIDE DEF s, t
<1>5. CASE c \in cast[m].to
  <2>1. Prefix(s) /\ t = Append(s, Apology)
    BY <1>3, <1>4, <1>5 DEF Ahead
  <2>2. Sorry(t)
    BY <2>1 DEF Prefix, Sorry
  <2> QED
    BY <1>5, <2>2 DEF t
<1>6. CASE c \notin cast[m].to
  BY <1>3, <1>4, <1>6 DEF Ahead, t
<1> QED
  BY <1>5, <1>6

LEMMA TakeGot ==
    ASSUME HostInv, ClientsInv, TurnsTyped, Telling, Heard, NEW m \in Messages, Take(m),
           NEW c \in steady'[m]
    PROVE  Got(m, c)'
<1>0. m \in Turns /\ turn'[m] = "agent" /\ told'[m] = 0 /\ cast' = cast /\ seen' = seen
  BY TurnsAre DEF Take, TurnsTyped
<1>1. ~HeardOf(m)
  BY DEF Take, Yield, Oldest, Waiting, Heard
<1>2. ~Casting(m)
  BY <1>1 DEF HeardOf, Telling, Tells, Running
<1>3. c \in conns
  <2>1. steady'[m] \subseteq conns
    BY <1>0 DEF Take, Matching, ClientsInv, ClientsTypeOK
  <2> QED
    BY <2>1
<1>4. seen[c][m] = Frames(0)
  BY <1>1, <1>3, FramesAre DEF HeardOf
<1>5. ~Casting(m)' /\ seen'[c][m] = Frames(told'[m])
  BY <1>0, <1>2, <1>4 DEF Casting
<1> QED
  BY <1>0, <1>5 DEF Got

LEMMA FrameGot ==
    ASSUME ClientsInv, TurnsTyped, NEW m \in Messages, NextFrame(m),
           NEW c \in steady[m], Got(m, c)
    PROVE  Got(m, c)'
<1>0. m \in Turns /\ cast \in [Turns -> Cast] /\ told[m] \in 0 .. End /\ End \in Nat
  BY TurnsAre, Numbers DEF ClientsInv, ClientsTypeOK, TurnsTyped
<1>1. /\ turn[m] = "agent" /\ turn' = turn /\ ~Casting(m) /\ told[m] < End
      /\ told'[m] = told[m] + 1 /\ Broadcast(m, told'[m])
  BY DEF NextFrame, TurnsTyped
<1>2. c \in known /\ c \in Matching
  BY <1>0 DEF ClientsInv, ClientsTypeOK, Matching
<1>3. PICK f : f = told'[m]
  OBVIOUS
<1>4. f \in 1 .. Apology /\ Begin(m, f) /\ seen' = seen /\ f - 1 = told[m]
  BY <1>0, <1>1, <1>2, <1>3, Numbers DEF Broadcast
<1>6. Casting(m)' /\ c \in Ahead(m)' /\ cast'[m].changed = FALSE
  <2>1. m \in Turns
    BY <1>0
  <2> QED
    BY <1>2, <1>4, <2>1, BegunIs
<1>8. seen[c][m] = Frames(told[m])
  BY <1>1 DEF Got
<1>9. seen'[c][m] = Frames(told'[m] - 1)
  BY <1>3, <1>4, <1>8
<1> QED
  BY <1>1, <1>6, <1>9 DEF Got

LEMMA EndGot ==
    ASSUME ClientsInv, TurnsTyped, Followed, NEW m \in Messages,
           EndTurn(m) \/ AgentRaises(m), NEW c \in steady[m], Got(m, c)
    PROVE  Got(m, c)'
<1>1. /\ turn[m] = "agent" /\ ~Casting(m) /\ ~Casting(m)' /\ seen' = seen
      /\ turn'[m] = "failed" \/ (turn'[m] = "done" /\ (source[m] = Web => told[m] = End))
  BY DEF EndTurn, AgentRaises, NoFrame, clientVars, Casting, TurnsTyped
<1>2. source[m] = Web
  BY DEF Followed
<1>3. seen[c][m] = Frames(told[m]) /\ told[m] \in 0 .. End
  BY <1>1 DEF Got, TurnsTyped
<1>4. Prefix(seen[c][m])
  BY <1>3 DEF Prefix
<1> QED
  BY <1>1, <1>2, <1>3, <1>4 DEF Got

LEMMA NextGot ==
    ASSUME ClientsInv, TurnsTyped, Telling, NEW m \in Messages, FrameWritten(m), WriteNext(m),
           m \notin torn', NEW c \in steady[m], Got(m, c)
    PROVE  Got(m, c)'
<1>0. m \in Turns /\ cast \in [Turns -> Cast]
  BY TurnsAre DEF ClientsInv, ClientsTypeOK
<1>1. Casting(m) /\ Written(m) /\ ~cast[m].changed /\ told' = told
  BY DEF WriteNext, Torn, FrameWritten
<1>2. PICK x \in CastRec :
          /\ cast' = [cast EXCEPT ![m] = x]
          /\ x.changed = FALSE /\ x.to \cap x.rest = {}
          /\ \A d \in known : d \in cast[m].rest <=> d \in x.to \cup x.rest
  BY <1>0, <1>1, WriteNextIs
<1>3. cast'[m] = x /\ Casting(m)'
  BY <1>0, <1>2, RecCasts DEF Casting
<1>4. turn' = turn
  BY <1>3 DEF FrameWritten
<1>5. c \in Ahead(m)' <=> c \in cast[m].rest \ cast[m].to
  <2>1. c \in known
    BY <1>0 DEF ClientsInv
  <2>2. cast[m].to \cap cast[m].rest = {}
    BY <1>0, <1>1 DEF ClientsInv, Writing
  <2> QED
    BY <1>2, <1>3, <2>1, <2>2 DEF Ahead
<1>6. c \in cast'[m].to => c \in Ahead(m)'
  BY DEF Ahead
<1>7. turn[m] \in {"agent", "failed"}
  BY <1>1 DEF Telling, Tells
<1>8. CASE turn[m] = "agent"
  BY <1>1, <1>3, <1>4, <1>5, <1>6, <1>8, WroteFrame DEF Got
<1>9. CASE turn[m] = "failed"
  BY <1>1, <1>3, <1>4, <1>5, <1>6, <1>9, WroteApology DEF Got, Prefix, Sorry
<1> QED
  BY <1>7, <1>8, <1>9

\* Nobody who is steady is among those who are left.
LEMMA LastGot ==
    ASSUME ClientsInv, TurnsTyped, Telling, NEW m \in Messages, FrameWritten(m), WriteLast(m),
           m \notin torn', NEW c \in steady[m], Got(m, c)
    PROVE  Got(m, c)'
<1>0. m \in Turns /\ cast \in [Turns -> Cast]
  BY TurnsAre DEF ClientsInv, ClientsTypeOK
<1>1. Casting(m) /\ Written(m) /\ ~cast[m].changed /\ told' = told
  BY DEF WriteLast, Torn, FrameWritten
<1>2. ~Casting(m)'
  BY <1>0, WriteLastIs DEF Casting
<1>3. c \notin cast[m].rest
  <2>1. c \in known
    BY <1>0 DEF ClientsInv
  <2>2. cast[m].rest \cap known = {}
    BY <1>1 DEF WriteLast, Rests
  <2> QED
    BY <2>1, <2>2
<1>4. CASE turn[m] = "agent"
  <2>1. turn' = turn /\ seen'[c][m] = Frames(told[m])
    BY <1>1, <1>3, <1>4, WroteFrame DEF FrameWritten
  <2> QED
    BY <1>1, <1>2, <1>4, <2>1 DEF Got
<1>5. CASE turn[m] = "failed"
  <2>1. turn'[m] = "done"
    BY <1>2, <1>5 DEF FrameWritten, TurnsTyped
  <2>2. Sorry(seen'[c][m])
    BY <1>1, <1>3, <1>5, WroteApology
  <2> QED
    BY <2>1, <2>2 DEF Got, Sorry
<1> QED
  BY <1>1, <1>4, <1>5 DEF Telling, Tells

LEMMA RaisesGot ==
    ASSUME ClientsInv, TurnsTyped, Telling, NEW m \in Messages, FrameRaises(m),
           m \notin torn', NEW c \in steady[m], Got(m, c)
    PROVE  Got(m, c)'
<1>0. m \in Turns /\ cast \in [Turns -> Cast]
  BY TurnsAre DEF ClientsInv, ClientsTypeOK
<1>1. Casting(m) /\ Written(m) /\ cast' = [cast EXCEPT ![m] = NoCast] /\ cast[m].frame # Apology
  BY DEF FrameRaises, WriteRaises
<1>2. turn[m] = "agent" /\ told[m] >= 1 /\ told[m] \in 0 .. End
  BY <1>1 DEF Telling, Tells, TurnsTyped
<1>3. turn'[m] = "failed" /\ ~Casting(m)'
  BY <1>0, <1>1, <1>2 DEF FrameRaises, TurnsTyped, Casting
<1>4. seen'[c][m] \in {Frames(told[m]), Frames(told[m] - 1)}
  BY <1>1, <1>2, WroteFrame
<1>5. told[m] - 1 \in 0 .. End
  BY <1>2, Numbers
<1>6. Prefix(seen'[c][m])
  BY <1>2, <1>4, <1>5 DEF Prefix
<1> QED
  BY <1>3, <1>6 DEF Got, Prefix

LEMMA ApologyGot ==
    ASSUME ClientsInv, TurnsTyped, Followed, NEW m \in Messages, Apologise(m),
           NEW c \in steady[m], Got(m, c)
    PROVE  Got(m, c)'
<1>0. m \in Turns /\ cast \in [Turns -> Cast]
  BY TurnsAre DEF ClientsInv, ClientsTypeOK
<1>1. turn[m] = "failed" /\ ~Casting(m) /\ Broadcast(m, Apology)
  BY DEF Apologise, Followed
<1>2. c \in known /\ c \in Matching
  BY <1>0 DEF ClientsInv, ClientsTypeOK, Matching
<1>3. Begin(m, Apology) /\ seen' = seen
  BY <1>1, <1>2 DEF Broadcast
<1>4. PICK f \in 1 .. Apology : f = Apology
  BY Numbers
<1>5. Casting(m)' /\ c \in Ahead(m)'
  <2>1. m \in Turns /\ Begin(m, f)
    BY <1>0, <1>3, <1>4
  <2> QED
    BY <1>2, <2>1, BegunIs
<1>6. turn' = turn
  BY <1>5 DEF Apologise
<1>8. Prefix(seen[c][m])
  BY <1>1 DEF Got
<1>9. Prefix(seen'[c][m])
  BY <1>3, <1>8 DEF Prefix
<1> QED
  BY <1>1, <1>5, <1>6, <1>9 DEF Got, Prefix

LEMMA OwnGot ==
    ASSUME HostInv, ClientsInv, TurnsTyped, Heard, Telling, Followed, NEW m \in Messages,
           OwnStep(m), m \notin torn', ~Take(m), NEW c \in steady[m], Got(m, c)
    PROVE  Got(m, c)'
<1>1. CASE FrameWritten(m)
  BY <1>1, NextGot, LastGot DEF FrameWritten
<1>2. ~ApologyTimesOut(m)
  BY DEF ApologyTimesOut, WriteCancelled
<1> QED
  BY <1>1, <1>2, FrameGot, EndGot, RaisesGot, ApologyGot DEF OwnStep

LEMMA AnswersStep ==
    ASSUME HostInv, ClientsInv, TurnsTyped, Heard, Telling, Followed, Answers, [Next]_vars
    PROVE  Answers'
<1> SUFFICES ASSUME NEW m \in Messages, m \notin torn', NEW c \in steady'[m] PROVE Got(m, c)'
  BY DEF Answers
<1>1. CASE Take(m)
  BY <1>1, TakeGot
<1>2. CASE Still(m)
  <2>1. m \notin torn /\ c \in steady[m]
    BY <1>2 DEF Still
  <2> QED
    BY <1>2, <2>1, StillGot DEF Answers
<1>3. CASE OwnStep(m) /\ ~Take(m)
  <2>1. steady' = steady /\ (m \in torn => m \in torn')
    BY <1>3 DEF OwnStep, NextFrame, EndTurn, AgentRaises, FrameWritten, FrameRaises, Apologise,
       ApologyTimesOut, Broadcast, NoFrame, clientVars, WriteNext, WriteLast, WriteRaises,
       WriteCancelled, Torn
  <2>2. c \in steady[m] /\ Got(m, c)
    BY <2>1 DEF Answers
  <2> QED
    BY <1>3, <2>2, OwnGot
<1> QED
  BY <1>1, <1>2, <1>3, StillMoves

LEMMA AnswersInit == Init => Heard /\ Telling /\ Followed /\ Answers
<1> SUFFICES ASSUME Init PROVE Heard /\ Telling /\ Followed /\ Answers
  OBVIOUS
<1>1. Heard
  BY DEF Init, BusInit, Heard
<1>2. \A m \in Messages : ~Casting(m) /\ steady[m] = {}
  BY TurnsAre DEF Init, ClientsInit, Casting
<1> QED
  BY <1>1, <1>2 DEF Telling, Tells, Followed, Answers

\* Who has followed a turn from its beginning has all the frames it has told, and
\* no message is told of twice in one life of a connection.
THEOREM AnswersHold == Spec => [](Heard /\ Telling /\ Followed /\ Answers)
<1>1. HostInv /\ BusInv /\ ClientsInv /\ TurnsTyped
         /\ (Heard /\ Telling /\ Followed /\ Answers) /\ [Next]_vars
         => (Heard /\ Telling /\ Followed /\ Answers)'
  BY HeardStep, TellingStep, FollowedStep, AnswersStep
<1> QED
  BY <1>1, AnswersInit, HostInvariant, ClientsHold, PTL DEF Spec

\* A client that was connected for the whole of a turn, and had told who it is,
\* has its answer from the first chunk to the end of the stream, or a beginning of
\* it and the apology: connections may come, go, speak and be found dead between
\* any two writes of _broadcast (websocket.py), which goes through the live set.
THEOREM WholeAnswerOrApology == Spec => []WholeOrApology
<1>1. Answers => WholeOrApology
  BY DEF Answers, Got, Sorry, WholeOrApology
<1> QED
  BY <1>1, AnswersHold, PTL
=============================================================================
