----------------------------- MODULE MessageBus -----------------------------
(***************************************************************************)
(* The three transports behind BaseMessageBus: what each of them does with *)
(* a message between publish and the task that handles it, and what is     *)
(* left of it when the bus is closed or the process dies.  Messages are    *)
(* numbered in the order in which they are published.                      *)
(***************************************************************************)
EXTENDS Integers, FiniteSets

CONSTANT MaxMessages      \* bound: messages that are ever published

ASSUME MessageBusAssumption == MaxMessages \in Nat

Backends == {"asyncio", "rabbitmq", "kafka"}
Messages == 1 .. MaxMessages
Reasons == {"died", "drained", "skipped", "undecodable", "unheard"}
NoOffset == -1

VARIABLES
    backend,      \* config.bus.backend
    bus,          \* "closed", "open", and "new" until the first start
    last,         \* the last message published
    gone,         \* messages that the transport will not deliver again
    held,         \* RabbitMQ: the message whose acknowledgement is under way, or 0
    committed,    \* Kafka: the offset of the group, or NoOffset
    attached,     \* Kafka: the consumer knows its position
    \* history
    handed,       \* how often a message was given to a task
    dropped       \* why a message was never to be delivered, for those of which that is so

busVars == <<backend, bus, last, gone, held, committed, attached, handed, dropped>>

BusTypeOK ==
    /\ backend \in Backends
    /\ bus \in {"new", "open", "closed"}
    /\ last \in 0 .. MaxMessages
    /\ gone \subseteq 1 .. last
    /\ held \in 0 .. last
    /\ committed \in {NoOffset} \cup 0 .. last
    /\ attached \in BOOLEAN
    /\ handed \in [Messages -> Nat]
    /\ dropped \in [Messages -> Reasons \cup {"no"}]

BusInit ==
    /\ backend \in Backends
    /\ bus = "new"
    /\ last = 0
    /\ gone = {}
    /\ held = 0
    /\ committed = NoOffset
    /\ attached = FALSE
    /\ handed = [m \in Messages |-> 0]
    /\ dropped = [m \in Messages |-> "no"]

Waiting == (1 .. last) \ (gone \cup {held})

Drop(ms, why) ==
    dropped' = [m \in Messages |-> IF m \in ms /\ handed[m] = 0 /\ dropped[m] = "no"
                                   THEN why ELSE dropped[m]]

-----------------------------------------------------------------------------
\* start

\* A new queue, or a connection, a channel and a durable queue.
QueueStart ==
    /\ backend \in {"asyncio", "rabbitmq"}
    /\ attached' = TRUE

\* A producer and a consumer, which does not know its position yet.
KafkaStart ==
    /\ backend = "kafka"
    /\ attached' = FALSE

BusStart ==
    /\ bus # "open"
    /\ bus' = "open"
    /\ QueueStart \/ KafkaStart
    /\ UNCHANGED <<backend, last, gone, held, committed, handed, dropped>>

\* The consumer's position is the group's offset, or else the end of the topic
\* ("latest") as it is by then.
Attach ==
    /\ bus = "open" /\ ~attached
    /\ attached' = TRUE
    /\ IF committed = NoOffset
       THEN gone' = 1 .. last /\ Drop(gone', "skipped")
       ELSE gone' = 1 .. committed /\ UNCHANGED dropped
    /\ UNCHANGED <<backend, bus, last, held, committed, handed>>

-----------------------------------------------------------------------------
\* publish raises before the first start.  AsyncioMessageBus takes a message
\* even after stop, which leaves behind a queue that nobody reads; the others
\* raise again.
QueueIsThere == backend = "asyncio" /\ bus # "new"
ChannelIsOpen == backend = "rabbitmq" /\ bus = "open"
ProducerIsThere == backend = "kafka" /\ bus = "open"
CanPublish == QueueIsThere \/ ChannelIsOpen \/ ProducerIsThere

Publish ==
    /\ last' = last + 1
    /\ IF backend = "asyncio" /\ bus = "closed"
       THEN gone' = gone \cup {last'} /\ dropped' = [dropped EXCEPT ![last'] = "unheard"]
       ELSE UNCHANGED <<gone, dropped>>
    /\ UNCHANGED <<backend, bus, held, committed, attached, handed>>

-----------------------------------------------------------------------------
\* subscribe gives the oldest message to _bus_worker, which makes a task of it
\* before anything else can run.
Oldest(m) ==
    /\ bus = "open" /\ attached /\ held = 0
    /\ m \in Waiting /\ \A n \in Waiting : m <= n

AsyncioYield(m) ==
    /\ backend = "asyncio"
    /\ gone' = gone \cup {m} /\ UNCHANGED held

\* The next message comes when this one has been acknowledged (prefetch).
RabbitYield(m) ==
    /\ backend = "rabbitmq"
    /\ held' = m /\ UNCHANGED gone

KafkaYield(m) ==
    /\ backend = "kafka"
    /\ gone' = gone \cup {m} /\ UNCHANGED held

Yield(m) ==
    /\ Oldest(m)
    /\ AsyncioYield(m) \/ RabbitYield(m) \/ KafkaYield(m)
    /\ handed' = [handed EXCEPT ![m] = @ + 1]
    /\ UNCHANGED <<backend, bus, last, committed, attached, dropped>>

\* A message that another program has published is no InboundMessage:
\* RabbitMQ's is rejected for good, Kafka's is behind the consumer.
YieldRaises(m) ==
    /\ Oldest(m) /\ backend # "asyncio"
    /\ gone' = gone \cup {m}
    /\ Drop({m}, "undecodable")
    /\ UNCHANGED <<backend, bus, last, held, committed, attached, handed>>

\* raw_msg.process() has been left and the acknowledgement has arrived.
Acknowledge ==
    /\ held # 0
    /\ gone' = gone \cup {held}
    /\ held' = 0
    /\ UNCHANGED <<backend, bus, last, committed, attached, handed, dropped>>

\* Kafka's consumer has taken all up to its position, and commits it every few
\* seconds.
Position == CHOOSE p \in 0 .. last : gone = 1 .. p

AutoCommit ==
    /\ backend = "kafka" /\ bus = "open" /\ attached
    /\ committed # Position
    /\ committed' = Position
    /\ UNCHANGED <<backend, bus, last, gone, held, attached, handed, dropped>>

-----------------------------------------------------------------------------
\* stop

\* The queue is drained.
AsyncioStop ==
    /\ backend = "asyncio"
    /\ gone' = 1 .. last
    /\ Drop(Waiting, "drained")
    /\ UNCHANGED <<held, committed>>

\* The broker gets back what is not acknowledged.
RabbitStop ==
    /\ backend = "rabbitmq"
    /\ held' = 0
    /\ UNCHANGED <<gone, committed, dropped>>

\* MUTANT of KafkaStop: the end of the topic is committed.
KafkaStopAtEnd ==
    /\ backend = "kafka"
    /\ committed' = last
    /\ UNCHANGED <<gone, held, dropped>>

\* The consumer commits its position.
KafkaStop ==
    /\ backend = "kafka"
    /\ committed' = IF attached THEN Position ELSE committed
    /\ UNCHANGED <<gone, held, dropped>>

BusStop ==
    /\ bus' = "closed"
    /\ AsyncioStop \/ RabbitStop \/ KafkaStop
    /\ UNCHANGED <<backend, last, attached, handed>>

\* The process dies, and with it asyncio's queue.
BusDies ==
    /\ bus' = IF bus = "new" THEN "new" ELSE "closed"
    /\ held' = 0
    /\ IF backend = "asyncio"
       THEN gone' = 1 .. last /\ Drop(Waiting, "died")
       ELSE UNCHANGED <<gone, dropped>>
    /\ UNCHANGED <<backend, last, committed, attached, handed>>

-----------------------------------------------------------------------------
\* What the transport still has to deliver, to this process or to another.
Deliverable == Waiting \cup {held}

\* No message is lost without a trace: one that has been published is still to be
\* delivered, or was given to a task, or was dropped in one of the ways in which
\* the transports drop messages.
Accounted ==
    \A m \in 1 .. last : m \in Deliverable \/ handed[m] > 0 \/ dropped[m] # "no"
=============================================================================
