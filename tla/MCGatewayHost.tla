--------------------------- MODULE MCGatewayHost ---------------------------
(***************************************************************************)
(* A gateway with a WebSocket channel, its clients, and one other channel, *)
(* on each of the three transports.                                        *)
(***************************************************************************)
EXTENDS GatewayHost

CONSTANTS phone, laptop, disk, mail

MCTurns == Messages
\* Clients do not see the transport, so they come in one deployment only.
MCInstances ==
    {[backend |-> "asyncio", messages |-> 1, joins |-> 3, starts |-> 1, deaths |-> 0,
      faults |-> 1, beats |-> FALSE, durable |-> TRUE],
     [backend |-> "asyncio", messages |-> 2, joins |-> 0, starts |-> 2, deaths |-> 1,
      faults |-> 0, beats |-> FALSE, durable |-> TRUE],
     [backend |-> "rabbitmq", messages |-> 2, joins |-> 0, starts |-> 2, deaths |-> 1,
      faults |-> 1, beats |-> FALSE, durable |-> FALSE],
     [backend |-> "kafka", messages |-> 2, joins |-> 0, starts |-> 2, deaths |-> 1,
      faults |-> 1, beats |-> FALSE, durable |-> TRUE],
     [backend |-> "rabbitmq", messages |-> 1, joins |-> 0, starts |-> 1, deaths |-> 0,
      faults |-> 0, beats |-> TRUE, durable |-> TRUE]}
=============================================================================
