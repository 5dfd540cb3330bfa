--------------------------- MODULE MCTurnDelivery ---------------------------
(***************************************************************************)
(* One chat with two users' messages to the agent, or one of them beside a  *)
(* message of a subagent, with and without streaming_enabled.              *)
(***************************************************************************)
EXTENDS TurnDelivery, TLC

CONSTANTS m1, m2, note, chat

MCTurns == {m1, m2, note}
MCChat == (m1 :> chat) @@ (m2 :> chat) @@ (note :> chat)

\* A user's chat, streamed or not; in a job's the setting does not matter.
MCConfigs ==
    {[streaming |-> TRUE, cron |-> {}], [streaming |-> FALSE, cron |-> {}],
     [streaming |-> TRUE, cron |-> {chat}]}

\* The two messages to the agent are alike.
TurnSymmetry == Permutations({m1, m2})
=============================================================================
