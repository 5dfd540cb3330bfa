---------------------------- MODULE DiscordIntake ----------------------------
(***************************************************************************)
(* DiscordChannel: messages that are direct or mention the bot, and edits  *)
(* that mention it, are taken; bots are not.  Slash commands are           *)
(* interactions, which nobody is refused.                                  *)
(***************************************************************************)
EXTENDS Intake

\* _on_message
OnDiscordMessage(p) ==
    IF ~IsAllowed(p.user, TRUE) THEN "refuse"
    ELSE IF p.text = "command" THEN "dispatch"
    ELSE "files"

\* on_message of start
DiscordStage(d) ==
    LET p == PostOf(d)
    IN  IF p.user = Self \/ (p.chat \notin direct /\ ~p.mention) THEN "ignored"
        ELSE OnDiscordMessage(p)

\* on_message_edit of start
DiscordEditStage(d) ==
    LET p == PostOf(d)
    IN  IF p.user = Self \/ ~p.mention THEN "ignored" ELSE OnDiscordMessage(p)

\* _handle_slash
DiscordSlashStage(d) == "dispatch"

DiscordMessage == Take("message", DiscordStage(Event)) /\ UNCHANGED faults
DiscordEdit == Take("edit", DiscordEditStage(Event)) /\ UNCHANGED faults
DiscordSlash == Take("interaction", DiscordSlashStage(Event)) /\ UNCHANGED faults

DiscordTask(t) == Refuse(t) \/ Dispatch(t) \/ NextFile(t) \/ Publish(t)
=============================================================================
