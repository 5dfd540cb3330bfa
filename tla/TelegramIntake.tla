--------------------------- MODULE TelegramIntake ---------------------------
(***************************************************************************)
(* TelegramChannel: commands go to the router whoever sends them; text and *)
(* media go to the bus for who is on the list, and a download that raises  *)
(* ends the handler.                                                       *)
(***************************************************************************)
EXTENDS Intake

\* _handle_command, _handle_message, _handle_attachment, by the filters of start.
\* A command is a text; a caption is none.
TelegramStage(d) ==
    LET p == PostOf(d)
    IN  IF p.text = "command" /\ p.files = <<>> THEN "dispatch"
        ELSE IF ~IsAllowed(p.user, TRUE) THEN "refuse"
        ELSE IF p.files # <<>> THEN "files"
        ELSE "publish"

TelegramUpdate == Take("message", TelegramStage(Event)) /\ UNCHANGED faults

\* A message has one file; size is not looked at.
TelegramDownload(t) ==
    /\ t.at = "files"
    /\ \/ Become(t, [Held(t) EXCEPT !.at = "publish"]) /\ UNCHANGED faults
       \/ Over(t, "failed") /\ Fault

TelegramTask(t) == Refuse(t) \/ Dispatch(t) \/ TelegramDownload(t) \/ Publish(t)
=============================================================================
