---------------------------- MODULE SlackIntake ----------------------------
(***************************************************************************)
(* SlackChannel.  Events are taken side by side.  A message is marked with *)
(* eyes when it is taken, and the mark of the last message of a context is *)
(* swapped for a check mark when the bot writes in that context.           *)
(***************************************************************************)
EXTENDS Intake

VARIABLES
    botKnown,     \* auth_test told the bot's own id
    names,        \* users whose name is in _user_cache
    tracked,      \* _reaction_tracking: the post of a context, 0 for none
    marks,        \* the reactions of a post, on the platform
    swaps,        \* calls of _swap_reaction under way
    \* history
    wrote,        \* posts in whose context the bot wrote after they had the eyes
    early,        \* ... and before, while the call for the eyes was under way
    unmarked      \* posts for which a reaction's call failed, or that or a handler died

historyVars == <<wrote, early, unmarked>>
slackVars == <<botKnown, names, tracked, marks, swaps, historyVars>>
reactionVars == <<tracked, marks, swaps, historyVars>>

\* The context of a post: the chat, or the thread in a channel.
SlackContext(i) ==
    LET p == posts[i]
    IN  <<p.chat, IF p.chat \in direct THEN 0 ELSE IF p.root = 0 THEN i ELSE p.root>>

SlackContexts == Chats \X (0 .. MaxPosts)
Swap == [post : 1 .. MaxPosts, at : {"remove", "add"}]

SlackTypeOK ==
    /\ botKnown \in BOOLEAN
    /\ names \subseteq Users
    /\ tracked \in [SlackContexts -> 0 .. MaxPosts]
    /\ marks \in [1 .. MaxPosts -> SUBSET {"eyes", "check"}]
    /\ swaps \subseteq Swap
    /\ wrote \cup early \cup unmarked \subseteq 1 .. MaxPosts

SlackInit ==
    /\ botKnown = FALSE
    /\ names = {}
    /\ tracked = [c \in SlackContexts |-> 0]
    /\ marks = [i \in 1 .. MaxPosts |-> {}]
    /\ swaps = {}
    /\ wrote = {} /\ early = {} /\ unmarked = {}

\* A new process: the marks on the platform stay.
SlackConnect ==
    /\ Connect
    /\ botKnown' \in BOOLEAN
    /\ names' = {}
    /\ tracked' = [c \in SlackContexts |-> 0]
    /\ UNCHANGED <<marks, swaps, historyVars>>

SlackDisconnect ==
    /\ Disconnect
    /\ swaps' = {}
    /\ unmarked' = unmarked \cup {s.post : s \in swaps} \cup {t.d.post : t \in tasks}
    /\ UNCHANGED <<botKnown, names, tracked, marks, wrote, early>>

-----------------------------------------------------------------------------
\* Events.

\* _on_message up to the user's name.
OnSlackMessage(p) ==
    IF p.user = Self THEN "ignored"
    ELSE IF p.chat \notin direct /\ botKnown /\ ~p.mention THEN "ignored"
    ELSE "name"

\* MUTANT of SlackMessageStage: mentions in channels are handled here, too.
AnyMessageStage(d) ==
    LET p == PostOf(d)
    IN  IF p.chat \notin direct /\ ~p.mention THEN "ignored" ELSE OnSlackMessage(p)

\* handle_message of start: only direct messages.
SlackMessageStage(d) ==
    IF PostOf(d).chat \notin direct THEN "ignored" ELSE OnSlackMessage(PostOf(d))

\* handle_mention of start
SlackMentionStage(d) == OnSlackMessage(PostOf(d))

\* Its subtype, message_changed, is not handled.
SlackEditStage(d) == "ignored"

\* _handle_slash_command
SlackCommandStage(d) == "dispatch"

SlackEvent ==
    /\ \/ Take("message", SlackMessageStage(Event))
       \/ Take("mention", SlackMentionStage(Event))
       \/ Take("edit", SlackEditStage(Event))
       \/ Take("interaction", SlackCommandStage(Event))
    /\ UNCHANGED <<faults, slackVars>>

\* users_info unless the cache has the name; then the list, and the tracking of
\* a message that is taken.
AfterName(t, named) ==
    LET p == PostOf(t.d)
    IN  IF IsAllowed(p.user, named)
        THEN /\ Become(t, [t EXCEPT !.at = "react"])
             /\ tracked' = [tracked EXCEPT ![SlackContext(t.d.post)] = t.d.post]
        ELSE Become(t, [t EXCEPT !.at = "refuse"]) /\ UNCHANGED tracked

SlackName(t) ==
    /\ t.at = "name"
    /\ LET user == PostOf(t.d).user
       IN  \/ AfterName(t, TRUE) /\ names' = names \cup {user} /\ UNCHANGED faults
           \/ user \notin names /\ AfterName(t, FALSE) /\ Fault /\ UNCHANGED names
    /\ UNCHANGED <<botKnown, marks, swaps, historyVars>>

\* A command is one only when the mention before it could be stripped.
IsCommand(p) == p.text = "command" /\ (p.mention => botKnown)

SlackReact(t) ==
    /\ t.at = "react"
    /\ Become(t, [t EXCEPT !.at = IF IsCommand(PostOf(t.d)) THEN "dispatch" ELSE "files"])
    /\ \/ marks' = [marks EXCEPT ![t.d.post] = @ \cup {"eyes"}] /\ UNCHANGED <<faults, unmarked>>
       \/ Fault /\ unmarked' = unmarked \cup {t.d.post} /\ UNCHANGED marks
    /\ UNCHANGED <<botKnown, names, tracked, swaps, wrote, early>>

-----------------------------------------------------------------------------
\* Reactions.

\* _swap_reaction: pop, remove, add.
SwapReaction(c) ==
    /\ tracked' = [tracked EXCEPT ![c] = 0]
    /\ swaps' = IF tracked[c] = 0 THEN swaps
                ELSE swaps \cup {[post |-> tracked[c], at |-> "remove"]}

\* The router answers a message of the chat; a slash command has no reaction.
SlackDispatch(t) ==
    /\ Dispatch(t)
    /\ IF t.d.as = "interaction" THEN UNCHANGED <<tracked, swaps>>
       ELSE SwapReaction(SlackContext(t.d.post))
    /\ UNCHANGED <<botKnown, names, marks, historyVars>>

\* MUTANT of Unmark: the eyes stay.
UnmarkNothing(s) ==
    /\ s.at = "remove"
    /\ swaps' = (swaps \ {s}) \cup {[s EXCEPT !.at = "add"]}
    /\ UNCHANGED <<marks, unmarked, faults>>
    /\ UNCHANGED <<bound, posts, feed, up, since, tasks, direct, starts, edits, ended,
                   botKnown, names, tracked, wrote, early>>

\* _remove_reaction, _add_reaction: an error is logged.
Unmark(s) ==
    /\ s.at = "remove"
    /\ swaps' = (swaps \ {s}) \cup {[s EXCEPT !.at = "add"]}
    /\ \/ marks' = [marks EXCEPT ![s.post] = @ \ {"eyes"}] /\ UNCHANGED <<faults, unmarked>>
       \/ Fault /\ unmarked' = unmarked \cup {s.post} /\ UNCHANGED marks
    /\ UNCHANGED <<bound, posts, feed, up, since, tasks, direct, starts, edits, ended,
                   botKnown, names, tracked, wrote, early>>

Mark(s) ==
    /\ s.at = "add"
    /\ swaps' = swaps \ {s}
    /\ \/ marks' = [marks EXCEPT ![s.post] = @ \cup {"check"}] /\ UNCHANGED <<faults, unmarked>>
       \/ Fault /\ unmarked' = unmarked \cup {s.post} /\ UNCHANGED marks
    /\ UNCHANGED <<bound, posts, feed, up, since, tasks, direct, starts, edits, ended,
                   botKnown, names, tracked, wrote, early>>

\* Posts that a handler has in hand at one of the stages, or had in this start.
InHand(stages) == {t.d.post : t \in {u \in tasks : u.at \in stages}}
Handled == {e.d.post : e \in {x \in ended : x.start = starts /\ x.what \notin {"ignored", "refused"}}}

\* send_ai_message, send_ai_chunk: the bot has written in a context.  It is an
\* answer, or a reminder of a job, a heartbeat or a workflow's message, for which
\* nobody has posted anything.
Speak(c) ==
    /\ up
    /\ SwapReaction(c)
    /\ LET here == {i \in DOMAIN posts : SlackContext(i) = c}
       IN  /\ wrote' = wrote \cup (here \cap (Handled \cup InHand({"dispatch", "files", "publish"})))
           /\ early' = early \cup (here \cap InHand({"react"}))
    /\ UNCHANGED <<intakeVars, botKnown, names, marks, unmarked>>

SlackTask(t) ==
    \/ SlackName(t)
    \/ SlackReact(t)
    \/ SlackDispatch(t)
    \/ (Refuse(t) \/ NextFile(t) \/ Publish(t)) /\ UNCHANGED slackVars
=============================================================================
