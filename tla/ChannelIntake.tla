--------------------------- MODULE ChannelIntake ---------------------------
(***************************************************************************)
(* The inbound handlers of the four chat platforms, one deployment at a    *)
(* time, from a post to the bus, over restarts and calls that fail.        *)
(***************************************************************************)
EXTENDS TelegramIntake, DiscordIntake, SlackIntake, MatrixIntake

vars == <<intakeVars, slackVars, matrixVars>>

\* Every variable has its type.
TypeOK == IntakeTypeOK /\ SlackTypeOK /\ MatrixTypeOK

Init == IntakeInit /\ SlackInit /\ MatrixInit

World == \E p \in bound.posts : PostIt(p)

Telegram ==
    /\ Platform = "telegram"
    /\ Connect \/ Disconnect \/ TelegramUpdate \/ \E t \in tasks : TelegramTask(t)
    /\ UNCHANGED <<slackVars, matrixVars>>

Discord ==
    /\ Platform = "discord"
    /\ \/ Connect \/ Disconnect
       \/ DiscordMessage \/ DiscordEdit \/ DiscordSlash
       \/ \E t \in tasks : DiscordTask(t)
    /\ UNCHANGED <<slackVars, matrixVars>>

Slack ==
    /\ Platform = "slack"
    /\ \/ SlackConnect \/ SlackDisconnect
       \/ SlackEvent
       \/ \E t \in tasks : SlackTask(t)
       \/ \E s \in swaps : Unmark(s) \/ Mark(s)
       \/ \E i \in DOMAIN posts : Speak(SlackContext(i))
    /\ UNCHANGED matrixVars

Matrix ==
    /\ Platform = "matrix"
    /\ \/ MatrixConnect
       \/ Disconnect /\ UNCHANGED matrixVars
       \/ MatrixText \/ MatrixMedia \/ MatrixInvite \/ Unsynced
       \/ \E t \in tasks : MatrixTask(t)
       \/ \E c \in Chats : Crowd(c)
    /\ UNCHANGED slackVars

Next ==
    \/ (World \/ \E i \in DOMAIN posts : EditIt(i) \/ Redeliver(i))
          /\ UNCHANGED <<slackVars, matrixVars>>
    \/ Telegram \/ Discord \/ Slack \/ Matrix

Spec == Init /\ [][Next]_vars

-----------------------------------------------------------------------------
\* Properties.

Taken(e) == e.what \in {"published", "answered"} /\ e.d.as # "invite"

\* A post becomes one message for the agent, or one command, for each time that
\* the platform tells of it: also when a mention in a Slack channel is reported as
\* two events, an update follows, or handlers run side by side.  It is taken again
\* by a Matrix channel that has started again, and as the second event of a mention
\* in a direct chat of Slack; neither channel remembers what it has had.
TakenOnce ==
    \A e, f \in {x \in ended : Taken(x)} :
        (e.d.post = f.d.post /\ e.d.rev = f.d.rev)
            => \/ e = f
               \/ Platform = "matrix" /\ e.start # f.start
               \/ Platform = "slack" /\ PostOf(e.d).chat \in direct /\ e.d.as # f.d.as

\* For whom the bot is.  A Telegram group has no mentions; media of Matrix needs none.
Named(p) == IF Platform = "matrix" THEN p.user \in bound.byId ELSE p.user \in bound.byId \cup bound.byName
Invited(p) == bound.byId \cup bound.byName = {} \/ Named(p)
Anywhere(p) ==
    \/ Platform = "telegram" \/ p.kind = "interaction" \/ p.mention
    \/ Platform = "matrix" /\ p.files # <<>>

\* Commands of Telegram and slash commands are for everyone.
Anyone(p) == p.kind = "interaction" \/ (Platform = "telegram" /\ p.text = "command")

\* The chat was of two, or had more, at some time of the start of an ending.
Was(two, e) ==
    LET chat == PostOf(e.d).chat
    IN  IF Platform = "matrix" THEN <<e.start, chat, two>> \in been ELSE (chat \in direct) = two

\* Why a message that is meant for the bot may be lost on it.  A call failed; or
\* it is an update, of which Slack takes none and Discord those with a mention; or
\* Slack delivers it as a mention as well; or Matrix drops, without a word, a file
\* that is too large, empty or without a link, and any file of an encrypted room.
Excused(e) ==
    LET p == PostOf(e.d)
    IN  \/ e.what = "failed" /\ faults > 0
        \/ e.what = "refused" /\ Platform = "slack" /\ p.user \in bound.byName /\ faults > 0
        \/ e.what = "ignored" /\ e.d.as = "edit" /\ (Platform = "slack" \/ ~p.mention)
        \/ e.what = "ignored" /\ Platform = "slack" /\ e.d.as = "message" /\ p.chat \notin direct
        \/ /\ e.what = "ignored" /\ Platform = "matrix" /\ p.files # <<>>
           /\ p.files[1] \in {"large", "empty", "unlinked"} \/ p.chat \in sealed \/ faults > 0

Whole(e) ==
    LET p == PostOf(e.d)
    IN  \A i \in DOMAIN p.files :
            i \in ContentBlocks(p, e.got) \cup e.noted \/ p.files[i] \in {"empty", "unlinked"}

\* What people on the list say to the bot reaches the agent, every file in it or
\* named, but for what is excused; and nothing else does, the bot's own messages
\* least of all.  In a Matrix room that was of two and had more in the same start
\* a text without a mention may be taken or not, whichever it is now.
MeantIsTaken ==
    \A e \in {x \in ended : x.d.as # "invite"} :
        LET p == PostOf(e.d)
        IN  IF Taken(e)
            THEN /\ p.user # Self
                 /\ Anywhere(p) \/ Was(TRUE, e)
                 /\ Invited(p) \/ Anyone(p)
                 /\ e.what = "published" => Whole(e)
            ELSE (p.user # Self /\ (Anywhere(p) \/ ~Was(FALSE, e)) /\ Invited(p)) => Excused(e)

\* Alone in its context, and told of once.
Alone(i) == \A j \in DOMAIN posts \ {i} : SlackContext(j) # SlackContext(i)
Once(e) ==
    /\ \A t \in tasks : t.d.post # e.d.post
    /\ \A f \in ended : f.d.post = e.d.post => f = e \/ f.what \in {"ignored", "refused"}

\* The reaction to a message that was told of once and is alone in its context is
\* the eyes until the bot writes there, be it the answer or, before that, what a
\* job has to say, and the check mark from then on; unless a call failed, or the
\* bot wrote while the eyes were being put.
ReactionSettles ==
    Platform = "slack" =>
        \A e \in {x \in ended : Taken(x) /\ x.start = starts /\ x.d.as # "interaction"} :
            LET i == e.d.post
            IN  (Alone(i) /\ Once(e) /\ i \notin unmarked \cup early /\ (\A s \in swaps : s.post # i))
                    => marks[i] = IF e.what = "answered" \/ i \in wrote
                                  THEN {"check"} ELSE {"eyes"}

\* matrix.py 511: "Drop events that arrived before startup (nio replays the
\* sync window)."
NoCatchUp ==
    \A e \in ended : Platform = "matrix" /\ Taken(e) => e.d.post > e.since
=============================================================================
