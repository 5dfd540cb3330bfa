------------------------------- MODULE Intake -------------------------------
(***************************************************************************)
(* The inbound side that the channels share.  Users post on a platform;    *)
(* the platform delivers what was posted, or edited, to the channel when   *)
(* it is connected; a handler, which may wait for calls of the platform,   *)
(* drops it, refuses it, has the command router answer it, or publishes    *)
(* it.  A module for each platform says what its handlers do.              *)
(***************************************************************************)
EXTENDS Integers, Sequences, FiniteSets

CONSTANTS
    Users,        \* people on the platform
    Self,         \* the bot's own account
    Chats,        \* direct chats and groups
    MaxPosts,     \* bound: posts
    Instances     \* deployments: the platform, allow_from by id and by user
                  \* name, what is posted, the chats that are direct at first, those the
                  \* bot is in; as bounds the posts, the starts, the changes on the platform (it tells
                  \* of a post again, or a chat has more members or fewer), the calls that
                  \* fail

Texts == {"none", "words", "command"}
FileKinds == {"good", "empty", "large", "unlinked"}

\* What is posted; root is the post whose thread it is in, 0 for none.
Posts == [kind : {"message", "interaction", "invite"}, user : Users \cup {Self},
          chat : Chats, root : 0 .. MaxPosts, mention : BOOLEAN,
          text : Texts, files : Seq(FileKinds)]

ASSUME IntakeAssumption ==
    /\ MaxPosts \in Nat
    /\ Self \notin Users
    /\ \A i \in Instances :
        /\ i.byId \cup i.byName \subseteq Users
        /\ i.posts \subseteq Posts
        /\ i.direct \subseteq Chats /\ i.inside \subseteq Chats
        /\ i.most \in 0 .. MaxPosts /\ {i.starts, i.edits, i.faults} \subseteq Nat

\* A message of Telegram or Matrix has one file at most.  The bot does not use its
\* own commands, and Telegram does not tell it what it has said.
ASSUME PlatformAssumption ==
    \A i \in Instances : \A p \in i.posts :
        /\ i.platform \in {"telegram", "matrix"} => Len(p.files) <= 1
        /\ p.user = Self => p.kind # "interaction" /\ i.platform # "telegram"

VARIABLES
    bound,        \* the deployment
    posts,        \* what was posted, in order: the clock of the platform
    feed,         \* what the platform has to deliver
    up,           \* the channel is connected
    since,        \* how much was posted when it started
    tasks,        \* handlers under way
    direct,       \* chats with two members
    starts, edits, faults,
    \* history
    ended         \* what became of a delivery

intakeVars == <<bound, posts, feed, up, since, tasks, direct, starts, edits, faults, ended>>

Platform == bound.platform

\* A delivery: the post, 0 or which time it is that the platform tells of a post
\* again, and what the platform calls it.
Delivery == [post : 1 .. MaxPosts, rev : Nat,
             as : {"message", "mention", "edit", "interaction", "invite"}]

Stages == {"refuse", "name", "react", "dispatch", "files", "publish", "join"}
Ends == {"ignored", "refused", "answered", "published", "failed"}

\* A handler: the next file, the files it holds and those it names in the text.
Task == [d : Delivery, at : Stages, next : Nat, got : SUBSET Nat, noted : SUBSET Nat]
Ending == [d : Delivery, what : Ends, got : SUBSET Nat, noted : SUBSET Nat,
           start : Nat, since : Nat]

IntakeTypeOK ==
    /\ bound \in Instances
    /\ posts \in Seq(Posts) /\ Len(posts) <= MaxPosts
    /\ feed \in Seq(Delivery)
    /\ up \in BOOLEAN
    /\ since \in 0 .. MaxPosts
    /\ \A t \in tasks :
        /\ t.d \in Delivery /\ t.at \in Stages
        /\ t.next \in 1 .. Len(posts[t.d.post].files) + 1
        /\ t.got \cup t.noted \subseteq 1 .. Len(posts[t.d.post].files)
    /\ direct \subseteq Chats
    /\ starts \in 0 .. bound.starts
    /\ edits \in 0 .. bound.edits
    /\ faults \in 0 .. bound.faults
    /\ \A e \in ended : e.d \in Delivery /\ e.what \in Ends

IntakeInit ==
    /\ bound \in Instances
    /\ posts = <<>> /\ feed = <<>>
    /\ up = FALSE /\ since = 0
    /\ tasks = {}
    /\ direct = bound.direct
    /\ starts = 0 /\ edits = 0 /\ faults = 0
    /\ ended = {}

Fault == faults < bound.faults /\ faults' = faults + 1

PostOf(d) == posts[d.post]

\* is_allowed: the user name counts if the channel has it.
IsAllowed(user, named) ==
    \/ bound.byId \cup bound.byName = {}
    \/ user \in bound.byId
    \/ named /\ user \in bound.byName

\* make_attachment, attachments_to_content_blocks: what of the files the agent
\* is given.  A file without bytes has neither data nor a link and is left out.
ContentBlocks(p, got) == {i \in got : p.files[i] # "empty"}

-----------------------------------------------------------------------------
\* The platform.

\* What a post is delivered as.  A mention in a Slack channel is two events, and
\* in a direct chat it may be.
Delivered(p) ==
    IF Platform = "slack" /\ p.kind = "message" /\ p.mention
    THEN {<<"message", "mention">>} \cup (IF p.chat \in direct THEN {<<"message">>} ELSE {})
    ELSE {<<p.kind>>}

Deliveries(i, as) == [k \in DOMAIN as |-> [post |-> i, rev |-> 0, as |-> as[k]]]

PostIt(p) ==
    /\ Len(posts) < bound.most
    /\ p.root <= Len(posts)
    /\ posts' = Append(posts, p)
    /\ \E as \in Delivered(p) : feed' = feed \o Deliveries(Len(posts'), as)
    /\ UNCHANGED <<bound, up, since, tasks, direct, starts, edits, faults, ended>>

\* The platform tells of a post again.
TellAgain(i, as) ==
    /\ edits < bound.edits
    /\ i \in DOMAIN posts /\ posts[i].kind = "message"
    /\ edits' = edits + 1
    /\ feed' = Append(feed, [post |-> i, rev |-> edits', as |-> as])
    /\ UNCHANGED <<bound, posts, up, since, tasks, direct, starts, faults, ended>>

\* An update of a post: it was edited or, in Discord, only has a preview or is
\* pinned.  Telegram is not asked for updates; for Matrix an edit is one more post.
EditIt(i) == Platform \in {"discord", "slack"} /\ posts[i].user # Self /\ TellAgain(i, "edit")

\* Slack delivers an event once more that was not acknowledged in time.
Redeliver(i) ==
    /\ Platform = "slack"
    /\ \E as \in {"message"} \cup (IF posts[i].mention THEN {"mention"} ELSE {}) : TellAgain(i, as)

-----------------------------------------------------------------------------
\* The channel.

\* What is delivered after a start: Matrix syncs the end of the timeline again.
Pending ==
    IF Platform = "matrix"
    THEN {[k \in 1 .. Len(posts) - n |-> [post |-> n + k, rev |-> 0, as |-> posts[n + k].kind]] :
             n \in 0 .. Len(posts)}
    ELSE {<<>>}

Connect ==
    /\ ~up /\ starts < bound.starts
    /\ starts' = starts + 1
    /\ since' = Len(posts)
    /\ \/ up' = TRUE /\ UNCHANGED faults
       \/ UNCHANGED up /\ Fault
    /\ feed' \in Pending
    /\ UNCHANGED <<bound, posts, tasks, direct, edits, ended>>

\* The channel is stopped and its process ends, or it dies.
Disconnect ==
    /\ up
    /\ up' = FALSE
    /\ tasks' = {}
    /\ UNCHANGED <<bound, posts, feed, since, direct, starts, edits, faults, ended>>

Begun(d, stage) == [d |-> d, at |-> stage, next |-> 1, got |-> {}, noted |-> {}]

End(t, what) == [d |-> t.d, what |-> what, got |-> t.got, noted |-> t.noted,
                 start |-> starts, since |-> since]

\* Telegram and Matrix run a handler to its end before they take the next event.
Free == Platform \in {"telegram", "matrix"} => tasks = {}

\* The event that is delivered next.
Event == Head(feed)

\* A handler begins at a stage, or drops the event at once.
Take(as, stage) ==
    /\ up /\ Free
    /\ feed # <<>> /\ Event.as = as
    /\ feed' = Tail(feed)
    /\ IF stage = "ignored"
       THEN ended' = ended \cup {End(Begun(Event, "publish"), "ignored")} /\ UNCHANGED tasks
       ELSE tasks' = tasks \cup {Begun(Event, stage)} /\ UNCHANGED ended
    /\ UNCHANGED <<bound, posts, up, since, direct, starts, edits>>

Become(t, u) ==
    /\ tasks' = (tasks \ {t}) \cup {u}
    /\ UNCHANGED <<bound, posts, feed, up, since, direct, starts, edits, ended>>

Over(t, what) ==
    /\ tasks' = tasks \ {t}
    /\ ended' = ended \cup {End(t, what)}
    /\ UNCHANGED <<bound, posts, feed, up, since, direct, starts, edits>>

\* The user is told; that this fails changes nothing.
Refuse(t) ==
    /\ t.at = "refuse"
    /\ Over(t, "refused") /\ UNCHANGED faults

\* CommandRouter.dispatch and the answer to the chat.
Dispatch(t) ==
    /\ t.at = "dispatch"
    /\ Over(t, "answered") /\ UNCHANGED faults

Publish(t) ==
    /\ t.at = "publish"
    /\ \/ Over(t, "published") /\ UNCHANGED faults
       \/ Over(t, "failed") /\ Fault

\* One file after the other: too large, saved, failed; then the message goes out.
FilesDone(t) == t.next > Len(PostOf(t.d).files)

\* MUTANT of Past: a file counts twice.
PastTwo(t) == [t EXCEPT !.next = @ + 2]

Past(t) == [t EXCEPT !.next = @ + 1]
Held(t) == [Past(t) EXCEPT !.got = @ \cup {t.next}]
Noted(t) == [Past(t) EXCEPT !.noted = @ \cup {t.next}]

\* MUTANT of NextFile: too large a file is passed over without a word.
NextFileSilent(t) ==
    /\ t.at = "files"
    /\ IF FilesDone(t) THEN Become(t, [t EXCEPT !.at = "publish"]) /\ UNCHANGED faults
       ELSE LET file == PostOf(t.d).files[t.next]
            IN  \/ file = "large" /\ Become(t, Past(t)) /\ UNCHANGED faults
                \/ file = "unlinked" /\ Become(t, Past(t)) /\ UNCHANGED faults
                \/ file \in {"good", "empty"} /\ Become(t, Held(t)) /\ UNCHANGED faults
                \/ file \in {"good", "empty"} /\ Become(t, Noted(t)) /\ Fault

NextFile(t) ==
    /\ t.at = "files"
    /\ IF FilesDone(t) THEN Become(t, [t EXCEPT !.at = "publish"]) /\ UNCHANGED faults
       ELSE LET file == PostOf(t.d).files[t.next]
            IN  \/ file = "large" /\ Become(t, Noted(t)) /\ UNCHANGED faults
                \/ file = "unlinked" /\ Become(t, Past(t)) /\ UNCHANGED faults
                \/ file \in {"good", "empty"} /\ Become(t, Held(t)) /\ UNCHANGED faults
                \/ file \in {"good", "empty"} /\ Become(t, Noted(t)) /\ Fault
=============================================================================
