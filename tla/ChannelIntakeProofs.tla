------------------------ MODULE ChannelIntakeProofs ------------------------
(***************************************************************************)
(* What TLC checks of ChannelIntake with two posts, proved for all         *)
(* platforms, deployments, posts, updates, starts and failures.            *)
(***************************************************************************)
EXTENDS ChannelIntake, SequenceTheorems, TLAPS

-----------------------------------------------------------------------------
\* Types.

HostTyped ==
    /\ bound \in Instances
    /\ posts \in Seq(Posts) /\ Len(posts) <= MaxPosts
    /\ up \in BOOLEAN /\ since \in 0 .. MaxPosts
    /\ starts \in Nat /\ edits \in Nat /\ faults \in Nat
    /\ direct \subseteq Chats
WorkTyped == feed \in Seq(Delivery) /\ tasks \subseteq Task /\ ended \subseteq Ending

Typed == HostTyped /\ WorkTyped

\* As what the platform may tell of a post again.
Again(i, how) ==
    \/ how = "edit" /\ Platform \in {"discord", "slack"}
    \/ Platform = "slack" /\ (how = "message" \/ (how = "mention" /\ posts[i].mention))

\* What a step does with the deliveries.
Moves ==
    \/ \E p \in bound.posts : PostIt(p)
    \/ \E i \in DOMAIN posts : \E how \in {"edit", "message", "mention"} :
          Again(i, how) /\ TellAgain(i, how)
    \/ Connect
    \/ Disconnect
    \/ \E as \in {"message", "mention", "edit", "interaction", "invite"} :
        \E stage \in Stages \cup {"ignored"} : Take(as, stage)
    \/ \E t \in tasks : \E u \in Task : u.d = t.d /\ Become(t, u)
    \/ \E t \in tasks : \E what \in Ends : Over(t, what)
    \/ /\ up /\ Platform = "matrix" /\ feed # <<>> /\ feed' = Tail(feed)
       /\ UNCHANGED <<bound, posts, up, since, tasks, direct, starts, edits, ended>>
    \/ /\ UNCHANGED <<bound, posts, feed, up, since, tasks, starts, ended>>
       /\ direct' \subseteq Chats /\ (Platform # "matrix" => direct' = direct)
       /\ edits' \in Nat /\ edits <= edits'

LEMMA TaskFields ==
    ASSUME NEW t \in Task
    PROVE  /\ \A s \in Stages : [t EXCEPT !.at = s] \in Task /\ [t EXCEPT !.at = s].d = t.d
           /\ Past(t) \in Task /\ Past(t).d = t.d
           /\ Held(t) \in Task /\ Held(t).d = t.d
           /\ Noted(t) \in Task /\ Noted(t).d = t.d
<1>0. /\ t.d \in Delivery /\ t.at \in Stages /\ t.next \in Nat /\ t.next + 1 \in Nat
      /\ t.got \in SUBSET Nat /\ t.noted \in SUBSET Nat
      /\ t = [d |-> t.d, at |-> t.at, next |-> t.next, got |-> t.got, noted |-> t.noted]
  BY DEF Task
<1>1. \A s \in Stages :
        [t EXCEPT !.at = s] = [d |-> t.d, at |-> s, next |-> t.next, got |-> t.got,
                               noted |-> t.noted]
  BY <1>0
<1>2. Past(t) = [d |-> t.d, at |-> t.at, next |-> t.next + 1, got |-> t.got, noted |-> t.noted]
  BY <1>0 DEF Past
<1>3. Held(t) = [d |-> t.d, at |-> t.at, next |-> t.next + 1, got |-> t.got \cup {t.next},
                 noted |-> t.noted]
  <2>1. Held(t) = [[d |-> t.d, at |-> t.at, next |-> t.next + 1, got |-> t.got, noted |-> t.noted]
                    EXCEPT !.got = @ \cup {t.next}]
    BY <1>2, Zenon DEF Held
  <2> QED
    BY <2>1
<1>4. Noted(t) = [d |-> t.d, at |-> t.at, next |-> t.next + 1, got |-> t.got,
                  noted |-> t.noted \cup {t.next}]
  <2>1. Noted(t) = [[d |-> t.d, at |-> t.at, next |-> t.next + 1, got |-> t.got, noted |-> t.noted]
                    EXCEPT !.noted = @ \cup {t.next}]
    BY <1>2, Zenon DEF Noted
  <2> QED
    BY <2>1
<1> QED
  BY <1>0, <1>1, <1>2, <1>3, <1>4 DEF Task

LEMMA NextFileMoves ==
    ASSUME NEW t \in Task, NextFile(t)
    PROVE  \E u \in Task : u.d = t.d /\ Become(t, u)
BY TaskFields DEF NextFile, Stages

LEMMA StepMoves ==
    ASSUME Typed, [Next]_vars
    PROVE  Moves
<1>0. tasks \subseteq Task
  BY DEF Typed, WorkTyped
<1>9. direct \subseteq Chats /\ edits \in Nat /\ edits <= edits
  BY DEF Typed, HostTyped
<1>1. CASE World \/ \E i \in DOMAIN posts : EditIt(i) \/ Redeliver(i)
  <2>1. ASSUME NEW i \in DOMAIN posts, EditIt(i) \/ Redeliver(i)
        PROVE  \E how \in {"edit", "message", "mention"} : Again(i, how) /\ TellAgain(i, how)
    <3>1. CASE EditIt(i)
      BY <3>1 DEF EditIt, Again
    <3>2. CASE Redeliver(i)
      BY <3>2 DEF Redeliver, Again
    <3> QED
      BY <2>1, <3>1, <3>2
  <2> QED
    BY <1>1, <2>1 DEF World, Moves
<1>2. ASSUME Telegram PROVE Moves
  <2>1. CASE Connect \/ Disconnect
    BY <2>1 DEF Moves
  <2>2. CASE TelegramUpdate
    BY <2>2 DEF TelegramUpdate, TelegramStage, Moves, Stages
  <2>3. ASSUME NEW t \in tasks, TelegramTask(t) PROVE Moves
    <3>1. [Held(t) EXCEPT !.at = "publish"] \in Task /\ [Held(t) EXCEPT !.at = "publish"].d = t.d
      BY <1>0, TaskFields DEF Stages
    <3>2. TelegramDownload(t) => Moves
      BY <3>1 DEF TelegramDownload, Moves, Ends
    <3> QED
      BY <2>3, <3>2 DEF TelegramTask, Refuse, Dispatch, Publish, Moves, Ends
  <2> QED
    BY <1>2, <2>1, <2>2, <2>3 DEF Telegram
<1>3. ASSUME Discord PROVE Moves
  <2>1. CASE Connect \/ Disconnect
    BY <2>1 DEF Moves
  <2>2. CASE DiscordMessage
    BY <2>2 DEF DiscordMessage, DiscordStage, OnDiscordMessage, Moves, Stages
  <2>3. CASE DiscordEdit
    BY <2>3 DEF DiscordEdit, DiscordEditStage, OnDiscordMessage, Moves, Stages
  <2>4. CASE DiscordSlash
    BY <2>4 DEF DiscordSlash, DiscordSlashStage, Moves, Stages
  <2>5. ASSUME NEW t \in tasks, DiscordTask(t) PROVE Moves
    <3>1. NextFile(t) => Moves
      BY <1>0, NextFileMoves DEF Moves
    <3> QED
      BY <2>5, <3>1 DEF DiscordTask, Refuse, Dispatch, Publish, Moves, Ends
  <2> QED
    BY <1>3, <2>1, <2>2, <2>3, <2>4, <2>5 DEF Discord
<1>4. ASSUME Slack PROVE Moves
  <2>1. CASE SlackConnect \/ SlackDisconnect
    BY <2>1 DEF SlackConnect, SlackDisconnect, Moves
  <2>2. CASE SlackEvent
    BY <2>2 DEF SlackEvent, SlackMessageStage, SlackMentionStage, SlackEditStage,
       SlackCommandStage, OnSlackMessage, Moves, Stages
  <2>3. ASSUME NEW t \in tasks, SlackTask(t) PROVE Moves
    <3>1. CASE NextFile(t)
      BY <1>0, <3>1, NextFileMoves DEF Moves
    <3>2. CASE SlackName(t) \/ SlackReact(t)
      <4>1. \E s \in Stages : Become(t, [t EXCEPT !.at = s])
        BY <3>2 DEF SlackName, AfterName, SlackReact, Stages
      <4> QED
        BY <1>0, <4>1, TaskFields DEF Moves
    <3> QED
      BY <2>3, <3>1, <3>2 DEF SlackTask, SlackDispatch, Refuse, Dispatch, Publish, Moves, Ends
  <2>4. CASE \E s \in swaps : Unmark(s) \/ Mark(s)
    BY <1>9, <2>4 DEF Unmark, Mark, Moves
  <2>5. CASE \E i \in DOMAIN posts : Speak(SlackContext(i))
    BY <1>9, <2>5 DEF Speak, intakeVars, Moves
  <2> QED
    BY <1>4, <2>1, <2>2, <2>3, <2>4, <2>5 DEF Slack
<1>5. ASSUME Matrix PROVE Moves
  <2>1. CASE MatrixConnect \/ Disconnect
    BY <2>1 DEF MatrixConnect, Moves
  <2>2. CASE MatrixText
    BY <2>2 DEF MatrixText, MatrixTextStage, Moves, Stages
  <2>3. CASE MatrixMedia
    BY <2>3 DEF MatrixMedia, MatrixMediaStage, Moves, Stages
  <2>4. CASE MatrixInvite
    BY <2>4 DEF MatrixInvite, MatrixInviteStage, Moves, Stages
  <2>5. CASE Unsynced
    BY <2>5 DEF Unsynced, Moves
  <2>6. ASSUME NEW t \in tasks, MatrixTask(t) PROVE Moves
    <3>1. [Held(t) EXCEPT !.at = "publish"] \in Task /\ [Held(t) EXCEPT !.at = "publish"].d = t.d
      BY <1>0, TaskFields DEF Stages
    <3>2. MatrixDownload(t) => Moves
      BY <3>1 DEF MatrixDownload, Moves, Ends
    <3> QED
      BY <2>6, <3>2 DEF MatrixTask, Join, Dispatch, Publish, Moves, Ends
  <2>7. CASE \E c \in Chats : Crowd(c)
    <3>1. edits + 1 \in Nat /\ edits <= edits + 1
      BY <1>9
    <3> QED
      BY <1>9, <2>7, <3>1 DEF Crowd, Moves
  <2> QED
    BY <1>5, <2>1, <2>2, <2>3, <2>4, <2>5, <2>6, <2>7 DEF Matrix
<1>6. CASE UNCHANGED vars
  BY <1>6, <1>9 DEF vars, intakeVars, Moves
<1> QED
  BY <1>1, <1>2, <1>3, <1>4, <1>5, <1>6 DEF Next

LEMMA FaultCounts == ASSUME HostTyped, Fault PROVE faults' \in Nat /\ faults' > 0
BY DEF Fault, HostTyped

\* Only these count the calls that failed.
LEMMA FaultsGrow ==
    ASSUME HostTyped, [Next]_vars
    PROVE  faults' \in Nat /\ faults <= faults'
<1>0. faults \in Nat /\ (Fault => faults' \in Nat /\ faults <= faults')
  BY DEF HostTyped, Fault
<1>1. CASE UNCHANGED faults
  BY <1>0, <1>1
<1>2. CASE Fault
  BY <1>0, <1>2
<1>3. ASSUME NEW t PROVE NextFile(t) \/ Publish(t) \/ Refuse(t) \/ Dispatch(t)
                            => Fault \/ UNCHANGED faults
  BY DEF NextFile, Publish, Refuse, Dispatch
<1>4. CASE World \/ (\E i \in DOMAIN posts : EditIt(i) \/ Redeliver(i))
  BY <1>1, <1>4 DEF World, PostIt, EditIt, Redeliver, TellAgain
<1>5. CASE Telegram
  BY <1>1, <1>2, <1>3, <1>5 DEF Telegram, Connect, Disconnect, TelegramUpdate, TelegramTask,
     TelegramDownload
<1>6. CASE Discord
  BY <1>1, <1>2, <1>3, <1>6 DEF Discord, Connect, Disconnect, DiscordMessage, DiscordEdit,
     DiscordSlash, DiscordTask
<1>7. CASE Slack
  <2>1. ASSUME NEW t \in tasks, SlackTask(t) PROVE Fault \/ UNCHANGED faults
    BY <1>3, <2>1 DEF SlackTask, SlackName, SlackReact, SlackDispatch
  <2>2. CASE \E s \in swaps : Unmark(s) \/ Mark(s)
    BY <1>1, <1>2, <2>2 DEF Unmark, Mark
  <2>3. CASE \E i \in DOMAIN posts : Speak(SlackContext(i))
    BY <1>1, <2>3 DEF Speak, intakeVars
  <2> QED
    BY <1>1, <1>2, <1>7, <2>1, <2>2, <2>3 DEF Slack, SlackConnect, SlackDisconnect, Connect,
       Disconnect, SlackEvent
<1>8. CASE Matrix
  <2>1. ASSUME NEW t \in tasks, MatrixTask(t) PROVE Fault \/ UNCHANGED faults
    BY <1>3, <2>1 DEF MatrixTask, MatrixDownload, Join
  <2> QED
    BY <1>1, <1>2, <1>8, <2>1 DEF Matrix, MatrixConnect, Connect, Disconnect, MatrixText,
       MatrixMedia, MatrixInvite, Unsynced, Crowd
<1> QED
  BY <1>1, <1>4, <1>5, <1>6, <1>7, <1>8 DEF Next, vars, intakeVars

-----------------------------------------------------------------------------
\* Deliveries.

\* What the platform may call a post.
Called(as, p) ==
    \/ as = p.kind
    \/ as = "mention" /\ Platform = "slack" /\ p.kind = "message" /\ p.mention

LEMMA DeliveriesAre ==
    ASSUME NEW p \in Posts, NEW i \in 1 .. MaxPosts, NEW told \in Delivered(p)
    PROVE  /\ Deliveries(i, told) \in Seq(Delivery)
           /\ \A k, l \in DOMAIN Deliveries(i, told) :
                Deliveries(i, told)[k] = Deliveries(i, told)[l] => k = l
           /\ \A k \in DOMAIN Deliveries(i, told) :
                /\ Deliveries(i, told)[k].post = i /\ Deliveries(i, told)[k].rev = 0
                /\ Deliveries(i, told)[k].as # "edit" /\ Called(Deliveries(i, told)[k].as, p)
<1>0. p.kind \in {"message", "interaction", "invite"}
  BY DEF Posts
<1> DEFINE D == [k \in DOMAIN told |-> [post |-> i, rev |-> 0, as |-> told[k]]]
<1>1. Deliveries(i, told) = D
  BY DEF Deliveries
<1> DEFINE Right(d) ==
            /\ d \in Delivery /\ d.post = i /\ d.rev = 0 /\ d.as # "edit" /\ Called(d.as, p)
           Fine(s) == /\ s \in Seq(Delivery)
                      /\ \A k, l \in DOMAIN s : s[k] = s[l] => k = l
                      /\ \A k \in DOMAIN s : Right(s[k])
<1>a. ASSUME NEW x, NEW y, Right(x), Right(y), x # y PROVE Fine(<<x, y>>)
  <2>1. /\ <<x, y>> \in Seq(Delivery) /\ Len(<<x, y>>) = 2 /\ DOMAIN <<x, y>> = 1 .. 2
        /\ <<x, y>>[1] = x /\ <<x, y>>[2] = y
    BY <1>a
  <2> QED
    BY <1>a, <2>1
<1>b. ASSUME NEW x, Right(x) PROVE Fine(<<x>>)
  <2>1. <<x>> \in Seq(Delivery) /\ Len(<<x>>) = 1 /\ DOMAIN <<x>> = {1} /\ <<x>>[1] = x
    BY <1>b
  <2> QED
    BY <1>b, <2>1
<1>2. ASSUME p.kind = "message", Platform = "slack", p.mention,
             told = <<"message", "mention">>
      PROVE  Fine(D)
  <2> DEFINE x == [post |-> i, rev |-> 0, as |-> "message"]
             y == [post |-> i, rev |-> 0, as |-> "mention"]
  <2>1. D = <<x, y>>
    BY <1>2
  <2>2. Right(x) /\ Right(y) /\ x # y
    BY <1>2 DEF Called, Delivery
  <2> HIDE DEF x, y, D, Fine, Right
  <2> QED
    BY <1>a, <2>1, <2>2
<1>3. ASSUME told = <<p.kind>> PROVE Fine(D)
  <2> DEFINE x == [post |-> i, rev |-> 0, as |-> p.kind]
  <2>1. D = <<x>>
    BY <1>3
  <2>2. Right(x)
    BY <1>0 DEF Called, Delivery
  <2> HIDE DEF x, D, Fine, Right
  <2> QED
    BY <1>b, <2>1, <2>2
<1>4. Fine(D)
  <2>1. \/ p.kind = "message" /\ Platform = "slack" /\ p.mention /\ told = <<"message", "mention">>
        \/ told = <<p.kind>>
    BY DEF Delivered
  <2> QED
    BY <1>2, <1>3, <2>1
<1> HIDE DEF D
<1> QED
  BY <1>1, <1>4

\* A delivery is of a post; when the platform tells of it again, that is counted.
Known(d) ==
    /\ d.post \in 1 .. Len(posts)
    /\ d.rev \in 0 .. edits
    /\ IF d.as = "edit"
       THEN d.rev # 0 /\ PostOf(d).kind = "message"
       ELSE Called(d.as, PostOf(d)) /\ (d.rev # 0 => Platform = "slack")

InFeed(d) == \E i \in 1 .. Len(feed) : feed[i] = d
AllKnown ==
    /\ \A d : InFeed(d) => Known(d)
    /\ \A t \in tasks : Known(t.d)
    /\ \A e \in ended : Known(e.d)

LEMMA KnownStays ==
    ASSUME Typed, Moves, NEW d, Known(d)
    PROVE  Known(d)'
<1>1. /\ bound' = bound /\ edits' \in Nat /\ edits <= edits' /\ edits \in Nat
      /\ Len(posts) <= Len(posts)' /\ \A i \in 1 .. Len(posts) : posts'[i] = posts[i]
      /\ Len(posts)' \in Nat /\ Len(posts) \in Nat
  <2>1. CASE \E p \in bound.posts : PostIt(p)
    <3>1. PICK p \in bound.posts : PostIt(p)
      BY <2>1
    <3>2. p \in Posts
      BY IntakeAssumption DEF Typed, HostTyped
    <3> QED
      BY <3>1, <3>2 DEF PostIt, Typed, HostTyped
  <2>2. CASE \E i \in DOMAIN posts : \E how \in {"edit", "message", "mention"} : TellAgain(i, how)
    BY <2>2 DEF TellAgain, Typed, HostTyped
  <2> QED
    BY <2>1, <2>2 DEF Moves, Connect, Disconnect, Take, Become, Over, Typed, HostTyped, Platform
<1>2. /\ d.post \in 1 .. Len(posts)' /\ d.rev \in 0 .. edits'
      /\ PostOf(d)' = PostOf(d)
  BY <1>1 DEF Known, PostOf
<1> QED
  BY <1>1, <1>2 DEF Known, Called, Platform

\* A delivery is taken from the feed once in a run of the channel.
OnMatrix == Platform = "matrix"
Earlier(e) == OnMatrix /\ e.start # starts

FeedOnce == \A i, j \in 1 .. Len(feed) : feed[i] = feed[j] => i = j
TaskOnce ==
    /\ \A t \in tasks : ~InFeed(t.d)
    /\ \A t, u \in tasks : t.d = u.d => t = u
    /\ ~up => tasks = {}
EndOnce ==
    /\ \A e \in ended : InFeed(e.d) => Earlier(e)
    /\ \A e \in ended : \A t \in tasks : t.d = e.d => Earlier(e)
    /\ \A e, f \in ended : e.d = f.d => e = f \/ (OnMatrix /\ e.start # f.start)
    /\ \A e \in ended : e.start <= starts

Tracked == Typed /\ AllKnown /\ FeedOnce /\ TaskOnce /\ EndOnce

LEMMA TailFeed ==
    ASSUME feed \in Seq(Delivery), feed # <<>>, FeedOnce, feed' = Tail(feed)
    PROVE  /\ feed' \in Seq(Delivery) /\ FeedOnce'
           /\ Event \in Delivery /\ InFeed(Event)
           /\ \A d : InFeed(d)' => InFeed(d) /\ d # Event
<1>1. /\ Len(feed) \in Nat /\ Len(feed) > 0 /\ Event = feed[1] /\ Event \in Delivery
      /\ Len(feed') = Len(feed) - 1 /\ \A i \in 1 .. Len(feed') : feed'[i] = feed[i + 1]
      /\ feed' \in Seq(Delivery)
  BY DEF Event
<1>2. ASSUME NEW i \in 1 .. Len(feed') PROVE i + 1 \in 1 .. Len(feed) /\ i + 1 # 1
  BY <1>1
<1>3. FeedOnce'
  BY <1>1, <1>2 DEF FeedOnce
<1>4. ASSUME NEW d, InFeed(d)' PROVE InFeed(d) /\ d # Event
  <2>1. PICK i \in 1 .. Len(feed') : feed'[i] = d
    BY <1>4 DEF InFeed
  <2>2. feed[i + 1] = d /\ i + 1 \in 1 .. Len(feed) /\ i + 1 # 1 /\ 1 \in 1 .. Len(feed)
    BY <1>1, <1>2, <2>1
  <2>3. d # feed[1]
    BY <2>2 DEF FeedOnce
  <2> QED
    BY <1>1, <2>2, <2>3 DEF InFeed
<1>5. InFeed(Event)
  BY <1>1 DEF InFeed
<1> QED
  BY <1>1, <1>3, <1>4, <1>5

LEMMA MoreFeed ==
    ASSUME feed \in Seq(Delivery), FeedOnce, NEW D \in Seq(Delivery), feed' = feed \o D,
           \A k, l \in 1 .. Len(D) : D[k] = D[l] => k = l,
           \A k \in 1 .. Len(D) : ~InFeed(D[k])
    PROVE  /\ feed' \in Seq(Delivery) /\ FeedOnce'
           /\ \A d : InFeed(d)' => InFeed(d) \/ \E k \in 1 .. Len(D) : d = D[k]
<1>1. /\ Len(feed) \in Nat /\ Len(D) \in Nat /\ feed' \in Seq(Delivery)
      /\ Len(feed') = Len(feed) + Len(D)
      /\ \A i \in 1 .. Len(feed) : feed'[i] = feed[i]
      /\ \A i \in Len(feed) + 1 .. Len(feed) + Len(D) : feed'[i] = D[i - Len(feed)]
  BY ConcatProperties
<1>2. \A i \in 1 .. Len(feed') :
        \/ i \in 1 .. Len(feed) /\ feed'[i] = feed[i]
        \/ i - Len(feed) \in 1 .. Len(D) /\ feed'[i] = D[i - Len(feed)]
  BY <1>1
<1>3. FeedOnce'
  <2> SUFFICES ASSUME NEW i \in 1 .. Len(feed'), NEW j \in 1 .. Len(feed'), feed'[i] = feed'[j]
               PROVE  i = j
    BY DEF FeedOnce
  <2>1. CASE i \in 1 .. Len(feed) /\ j \in 1 .. Len(feed)
    BY <1>1, <2>1 DEF FeedOnce
  <2>2. CASE ~(i \in 1 .. Len(feed)) /\ ~(j \in 1 .. Len(feed))
    <3>1. /\ i - Len(feed) \in 1 .. Len(D) /\ j - Len(feed) \in 1 .. Len(D)
          /\ D[i - Len(feed)] = D[j - Len(feed)]
      BY <1>2, <2>2
    <3>2. i - Len(feed) = j - Len(feed)
      BY <3>1
    <3>3. \A a, b, c \in Int : a - c = b - c => a = b
      OBVIOUS
    <3>4. i \in Int /\ j \in Int /\ Len(feed) \in Int
      BY <1>1
    <3> QED
      BY ONLY <3>2, <3>3, <3>4
  <2>3. CASE i \in 1 .. Len(feed) /\ ~(j \in 1 .. Len(feed))
    <3>1. feed[i] = D[j - Len(feed)] /\ j - Len(feed) \in 1 .. Len(D)
      BY <1>2, <2>3
    <3> QED
      BY <2>3, <3>1 DEF InFeed
  <2>4. CASE ~(i \in 1 .. Len(feed)) /\ j \in 1 .. Len(feed)
    <3>1. feed[j] = D[i - Len(feed)] /\ i - Len(feed) \in 1 .. Len(D)
      BY <1>2, <2>4
    <3> QED
      BY <2>4, <3>1 DEF InFeed
  <2> QED
    BY <2>1, <2>2, <2>3, <2>4
<1>4. ASSUME NEW d, InFeed(d)' PROVE InFeed(d) \/ \E k \in 1 .. Len(D) : d = D[k]
  BY <1>2, <1>4 DEF InFeed
<1> QED
  BY <1>1, <1>3, <1>4

\* What the first sync after a start may deliver.
LEMMA PendingIs ==
    ASSUME Typed, NEW f \in Pending
    PROVE  /\ f \in Seq(Delivery)
           /\ \A i, j \in 1 .. Len(f) : f[i] = f[j] => i = j
           /\ \A i \in 1 .. Len(f) : /\ OnMatrix
                                     /\ f[i].post \in 1 .. Len(posts) /\ f[i].rev = 0
                                     /\ f[i].as # "edit" /\ Called(f[i].as, posts[f[i].post])
<1>1. CASE f = <<>>
  BY <1>1
<1>2. CASE OnMatrix
  <2>1. PICK n \in 0 .. Len(posts) :
            f = [k \in 1 .. Len(posts) - n |-> [post |-> n + k, rev |-> 0, as |-> posts[n + k].kind]]
    BY <1>2 DEF Pending, OnMatrix
  <2>2. Len(posts) \in Nat /\ Len(posts) <= MaxPosts /\ MaxPosts \in Nat /\ posts \in Seq(Posts)
    BY IntakeAssumption DEF Typed, HostTyped
  <2>3. ASSUME NEW k \in 1 .. Len(posts) - n
        PROVE  /\ f[k] \in Delivery /\ f[k].post = n + k /\ n + k \in 1 .. Len(posts)
               /\ f[k].rev = 0 /\ f[k].as # "edit" /\ Called(f[k].as, posts[n + k])
    <3>1. n + k \in 1 .. Len(posts) /\ n + k \in 1 .. MaxPosts /\ posts[n + k] \in Posts
      BY <2>2
    <3>2. posts[n + k].kind \in {"message", "interaction", "invite"}
      BY <3>1 DEF Posts
    <3> QED
      BY <2>1, <3>1, <3>2 DEF Delivery, Called
  <2>4. f \in Seq(Delivery) /\ Len(f) = Len(posts) - n
    <3> DEFINE len == Len(posts) - n
    <3>1. len \in Nat
      BY <2>2
    <3>2. f = [k \in 1 .. len |-> f[k]] /\ \A k \in 1 .. len : f[k] \in Delivery
      BY <2>1, <2>3
    <3> HIDE DEF len
    <3>3. f \in Seq(Delivery) /\ Len(f) = len
      BY <3>1, <3>2
    <3> QED
      BY <3>3 DEF len
  <2>5. \A i, j \in 1 .. Len(f) : f[i] = f[j] => i = j
    <3> SUFFICES ASSUME NEW i \in 1 .. Len(f), NEW j \in 1 .. Len(f), f[i] = f[j]
                 PROVE  i = j
      OBVIOUS
    <3>1. f[i].post = n + i /\ f[j].post = n + j
      BY <2>3, <2>4
    <3>2. n + i = n + j
      BY <3>1
    <3> QED
      BY ONLY <3>2, n \in Nat, i \in Int, j \in Int
  <2> QED
    BY <1>2, <2>3, <2>4, <2>5
<1> QED
  BY <1>1, <1>2 DEF Pending, OnMatrix

LEMMA TypedStep ==
    ASSUME Typed, [Next]_vars
    PROVE  Typed'
<1>1. faults' \in Nat
  BY FaultsGrow DEF Typed
<1>2. Moves
  BY StepMoves
<1>3. /\ feed \in Seq(Delivery) /\ tasks \subseteq Task /\ ended \subseteq Ending
      /\ Len(posts) \in Nat /\ MaxPosts \in Nat
  BY IntakeAssumption DEF Typed, HostTyped, WorkTyped
<1>4. ASSUME NEW p \in bound.posts, PostIt(p) PROVE Typed'
  <2>1. p \in Posts
    BY IntakeAssumption DEF Typed, HostTyped
  <2>2. posts' \in Seq(Posts) /\ Len(posts') = Len(posts) + 1 /\ Len(posts') \in 1 .. MaxPosts
    BY <1>3, <1>4, <2>1, IntakeAssumption DEF PostIt, Typed, HostTyped
  <2>3. feed' \in Seq(Delivery)
    <3>3. PICK told \in Delivered(p) : feed' = feed \o Deliveries(Len(posts'), told)
      BY <1>4 DEF PostIt
    <3> DEFINE D == Deliveries(Len(posts'), told)
    <3>1. D \in Seq(Delivery)
      BY <2>1, <2>2, DeliveriesAre
    <3>2. feed' = feed \o D
      BY <3>3
    <3> HIDE DEF D
    <3>4. \A x, y \in Seq(Delivery) : x \o y \in Seq(Delivery)
      OBVIOUS
    <3> QED
      BY <1>3, <3>1, <3>2, <3>4
  <2>4. UNCHANGED <<bound, up, since, tasks, direct, starts, edits, ended>>
    BY <1>4, Zenon DEF PostIt
  <2> QED
    BY <1>1, <2>2, <2>3, <2>4 DEF Typed, HostTyped, WorkTyped
<1>5. ASSUME NEW i \in DOMAIN posts, NEW how \in {"edit", "message", "mention"}, TellAgain(i, how)
      PROVE  Typed'
  <2>3. edits' \in Nat
    BY <1>5 DEF TellAgain, Typed, HostTyped
  <2>4. i \in 1 .. MaxPosts
    <3>1. DOMAIN posts = 1 .. Len(posts) /\ Len(posts) <= MaxPosts
      BY DEF Typed, HostTyped
    <3> QED
      BY <1>3, <3>1
  <2>1. edits' \in Nat /\ [post |-> i, rev |-> edits', as |-> how] \in Delivery
    BY <2>3, <2>4 DEF Delivery
  <2>2. feed' \in Seq(Delivery)
    BY <1>3, <1>5, <2>1 DEF TellAgain
  <2> QED
    BY <1>1, <1>5, <2>1, <2>2 DEF TellAgain, Typed, HostTyped, WorkTyped
<1>6. CASE Connect
  <2>1. feed' \in Seq(Delivery)
    BY <1>6, PendingIs DEF Connect
  <2>2. since' \in 0 .. MaxPosts /\ starts' \in Nat /\ up' \in BOOLEAN
    <3>1. since' = Len(posts) /\ starts' = starts + 1 /\ (up' = TRUE \/ up' = up)
      BY <1>6 DEF Connect
    <3>2. Len(posts) <= MaxPosts /\ starts \in Nat /\ up \in BOOLEAN
      BY DEF Typed, HostTyped
    <3> QED
      <4>1. since' \in 0 .. MaxPosts
        BY <1>3, <3>1, <3>2
      <4>2. starts' \in Nat
        BY <3>1, <3>2
      <4>3. up' \in BOOLEAN
        BY <3>1, <3>2
      <4> QED
        BY <4>1, <4>2, <4>3
  <2> QED
    BY <1>1, <1>6, <2>1, <2>2 DEF Connect, Typed, HostTyped, WorkTyped
<1>7. CASE Disconnect
  BY <1>1, <1>7 DEF Disconnect, Typed, HostTyped, WorkTyped
<1>8. ASSUME NEW as \in {"message", "mention", "edit", "interaction", "invite"},
             NEW stage \in Stages \cup {"ignored"}, Take(as, stage)
      PROVE  Typed'
  <2>1. feed' \in Seq(Delivery) /\ Event \in Delivery
    BY <1>3, <1>8 DEF Take, Event
  <2>2. stage \in Stages => Begun(Event, stage) \in Task
    BY <2>1 DEF Begun, Task
  <2>3. End(Begun(Event, "publish"), "ignored") \in Ending
    BY <2>1 DEF Begun, End, Ending, Ends, Typed, HostTyped
  <2> QED
    BY <1>1, <1>3, <1>8, <2>1, <2>2, <2>3 DEF Take, Typed, HostTyped, WorkTyped
<1>9. ASSUME NEW t \in tasks, NEW u \in Task, Become(t, u) PROVE Typed'
  BY <1>1, <1>3, <1>9 DEF Become, Typed, HostTyped, WorkTyped
<1>10. ASSUME NEW t \in tasks, NEW what \in Ends, Over(t, what) PROVE Typed'
  <2>1. End(t, what) \in Ending
    BY <1>3 DEF End, Task, Ending, Typed, HostTyped
  <2> QED
    BY <1>1, <1>3, <1>10, <2>1 DEF Over, Typed, HostTyped, WorkTyped
<1>11. ASSUME feed # <<>>, feed' = Tail(feed),
              UNCHANGED <<bound, posts, up, since, tasks, direct, starts, edits, ended>>
       PROVE  Typed'
  BY <1>1, <1>3, <1>11 DEF Typed, HostTyped, WorkTyped
<1>12. ASSUME UNCHANGED <<bound, posts, feed, up, since, tasks, starts, ended>>,
              direct' \subseteq Chats, edits' \in Nat
       PROVE  Typed'
  BY <1>1, <1>12 DEF Typed, HostTyped, WorkTyped
<1> QED
  BY <1>2, <1>4, <1>5, <1>6, <1>7, <1>8, <1>9, <1>10, <1>11, <1>12 DEF Moves

LEMMA Grown ==
    ASSUME Tracked, [Next]_vars
    PROVE  /\ Moves /\ Typed'
           /\ \A d : Known(d) => Known(d)'
<1> QED
  BY TypedStep, StepMoves, KnownStays DEF Tracked

\* More is delivered.
LEMMA TrackedMore ==
    ASSUME Tracked, [Next]_vars, NEW D \in Seq(Delivery), feed' = feed \o D,
           UNCHANGED <<bound, up, tasks, starts, ended>>,
           \A k, l \in 1 .. Len(D) : D[k] = D[l] => k = l,
           \A k \in 1 .. Len(D) : ~Known(D[k]) /\ Known(D[k])'
    PROVE  Tracked'
<1>0. feed \in Seq(Delivery) /\ FeedOnce /\ AllKnown /\ TaskOnce /\ EndOnce
  BY DEF Tracked, Typed, WorkTyped
<1>1. /\ FeedOnce' /\ \A d : InFeed(d)' => InFeed(d) \/ \E k \in 1 .. Len(D) : d = D[k]
  <2>1. \A k \in 1 .. Len(D) : ~InFeed(D[k])
    BY <1>0 DEF AllKnown
  <2> QED
    BY <1>0, <2>1, MoreFeed
<1>2. AllKnown'
  BY <1>0, <1>1, Grown DEF AllKnown
<1>3. \A d : Known(d) /\ InFeed(d)' => InFeed(d)
  BY <1>1
<1>4. TaskOnce'
  BY <1>0, <1>3 DEF TaskOnce, AllKnown
<1>5. EndOnce'
  <2>1. \A e : Earlier(e)' <=> Earlier(e)
    BY DEF Earlier, OnMatrix, Platform
  <2>2. OnMatrix' <=> OnMatrix
    BY DEF OnMatrix, Platform
  <2> QED
    BY <1>0, <1>3, <2>1, <2>2 DEF EndOnce, AllKnown
<1> QED
  BY <1>1, <1>2, <1>4, <1>5, Grown DEF Tracked

\* The first of the feed is taken from it.
LEMMA TrackedLess ==
    ASSUME Tracked, [Next]_vars, feed # <<>>, feed' = Tail(feed), up,
           UNCHANGED <<bound, up, starts>>,
           \/ UNCHANGED <<tasks, ended>>
           \/ /\ UNCHANGED ended
              /\ \E t : t.d = Event /\ tasks' = tasks \cup {t}
           \/ /\ UNCHANGED tasks
              /\ \E e : e.d = Event /\ e.start = starts /\ ended' = ended \cup {e}
    PROVE  Tracked'
<1>0. feed \in Seq(Delivery) /\ FeedOnce /\ AllKnown /\ TaskOnce /\ EndOnce /\ starts \in Nat
  BY DEF Tracked, Typed, WorkTyped, HostTyped
<1>1. FeedOnce' /\ InFeed(Event) /\ Known(Event) /\ \A d : InFeed(d)' => InFeed(d) /\ d # Event
  BY <1>0, TailFeed DEF AllKnown
<1>2. /\ \A t \in tasks' : t \in tasks \/ t.d = Event
      /\ \A e \in ended' : e \in ended \/ (e.d = Event /\ e.start = starts)
  OBVIOUS
<1>3. AllKnown'
  BY <1>0, <1>1, <1>2, Grown DEF AllKnown
<1>4. TaskOnce'
  BY <1>0, <1>1 DEF TaskOnce
<1>5. EndOnce'
  <2>1. \A e : Earlier(e)' <=> Earlier(e)
    BY DEF Earlier, OnMatrix, Platform
  <2>2. OnMatrix' <=> OnMatrix
    BY DEF OnMatrix, Platform
  <2>3. \A e \in ended : e.d = Event => OnMatrix /\ e.start # starts
    BY <1>0, <1>1 DEF EndOnce, Earlier
  <2>4. \A t \in tasks : t.d # Event
    BY <1>0, <1>1 DEF TaskOnce
  <2>5. \A e \in ended' : InFeed(e.d)' => Earlier(e)'
    BY <1>0, <1>1, <1>2, <2>1 DEF EndOnce
  <2>6. \A e \in ended' : \A t \in tasks' : t.d = e.d => Earlier(e)'
    <3> SUFFICES ASSUME NEW e \in ended', NEW t \in tasks', t.d = e.d PROVE Earlier(e)
      BY <2>1
    <3>1. CASE e \in ended /\ t \in tasks
      BY <1>0, <3>1 DEF EndOnce
    <3>2. CASE e \in ended /\ t \notin tasks
      BY <1>2, <2>3, <3>2 DEF Earlier
    <3>3. CASE e \notin ended
      BY <1>2, <2>4, <3>3
    <3> QED
      BY <3>1, <3>2, <3>3
  <2>7. \A e, f \in ended' : e.d = f.d => e = f \/ (OnMatrix' /\ e.start # f.start)
    <3> SUFFICES ASSUME NEW e \in ended', NEW f \in ended', e.d = f.d, e # f
                 PROVE  OnMatrix /\ e.start # f.start
      BY <2>2
    <3>1. CASE e \in ended /\ f \in ended
      BY <1>0, <3>1 DEF EndOnce
    <3>2. CASE e \in ended /\ f \notin ended
      BY <1>2, <2>3, <3>2
    <3>3. CASE e \notin ended /\ f \in ended
      BY <1>2, <2>3, <3>3
    <3>4. ASSUME e \notin ended, f \notin ended PROVE FALSE
      BY <3>4
    <3> QED
      BY <3>1, <3>2, <3>3, <3>4
  <2>8. \A e \in ended' : e.start <= starts'
    BY <1>0, <1>2 DEF EndOnce
  <2> QED
    BY <2>5, <2>6, <2>7, <2>8 DEF EndOnce
<1> QED
  BY <1>1, <1>3, <1>4, <1>5, Grown DEF Tracked

\* A task ends, or goes on.
LEMMA TrackedOn ==
    ASSUME Tracked, [Next]_vars, UNCHANGED <<bound, feed, up, starts>>,
           \/ UNCHANGED <<tasks, ended>>
           \/ tasks' = {} /\ UNCHANGED ended
           \/ /\ UNCHANGED ended
              /\ \E t \in tasks : \E u \in Task : u.d = t.d /\ tasks' = (tasks \ {t}) \cup {u}
           \/ \E t \in tasks : \E e : /\ e.d = t.d /\ e.start = starts
                                      /\ tasks' = tasks \ {t} /\ ended' = ended \cup {e}
    PROVE  Tracked'
<1>0. FeedOnce /\ AllKnown /\ TaskOnce /\ EndOnce /\ starts \in Nat
  BY DEF Tracked, Typed, HostTyped
<1>1. /\ \A d : InFeed(d)' <=> InFeed(d)
      /\ \A e : Earlier(e)' <=> Earlier(e)
      /\ OnMatrix' <=> OnMatrix
      /\ starts' = starts
  BY DEF Earlier, OnMatrix, Platform, InFeed
<1>2. /\ \A t \in tasks' : \E u \in tasks : u.d = t.d
      /\ \A t, u \in tasks' : t.d = u.d => t = u
      /\ ~up => tasks' = {}
  BY <1>0 DEF TaskOnce
<1>3. \A e \in ended' : \/ e \in ended
                        \/ /\ e.start = starts /\ ended' = ended \cup {e}
                           /\ \E t \in tasks : t.d = e.d /\ tasks' = tasks \ {t}
  OBVIOUS
<1>4. FeedOnce' /\ AllKnown' /\ TaskOnce'
  <2>1. FeedOnce'
    BY <1>0 DEF FeedOnce
  <2>2. AllKnown'
    BY <1>0, <1>1, <1>2, <1>3, Grown DEF AllKnown
  <2>3. TaskOnce'
    BY <1>0, <1>1, <1>2 DEF TaskOnce
  <2> QED
    BY <2>1, <2>2, <2>3
<1>5. EndOnce'
  <2>1. \A e \in ended' : InFeed(e.d) => Earlier(e)
    BY <1>0, <1>3 DEF EndOnce, TaskOnce
  <2>2. \A e \in ended' : \A t \in tasks' : t.d = e.d => Earlier(e)
    <3> SUFFICES ASSUME NEW e \in ended', NEW t \in tasks', t.d = e.d PROVE Earlier(e)
      OBVIOUS
    <3>1. CASE e \in ended
      BY <1>0, <1>2, <3>1 DEF EndOnce
    <3>2. CASE e \notin ended
      BY <1>0, <1>3, <3>2 DEF TaskOnce
    <3> QED
      BY <3>1, <3>2
  <2>3. \A e, f \in ended' : e.d = f.d => e = f \/ (OnMatrix /\ e.start # f.start)
    <3> SUFFICES ASSUME NEW e \in ended', NEW f \in ended', e.d = f.d, e # f
                 PROVE  OnMatrix /\ e.start # f.start
      OBVIOUS
    <3>1. CASE e \in ended /\ f \in ended
      BY <1>0, <3>1 DEF EndOnce
    <3>2. CASE e \in ended /\ f \notin ended
      <4>1. f.start = starts /\ \E t \in tasks : t.d = e.d
        BY <1>3, <3>2
      <4> QED
        BY <1>0, <3>2, <4>1 DEF EndOnce, Earlier
    <3>3. CASE e \notin ended /\ f \in ended
      <4>1. e.start = starts /\ \E t \in tasks : t.d = f.d
        BY <1>3, <3>3
      <4> QED
        BY <1>0, <3>3, <4>1 DEF EndOnce, Earlier
    <3>4. ASSUME e \notin ended, f \notin ended PROVE FALSE
      BY <1>3, <3>4
    <3> QED
      BY <3>1, <3>2, <3>3, <3>4
  <2>4. \A e \in ended' : e.start <= starts
    BY <1>0, <1>3 DEF EndOnce
  <2> QED
    BY <1>1, <2>1, <2>2, <2>3, <2>4 DEF EndOnce
<1> QED
  BY <1>4, <1>5, Grown DEF Tracked

\* The channel starts.
LEMMA TrackedConnect ==
    ASSUME Tracked, [Next]_vars, Connect
    PROVE  Tracked'
<1>0. AllKnown /\ TaskOnce /\ EndOnce /\ starts \in Nat
  BY DEF Tracked, Typed, HostTyped
<1>1. /\ FeedOnce'
      /\ \A d : InFeed(d)' => /\ OnMatrix /\ d.post \in 1 .. Len(posts) /\ d.rev = 0
                              /\ d.as # "edit" /\ Called(d.as, posts[d.post])
  BY PendingIs DEF Connect, Tracked, FeedOnce, InFeed
<1>2. /\ tasks = {} /\ tasks' = {} /\ starts' = starts + 1
      /\ UNCHANGED <<bound, posts, direct, edits, ended>> /\ (OnMatrix' <=> OnMatrix)
  BY <1>0 DEF Connect, TaskOnce, OnMatrix, Platform
<1>3. AllKnown'
  <2>1. ASSUME NEW d, InFeed(d)' PROVE Known(d)'
    <3>1. edits \in Nat
      BY DEF Tracked, Typed, HostTyped
    <3> QED
      BY <1>1, <1>2, <2>1, <3>1 DEF Known, PostOf, Called, Platform
  <2> QED
    BY <1>0, <1>2, <2>1, Grown DEF AllKnown
<1>4. TaskOnce'
  BY <1>2 DEF TaskOnce
<1>5. EndOnce'
  <2>1. \A e \in ended : e.start # starts' /\ e.start <= starts'
    <3>1. \A e \in ended : e.start \in Nat
      BY DEF Tracked, Typed, WorkTyped, Ending
    <3> QED
      BY <1>0, <1>2, <3>1 DEF EndOnce
  <2> QED
    BY <1>0, <1>1, <1>2, <2>1 DEF EndOnce, Earlier
<1> QED
  BY <1>1, <1>3, <1>4, <1>5, Grown DEF Tracked

LEMMA TrackedStep ==
    ASSUME Tracked, [Next]_vars
    PROVE  Tracked'
<1>0. /\ Moves /\ Typed /\ AllKnown
      /\ Len(posts) \in Nat /\ Len(posts) <= MaxPosts /\ MaxPosts \in Nat /\ edits \in Nat
  BY Grown, IntakeAssumption DEF Tracked, Typed, HostTyped
<1>1. ASSUME NEW p \in bound.posts, PostIt(p) PROVE Tracked'
  <2>1. p \in Posts
    BY IntakeAssumption DEF Tracked, Typed, HostTyped
  <2>2. /\ posts' = Append(posts, p) /\ posts \in Seq(Posts)
        /\ Len(posts') = Len(posts) + 1 /\ Len(posts') \in 1 .. MaxPosts
        /\ posts'[Len(posts')] = p
        /\ UNCHANGED <<bound, up, tasks, starts, ended, edits, direct>>
    BY <1>0, <1>1, <2>1, IntakeAssumption DEF PostIt, Typed, HostTyped
  <2>8. PICK told \in Delivered(p) : feed' = feed \o Deliveries(Len(posts'), told)
    BY <1>1 DEF PostIt
  <2>3. PICK D : D = Deliveries(Len(posts'), told)
    OBVIOUS
  <2>7. feed' = feed \o D
    BY <2>3, <2>8
  <2>4. /\ D \in Seq(Delivery)
        /\ \A k, l \in DOMAIN D : D[k] = D[l] => k = l
        /\ \A k \in DOMAIN D :
             D[k].post = Len(posts') /\ D[k].rev = 0 /\ D[k].as # "edit" /\ Called(D[k].as, p)
    <3>1. PICK i \in 1 .. MaxPosts : i = Len(posts')
      BY <2>2
    <3>2. D = Deliveries(i, told)
      BY <2>3, <3>1
    <3>3. told \in Delivered(p)
      BY <2>8
    <3>4. /\ D \in Seq(Delivery)
          /\ \A k, l \in DOMAIN D : D[k] = D[l] => k = l
          /\ \A k \in DOMAIN D :
               D[k].post = i /\ D[k].rev = 0 /\ D[k].as # "edit" /\ Called(D[k].as, p)
      <4>1. /\ Deliveries(i, told) \in Seq(Delivery)
            /\ \A k, l \in DOMAIN Deliveries(i, told) :
                 Deliveries(i, told)[k] = Deliveries(i, told)[l] => k = l
            /\ \A k \in DOMAIN Deliveries(i, told) :
                 /\ Deliveries(i, told)[k].post = i /\ Deliveries(i, told)[k].rev = 0
                 /\ Deliveries(i, told)[k].as # "edit" /\ Called(Deliveries(i, told)[k].as, p)
        BY <2>1, <3>3, DeliveriesAre
      <4> QED
        BY <3>2, <4>1
    <3> QED
      BY <3>1, <3>4
  <2>5. DOMAIN D = 1 .. Len(D)
    BY <2>4
  <2>6. ASSUME NEW k \in 1 .. Len(D) PROVE ~Known(D[k]) /\ Known(D[k])'
    <3>1. D[k].post = Len(posts') /\ D[k].rev = 0 /\ D[k].as # "edit" /\ Called(D[k].as, p)
      BY <2>4, <2>5
    <3>2. Called(D[k].as, p)'
      BY <2>2, <3>1 DEF Called, Platform
    <3> QED
      BY <1>0, <2>2, <3>1, <3>2 DEF Known, PostOf
  <2> QED
    BY <2>2, <2>4, <2>5, <2>6, <2>7, TrackedMore
<1>2. ASSUME NEW i \in DOMAIN posts, NEW how \in {"edit", "message", "mention"},
             Again(i, how), TellAgain(i, how)
      PROVE  Tracked'
  <2>0. PICK x : x = [post |-> i, rev |-> edits', as |-> how]
    OBVIOUS
  <2>1. /\ edits' = edits + 1 /\ i \in DOMAIN posts /\ posts[i].kind = "message"
        /\ UNCHANGED <<bound, up, posts, tasks, starts, ended>>
        /\ feed' = Append(feed, x) /\ feed \in Seq(Delivery)
    BY <1>2, <2>0, Zenon DEF TellAgain, Tracked, Typed, WorkTyped
  <2>2. x \in Delivery
    <3>1. i \in 1 .. MaxPosts /\ edits' \in Nat
      <4>1. DOMAIN posts = 1 .. Len(posts)
        BY <1>0 DEF Typed, HostTyped
      <4> QED
        BY <1>0, <2>1, <4>1
    <3> QED
      BY <2>0, <3>1 DEF Delivery
  <2>3. ~Known(x) /\ Known(x)'
    <3>1. i \in 1 .. Len(posts)
      BY <2>1 DEF Typed, HostTyped, Tracked
    <3>2. x.post = i /\ x.rev = edits + 1 /\ x.as = how /\ edits' = edits + 1 /\ posts' = posts
          /\ Platform' = Platform
      BY <2>0, <2>1 DEF Platform
    <3>6. ~(x.rev \in 0 .. edits) /\ x.rev \in 0 .. edits' /\ x.rev # 0
      BY <1>0, <3>2
    <3>3. ~Known(x)
      BY <3>6 DEF Known
    <3>4. how # "edit" => Platform = "slack" /\ Called(how, posts[i])
      BY <1>2, <2>1 DEF Again, Called
    <3>5. Known(x)'
      <4>1. x.post \in 1 .. Len(posts') /\ PostOf(x)' = posts[i] /\ posts[i].kind = "message"
        BY <2>1, <3>1, <3>2 DEF PostOf
      <4>2. how # "edit" => Called(how, posts[i])'
        BY <3>2, <3>4 DEF Called
      <4>3. how # "edit" => Called(x.as, PostOf(x))'
        BY <3>2, <4>1, <4>2 DEF Called
      <4> QED
        BY <3>2, <3>4, <3>6, <4>1, <4>3 DEF Known
    <3> QED
      BY <3>3, <3>5
  <2>4. PICK D : D = <<x>>
    OBVIOUS
  <2>5. feed' = feed \o D /\ D \in Seq(Delivery) /\ Len(D) = 1 /\ D[1] = x
    BY <2>1, <2>2, <2>4
  <2>6. \A k \in 1 .. Len(D) : k = 1 /\ ~Known(D[k]) /\ Known(D[k])'
    BY <2>3, <2>5
  <2> QED
    BY <2>1, <2>5, <2>6, TrackedMore
<1>3. CASE Connect
  BY <1>3, TrackedConnect
<1>4. CASE Disconnect
  <2>1. tasks' = {} /\ UNCHANGED <<bound, feed, starts, ended>> /\ up' = FALSE
    BY <1>4 DEF Disconnect
  <2>2. FeedOnce' /\ AllKnown'
    BY <2>1, Grown DEF Tracked, FeedOnce, AllKnown, InFeed
  <2>3. TaskOnce'
    BY <2>1 DEF TaskOnce
  <2>4. EndOnce'
    BY <2>1 DEF Tracked, EndOnce, Earlier, OnMatrix, Platform, InFeed
  <2> QED
    BY <2>2, <2>3, <2>4, Grown DEF Tracked
<1>5. ASSUME NEW as \in {"message", "mention", "edit", "interaction", "invite"},
             NEW stage \in Stages \cup {"ignored"}, Take(as, stage)
      PROVE  Tracked'
  <2>1. Begun(Event, stage).d = Event
    BY DEF Begun
  <2>2. /\ End(Begun(Event, "publish"), "ignored").d = Event
        /\ End(Begun(Event, "publish"), "ignored").start = starts
    BY DEF Begun, End
  <2> QED
    BY <1>5, <2>1, <2>2, TrackedLess DEF Take
<1>6. ASSUME NEW t \in tasks, NEW u \in Task, u.d = t.d, Become(t, u) PROVE Tracked'
  BY <1>6, TrackedOn DEF Become
<1>7. ASSUME NEW t \in tasks, NEW what \in Ends, Over(t, what) PROVE Tracked'
  <2>1. End(t, what).d = t.d /\ End(t, what).start = starts
    BY DEF End
  <2> QED
    BY <1>7, <2>1, TrackedOn DEF Over
<1>8. ASSUME feed # <<>>, feed' = Tail(feed), up,
             UNCHANGED <<bound, posts, up, since, tasks, direct, starts, edits, ended>>
      PROVE  Tracked'
  BY <1>8, TrackedLess
<1>9. ASSUME UNCHANGED <<bound, posts, feed, up, since, tasks, starts, ended>>
      PROVE  Tracked'
  BY <1>9, TrackedOn
<1> QED
  BY <1>0, <1>1, <1>2, <1>3, <1>4, <1>5, <1>6, <1>7, <1>8, <1>9 DEF Moves

-----------------------------------------------------------------------------
\* Whom a handler works for, at each of its stages.

\* What was posted is of the deployment.
Real == \A i \in 1 .. Len(posts) : posts[i] \in bound.posts

\* What Matrix remembers of a chat was so at some time of this start.
DmKept ==
    /\ dmCache \in [Chats -> {"unknown", "direct", "group"}]
    /\ Platform = "matrix" =>
          \A c \in Chats : /\ dmCache[c] # "unknown" => <<starts, c, dmCache[c] = "direct">> \in been
                           /\ up => <<starts, c, c \in direct>> \in been

\* The chat of a delivery was of two, or had more, at some time of a start.
Sized(two, d, start) ==
    LET chat == PostOf(d).chat
    IN  IF Platform = "matrix" THEN <<start, chat, two>> \in been ELSE (chat \in direct) = two

Lawful(d) == PostOf(d).user # Self /\ (Anywhere(PostOf(d)) \/ Sized(TRUE, d, starts))

Covered(t, i) == i \in t.got \cup t.noted \/ PostOf(t.d).files[i] = "unlinked"
Filed(t) == \A i \in DOMAIN PostOf(t.d).files : i < t.next \/ t.at = "publish" => Covered(t, i)

\* On Slack a message is handled in a direct chat, and a mention where it is made.
Minded(d) == d.as = "mention" \/ (d.as = "message" /\ PostOf(d).chat \in direct)

Right(t) ==
    LET p == PostOf(t.d)
    IN  /\ t.at = "join" <=> t.d.as = "invite"
        /\ t.at = "name" => Lawful(t.d) /\ t.next = 1
        /\ t.at = "dispatch" => Lawful(t.d) /\ (Invited(p) \/ Anyone(p))
        /\ t.at = "refuse" =>
             ~Invited(p) \/ (Platform = "slack" /\ p.user \in bound.byName /\ faults > 0)
        /\ t.at \in {"react", "files", "publish"} => Lawful(t.d) /\ Invited(p) /\ Filed(t)
        /\ t.at = "files" /\ Platform \in {"telegram", "matrix"} => t.next = 1
        /\ t.at = "files" /\ Platform = "matrix" => p.files # <<>>
        /\ Platform = "slack" => Minded(t.d) \/ (t.d.as = "interaction" /\ t.at = "dispatch")

Answer(e) ==
    LET p == PostOf(e.d)
    IN  IF Taken(e)
        THEN /\ p.user # Self
             /\ Anywhere(p) \/ Sized(TRUE, e.d, e.start)
             /\ Invited(p) \/ Anyone(p)
             /\ e.what = "published" => Whole(e)
        ELSE (p.user # Self /\ (Anywhere(p) \/ ~Sized(FALSE, e.d, e.start)) /\ Invited(p))
                => Excused(e)

Fair(e) ==
    /\ e.d.as # "invite" => Answer(e)
    /\ e.what = "published" => e.d.as # "invite"
    /\ Platform = "slack" /\ Taken(e)
         => Minded(e.d) \/ (e.d.as = "interaction" /\ e.what = "answered")

Sane ==
    /\ Real /\ DmKept
    /\ \A t \in tasks : Right(t)
    /\ \A e \in ended : Fair(e)

LEMMA RoomsStay ==
    ASSUME [Next]_vars
    PROVE  sealed' = sealed /\ been \subseteq been'
<1>1. CASE Matrix
  <2>1. ASSUME NEW t \in tasks, MatrixTask(t) PROVE UNCHANGED <<sealed, been>>
    BY <2>1 DEF MatrixTask, MatrixDownload, Join, matrixVars
  <2> QED
    BY <1>1, <2>1 DEF Matrix, MatrixConnect, MatrixText, MatrixMedia, MatrixInvite, Unsynced,
       Crowd, matrixVars
<1> QED
  BY <1>1 DEF Next, Telegram, Discord, Slack, vars, matrixVars

\* What no step changes.
LEMMA Settled ==
    ASSUME Tracked, [Next]_vars
    PROVE  /\ bound' = bound /\ Platform' = Platform
           /\ faults \in Nat /\ faults' \in Nat /\ faults <= faults'
           /\ Platform # "matrix" => direct' = direct
           /\ sealed' = sealed /\ been \subseteq been'
           /\ tasks = {} \/ starts' = starts
           /\ \A d : Known(d) => PostOf(d)' = PostOf(d)
           /\ UNCHANGED posts \/ \E p \in bound.posts : PostIt(p)
<1>1. Moves /\ Typed /\ faults \in Nat /\ faults' \in Nat /\ faults <= faults' /\ TaskOnce
  BY Grown, FaultsGrow DEF Tracked, Typed, HostTyped
<1>2. /\ bound' = bound /\ Platform' = Platform
      /\ Platform # "matrix" => direct' = direct
      /\ UNCHANGED posts \/ \E p \in bound.posts : PostIt(p)
      /\ up => starts' = starts
  BY <1>1 DEF Moves, PostIt, TellAgain, Connect, Disconnect, Take, Become, Over, Platform
<1>4. tasks = {} \/ starts' = starts
  BY <1>1, <1>2 DEF TaskOnce
<1>3. ASSUME NEW d, Known(d) PROVE PostOf(d)' = PostOf(d)
  <2>1. d.post \in 1 .. Len(posts) /\ posts \in Seq(Posts)
    BY <1>1, <1>3 DEF Known, Typed, HostTyped
  <2>2. ASSUME NEW p \in bound.posts, PostIt(p) PROVE PostOf(d)' = PostOf(d)
    <3>1. p \in Posts
      BY <1>1, IntakeAssumption DEF Typed, HostTyped
    <3> QED
      BY <2>1, <2>2, <3>1 DEF PostIt, PostOf
  <2> QED
    BY <1>2, <2>2 DEF PostOf
<1> QED
  BY <1>1, <1>2, <1>3, <1>4, RoomsStay

LEMMA PostIs ==
    ASSUME Tracked, Real, NEW d, Known(d)
    PROVE  /\ PostOf(d) \in Posts /\ PostOf(d) \in bound.posts
           /\ Platform \in {"telegram", "matrix"} => Len(PostOf(d).files) <= 1
           /\ PostOf(d).user = Self => PostOf(d).kind # "interaction" /\ Platform # "telegram"
           /\ PostOf(d).chat \in Chats /\ PostOf(d).files \in Seq(FileKinds)
           /\ Len(PostOf(d).files) \in Nat
           /\ DOMAIN PostOf(d).files = 1 .. Len(PostOf(d).files)
<1>1. d.post \in 1 .. Len(posts) /\ bound \in Instances
  BY DEF Known, Tracked, Typed, HostTyped
<1>2. PostOf(d) \in bound.posts /\ PostOf(d) \in Posts
  BY <1>1, IntakeAssumption DEF Real, PostOf
<1> QED
  BY <1>1, <1>2, PlatformAssumption DEF Posts, Platform

LEMMA SizedStays ==
    ASSUME Tracked, [Next]_vars, NEW d, Known(d), NEW start, NEW two \in BOOLEAN
    PROVE  /\ Sized(two, d, start) => Sized(two, d, start)'
           /\ Platform = "slack" => (Minded(d)' <=> Minded(d))
<1>1. /\ Platform' = Platform /\ PostOf(d)' = PostOf(d) /\ been \subseteq been'
      /\ Platform # "matrix" => direct' = direct
  BY Settled
<1> QED
  BY <1>1 DEF Sized, Minded

LEMMA RightStays ==
    ASSUME Tracked, [Next]_vars, NEW t, Known(t.d), Right(t), starts' = starts
    PROVE  Right(t)'
<1>1. /\ bound' = bound /\ Platform' = Platform
      /\ faults \in Nat /\ faults' \in Nat /\ faults <= faults'
      /\ PostOf(t.d)' = PostOf(t.d)
  BY Settled
<1> DEFINE p == PostOf(t.d)
<1>2. /\ Invited(p)' <=> Invited(p)
      /\ Anyone(p)' <=> Anyone(p)
      /\ Anywhere(p)' <=> Anywhere(p)
      /\ Filed(t)' <=> Filed(t)
  BY <1>1 DEF Invited, Named, Anyone, Anywhere, Filed, Covered
<1>3. Lawful(t.d) => Lawful(t.d)'
  <2>1. Sized(TRUE, t.d, starts) => Sized(TRUE, t.d, starts)'
    BY SizedStays
  <2> QED
    BY <1>1, <1>2, <2>1 DEF Lawful, Sized
<1>4. Platform = "slack" => (Minded(t.d)' <=> Minded(t.d))
  BY SizedStays
<1> QED
  BY <1>1, <1>2, <1>3, <1>4 DEF Right

LEMMA FairStays ==
    ASSUME Tracked, [Next]_vars, NEW e, Known(e.d), Fair(e)
    PROVE  Fair(e)'
<1>1. /\ bound' = bound /\ Platform' = Platform
      /\ faults \in Nat /\ faults' \in Nat /\ faults <= faults'
      /\ Platform # "matrix" => direct' = direct
      /\ PostOf(e.d)' = PostOf(e.d) /\ sealed' = sealed
  BY Settled
<1> DEFINE p == PostOf(e.d)
<1>2. /\ Invited(p)' <=> Invited(p)
      /\ Anyone(p)' <=> Anyone(p)
      /\ Anywhere(p)' <=> Anywhere(p)
      /\ Whole(e)' <=> Whole(e)
      /\ Excused(e) => Excused(e)'
  BY <1>1 DEF Invited, Named, Anyone, Anywhere, Whole, ContentBlocks, Excused
<1>3. /\ Sized(TRUE, e.d, e.start) => Sized(TRUE, e.d, e.start)'
      /\ Sized(FALSE, e.d, e.start) => Sized(FALSE, e.d, e.start)'
      /\ Platform = "slack" => (Minded(e.d)' <=> Minded(e.d))
  BY SizedStays
<1>4. Answer(e) => Answer(e)'
  BY <1>1, <1>2, <1>3 DEF Answer, Taken
<1> QED
  BY <1>1, <1>2, <1>3, <1>4 DEF Fair, Taken

LEMMA RealStep ==
    ASSUME Tracked, Real, [Next]_vars
    PROVE  Real'
<1>1. CASE UNCHANGED posts
  BY <1>1, Settled DEF Real
<1>2. ASSUME NEW p \in bound.posts, PostIt(p) PROVE Real'
  <2>1. p \in Posts /\ posts \in Seq(Posts)
    BY IntakeAssumption DEF Tracked, Typed, HostTyped
  <2> QED
    BY <1>2, <2>1 DEF PostIt, Real
<1> QED
  BY <1>1, <1>2, Settled

\* Handlers that begin, go on, and end.
LEMMA SaneOn ==
    ASSUME Tracked, Sane, [Next]_vars, DmKept',
           \A t \in tasks' : t \in tasks \/ Right(t)',
           \A e \in ended' : e \in ended \/ Fair(e)'
    PROVE  Sane'
<1>1. /\ \A t \in tasks : Right(t) /\ Known(t.d) /\ starts' = starts
      /\ \A e \in ended : Fair(e) /\ Known(e.d)
  BY Settled DEF Sane, Tracked, AllKnown
<1> QED
  BY <1>1, RightStays, FairStays, RealStep DEF Sane

LEMMA SaneTake ==
    ASSUME Tracked, Sane, [Next]_vars, DmKept', NEW as, NEW stage, Take(as, stage),
           stage = "ignored" => Fair(End(Begun(Event, "publish"), "ignored")),
           stage # "ignored" => Right(Begun(Event, stage))
    PROVE  Sane'
<1>1. Known(Event) /\ starts' = starts
  BY TailFeed DEF Take, Tracked, AllKnown, Typed, WorkTyped
<1>2. PICK t : t = Begun(Event, stage)
  OBVIOUS
<1>3. PICK e : e = End(Begun(Event, "publish"), "ignored")
  OBVIOUS
<1>4. Known(t.d) /\ Known(e.d)
  BY <1>1, <1>2, <1>3 DEF Begun, End
<1>5. stage # "ignored" => Right(t)'
  BY <1>1, <1>2, <1>4, RightStays
<1>6. stage = "ignored" => Fair(e)'
  BY <1>1, <1>3, <1>4, FairStays
<1>7. /\ \A u \in tasks' : u \in tasks \/ (u = t /\ stage # "ignored")
      /\ \A f \in ended' : f \in ended \/ (f = e /\ stage = "ignored")
  BY <1>2, <1>3 DEF Take
<1> QED
  BY <1>5, <1>6, <1>7, SaneOn

LEMMA SaneOver ==
    ASSUME Tracked, Sane, [Next]_vars, DmKept', NEW t \in tasks, NEW what, Over(t, what),
           \A e : (e.d = t.d /\ e.what = what /\ e.got = t.got /\ e.noted = t.noted
                    /\ e.start = starts') => Fair(e)'
    PROVE  Sane'
<1>1. PICK e : e = End(t, what)
  OBVIOUS
<1>2. Fair(e)'
  <2>1. e.d = t.d /\ e.what = what /\ e.got = t.got /\ e.noted = t.noted /\ e.start = starts'
    BY <1>1 DEF End, Over
  <2> QED
    BY <2>1
<1>3. \A f \in ended' : f \in ended \/ f = e
  BY <1>1 DEF Over
<1>4. \A u \in tasks' : u \in tasks
  BY DEF Over
<1> QED
  BY <1>2, <1>3, <1>4, SaneOn

LEMMA SaneBecome ==
    ASSUME Tracked, Sane, [Next]_vars, DmKept', NEW t \in tasks, NEW u, Become(t, u), Right(u)'
    PROVE  Sane'
<1>1. \A v \in tasks' : v \in tasks \/ v = u
  BY DEF Become
<1>2. \A e \in ended' : e \in ended
  BY DEF Become
<1> QED
  BY <1>1, <1>2, SaneOn

LEMMA SaneStill ==
    ASSUME Tracked, Sane, [Next]_vars, DmKept', tasks' \subseteq tasks, UNCHANGED ended
    PROVE  Sane'
BY SaneOn

LEMMA DmStays ==
    ASSUME Tracked, DmKept, [Next]_vars, UNCHANGED dmCache,
           Platform # "matrix" \/ (UNCHANGED <<starts, direct>> /\ (up' => up))
    PROVE  DmKept'
BY Settled DEF DmKept

\* A task has what it had, and its post.
LEMMA TaskIs ==
    ASSUME Tracked, Sane, [Next]_vars, NEW t \in tasks
    PROVE  /\ t \in Task /\ Known(t.d) /\ Right(t) /\ Right(t)'
           /\ PostOf(t.d) \in Posts /\ PostOf(t.d)' = PostOf(t.d)
           /\ PostOf(t.d).files \in Seq(FileKinds) /\ Len(PostOf(t.d).files) \in Nat
           /\ DOMAIN PostOf(t.d).files = 1 .. Len(PostOf(t.d).files)
           /\ Platform \in {"telegram", "matrix"} => Len(PostOf(t.d).files) <= 1
           /\ Platform' = Platform /\ starts' = starts
<1>1. t \in Task /\ Known(t.d) /\ Right(t) /\ Real /\ starts' = starts
  BY Settled DEF Tracked, Typed, WorkTyped, AllKnown, Sane
<1> QED
  BY <1>1, PostIs, RightStays, Settled

LEMMA SharedSane ==
    ASSUME Tracked, Sane, [Next]_vars, DmKept', NEW t \in tasks,
           Refuse(t) \/ Dispatch(t) \/ Publish(t)
    PROVE  Sane'
<1>1. Right(t)' /\ HostTyped
  BY TaskIs DEF Tracked, Typed
<1>2. ASSUME Refuse(t) PROVE Sane'
  <2>1. ASSUME NEW e, e.d = t.d, e.what = "refused" PROVE Fair(e)'
    BY <1>1, <1>2, <2>1 DEF Refuse, Right, Fair, Answer, Taken, Excused
  <2> QED
    BY <1>2, <2>1, SaneOver DEF Refuse
<1>3. ASSUME Dispatch(t) PROVE Sane'
  <2>1. ASSUME NEW e, e.d = t.d, e.what = "answered", e.start = starts' PROVE Fair(e)'
    BY <1>1, <1>3, <2>1 DEF Dispatch, Right, Fair, Answer, Taken, Lawful
  <2> QED
    BY <1>3, <2>1, SaneOver DEF Dispatch
<1>4. ASSUME Publish(t) PROVE Sane'
  <2>1. ASSUME NEW e, e.d = t.d, e.what = "published", e.got = t.got, e.noted = t.noted,
               e.start = starts'
        PROVE  Fair(e)'
    <3>1. Filed(t)' /\ Lawful(t.d)' /\ Invited(PostOf(t.d))'
      BY <1>1, <1>4 DEF Publish, Right
    <3>2. Whole(e)'
      BY <1>4, <2>1, <3>1 DEF Publish, Filed, Covered, Whole, ContentBlocks, PostOf
    <3> QED
      BY <1>1, <1>4, <2>1, <3>1, <3>2 DEF Publish, Right, Fair, Answer, Taken, Lawful
  <2>2. ASSUME NEW e, e.d = t.d, e.what = "failed", Fault PROVE Fair(e)'
    <3>1. faults' > 0
      BY <1>1, <2>2, FaultCounts
    <3> QED
      BY <1>1, <2>2, <3>1 DEF Fair, Answer, Taken, Excused
  <2> QED
    BY <1>4, <2>1, <2>2, SaneOver DEF Publish
<1> QED
  BY <1>2, <1>3, <1>4

\* The next file is held, or named.
LEMMA NextFileSane ==
    ASSUME Tracked, Sane, [Next]_vars, DmKept', NEW t \in tasks, NextFile(t),
           Platform \notin {"telegram", "matrix"}
    PROVE  Sane'
<1> DEFINE p == PostOf(t.d)
<1>1. /\ t \in Task /\ Right(t)' /\ p' = p /\ Len(p.files) \in Nat /\ p.files \in Seq(FileKinds)
      /\ DOMAIN p.files = 1 .. Len(p.files) /\ Platform' = Platform
  BY TaskIs
<1>2. t.at = "files" /\ t.next \in Nat
  BY <1>1 DEF NextFile, Task
<1>3. /\ Lawful(t.d)' /\ Invited(p)' /\ t.d.as # "invite"
      /\ \A i \in DOMAIN p.files : i < t.next => i \in t.got \cup t.noted \/ p.files[i] = "unlinked"
      /\ (Platform = "slack" => Minded(t.d)')
  <2>1. Filed(t)'
    BY <1>1, <1>2 DEF Right
  <2>2. \A i \in DOMAIN p.files : i < t.next => i \in t.got \cup t.noted \/ p.files[i] = "unlinked"
    BY <1>1, <2>1 DEF Filed, Covered, PostOf
  <2> QED
    BY <1>1, <1>2, <2>2 DEF Right
<1>4. ASSUME NEW u, u.d = t.d, u.at \in {"files", "publish"},
             \A i \in DOMAIN p.files : i < u.next \/ u.at = "publish"
                => i \in u.got \cup u.noted \/ p.files[i] = "unlinked"
      PROVE  Right(u)'
  <2>1. Filed(u)'
    BY <1>1, <1>4 DEF Filed, Covered
  <2> QED
    BY <1>1, <1>3, <1>4, <2>1 DEF Right
<1>5. CASE FilesDone(t)
  <2>1. PICK u : u = [t EXCEPT !.at = "publish"]
    OBVIOUS
  <2>2. u.d = t.d /\ u.at = "publish" /\ u.got = t.got /\ u.noted = t.noted
    BY <1>1, <2>1 DEF Task
  <2>3. \A i \in DOMAIN p.files : i < t.next
    BY <1>1, <1>2, <1>5 DEF FilesDone
  <2>4. Right(u)'
    BY <1>3, <1>4, <2>2, <2>3
  <2> QED
    BY <1>5, <2>1, <2>4, SaneBecome DEF NextFile
<1>6. CASE ~FilesDone(t)
  <2>1. t.next \in 1 .. Len(p.files) \/ t.next = 0
    BY <1>1, <1>2, <1>6 DEF FilesDone
  <2>2. ASSUME NEW u, u \in {Past(t), Held(t), Noted(t)}
        PROVE  u.d = t.d /\ u.at = "files" /\ u.next = t.next + 1
    BY <1>1, <1>2, <2>2 DEF Past, Held, Noted, Task
  <2>3. /\ Past(t).got = t.got /\ Past(t).noted = t.noted
        /\ Held(t).got = t.got \cup {t.next} /\ Held(t).noted = t.noted
        /\ Noted(t).got = t.got /\ Noted(t).noted = t.noted \cup {t.next}
    BY <1>1 DEF Past, Held, Noted, Task
  <2>4. ASSUME NEW u, \/ u = Past(t) /\ p.files[t.next] = "unlinked"
                      \/ u = Held(t)
                      \/ u = Noted(t)
        PROVE  Right(u)'
    <3>1. u.d = t.d /\ u.at = "files" /\ u.next = t.next + 1
      BY <2>2, <2>4
    <3>2. \A i \in DOMAIN p.files : i < u.next => i < t.next \/ i = t.next
      BY <1>1, <1>2, <3>1
    <3>3. /\ t.got \cup t.noted \subseteq u.got \cup u.noted
          /\ t.next \in u.got \cup u.noted \/ p.files[t.next] = "unlinked"
      BY <2>3, <2>4
    <3>4. \A i \in DOMAIN p.files : i < u.next => i \in u.got \cup u.noted \/ p.files[i] = "unlinked"
      BY <1>3, <3>2, <3>3
    <3> QED
      BY <1>4, <3>1, <3>4
  <2>5. \/ Become(t, Past(t)) /\ p.files[t.next] = "unlinked"
        \/ Become(t, Held(t))
        \/ Become(t, Noted(t))
    BY <1>6 DEF NextFile
  <2>6. \E u : Become(t, u) /\ Right(u)'
    <3>1. PICK x, y, z : x = Past(t) /\ y = Held(t) /\ z = Noted(t)
      OBVIOUS
    <3>2. Right(y)' /\ Right(z)' /\ (p.files[t.next] = "unlinked" => Right(x)')
      BY <2>4, <3>1
    <3> QED
      BY <2>5, <3>1, <3>2
  <2> QED
    BY <2>6, SaneBecome
<1> QED
  BY <1>5, <1>6

\* What is next of the feed.
LEMMA EventIs ==
    ASSUME Tracked, Sane, NEW as, NEW stage, Take(as, stage)
    PROVE  /\ Known(Event) /\ Event.as = as
           /\ PostOf(Event) \in Posts /\ PostOf(Event).chat \in Chats
           /\ DOMAIN PostOf(Event).files = 1 .. Len(PostOf(Event).files)
           /\ DOMAIN PostOf(Event).files \subseteq Nat \ {0}
           /\ PostOf(Event).files = <<>> => DOMAIN PostOf(Event).files = {}
           /\ Platform \in {"telegram", "matrix"} => Len(PostOf(Event).files) <= 1
           /\ PostOf(Event).user = Self => PostOf(Event).kind # "interaction" /\ Platform # "telegram"
           /\ as = "edit" => PostOf(Event).kind = "message"
           /\ as # "edit" => Called(as, PostOf(Event))
<1>1. Known(Event) /\ Event.as = as /\ Real
  BY TailFeed DEF Take, Tracked, AllKnown, Sane, Typed, WorkTyped
<1>2. Event.as # "edit" => Called(Event.as, PostOf(Event))
  BY <1>1 DEF Known
<1>3. Event.as = "edit" => PostOf(Event).kind = "message"
  BY <1>1 DEF Known
<1>4. PostOf(Event).files = <<>> => DOMAIN PostOf(Event).files = {}
  OBVIOUS
<1>5. ASSUME NEW n \in Nat PROVE 1 .. n \subseteq Nat \ {0}
  OBVIOUS
<1>6. DOMAIN PostOf(Event).files \subseteq Nat \ {0}
  BY <1>1, <1>5, PostIs
<1> QED
  BY <1>1, <1>2, <1>3, <1>4, <1>6, PostIs

\* A handler that begins with a message that it has a reason to take.
LEMMA BegunRight ==
    ASSUME NEW d, NEW stage, Lawful(d), d.as # "invite",
           \/ stage = "name" /\ Platform = "slack" /\ Minded(d)
           \/ stage = "dispatch" /\ (Invited(PostOf(d)) \/ Anyone(PostOf(d)))
              /\ (Platform = "slack" => d.as = "interaction")
           \/ /\ stage = "files" /\ Invited(PostOf(d)) /\ Platform # "slack"
              /\ (Platform = "matrix" => PostOf(d).files # <<>>)
              /\ DOMAIN PostOf(d).files \subseteq Nat \ {0}
           \/ /\ stage = "publish" /\ Invited(PostOf(d)) /\ Platform # "slack"
              /\ DOMAIN PostOf(d).files = {}
    PROVE  Right(Begun(d, stage))
<1>1. /\ Begun(d, stage).d = d /\ Begun(d, stage).at = stage /\ Begun(d, stage).next = 1
  BY DEF Begun
<1>2. stage \in {"files", "publish"} => Filed(Begun(d, stage))
  <2>1. stage = "files" => \A i \in DOMAIN PostOf(d).files : ~(i < 1)
    OBVIOUS
  <2> QED
    BY <1>1, <2>1 DEF Filed
<1> QED
  BY <1>1, <1>2 DEF Right

\* A message that is not meant for the bot, or is lost on it.
LEMMA DropFair ==
    ASSUME NEW d,
           \/ d.as = "invite"
           \/ PostOf(d).user = Self
           \/ ~Anywhere(PostOf(d)) /\ Sized(FALSE, d, starts)
           \/ ~Invited(PostOf(d))
           \/ d.as = "edit" /\ (Platform = "slack" \/ ~PostOf(d).mention)
           \/ Platform = "slack" /\ d.as = "message" /\ PostOf(d).chat \notin direct
           \/ /\ Platform = "matrix" /\ PostOf(d).files # <<>>
              /\ PostOf(d).chat \in sealed \/ PostOf(d).files[1] \in {"large", "unlinked"}
    PROVE  Fair(End(Begun(d, "publish"), "ignored"))
<1> DEFINE e == End(Begun(d, "publish"), "ignored")
<1>1. e.d = d /\ e.what = "ignored" /\ e.start = starts
  BY DEF End, Begun
<1> QED
  BY <1>1 DEF Fair, Answer, Taken, Excused

\* A list that names a user, and a message that is refused or taken.
LEMMA AllowedInvited ==
    ASSUME NEW p
    PROVE  /\ Platform # "matrix" => (IsAllowed(p.user, TRUE) <=> Invited(p))
           /\ Platform = "matrix" => (IsAllowed(p.user, FALSE) <=> Invited(p))
           /\ IsAllowed(p.user, TRUE) /\ ~IsAllowed(p.user, FALSE) => p.user \in bound.byName
BY DEF IsAllowed, Invited, Named

LEMMA RefuseRight ==
    ASSUME NEW d, d.as # "invite", Platform # "slack", ~Invited(PostOf(d))
    PROVE  Right(Begun(d, "refuse"))
BY DEF Right, Begun

LEMMA TelegramSane ==
    ASSUME Tracked, Sane, [Next]_vars, Telegram
    PROVE  Sane'
<1>0. DmKept' /\ Platform = "telegram"
  BY DmStays DEF Telegram, matrixVars, Sane
<1>1. CASE Connect \/ Disconnect
  BY <1>0, <1>1, SaneStill DEF Connect, Disconnect
<1>2. CASE TelegramUpdate
  <2>1. PICK d : d = Event
    OBVIOUS
  <2> DEFINE p == PostOf(d)
  <2>2. Take("message", TelegramStage(d))
    BY <1>2, <2>1 DEF TelegramUpdate
  <2>3. /\ d.as = "message" /\ p \in Posts
        /\ DOMAIN p.files \subseteq Nat \ {0} /\ (p.files = <<>> => DOMAIN p.files = {})
        /\ p.user # Self /\ Called("message", p)
    BY <1>0, <2>1, <2>2, EventIs
  <2>4. Lawful(d) /\ (IsAllowed(p.user, TRUE) <=> Invited(p)) /\ DOMAIN p.files \subseteq Nat \ {0}
    BY <1>0, <2>3, AllowedInvited DEF Lawful, Anywhere
  <2>5. Right(Begun(d, TelegramStage(d))) /\ TelegramStage(d) # "ignored"
    <3>1. CASE p.text = "command" /\ p.files = <<>>
      <4>1. TelegramStage(d) = "dispatch" /\ Anyone(p)
        BY <1>0, <3>1 DEF TelegramStage, Anyone
      <4> QED
        BY <1>0, <2>3, <2>4, <4>1, BegunRight
    <3>2. CASE ~(p.text = "command" /\ p.files = <<>>) /\ ~Invited(p)
      <4>1. TelegramStage(d) = "refuse"
        BY <2>4, <3>2 DEF TelegramStage
      <4> QED
        BY <1>0, <2>3, <3>2, <4>1, RefuseRight
    <3>3. CASE ~(p.text = "command" /\ p.files = <<>>) /\ Invited(p) /\ p.files # <<>>
      <4>1. TelegramStage(d) = "files"
        BY <2>4, <3>3 DEF TelegramStage
      <4> QED
        BY <1>0, <2>3, <2>4, <3>3, <4>1, BegunRight
    <3>4. CASE ~(p.text = "command" /\ p.files = <<>>) /\ Invited(p) /\ p.files = <<>>
      <4>1. TelegramStage(d) = "publish"
        BY <2>4, <3>4 DEF TelegramStage
      <4> QED
        BY <1>0, <2>3, <2>4, <3>4, <4>1, BegunRight
    <3> QED
      BY <3>1, <3>2, <3>3, <3>4
  <2>6. Take("message", TelegramStage(Event)) /\ Right(Begun(Event, TelegramStage(Event)))
        /\ TelegramStage(Event) # "ignored"
    BY <2>1, <2>2, <2>5
  <2> QED
    BY <1>0, <2>6, SaneTake
<1>3. ASSUME NEW t \in tasks, TelegramDownload(t) PROVE Sane'
  <2> DEFINE p == PostOf(t.d)
  <2>1. /\ t \in Task /\ Right(t)' /\ p' = p /\ Len(p.files) <= 1 /\ Len(p.files) \in Nat
        /\ DOMAIN p.files = 1 .. Len(p.files) /\ Platform' = Platform
    BY <1>0, TaskIs
  <2>2. t.at = "files" /\ t.next = 1
    BY <1>0, <1>3, <2>1 DEF TelegramDownload, Right
  <2>3. ASSUME NEW u, u = [Held(t) EXCEPT !.at = "publish"] PROVE Right(u)'
    <3>1. /\ u.d = t.d /\ u.at = "publish" /\ u.got = t.got \cup {1} /\ Held(t) \in Task
      <4>1. Held(t) \in Task /\ Held(t).d = t.d /\ Held(t).got = t.got \cup {1}
        BY <2>1, <2>2, TaskFields DEF Held, Past, Task
      <4> QED
        BY <2>3, <4>1 DEF Task
    <3>2. Filed(u)'
      BY <2>1, <3>1 DEF Filed, Covered
    <3> QED
      BY <1>0, <2>1, <2>2, <3>1, <3>2 DEF Right
  <2>4. ASSUME NEW e, e.d = t.d, e.what = "failed", Fault PROVE Fair(e)'
    <3>1. faults' > 0
      BY <2>4, FaultCounts DEF Tracked, Typed
    <3> QED
      BY <1>0, <2>1, <2>4, <3>1 DEF Fair, Answer, Taken, Excused
  <2>5. CASE Become(t, [Held(t) EXCEPT !.at = "publish"])
    <3>1. PICK u : u = [Held(t) EXCEPT !.at = "publish"]
      OBVIOUS
    <3> QED
      BY <1>0, <2>3, <2>5, <3>1, SaneBecome
  <2>6. CASE Over(t, "failed") /\ Fault
    BY <1>0, <2>4, <2>6, SaneOver
  <2> QED
    BY <1>3, <2>5, <2>6 DEF TelegramDownload
<1>4. ASSUME NEW t \in tasks, Refuse(t) \/ Dispatch(t) \/ Publish(t) PROVE Sane'
  BY <1>0, <1>4, SharedSane
<1> QED
  BY <1>1, <1>2, <1>3, <1>4 DEF Telegram, TelegramTask

LEMMA DiscordSane ==
    ASSUME Tracked, Sane, [Next]_vars, Discord
    PROVE  Sane'
<1>0. DmKept' /\ Platform = "discord"
  BY DmStays DEF Discord, matrixVars, Sane
<1>1. CASE Connect \/ Disconnect
  BY <1>0, <1>1, SaneStill DEF Connect, Disconnect
<1>2. ASSUME NEW d, d.as # "invite", Lawful(d), DOMAIN PostOf(d).files \subseteq Nat \ {0}
      PROVE  Right(Begun(d, OnDiscordMessage(PostOf(d))))
  <2> DEFINE p == PostOf(d)
  <2>1. IsAllowed(p.user, TRUE) <=> Invited(p)
    BY <1>0, AllowedInvited
  <2>2. CASE ~Invited(p)
    <3>1. OnDiscordMessage(p) = "refuse"
      BY <2>1, <2>2 DEF OnDiscordMessage
    <3> QED
      BY <1>0, <1>2, <2>2, <3>1, RefuseRight
  <2>3. CASE Invited(p)
    <3>1. OnDiscordMessage(p) \in {"dispatch", "files"}
      BY <2>1, <2>3 DEF OnDiscordMessage
    <3> QED
      BY <1>0, <1>2, <2>3, <3>1, BegunRight
  <2> QED
    BY <2>2, <2>3
<1>3. CASE DiscordMessage
  <2>1. PICK d : d = Event
    OBVIOUS
  <2> DEFINE p == PostOf(d)
  <2>2. /\ d.as = "message" /\ p \in Posts /\ DOMAIN p.files \subseteq Nat \ {0}
        /\ Called("message", p)
    BY <1>3, <2>1, EventIs DEF DiscordMessage
  <2>3. CASE p.user = Self \/ (p.chat \notin direct /\ ~p.mention)
    <3>1. DiscordStage(Event) = "ignored"
      BY <2>1, <2>3 DEF DiscordStage
    <3>2. p.user = Self \/ (~Anywhere(p) /\ Sized(FALSE, d, starts))
      BY <1>0, <2>2, <2>3 DEF Anywhere, Sized, Called
    <3>3. Fair(End(Begun(Event, "publish"), "ignored"))
      BY <2>1, <3>2, DropFair
    <3> QED
      BY <1>0, <1>3, <3>1, <3>3, SaneTake DEF DiscordMessage
  <2>4. CASE ~(p.user = Self \/ (p.chat \notin direct /\ ~p.mention))
    <3>1. DiscordStage(Event) = OnDiscordMessage(p) /\ OnDiscordMessage(p) # "ignored"
      BY <2>1, <2>4 DEF DiscordStage, OnDiscordMessage
    <3>2. Right(Begun(Event, OnDiscordMessage(p)))
      BY <1>0, <1>2, <2>1, <2>2, <2>4 DEF Lawful, Anywhere, Sized
    <3> QED
      BY <1>0, <1>3, <3>1, <3>2, SaneTake DEF DiscordMessage
  <2> QED
    BY <2>3, <2>4
<1>4. CASE DiscordEdit
  <2>1. PICK d : d = Event
    OBVIOUS
  <2> DEFINE p == PostOf(d)
  <2>2. d.as = "edit" /\ p \in Posts /\ DOMAIN p.files \subseteq Nat \ {0}
    BY <1>4, <2>1, EventIs DEF DiscordEdit
  <2>3. CASE p.user = Self \/ ~p.mention
    <3>1. DiscordEditStage(Event) = "ignored"
      BY <2>1, <2>3 DEF DiscordEditStage
    <3>3. Fair(End(Begun(Event, "publish"), "ignored"))
      BY <2>1, <2>2, <2>3, DropFair
    <3> QED
      BY <1>0, <1>4, <3>1, <3>3, SaneTake DEF DiscordEdit
  <2>4. CASE ~(p.user = Self \/ ~p.mention)
    <3>1. DiscordEditStage(Event) = OnDiscordMessage(p) /\ OnDiscordMessage(p) # "ignored"
      BY <2>1, <2>4 DEF DiscordEditStage, OnDiscordMessage
    <3>2. Right(Begun(Event, OnDiscordMessage(p)))
      BY <1>0, <1>2, <2>1, <2>2, <2>4 DEF Lawful, Anywhere, Sized
    <3> QED
      BY <1>0, <1>4, <3>1, <3>2, SaneTake DEF DiscordEdit
  <2> QED
    BY <2>3, <2>4
<1>5. CASE DiscordSlash
  <2>1. PICK d : d = Event
    OBVIOUS
  <2> DEFINE p == PostOf(d)
  <2>2. d.as = "interaction" /\ Called("interaction", p) /\ (p.user = Self => p.kind # "interaction")
    BY <1>5, <2>1, EventIs DEF DiscordSlash
  <2>3. p.kind = "interaction"
    BY <2>2 DEF Called
  <2>4. Right(Begun(d, "dispatch"))
    BY <1>0, <2>2, <2>3, BegunRight DEF Lawful, Anywhere, Anyone
  <2> QED
    BY <1>0, <1>5, <2>1, <2>4, SaneTake DEF DiscordSlash, DiscordSlashStage
<1>6. ASSUME NEW t \in tasks, DiscordTask(t) PROVE Sane'
  BY <1>0, <1>6, SharedSane, NextFileSane DEF DiscordTask
<1> QED
  BY <1>1, <1>3, <1>4, <1>5, <1>6 DEF Discord

LEMMA SlackTakes ==
    ASSUME Tracked, Sane, [Next]_vars, Platform = "slack", DmKept', SlackEvent
    PROVE  Sane'
<1>0. PICK d : d = Event
  OBVIOUS
<1> DEFINE p == PostOf(d)
<1>1. OnSlackMessage(p) \in {"ignored", "name"}
  BY DEF OnSlackMessage
<1>2. ASSUME OnSlackMessage(p) = "ignored", p.kind = "message"
      PROVE  p.user = Self \/ (~Anywhere(p) /\ Sized(FALSE, d, starts))
  BY <1>2 DEF OnSlackMessage, Anywhere, Sized
<1>3. ASSUME OnSlackMessage(p) = "name", p.chat \in direct \/ p.mention PROVE Lawful(d)
  BY <1>3 DEF OnSlackMessage, Lawful, Anywhere, Sized
<1>4. CASE Take("message", SlackMessageStage(Event))
  <2>1. d.as = "message" /\ Called("message", p)
    BY <1>0, <1>4, EventIs
  <2>2. p.kind = "message"
    BY <2>1 DEF Called
  <2>3. CASE p.chat \notin direct
    <3>1. SlackMessageStage(Event) = "ignored" /\ Fair(End(Begun(Event, "publish"), "ignored"))
      BY <1>0, <2>1, <2>3, DropFair DEF SlackMessageStage
    <3> QED
      BY <1>4, <3>1, SaneTake
  <2>4. CASE p.chat \in direct /\ OnSlackMessage(p) = "ignored"
    <3>1. SlackMessageStage(Event) = "ignored" /\ Fair(End(Begun(Event, "publish"), "ignored"))
      BY <1>0, <1>2, <2>2, <2>4, DropFair DEF SlackMessageStage
    <3> QED
      BY <1>4, <3>1, SaneTake
  <2>5. CASE p.chat \in direct /\ OnSlackMessage(p) = "name"
    <3>1. SlackMessageStage(Event) = "name"
      BY <1>0, <2>5 DEF SlackMessageStage
    <3>2. Right(Begun(Event, "name"))
      BY <1>0, <1>3, <2>1, <2>5, BegunRight DEF Minded
    <3> QED
      BY <1>4, <3>1, <3>2, SaneTake
  <2> QED
    BY <1>1, <2>3, <2>4, <2>5
<1>5. CASE Take("mention", SlackMentionStage(Event))
  <2>1. d.as = "mention" /\ Called("mention", p) /\ p \in Posts
    BY <1>0, <1>5, EventIs
  <2>2. p.kind = "message" /\ p.mention
    BY <2>1 DEF Called, Posts
  <2>3. CASE OnSlackMessage(p) = "ignored"
    <3>1. SlackMentionStage(Event) = "ignored" /\ Fair(End(Begun(Event, "publish"), "ignored"))
      BY <1>0, <1>2, <2>2, <2>3, DropFair DEF SlackMentionStage
    <3> QED
      BY <1>5, <3>1, SaneTake
  <2>4. CASE OnSlackMessage(p) = "name"
    <3>1. SlackMentionStage(Event) = "name"
      BY <1>0, <2>4 DEF SlackMentionStage
    <3>2. Right(Begun(Event, "name"))
      BY <1>0, <1>3, <2>1, <2>2, <2>4, BegunRight DEF Minded
    <3> QED
      BY <1>5, <3>1, <3>2, SaneTake
  <2> QED
    BY <1>1, <2>3, <2>4
<1>6. CASE Take("edit", SlackEditStage(Event))
  <2>1. d.as = "edit" /\ SlackEditStage(Event) = "ignored"
    BY <1>0, <1>6, EventIs DEF SlackEditStage
  <2>2. Fair(End(Begun(Event, "publish"), "ignored"))
    BY <1>0, <2>1, DropFair
  <2> QED
    BY <1>6, <2>1, <2>2, SaneTake
<1>7. CASE Take("interaction", SlackCommandStage(Event))
  <2>1. d.as = "interaction" /\ Called("interaction", p) /\ (p.user = Self => p.kind # "interaction")
    BY <1>0, <1>7, EventIs
  <2>2. p.kind = "interaction"
    BY <2>1 DEF Called
  <2>3. Right(Begun(d, "dispatch"))
    BY <2>1, <2>2, BegunRight DEF Lawful, Anywhere, Anyone
  <2> QED
    BY <1>0, <1>7, <2>3, SaneTake DEF SlackCommandStage
<1> QED
  BY <1>4, <1>5, <1>6, <1>7 DEF SlackEvent

LEMMA SlackSane ==
    ASSUME Tracked, Sane, [Next]_vars, Slack
    PROVE  Sane'
<1>0. DmKept' /\ Platform = "slack"
  BY DmStays DEF Slack, matrixVars, Sane
<1>1. CASE SlackConnect \/ SlackDisconnect
  BY <1>0, <1>1, SaneStill DEF SlackConnect, SlackDisconnect, Connect, Disconnect
<1>2. CASE SlackEvent
  BY <1>0, <1>2, SlackTakes
<1>3. ASSUME NEW t \in tasks, SlackName(t) PROVE Sane'
  <2> DEFINE p == PostOf(t.d)
  <2>1. /\ t \in Task /\ Right(t) /\ Right(t)' /\ p' = p /\ t.at = "name" /\ Platform' = Platform
        /\ bound' = bound /\ HostTyped
    BY <1>3, TaskIs, Settled DEF SlackName, Tracked, Typed
  <2>2. Lawful(t.d)' /\ Minded(t.d)' /\ t.d.as # "invite"
    BY <1>0, <2>1 DEF Right
  <2>3. (Invited(p) <=> Invited(p)') /\ (IsAllowed(p.user, TRUE) <=> Invited(p))
        /\ (IsAllowed(p.user, TRUE) /\ ~IsAllowed(p.user, FALSE) => p.user \in bound.byName)
        /\ (IsAllowed(p.user, FALSE) => IsAllowed(p.user, TRUE))
    BY <1>0, <2>1, AllowedInvited DEF Invited, Named, IsAllowed, Platform
  <2>4. t.next = 1 /\ DOMAIN p.files \subseteq Nat \ {0}
    <3>1. \A n \in Nat : 1 .. n \subseteq Nat \ {0}
      OBVIOUS
    <3> QED
      BY <2>1, <3>1, TaskIs DEF Right
  <2>5. ASSUME NEW u, u.d = t.d, u.at = "react", u.next = t.next, Invited(p)' PROVE Right(u)'
    <3>1. \A i \in DOMAIN p.files : ~(i < 1)
      BY <2>4
    <3>2. Filed(u)'
      BY <2>1, <2>4, <2>5, <3>1 DEF Filed
    <3> QED
      BY <1>0, <2>1, <2>2, <2>5, <3>2 DEF Right
  <2>6. ASSUME NEW u, u.d = t.d, u.at = "refuse",
               ~Invited(p)' \/ (p.user \in bound'.byName /\ faults' > 0)
        PROVE  Right(u)'
    BY <1>0, <2>1, <2>2, <2>6 DEF Right
  <2>7. ASSUME NEW named \in BOOLEAN, AfterName(t, named), named \/ Fault PROVE Sane'
    <3>1. CASE IsAllowed(p.user, named)
      <4>1. PICK u : u = [t EXCEPT !.at = "react"]
        OBVIOUS
      <4>2. u.d = t.d /\ u.at = "react" /\ u.next = t.next
        BY <2>1, <4>1 DEF Task
      <4>3. Invited(p)'
        BY <2>3, <3>1
      <4>4. Become(t, u)
        BY <2>7, <3>1, <4>1 DEF AfterName
      <4> QED
        BY <1>0, <2>5, <4>2, <4>3, <4>4, SaneBecome
    <3>2. CASE ~IsAllowed(p.user, named)
      <4>1. PICK u : u = [t EXCEPT !.at = "refuse"]
        OBVIOUS
      <4>2. u.d = t.d /\ u.at = "refuse"
        BY <2>1, <4>1 DEF Task
      <4>3. ~Invited(p)' \/ (p.user \in bound'.byName /\ faults' > 0)
        BY <2>1, <2>3, <2>7, <3>2, FaultCounts
      <4>4. Become(t, u)
        BY <2>7, <3>2, <4>1 DEF AfterName
      <4> QED
        BY <1>0, <2>6, <4>2, <4>3, <4>4, SaneBecome
    <3> QED
      BY <3>1, <3>2
  <2> QED
    BY <1>3, <2>7 DEF SlackName
<1>4. ASSUME NEW t \in tasks, SlackReact(t) PROVE Sane'
  <2>1. t \in Task /\ Right(t)' /\ t.at = "react" /\ Platform' = Platform
    BY <1>4, TaskIs DEF SlackReact
  <2>2. PICK u : u = [t EXCEPT !.at = IF IsCommand(PostOf(t.d)) THEN "dispatch" ELSE "files"]
    OBVIOUS
  <2>3. /\ u.d = t.d /\ u.at \in {"dispatch", "files"} /\ u.next = t.next
        /\ u.got = t.got /\ u.noted = t.noted
    BY <2>1, <2>2 DEF Task
  <2>4. Right(u)'
    <3>1. Filed(u)'
      BY <2>1, <2>3 DEF Right, Filed, Covered
    <3> QED
      BY <1>0, <2>1, <2>3, <3>1 DEF Right
  <2> QED
    BY <1>0, <1>4, <2>2, <2>4, SaneBecome DEF SlackReact
<1>5. ASSUME NEW t \in tasks, SlackDispatch(t) \/ Refuse(t) \/ Publish(t) PROVE Sane'
  BY <1>0, <1>5, SharedSane DEF SlackDispatch
<1>6. ASSUME NEW t \in tasks, NextFile(t) PROVE Sane'
  BY <1>0, <1>6, NextFileSane
<1>7. CASE (\E s \in swaps : Unmark(s) \/ Mark(s)) \/ (\E i \in DOMAIN posts : Speak(SlackContext(i)))
  BY <1>0, <1>7, SaneStill DEF Unmark, Mark, Speak, intakeVars
<1> QED
  BY <1>1, <1>2, <1>3, <1>4, <1>5, <1>6, <1>7 DEF Slack, SlackTask

\* What it takes a chat for, it was in this start.
LEMMA DmIs ==
    ASSUME DmKept, Platform = "matrix", up, NEW c \in Chats
    PROVE  <<starts, c, IsDm(c)>> \in been
<1>1. CASE dmCache[c] = "unknown"
  <2>1. IsDm(c) = (c \in direct)
    BY <1>1 DEF IsDm
  <2> QED
    BY <2>1 DEF DmKept
<1>2. CASE dmCache[c] # "unknown"
  <2>1. IsDm(c) = (dmCache[c] = "direct")
    BY <1>2 DEF IsDm
  <2> QED
    BY <1>2, <2>1 DEF DmKept
<1> QED
  BY <1>1, <1>2

LEMMA MatrixTakes ==
    ASSUME Tracked, Sane, [Next]_vars, Platform = "matrix", DmKept',
           MatrixText \/ MatrixMedia \/ MatrixInvite
    PROVE  Sane'
<1>0. PICK d : d = Event
  OBVIOUS
<1> DEFINE p == PostOf(d)
<1>1. ASSUME NEW as, NEW stage, Take(as, stage)
      PROVE  /\ d.as = as /\ p \in Posts /\ p.chat \in Chats
             /\ DOMAIN p.files \subseteq Nat \ {0} /\ (p.files = <<>> => DOMAIN p.files = {})
             /\ as # "edit" => p.kind = as \/ as = "mention"
             /\ ~ShouldProcess(d) => p.user = Self \/ ~Invited(p)
             /\ ShouldProcess(d) => p.user # Self /\ Invited(p)
             /\ IsAllowed(p.user, FALSE) <=> Invited(p)
  <2>1. /\ d.as = as /\ p \in Posts /\ p.chat \in Chats
        /\ DOMAIN p.files \subseteq Nat \ {0} /\ (p.files = <<>> => DOMAIN p.files = {})
        /\ as # "edit" => Called(as, p) /\ Known(d)
    BY <1>0, <1>1, EventIs
  <2>2. Known(d)
    BY <1>0, <1>1, EventIs
  <2>3. ServerTime(d.post) >= StartedAfter
    <3>1. d.post \in Nat /\ since \in 0 .. MaxPosts /\ BootTime \in Nat /\ BootTime >= MaxPosts
          /\ MaxPosts \in Nat
      BY <2>2, IntakeAssumption, MatrixAssumption DEF Known, Tracked, Typed, HostTyped
    <3> QED
      BY <3>1 DEF ServerTime, StartedAfter
  <2>4. IsAllowed(p.user, FALSE) <=> Invited(p)
    BY AllowedInvited
  <2> QED
    BY <2>1, <2>3, <2>4 DEF ShouldProcess, Called
<1>2. DmKept
  BY DEF Sane
<1>3. CASE MatrixText
  <2>1. Take("message", MatrixTextStage(Event)) /\ PostOf(Event).files = <<>>
    BY <1>3 DEF MatrixText
  <2>2. p.files = <<>> /\ DOMAIN p.files = {} /\ d.as = "message" /\ p.kind = "message"
        /\ p.chat \in Chats
    BY <1>0, <1>1, <2>1
  <2>3. (IsDm(p.chat) => Sized(TRUE, d, starts)) /\ (~IsDm(p.chat) => Sized(FALSE, d, starts))
    <3>1. <<starts, p.chat, IsDm(p.chat)>> \in been
      BY <1>2, <2>1, <2>2, DmIs DEF Take
    <3>2. ASSUME NEW two, two \/ ~two PROVE (two => two = TRUE) /\ (~two => two = FALSE)
      OBVIOUS
    <3> QED
      BY <3>1, <3>2 DEF Sized
  <2>4. CASE ~ShouldProcess(d) \/ (~IsDm(p.chat) /\ ~p.mention)
    <3>1. MatrixTextStage(Event) = "ignored"
      BY <1>0, <2>4 DEF MatrixTextStage
    <3>2. p.user = Self \/ ~Invited(p) \/ (~Anywhere(p) /\ Sized(FALSE, d, starts))
      <4>1. ~IsDm(p.chat) /\ ~p.mention => ~Anywhere(p) /\ Sized(FALSE, d, starts)
        BY <2>2, <2>3 DEF Anywhere
      <4> QED
        BY <1>1, <2>1, <2>4, <4>1
    <3>3. Fair(End(Begun(Event, "publish"), "ignored"))
      BY <1>0, <3>2, DropFair
    <3> QED
      BY <2>1, <3>1, <3>3, SaneTake
  <2>5. CASE ~(~ShouldProcess(d) \/ (~IsDm(p.chat) /\ ~p.mention))
    <3>1. MatrixTextStage(Event) \in {"dispatch", "publish"}
      BY <1>0, <2>5 DEF MatrixTextStage
    <3>2. Lawful(d) /\ Invited(p)
      <4>1. p.user # Self /\ Invited(p)
        BY <1>1, <2>1, <2>5
      <4> QED
        BY <2>3, <2>5, <4>1 DEF Lawful, Anywhere
    <3>3. Right(Begun(Event, MatrixTextStage(Event)))
      BY <1>0, <2>2, <3>1, <3>2, BegunRight
    <3> QED
      BY <2>1, <3>1, <3>3, SaneTake
  <2> QED
    BY <2>4, <2>5
<1>4. CASE MatrixMedia
  <2>1. Take("message", MatrixMediaStage(Event)) /\ PostOf(Event).files # <<>>
    BY <1>4 DEF MatrixMedia
  <2>2. p.files # <<>> /\ d.as = "message" /\ DOMAIN p.files \subseteq Nat \ {0}
    BY <1>0, <1>1, <2>1
  <2>3. CASE MatrixMediaStage(d) = "ignored"
    <3>1. ~ShouldProcess(d) \/ p.chat \in sealed \/ p.files[1] \in {"large", "unlinked"}
      BY <2>3 DEF MatrixMediaStage
    <3>2. ~ShouldProcess(d) => p.user = Self \/ ~Invited(p)
      BY <1>1, <2>1
    <3>3. Fair(End(Begun(Event, "publish"), "ignored"))
      BY <1>0, <2>2, <3>1, <3>2, DropFair
    <3> QED
      BY <1>0, <2>1, <2>3, <3>3, SaneTake
  <2>4. CASE MatrixMediaStage(d) # "ignored"
    <3>1. MatrixMediaStage(d) = "files" /\ ShouldProcess(d)
      BY <2>4 DEF MatrixMediaStage
    <3>2. Lawful(d) /\ Invited(p)
      BY <1>1, <2>1, <2>2, <3>1 DEF Lawful, Anywhere
    <3>3. Right(Begun(Event, MatrixMediaStage(Event)))
      BY <1>0, <2>2, <3>1, <3>2, BegunRight
    <3> QED
      BY <1>0, <2>1, <3>1, <3>3, SaneTake
  <2> QED
    BY <2>3, <2>4
<1>5. CASE MatrixInvite
  <2>1. Take("invite", MatrixInviteStage(Event)) /\ d.as = "invite"
    BY <1>0, <1>1, <1>5 DEF MatrixInvite
  <2>2. MatrixInviteStage(Event) \in {"join", "ignored"}
    BY DEF MatrixInviteStage
  <2>3. Right(Begun(d, "join"))
    BY <2>1 DEF Right, Begun
  <2>4. Fair(End(Begun(d, "publish"), "ignored"))
    BY <2>1, DropFair
  <2> QED
    BY <1>0, <2>1, <2>2, <2>3, <2>4, SaneTake
<1> QED
  BY <1>3, <1>4, <1>5

LEMMA CachedKeeps ==
    ASSUME Tracked, DmKept, [Next]_vars, NEW c \in Chats, UNCHANGED <<starts, up, direct>>, up,
           Platform = "matrix", Cached(c) \/ UNCHANGED dmCache
    PROVE  DmKept'
<1>1. bound' = bound /\ Platform' = Platform /\ been \subseteq been'
  BY Settled
<1>2. <<starts, c, IsDm(c)>> \in been
  BY DmIs
<1>3. CASE Cached(c)
  <2>1. dmCache' = [dmCache EXCEPT ![c] = IF IsDm(c) THEN "direct" ELSE "group"]
    BY <1>3 DEF Cached
  <2>2. dmCache' \in [Chats -> {"unknown", "direct", "group"}]
    BY <2>1 DEF DmKept
  <2>3. ASSUME NEW k \in Chats
        PROVE  dmCache'[k] # "unknown" => <<starts, k, dmCache'[k] = "direct">> \in been
    <3>1. CASE k = c
      <4>1. (dmCache'[k] = "direct") = IsDm(c)
        BY <2>1, <3>1 DEF DmKept, IsDm
      <4> QED
        BY <1>2, <3>1, <4>1
    <3>2. CASE k # c
      BY <2>1, <3>2 DEF DmKept
    <3> QED
      BY <3>1, <3>2
  <2> QED
    BY <1>1, <2>2, <2>3 DEF DmKept
<1> QED
  BY <1>3, DmStays

LEMMA MatrixKeeps ==
    ASSUME Tracked, Sane, [Next]_vars, Matrix
    PROVE  DmKept'
<1>0. DmKept /\ Platform = "matrix" /\ Platform' = Platform /\ been \subseteq been' /\ TaskOnce
  BY Settled DEF Sane, Matrix, Tracked
<1>1. CASE MatrixConnect
  BY <1>0, <1>1 DEF MatrixConnect, Connect, DmKept
<1>2. CASE MatrixText
  <2>1. Take("message", MatrixTextStage(Event))
    BY <1>2 DEF MatrixText
  <2>2. PostOf(Event).chat \in Chats /\ UNCHANGED <<starts, up, direct>> /\ up
    BY <2>1, EventIs DEF Take
  <2>3. Cached(PostOf(Event).chat) \/ UNCHANGED dmCache
    BY <1>2 DEF MatrixText
  <2>4. PICK c \in Chats : Cached(c) \/ UNCHANGED dmCache
    BY <2>2, <2>3
  <2> QED
    BY <1>0, <2>2, <2>4, CachedKeeps
<1>3. ASSUME NEW t \in tasks, MatrixDownload(t) PROVE DmKept'
  <2>1. /\ PostOf(t.d).chat \in Chats /\ (Cached(PostOf(t.d).chat) \/ UNCHANGED dmCache)
        /\ UNCHANGED <<starts, up, direct>> /\ up
    <3>1. PostOf(t.d).chat \in Chats
      BY <1>3, TaskIs DEF Posts
    <3> QED
      BY <1>0, <1>3, <3>1 DEF MatrixDownload, Become, Over, TaskOnce, Typed, HostTyped, Tracked
  <2>2. PICK c \in Chats : Cached(c) \/ UNCHANGED dmCache
    BY <2>1
  <2> QED
    BY <1>0, <2>1, <2>2, CachedKeeps
<1>4. ASSUME NEW c \in Chats, Crowd(c) PROVE DmKept'
  <2>1. UNCHANGED <<starts, up, dmCache>> /\ (up => <<starts, c, c \in direct'>> \in been')
        /\ \A k \in Chats : k # c => (k \in direct' <=> k \in direct)
    BY <1>4 DEF Crowd
  <2>2. ASSUME NEW k \in Chats, up' PROVE <<starts, k, k \in direct'>> \in been'
    <3>1. CASE k = c
      BY <2>1, <2>2, <3>1
    <3>2. CASE k # c
      <4>1. (k \in direct') = (k \in direct)
        BY <2>1, <3>2
      <4> QED
        BY <1>0, <2>1, <2>2, <4>1 DEF DmKept
    <3> QED
      BY <3>1, <3>2
  <2> QED
    BY <1>0, <2>1, <2>2 DEF DmKept
<1>5. CASE UNCHANGED <<dmCache, starts, direct>> /\ (up' => up)
  BY <1>0, <1>5, DmStays
<1>6. CASE Disconnect /\ UNCHANGED matrixVars
  BY <1>5, <1>6 DEF Disconnect, matrixVars
<1>7. CASE MatrixMedia \/ MatrixInvite \/ Unsynced
  BY <1>5, <1>7 DEF MatrixMedia, MatrixInvite, Unsynced, Take, matrixVars
<1>8. ASSUME NEW t \in tasks, Join(t) \/ ((Dispatch(t) \/ Publish(t)) /\ UNCHANGED matrixVars)
      PROVE  DmKept'
  BY <1>5, <1>8 DEF Join, Dispatch, Publish, Over, matrixVars
<1> QED
  BY <1>1, <1>2, <1>3, <1>4, <1>6, <1>7, <1>8 DEF Matrix, MatrixTask

LEMMA MatrixSane ==
    ASSUME Tracked, Sane, [Next]_vars, Matrix
    PROVE  Sane'
<1>0. DmKept' /\ Platform = "matrix"
  BY MatrixKeeps DEF Matrix
<1>1. CASE MatrixConnect \/ Disconnect \/ Unsynced \/ (\E c \in Chats : Crowd(c))
  BY <1>0, <1>1, SaneStill DEF MatrixConnect, Connect, Disconnect, Unsynced, Crowd
<1>2. CASE MatrixText \/ MatrixMedia \/ MatrixInvite
  BY <1>0, <1>2, MatrixTakes
<1>3. ASSUME NEW t \in tasks, MatrixDownload(t) PROVE Sane'
  <2> DEFINE p == PostOf(t.d)
  <2>1. /\ t \in Task /\ Right(t)' /\ p' = p /\ Len(p.files) <= 1 /\ Len(p.files) \in Nat
        /\ DOMAIN p.files = 1 .. Len(p.files) /\ Platform' = Platform
    BY <1>0, TaskIs
  <2>2. t.at = "files" /\ t.next = 1 /\ p.files # <<>>
    BY <1>0, <1>3, <2>1 DEF MatrixDownload, Right
  <2>3. ASSUME NEW u, u = [Held(t) EXCEPT !.at = "publish"] PROVE Right(u)'
    <3>1. /\ u.d = t.d /\ u.at = "publish" /\ u.got = t.got \cup {1}
      <4>1. Held(t) \in Task /\ Held(t).d = t.d /\ Held(t).got = t.got \cup {1}
        BY <2>1, <2>2, TaskFields DEF Held, Past, Task
      <4> QED
        BY <2>3, <4>1 DEF Task
    <3>2. Filed(u)'
      BY <2>1, <3>1 DEF Filed, Covered
    <3> QED
      BY <1>0, <2>1, <2>2, <3>1, <3>2 DEF Right
  <2>4. ASSUME NEW e, e.d = t.d, e.what = "ignored", p.files[1] = "empty" \/ Fault PROVE Fair(e)'
    <3>1. Fault => faults' > 0
      BY FaultCounts DEF Tracked, Typed
    <3> QED
      BY <1>0, <2>1, <2>2, <2>4, <3>1 DEF Fair, Answer, Taken, Excused
  <2>5. CASE Become(t, [Held(t) EXCEPT !.at = "publish"])
    <3>1. PICK u : u = [Held(t) EXCEPT !.at = "publish"]
      OBVIOUS
    <3> QED
      BY <1>0, <2>3, <2>5, <3>1, SaneBecome
  <2>6. CASE Over(t, "ignored") /\ (p.files[1] = "empty" \/ Fault)
    BY <1>0, <2>4, <2>6, SaneOver
  <2> QED
    BY <1>3, <2>5, <2>6 DEF MatrixDownload
<1>4. ASSUME NEW t \in tasks, Join(t) PROVE Sane'
  <2>1. t.d.as = "invite" /\ Platform' = Platform
    BY <1>4, TaskIs DEF Join, Right
  <2>2. ASSUME NEW e, e.d = t.d, e.what \in {"answered", "failed"} PROVE Fair(e)'
    BY <1>0, <2>1, <2>2 DEF Fair
  <2> QED
    BY <1>0, <1>4, <2>2, SaneOver DEF Join
<1>5. ASSUME NEW t \in tasks, Dispatch(t) \/ Publish(t) PROVE Sane'
  BY <1>0, <1>5, SharedSane
<1> QED
  BY <1>1, <1>2, <1>3, <1>4, <1>5 DEF Matrix, MatrixTask

LEMMA SaneStep ==
    ASSUME Tracked, Sane, [Next]_vars
    PROVE  Sane'
<1>1. CASE (World \/ \E i \in DOMAIN posts : EditIt(i) \/ Redeliver(i)) /\ UNCHANGED <<slackVars, matrixVars>>
  <2>2. UNCHANGED <<starts, direct, up, tasks, ended>>
    BY <1>1 DEF World, PostIt, EditIt, Redeliver, TellAgain
  <2>1. DmKept'
    BY <1>1, <2>2, DmStays DEF matrixVars, Sane
  <2> QED
    BY <2>1, <2>2, SaneStill
<1>2. CASE UNCHANGED vars
  <2>1. DmKept'
    BY <1>2, DmStays DEF vars, intakeVars, matrixVars, Sane
  <2> QED
    BY <1>2, <2>1, SaneStill DEF vars, intakeVars
<1> QED
  BY <1>1, <1>2, TelegramSane, DiscordSane, SlackSane, MatrixSane DEF Next

LEMMA Begins ==
    ASSUME Init
    PROVE  Tracked /\ Sane
<1>1. /\ bound \in Instances /\ posts = <<>> /\ feed = <<>> /\ up = FALSE /\ since = 0
      /\ tasks = {} /\ direct = bound.direct /\ starts = 0 /\ edits = 0 /\ faults = 0
      /\ ended = {} /\ dmCache = [c \in Chats |-> "unknown"] /\ MaxPosts \in Nat
      /\ bound.direct \subseteq Chats /\ Len(posts) = 0 /\ Len(feed) = 0
  BY IntakeAssumption DEF Init, IntakeInit, MatrixInit
<1>2. Typed
  <2>1. HostTyped
    <3>1. posts \in Seq(Posts) /\ Len(posts) <= MaxPosts
      BY <1>1
    <3>2. since \in 0 .. MaxPosts
      BY <1>1
    <3>4. up \in BOOLEAN
      BY <1>1
    <3>3. starts \in Nat /\ edits \in Nat /\ faults \in Nat
      BY <1>1
    <3> QED
      BY <1>1, <3>1, <3>2, <3>3, <3>4 DEF HostTyped
  <2>2. WorkTyped
    BY <1>1 DEF WorkTyped
  <2> QED
    BY <2>1, <2>2 DEF Typed
<1>3. FeedOnce /\ AllKnown /\ TaskOnce /\ EndOnce
  BY <1>1 DEF FeedOnce, AllKnown, TaskOnce, EndOnce, InFeed
<1>4. Real /\ DmKept
  BY <1>1 DEF Real, DmKept
<1> QED
  BY <1>1, <1>2, <1>3, <1>4 DEF Tracked, Sane

\* Every delivery is in one place, and each handler works for whom it should.
THEOREM IntakeHolds == Spec => [](Tracked /\ Sane)
<1>1. Tracked /\ Sane /\ [Next]_vars => (Tracked /\ Sane)'
  BY TrackedStep, SaneStep
<1> QED
  BY Begins, <1>1, PTL DEF Spec

\* A post is taken once each time that the platform tells of it.
THEOREM PostsAreTakenOnce == Spec => []TakenOnce
<1>1. ASSUME Tracked, Sane PROVE TakenOnce
  <2> SUFFICES ASSUME NEW e \in ended, NEW f \in ended, Taken(e), Taken(f),
                      e.d.post = f.d.post, e.d.rev = f.d.rev
               PROVE  \/ e = f
                      \/ Platform = "matrix" /\ e.start # f.start
                      \/ Platform = "slack" /\ PostOf(e.d).chat \in direct /\ e.d.as # f.d.as
    BY DEF TakenOnce
  <2>1. /\ e.d \in Delivery /\ f.d \in Delivery /\ Known(e.d) /\ Known(f.d)
        /\ Fair(e) /\ Fair(f)
    BY <1>1 DEF Tracked, Typed, WorkTyped, Ending, AllKnown, Sane
  <2>2. PostOf(e.d) = PostOf(f.d)
    BY DEF PostOf
  <2>3. CASE e.d.as = f.d.as
    <3>1. e.d = f.d
      BY <2>1, <2>3 DEF Delivery
    <3> QED
      BY <1>1, <3>1 DEF Tracked, EndOnce, OnMatrix
  <2>4. CASE e.d.as # f.d.as
    <3>1. ASSUME Platform # "slack" PROVE FALSE
      BY <2>1, <2>2, <2>4, <3>1 DEF Known, Called
    <3>2. ASSUME Platform = "slack" PROVE PostOf(e.d).chat \in direct
      <4>1. ASSUME NEW g \in {e, f}, NEW h \in {e, f}, g.d.as = "interaction", h.d.as # "interaction"
            PROVE  FALSE
        BY <2>1, <2>2, <3>2, <4>1 DEF Known, Called, Fair, Minded
      <4>2. Minded(e.d) /\ Minded(f.d)
        BY <2>1, <2>4, <3>2, <4>1 DEF Fair
      <4> QED
        BY <2>2, <2>4, <4>2 DEF Minded
    <3> QED
      BY <2>4, <3>1, <3>2
  <2> QED
    BY <2>3, <2>4
<1> QED
  BY IntakeHolds, <1>1, PTL

\* What is meant for the bot reaches it whole, or is answered for; the rest does not.
THEOREM WhatIsMeantIsTaken == Spec => []MeantIsTaken
<1>1. ASSUME Sane PROVE MeantIsTaken
  <2>1. \A e \in ended : e.d.as # "invite" => Answer(e)
    BY <1>1 DEF Sane, Fair
  <2> QED
    BY <2>1 DEF MeantIsTaken, Answer, Was, Sized
<1> QED
  BY IntakeHolds, <1>1, PTL

-----------------------------------------------------------------------------
\* Reactions, on Slack.

OnSlack == Platform = "slack"

SlackTyped ==
    /\ tracked \in [SlackContexts -> 0 .. MaxPosts]
    /\ marks \in [1 .. MaxPosts -> SUBSET {"eyes", "check"}]
    /\ swaps \subseteq Swap

NoSwap(i) == \A s \in swaps : s.post # i
Steady(i) == Alone(i) /\ i \notin unmarked \cup early
Tracks(i) == tracked[SlackContext(i)]

\* What is tracked is the post of the context, and what is to come has no mark.
SlackRest ==
    /\ \A c \in SlackContexts : tracked[c] # 0
         => tracked[c] \in 1 .. Len(posts) /\ SlackContext(tracked[c]) = c
    /\ \A i \in 1 .. MaxPosts : i > Len(posts) => marks[i] = {} /\ NoSwap(i) /\ i \notin wrote

\* The reactions of a post by how far its message is.
Untouched(i) == marks[i] = {} /\ NoSwap(i) /\ Tracks(i) = 0 /\ i \notin wrote
Fresh(i) == marks[i] = {} /\ NoSwap(i) /\ Tracks(i) = i /\ i \notin wrote
Eyed(i) == marks[i] = {"eyes"} /\ NoSwap(i) /\ Tracks(i) = i
Remove(i) == [post |-> i, at |-> "remove"]
Add(i) == [post |-> i, at |-> "add"]
Swapped(i) ==
    /\ Tracks(i) = 0
    /\ \/ Remove(i) \in swaps /\ Add(i) \notin swaps /\ marks[i] = {"eyes"}
       \/ Add(i) \in swaps /\ Remove(i) \notin swaps /\ marks[i] = {}
       \/ NoSwap(i) /\ marks[i] = {"check"}

Worked(t) ==
    LET i == t.d.post
    IN  /\ t.at = "react" => Fresh(i)
        /\ t.at \in {"dispatch", "files", "publish"} => IF i \in wrote THEN Swapped(i) ELSE Eyed(i)
Done(e) ==
    LET i == e.d.post
    IN  IF e.what = "answered" \/ i \in wrote THEN Swapped(i) ELSE Eyed(i)

\* A handler that has taken its message, and what became of one that had.
Busy(t) == t.at \notin {"name", "refuse"}
Kept(e) == e.what \notin {"ignored", "refused"}

\* No handler has taken a post, or this one alone has.
Idle(i) ==
    /\ \A t \in tasks : t.d.post = i => ~Busy(t)
    /\ \A e \in ended : e.d.post = i => ~Kept(e)
SoleTask(t) ==
    /\ \A u \in tasks : u.d.post = t.d.post /\ Busy(u) => u = t
    /\ \A e \in ended : e.d.post = t.d.post => ~Kept(e)
SoleEnd(e) ==
    /\ \A t \in tasks : t.d.post = e.d.post => ~Busy(t)
    /\ \A f \in ended : f.d.post = e.d.post /\ Kept(f) => f = e

Neat(i) ==
    /\ Idle(i) => Untouched(i)
    /\ \A t \in tasks : t.d.post = i /\ Minded(t.d) /\ Busy(t) /\ SoleTask(t) => Worked(t)
    /\ \A e \in ended : e.d.post = i /\ Minded(e.d) /\ Taken(e) /\ e.start = starts /\ SoleEnd(e)
         => Done(e)

SlackMarks == \A i \in 1 .. Len(posts) : Steady(i) => Neat(i)

Reacted == OnSlack => SlackTyped /\ SlackRest /\ SlackMarks

LEMMA ContextIs ==
    ASSUME Typed, NEW i \in 1 .. Len(posts)
    PROVE  SlackContext(i) \in SlackContexts /\ i \in 1 .. MaxPosts
<1>1. /\ posts[i] \in Posts /\ Len(posts) \in Nat /\ Len(posts) <= MaxPosts /\ MaxPosts \in Nat
  BY IntakeAssumption DEF Typed, HostTyped
<1>2. posts[i].chat \in Chats /\ posts[i].root \in 0 .. MaxPosts
  BY <1>1 DEF Posts
<1> QED
  BY <1>1, <1>2 DEF SlackContext, SlackContexts

\* The context of a post stays, and one that is alone was so before.
LEMMA SteadyWas ==
    ASSUME Tracked, OnSlack, [Next]_vars, NEW i \in 1 .. Len(posts)
    PROVE  /\ SlackContext(i)' = SlackContext(i) /\ i \in 1 .. Len(posts')
           /\ Alone(i)' => Alone(i)
<1>1. /\ posts \in Seq(Posts) /\ Len(posts) \in Nat /\ direct' = direct
      /\ UNCHANGED posts \/ \E p \in bound.posts : PostIt(p)
      /\ bound \in Instances
  BY Settled DEF Tracked, Typed, HostTyped, OnSlack
<1>2. /\ \A j \in 1 .. Len(posts) : posts'[j] = posts[j] /\ j \in 1 .. Len(posts')
      /\ DOMAIN posts = 1 .. Len(posts) /\ DOMAIN posts' = 1 .. Len(posts')
  <2>1. CASE UNCHANGED posts
    BY <1>1, <2>1
  <2>2. ASSUME NEW p \in bound.posts, PostIt(p)
        PROVE  /\ \A j \in 1 .. Len(posts) : posts'[j] = posts[j] /\ j \in 1 .. Len(posts')
               /\ DOMAIN posts = 1 .. Len(posts) /\ DOMAIN posts' = 1 .. Len(posts')
    <3>1. p \in Posts
      BY <1>1, IntakeAssumption
    <3> QED
      BY <1>1, <2>2, <3>1 DEF PostIt
  <2> QED
    BY <1>1, <2>1, <2>2
<1>3. \A j \in 1 .. Len(posts) : SlackContext(j)' = SlackContext(j)
  BY <1>1, <1>2 DEF SlackContext
<1> QED
  BY <1>2, <1>3 DEF Alone

\* What is noted of a post stays noted, and what has ended has.
LEMMA HistoryGrows ==
    ASSUME [Next]_vars, OnSlack
    PROVE  unmarked \subseteq unmarked' /\ early \subseteq early' /\ ended \subseteq ended'
<1>1. CASE (World \/ \E i \in DOMAIN posts : EditIt(i) \/ Redeliver(i)) /\ UNCHANGED slackVars
  BY <1>1 DEF World, PostIt, EditIt, Redeliver, TellAgain, slackVars, historyVars
<1>2. CASE SlackConnect \/ SlackDisconnect
  BY <1>2 DEF SlackConnect, SlackDisconnect, Connect, Disconnect, historyVars
<1>3. CASE SlackEvent
  BY <1>3 DEF SlackEvent, Take, slackVars, historyVars
<1>4. ASSUME NEW t \in tasks, SlackTask(t)
      PROVE  unmarked \subseteq unmarked' /\ early \subseteq early' /\ ended \subseteq ended'
  <2>1. CASE SlackName(t)
    BY <2>1 DEF SlackName, AfterName, Become, historyVars
  <2>2. CASE SlackReact(t)
    BY <2>2 DEF SlackReact, Become
  <2>3. CASE SlackDispatch(t)
    BY <2>3 DEF SlackDispatch, Dispatch, Over, historyVars
  <2>4. CASE (Refuse(t) \/ NextFile(t) \/ Publish(t)) /\ UNCHANGED slackVars
    BY <2>4 DEF Refuse, NextFile, Publish, Become, Over, slackVars, historyVars
  <2> QED
    BY <1>4, <2>1, <2>2, <2>3, <2>4 DEF SlackTask
<1>5. ASSUME NEW s \in swaps, Unmark(s) \/ Mark(s)
      PROVE  unmarked \subseteq unmarked' /\ early \subseteq early' /\ ended \subseteq ended'
  BY <1>5 DEF Unmark, Mark
<1>6. CASE \E i \in DOMAIN posts : Speak(SlackContext(i))
  BY <1>6 DEF Speak, intakeVars
<1>7. CASE UNCHANGED vars
  BY <1>7 DEF vars, intakeVars, slackVars, historyVars
<1>8. ~Telegram /\ ~Discord /\ ~Matrix
  BY DEF OnSlack, Telegram, Discord, Matrix
<1> QED
  BY <1>1, <1>2, <1>3, <1>4, <1>5, <1>6, <1>7, <1>8 DEF Next, Slack

Same(i) ==
    /\ marks'[i] = marks[i] /\ (i \in wrote' <=> i \in wrote)
    /\ Tracks(i)' = Tracks(i)
    /\ \A s : s.post = i => (s \in swaps' <=> s \in swaps)

LEMMA SameStays ==
    ASSUME NEW i, Same(i)
    PROVE  /\ Untouched(i) => Untouched(i)'
           /\ \A t : t.d.post = i /\ Worked(t) => Worked(t)'
           /\ \A e : e.d.post = i /\ Done(e) => Done(e)'
<1>1. /\ marks'[i] = marks[i] /\ (i \in wrote' <=> i \in wrote) /\ Tracks(i)' = Tracks(i)
      /\ NoSwap(i) => NoSwap(i)'
  BY DEF Same, NoSwap
<1>2. /\ Remove(i) \in swaps' <=> Remove(i) \in swaps
      /\ Add(i) \in swaps' <=> Add(i) \in swaps
  <2>1. Remove(i).post = i /\ Add(i).post = i
    BY DEF Remove, Add
  <2> QED
    BY <2>1 DEF Same
<1>3. /\ Untouched(i) => Untouched(i)'
      /\ Fresh(i) => Fresh(i)'
      /\ Eyed(i) => Eyed(i)'
      /\ Swapped(i) => Swapped(i)'
  BY <1>1, <1>2 DEF Untouched, Fresh, Eyed, Swapped, Remove, Add
<1> QED
  BY <1>1, <1>3 DEF Worked, Done

Settling == Tracked /\ Sane /\ OnSlack /\ Reacted

LEMMA SettlingIs ==
    ASSUME Settling
    PROVE  /\ Tracked /\ Sane /\ OnSlack /\ Reacted /\ SlackTyped /\ SlackRest /\ SlackMarks
           /\ Typed /\ AllKnown /\ Len(posts) \in Nat /\ MaxPosts \in Nat /\ Len(posts) <= MaxPosts
           /\ DOMAIN posts = 1 .. Len(posts)
           /\ \A d : Known(d) => d.post \in 1 .. Len(posts) /\ d.post \in 1 .. MaxPosts /\ d.post # 0
           /\ \A t \in tasks : Known(t.d) /\ Right(t) /\ t \in Task
           /\ \A e \in ended : Known(e.d) /\ Fair(e) /\ e \in Ending
<1>1. /\ Tracked /\ Sane /\ OnSlack /\ Reacted /\ SlackTyped /\ SlackRest /\ SlackMarks
      /\ Typed /\ AllKnown
  BY DEF Settling, Reacted, Tracked
<1>2. Len(posts) \in Nat /\ MaxPosts \in Nat /\ Len(posts) <= MaxPosts /\ DOMAIN posts = 1 .. Len(posts)
  BY <1>1, IntakeAssumption DEF Typed, HostTyped
<1>3. \A d : Known(d) => d.post \in 1 .. Len(posts) /\ d.post \in 1 .. MaxPosts /\ d.post # 0
  BY <1>2 DEF Known
<1> QED
  BY <1>1, <1>2, <1>3 DEF AllKnown, Sane, Typed, WorkTyped

LEMMA SettlingStays ==
    ASSUME Settling, [Next]_vars
    PROVE  /\ bound' = bound /\ direct' = direct /\ OnSlack' /\ ended \subseteq ended'
           /\ \A d : Known(d) => (Minded(d)' <=> Minded(d))
           /\ \A i \in 1 .. Len(posts) : Steady(i)' => Steady(i)
<1>1. bound' = bound /\ direct' = direct /\ \A d : Known(d) => PostOf(d)' = PostOf(d)
  BY SettlingIs, Settled DEF OnSlack
<1>2. ASSUME NEW i \in 1 .. Len(posts), Steady(i)' PROVE Steady(i)
  BY <1>2, SettlingIs, SteadyWas, HistoryGrows DEF Steady
<1> QED
  BY <1>1, <1>2, SettlingIs, HistoryGrows DEF Minded, OnSlack, Platform

\* A handler of a post that has taken it does so still, or has ended.
Persists(i) ==
    \A t \in tasks : t.d.post = i /\ Busy(t) =>
        \/ \E u \in tasks' : u.d = t.d /\ Busy(u)
        \/ \E f \in ended' : f.d = t.d /\ Kept(f)

\* A handler that is alone now was so before.
LEMMA SoleWas ==
    ASSUME Settling, [Next]_vars, NEW i, Persists(i)
    PROVE  /\ Idle(i)' => Idle(i)
           /\ \A t \in tasks : \A u \in tasks' :
                t.d.post = i /\ u.d = t.d /\ SoleTask(u)' => SoleTask(t)
           /\ \A t \in tasks : \A e \in ended' :
                t.d.post = i /\ e.d = t.d /\ SoleEnd(e)' => SoleTask(t)
           /\ \A e \in ended : e.d.post = i /\ SoleEnd(e)' => SoleEnd(e)
<1>1. /\ ended \subseteq ended' /\ ~OnMatrix /\ TaskOnce /\ EndOnce
  BY SettlingIs, SettlingStays DEF OnSlack, OnMatrix, Tracked
<1>2. ASSUME NEW t \in tasks, NEW e \in ended PROVE t.d # e.d
  BY <1>1 DEF EndOnce, Earlier
<1>3. Idle(i)' => Idle(i)
  BY <1>1 DEF Idle, Persists
<1>4. ASSUME NEW t \in tasks, NEW u \in tasks', t.d.post = i, u.d = t.d, SoleTask(u)'
      PROVE  SoleTask(t)
  <2>1. ASSUME NEW v \in tasks, v.d.post = i, Busy(v) PROVE v = t
    <3>1. ASSUME NEW w \in tasks', w.d = v.d, Busy(w) PROVE v = t
      <4>1. w = u
        BY <1>4, <2>1, <3>1 DEF SoleTask
      <4> QED
        BY <1>1, <1>4, <3>1, <4>1 DEF TaskOnce
    <3>2. ASSUME NEW f \in ended', f.d = v.d, Kept(f) PROVE FALSE
      BY <1>4, <2>1, <3>2 DEF SoleTask
    <3> QED
      BY <2>1, <3>1, <3>2 DEF Persists
  <2> QED
    BY <1>1, <1>4, <2>1 DEF SoleTask
<1>5. ASSUME NEW t \in tasks, NEW e \in ended', t.d.post = i, e.d = t.d, SoleEnd(e)'
      PROVE  SoleTask(t)
  <2>1. ASSUME NEW v \in tasks, v.d.post = i, Busy(v) PROVE v = t
    <3>1. PICK f \in ended' : f.d = v.d /\ Kept(f)
      BY <1>5, <2>1 DEF Persists, SoleEnd
    <3>2. f = e
      BY <1>5, <2>1, <3>1 DEF SoleEnd
    <3> QED
      BY <1>1, <1>5, <3>1, <3>2 DEF TaskOnce
  <2>2. ASSUME NEW g \in ended, g.d.post = i, Kept(g) PROVE FALSE
    <3>1. g = e
      BY <1>1, <1>5, <2>2 DEF SoleEnd
    <3> QED
      BY <1>2, <1>5, <2>2, <3>1
  <2> QED
    BY <1>5, <2>1, <2>2 DEF SoleTask
<1>6. ASSUME NEW e \in ended, e.d.post = i, SoleEnd(e)' PROVE SoleEnd(e)
  <2>1. ASSUME NEW v \in tasks, v.d.post = i, Busy(v) PROVE FALSE
    <3>1. PICK f \in ended' : f.d = v.d /\ Kept(f)
      BY <1>6, <2>1 DEF Persists, SoleEnd
    <3>2. f = e
      BY <1>6, <2>1, <3>1 DEF SoleEnd
    <3> QED
      BY <1>2, <3>1, <3>2
  <2> QED
    BY <1>1, <1>6, <2>1 DEF SoleEnd
<1> QED
  BY <1>3, <1>4, <1>5, <1>6

\* A post whose reactions a step leaves alone.
LEMMA NeatOn ==
    ASSUME Settling, [Next]_vars, starts' = starts, NEW i \in 1 .. Len(posts), Steady(i)',
           Same(i), Persists(i),
           \A t \in tasks' : t.d.post = i /\ Busy(t) => t \in tasks,
           \A e \in ended' : e.d.post = i /\ Taken(e) => e \in ended
    PROVE  Neat(i)'
<1>1. Neat(i)
  BY SettlingIs, SettlingStays DEF SlackMarks
<1>2. Idle(i)' => Untouched(i)'
  BY <1>1, SoleWas, SameStays DEF Neat
<1>3. ASSUME NEW t \in tasks', t.d.post = i, Minded(t.d)', Busy(t), SoleTask(t)' PROVE Worked(t)'
  <2>1. t \in tasks /\ Minded(t.d)
    BY <1>3, SettlingIs, SettlingStays
  <2>2. SoleTask(t)
    BY <1>3, <2>1, SoleWas
  <2>3. Worked(t)
    BY <1>1, <1>3, <2>1, <2>2 DEF Neat
  <2> QED
    BY <1>3, <2>3, SameStays
<1>4. ASSUME NEW e \in ended', e.d.post = i, Minded(e.d)', Taken(e), e.start = starts', SoleEnd(e)'
      PROVE  Done(e)'
  <2>1. e \in ended /\ Minded(e.d)
    BY <1>4, SettlingIs, SettlingStays
  <2>2. SoleEnd(e)
    BY <1>4, <2>1, SoleWas
  <2>3. Done(e)
    BY <1>1, <1>4, <2>1, <2>2 DEF Neat
  <2> QED
    BY <1>4, <2>3, SameStays
<1>5. \A t : Busy(t)' <=> Busy(t)
  BY DEF Busy
<1>6. \A e : Taken(e)' <=> Taken(e)
  BY DEF Taken
<1> QED
  BY <1>2, <1>3, <1>4, <1>5, <1>6 DEF Neat

\* A post that a handler has taken is as that one has left it, or is taken twice.
LEMMA NeatTask ==
    ASSUME NEW u \in tasks', Busy(u), Minded(u.d)' /\ SoleTask(u)' => Worked(u)'
    PROVE  Neat(u.d.post)'
BY DEF Neat, Idle, SoleTask, SoleEnd, Busy

LEMMA NeatEnd ==
    ASSUME NEW e \in ended', Kept(e), Taken(e) /\ Minded(e.d)' /\ SoleEnd(e)' => Done(e)'
    PROVE  Neat(e.d.post)'
<1>1. Taken(e)' <=> Taken(e)
  BY DEF Taken
<1>2. \A f : Taken(f)' => Kept(f)
  BY DEF Taken, Kept
<1> QED
  BY <1>1, <1>2 DEF Neat, Idle, SoleTask, SoleEnd, Kept

LEMMA BecomePersists ==
    ASSUME NEW t \in tasks, NEW u, u.d = t.d, Become(t, u), Busy(t) => Busy(u)
    PROVE  /\ \A i : Persists(i)
           /\ \A v \in tasks' : v.d.post # t.d.post => v \in tasks
           /\ ended' = ended /\ u \in tasks'
<1>1. tasks' = (tasks \ {t}) \cup {u} /\ ended' = ended
  BY DEF Become
<1> QED
  BY <1>1 DEF Persists

LEMMA OverPersists ==
    ASSUME NEW t \in tasks, NEW what, Over(t, what), Busy(t) => what \notin {"ignored", "refused"}
    PROVE  /\ \A i : Persists(i)
           /\ tasks' \subseteq tasks
           /\ End(t, what) \in ended' /\ End(t, what).d = t.d /\ End(t, what).what = what
           /\ \A f \in ended' : f \in ended \/ f = End(t, what)
<1>1. PICK e : e = End(t, what)
  OBVIOUS
<1>2. e.d = t.d /\ e.what = what
  BY <1>1 DEF End
<1>3. tasks' = tasks \ {t} /\ ended' = ended \cup {e}
  BY <1>1 DEF Over
<1>4. Busy(t) => Kept(e)
  BY <1>2 DEF Kept
<1> QED
  BY <1>1, <1>2, <1>3, <1>4 DEF Persists

\* A step that leaves the reactions alone.
LEMMA Quiet ==
    ASSUME Settling, [Next]_vars, UNCHANGED reactionVars, UNCHANGED <<posts, starts>>,
           \A i \in 1 .. Len(posts) : Steady(i)' /\ Same(i) => Neat(i)'
    PROVE  Reacted'
<1>0. /\ direct' = direct
      /\ UNCHANGED <<tracked, marks, swaps, wrote, early, unmarked, posts>>
  BY SettlingStays DEF reactionVars, historyVars
<1>1. \A i : SlackContext(i)' = SlackContext(i)
  BY <1>0 DEF SlackContext
<1>2. SlackTyped' /\ SlackRest'
  BY <1>0, <1>1, SettlingIs DEF SlackTyped, SlackRest, NoSwap
<1>3. \A i : Same(i)
  BY <1>0, <1>1 DEF Same, Tracks
<1>4. SlackMarks'
  BY <1>0, <1>3 DEF SlackMarks
<1> QED
  BY <1>2, <1>4 DEF Reacted


LEMMA ReactedPost ==
    ASSUME Settling, [Next]_vars, NEW p \in bound.posts, PostIt(p), UNCHANGED slackVars
    PROVE  Reacted'
<1>0. PICK n : n = Len(posts) + 1
  OBVIOUS
<1>1. /\ p \in Posts /\ posts \in Seq(Posts)
      /\ UNCHANGED <<bound, tasks, direct, starts, ended>>
      /\ UNCHANGED <<tracked, marks, swaps, wrote, early, unmarked>>
  BY SettlingIs, IntakeAssumption DEF PostIt, slackVars, historyVars, Typed, HostTyped, WorkTyped
<1>2. /\ posts' = Append(posts, p) /\ Len(posts') = n /\ n \in 1 .. MaxPosts /\ posts'[n] = p
      /\ \A i \in 1 .. Len(posts) : posts'[i] = posts[i]
      /\ DOMAIN posts' = 1 .. n
  <2>1. posts' = Append(posts, p) /\ Len(posts) < bound.most /\ bound.most \in 0 .. MaxPosts
    BY <1>1, SettlingIs, IntakeAssumption DEF PostIt, Typed, HostTyped
  <2> QED
    BY <1>0, <1>1, <2>1, SettlingIs
<1>3. \A i \in 1 .. Len(posts) : SlackContext(i)' = SlackContext(i) /\ Same(i)
  BY <1>1, <1>2 DEF SlackContext, Same, Tracks
<1>4. \A d : Known(d) => d.post # n
  BY <1>0, SettlingIs
<1>5. ASSUME Steady(n)' PROVE Untouched(n)'
  <2>1. marks[n] = {} /\ NoSwap(n) /\ n \notin wrote
    BY <1>0, <1>2, SettlingIs DEF SlackRest
  <2>2. SlackContext(n)' \in SlackContexts
    <3>1. p.chat \in Chats /\ p.root \in 0 .. MaxPosts
      BY <1>1 DEF Posts
    <3>2. SlackContext(n)' = <<p.chat, IF p.chat \in direct THEN 0 ELSE IF p.root = 0 THEN n ELSE p.root>>
      BY <1>1, <1>2 DEF SlackContext
    <3>3. (IF p.chat \in direct THEN 0 ELSE IF p.root = 0 THEN n ELSE p.root) \in 0 .. MaxPosts
      <4>1. 0 \in 0 .. MaxPosts /\ n \in 0 .. MaxPosts
        BY <1>2, SettlingIs
      <4> QED
        BY <3>1, <4>1, Zenon
    <3> QED
      BY <3>1, <3>2, <3>3 DEF SlackContexts
  <2>3. PICK c : c = SlackContext(n)'
    OBVIOUS
  <2>4. tracked[c] = 0
    <3> SUFFICES ASSUME tracked[c] # 0 PROVE FALSE
      OBVIOUS
    <3>1. tracked[c] \in 1 .. Len(posts) /\ SlackContext(tracked[c]) = c
      BY <2>2, <2>3, SettlingIs DEF SlackRest
    <3>2. PICK j \in 1 .. Len(posts) : j = tracked[c] /\ SlackContext(j) = c
      BY <3>1
    <3>3. SlackContext(j)' = SlackContext(n)' /\ j \in DOMAIN posts' \ {n}
      BY <1>0, <1>2, <1>3, <2>3, <3>2, SettlingIs
    <3> QED
      BY <1>5, <3>3 DEF Steady, Alone
  <2> QED
    BY <1>1, <2>1, <2>3, <2>4 DEF Untouched, Tracks, NoSwap
<1>6. SlackMarks'
  <2> SUFFICES ASSUME NEW i \in 1 .. Len(posts'), Steady(i)' PROVE Neat(i)'
    BY DEF SlackMarks
  <2>1. CASE i \in 1 .. Len(posts)
    <3>1. Persists(i)
      BY <1>1 DEF Persists
    <3> QED
      BY <1>1, <1>3, <2>1, <3>1, NeatOn
  <2>2. CASE i = n
    <3>1. \A t \in tasks' : t.d.post # i
      BY <1>1, <1>4, <2>2, SettlingIs
    <3>2. \A e \in ended' : e.d.post # i
      BY <1>1, <1>4, <2>2, SettlingIs
    <3> QED
      BY <1>5, <2>2, <3>1, <3>2 DEF Neat
  <2> QED
    BY <1>0, <1>2, <2>1, <2>2, SettlingIs
<1>7. SlackTyped'
  BY <1>1, SettlingIs DEF SlackTyped
<1>8. SlackRest'
  <2>1. ASSUME NEW c \in SlackContexts, tracked[c] # 0
        PROVE  tracked[c] \in 1 .. Len(posts') /\ SlackContext(tracked[c])' = c
    <3>1. PICK j \in 1 .. Len(posts) : j = tracked[c] /\ SlackContext(j) = c
      BY <2>1, SettlingIs DEF SlackRest
    <3>2. SlackContext(j)' = c /\ j \in 1 .. Len(posts')
      BY <1>0, <1>2, <1>3, <3>1, SettlingIs
    <3> QED
      BY <1>1, <3>1, <3>2 DEF SlackContext
  <2>2. \A i \in 1 .. MaxPosts : i > Len(posts') => marks[i] = {} /\ NoSwap(i) /\ i \notin wrote
    BY <1>0, <1>2, SettlingIs DEF SlackRest
  <2> QED
    BY <1>1, <2>1, <2>2 DEF SlackRest, NoSwap
<1> QED
  BY <1>6, <1>7, <1>8 DEF Reacted

\* A step that is about no handler's message.
LEMMA ReactedHost ==
    ASSUME Settling, [Next]_vars,
           \/ (\E i \in DOMAIN posts : EditIt(i) \/ Redeliver(i)) /\ UNCHANGED slackVars
           \/ SlackConnect \/ SlackDisconnect \/ UNCHANGED vars
    PROVE  Reacted'
<1>1. ASSUME \/ (\E i \in DOMAIN posts : EditIt(i) \/ Redeliver(i)) /\ UNCHANGED slackVars
             \/ UNCHANGED vars
      PROVE  Reacted'
  <2>1. UNCHANGED <<posts, tasks, ended, starts>> /\ UNCHANGED reactionVars
    BY <1>1 DEF EditIt, Redeliver, TellAgain, vars, intakeVars, slackVars, reactionVars
  <2>2. \A i : Persists(i)
    BY <2>1 DEF Persists
  <2>3. \A i \in 1 .. Len(posts) : Steady(i)' /\ Same(i) => Neat(i)'
    BY <2>1, <2>2, NeatOn
  <2> QED
    BY <2>1, <2>3, Quiet
<1>2. CASE SlackConnect
  <2>1. /\ tasks = {} /\ tasks' = {} /\ starts' = starts + 1 /\ starts \in Nat
        /\ UNCHANGED <<ended, posts, marks, swaps, wrote, direct>>
        /\ tracked' = [c \in SlackContexts |-> 0]
    BY <1>2, SettlingIs DEF SlackConnect, Connect, Tracked, TaskOnce, historyVars, Typed, HostTyped
  <2>2. \A e \in ended : e.start # starts'
    <3>1. \A e \in ended : e.start \in Nat /\ e.start <= starts
      BY SettlingIs DEF Tracked, EndOnce, Ending
    <3> QED
      BY <2>1, <3>1
  <2>3. SlackMarks'
    <3> SUFFICES ASSUME NEW i \in 1 .. Len(posts), Steady(i)' PROVE Neat(i)'
      BY <2>1 DEF SlackMarks
    <3>1. Neat(i)
      BY SettlingIs, SettlingStays DEF SlackMarks
    <3>2. Idle(i)' => Untouched(i)
      BY <2>1, <3>1 DEF Neat, Idle, Kept
    <3>3. SlackContext(i)' \in SlackContexts
      BY <2>1, SettlingIs, ContextIs DEF SlackContext
    <3>4. Tracks(i)' = 0
      BY <2>1, <3>3 DEF Tracks
    <3>5. Untouched(i) => Untouched(i)'
      BY <2>1, <3>4 DEF Untouched, NoSwap
    <3> QED
      BY <2>1, <2>2, <3>2, <3>5 DEF Neat
  <2>4. SlackTyped' /\ SlackRest'
    <3>1. 0 \in 0 .. MaxPosts
      BY SettlingIs
    <3> QED
      BY <2>1, <3>1, SettlingIs DEF SlackTyped, SlackRest, NoSwap
  <2> QED
    BY <2>3, <2>4 DEF Reacted
<1>3. CASE SlackDisconnect
  <2>1. /\ tasks' = {} /\ swaps' = {}
        /\ unmarked' = unmarked \cup {s.post : s \in swaps} \cup {t.d.post : t \in tasks}
        /\ UNCHANGED <<starts, ended, posts, marks, wrote, early, direct, tracked, bound>>
    BY <1>3 DEF SlackDisconnect, Disconnect
  <2>2. ASSUME NEW i \in 1 .. Len(posts), Steady(i)' PROVE Neat(i)'
    <3>1. \A s : s.post = i => s \notin swaps
      BY <2>1, <2>2 DEF Steady
    <3>2. Same(i)
      BY <2>1, <3>1 DEF Same, Tracks, SlackContext
    <3>3. Persists(i)
      BY <2>1, <2>2 DEF Persists, Steady
    <3> QED
      BY <2>1, <2>2, <3>2, <3>3, NeatOn
  <2>3. SlackMarks'
    BY <2>1, <2>2 DEF SlackMarks
  <2>4. SlackTyped' /\ SlackRest'
    BY <2>1, SettlingIs DEF SlackTyped, SlackRest, NoSwap, SlackContext
  <2> QED
    BY <2>3, <2>4 DEF Reacted
<1> QED
  BY <1>1, <1>2, <1>3

LEMMA ReactedEvent ==
    ASSUME Settling, [Next]_vars, SlackEvent
    PROVE  Reacted'
<1>1. PICK as, stage : Take(as, stage) /\ stage \in {"ignored", "name", "dispatch"}
                       /\ (stage = "dispatch" => as = "interaction")
  BY DEF SlackEvent, SlackMessageStage, SlackMentionStage, SlackEditStage, SlackCommandStage,
     OnSlackMessage
<1>2. PICK x : x = Event
  OBVIOUS
<1>3. UNCHANGED reactionVars /\ UNCHANGED <<posts, starts>>
  BY <1>1 DEF SlackEvent, slackVars, reactionVars, Take
<1>4. Known(x) /\ x.as = as /\ ended \subseteq ended' /\ tasks \subseteq tasks'
  BY <1>1, <1>2, EventIs, SettlingIs DEF Take
<1>5. PICK t : t = Begun(x, stage)
  OBVIOUS
<1>6. t.d = x /\ t.at = stage
  BY <1>5 DEF Begun
<1>7. PICK e : e = End(Begun(x, "publish"), "ignored")
  OBVIOUS
<1>8. e.what = "ignored"
  BY <1>7 DEF End
<1>9. /\ \A u \in tasks' : u \in tasks \/ (u = t /\ stage # "ignored")
      /\ \A f \in ended' : f \in ended \/ f = e
      /\ stage # "ignored" => t \in tasks'
  BY <1>1, <1>2, <1>5, <1>7 DEF Take
<1>10. ASSUME NEW i \in 1 .. Len(posts), Steady(i)', Same(i) PROVE Neat(i)'
  <2>1. \A f \in ended' : f.d.post = i /\ Taken(f) => f \in ended
    BY <1>8, <1>9 DEF Taken
  <2>2. Persists(i)
    BY <1>4 DEF Persists
  <2>3. CASE \A u \in tasks' : u.d.post = i /\ Busy(u) => u \in tasks
    BY <1>3, <1>10, <2>1, <2>2, <2>3, NeatOn
  <2>4. ASSUME NEW u \in tasks', u.d.post = i, Busy(u), u \notin tasks PROVE Neat(i)'
    <3>1. u = t /\ stage = "dispatch"
      BY <1>1, <1>6, <1>9, <2>4 DEF Busy
    <3>2. ~Minded(u.d)'
      BY <1>1, <1>4, <1>6, <3>1 DEF Minded
    <3> QED
      BY <2>4, <3>2, NeatTask
  <2> QED
    BY <2>3, <2>4
<1> QED
  BY <1>3, <1>10, Quiet

\* Handlers that leave the reactions alone.
LEMMA ReactedTask ==
    ASSUME Settling, [Next]_vars, NEW t \in tasks, UNCHANGED slackVars,
           Refuse(t) \/ NextFile(t) \/ Publish(t)
    PROVE  Reacted'
<1>1. /\ UNCHANGED reactionVars /\ UNCHANGED <<posts, starts>> /\ t \in Task /\ Known(t.d)
      /\ bound' = bound /\ direct' = direct
  BY SettlingIs DEF slackVars, reactionVars, Refuse, NextFile, Publish, Become, Over
<1>2. PICK k : k = t.d.post
  OBVIOUS
<1>3. k \in 1 .. Len(posts)
  BY <1>1, <1>2, SettlingIs
<1>4. CASE NextFile(t)
  <2>1. PICK u \in Task : u.d = t.d /\ Become(t, u) /\ u.at \in {"files", "publish"}
    <3>1. /\ [t EXCEPT !.at = "publish"] \in Task /\ [t EXCEPT !.at = "publish"].d = t.d
          /\ [t EXCEPT !.at = "publish"].at = "publish"
      <4>1. [t EXCEPT !.at = "publish"].at = "publish"
        BY <1>1 DEF Task
      <4> QED
        BY <1>1, <4>1, TaskFields DEF Stages
    <3>2. t.at = "files"
      BY <1>4 DEF NextFile
    <3>3. /\ Past(t) \in Task /\ Past(t).d = t.d /\ Past(t).at = "files"
          /\ Held(t) \in Task /\ Held(t).d = t.d /\ Held(t).at = "files"
          /\ Noted(t) \in Task /\ Noted(t).d = t.d /\ Noted(t).at = "files"
      BY <1>1, <3>2, TaskFields DEF Past, Held, Noted, Task
    <3> QED
      BY <1>4, <3>1, <3>3 DEF NextFile
  <2>2. t.at = "files" /\ Busy(t) /\ Busy(u)
    BY <1>4, <2>1 DEF NextFile, Busy
  <2>3. /\ \A i : Persists(i)
        /\ \A v \in tasks' : v.d.post # k => v \in tasks
        /\ ended' = ended /\ u \in tasks'
    BY <1>2, <2>1, <2>2, BecomePersists
  <2>4. ASSUME NEW i \in 1 .. Len(posts), Steady(i)', Same(i) PROVE Neat(i)'
    <3>1. CASE i # k
      BY <1>1, <2>3, <2>4, <3>1, NeatOn
    <3>2. CASE i = k
      <4>1. ASSUME Minded(u.d)', SoleTask(u)' PROVE Worked(u)'
        <5>1. Minded(t.d) /\ SoleTask(t)
          BY <1>1, <1>2, <2>1, <2>3, <4>1, SettlingStays, SoleWas
        <5>2. Worked(t)
          BY <1>2, <2>2, <2>4, <3>2, <5>1, SettlingIs, SettlingStays DEF SlackMarks, Neat
        <5>3. Worked(t)'
          BY <1>2, <2>4, <3>2, <5>2, SameStays
        <5> QED
          BY <2>1, <2>2, <5>3 DEF Worked
      <4> QED
        BY <1>2, <2>1, <2>2, <2>3, <3>2, <4>1, NeatTask
    <3> QED
      BY <3>1, <3>2
  <2> QED
    BY <1>1, <2>4, Quiet
<1>5. CASE Refuse(t) \/ Publish(t)
  <2>1. PICK what : what \in {"refused", "published", "failed"} /\ Over(t, what)
                    /\ (what = "refused" => t.at = "refuse")
                    /\ (what # "refused" => t.at = "publish")
    BY <1>5 DEF Refuse, Publish
  <2>2. PICK e : e = End(t, what)
    OBVIOUS
  <2>3. Busy(t) => what \notin {"ignored", "refused"}
    BY <2>1 DEF Busy
  <2>4. /\ \A i : Persists(i)
        /\ tasks' \subseteq tasks
        /\ e \in ended' /\ e.d = t.d /\ e.what = what
        /\ \A f \in ended' : f \in ended \/ f = e
    BY <2>1, <2>2, <2>3, OverPersists
  <2>5. ASSUME NEW i \in 1 .. Len(posts), Steady(i)', Same(i) PROVE Neat(i)'
    <3>1. CASE i # k \/ what = "refused"
      <4>1. \A f \in ended' : f.d.post = i /\ Taken(f) => f \in ended
        BY <1>2, <2>4, <3>1 DEF Taken
      <4> QED
        BY <1>1, <2>4, <2>5, <4>1, NeatOn
    <3>2. CASE i = k /\ what # "refused"
      <4>1. ASSUME Taken(e), Minded(e.d)', SoleEnd(e)' PROVE Done(e)'
        <5>1. Minded(t.d) /\ SoleTask(t) /\ t.at = "publish" /\ Busy(t)
          BY <1>1, <1>2, <2>1, <2>4, <3>2, <4>1, SettlingStays, SoleWas DEF Busy
        <5>2. Worked(t)
          BY <1>2, <2>5, <3>2, <5>1, SettlingIs, SettlingStays DEF SlackMarks, Neat
        <5>3. what = "published"
          BY <2>1, <2>4, <3>2, <4>1 DEF Taken
        <5>4. Done(e)
          BY <2>4, <5>1, <5>2, <5>3 DEF Worked, Done
        <5> QED
          BY <1>2, <2>4, <2>5, <3>2, <5>4, SameStays
      <4>2. Kept(e)
        BY <2>1, <2>4, <3>2 DEF Kept
      <4>3. Neat(e.d.post)'
        BY <2>4, <4>1, <4>2, NeatEnd
      <4> QED
        BY <1>2, <2>4, <3>2, <4>3
    <3> QED
      BY <3>1, <3>2
  <2> QED
    BY <1>1, <2>5, Quiet
<1> QED
  BY <1>4, <1>5

\* A post that is alone in its context is not in that of another.
LEMMA OtherContext ==
    ASSUME Settling, [Next]_vars, NEW i \in 1 .. Len(posts), NEW k \in 1 .. Len(posts), i # k, Steady(i)'
    PROVE  SlackContext(k) # SlackContext(i)
<1>1. Steady(i)
  BY SettlingStays
<1>2. k \in DOMAIN posts \ {i}
  BY SettlingIs
<1> QED
  BY <1>1, <1>2 DEF Steady, Alone

\* The handlers of a message that write, or follow, its reaction.
LEMMA ReactedName ==
    ASSUME Settling, [Next]_vars, NEW t \in tasks, SlackName(t)
    PROVE  Reacted'
<1>1. PICK named : AfterName(t, named)
  BY DEF SlackName
<1>2. /\ t \in Task /\ Known(t.d) /\ t.at = "name" /\ ~Busy(t)
      /\ UNCHANGED <<marks, swaps, wrote, early, unmarked, posts, direct, ended, starts, bound>>
  BY <1>1, SettlingIs DEF SlackName, AfterName, Become, historyVars, Busy
<1>3. PICK k : k = t.d.post
  OBVIOUS
<1>4. k \in 1 .. Len(posts) /\ k \in 1 .. MaxPosts /\ SlackContext(k) \in SlackContexts
      /\ \A i : SlackContext(i)' = SlackContext(i)
  BY <1>2, <1>3, SettlingIs, ContextIs DEF SlackContext
<1>5. CASE ~IsAllowed(PostOf(t.d).user, named)
  <2>1. PICK u : u = [t EXCEPT !.at = "refuse"]
    OBVIOUS
  <2>2. u.d = t.d /\ u.at = "refuse" /\ tracked' = tracked /\ ~Busy(u) /\ Become(t, u)
    BY <1>1, <1>2, <1>5, <2>1 DEF AfterName, Task, Busy
  <2>3. \A i : Persists(i)
    BY <1>2, <2>2, BecomePersists
  <2>4. \A v \in tasks' : Busy(v) => v \in tasks
    BY <2>2 DEF Become
  <2>5. UNCHANGED reactionVars
    BY <1>2, <2>2 DEF reactionVars, historyVars
  <2>6. \A i \in 1 .. Len(posts) : Steady(i)' /\ Same(i) => Neat(i)'
    BY <1>2, <2>3, <2>4, NeatOn
  <2> QED
    BY <1>2, <2>5, <2>6, Quiet
<1>6. CASE IsAllowed(PostOf(t.d).user, named)
  <2>1. PICK u : u = [t EXCEPT !.at = "react"]
    OBVIOUS
  <2>2. /\ u.d = t.d /\ u.at = "react" /\ Busy(u)
        /\ tracked' = [tracked EXCEPT ![SlackContext(k)] = k]
        /\ Become(t, u) /\ tasks' = (tasks \ {t}) \cup {u}
    BY <1>1, <1>2, <1>3, <1>6, <2>1 DEF AfterName, Task, Become, Busy
  <2>3. /\ \A i : Persists(i)
        /\ \A v \in tasks' : v.d.post # t.d.post => v \in tasks
        /\ u \in tasks'
    BY <1>2, <2>2, BecomePersists
  <2>4. /\ \A c \in SlackContexts : c # SlackContext(k) => tracked'[c] = tracked[c]
        /\ tracked'[SlackContext(k)] = k
    BY <1>4, <2>2, SettlingIs DEF SlackTyped
  <2>5. ASSUME NEW i \in 1 .. Len(posts), Steady(i)', i # k PROVE Neat(i)'
    <3>1. SlackContext(i) # SlackContext(k) /\ SlackContext(i) \in SlackContexts
      BY <1>4, <2>5, OtherContext, SettlingIs, ContextIs
    <3>2. Same(i)
      BY <1>2, <1>4, <2>4, <3>1 DEF Same, Tracks
    <3> QED
      BY <1>2, <1>3, <2>3, <2>5, <3>2, NeatOn
  <2>6. ASSUME Steady(k)', SoleTask(u)' PROVE Worked(u)'
    <3>1. ASSUME NEW v \in tasks, v.d.post = k, Busy(v) PROVE FALSE
      <4>1. v \in tasks' /\ v # t
        BY <1>2, <2>2, <3>1
      <4>2. v = u
        BY <1>3, <2>2, <2>6, <3>1, <4>1 DEF SoleTask
      <4> QED
        BY <2>2, <3>1, <4>1, <4>2, SettlingIs DEF Tracked, TaskOnce
    <3>2. Idle(k)
      BY <1>2, <1>3, <2>2, <2>6, <3>1 DEF Idle, SoleTask
    <3>3. Untouched(k)
      BY <1>4, <2>6, <3>2, SettlingIs, SettlingStays DEF SlackMarks, Neat
    <3>4. Fresh(k)'
      BY <1>2, <1>4, <2>4, <3>3 DEF Untouched, Fresh, NoSwap, Tracks
    <3> QED
      BY <1>3, <2>2, <3>4 DEF Worked
  <2>7. Steady(k)' => Neat(k)'
    BY <1>3, <2>2, <2>3, <2>6, NeatTask
  <2>8. SlackTyped'
    BY <1>2, <1>4, <2>2, SettlingIs DEF SlackTyped
  <2>9. SlackRest'
    <3>1. \A c \in SlackContexts : tracked'[c] # 0
             => tracked'[c] \in 1 .. Len(posts) /\ SlackContext(tracked'[c]) = c
      BY <1>4, <2>4, SettlingIs DEF SlackRest
    <3>2. \A c \in SlackContexts : tracked'[c] # 0
             => tracked'[c] \in 1 .. Len(posts') /\ SlackContext(tracked[c])' = c
      BY <1>2, <1>4, <3>1 DEF SlackContext
    <3> QED
      BY <1>2, <3>2, SettlingIs DEF SlackRest, NoSwap
  <2>10. SlackMarks'
    BY <1>2, <2>5, <2>7 DEF SlackMarks
  <2> QED
    BY <2>8, <2>9, <2>10 DEF Reacted
<1> QED
  BY <1>5, <1>6

LEMMA ReactedReact ==
    ASSUME Settling, [Next]_vars, NEW t \in tasks, SlackReact(t)
    PROVE  Reacted'
<1>1. PICK u : u = [t EXCEPT !.at = IF IsCommand(PostOf(t.d)) THEN "dispatch" ELSE "files"]
  OBVIOUS
<1>2. /\ t \in Task /\ Known(t.d) /\ t.at = "react" /\ Busy(t)
      /\ UNCHANGED <<tracked, swaps, wrote, early, posts, direct, ended, starts, bound>>
      /\ Become(t, u)
  BY <1>1, SettlingIs DEF SlackReact, Become, Busy
<1>3. u.d = t.d /\ u.at \in {"dispatch", "files"} /\ Busy(u)
  BY <1>1, <1>2 DEF Task, Busy
<1>4. PICK k : k = t.d.post
  OBVIOUS
<1>5. k \in 1 .. Len(posts) /\ k \in 1 .. MaxPosts /\ \A i : SlackContext(i)' = SlackContext(i)
  BY <1>2, <1>4, SettlingIs DEF SlackContext
<1>6. \/ marks' = [marks EXCEPT ![k] = @ \cup {"eyes"}] /\ unmarked' = unmarked
      \/ unmarked' = unmarked \cup {k} /\ marks' = marks
  BY <1>4 DEF SlackReact
<1>7. SlackTyped' /\ SlackRest'
  <2>1. SlackTyped'
    BY <1>2, <1>5, <1>6, SettlingIs DEF SlackTyped
  <2>2. \A i \in 1 .. MaxPosts : i # k => marks'[i] = marks[i]
    BY <1>5, <1>6, SettlingIs DEF SlackTyped
  <2>3. SlackRest'
    BY <1>2, <1>5, <2>2, SettlingIs DEF SlackRest, NoSwap
  <2> QED
    BY <2>1, <2>3
<1>8. /\ \A i : Persists(i)
      /\ \A v \in tasks' : v.d.post # t.d.post => v \in tasks
      /\ u \in tasks'
  BY <1>2, <1>3, BecomePersists
<1>9. ASSUME NEW i \in 1 .. Len(posts), Steady(i)', i # k PROVE Neat(i)'
  <2>1. i \in 1 .. MaxPosts
    BY SettlingIs, ContextIs
  <2>2. marks'[i] = marks[i]
    BY <1>5, <1>6, <1>9, <2>1, SettlingIs DEF SlackTyped
  <2>3. Same(i)
    BY <1>2, <1>5, <2>2 DEF Same, Tracks
  <2> QED
    BY <1>2, <1>4, <1>8, <1>9, <2>3, NeatOn
<1>10. ASSUME Steady(k)', Minded(u.d)', SoleTask(u)' PROVE Worked(u)'
  <2>1. Minded(t.d) /\ SoleTask(t)
    BY <1>2, <1>3, <1>4, <1>8, <1>10, SettlingStays, SoleWas
  <2>2. Fresh(k)
    BY <1>2, <1>4, <1>5, <1>10, <2>1, SettlingIs, SettlingStays DEF SlackMarks, Neat, Worked
  <2>3. k \notin unmarked'
    BY <1>10 DEF Steady
  <2>4. marks'[k] = {"eyes"}
    BY <1>5, <1>6, <2>2, <2>3, SettlingIs DEF Fresh, SlackTyped
  <2>5. Eyed(k)' /\ k \notin wrote'
    BY <1>2, <1>5, <2>2, <2>4 DEF Fresh, Eyed, NoSwap, Tracks
  <2> QED
    BY <1>3, <1>4, <2>5 DEF Worked
<1>11. Steady(k)' => Neat(k)'
  BY <1>3, <1>4, <1>8, <1>10, NeatTask
<1>12. SlackMarks'
  BY <1>2, <1>9, <1>11 DEF SlackMarks
<1> QED
  BY <1>7, <1>12 DEF Reacted

\* A swap that is begun for the context of a post.
LEMMA SwapBegins ==
    ASSUME Settling, [Next]_vars, NEW k \in 1 .. Len(posts), SwapReaction(SlackContext(k)),
           UNCHANGED <<marks, posts, direct>>,
           \A i \in wrote' : i \in wrote \/ (i \in 1 .. Len(posts) /\ SlackContext(i) = SlackContext(k)),
           wrote \subseteq wrote'
    PROVE  /\ SlackTyped' /\ SlackRest'
           /\ \A i \in 1 .. Len(posts) : Steady(i)' => Same(i) \/ i = k
           /\ Eyed(k) \/ Swapped(k) => Swapped(k)'
           /\ Untouched(k) /\ k \notin wrote' => Untouched(k)'
<1> DEFINE c == SlackContext(k)
<1>1. /\ c \in SlackContexts /\ k \in 1 .. MaxPosts /\ tracked' = [tracked EXCEPT ![c] = 0]
      /\ tracked \in [SlackContexts -> 0 .. MaxPosts]
      /\ tracked' \in [SlackContexts -> 0 .. MaxPosts]
      /\ \A i : SlackContext(i)' = SlackContext(i)
      /\ c' = c
  <2>1. c \in SlackContexts /\ k \in 1 .. MaxPosts /\ tracked' = [tracked EXCEPT ![c] = 0]
        /\ tracked \in [SlackContexts -> 0 .. MaxPosts]
    BY SettlingIs, ContextIs DEF SwapReaction, SlackTyped
  <2>2. 0 \in 0 .. MaxPosts
    BY SettlingIs
  <2> HIDE DEF c
  <2>3. tracked' \in [SlackContexts -> 0 .. MaxPosts]
    BY <2>1, <2>2
  <2> QED
    BY <2>1, <2>3 DEF SlackContext, c
<1>2. PICK j : j = tracked[c]
  OBVIOUS
<1>3. /\ j = 0 => swaps' = swaps
      /\ j # 0 => swaps' = swaps \cup {Remove(j)}
      /\ j # 0 => j \in 1 .. Len(posts) /\ SlackContext(j) = c
  BY <1>1, <1>2, SettlingIs DEF SwapReaction, SlackRest, Remove
<1>4. j # 0 => j \in 1 .. MaxPosts /\ Remove(j) \in Swap /\ Remove(j).post = j
  BY <1>3, SettlingIs DEF Remove, Swap
<1>5. SlackTyped'
  BY <1>1, <1>3, <1>4, SettlingIs DEF SlackTyped
<1>6. SlackRest'
  <2>1. \A b \in SlackContexts : tracked'[b] # 0
          => tracked'[b] \in 1 .. Len(posts') /\ SlackContext(tracked[b])' = b
    BY <1>1, SettlingIs DEF SlackRest, SlackContext
  <2>2. \A i \in 1 .. MaxPosts : i > Len(posts) =>
           marks'[i] = {} /\ NoSwap(i)' /\ i \notin wrote'
    <3> SUFFICES ASSUME NEW i \in 1 .. MaxPosts, i > Len(posts)
                 PROVE  marks'[i] = {} /\ NoSwap(i)' /\ i \notin wrote'
      OBVIOUS
    <3>1. i # k /\ (j # 0 => i # j) /\ i \notin 1 .. Len(posts)
      BY <1>3, SettlingIs
    <3> QED
      BY <1>3, <1>4, <3>1, SettlingIs DEF SlackRest, NoSwap
  <2> QED
    BY <2>1, <2>2 DEF SlackRest
<1>7. ASSUME NEW i \in 1 .. Len(posts), Steady(i)', i # k PROVE Same(i)
  <2>1. SlackContext(i) # c /\ SlackContext(i) \in SlackContexts /\ i \in 1 .. MaxPosts
    BY <1>7, SettlingIs, OtherContext, ContextIs
  <2>2. j # 0 => i # j
    BY <1>3, <2>1
  <2>3. Tracks(i)' = Tracks(i)
    BY <1>1, <2>1 DEF Tracks
  <2>4. i \in wrote' <=> i \in wrote
    BY <2>1
  <2> QED
    BY <1>3, <1>4, <1>7, <2>1, <2>2, <2>3, <2>4 DEF Same
<1>8. ASSUME Eyed(k) \/ Swapped(k) PROVE Swapped(k)'
  <2>1. Tracks(k)' = 0
    BY <1>1 DEF Tracks
  <2>2. CASE Eyed(k)
    <3>1. j = k /\ k # 0
      BY <1>1, <1>2, <2>2 DEF Eyed, Tracks
    <3>2. Remove(k) \in swaps' /\ Add(k) \notin swaps'
      <4>1. Add(k).post = k /\ Add(k) # Remove(k)
        BY DEF Add, Remove
      <4> QED
        BY <1>3, <2>2, <3>1, <4>1 DEF Eyed, NoSwap
    <3> QED
      BY <2>1, <2>2, <3>2 DEF Eyed, Swapped, Remove, Add
  <2>3. CASE Swapped(k)
    <3>1. j = 0
      BY <1>2, <2>3 DEF Swapped, Tracks
    <3> QED
      BY <1>3, <2>1, <2>3, <3>1 DEF Swapped, NoSwap, Remove, Add
  <2> QED
    BY <1>8, <2>2, <2>3
<1>9. ASSUME Untouched(k), k \notin wrote' PROVE Untouched(k)'
  <2>1. j = 0 /\ Tracks(k)' = 0
    BY <1>1, <1>2, <1>9 DEF Untouched, Tracks
  <2> QED
    BY <1>3, <1>9, <2>1 DEF Untouched, NoSwap
<1> QED
  BY <1>5, <1>6, <1>7, <1>8, <1>9

LEMMA ReactedDispatch ==
    ASSUME Settling, [Next]_vars, NEW t \in tasks, SlackDispatch(t)
    PROVE  Reacted'
<1>1. /\ t \in Task /\ Known(t.d) /\ t.at = "dispatch" /\ Over(t, "answered") /\ Busy(t)
      /\ UNCHANGED <<marks, wrote, early, unmarked, posts, direct, starts, bound>>
  BY SettlingIs DEF SlackDispatch, Dispatch, Over, historyVars, Busy
<1>2. PICK e : e = End(t, "answered")
  OBVIOUS
<1>3. /\ \A i : Persists(i)
      /\ tasks' \subseteq tasks
      /\ e \in ended' /\ e.d = t.d /\ e.what = "answered"
      /\ \A f \in ended' : f \in ended \/ f = e
  BY <1>1, <1>2, OverPersists
<1>4. PICK k : k = t.d.post
  OBVIOUS
<1>5. k \in 1 .. Len(posts) /\ Kept(e) /\ e.d.post = k
  BY <1>1, <1>3, <1>4, SettlingIs DEF Kept
<1>6. ASSUME NEW i \in 1 .. Len(posts), Steady(i)', Same(i), i # k PROVE Neat(i)'
  BY <1>1, <1>3, <1>5, <1>6, NeatOn
<1>7. CASE t.d.as = "interaction"
  <2>1. UNCHANGED reactionVars
    BY <1>1, <1>7 DEF SlackDispatch, reactionVars, historyVars
  <2>2. ~Minded(e.d)'
    BY <1>3, <1>7 DEF Minded
  <2>3. Neat(k)'
    BY <1>3, <1>5, <2>2, NeatEnd
  <2>4. \A i \in 1 .. Len(posts) : Steady(i)' /\ Same(i) => Neat(i)'
    BY <1>6, <2>3
  <2> QED
    BY <1>1, <2>1, <2>4, Quiet
<1>8. CASE t.d.as # "interaction"
  <2>1. SwapReaction(SlackContext(k))
    BY <1>4, <1>8 DEF SlackDispatch
  <2>2. /\ SlackTyped' /\ SlackRest'
        /\ \A i \in 1 .. Len(posts) : Steady(i)' => Same(i) \/ i = k
        /\ Eyed(k) \/ Swapped(k) => Swapped(k)'
    BY <1>1, <1>5, <2>1, SwapBegins
  <2>3. ASSUME Steady(k)', Minded(e.d)', SoleEnd(e)' PROVE Done(e)'
    <3>1. Minded(t.d) /\ SoleTask(t)
      BY <1>1, <1>3, <1>4, <2>3, SettlingStays, SoleWas
    <3>2. Eyed(k) \/ Swapped(k)
      BY <1>1, <1>4, <1>5, <2>3, <3>1, SettlingIs, SettlingStays DEF SlackMarks, Neat, Worked
    <3> QED
      BY <1>3, <1>5, <2>2, <3>2 DEF Done
  <2>4. Steady(k)' => Neat(k)'
    BY <1>3, <1>5, <2>3, NeatEnd
  <2>5. SlackMarks'
    BY <1>1, <1>6, <2>2, <2>4 DEF SlackMarks
  <2> QED
    BY <2>2, <2>5 DEF Reacted
<1> QED
  BY <1>7, <1>8

\* The bot writes in the context of a post.
LEMMA ReactedSpeak ==
    ASSUME Settling, [Next]_vars, NEW k \in DOMAIN posts, Speak(SlackContext(k))
    PROVE  Reacted'
<1>1. /\ k \in 1 .. Len(posts) /\ SwapReaction(SlackContext(k))
      /\ UNCHANGED <<bound, posts, direct, starts, tasks, ended, marks, unmarked>>
  BY SettlingIs DEF Speak, intakeVars
<1>2. PICK here : here = {i \in DOMAIN posts : SlackContext(i) = SlackContext(k)}
  OBVIOUS
<1>3. /\ wrote' = wrote \cup (here \cap (Handled \cup InHand({"dispatch", "files", "publish"})))
      /\ early' = early \cup (here \cap InHand({"react"}))
      /\ k \in here
      /\ \A i \in here : i \in 1 .. Len(posts) /\ SlackContext(i) = SlackContext(k)
  BY <1>1, <1>2, SettlingIs DEF Speak
<1>4. /\ SlackTyped' /\ SlackRest'
      /\ \A i \in 1 .. Len(posts) : Steady(i)' => Same(i) \/ i = k
      /\ Eyed(k) \/ Swapped(k) => Swapped(k)'
      /\ Untouched(k) /\ k \notin wrote' => Untouched(k)'
  BY <1>1, <1>3, SwapBegins
<1>5. \A i : Persists(i)
  BY <1>1 DEF Persists
<1>6. ASSUME NEW i \in 1 .. Len(posts), Steady(i)', i # k PROVE Neat(i)'
  BY <1>1, <1>4, <1>5, <1>6, NeatOn
<1>7. ASSUME Steady(k)' PROVE Neat(k)'
  <2>0. Neat(k)
    BY <1>1, <1>7, SettlingIs, SettlingStays DEF SlackMarks
  <2>1. ASSUME Idle(k)' PROVE Untouched(k)'
    <3>1. Idle(k)
      BY <1>1, <2>1 DEF Idle, Busy, Kept
    <3>2. k \notin Handled
      BY <3>1 DEF Idle, Kept, Handled
    <3>3. k \notin InHand({"dispatch", "files", "publish"})
      BY <3>1 DEF Idle, Busy, InHand
    <3>4. Untouched(k) /\ k \notin wrote
      BY <2>0, <3>1 DEF Neat, Untouched
    <3> QED
      BY <1>3, <1>4, <3>2, <3>3, <3>4
  <2>2. ASSUME NEW t \in tasks', t.d.post = k, Minded(t.d)', Busy(t), SoleTask(t)' PROVE Worked(t)'
    <3>1. t \in tasks /\ Minded(t.d) /\ SoleTask(t)
      BY <1>1, <1>5, <2>2, SettlingIs, SettlingStays, SoleWas
    <3>2. Worked(t)
      BY <2>0, <2>2, <3>1 DEF Neat
    <3>3. t.at # "react"
      <4> SUFFICES ASSUME t.at = "react" PROVE FALSE
        OBVIOUS
      <4>1. k \in InHand({"react"})
        BY <2>2, <3>1 DEF InHand
      <4> QED
        BY <1>3, <1>7, <4>1 DEF Steady
    <3>4. ASSUME t.at \in {"dispatch", "files", "publish"} PROVE k \in wrote' /\ Swapped(k)'
      <4>1. k \in InHand({"dispatch", "files", "publish"})
        BY <2>2, <3>1, <3>4 DEF InHand
      <4> QED
        BY <1>3, <1>4, <2>2, <3>2, <3>4, <4>1 DEF Worked
    <3> QED
      BY <2>2, <3>3, <3>4 DEF Worked
  <2>3. ASSUME NEW e \in ended', e.d.post = k, Minded(e.d)', Taken(e), e.start = starts', SoleEnd(e)'
        PROVE  Done(e)'
    <3>1. e \in ended /\ Minded(e.d) /\ SoleEnd(e)
      BY <1>1, <1>5, <2>3, SettlingIs, SettlingStays, SoleWas
    <3>2. Done(e)
      BY <1>1, <2>0, <2>3, <3>1 DEF Neat
    <3>3. k \in Handled
      BY <1>1, <2>3, <3>1 DEF Handled, Taken
    <3> QED
      BY <1>3, <1>4, <2>3, <3>2, <3>3 DEF Done
  <2>4. \A t : Busy(t)' <=> Busy(t)
    BY DEF Busy
  <2>5. \A e : Taken(e)' <=> Taken(e)
    BY DEF Taken
  <2> QED
    BY <2>1, <2>2, <2>3, <2>4, <2>5 DEF Neat
<1>8. SlackMarks'
  BY <1>1, <1>6, <1>7 DEF SlackMarks
<1> QED
  BY <1>4, <1>8 DEF Reacted

\* A call of a swap returns.
LEMMA ReactedSwap ==
    ASSUME Settling, [Next]_vars, NEW s \in swaps, Unmark(s) \/ Mark(s)
    PROVE  Reacted'
<1>1. PICK k : k = s.post
  OBVIOUS
<1>2. /\ s \in Swap /\ k \in 1 .. MaxPosts /\ k <= Len(posts) /\ k \in 1 .. Len(posts)
      /\ UNCHANGED <<tracked, wrote, early, posts, direct, starts, bound, tasks, ended>>
      /\ ~NoSwap(k)
  <2>1. s \in Swap /\ ~NoSwap(k)
    BY <1>1, SettlingIs DEF SlackTyped, NoSwap
  <2>2. k \in 1 .. MaxPosts
    BY <1>1, <2>1 DEF Swap
  <2>3. k <= Len(posts)
    BY <2>1, <2>2, SettlingIs DEF SlackRest
  <2> QED
    BY <2>1, <2>2, <2>3, SettlingIs DEF Unmark, Mark
<1>3. \A i : SlackContext(i)' = SlackContext(i)
  BY <1>2 DEF SlackContext
<1>4. /\ marks' \in [1 .. MaxPosts -> SUBSET {"eyes", "check"}]
      /\ \A i \in 1 .. MaxPosts : i # k => marks'[i] = marks[i]
  <2>1. \/ marks' = [marks EXCEPT ![k] = @ \ {"eyes"}]
        \/ marks' = [marks EXCEPT ![k] = @ \cup {"check"}]
        \/ marks' = marks
    BY <1>1 DEF Unmark, Mark
  <2>2. marks \in [1 .. MaxPosts -> SUBSET {"eyes", "check"}]
    BY SettlingIs DEF SlackTyped
  <2> QED
    BY <2>1, <2>2
<1>5. /\ swaps' \subseteq Swap
      /\ \A x : x.post # k => (x \in swaps' <=> x \in swaps)
      /\ s = Remove(k) => swaps' = (swaps \ {s}) \cup {Add(k)}
      /\ s = Add(k) => swaps' = swaps \ {s}
      /\ s = Remove(k) \/ s = Add(k)
      /\ Remove(k) # Add(k) /\ Remove(k).post = k /\ Add(k).post = k
  <2>1. s = Remove(k) \/ s = Add(k)
    BY <1>1, <1>2 DEF Swap, Remove, Add
  <2>2. Remove(k) # Add(k) /\ Remove(k).post = k /\ Add(k).post = k /\ Add(k) \in Swap
    BY <1>2 DEF Remove, Add, Swap
  <2>3. s = Remove(k) => [s EXCEPT !.at = "add"] = Add(k) /\ s.at = "remove"
    BY DEF Remove, Add
  <2>4. s = Add(k) => s.at = "add"
    BY DEF Add
  <2>5. s = Remove(k) => swaps' = (swaps \ {s}) \cup {Add(k)}
    BY <2>3 DEF Unmark, Mark
  <2>6. s = Add(k) => swaps' = swaps \ {s}
    BY <2>4 DEF Unmark, Mark
  <2>7. swaps' \subseteq Swap
    BY <2>1, <2>2, <2>5, <2>6, SettlingIs DEF SlackTyped
  <2> QED
    BY <1>1, <2>1, <2>2, <2>5, <2>6, <2>7
<1>6. SlackTyped' /\ SlackRest'
  <2>1. SlackTyped'
    BY <1>2, <1>4, <1>5, SettlingIs DEF SlackTyped
  <2>2. \A c \in SlackContexts : tracked'[c] # 0
          => tracked'[c] \in 1 .. Len(posts') /\ SlackContext(tracked[c])' = c
    BY <1>2, SettlingIs DEF SlackRest, SlackContext
  <2>3. \A i \in 1 .. MaxPosts : i > Len(posts) => marks'[i] = {} /\ NoSwap(i)' /\ i \notin wrote'
    <3>1. \A i \in 1 .. MaxPosts : i > Len(posts) => i # k
      BY <1>2, SettlingIs
    <3> QED
      BY <1>2, <1>4, <1>5, <3>1, SettlingIs DEF SlackRest, NoSwap
  <2> QED
    BY <1>2, <2>1, <2>2, <2>3 DEF SlackRest
<1>7. \A i : Persists(i)
  BY <1>2 DEF Persists
<1>8. ASSUME NEW i \in 1 .. Len(posts), Steady(i)', i # k PROVE Neat(i)'
  <2>1. i \in 1 .. MaxPosts
    BY SettlingIs, ContextIs
  <2>2. Same(i)
    BY <1>2, <1>3, <1>4, <1>5, <1>8, <2>1 DEF Same, Tracks
  <2> QED
    BY <1>2, <1>7, <1>8, <2>2, NeatOn
<1>9. ASSUME Swapped(k), Steady(k)' PROVE Swapped(k)'
  <2>1. Tracks(k)' = 0
    BY <1>2, <1>3, <1>9 DEF Swapped, Tracks
  <2>2. k \notin unmarked'
    BY <1>9 DEF Steady
  <2>3. CASE s = Remove(k)
    <3>1. Add(k) \notin swaps /\ marks[k] = {"eyes"}
      BY <1>2, <1>9, <2>3 DEF Swapped
    <3>2. marks' = [marks EXCEPT ![k] = @ \ {"eyes"}]
      BY <1>1, <1>5, <2>2, <2>3 DEF Unmark, Mark, Remove
    <3>3. marks'[k] = {}
      BY <1>2, <3>1, <3>2, SettlingIs DEF SlackTyped
    <3>4. Add(k) \in swaps' /\ Remove(k) \notin swaps'
      BY <1>5, <2>3
    <3> QED
      BY <2>1, <3>3, <3>4 DEF Swapped, Add, Remove
  <2>4. CASE s = Add(k)
    <3>1. Remove(k) \notin swaps /\ marks[k] = {}
      BY <1>2, <1>9, <2>4 DEF Swapped
    <3>2. marks' = [marks EXCEPT ![k] = @ \cup {"check"}]
      BY <1>1, <1>5, <2>2, <2>4 DEF Unmark, Mark, Add
    <3>3. marks'[k] = {"check"}
      BY <1>2, <3>1, <3>2, SettlingIs DEF SlackTyped
    <3>4. NoSwap(k)'
      <4>1. ASSUME NEW x \in swaps, x.post = k PROVE x = Remove(k) \/ x = Add(k)
        BY <4>1, SettlingIs DEF SlackTyped, Swap, Remove, Add
      <4> QED
        BY <1>5, <2>4, <3>1, <4>1 DEF NoSwap
    <3> QED
      BY <2>1, <3>3, <3>4 DEF Swapped
  <2> QED
    BY <1>5, <2>3, <2>4
<1>10. ASSUME Steady(k)' PROVE Neat(k)'
  <2>0. Neat(k)
    BY <1>2, <1>10, SettlingIs, SettlingStays DEF SlackMarks
  <2>1. ~Idle(k)'
    <3> SUFFICES ASSUME Idle(k)' PROVE FALSE
      OBVIOUS
    <3>1. Idle(k)
      BY <1>7, SoleWas
    <3> QED
      BY <1>2, <2>0, <3>1 DEF Neat, Untouched
  <2>2. ASSUME NEW t \in tasks', t.d.post = k, Minded(t.d)', Busy(t), SoleTask(t)' PROVE Worked(t)'
    <3>1. t \in tasks /\ Minded(t.d) /\ SoleTask(t)
      BY <1>2, <1>7, <2>2, SettlingIs, SettlingStays, SoleWas
    <3>2. Worked(t)
      BY <2>0, <2>2, <3>1 DEF Neat
    <3>3. t.at # "react"
      BY <1>2, <2>2, <3>2 DEF Worked, Fresh
    <3>4. t.at \in {"dispatch", "files", "publish"} => k \in wrote' /\ Swapped(k)'
      BY <1>2, <1>9, <1>10, <2>2, <3>2 DEF Worked, Eyed
    <3> QED
      BY <2>2, <3>3, <3>4 DEF Worked
  <2>3. ASSUME NEW e \in ended', e.d.post = k, Minded(e.d)', Taken(e), e.start = starts', SoleEnd(e)'
        PROVE  Done(e)'
    <3>1. e \in ended /\ Minded(e.d) /\ SoleEnd(e)
      BY <1>2, <1>7, <2>3, SettlingIs, SettlingStays, SoleWas
    <3>2. Done(e)
      BY <1>2, <2>0, <2>3, <3>1 DEF Neat
    <3>3. (e.what = "answered" \/ k \in wrote) /\ Swapped(k)
      BY <1>2, <2>3, <3>2 DEF Done, Eyed
    <3> QED
      BY <1>2, <1>9, <1>10, <2>3, <3>3 DEF Done
  <2>4. \A t : Busy(t)' <=> Busy(t)
    BY DEF Busy
  <2>5. \A e : Taken(e)' <=> Taken(e)
    BY DEF Taken
  <2> QED
    BY <2>1, <2>2, <2>3, <2>4, <2>5 DEF Neat
<1>11. SlackMarks'
  BY <1>2, <1>8, <1>10 DEF SlackMarks
<1> QED
  BY <1>6, <1>11 DEF Reacted

LEMMA ReactedStep ==
    ASSUME Tracked, Sane, Reacted, [Next]_vars
    PROVE  Reacted'
<1>1. CASE ~OnSlack
  <2>1. ~OnSlack'
    BY <1>1, Settled DEF OnSlack, Platform
  <2> QED
    BY <2>1 DEF Reacted
<1>2. ASSUME OnSlack PROVE Reacted'
  <2>0. Settling
    BY <1>2 DEF Settling
  <2>1. CASE World /\ UNCHANGED slackVars
    BY <2>0, <2>1, ReactedPost DEF World
  <2>2. CASE (\E i \in DOMAIN posts : EditIt(i) \/ Redeliver(i)) /\ UNCHANGED slackVars
    BY <2>0, <2>2, ReactedHost
  <2>3. CASE SlackConnect \/ SlackDisconnect \/ UNCHANGED vars
    BY <2>0, <2>3, ReactedHost
  <2>4. CASE SlackEvent
    BY <2>0, <2>4, ReactedEvent
  <2>5. ASSUME NEW t \in tasks, SlackTask(t) PROVE Reacted'
    <3>1. CASE (Refuse(t) \/ NextFile(t) \/ Publish(t)) /\ UNCHANGED slackVars
      BY <2>0, <3>1, ReactedTask
    <3>2. CASE SlackName(t)
      BY <2>0, <3>2, ReactedName
    <3>3. CASE SlackReact(t)
      BY <2>0, <3>3, ReactedReact
    <3>4. CASE SlackDispatch(t)
      BY <2>0, <3>4, ReactedDispatch
    <3> QED
      BY <2>5, <3>1, <3>2, <3>3, <3>4 DEF SlackTask
  <2>6. ASSUME NEW s \in swaps, Unmark(s) \/ Mark(s) PROVE Reacted'
    BY <2>0, <2>6, ReactedSwap
  <2>7. ASSUME NEW k \in DOMAIN posts, Speak(SlackContext(k)) PROVE Reacted'
    BY <2>0, <2>7, ReactedSpeak
  <2>8. ~Telegram /\ ~Discord /\ ~Matrix
    BY <1>2 DEF OnSlack, Telegram, Discord, Matrix
  <2> QED
    BY <2>1, <2>2, <2>3, <2>4, <2>5, <2>6, <2>7, <2>8 DEF Next, Slack
<1> QED
  BY <1>1, <1>2

LEMMA ReactedBegins ==
    ASSUME Init
    PROVE  Reacted
<1>1. /\ posts = <<>> /\ tasks = {} /\ ended = {} /\ Len(posts) = 0
      /\ tracked = [c \in SlackContexts |-> 0] /\ marks = [i \in 1 .. MaxPosts |-> {}]
      /\ swaps = {} /\ wrote = {} /\ MaxPosts \in Nat
  BY IntakeAssumption DEF Init, IntakeInit, SlackInit
<1>2. SlackTyped
  <2>1. 0 \in 0 .. MaxPosts /\ {} \in SUBSET {"eyes", "check"}
    BY <1>1
  <2>2. tracked \in [SlackContexts -> 0 .. MaxPosts]
    BY <1>1, <2>1
  <2> QED
    BY <1>1, <2>1, <2>2 DEF SlackTyped
<1>3. SlackRest /\ SlackMarks
  BY <1>1 DEF SlackRest, SlackMarks, NoSwap
<1> QED
  BY <1>2, <1>3 DEF Reacted

\* On Slack the reaction to a message that was told of once and is alone in its context
\* says whether the bot has written there, whoever made it write.
THEOREM ReactionsSettle == Spec => []ReactionSettles
<1>1. Init => Tracked /\ Sane /\ Reacted
  BY Begins, ReactedBegins
<1>2. Tracked /\ Sane /\ Reacted /\ [Next]_vars => (Tracked /\ Sane /\ Reacted)'
  BY TrackedStep, SaneStep, ReactedStep
<1>3. ASSUME Tracked, Sane, Reacted PROVE ReactionSettles
  <2> SUFFICES ASSUME OnSlack, NEW e \in ended, Taken(e), e.start = starts, e.d.as # "interaction",
                      Alone(e.d.post), Once(e), e.d.post \notin unmarked \cup early,
                      \A s \in swaps : s.post # e.d.post
               PROVE  marks[e.d.post] = IF e.what = "answered" \/ e.d.post \in wrote
                                        THEN {"check"} ELSE {"eyes"}
    BY DEF ReactionSettles, OnSlack
  <2>1. Minded(e.d) /\ e.d.post \in 1 .. Len(posts)
    BY <1>3 DEF Sane, Fair, OnSlack, Tracked, AllKnown, Known
  <2>2. SoleEnd(e)
    BY DEF Once, SoleEnd, Kept
  <2>3. Done(e)
    BY <1>3, <2>1, <2>2 DEF Reacted, SlackMarks, Neat, Steady
  <2>4. Remove(e.d.post) \notin swaps /\ Add(e.d.post) \notin swaps
    BY DEF Remove, Add
  <2> QED
    BY <2>3, <2>4 DEF Done, Swapped, Eyed
<1> QED
  BY <1>1, <1>2, <1>3, PTL DEF Spec
=============================================================================
