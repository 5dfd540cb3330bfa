---------------------------- MODULE MatrixIntake ----------------------------
(***************************************************************************)
(* MatrixChannel.  The rooms it is in, invitations, and events that the    *)
(* first sync after a start delivers again.                                *)
(***************************************************************************)
EXTENDS Intake

CONSTANT BootTime  \* when the host was booted, on the clock of the homeserver

\* A host has not been up for as long as the epoch is old.
ASSUME MatrixAssumption == BootTime \in Nat /\ BootTime >= MaxPosts

VARIABLES
    inside,       \* rooms that the bot has joined
    dmCache,      \* _dm_cache: "unknown", "direct" or "group"
    sealed,       \* rooms that are encrypted
    been          \* history: in which start a chat was of two or had more

matrixVars == <<inside, dmCache, sealed, been>>

MatrixTypeOK ==
    /\ inside \subseteq Chats
    /\ dmCache \in [Chats -> {"unknown", "direct", "group"}]
    /\ sealed \subseteq Chats
    /\ been \subseteq (0 .. bound.starts) \X Chats \X BOOLEAN

MatrixInit ==
    /\ inside = bound.inside
    /\ dmCache = [c \in Chats |-> "unknown"]
    /\ sealed \in SUBSET (IF Platform = "matrix" THEN bound.inside ELSE {})
    /\ been = {}

\* start, with a new client
MatrixConnect ==
    /\ Connect
    /\ dmCache' = [c \in Chats |-> "unknown"]
    /\ been' = been \cup {<<starts', c, c \in direct>> : c \in Chats}
    /\ UNCHANGED <<inside, sealed>>

\* A third member comes into a chat, or all but two are gone.
Crowd(c) ==
    /\ Platform = "matrix" /\ edits < bound.edits
    /\ edits' = edits + 1
    /\ direct' = IF c \in direct THEN direct \ {c} ELSE direct \cup {c}
    /\ been' = IF up THEN been \cup {<<starts, c, c \in direct'>>} ELSE been
    /\ UNCHANGED <<bound, posts, feed, up, since, tasks, starts, faults, ended>>
    /\ UNCHANGED <<inside, dmCache, sealed>>

-----------------------------------------------------------------------------
\* server_timestamp counts from the epoch, and the loop's clock, which
\* _started_after_ms is read from, from the boot of the host.
ServerTime(i) == BootTime + i
StartedAfter == since

\* _should_process; only rooms that the bot is in are synced.
ShouldProcess(d) ==
    /\ PostOf(d).user # Self
    /\ IsAllowed(PostOf(d).user, FALSE)
    /\ ServerTime(d.post) >= StartedAfter

\* _is_dm: what it was when it was first asked.
IsDm(c) == IF dmCache[c] = "unknown" THEN c \in direct ELSE dmCache[c] = "direct"

Cached(c) == dmCache' = [dmCache EXCEPT ![c] = IF IsDm(c) THEN "direct" ELSE "group"]

\* _on_text: what is no mention in a group is dropped; a text may be empty.
MatrixTextStage(d) ==
    LET p == PostOf(d)
    IN  IF ~ShouldProcess(d) \/ (~IsDm(p.chat) /\ ~p.mention) THEN "ignored"
        ELSE IF p.text = "command" THEN "dispatch"
        ELSE "publish"

\* _on_media, for whom it is not asked.
MatrixMediaStage(d) ==
    LET p == PostOf(d)
    IN  IF ~ShouldProcess(d) \/ p.chat \in sealed \/ p.files[1] \in {"large", "unlinked"}
        THEN "ignored"
        ELSE "files"

\* _on_invite
MatrixInviteStage(d) == IF IsAllowed(PostOf(d).user, FALSE) THEN "join" ELSE "ignored"

Synced == feed # <<>> /\ (Event.as = "invite" \/ PostOf(Event).chat \in inside)

MatrixText ==
    /\ Synced /\ PostOf(Event).files = <<>>
    /\ Take("message", MatrixTextStage(Event))
    /\ IF ShouldProcess(Event) THEN Cached(PostOf(Event).chat) ELSE UNCHANGED dmCache
    /\ UNCHANGED <<faults, inside, sealed, been>>

MatrixMedia ==
    /\ Synced /\ PostOf(Event).files # <<>>
    /\ Take("message", MatrixMediaStage(Event))
    /\ UNCHANGED <<faults, matrixVars>>

MatrixInvite ==
    /\ Synced
    /\ Take("invite", MatrixInviteStage(Event))
    /\ UNCHANGED <<faults, matrixVars>>

\* What happens in a room that the bot is not in does not reach it.
Unsynced ==
    /\ up /\ Platform = "matrix"
    /\ feed # <<>> /\ ~Synced
    /\ feed' = Tail(feed)
    /\ UNCHANGED <<bound, posts, up, since, tasks, direct, starts, edits, faults, ended, matrixVars>>

\* The download: an error or no bytes, and the event is dropped.
MatrixDownload(t) ==
    /\ t.at = "files"
    /\ LET empty == PostOf(t.d).files[1] = "empty"
       IN  \/ ~empty /\ Become(t, [Held(t) EXCEPT !.at = "publish"]) /\ UNCHANGED faults
                     /\ Cached(PostOf(t.d).chat)
           \/ empty /\ Over(t, "ignored") /\ UNCHANGED <<faults, dmCache>>
           \/ Over(t, "ignored") /\ Fault /\ UNCHANGED dmCache
    /\ UNCHANGED <<inside, sealed, been>>

\* An error is logged.
Join(t) ==
    /\ t.at = "join"
    /\ \/ inside' = inside \cup {PostOf(t.d).chat} /\ Over(t, "answered") /\ UNCHANGED faults
       \/ Over(t, "failed") /\ Fault /\ UNCHANGED inside
    /\ UNCHANGED <<dmCache, sealed, been>>

MatrixTask(t) ==
    \/ MatrixDownload(t)
    \/ Join(t)
    \/ (Dispatch(t) \/ Publish(t)) /\ UNCHANGED matrixVars
=============================================================================
