----------------------------- MODULE Transcript -----------------------------
(***************************************************************************)
(* What a chat shows its users, said without a bus, streaming, buffers,    *)
(* tools, typing or the calls to a platform: messages of pieces of what    *)
(* agents say.                                                             *)
(*                                                                         *)
(*   - A message is added below the others or its text is revised, while a *)
(*     turn of the chat is under way, and only with what an agent has      *)
(*     said and the chat does not show yet.                                *)
(*   - The text of a turn that has the chat for itself is read in the      *)
(*     order in which the agent says it, and what is shown of it stays.    *)
(*   - A message mixes turns only if they shared the chat or one failed.   *)
(*   - A turn that had the chat for itself is over when all that its agent *)
(*     said is shown, unless the agent raised or the platform refused.     *)
(***************************************************************************)
EXTENDS Naturals, Sequences

CONSTANTS
    Turns,      \* messages that are answered
    Chats,
    Chat,       \* Chat[m]: where m is answered
    MaxPieces   \* bound: pieces of text of one turn

VARIABLES
    open,       \* turns under way
    shared,     \* those that were under way beside another of their chat
    failed,     \* those whose agent raised
    told,       \* what agents have said: <<m, n>> is m's n-th piece of text, and
                \* <<m, 0>> the line of its tool
    shown,      \* shown[k]: the messages in k, sequences of pieces
    refused     \* the calls that the platform refused

transcriptVars == <<open, shared, failed, told, shown, refused>>

TranscriptInit ==
    /\ open = {}
    /\ shared = {}
    /\ failed = {}
    /\ told = {}
    /\ shown = [k \in Chats |-> <<>>]
    /\ refused = 0

Holds(text, p) == \E x \in DOMAIN text : text[x] = p
Shows(k, p) == \E i \in DOMAIN shown[k] : Holds(shown[k][i], p)

\* p is another piece than q, and not an earlier one of its text.
Follows(p, q) == p # q /\ (p[1] = q[1] => p[2] = 0 \/ q[2] < p[2])

Says(p) ==
    /\ \A q \in told : Follows(p, q)
    /\ told' = told \cup {p}

\* A turn is under way; the message of a subagent is its text.
Open(m) ==
    LET beside == {n \in open : Chat[n] = Chat[m]}
    IN  /\ m \notin open
        /\ open' = open \cup {m}
        /\ shared' = IF beside = {} THEN shared ELSE shared \cup beside \cup {m}
        /\ Says(<<m, 1>>) \/ UNCHANGED told
        /\ UNCHANGED <<failed, shown, refused>>

Tell(m) ==
    /\ m \in open
    /\ \E n \in 0..MaxPieces : Says(<<m, n>>)
    /\ UNCHANGED <<open, shared, failed, shown, refused>>

\* q can be written into message i of k: nothing of its turn is below, and what
\* is shown came before.
Fits(q, k, i) ==
    /\ q \in told
    /\ Chat[q[1]] = k
    /\ ~Shows(k, q)
    /\ q[1] \notin shared =>
        \A j \in DOMAIN shown[k] : \A y \in DOMAIN shown[k][j] :
            LET p == shown[k][j][y]
            IN  Follows(q, p) /\ (p[1] = q[1] /\ j > i => p[2] = 0)

\* Turns whose text is in one message.
Mingle(p, q) == p[1] = q[1] \/ {p[1], q[1]} \subseteq shared \/ {p[1], q[1]} \cap failed # {}

Write(k, i, text) ==
    LET old == IF i \in DOMAIN shown[k] THEN shown[k][i] ELSE <<>>
    IN  /\ i \in 1..(Len(shown[k]) + 1)
        /\ \A x \in DOMAIN text \cap DOMAIN old : text[x] = old[x]
        /\ \A x \in DOMAIN old \ DOMAIN text : old[x][1] \in shared
        /\ \A x \in DOMAIN text \ DOMAIN old : Fits(text[x], k, i)
        /\ \A x, y \in DOMAIN text : x < y => Follows(text[y], text[x])
        /\ \A x, y \in DOMAIN text : Mingle(text[x], text[y])
        /\ shown' = [shown EXCEPT ![k] =
                        IF i = Len(@) + 1 THEN Append(@, text) ELSE [@ EXCEPT ![i] = text]]

Whole(m) ==
    m \notin shared \cup failed /\ refused = 0 =>
        \A p \in told : p[1] = m => Shows(Chat[m], p)

Closes(m) == open' = open \ {m} /\ Whole(m)'

Show(m) ==
    /\ m \in open
    /\ \E i \in DOMAIN shown'[Chat[m]] : Write(Chat[m], i, shown'[Chat[m]][i])
    /\ Closes(m) \/ UNCHANGED open
    /\ UNCHANGED <<shared, failed, told, refused>>

Refuse(m) ==
    /\ m \in open
    /\ refused' = refused + 1
    /\ Closes(m) \/ UNCHANGED open
    /\ UNCHANGED <<shared, failed, told, shown>>

Close(m) ==
    /\ m \in open
    /\ Closes(m)
    /\ UNCHANGED <<shared, failed, told, shown, refused>>

Fail(m) ==
    /\ m \in open
    /\ failed' = failed \cup {m}
    /\ UNCHANGED <<open, shared, told, shown, refused>>

TranscriptNext ==
    \E m \in Turns : Open(m) \/ Tell(m) \/ Show(m) \/ Refuse(m) \/ Close(m) \/ Fail(m)

TranscriptSpec == TranscriptInit /\ [][TranscriptNext]_transcriptVars
=============================================================================
