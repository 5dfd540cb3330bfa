---------------------------- MODULE LiveClients ----------------------------
(***************************************************************************)
(* WebSocketChannel: the set of live connections, which clients enter and  *)
(* leave at any time, and the broadcasts that go through it with an await  *)
(* at every write.  The clients are programs of one user, in one context;  *)
(* while one has not spoken, or speaks as somebody else, its connection    *)
(* matches no broadcast.                                                   *)
(***************************************************************************)
EXTENDS Integers, Sequences, FiniteSets

CONSTANTS
    Clients,      \* programs that connect, and connect again
    Turns,        \* turns whose answers are broadcast
    Chunks        \* chunks of text that an answer has

ASSUME LiveClientsAssumption == Chunks \in Nat

VARIABLES
    online,       \* clients whose socket is open
    conns,        \* WebSocketChannel._connections
    known,        \* connections that have told the user and the context
    cast,         \* where _broadcast is, for each turn
    \* history
    seen,         \* the frames of each turn that a client has got since it connected
    steady,       \* clients that have been there for all of a turn
    torn          \* turns with a broadcast that may have missed a steady client

clientVars == <<online, conns, known, cast, seen, steady, torn>>

\* The frames of a turn: its chunks, ai_stream_end, and the apology.
End == Chunks + 1
Apology == Chunks + 2
Frames(n) == [i \in 1 .. n |-> i]

Matching == conns \cap known
Unseen == [m \in Turns |-> <<>>]
NoCast == [frame |-> 0]
Casting(m) == cast[m] # NoCast

Cast == {NoCast} \cup
        [frame : 1 .. Apology, to : SUBSET Clients, rest : SUBSET Clients, size : Nat,
         changed : BOOLEAN, dead : SUBSET Clients]

ClientsTypeOK ==
    /\ online \subseteq Clients
    /\ conns \subseteq Clients
    /\ known \subseteq conns
    /\ cast \in [Turns -> Cast]
    /\ seen \in [Clients -> [Turns -> Seq(1 .. Apology)]]
    /\ steady \in [Turns -> SUBSET Clients]
    /\ torn \subseteq Turns

ClientsInit ==
    /\ online = {} /\ conns = {} /\ known = {}
    /\ cast = [m \in Turns |-> NoCast]
    /\ seen = [c \in Clients |-> Unseen]
    /\ steady = [m \in Turns |-> {}]
    /\ torn = {}

-----------------------------------------------------------------------------
\* The set changes under the broadcasts that are going through it; those of cs
\* that leave it may be written to still, or wait to be discarded, to no effect:
\* a client that comes back has another connection.
Disturbed(casts, cs) ==
    [m \in Turns |->
        IF casts[m] = NoCast THEN NoCast
        ELSE [casts[m] EXCEPT !.changed = TRUE, !.to = @ \ cs, !.dead = @ \ cs]]

Unsteady(cs) == steady' = [m \in Turns |-> steady[m] \ cs]

\* A client connects, and _handler begins.
Join(c) ==
    /\ c \notin online \cup conns
    /\ online' = online \cup {c}
    /\ conns' = conns \cup {c}
    /\ cast' = Disturbed(cast, {})
    /\ seen' = [seen EXCEPT ![c] = Unseen]
    /\ UNCHANGED <<known, steady, torn>>

\* Every frame of a client tells who it is, also one that is refused, or is
\* answered with a pong or the reply of a command.
Speak(c, anew) ==
    /\ c \in online \cap conns
    /\ known' = IF anew THEN known \cup {c} ELSE known \ {c}
    /\ IF anew THEN UNCHANGED steady ELSE Unsteady({c})
    /\ UNCHANGED <<online, conns, cast, seen, torn>>

\* Sockets are closed, from whichever side.
HangUp(cs) ==
    /\ online' = online \ cs
    /\ Unsteady(cs)
    /\ UNCHANGED <<conns, known, cast, seen, torn>>

\* MUTANT of Leave: what the connection has told outlives it.
LeaveKnown(c) ==
    /\ c \in conns
    /\ online' = online \ {c}
    /\ conns' = conns \ {c}
    /\ cast' = Disturbed(cast, {c})
    /\ Unsteady({c})
    /\ UNCHANGED <<known, seen, torn>>

\* _handler ends, with the socket or because a frame made it raise.
Leave(c) ==
    /\ c \in conns
    /\ online' = online \ {c}
    /\ conns' = conns \ {c}
    /\ known' = known \ {c}
    /\ cast' = Disturbed(cast, {c})
    /\ Unsteady({c})
    /\ UNCHANGED <<seen, torn>>

-----------------------------------------------------------------------------
\* _broadcast goes on to connection c of those it has not reached, and passes
\* over some that do not match.
Reaches(m, rest, c, cast0) ==
    \E over \in SUBSET (rest \ known) :
        cast' = [cast EXCEPT ![m] = [cast0 EXCEPT !.to = {c}, !.rest = rest \ ({c} \cup over)]]

Begin(m, f) ==
    \E c \in Matching :
        Reaches(m, conns, c, [frame |-> f, to |-> {}, rest |-> {}, size |-> Cardinality(conns),
                              changed |-> FALSE, dead |-> {}])

\* The write returns, or raises since the socket is closed.
Written(m) ==
    seen' = [c \in Clients |->
                IF c \in cast[m].to \cap online
                THEN [seen[c] EXCEPT ![m] = Append(@, cast[m].frame)]
                ELSE seen[c]]

Dead(m) == cast[m].dead \cup (cast[m].to \ online)

SetChangedSize(m) == Cardinality(conns) # cast[m].size

\* What the iterator has still to visit.  Where one has left and another has
\* come the size is the same, and the layout of the set decides.
Rests(m) == IF cast[m].changed THEN SUBSET conns ELSE {cast[m].rest}

Torn(m) == torn' = IF cast[m].changed THEN torn \cup {m} ELSE torn

WriteNext(m) ==
    /\ Casting(m) /\ ~SetChangedSize(m)
    /\ Written(m)
    /\ \E rest \in Rests(m) : \E c \in rest \cap known :
          Reaches(m, rest, c, [cast[m] EXCEPT !.changed = FALSE, !.dead = Dead(m)])
    /\ Torn(m)
    /\ UNCHANGED <<online, conns, known, steady>>

\* MUTANT of WriteLast: what remains after a connection that is dead is not
\* visited.
WriteLastAtDead(m) ==
    /\ Casting(m) /\ ~SetChangedSize(m)
    /\ Written(m)
    /\ \/ Dead(m) # {}
       \/ \E rest \in Rests(m) : rest \cap known = {}
    /\ conns' = conns \ Dead(m)
    /\ known' = known \ Dead(m)
    /\ cast' = LET others == [cast EXCEPT ![m] = NoCast]
               IN  IF Dead(m) = {} THEN others ELSE Disturbed(others, Dead(m))
    /\ Torn(m)
    /\ UNCHANGED <<online, steady>>

\* The last write: connections found dead are discarded.
WriteLast(m) ==
    /\ Casting(m) /\ ~SetChangedSize(m)
    /\ Written(m)
    /\ \E rest \in Rests(m) : rest \cap known = {}
    /\ conns' = conns \ Dead(m)
    /\ known' = known \ Dead(m)
    /\ cast' = LET others == [cast EXCEPT ![m] = NoCast]
               IN  IF Dead(m) = {} THEN others ELSE Disturbed(others, Dead(m))
    /\ Torn(m)
    /\ UNCHANGED <<online, steady>>

\* "Set changed size during iteration", once the write has returned.
WriteRaises(m) ==
    /\ Casting(m) /\ SetChangedSize(m)
    /\ Written(m)
    /\ cast' = [cast EXCEPT ![m] = NoCast]
    /\ torn' = IF cast[m].frame = Apology THEN torn \cup {m} ELSE torn
    /\ UNCHANGED <<online, conns, known, steady>>

\* The write is cancelled: nobody waits for an apology longer than 15 seconds.
WriteCancelled(m) ==
    /\ Casting(m)
    /\ cast' = [cast EXCEPT ![m] = NoCast]
    /\ torn' = torn \cup {m}
    /\ UNCHANGED <<online, conns, known, seen, steady>>
=============================================================================
