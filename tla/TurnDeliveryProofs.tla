------------------------- MODULE TurnDeliveryProofs -------------------------
(***************************************************************************)
(* What TLC checks of TurnDelivery with two turns, proved for any number   *)
(* of turns, chats, pieces, tools and failures of the platform: types, the *)
(* typing indicator, and then what becomes of the pieces of answers, which *)
(* are neither lost nor shown twice nor as another's, and all shown where  *)
(* a turn has its chat for itself; in the end, that all of it implements   *)
(* the promise of Transcript.                                              *)
(***************************************************************************)
EXTENDS TurnDelivery, SequenceTheorems, TLAPS

-----------------------------------------------------------------------------
\* Sequences.

LEMMA ExceptInSeq ==
    ASSUME NEW S, NEW s \in Seq(S), NEW x \in S, NEW i
    PROVE  [s EXCEPT ![i] = x] \in Seq(S) /\ Len([s EXCEPT ![i] = x]) = Len(s)
<1>1. CASE i \in 1..Len(s)
  BY <1>1, ExceptSeq
<1>2. CASE i \notin 1..Len(s)
  <2>1. s = [j \in 1..Len(s) |-> s[j]]
    OBVIOUS
  <2>2. [s EXCEPT ![i] = x] = s
    BY <1>2, <2>1
  <2> QED
    BY <2>2
<1> QED
  BY <1>1, <1>2

LEMMA SetOfSeq ==
    ASSUME NEW S, NEW s \in Seq(S)
    PROVE  ToSet(s) \subseteq S
BY DEF ToSet

-----------------------------------------------------------------------------
\* The types, by what they are of.

FlowTyped == queue \in Seq(Turns) /\ turn \in [Turns -> TurnStates]
AgentTyped ==
    /\ streams \subseteq Turns /\ streamed \subseteq Turns /\ blocked \subseteq Turns
    /\ said \in [Turns -> 0..MaxPieces] /\ heard \in [Turns -> 0..MaxPieces]
    /\ \A m \in Turns : heard[m] <= said[m]
    /\ tool \in [Turns -> {"none", "called", "done"}]
    /\ \A m \in stash : m \in Turns /\ tool[m] = "called"
CallsTyped == outbox \in [Turns -> Seq(Pieces)] /\ target \in [Turns -> Nat]
ChannelTyped ==
    /\ buffer \in [Chats -> Seq(Pieces)]
    /\ shown \in [Chats -> Seq(Seq(Pieces))]
    /\ stream \in [Chats -> [message : Nat, text : Seq(Pieces)]]
    /\ \A k \in Chats : stream[k].message <= Len(shown[k])
Aimed == \A m \in Turns : target[m] <= Len(shown[Chat[m]])
ConfigTyped == [streaming |-> streaming, cron |-> cron] \in Configs
RestTyped ==
    /\ typing \subseteq Chats /\ apologies \subseteq Turns
    /\ failures \in Nat
    /\ lost \subseteq Pieces /\ untold \subseteq Pieces
    /\ silent \subseteq Turns /\ failed \subseteq Turns /\ overlapped \subseteq Turns

Typed ==
    FlowTyped /\ AgentTyped /\ CallsTyped /\ ChannelTyped /\ Aimed /\ ConfigTyped /\ RestTyped

LEMMA TypedIsType == Typed => TypeOK
BY TurnAssumption DEF Typed, TypeOK, FlowTyped, AgentTyped, CallsTyped, ChannelTyped, Aimed,
   ConfigTyped, RestTyped

LEMMA InitTyped == Init => Typed
<1> SUFFICES ASSUME Init PROVE Typed
  OBVIOUS
<1>1. FlowTyped /\ RestTyped
  BY DEF Init, FlowTyped, RestTyped, TurnStates
<1>2. ConfigTyped
  <2>1. PICK c \in Configs : streaming = c.streaming /\ cron = c.cron
    BY DEF Init
  <2>2. c = [streaming |-> c.streaming, cron |-> c.cron]
    BY <2>1, TurnAssumption
  <2> QED
    BY <2>1, <2>2 DEF ConfigTyped
<1>3. AgentTyped
  BY TurnAssumption DEF Init, AgentTyped
<1>4. CallsTyped /\ ChannelTyped /\ Aimed
  BY TurnAssumption DEF Init, CallsTyped, ChannelTyped, Aimed, NoStream
<1> QED
  BY <1>1, <1>2, <1>3, <1>4 DEF Typed

\* What keeps a part.
LEMMA Keep ==
    /\ FlowTyped /\ UNCHANGED <<queue, turn>> => FlowTyped'
    /\ AgentTyped /\ UNCHANGED <<agentVars, stash>> => AgentTyped'
    /\ CallsTyped /\ UNCHANGED callVars => CallsTyped'
    /\ ChannelTyped /\ UNCHANGED <<buffer, stream, shown>> => ChannelTyped'
    /\ Aimed /\ UNCHANGED <<target, shown>> => Aimed'
    /\ ConfigTyped /\ UNCHANGED configVars => ConfigTyped'
    /\ RestTyped /\ UNCHANGED <<typing, apologies, historyVars>> => RestTyped'
BY DEF FlowTyped, AgentTyped, CallsTyped, ChannelTyped, Aimed, ConfigTyped, RestTyped,
   agentVars, callVars, configVars, historyVars

LEMMA GoesTypes ==
    ASSUME FlowTyped, NEW m \in Turns, NEW s \in TurnStates, Goes(m, s), UNCHANGED queue
    PROVE  FlowTyped'
BY DEF FlowTyped, Goes

LEMMA CallsTypes ==
    ASSUME FlowTyped, CallsTyped, NEW m \in Turns, NEW s \in TurnStates,
           NEW text \in Seq(Pieces), Calls(m, s, text), UNCHANGED queue,
           target' \in [Turns -> Nat]
    PROVE  FlowTyped' /\ CallsTyped'
BY DEF FlowTyped, CallsTyped, Calls, Goes

LEMMA AnsweredTypes ==
    ASSUME FlowTyped, CallsTyped, NEW m \in Turns, NEW s \in TurnStates, Answered(m, s),
           UNCHANGED queue
    PROVE  /\ FlowTyped' /\ CallsTyped'
           /\ \A n \in Turns : target'[n] <= target[n]
BY DEF FlowTyped, CallsTyped, Answered, Goes

\* A call comes to the chat, or it does not; no message disappears.
LEMMA PostTypes ==
    ASSUME CallsTyped, ChannelTyped, NEW m \in Turns, Post(m) \/ Edit(m) \/ UNCHANGED shown
    PROVE  /\ shown' \in [Chats -> Seq(Seq(Pieces))]
           /\ \A k \in Chats : Len(shown[k]) \in Nat /\ Len(shown[k]) <= Len(shown'[k])
           /\ Post(m) => Len(shown'[Chat[m]]) = Len(shown[Chat[m]]) + 1
<1>1. Chat[m] \in Chats /\ outbox[m] \in Seq(Pieces)
  BY TurnAssumption DEF CallsTyped
<1>2. shown \in [Chats -> Seq(Seq(Pieces))]
  BY DEF ChannelTyped
<1>3. CASE Post(m)
  <2>1. shown' = [shown EXCEPT ![Chat[m]] = Append(shown[Chat[m]], outbox[m])]
    BY <1>3 DEF Post
  <2>2. /\ Append(shown[Chat[m]], outbox[m]) \in Seq(Seq(Pieces))
        /\ Len(Append(shown[Chat[m]], outbox[m])) = Len(shown[Chat[m]]) + 1
    BY <1>1, <1>2
  <2> QED
    BY <1>1, <1>2, <2>1, <2>2
<1>4. CASE Edit(m)
  <2> DEFINE new == [shown[Chat[m]] EXCEPT ![target[m]] = outbox[m]]
  <2>1. shown' = [shown EXCEPT ![Chat[m]] = new]
    BY <1>4 DEF Edit
  <2>2. new \in Seq(Seq(Pieces)) /\ Len(new) = Len(shown[Chat[m]])
    BY <1>1, <1>2, ExceptInSeq
  <2> HIDE DEF new
  <2>3. shown' \in [Chats -> Seq(Seq(Pieces))] /\ \A k \in Chats : Len(shown'[k]) = Len(shown[k])
    BY <1>2, <2>1, <2>2
  <2>4. Post(m) => Len(shown'[Chat[m]]) = Len(shown[Chat[m]]) + 1
    BY <1>1, <1>2 DEF Post
  <2> QED
    BY <1>2, <2>3, <2>4
<1>5. CASE UNCHANGED shown
  <2>1. Post(m) => Len(shown'[Chat[m]]) = Len(shown[Chat[m]]) + 1
    BY <1>1, <1>2 DEF Post
  <2> QED
    BY <1>2, <1>5, <2>1
<1> QED
  BY <1>3, <1>4, <1>5

LEMMA AimedStays ==
    ASSUME CallsTyped, ChannelTyped, Aimed, target' \in [Turns -> Nat],
           \A n \in Turns : target'[n] <= target[n],
           shown' \in [Chats -> Seq(Seq(Pieces))],
           \A k \in Chats : Len(shown[k]) <= Len(shown'[k])
    PROVE  Aimed'
BY TurnAssumption DEF CallsTyped, ChannelTyped, Aimed

\* Pieces.
LEMMA PieceTypes ==
    ASSUME AgentTyped, NEW m \in Turns, said[m] < MaxPieces
    PROVE  /\ Piece(m) \in Pieces
           /\ said[m] + 1 \in 0..MaxPieces
           /\ <<Piece(m)>> \in Seq(Pieces)
<1>1. said[m] \in 0..MaxPieces /\ MaxPieces \in Nat
  BY TurnAssumption DEF AgentTyped
<1>2. said[m] + 1 \in 0..MaxPieces
  BY <1>1
<1>3. Piece(m) \in Pieces
  BY <1>2 DEF Piece, Pieces
<1> QED
  BY <1>2, <1>3

LEMMA SaysTypes ==
    ASSUME AgentTyped, NEW m \in Turns, said[m] < MaxPieces, said' = [said EXCEPT ![m] = @ + 1]
    PROVE  /\ said' \in [Turns -> 0..MaxPieces]
           /\ said'[m] = said[m] + 1
           /\ \A n \in Turns : heard[n] <= said[n] /\ said[n] <= said'[n]
           /\ \A n \in Turns : said[n] \in Nat /\ heard[n] \in Nat
<1>1. said[m] + 1 \in 0..MaxPieces
  BY PieceTypes
<1>2. said' \in [Turns -> 0..MaxPieces]
  BY <1>1 DEF AgentTyped
<1>3. \A n \in Turns : said'[n] = IF n = m THEN said[n] + 1 ELSE said[n]
  BY DEF AgentTyped
<1>4. \A n \in Turns : said[n] \in Nat /\ heard[n] \in Nat /\ heard[n] <= said[n]
  BY TurnAssumption DEF AgentTyped
<1> QED
  BY <1>2, <1>3, <1>4

\* A stream's text grows by a piece.
LEMMA StreamTypes ==
    ASSUME ChannelTyped, NEW k \in Chats, NEW p \in Pieces,
           NEW s, s = [stream[k] EXCEPT !.text = Append(@, p)]
    PROVE  /\ s \in [message : Nat, text : Seq(Pieces)]
           /\ s.message = stream[k].message
           /\ s.text \in Seq(Pieces) /\ s.text = Append(stream[k].text, p)
<1>1. stream[k] \in [message : Nat, text : Seq(Pieces)]
  BY DEF ChannelTyped
<1>2. Append(stream[k].text, p) \in Seq(Pieces)
  BY <1>1
<1> QED
  BY <1>1, <1>2

LEMMA StreamSet ==
    ASSUME ChannelTyped, NEW k \in Chats, NEW s \in [message : Nat, text : Seq(Pieces)],
           stream' = [stream EXCEPT ![k] = s], buffer' = buffer,
           shown' \in [Chats -> Seq(Seq(Pieces))],
           \A c \in Chats : Len(shown[c]) <= Len(shown'[c]),
           s.message <= Len(shown'[k])
    PROVE  ChannelTyped'
<1>1. stream' \in [Chats -> [message : Nat, text : Seq(Pieces)]]
  BY DEF ChannelTyped
<1>2. ASSUME NEW c \in Chats PROVE stream'[c].message <= Len(shown'[c])
  <2>1. CASE c = k
    BY <2>1 DEF ChannelTyped
  <2>2. CASE c # k
    <3>1. stream'[c] = stream[c] /\ stream[c].message <= Len(shown[c])
      BY <2>2 DEF ChannelTyped
    <3>2. stream[c].message \in Nat /\ Len(shown[c]) \in Nat /\ Len(shown'[c]) \in Nat
      BY DEF ChannelTyped
    <3> QED
      BY <3>1, <3>2
  <2> QED
    BY <2>1, <2>2
<1> QED
  BY <1>1, <1>2 DEF ChannelTyped

LEMMA NewChunkTypes ==
    ASSUME AgentTyped, NEW m \in Turns, NewChunk(m)
    PROVE  AgentTyped' /\ Piece(m) \in Pieces /\ <<Piece(m)>> \in Seq(Pieces)
<1>1. /\ said[m] < MaxPieces /\ said' = [said EXCEPT ![m] = @ + 1]
      /\ streamed' = streamed \cup {m} /\ UNCHANGED <<streams, blocked, heard, tool, stash>>
  BY DEF NewChunk, InModel, InAgent
<1>2. /\ said' \in [Turns -> 0..MaxPieces]
      /\ \A n \in Turns : heard[n] <= said[n] /\ said[n] <= said'[n]
      /\ \A n \in Turns : said[n] \in Nat /\ heard[n] \in Nat
  BY <1>1, SaysTypes
<1>3. \A n \in Turns : heard'[n] <= said'[n]
  BY <1>1, <1>2 DEF AgentTyped
<1>4. AgentTyped'
  BY <1>1, <1>2, <1>3 DEF AgentTyped
<1> QED
  BY <1>1, <1>4, PieceTypes

LEMMA TurnStepTyped == Typed /\ [Next]_vars => Typed'
<1> SUFFICES ASSUME Typed, [Next]_vars PROVE Typed'
  OBVIOUS
<1>0. FlowTyped /\ AgentTyped /\ CallsTyped /\ ChannelTyped /\ Aimed /\ ConfigTyped /\ RestTyped
  BY DEF Typed
<1>p. MaxPieces \in Nat \ {0} /\ \A m \in Turns : Chat[m] \in Chats
  BY TurnAssumption
<1>c. \A m \in Turns : ToSet(outbox[m]) \subseteq Pieces
  BY <1>0, SetOfSeq DEF CallsTyped
<1>1. ASSUME NEW m \in Turns, Prepare(m) PROVE Typed'
  <2>0. /\ UNCHANGED <<agentVars, stash, callVars, buffer, stream, shown, target,
                       configVars, typing, apologies, historyVars>>
        /\ queue' = queue
        /\ Goes(m, "agent")
    BY <1>1 DEF Prepare, agentVars, callVars, configVars, channelVars, historyVars
  <2>1. AgentTyped' /\ CallsTyped' /\ ChannelTyped' /\ Aimed' /\ ConfigTyped' /\ RestTyped'
    BY <1>0, <2>0, Keep
  <2>2. FlowTyped'
    BY <1>0, <2>0, GoesTypes DEF TurnStates
  <2> QED
    BY <2>1, <2>2 DEF Typed
<1>2. ASSUME NEW m \in Turns, BufferChunk(m) PROVE Typed'
  <2>0. /\ UNCHANGED <<queue, turn, callVars, target, shown, configVars, typing, apologies,
                       historyVars>>
        /\ NewChunk(m)
        /\ buffer' = [buffer EXCEPT ![Chat[m]] = Append(@, Piece(m))]
        /\ UNCHANGED <<stream, shown>>
    BY <1>2 DEF BufferChunk, NewChunk, callVars, InModel, historyVars, InAgent, configVars
  <2>1. FlowTyped' /\ CallsTyped' /\ Aimed' /\ ConfigTyped' /\ RestTyped'
    BY <1>0, <2>0, Keep
  <2>2. AgentTyped' /\ Piece(m) \in Pieces
    BY <1>0, <2>0, NewChunkTypes
  <2>3. ChannelTyped'
    BY <1>0, <1>p, <2>0, <2>2 DEF ChannelTyped
  <2> QED
    BY <2>1, <2>2, <2>3 DEF Typed
<1>3. ASSUME NEW m \in Turns, StartMessage(m) PROVE Typed'
  <2>0. /\ UNCHANGED <<buffer, stream, shown, target, configVars, typing, apologies, historyVars>>
        /\ NewChunk(m)
        /\ Calls(m, "starting", <<Piece(m)>>)
        /\ UNCHANGED <<queue, target>>
    BY <1>3 DEF StartMessage, NewChunk, InModel, historyVars, InAgent, configVars
  <2>1. ChannelTyped' /\ Aimed' /\ ConfigTyped' /\ RestTyped'
    BY <1>0, <2>0, Keep
  <2>2. AgentTyped' /\ <<Piece(m)>> \in Seq(Pieces)
    BY <1>0, <2>0, NewChunkTypes
  <2>3. FlowTyped' /\ CallsTyped'
    BY <1>0, <2>0, <2>2, CallsTypes DEF TurnStates, CallsTyped
  <2> QED
    BY <2>1, <2>2, <2>3 DEF Typed
<1>4. ASSUME NEW m \in Turns, AppendChunk(m) PROVE Typed'
  <2>0. /\ UNCHANGED <<configVars, typing, apologies, historyVars>>
        /\ NewChunk(m)
        /\ UNCHANGED <<queue, buffer, shown>>
    BY <1>4 DEF AppendChunk, NewChunk, Calls, InModel, historyVars, Goes, InAgent, configVars
  <2>1. ConfigTyped' /\ RestTyped'
    BY <1>0, <2>0, Keep
  <2> DEFINE s == [stream[Chat[m]] EXCEPT !.text = Append(@, Piece(m))]
  <2>2. /\ stream' = [stream EXCEPT ![Chat[m]] = s]
        /\ \/ Calls(m, "editing", s.text) /\ target' = [target EXCEPT ![m] = s.message]
           \/ UNCHANGED <<turn, outbox, target>>
    BY <1>4 DEF AppendChunk
  <2>3. AgentTyped' /\ Piece(m) \in Pieces
    BY <1>0, <2>0, NewChunkTypes
  <2>4. /\ s \in [message : Nat, text : Seq(Pieces)] /\ s.text \in Seq(Pieces)
        /\ s.message \in Nat /\ s.message <= Len(shown[Chat[m]])
    BY <1>0, <1>p, <2>3, StreamTypes DEF ChannelTyped
  <2> HIDE DEF s
  <2>5. ChannelTyped'
    BY <1>0, <1>p, <2>0, <2>2, <2>4 DEF ChannelTyped
  <2>6. CASE UNCHANGED <<turn, outbox, target>>
    <3>1. FlowTyped' /\ CallsTyped' /\ Aimed'
      BY <1>0, <2>0, <2>6, Keep DEF callVars
    <3> QED
      BY <2>1, <2>3, <2>5, <3>1 DEF Typed
  <2>7. CASE Calls(m, "editing", s.text) /\ target' = [target EXCEPT ![m] = s.message]
    <3>1. target' \in [Turns -> Nat]
      BY <1>0, <2>4, <2>7 DEF CallsTyped
    <3>2. FlowTyped' /\ CallsTyped'
      BY <1>0, <2>0, <2>4, <2>7, <3>1, CallsTypes DEF TurnStates
    <3>3. Aimed'
      BY <1>0, <2>0, <2>4, <2>7 DEF Aimed, CallsTyped
    <3> QED
      BY <2>1, <2>3, <2>5, <3>2, <3>3 DEF Typed
  <2> QED
    BY <2>2, <2>6, <2>7
<1>5. ASSUME NEW m \in Turns, Started(m) PROVE Typed'
  <2>0. /\ UNCHANGED <<agentVars, stash, configVars, typing, apologies, historyVars>>
        /\ Post(m) /\ Answered(m, "agent")
        /\ UNCHANGED <<queue, buffer>>
        /\ stream' = [stream EXCEPT ![Chat[m]] =
                    [message |-> Len(shown[Chat[m]]) + 1, text |-> outbox[m]]]
    BY <1>5 DEF Started, agentVars, configVars, historyVars
  <2>1. AgentTyped' /\ ConfigTyped' /\ RestTyped'
    BY <1>0, <2>0, Keep
  <2>2. /\ FlowTyped' /\ CallsTyped'
        /\ \A n \in Turns : target'[n] <= target[n]
    BY <1>0, <2>0, AnsweredTypes DEF TurnStates
  <2>3. /\ shown' \in [Chats -> Seq(Seq(Pieces))]
        /\ \A k \in Chats : Len(shown[k]) \in Nat /\ Len(shown[k]) <= Len(shown'[k])
        /\ Post(m) => Len(shown'[Chat[m]]) = Len(shown[Chat[m]]) + 1
    BY <1>0, <2>0, PostTypes
  <2>4. Aimed'
    BY <1>0, <2>2, <2>3, AimedStays DEF CallsTyped
  <2>5. [message |-> Len(shown[Chat[m]]) + 1, text |-> outbox[m]]
            \in [message : Nat, text : Seq(Pieces)]
    BY <1>0, <1>p, <2>3 DEF CallsTyped
  <2>6. [message |-> Len(shown[Chat[m]]) + 1, text |-> outbox[m]].message
            <= Len(shown'[Chat[m]])
    BY <1>p, <2>0, <2>3
  <2>7. ChannelTyped'
    BY <1>0, <1>p, <2>0, <2>3, <2>5, <2>6, StreamSet
  <2> QED
    BY <2>1, <2>2, <2>3, <2>4, <2>5, <2>6, <2>7 DEF Typed
<1>6. ASSUME NEW m \in Turns, Edited(m) PROVE Typed'
  <2>0. /\ UNCHANGED <<agentVars, stash, configVars, typing, apologies, historyVars>>
        /\ Edit(m) /\ Answered(m, "agent")
        /\ UNCHANGED <<queue, buffer, stream>>
    BY <1>6 DEF Edited, agentVars, configVars, historyVars
  <2>1. AgentTyped' /\ ConfigTyped' /\ RestTyped'
    BY <1>0, <2>0, Keep
  <2>2. /\ FlowTyped' /\ CallsTyped'
        /\ \A n \in Turns : target'[n] <= target[n]
    BY <1>0, <2>0, AnsweredTypes DEF TurnStates
  <2>3. /\ shown' \in [Chats -> Seq(Seq(Pieces))]
        /\ \A k \in Chats : Len(shown[k]) \in Nat /\ Len(shown[k]) <= Len(shown'[k])
        /\ Post(m) => Len(shown'[Chat[m]]) = Len(shown[Chat[m]]) + 1
    BY <1>0, <2>0, PostTypes
  <2>4. Aimed'
    BY <1>0, <2>2, <2>3, AimedStays DEF CallsTyped
  <2>5. ChannelTyped'
    BY <1>0, <2>0, <2>3 DEF ChannelTyped
  <2> QED
    BY <2>1, <2>2, <2>3, <2>4, <2>5 DEF Typed
<1>7. ASSUME NEW m \in Turns, ModelUpdate(m) PROVE Typed'
  <2>0. /\ UNCHANGED <<queue, turn, callVars, buffer, stream, shown, target, configVars,
                       typing, apologies, historyVars>>
        /\ heard' = [heard EXCEPT ![m] = said[m]]
        /\ UNCHANGED <<said, streams, streamed, tool, blocked, stash>>
    BY <1>7 DEF ModelUpdate, InModel, callVars, channelVars, historyVars, InAgent, configVars
  <2>1. FlowTyped' /\ CallsTyped' /\ ChannelTyped' /\ Aimed' /\ ConfigTyped' /\ RestTyped'
    BY <1>0, <2>0, Keep
  <2>2. AgentTyped'
    BY <1>0, <1>p, <2>0 DEF AgentTyped
  <2> QED
    BY <2>1, <2>2 DEF Typed
<1>8. ASSUME NEW m \in Turns, WholeUpdate(m) PROVE Typed'
  <2>0. /\ UNCHANGED <<buffer, stream, shown, target, configVars>>
        /\ said[m] < MaxPieces
        /\ said' = [said EXCEPT ![m] = @ + 1]
        /\ heard' = [heard EXCEPT ![m] = said[m] + 1]
        /\ Calls(m, "whole", <<Piece(m)>>)
        /\ typing' = typing \ {Chat[m]}
        /\ UNCHANGED <<queue, target, streams, streamed, tool, blocked, stash, apologies>>
        /\ UNCHANGED historyVars
    BY <1>8 DEF WholeUpdate, InModel, StopTyping, InAgent, configVars
  <2>1. ChannelTyped' /\ Aimed' /\ ConfigTyped'
    BY <1>0, <2>0, Keep
  <2>2. /\ said' \in [Turns -> 0..MaxPieces] /\ said'[m] = said[m] + 1
        /\ said[m] + 1 \in 0..MaxPieces /\ <<Piece(m)>> \in Seq(Pieces)
        /\ \A n \in Turns : heard[n] <= said[n] /\ said[n] <= said'[n]
        /\ \A n \in Turns : said[n] \in Nat /\ heard[n] \in Nat
    BY <1>0, <2>0, SaysTypes, PieceTypes
  <2>3. AgentTyped'
    <3>1. heard' \in [Turns -> 0..MaxPieces]
      BY <1>0, <2>0, <2>2 DEF AgentTyped
    <3>2. ASSUME NEW n \in Turns PROVE heard'[n] <= said'[n]
      BY <1>0, <2>0, <2>2 DEF AgentTyped
    <3> QED
      BY <1>0, <2>0, <2>2, <3>1, <3>2 DEF AgentTyped
  <2>4. FlowTyped' /\ CallsTyped'
    BY <1>0, <2>0, <2>2, CallsTypes DEF TurnStates, CallsTyped
  <2>5. RestTyped'
    BY <1>0, <2>0 DEF RestTyped, historyVars
  <2> QED
    BY <2>1, <2>2, <2>3, <2>4, <2>5 DEF Typed
<1>9. ASSUME NEW m \in Turns, ToolCall(m) PROVE Typed'
  <2>0. /\ UNCHANGED <<queue, turn, callVars, buffer, stream, shown, target, configVars>>
        /\ tool[m] = "none" /\ tool' = [tool EXCEPT ![m] = "called"]
        /\ stash' \subseteq stash \cup {m}
        /\ \/ heard' = [heard EXCEPT ![m] = said[m]] /\ UNCHANGED <<said, untold>>
           \/ /\ said[m] < MaxPieces /\ said' = [said EXCEPT ![m] = @ + 1]
              /\ heard' = [heard EXCEPT ![m] = @ + 1]
              /\ untold' = untold \cup {Piece(m)}
        /\ UNCHANGED <<streams, streamed, blocked, typing, apologies, failures, lost,
                       silent, failed,
                       overlapped>>
    BY <1>9 DEF ToolCall, InAgent, callVars, configVars
  <2>1. FlowTyped' /\ CallsTyped' /\ ChannelTyped' /\ Aimed' /\ ConfigTyped'
    BY <1>0, <2>0, Keep
  <2>2. tool' \in [Turns -> {"none", "called", "done"}]
    BY <1>0, <2>0 DEF AgentTyped
  <2>3. \A n \in stash' : n \in Turns /\ tool'[n] = "called"
    BY <1>0, <2>0 DEF AgentTyped
  <2>4. CASE heard' = [heard EXCEPT ![m] = said[m]] /\ UNCHANGED <<said, untold>>
    <3>1. AgentTyped'
      BY <1>0, <1>p, <2>0, <2>2, <2>3, <2>4 DEF AgentTyped
    <3>2. RestTyped'
      BY <1>0, <2>0, <2>4 DEF RestTyped
    <3> QED
      BY <2>1, <3>1, <3>2 DEF Typed
  <2>5. CASE /\ said[m] < MaxPieces /\ said' = [said EXCEPT ![m] = @ + 1]
             /\ heard' = [heard EXCEPT ![m] = @ + 1]
             /\ untold' = untold \cup {Piece(m)}
    <3>1. /\ said' \in [Turns -> 0..MaxPieces] /\ said'[m] = said[m] + 1
          /\ \A n \in Turns : heard[n] <= said[n] /\ said[n] <= said'[n]
          /\ \A n \in Turns : said[n] \in Nat /\ heard[n] \in Nat
          /\ Piece(m) \in Pieces
      BY <1>0, <2>5, SaysTypes, PieceTypes
    <3>2. ASSUME NEW n \in Turns
          PROVE  heard'[n] \in 0..MaxPieces /\ heard'[n] <= said'[n]
      BY <1>0, <1>p, <2>5, <3>1 DEF AgentTyped
    <3>3. heard' \in [Turns -> 0..MaxPieces]
      BY <1>0, <2>5, <3>2 DEF AgentTyped
    <3>4. AgentTyped'
      BY <1>0, <2>0, <2>2, <2>3, <3>1, <3>2, <3>3 DEF AgentTyped
    <3>5. RestTyped'
      BY <1>0, <2>0, <2>5, <3>1 DEF RestTyped
    <3> QED
      BY <2>1, <3>4, <3>5 DEF Typed
  <2> QED
    BY <2>0, <2>4, <2>5
<1>10. ASSUME NEW m \in Turns, ToolResult(m) PROVE Typed'
  <2>0. /\ UNCHANGED <<buffer, stream, shown, target, configVars, typing, apologies, historyVars>>
        /\ tool' = [tool EXCEPT ![m] = "done"] /\ stash' = stash \ {m}
        /\ UNCHANGED <<turn, outbox>> \/ Calls(m, "tool", <<ToolLine(m)>>)
        /\ UNCHANGED <<queue, target, streams, said, heard, streamed, blocked>>
    BY <1>10 DEF ToolResult, InAgent, historyVars, configVars
  <2>1. ChannelTyped' /\ Aimed' /\ ConfigTyped' /\ RestTyped'
    BY <1>0, <2>0, Keep
  <2>2. AgentTyped'
    BY <1>0, <2>0 DEF AgentTyped
  <2>3. <<ToolLine(m)>> \in Seq(Pieces)
    BY <1>p DEF ToolLine, Pieces
  <2>4. FlowTyped' /\ CallsTyped'
    <3>1. CASE UNCHANGED <<turn, outbox>>
      BY <1>0, <2>0, <3>1, Keep DEF callVars
    <3>2. CASE Calls(m, "tool", <<ToolLine(m)>>)
      BY <1>0, <2>0, <2>3, <3>2, CallsTypes DEF TurnStates, CallsTyped
    <3> QED
      BY <2>0, <3>1, <3>2
  <2> QED
    BY <2>1, <2>2, <2>3, <2>4 DEF Typed
<1>11. ASSUME NEW m \in Turns, ToolSent(m) PROVE Typed'
  <2>0. /\ UNCHANGED <<agentVars, stash, configVars>>
        /\ Answered(m, "agent")
        /\ Post(m) \/ UNCHANGED shown
        /\ UNCHANGED <<queue, buffer, stream, typing, apologies, untold, silent, failed,
                       overlapped>>
        /\ failures' = failures \/ failures' = failures + 1
        /\ lost' = lost \/ lost' = lost \cup ToSet(outbox[m])
    BY <1>11 DEF ToolSent, PlatformFails, agentVars, configVars
  <2>1. AgentTyped' /\ ConfigTyped'
    BY <1>0, <2>0, Keep
  <2>2. /\ FlowTyped' /\ CallsTyped'
        /\ \A n \in Turns : target'[n] <= target[n]
    BY <1>0, <2>0, AnsweredTypes DEF TurnStates
  <2>3. /\ shown' \in [Chats -> Seq(Seq(Pieces))]
        /\ \A k \in Chats : Len(shown[k]) \in Nat /\ Len(shown[k]) <= Len(shown'[k])
        /\ Post(m) => Len(shown'[Chat[m]]) = Len(shown[Chat[m]]) + 1
    BY <1>0, <2>0, PostTypes
  <2>4. Aimed'
    BY <1>0, <2>2, <2>3, AimedStays DEF CallsTyped
  <2>5. ChannelTyped'
    BY <1>0, <2>0, <2>3 DEF ChannelTyped
  <2>6. RestTyped'
    BY <1>0, <1>c, <2>0 DEF RestTyped
  <2> QED
    BY <2>1, <2>2, <2>3, <2>4, <2>5, <2>6 DEF Typed
<1>12. ASSUME NEW m \in Turns, EndUnstreamed(m) PROVE Typed'
  <2>0. /\ UNCHANGED <<agentVars, stash, callVars, buffer, stream, shown, target, configVars>>
        /\ queue' = queue /\ Goes(m, "ended")
        /\ silent' \subseteq silent \cup {m}
        /\ UNCHANGED <<typing, apologies, failures, lost, untold, failed, overlapped>>
    BY <1>12 DEF EndUnstreamed, StreamEnds, callVars, agentVars, configVars
  <2>1. AgentTyped' /\ CallsTyped' /\ ChannelTyped' /\ Aimed' /\ ConfigTyped'
    BY <1>0, <2>0, Keep
  <2>2. FlowTyped'
    BY <1>0, <2>0, GoesTypes DEF TurnStates
  <2>3. RestTyped'
    BY <1>0, <2>0 DEF RestTyped
  <2> QED
    BY <2>1, <2>2, <2>3 DEF Typed
<1>13. ASSUME NEW m \in Turns, EndBuffered(m) PROVE Typed'
  <2>0. /\ UNCHANGED <<agentVars, stash, target, shown, configVars>>
        /\ queue' = queue /\ target' = target
        /\ \/ Goes(m, "ended") /\ outbox' = outbox
           \/ Calls(m, "showing", buffer[Chat[m]])
        /\ buffer' = [buffer EXCEPT ![Chat[m]] = <<>>]
        /\ typing' \subseteq typing /\ silent' \subseteq silent \cup {m}
        /\ UNCHANGED <<stream, shown, apologies, failures, lost, untold, failed, overlapped>>
    BY <1>13 DEF EndBuffered, StreamEnds, StopTyping, agentVars, configVars
  <2>1. AgentTyped' /\ Aimed' /\ ConfigTyped'
    BY <1>0, <2>0, Keep
  <2>2. buffer[Chat[m]] \in Seq(Pieces)
    BY <1>0, <1>p DEF ChannelTyped
  <2>3. FlowTyped' /\ CallsTyped'
    <3>1. CASE Goes(m, "ended") /\ outbox' = outbox
      BY <1>0, <2>0, <3>1, GoesTypes, Keep DEF TurnStates, callVars
    <3>2. CASE Calls(m, "showing", buffer[Chat[m]])
      BY <1>0, <2>0, <2>2, <3>2, CallsTypes DEF TurnStates, CallsTyped
    <3> QED
      BY <2>0, <3>1, <3>2
  <2>4. ChannelTyped'
    <3>0. <<>> \in Seq(Pieces)
      OBVIOUS
    <3>1. buffer' \in [Chats -> Seq(Pieces)]
      BY <1>0, <1>p, <2>0, <3>0 DEF ChannelTyped
    <3> QED
      BY <1>0, <2>0, <3>1 DEF ChannelTyped
  <2>5. RestTyped'
    BY <1>0, <2>0 DEF RestTyped
  <2> QED
    BY <2>1, <2>2, <2>3, <2>4, <2>5 DEF Typed
<1>14. ASSUME NEW m \in Turns, EndEdited(m) PROVE Typed'
  <2>0. /\ UNCHANGED <<agentVars, stash, buffer, stream, shown, configVars>>
        /\ typing' = typing \ {Chat[m]}
        /\ \/ Goes(m, "ended") /\ UNCHANGED callVars
           \/ /\ Calls(m, "flushing", stream[Chat[m]].text)
              /\ target' = [target EXCEPT ![m] = stream[Chat[m]].message]
        /\ UNCHANGED <<queue, silent, shown, apologies, failures, lost, untold, failed, overlapped>>
    BY <1>14 DEF EndEdited, StreamEnds, StopTyping, agentVars, configVars
  <2>1. AgentTyped' /\ ChannelTyped' /\ ConfigTyped'
    BY <1>0, <2>0, Keep
  <2>2. RestTyped'
    BY <1>0, <2>0 DEF RestTyped
  <2>3. FlowTyped' /\ CallsTyped' /\ Aimed'
    <3>1. CASE Goes(m, "ended") /\ UNCHANGED callVars
      <4>1. FlowTyped'
        BY <1>0, <2>0, <3>1, GoesTypes DEF TurnStates
      <4> QED
        BY <1>0, <2>0, <3>1, <4>1, Keep DEF callVars
    <3>2. CASE /\ Calls(m, "flushing", stream[Chat[m]].text)
               /\ target' = [target EXCEPT ![m] = stream[Chat[m]].message]
      <4>1. /\ stream[Chat[m]].text \in Seq(Pieces)
            /\ stream[Chat[m]].message \in Nat
            /\ stream[Chat[m]].message <= Len(shown[Chat[m]])
        BY <1>0, <1>p DEF ChannelTyped
      <4>2. target' \in [Turns -> Nat]
        BY <1>0, <3>2, <4>1 DEF CallsTyped
      <4>3. FlowTyped' /\ CallsTyped'
        BY <1>0, <2>0, <3>2, <4>1, <4>2, CallsTypes DEF TurnStates
      <4>4. Aimed'
        BY <1>0, <2>0, <3>2, <4>1 DEF Aimed, CallsTyped
      <4> QED
        BY <4>3, <4>4
    <3> QED
      BY <2>0, <3>1, <3>2
  <2> QED
    BY <2>1, <2>2, <2>3 DEF Typed
<1>15. ASSUME NEW m \in Turns, Flushed(m) PROVE Typed'
  <2>0. /\ UNCHANGED <<agentVars, stash, configVars>>
        /\ Answered(m, "apologising") \/ Answered(m, "ended")
        /\ Edit(m) \/ UNCHANGED shown
        /\ stream' = [stream EXCEPT ![Chat[m]] = NoStream]
        /\ UNCHANGED <<queue, buffer, typing, apologies, untold, silent, failed, overlapped>>
        /\ failures' = failures \/ failures' = failures + 1
        /\ lost' = lost \/ lost' = lost \cup ToSet(outbox[m])
    BY <1>15 DEF Flushed, PlatformFails, agentVars, configVars
  <2>1. AgentTyped' /\ ConfigTyped'
    BY <1>0, <2>0, Keep
  <2>2. /\ FlowTyped' /\ CallsTyped'
        /\ \A n \in Turns : target'[n] <= target[n]
    BY <1>0, <2>0, AnsweredTypes DEF TurnStates
  <2>3. /\ shown' \in [Chats -> Seq(Seq(Pieces))]
        /\ \A k \in Chats : Len(shown[k]) \in Nat /\ Len(shown[k]) <= Len(shown'[k])
        /\ Post(m) => Len(shown'[Chat[m]]) = Len(shown[Chat[m]]) + 1
    BY <1>0, <2>0, PostTypes
  <2>4. Aimed'
    BY <1>0, <2>2, <2>3, AimedStays DEF CallsTyped
  <2>5. NoStream \in [message : Nat, text : Seq(Pieces)] /\ NoStream.message = 0
    BY DEF NoStream
  <2>6. 0 <= Len(shown'[Chat[m]])
    BY <1>p, <2>3
  <2>7. ChannelTyped'
    BY <1>0, <1>p, <2>0, <2>3, <2>5, <2>6, StreamSet
  <2>8. RestTyped'
    BY <1>0, <1>c, <2>0 DEF RestTyped
  <2> QED
    BY <2>1, <2>2, <2>3, <2>4, <2>5, <2>6, <2>7, <2>8 DEF Typed
<1>16. ASSUME NEW m \in Turns, Sent(m) PROVE Typed'
  <2>0. /\ UNCHANGED <<agentVars, stash, configVars, typing, apologies, historyVars>>
        /\ Post(m)
        /\ Answered(m, "agent") \/ Answered(m, "ended")
        /\ UNCHANGED <<queue, buffer, stream>>
    BY <1>16 DEF Sent, AfterSend, agentVars, configVars, historyVars
  <2>1. AgentTyped' /\ ConfigTyped' /\ RestTyped'
    BY <1>0, <2>0, Keep
  <2>2. /\ FlowTyped' /\ CallsTyped'
        /\ \A n \in Turns : target'[n] <= target[n]
    BY <1>0, <2>0, AnsweredTypes DEF TurnStates
  <2>3. /\ shown' \in [Chats -> Seq(Seq(Pieces))]
        /\ \A k \in Chats : Len(shown[k]) \in Nat /\ Len(shown[k]) <= Len(shown'[k])
        /\ Post(m) => Len(shown'[Chat[m]]) = Len(shown[Chat[m]]) + 1
    BY <1>0, <2>0, PostTypes
  <2>4. Aimed'
    BY <1>0, <2>2, <2>3, AimedStays DEF CallsTyped
  <2>5. ChannelTyped'
    BY <1>0, <2>0, <2>3 DEF ChannelTyped
  <2> QED
    BY <2>1, <2>2, <2>3, <2>4, <2>5 DEF Typed
<1>17. ASSUME NEW m \in Turns, Apologise(m) PROVE Typed'
  <2>0. /\ UNCHANGED <<agentVars, stash, callVars, buffer, stream, shown, target, configVars>>
        /\ queue' = queue /\ Goes(m, "ended")
        /\ typing' = typing \ {Chat[m]}
        /\ apologies' \subseteq apologies \cup {m}
        /\ failures' = failures \/ failures' = failures + 1
        /\ UNCHANGED <<lost, untold, silent, failed, overlapped>>
    BY <1>17 DEF Apologise, StopTyping, PlatformFails, agentVars, callVars, configVars
  <2>1. AgentTyped' /\ CallsTyped' /\ ChannelTyped' /\ Aimed' /\ ConfigTyped'
    BY <1>0, <2>0, Keep
  <2>2. FlowTyped'
    BY <1>0, <2>0, GoesTypes DEF TurnStates
  <2>3. RestTyped'
    BY <1>0, <2>0 DEF RestTyped
  <2> QED
    BY <2>1, <2>2, <2>3 DEF Typed
<1>18. ASSUME NEW m \in Turns, Arrive(m) PROVE Typed'
  <2>0. /\ UNCHANGED <<agentVars, stash, callVars, buffer, stream, shown, target, configVars>>
        /\ Goes(m, "queued") /\ queue' = Append(queue, m)
        /\ typing' \subseteq typing \cup {Chat[m]}
        /\ UNCHANGED <<apologies, historyVars>>
    BY <1>18 DEF Arrive, Publish, agentVars, callVars, configVars
  <2>1. AgentTyped' /\ CallsTyped' /\ ChannelTyped' /\ Aimed' /\ ConfigTyped'
    BY <1>0, <2>0, Keep
  <2>2. FlowTyped'
    BY <1>0, <2>0 DEF FlowTyped, Goes, TurnStates
  <2>3. RestTyped'
    BY <1>0, <1>p, <2>0 DEF RestTyped, historyVars
  <2> QED
    BY <2>1, <2>2, <2>3 DEF Typed
<1>19. ASSUME NEW m \in Turns, PrepareRaises(m) PROVE Typed'
  <2>0. /\ UNCHANGED <<agentVars, stash, callVars, buffer, stream, shown, target, configVars>>
        /\ queue' = queue /\ Goes(m, "ended")
        /\ silent' = silent \cup {m}
        /\ UNCHANGED <<typing, apologies, failures, lost, untold, failed, overlapped>>
    BY <1>19 DEF PrepareRaises, agentVars, callVars, configVars, channelVars
  <2>1. AgentTyped' /\ CallsTyped' /\ ChannelTyped' /\ Aimed' /\ ConfigTyped'
    BY <1>0, <2>0, Keep
  <2>2. FlowTyped'
    BY <1>0, <2>0, GoesTypes DEF TurnStates
  <2>3. RestTyped'
    BY <1>0, <2>0 DEF RestTyped
  <2> QED
    BY <2>1, <2>2, <2>3 DEF Typed
<1>20. ASSUME NEW m \in Turns, Block(m) PROVE Typed'
  <2>0. /\ UNCHANGED <<queue, turn, callVars, buffer, stream, shown, target, configVars,
                       typing, apologies, historyVars>>
        /\ blocked' = blocked \cup {m}
        /\ UNCHANGED <<said, heard, streams, streamed, tool, stash>>
    BY <1>20 DEF Block, callVars, configVars, channelVars, historyVars
  <2>1. FlowTyped' /\ CallsTyped' /\ ChannelTyped' /\ Aimed' /\ ConfigTyped' /\ RestTyped'
    BY <1>0, <2>0, Keep
  <2>2. AgentTyped'
    BY <1>0, <2>0 DEF AgentTyped
  <2> QED
    BY <2>1, <2>2 DEF Typed
<1>21. ASSUME NEW m \in Turns, AgentRaises(m) PROVE Typed'
  <2>0. /\ UNCHANGED <<agentVars, stash, callVars, buffer, stream, shown, target, configVars>>
        /\ queue' = queue /\ Goes(m, "apologising")
        /\ failed' = failed \cup {m}
        /\ UNCHANGED <<typing, apologies, failures, lost, untold, silent, overlapped>>
    BY <1>21 DEF AgentRaises, agentVars, callVars, configVars
  <2>1. AgentTyped' /\ CallsTyped' /\ ChannelTyped' /\ Aimed' /\ ConfigTyped'
    BY <1>0, <2>0, Keep
  <2>2. FlowTyped'
    BY <1>0, <2>0, GoesTypes DEF TurnStates
  <2>3. RestTyped'
    BY <1>0, <2>0 DEF RestTyped
  <2> QED
    BY <2>1, <2>2, <2>3 DEF Typed
<1>22. ASSUME NEW m \in Turns, StreamCallFails(m) PROVE Typed'
  <2>0. /\ UNCHANGED <<agentVars, stash, buffer, stream, shown, configVars>>
        /\ Answered(m, "agent")
        /\ UNCHANGED <<queue, typing, apologies, untold, silent, failed, overlapped, shown>>
        /\ failures' = failures \/ failures' = failures + 1
        /\ lost' = lost \/ lost' = lost \cup ToSet(outbox[m])
    BY <1>22 DEF StreamCallFails, PlatformFails, agentVars, configVars, channelVars
  <2>1. AgentTyped' /\ ChannelTyped' /\ ConfigTyped'
    BY <1>0, <2>0, Keep
  <2>2. /\ FlowTyped' /\ CallsTyped'
        /\ \A n \in Turns : target'[n] <= target[n]
    BY <1>0, <2>0, AnsweredTypes DEF TurnStates
  <2>3. /\ shown' \in [Chats -> Seq(Seq(Pieces))]
        /\ \A k \in Chats : Len(shown[k]) \in Nat /\ Len(shown[k]) <= Len(shown'[k])
        /\ Post(m) => Len(shown'[Chat[m]]) = Len(shown[Chat[m]]) + 1
    BY <1>0, <2>0, PostTypes
  <2>4. Aimed'
    BY <1>0, <2>2, <2>3, AimedStays DEF CallsTyped
  <2>5. RestTyped'
    BY <1>0, <1>c, <2>0 DEF RestTyped
  <2> QED
    BY <2>1, <2>2, <2>3, <2>4, <2>5 DEF Typed
<1>23. ASSUME NEW m \in Turns, SendFails(m) PROVE Typed'
  <2>0. /\ UNCHANGED <<agentVars, stash, buffer, stream, shown, configVars>>
        /\ \/ Answered(m, "agent") \/ Answered(m, "ended")
           \/ Answered(m, "apologising")
        /\ UNCHANGED <<queue, typing, apologies, untold, silent, failed, overlapped, shown>>
        /\ failures' = failures \/ failures' = failures + 1
        /\ lost' = lost \/ lost' = lost \cup ToSet(outbox[m])
    BY <1>23 DEF SendFails, PlatformFails, AfterSend, agentVars, configVars, channelVars
  <2>1. AgentTyped' /\ ChannelTyped' /\ ConfigTyped'
    BY <1>0, <2>0, Keep
  <2>2. /\ FlowTyped' /\ CallsTyped'
        /\ \A n \in Turns : target'[n] <= target[n]
    BY <1>0, <2>0, AnsweredTypes DEF TurnStates
  <2>3. /\ shown' \in [Chats -> Seq(Seq(Pieces))]
        /\ \A k \in Chats : Len(shown[k]) \in Nat /\ Len(shown[k]) <= Len(shown'[k])
        /\ Post(m) => Len(shown'[Chat[m]]) = Len(shown[Chat[m]]) + 1
    BY <1>0, <2>0, PostTypes
  <2>4. Aimed'
    BY <1>0, <2>2, <2>3, AimedStays DEF CallsTyped
  <2>5. RestTyped'
    BY <1>0, <1>c, <2>0 DEF RestTyped
  <2> QED
    BY <2>1, <2>2, <2>3, <2>4, <2>5 DEF Typed
<1>24. ASSUME NEW m \in Turns, NEW n \in Turns, SubagentReports(m, n) PROVE Typed'
  <2>0. /\ Goes(n, "queued") /\ queue' = Append(queue, n)
        /\ UNCHANGED <<agentVars, callVars, configVars, stash, buffer, stream, shown, typing,
                       apologies, historyVars>>
    BY <1>24 DEF SubagentReports, Publish
  <2>1. UNCHANGED <<target, shown>>
    BY <2>0 DEF callVars
  <2>2. AgentTyped' /\ CallsTyped' /\ ChannelTyped' /\ Aimed' /\ ConfigTyped' /\ RestTyped'
    BY <1>0, <2>0, <2>1, Keep
  <2>3. FlowTyped'
    BY <1>0, <2>0 DEF FlowTyped, Goes, TurnStates
  <2> QED
    BY <2>2, <2>3 DEF Typed
<1>25. CASE Handle
  <2> DEFINE m == Head(queue)
  <2>0. /\ m \in Turns /\ queue' = Tail(queue) /\ queue' \in Seq(Turns)
        /\ overlapped' \subseteq Turns
        /\ \/ /\ Calls(m, "direct", <<<<m, 1>>>>) /\ typing' = typing \ {Chat[m]}
              /\ said' = [said EXCEPT ![m] = 1] /\ heard' = [heard EXCEPT ![m] = 1]
           \/ Goes(m, "preparing") /\ UNCHANGED <<said, heard, outbox, typing>>
        /\ UNCHANGED <<streams, streamed, tool, blocked, stash, target, configVars, buffer,
                       stream, shown, apologies, failures, lost, untold, silent, failed>>
    BY <1>0, <1>25 DEF Handle, StopTyping, FlowTyped, RestTyped
  <2>1. ChannelTyped' /\ Aimed' /\ ConfigTyped'
    BY <1>0, <2>0, Keep
  <2>2. RestTyped'
    BY <1>0, <2>0 DEF RestTyped
  <2> HIDE DEF m
  <2>3. 1 \in 0..MaxPieces /\ <<<<m, 1>>>> \in Seq(Pieces)
    BY <1>p, <2>0 DEF Pieces
  <2>4. CASE /\ Calls(m, "direct", <<<<m, 1>>>>)
             /\ said' = [said EXCEPT ![m] = 1] /\ heard' = [heard EXCEPT ![m] = 1]
    <3>1. AgentTyped'
      BY <1>0, <2>0, <2>3, <2>4 DEF AgentTyped
    <3>2. FlowTyped'
      BY <1>0, <2>0, <2>4 DEF FlowTyped, Calls, Goes, TurnStates
    <3>3. CallsTyped'
      BY <1>0, <2>0, <2>3, <2>4 DEF CallsTyped, Calls
    <3> QED
      BY <2>1, <2>2, <3>1, <3>2, <3>3 DEF Typed
  <2>5. CASE Goes(m, "preparing") /\ UNCHANGED <<said, heard, outbox, typing>>
    <3>1. AgentTyped' /\ CallsTyped'
      BY <1>0, <2>0, <2>5, Keep DEF agentVars, callVars
    <3>2. FlowTyped'
      BY <1>0, <2>0, <2>5 DEF FlowTyped, Goes, TurnStates
    <3> QED
      BY <2>1, <2>2, <3>1, <3>2 DEF Typed
  <2> QED
    BY <2>0, <2>4, <2>5
<1>26. CASE Quiescent \/ UNCHANGED vars
  <2>1. UNCHANGED <<queue, turn, agentVars, stash, callVars, buffer, stream, shown, configVars,
                    typing, apologies, historyVars>>
    BY <1>26 DEF Quiescent, vars, channelVars
  <2>2. UNCHANGED <<target, shown>>
    BY <2>1 DEF callVars
  <2> QED
    BY <1>0, <2>1, <2>2, Keep DEF Typed
<1> QED
  BY <1>1, <1>2, <1>3, <1>4, <1>5, <1>6, <1>7, <1>8, <1>9, <1>10, <1>11, <1>12, <1>13, <1>14,
     <1>15, <1>16, <1>17, <1>18, <1>19, <1>20, <1>21, <1>22, <1>23, <1>24, <1>25, <1>26 DEF
     Next, TurnStep

\* The types of what a turn, the agent, the calls and the channel keep: a call
\* edits a message that is in the chat, and a tool call the channel holds is one
\* without its result.
THEOREM TurnDeliveryTyped == Spec => []TypeOK
<1>1. Init => Typed
  BY InitTyped
<1>2. Typed /\ [Next]_vars => Typed'
  BY TurnStepTyped
<1>3. Typed => TypeOK
  BY TypedIsType
<1> QED
  BY <1>1, <1>2, <1>3, PTL DEF Spec

-----------------------------------------------------------------------------
\* The steps of a turn that is in flight.
OwnStep(m) ==
    TurnStep(m) \/ PrepareRaises(m) \/ Block(m) \/ AgentRaises(m) \/ StreamCallFails(m)
    \/ SendFails(m)

\* What they leave alone, and what only grows.
Frame(m) ==
    /\ UNCHANGED <<queue, streams, configVars>>
    /\ turn[m] \in InFlight /\ turn'[m] \in (InFlight \ {"preparing"}) \cup {"ended"}
    /\ \A n \in Turns \ {m} :
        /\ turn'[n] = turn[n] /\ said'[n] = said[n] /\ tool'[n] = tool[n]
        /\ outbox'[n] = outbox[n] /\ target'[n] = target[n]
    /\ streamed \subseteq streamed' /\ silent \subseteq silent'
    /\ untold \subseteq untold' /\ lost \subseteq lost'
    /\ overlapped \subseteq overlapped' /\ failed \subseteq failed'

LEMMA OwnFrame ==
    ASSUME Typed, NEW m \in Turns, OwnStep(m)
    PROVE  Frame(m)
<1>0. /\ turn \in [Turns -> TurnStates] /\ said \in [Turns -> 0..MaxPieces]
      /\ tool \in [Turns -> {"none", "called", "done"}]
      /\ outbox \in [Turns -> Seq(Pieces)] /\ target \in [Turns -> Nat]
  BY DEF Typed, FlowTyped, AgentTyped, CallsTyped
<1>1. CASE Prepare(m)
  BY <1>0, <1>1 DEF Frame, InFlight, TurnStates, Prepare, Goes, agentVars, callVars, configVars,
     channelVars, historyVars
<1>2. CASE BufferChunk(m)
  BY <1>0, <1>2 DEF Frame, InFlight, TurnStates, BufferChunk, NewChunk, callVars, InModel,
     historyVars, InAgent, configVars, agentVars
<1>3. CASE StartMessage(m)
  BY <1>0, <1>3 DEF Frame, InFlight, TurnStates, StartMessage, NewChunk, Calls, InModel,
     historyVars, Goes, InAgent, configVars, agentVars, callVars
<1>4. CASE AppendChunk(m)
  BY <1>0, <1>4 DEF Frame, InFlight, TurnStates, AppendChunk, NewChunk, Calls, InModel,
     historyVars, Goes, InAgent, configVars, agentVars, callVars
<1>5. CASE Started(m)
  BY <1>0, <1>5 DEF Frame, InFlight, TurnStates, Started, Answered, agentVars, configVars,
     historyVars, Goes, callVars
<1>6. CASE Edited(m)
  BY <1>0, <1>6 DEF Frame, InFlight, TurnStates, Edited, Answered, agentVars, configVars,
     historyVars, Goes, callVars
<1>7. CASE ModelUpdate(m)
  BY <1>0, <1>7 DEF Frame, InFlight, TurnStates, ModelUpdate, InModel, callVars, channelVars,
     historyVars, InAgent, configVars, agentVars
<1>8. CASE WholeUpdate(m)
  BY <1>0, <1>8 DEF Frame, InFlight, TurnStates, WholeUpdate, InModel, Calls, historyVars,
     InAgent, Goes, configVars, agentVars, callVars
<1>9. CASE ToolCall(m)
  BY <1>0, <1>9 DEF Frame, InFlight, TurnStates, ToolCall, InAgent, callVars, configVars,
     agentVars, historyVars
<1>10. CASE ToolResult(m)
  BY <1>0, <1>10 DEF Frame, InFlight, TurnStates, ToolResult, InAgent, Calls, historyVars,
     configVars, Goes, agentVars, callVars
<1>11. CASE ToolSent(m)
  BY <1>0, <1>11 DEF Frame, InFlight, TurnStates, ToolSent, PlatformFails, Answered, agentVars,
     configVars, Goes, callVars, historyVars
<1>12. CASE EndUnstreamed(m)
  BY <1>0, <1>12 DEF Frame, InFlight, TurnStates, EndUnstreamed, StreamEnds, Goes, callVars,
     agentVars, configVars, historyVars
<1>13. CASE EndBuffered(m)
  BY <1>0, <1>13 DEF Frame, InFlight, TurnStates, EndBuffered, StreamEnds, Goes, Calls,
     agentVars, configVars, callVars, historyVars
<1>14. CASE EndEdited(m)
  BY <1>0, <1>14 DEF Frame, InFlight, TurnStates, EndEdited, StreamEnds, Goes, callVars, Calls,
     agentVars, configVars, historyVars
<1>15. CASE Flushed(m)
  BY <1>0, <1>15 DEF Frame, InFlight, TurnStates, Flushed, PlatformFails, Answered, agentVars,
     configVars, Goes, callVars, historyVars
<1>16. CASE Sent(m)
  BY <1>0, <1>16 DEF Frame, InFlight, TurnStates, Sent, Answered, AfterSend, agentVars,
     configVars, historyVars, Goes, callVars
<1>17. CASE Apologise(m)
  BY <1>0, <1>17 DEF Frame, InFlight, TurnStates, Apologise, Goes, PlatformFails, agentVars,
     callVars, configVars, historyVars
<1>18. CASE PrepareRaises(m)
  BY <1>0, <1>18 DEF Frame, InFlight, TurnStates, PrepareRaises, Goes, agentVars, callVars,
     configVars, channelVars, historyVars
<1>19. CASE Block(m)
  BY <1>0, <1>19 DEF Frame, InFlight, TurnStates, Block, callVars, configVars, channelVars,
     historyVars, agentVars
<1>20. CASE AgentRaises(m)
  BY <1>0, <1>20 DEF Frame, InFlight, TurnStates, AgentRaises, Goes, agentVars, callVars,
     configVars, historyVars
<1>21. CASE StreamCallFails(m)
  BY <1>0, <1>21 DEF Frame, InFlight, TurnStates, StreamCallFails, PlatformFails, Answered,
     agentVars, configVars, channelVars, Goes, callVars, historyVars
<1>22. CASE SendFails(m)
  BY <1>0, <1>22 DEF Frame, InFlight, TurnStates, SendFails, PlatformFails, Answered, AfterSend,
     agentVars, configVars, channelVars, Goes, callVars, historyVars
<1> QED
  BY <1>1, <1>2, <1>3, <1>4, <1>5, <1>6, <1>7, <1>8, <1>9, <1>10, <1>11, <1>12, <1>13, <1>14,
     <1>15, <1>16, <1>17, <1>18, <1>19, <1>20, <1>21, <1>22 DEF OwnStep, TurnStep

Calling == {"starting", "editing", "tool", "whole", "direct", "flushing", "showing"}

\* The queue holds each turn that is published, once.
Lined ==
    /\ \A i, j \in 1..Len(queue) : queue[i] = queue[j] => i = j
    /\ \A i \in 1..Len(queue) : turn[queue[i]] = "queued"
\* A turn has said nothing before the agent runs,
Unsaid == \A m \in Turns : turn[m] \in {"away", "queued", "preparing"} => said[m] = 0
\* calls nothing but while it awaits the call,
Idle == \A m \in Turns : turn[m] \notin Calling => outbox[m] = <<>> /\ target[m] = 0
\* and edits only where the channel streams.
LiveOnly == \A m \in Turns : turn[m] \in {"starting", "editing", "flushing"} => Live(m)

\* What a step is.
LEMMA Steps ==
    ASSUME [Next]_vars
    PROVE  \/ \E m \in Turns : OwnStep(m)
           \/ \E m \in Turns : Publish(m) /\ typing' \subseteq typing \cup {Chat[m]}
           \/ Handle
           \/ UNCHANGED vars
BY DEF Next, OwnStep, Arrive, SubagentReports, Quiescent

LEMMA HandleIs ==
    ASSUME Typed, Lined, Handle, NEW m, m = Head(queue)
    PROVE  /\ m \in Turns /\ turn[m] = "queued" /\ queue' = Tail(queue)
           /\ \/ /\ m \in Direct /\ turn' = [turn EXCEPT ![m] = "direct"]
                 /\ outbox' = [outbox EXCEPT ![m] = <<<<m, 1>>>>]
                 /\ said' = [said EXCEPT ![m] = 1]
                 /\ typing' = typing \ {Chat[m]}
              \/ /\ m \notin Direct /\ turn' = [turn EXCEPT ![m] = "preparing"]
                 /\ UNCHANGED <<said, outbox, typing>>
           /\ UNCHANGED <<streams, streamed, tool, target, configVars, buffer, stream, shown,
                          lost, untold, silent>>
BY DEF Handle, Calls, Goes, StopTyping, Typed, FlowTyped, Lined

LEMMA LinedStep == Typed /\ Lined /\ [Next]_vars => Lined'
<1> SUFFICES ASSUME Typed, Lined, [Next]_vars PROVE Lined'
  OBVIOUS
<1>0. queue \in Seq(Turns) /\ turn \in [Turns -> TurnStates]
  BY DEF Typed, FlowTyped
<1>1. ASSUME NEW m \in Turns, OwnStep(m) PROVE Lined'
  <2>1. queue' = queue /\ turn[m] # "queued" /\ \A n \in Turns \ {m} : turn'[n] = turn[n]
    BY <1>1, OwnFrame DEF Frame, InFlight
  <2> QED
    BY <1>0, <2>1 DEF Lined
<1>2. ASSUME NEW m \in Turns, Publish(m) PROVE Lined'
  <2>1. /\ turn[m] = "away" /\ turn' = [turn EXCEPT ![m] = "queued"]
        /\ queue' = Append(queue, m)
    BY <1>2 DEF Publish, Goes
  <2>2. \A i \in 1..Len(queue) : queue[i] # m
    BY <2>1 DEF Lined
  <2>3. /\ Len(queue') = Len(queue) + 1 /\ queue'[Len(queue) + 1] = m
        /\ \A i \in 1..Len(queue) : queue'[i] = queue[i]
    BY <1>0, <2>1
  <2> QED
    BY <1>0, <2>1, <2>2, <2>3 DEF Lined
<1>3. CASE Handle
  <2>1. /\ queue # <<>> /\ queue' = Tail(queue)
        /\ \A n \in Turns : n # Head(queue) => turn'[n] = turn[n]
    BY <1>0, <1>3 DEF Handle, Calls, Goes
  <2>2. /\ Len(queue') = Len(queue) - 1 /\ Head(queue) = queue[1]
        /\ \A i \in 1..Len(queue') : i + 1 \in 1..Len(queue) /\ queue'[i] = queue[i + 1]
    BY <1>0, <2>1
  <2>3. ASSUME NEW i \in 1..Len(queue') PROVE turn'[queue'[i]] = "queued"
    <3>1. queue[i + 1] # queue[1] /\ queue[i + 1] \in Turns
      BY <1>0, <2>2 DEF Lined
    <3> QED
      BY <2>1, <2>2, <3>1 DEF Lined
  <2>4. ASSUME NEW i \in 1..Len(queue'), NEW j \in 1..Len(queue'), queue'[i] = queue'[j]
        PROVE  i = j
    <3>1. i + 1 \in 1..Len(queue) /\ j + 1 \in 1..Len(queue) /\ queue[i + 1] = queue[j + 1]
      BY <2>2, <2>4
    <3> QED
      BY <3>1 DEF Lined
  <2> QED
    BY <2>3, <2>4 DEF Lined
<1>4. CASE UNCHANGED vars
  BY <1>4 DEF vars, Lined
<1> QED
  BY <1>1, <1>2, <1>3, <1>4, Steps

LEMMA UnsaidStep == Typed /\ Lined /\ Unsaid /\ [Next]_vars => Unsaid'
<1> SUFFICES ASSUME Typed, Lined, Unsaid, [Next]_vars PROVE Unsaid'
  OBVIOUS
<1>0. turn \in [Turns -> TurnStates] /\ said \in [Turns -> 0..MaxPieces]
  BY DEF Typed, FlowTyped, AgentTyped
<1>1. ASSUME NEW m \in Turns, OwnStep(m) PROVE Unsaid'
  BY <1>1, OwnFrame DEF Frame, InFlight, Unsaid
<1>2. ASSUME NEW m \in Turns, Publish(m) PROVE Unsaid'
  BY <1>0, <1>2 DEF Publish, Goes, Unsaid, agentVars
<1>3. CASE Handle
  BY <1>0, <1>3, HandleIs DEF Unsaid
<1>4. CASE UNCHANGED vars
  BY <1>4 DEF vars, agentVars, Unsaid
<1> QED
  BY <1>1, <1>2, <1>3, <1>4, Steps

\* A turn's step asks for a call, has its answer, or does neither.
LEMMA OwnMoves ==
    ASSUME Typed, NEW m \in Turns, OwnStep(m)
    PROVE  \/ /\ UNCHANGED <<outbox, target>>
              /\ turn[m] \notin Calling /\ turn'[m] \notin Calling
           \/ /\ turn[m] = "agent" /\ turn'[m] \in Calling
              /\ turn'[m] \in {"starting", "editing", "flushing"} => Live(m)
           \/ /\ turn[m] \in Calling /\ turn'[m] \notin Calling
              /\ outbox'[m] = <<>> /\ target'[m] = 0
<1>0. turn \in [Turns -> TurnStates] /\ outbox \in [Turns -> Seq(Pieces)] /\ target \in [Turns -> Nat]
  BY DEF Typed, FlowTyped, CallsTyped
<1>1. CASE Prepare(m)
  BY <1>0, <1>1 DEF Calling, Prepare, Goes, callVars, channelVars
<1>2. CASE BufferChunk(m)
  BY <1>0, <1>2 DEF Calling, BufferChunk, NewChunk, callVars, InModel, InAgent
<1>3. CASE StartMessage(m)
  BY <1>0, <1>3 DEF Calling, StartMessage, NewChunk, Calls, InModel, Goes, InAgent
<1>4. CASE AppendChunk(m)
  BY <1>0, <1>4 DEF Calling, AppendChunk, NewChunk, Calls, InModel, Goes, InAgent
<1>5. CASE Started(m)
  BY <1>0, <1>5 DEF Calling, Started, Answered, Goes
<1>6. CASE Edited(m)
  BY <1>0, <1>6 DEF Calling, Edited, Answered, Goes
<1>7. CASE ModelUpdate(m)
  BY <1>0, <1>7 DEF Calling, ModelUpdate, InModel, callVars, channelVars, InAgent
<1>8. CASE WholeUpdate(m)
  BY <1>0, <1>8 DEF Calling, WholeUpdate, InModel, Calls, InAgent, Goes
<1>9. CASE ToolCall(m)
  BY <1>0, <1>9 DEF Calling, ToolCall, InAgent, callVars
<1>10. CASE ToolResult(m)
  BY <1>0, <1>10 DEF Calling, ToolResult, InAgent, Calls, Goes
<1>11. CASE ToolSent(m)
  BY <1>0, <1>11 DEF Calling, ToolSent, Answered, Goes
<1>12. CASE EndUnstreamed(m)
  BY <1>0, <1>12 DEF Calling, EndUnstreamed, StreamEnds, Goes, callVars
<1>13. CASE EndBuffered(m)
  BY <1>0, <1>13 DEF Calling, EndBuffered, StreamEnds, Goes, Calls
<1>14. CASE EndEdited(m)
  BY <1>0, <1>14 DEF Calling, EndEdited, StreamEnds, Goes, callVars, Calls
<1>15. CASE Flushed(m)
  BY <1>0, <1>15 DEF Calling, Flushed, Answered, Goes
<1>16. CASE Sent(m)
  BY <1>0, <1>16 DEF Calling, Sent, Answered, AfterSend, Goes
<1>17. CASE Apologise(m)
  BY <1>0, <1>17 DEF Calling, Apologise, Goes, callVars
<1>18. CASE PrepareRaises(m)
  BY <1>0, <1>18 DEF Calling, PrepareRaises, Goes, callVars, channelVars
<1>19. CASE Block(m)
  BY <1>0, <1>19 DEF Calling, Block, callVars, channelVars
<1>20. CASE AgentRaises(m)
  BY <1>0, <1>20 DEF Calling, AgentRaises, Goes, callVars
<1>21. CASE StreamCallFails(m)
  BY <1>0, <1>21 DEF Calling, StreamCallFails, Answered, channelVars, Goes
<1>22. CASE SendFails(m)
  BY <1>0, <1>22 DEF Calling, SendFails, Answered, AfterSend, channelVars, Goes
<1> QED
  BY <1>1, <1>2, <1>3, <1>4, <1>5, <1>6, <1>7, <1>8, <1>9, <1>10, <1>11, <1>12, <1>13, <1>14,
     <1>15, <1>16, <1>17, <1>18, <1>19, <1>20, <1>21, <1>22 DEF OwnStep, TurnStep

LEMMA IdleStep == Typed /\ Lined /\ Idle /\ LiveOnly /\ [Next]_vars => (Idle /\ LiveOnly)'
<1> SUFFICES ASSUME Typed, Lined, Idle, LiveOnly, [Next]_vars PROVE (Idle /\ LiveOnly)'
  OBVIOUS
<1>0. /\ turn \in [Turns -> TurnStates] /\ outbox \in [Turns -> Seq(Pieces)]
      /\ target \in [Turns -> Nat]
  BY DEF Typed, FlowTyped, CallsTyped
<1>1. ASSUME NEW m \in Turns, OwnStep(m) PROVE (Idle /\ LiveOnly)'
  <2>1. UNCHANGED configVars
        /\ \A n \in Turns \ {m} :
              turn'[n] = turn[n] /\ outbox'[n] = outbox[n] /\ target'[n] = target[n]
    BY <1>1, OwnFrame DEF Frame
  <2>2. turn'[m] \notin Calling => outbox'[m] = <<>> /\ target'[m] = 0
    BY <1>0, <1>1, OwnMoves DEF Idle
  <2>3. turn'[m] \in {"starting", "editing", "flushing"} => Live(m)
    BY <1>1, OwnMoves DEF Calling
  <2> QED
    BY <2>1, <2>2, <2>3 DEF Idle, LiveOnly, Live, Quiet, configVars
<1>2. ASSUME NEW m \in Turns, Publish(m) PROVE (Idle /\ LiveOnly)'
  <2>1. /\ turn[m] = "away" /\ turn' = [turn EXCEPT ![m] = "queued"]
        /\ UNCHANGED <<outbox, target, streaming, cron>>
    BY <1>2 DEF Publish, Goes, callVars, configVars
  <2>2. ASSUME NEW n \in Turns, turn'[n] \notin Calling PROVE turn[n] \notin Calling
    BY <1>0, <2>1, <2>2 DEF Calling
  <2>3. Idle'
    BY <2>1, <2>2 DEF Idle
  <2>4. LiveOnly'
    BY <1>0, <2>1 DEF LiveOnly, Live, Quiet
  <2> QED
    BY <2>3, <2>4
<1>3. CASE Handle
  <2>1. PICK m \in Turns :
            /\ turn[m] = "queued" /\ target' = target /\ UNCHANGED <<streaming, cron>>
            /\ \/ turn' = [turn EXCEPT ![m] = "direct"] /\ outbox' = [outbox EXCEPT ![m] = <<<<m, 1>>>>]
               \/ turn' = [turn EXCEPT ![m] = "preparing"] /\ outbox' = outbox
    BY <1>3, HandleIs DEF configVars
  <2>2. turn'[m] \in {"direct", "preparing"} /\ \A n \in Turns \ {m} : turn'[n] = turn[n] /\ outbox'[n] = outbox[n]
    BY <1>0, <2>1
  <2>3. LiveOnly'
    BY <2>1, <2>2 DEF LiveOnly, Live, Quiet
  <2>4. turn'[m] = "direct" \/ outbox'[m] = outbox[m]
    BY <1>0, <2>1
  <2>5. Idle'
    BY <2>1, <2>2, <2>4 DEF Idle, Calling
  <2> QED
    BY <2>3, <2>5
<1>4. CASE UNCHANGED vars
  BY <1>4 DEF vars, callVars, configVars, Idle, LiveOnly, Live, Quiet
<1> QED
  BY <1>1, <1>2, <1>3, <1>4, Steps

-----------------------------------------------------------------------------
\* A turn that a typing indicator can be for: it has shown nothing yet, and what
\* it does when it ends, or fails, stops the indicator or leaves it silent.
Waits(m) ==
    \/ m \in silent
    \/ turn[m] \in {"queued", "preparing", "apologising"}
    \/ /\ turn[m] \in {"agent", "starting", "editing", "tool"}
       /\ m \in streamed \/ \A n \in 1..said[m] : <<m, n>> \in untold

TypingFor == \A k \in typing : \E m \in Turns : Chat[m] = k /\ Waits(m)

LEMMA OwnWaits ==
    ASSUME Typed, Unsaid, NEW m \in Turns, OwnStep(m)
    PROVE  typing' \subseteq typing /\ (Chat[m] \in typing' /\ Waits(m) => Waits(m)')
<1>0. /\ turn \in [Turns -> TurnStates] /\ said \in [Turns -> 0..MaxPieces] /\ MaxPieces \in Nat
      /\ outbox \in [Turns -> Seq(Pieces)] /\ target \in [Turns -> Nat]
      /\ turn[m] = "preparing" => said[m] = 0
  BY TurnAssumption DEF Typed, FlowTyped, AgentTyped, CallsTyped, Unsaid
<1>1. CASE Prepare(m)
  BY <1>0, <1>1 DEF Waits, Prepare, Goes, agentVars, callVars, channelVars, historyVars
<1>2. CASE BufferChunk(m)
  BY <1>0, <1>2 DEF Waits, BufferChunk, NewChunk, Piece, callVars, InModel, historyVars,
     InAgent, agentVars, channelVars
<1>3. CASE StartMessage(m)
  BY <1>0, <1>3 DEF Waits, StartMessage, NewChunk, Calls, Piece, InModel, historyVars, Goes,
     InAgent, agentVars, channelVars
<1>4. CASE AppendChunk(m)
  BY <1>0, <1>4 DEF Waits, AppendChunk, NewChunk, Piece, Calls, InModel, historyVars, Goes,
     InAgent, agentVars, channelVars
<1>5. CASE Started(m)
  BY <1>0, <1>5 DEF Waits, Started, Answered, agentVars, historyVars, Goes, channelVars
<1>6. CASE Edited(m)
  BY <1>0, <1>6 DEF Waits, Edited, Answered, agentVars, historyVars, Goes, channelVars
<1>7. CASE ModelUpdate(m)
  BY <1>0, <1>7 DEF Waits, ModelUpdate, InModel, callVars, channelVars, historyVars, InAgent,
     agentVars
<1>8. CASE WholeUpdate(m)
  BY <1>0, <1>8 DEF Waits, WholeUpdate, InModel, Calls, Piece, StopTyping, historyVars, InAgent,
     Goes, agentVars, channelVars
<1>9. CASE ToolCall(m)
  BY <1>0, <1>9 DEF Waits, ToolCall, InAgent, Piece, callVars, agentVars, historyVars,
     channelVars
<1>10. CASE ToolResult(m)
  BY <1>0, <1>10 DEF Waits, ToolResult, InAgent, Calls, historyVars, Goes, agentVars,
     channelVars
<1>11. CASE ToolSent(m)
  BY <1>0, <1>11 DEF Waits, ToolSent, PlatformFails, Answered, agentVars, Goes, historyVars,
     channelVars
<1>12. CASE EndUnstreamed(m)
  BY <1>0, <1>12 DEF Waits, EndUnstreamed, StreamEnds, Goes, callVars, agentVars, historyVars,
     channelVars
<1>13. CASE EndBuffered(m)
  BY <1>0, <1>13 DEF Waits, EndBuffered, StreamEnds, Goes, Calls, StopTyping, agentVars,
     historyVars, channelVars
<1>14. CASE EndEdited(m)
  BY <1>0, <1>14 DEF Waits, EndEdited, StreamEnds, StopTyping, Goes, callVars, Calls, agentVars,
     historyVars, channelVars
<1>15. CASE Flushed(m)
  BY <1>0, <1>15 DEF Waits, Flushed, PlatformFails, Answered, agentVars, Goes, historyVars,
     channelVars
<1>16. CASE Sent(m)
  BY <1>0, <1>16 DEF Waits, Sent, Answered, AfterSend, agentVars, historyVars, Goes, channelVars
<1>17. CASE Apologise(m)
  BY <1>0, <1>17 DEF Waits, Apologise, Goes, StopTyping, PlatformFails, agentVars, callVars,
     historyVars, channelVars
<1>18. CASE PrepareRaises(m)
  BY <1>0, <1>18 DEF Waits, PrepareRaises, Goes, agentVars, callVars, channelVars, historyVars
<1>19. CASE Block(m)
  BY <1>0, <1>19 DEF Waits, Block, callVars, channelVars, historyVars, agentVars
<1>20. CASE AgentRaises(m)
  BY <1>0, <1>20 DEF Waits, AgentRaises, Goes, agentVars, callVars, historyVars, channelVars
<1>21. CASE StreamCallFails(m)
  BY <1>0, <1>21 DEF Waits, StreamCallFails, PlatformFails, Answered, agentVars, channelVars,
     Goes, historyVars
<1>22. CASE SendFails(m)
  BY <1>0, <1>22 DEF Waits, SendFails, PlatformFails, Answered, AfterSend, agentVars,
     channelVars, Goes, historyVars
<1> QED
  BY <1>1, <1>2, <1>3, <1>4, <1>5, <1>6, <1>7, <1>8, <1>9, <1>10, <1>11, <1>12, <1>13, <1>14,
     <1>15, <1>16, <1>17, <1>18, <1>19, <1>20, <1>21, <1>22 DEF OwnStep, TurnStep

LEMMA TypingStep ==
    Typed /\ Lined /\ Unsaid /\ TypingFor /\ [Next]_vars => TypingFor'
<1> SUFFICES ASSUME Typed, Lined, Unsaid, TypingFor, [Next]_vars,
                    NEW k \in typing'
             PROVE  \E n \in Turns : Chat[n] = k /\ Waits(n)'
  BY DEF TypingFor
<1>0. turn \in [Turns -> TurnStates] /\ said \in [Turns -> 0..MaxPieces]
  BY DEF Typed, FlowTyped, AgentTyped
<1>1. ASSUME NEW m \in Turns, OwnStep(m)
      PROVE  \E n \in Turns : Chat[n] = k /\ Waits(n)'
  <2>1. Frame(m)
    BY <1>1, OwnFrame
  <2>2. typing' \subseteq typing /\ (Chat[m] \in typing' /\ Waits(m) => Waits(m)')
    BY <1>1, OwnWaits
  <2>3. PICK n \in Turns : Chat[n] = k /\ Waits(n)
    BY <2>2 DEF TypingFor
  <2>4. CASE n = m
    BY <2>2, <2>3, <2>4
  <2>5. CASE n # m
    <3>1. Waits(n)'
      BY <2>1, <2>3, <2>5 DEF Frame, Waits
    <3> QED
      BY <2>3, <3>1
  <2> QED
    BY <2>4, <2>5
<1>2. ASSUME NEW m \in Turns, Publish(m), typing' \subseteq typing \cup {Chat[m]}
      PROVE  \E n \in Turns : Chat[n] = k /\ Waits(n)'
  <2>1. /\ turn[m] = "away" /\ turn' = [turn EXCEPT ![m] = "queued"]
        /\ UNCHANGED <<said, streamed, silent, untold>>
    BY <1>2 DEF Publish, Goes, agentVars, historyVars
  <2>2. k \in typing \/ k = Chat[m]
    BY <1>2
  <2>3. CASE k = Chat[m]
    BY <1>0, <2>1, <2>3 DEF Waits
  <2>4. CASE k \in typing
    <3>1. PICK n \in Turns : Chat[n] = k /\ Waits(n)
      BY <2>4 DEF TypingFor
    <3>2. Waits(n)'
      BY <1>0, <2>1, <3>1 DEF Waits
    <3> QED
      BY <3>1, <3>2
  <2> QED
    BY <2>2, <2>3, <2>4
<1>3. CASE Handle
  <2>1. PICK m \in Turns :
            /\ turn[m] = "queued" /\ UNCHANGED <<streamed, silent, untold>>
            /\ \/ /\ turn' = [turn EXCEPT ![m] = "direct"] /\ typing' = typing \ {Chat[m]}
                  /\ said' = [said EXCEPT ![m] = 1]
               \/ turn' = [turn EXCEPT ![m] = "preparing"] /\ UNCHANGED <<said, typing>>
    BY <1>3, HandleIs
  <2>2. PICK n \in Turns : Chat[n] = k /\ Waits(n)
    BY <2>1 DEF TypingFor
  <2>3. CASE n = m
    BY <1>0, <2>1, <2>2, <2>3 DEF Waits
  <2>4. CASE n # m
    <3>1. Waits(n)'
      BY <1>0, <2>1, <2>2, <2>4 DEF Waits
    <3> QED
      BY <2>2, <3>1
  <2> QED
    BY <2>3, <2>4
<1>4. CASE UNCHANGED vars
  <2>1. PICK n \in Turns : Chat[n] = k /\ Waits(n)
    BY <1>4 DEF vars, channelVars, TypingFor
  <2> QED
    BY <1>4, <2>1 DEF vars, agentVars, historyVars, Waits
<1> QED
  BY <1>1, <1>2, <1>3, <1>4, Steps

\* The typing indicator of a chat goes on only for a turn that is not over, or
\* that ended without a word: whatever the turns of a chat do to each other, each
\* stops the indicator before it ends, or there was nothing to show.
THEOREM TypingIsForATurn == Spec => []TypingMeansWork
<1> DEFINE Inv == Typed /\ Lined /\ Unsaid /\ TypingFor
<1>1. Init => Inv
  BY InitTyped DEF Init, Lined, Unsaid, TypingFor
<1>2. Inv /\ [Next]_vars => Inv'
  BY TurnStepTyped, LinedStep, UnsaidStep, TypingStep
<1>3. Inv => TypingMeansWork
  BY DEF TypingFor, Waits, TypingMeansWork, InFlight, TurnStates
<1> QED
  BY <1>1, <1>2, <1>3, PTL DEF Spec

-----------------------------------------------------------------------------
\* A message that is edited is named while the call lasts.
Aims ==
    /\ \A m \in Turns : target[m] # 0 <=> turn[m] \in {"editing", "flushing"}
    /\ \A k \in Chats : stream[k] # NoStream => stream[k].message # 0

Settled == Typed /\ Lined /\ Unsaid /\ Idle /\ LiveOnly /\ Aims

-----------------------------------------------------------------------------
\* What a step does with the pieces.

\* p is new: the next piece of m's text, or the line of its tool.
Says(m, p) ==
    \/ /\ p = Piece(m) /\ said' = [said EXCEPT ![m] = @ + 1] /\ tool' = tool
    \/ /\ p = ToolLine(m) /\ tool[m] = "called" /\ ~Quiet(m)
       /\ said' = said /\ tool' = [tool EXCEPT ![m] = "done"]

SaysNothing == UNCHANGED <<said, tool>>

\* Nothing moves, or a piece that is untold is said, or a line that is not shown.
Keeps(m) ==
    /\ UNCHANGED <<buffer, outbox, target, stream, shown>>
    /\ \/ said' = said
       \/ said' = [said EXCEPT ![m] = @ + 1] /\ Piece(m) \in untold'
    /\ \/ tool' = tool
       \/ tool[m] = "none" /\ tool' = [tool EXCEPT ![m] = "called"]
       \/ tool[m] = "called" /\ tool' = [tool EXCEPT ![m] = "done"] /\ Quiet(m)

Buffers(m, p) ==
    /\ Says(m, p)
    /\ p[1] = m /\ turn[m] = "agent" /\ ~Live(m)
    /\ buffer' = [buffer EXCEPT ![Chat[m]] = Append(@, p)]
    /\ UNCHANGED <<outbox, target, stream, shown>>

Asks(m, p) ==
    /\ Says(m, p)
    /\ outbox[m] = <<>> /\ target[m] = 0
    /\ outbox' = [outbox EXCEPT ![m] = <<p>>]
    /\ UNCHANGED <<buffer, target, stream, shown>>

Streams(m, p) ==
    /\ Says(m, p)
    /\ p[1] = m /\ turn[m] = "agent"
    /\ Live(m)
    /\ stream[Chat[m]].message # 0
    /\ stream' = [stream EXCEPT ![Chat[m]].text = Append(@, p)]
    /\ outbox[m] = <<>> /\ target[m] = 0
    /\ \/ UNCHANGED <<outbox, target>>
       \/ /\ outbox' = [outbox EXCEPT ![m] = Append(stream[Chat[m]].text, p)]
          /\ target' = [target EXCEPT ![m] = stream[Chat[m]].message]
    /\ UNCHANGED <<buffer, shown>>

TakesBuffer(m) ==
    /\ SaysNothing
    /\ outbox[m] = <<>> /\ target[m] = 0
    /\ outbox' = [outbox EXCEPT ![m] = buffer[Chat[m]]]
    /\ buffer' = [buffer EXCEPT ![Chat[m]] = <<>>]
    /\ UNCHANGED <<target, stream, shown>>

TakesStream(m) ==
    /\ SaysNothing
    /\ Live(m)
    /\ stream[Chat[m]].message # 0
    /\ outbox[m] = <<>> /\ target[m] = 0
    /\ outbox' = [outbox EXCEPT ![m] = stream[Chat[m]].text]
    /\ target' = [target EXCEPT ![m] = stream[Chat[m]].message]
    /\ UNCHANGED <<buffer, stream, shown>>

CallOver(m) ==
    /\ SaysNothing
    /\ outbox' = [outbox EXCEPT ![m] = <<>>]
    /\ target' = [target EXCEPT ![m] = 0]
    /\ UNCHANGED buffer

Forgets(m) ==
    \/ UNCHANGED stream
    \/ turn[m] = "flushing" /\ stream' = [stream EXCEPT ![Chat[m]] = NoStream]

Posts(m) ==
    /\ CallOver(m)
    /\ target[m] = 0
    /\ Post(m)
    /\ \/ UNCHANGED stream
       \/ /\ turn[m] = "starting"
          /\ stream' = [stream EXCEPT ![Chat[m]] =
                            [message |-> Len(shown[Chat[m]]) + 1, text |-> outbox[m]]]

Edits(m) ==
    /\ CallOver(m)
    /\ Live(m)
    /\ target[m] # 0
    /\ Edit(m)
    /\ Forgets(m)

Drops(m) ==
    /\ CallOver(m)
    /\ Live(m) \/ lost' = lost \cup ToSet(outbox[m])
    /\ failures' = failures + 1
    /\ UNCHANGED shown
    /\ Forgets(m)

Move(m) ==
    \/ Keeps(m)
    \/ \E p \in Pieces : Buffers(m, p) \/ Asks(m, p) \/ Streams(m, p)
    \/ TakesBuffer(m)
    \/ TakesStream(m)
    \/ Posts(m)
    \/ Edits(m)
    \/ Drops(m)

LEMMA OwnMove ==
    ASSUME Settled, NEW m \in Turns, OwnStep(m)
    PROVE  Move(m)
<1>0. /\ turn \in [Turns -> TurnStates] /\ outbox \in [Turns -> Seq(Pieces)]
      /\ target \in [Turns -> Nat] /\ AgentTyped /\ ChannelTyped
      /\ Chat[m] \in Chats
      /\ turn[m] = "agent" => outbox[m] = <<>> /\ target[m] = 0
      /\ turn[m] \in {"starting", "tool", "whole", "direct", "showing"} => target[m] = 0
      /\ turn[m] \in {"editing", "flushing"} => target[m] # 0 /\ Live(m)
      /\ stream[Chat[m]] # NoStream => stream[Chat[m]].message # 0
  BY TurnAssumption DEF Settled, Typed, FlowTyped, CallsTyped, Idle, Calling, Aims, LiveOnly
<1>1. CASE \/ Prepare(m) \/ ModelUpdate(m) \/ EndUnstreamed(m) \/ Apologise(m)
         \/ PrepareRaises(m) \/ Block(m) \/ AgentRaises(m)
  <2>1. Keeps(m)
    BY <1>1 DEF Prepare, ModelUpdate, EndUnstreamed, StreamEnds, Apologise, PrepareRaises,
       Block,
       AgentRaises, Keeps, agentVars, callVars, channelVars
  <2> QED
    BY <2>1 DEF Move
<1>20. CASE BufferChunk(m)
  <2>1. Piece(m) \in Pieces
    BY <1>0, <1>20, NewChunkTypes DEF BufferChunk
  <2>2. Buffers(m, Piece(m))
    BY <1>20 DEF BufferChunk, NewChunk, InModel, InAgent, Buffers, Says, Piece, callVars
  <2> QED
    BY <2>1, <2>2 DEF Move
<1>21. CASE StartMessage(m)
  <2>1. Piece(m) \in Pieces
    BY <1>0, <1>21, NewChunkTypes DEF StartMessage
  <2>2. Asks(m, Piece(m))
    BY <1>0, <1>21 DEF StartMessage, NewChunk, InModel, InAgent, Calls, Asks, Says
  <2> QED
    BY <2>1, <2>2 DEF Move
<1>22. CASE AppendChunk(m)
  <2>1. Piece(m) \in Pieces
    BY <1>0, <1>22, NewChunkTypes DEF AppendChunk
  <2>2. /\ NewChunk(m) /\ Live(m) /\ stream[Chat[m]].message # 0
        /\ turn[m] = "agent"
    BY <1>0, <1>22 DEF AppendChunk, NewChunk, InModel, InAgent
  <2>3. /\ stream[Chat[m]] \in [message : Nat, text : Seq(Pieces)]
        /\ stream \in [Chats -> [message : Nat, text : Seq(Pieces)]]
    BY <1>0 DEF ChannelTyped
  <2> DEFINE s == [stream[Chat[m]] EXCEPT !.text = Append(@, Piece(m))]
  <2>4. /\ stream' = [stream EXCEPT ![Chat[m]] = s]
        /\ \/ Calls(m, "editing", s.text) /\ target' = [target EXCEPT ![m] = s.message]
           \/ UNCHANGED <<turn, outbox, target>>
        /\ UNCHANGED <<buffer, shown>>
    BY <1>22 DEF AppendChunk
  <2>5. s.text = Append(stream[Chat[m]].text, Piece(m)) /\ s.message = stream[Chat[m]].message
    BY <2>3
  <2>6. stream' = [stream EXCEPT ![Chat[m]].text = Append(@, Piece(m))]
    BY <2>4
  <2>7. Says(m, Piece(m)) /\ Piece(m)[1] = m
    BY <2>2 DEF NewChunk, Says, Piece
  <2> HIDE DEF s
  <2>8. Streams(m, Piece(m))
    BY <1>0, <2>2, <2>4, <2>5, <2>6, <2>7 DEF Streams, Calls
  <2> QED
    BY <2>1, <2>8 DEF Move
<1>23. CASE WholeUpdate(m)
  <2>1. Piece(m) \in Pieces
    BY <1>0, <1>23, PieceTypes DEF WholeUpdate
  <2>2. Asks(m, Piece(m))
    BY <1>0, <1>23 DEF WholeUpdate, InModel, InAgent, Calls, Asks, Says
  <2> QED
    BY <2>1, <2>2 DEF Move
<1>24. CASE ToolCall(m)
  <2>1. Keeps(m)
    BY <1>24 DEF ToolCall, Keeps, callVars
  <2> QED
    BY <2>1 DEF Move
<1>25. CASE ToolResult(m)
  <2>1. CASE Quiet(m)
    <3>1. Keeps(m)
      BY <1>25, <2>1 DEF ToolResult, Keeps, callVars
    <3> QED
      BY <3>1 DEF Move
  <2>2. CASE ~Quiet(m)
    <3>1. Asks(m, ToolLine(m))
      BY <1>0, <1>25, <2>2 DEF ToolResult, InAgent, Calls, Asks, Says
    <3>2. ToolLine(m) \in Pieces
      BY TurnAssumption DEF ToolLine, Pieces
    <3> QED
      BY <3>1, <3>2 DEF Move
  <2> QED
    BY <2>1, <2>2
<1>26. CASE EndBuffered(m)
  <2>1. CASE buffer[Chat[m]] = <<>>
    <3>1. outbox' = outbox /\ outbox[m] = <<>> /\ target[m] = 0
      BY <1>0, <1>26, <2>1 DEF EndBuffered, StreamEnds
    <3>2. outbox' = [outbox EXCEPT ![m] = buffer[Chat[m]]]
      BY <1>0, <2>1, <3>1
    <3>3. TakesBuffer(m)
      BY <1>26, <3>1, <3>2 DEF EndBuffered, StreamEnds, TakesBuffer, SaysNothing, agentVars
    <3> QED
      BY <3>3 DEF Move
  <2>2. CASE buffer[Chat[m]] # <<>>
    <3>1. TakesBuffer(m)
      BY <1>0, <1>26, <2>2 DEF EndBuffered, StreamEnds, TakesBuffer, SaysNothing, agentVars,
         Calls
    <3> QED
      BY <3>1 DEF Move
  <2> QED
    BY <2>1, <2>2
<1>27. CASE EndEdited(m)
  <2>1. CASE stream[Chat[m]] = NoStream
    <3>1. Keeps(m)
      BY <1>27, <2>1 DEF EndEdited, StreamEnds, Keeps, agentVars, callVars
    <3> QED
      BY <3>1 DEF Move
  <2>2. CASE stream[Chat[m]] # NoStream
    <3>1. TakesStream(m)
      BY <1>0, <1>27, <2>2 DEF EndEdited, StreamEnds, TakesStream, SaysNothing, agentVars, Calls
    <3> QED
      BY <3>1 DEF Move
  <2> QED
    BY <2>1, <2>2
<1>28. CASE Started(m)
  <2>1. Posts(m)
    BY <1>0, <1>28 DEF Started, Posts, Answered, CallOver, SaysNothing, agentVars
  <2> QED
    BY <2>1 DEF Move
<1>29. CASE Sent(m)
  <2>1. Posts(m)
    BY <1>0, <1>29 DEF Sent, Posts, Answered, CallOver, SaysNothing, agentVars
  <2> QED
    BY <2>1 DEF Move
<1>30. CASE ToolSent(m)
  <2>1. Posts(m) \/ Drops(m)
    BY <1>0, <1>30 DEF ToolSent, Posts, Drops, PlatformFails, Forgets, Answered, CallOver,
       SaysNothing, agentVars
  <2> QED
    BY <2>1 DEF Move
<1>31. CASE Edited(m)
  <2>1. Edits(m)
    BY <1>0, <1>31 DEF Edited, Edits, Forgets, Answered, CallOver, SaysNothing, agentVars
  <2> QED
    BY <2>1 DEF Move
<1>32. CASE Flushed(m)
  <2>1. Edits(m) \/ Drops(m)
    BY <1>0, <1>32 DEF Flushed, Edits, Drops, PlatformFails, Forgets, Answered, CallOver,
       SaysNothing, agentVars
  <2> QED
    BY <2>1 DEF Move
<1>33. CASE StreamCallFails(m)
  <2>1. Drops(m)
    BY <1>0, <1>33 DEF StreamCallFails, Drops, PlatformFails, Forgets, Answered, CallOver,
       SaysNothing, agentVars,
       channelVars
  <2> QED
    BY <2>1 DEF Move
<1>34. CASE SendFails(m)
  <2>1. Drops(m)
    BY <1>0, <1>34 DEF SendFails, Drops, PlatformFails, Forgets, Answered, CallOver,
       SaysNothing, agentVars,
       channelVars
  <2> QED
    BY <2>1 DEF Move
<1> QED
  BY <1>1, <1>20, <1>21, <1>22, <1>23, <1>24, <1>25, <1>26, <1>27, <1>28, <1>29, <1>30, <1>31,
     <1>32, <1>33, <1>34 DEF OwnStep, TurnStep

LEMMA OwnAims ==
    ASSUME Settled, NEW m \in Turns, OwnStep(m)
    PROVE  target'[m] # 0 <=> turn'[m] \in {"editing", "flushing"}
<1>0. /\ turn \in [Turns -> TurnStates] /\ target \in [Turns -> Nat]
      /\ turn[m] \notin {"editing", "flushing"} => target[m] = 0
      /\ stream[Chat[m]] # NoStream => stream[Chat[m]].message # 0
      /\ stream[Chat[m]] \in [message : Nat, text : Seq(Pieces)]
  BY TurnAssumption DEF Settled, Typed, FlowTyped, CallsTyped, ChannelTyped, Aims
<1>1. CASE AppendChunk(m)
  <2> DEFINE s == [stream[Chat[m]] EXCEPT !.text = Append(@, Piece(m))]
  <2>1. s.message = stream[Chat[m]].message /\ stream[Chat[m]].message # 0
    BY <1>0, <1>1 DEF AppendChunk
  <2>2. \/ Calls(m, "editing", s.text) /\ target' = [target EXCEPT ![m] = s.message]
        \/ turn[m] = "agent" /\ UNCHANGED <<turn, outbox, target>>
    BY <1>1 DEF AppendChunk, NewChunk, InModel, InAgent
  <2> HIDE DEF s
  <2> QED
    BY <1>0, <2>1, <2>2 DEF Calls, Goes
<1>2. CASE Prepare(m)
  BY <1>0, <1>2 DEF Prepare, Goes, callVars
<1>3. CASE BufferChunk(m)
  BY <1>0, <1>3 DEF BufferChunk, NewChunk, callVars, InModel, InAgent
<1>4. CASE StartMessage(m)
  BY <1>0, <1>4 DEF StartMessage, NewChunk, Calls, InModel, Goes, InAgent
<1>5. CASE Started(m)
  BY <1>0, <1>5 DEF Started, Answered, Goes
<1>6. CASE Edited(m)
  BY <1>0, <1>6 DEF Edited, Answered, Goes
<1>7. CASE ModelUpdate(m)
  BY <1>0, <1>7 DEF ModelUpdate, InModel, callVars, InAgent
<1>8. CASE WholeUpdate(m)
  BY <1>0, <1>8 DEF WholeUpdate, InModel, Calls, InAgent, Goes
<1>9. CASE ToolCall(m)
  BY <1>0, <1>9 DEF ToolCall, InAgent, callVars
<1>10. CASE ToolResult(m)
  BY <1>0, <1>10 DEF ToolResult, InAgent, Calls, Goes
<1>11. CASE ToolSent(m)
  BY <1>0, <1>11 DEF ToolSent, Answered, Goes
<1>12. CASE EndUnstreamed(m)
  BY <1>0, <1>12 DEF EndUnstreamed, StreamEnds, Goes, callVars
<1>13. CASE EndBuffered(m)
  BY <1>0, <1>13 DEF EndBuffered, StreamEnds, Goes, Calls
<1>14. CASE EndEdited(m)
  BY <1>0, <1>14 DEF EndEdited, StreamEnds, Goes, callVars, Calls
<1>15. CASE Flushed(m)
  BY <1>0, <1>15 DEF Flushed, Answered, Goes
<1>16. CASE Sent(m)
  BY <1>0, <1>16 DEF Sent, Answered, AfterSend, Goes
<1>17. CASE Apologise(m)
  BY <1>0, <1>17 DEF Apologise, Goes, callVars
<1>18. CASE PrepareRaises(m)
  BY <1>0, <1>18 DEF PrepareRaises, Goes, callVars
<1>19. CASE Block(m)
  BY <1>0, <1>19 DEF Block, callVars
<1>20. CASE AgentRaises(m)
  BY <1>0, <1>20 DEF AgentRaises, Goes, callVars
<1>21. CASE StreamCallFails(m)
  BY <1>0, <1>21 DEF StreamCallFails, Answered, Goes
<1>22. CASE SendFails(m)
  BY <1>0, <1>22 DEF SendFails, Answered, AfterSend, Goes
<1> QED
  BY <1>1, <1>2, <1>3, <1>4, <1>5, <1>6, <1>7, <1>8, <1>9, <1>10, <1>11, <1>12, <1>13, <1>14,
     <1>15, <1>16, <1>17, <1>18, <1>19, <1>20, <1>21, <1>22 DEF OwnStep, TurnStep

LEMMA MoveAims ==
    ASSUME Settled, NEW m \in Turns, Move(m), NEW k \in Chats, stream'[k] # NoStream
    PROVE  stream'[k].message # 0
<1>0. /\ ChannelTyped /\ Chat[m] \in Chats
      /\ \A c \in Chats : stream[c] # NoStream => stream[c].message # 0
  BY TurnAssumption DEF Settled, Typed, Aims
<1>1. CASE UNCHANGED stream
  BY <1>0, <1>1
<1>2. ASSUME NEW p \in Pieces, Streams(m, p) PROVE stream'[k].message # 0
  BY <1>0, <1>2 DEF Streams, ChannelTyped
<1>3. CASE stream' = [stream EXCEPT ![Chat[m]] = NoStream]
  BY <1>0, <1>3 DEF ChannelTyped
<1>4. CASE stream' = [stream EXCEPT ![Chat[m]] =
                        [message |-> Len(shown[Chat[m]]) + 1, text |-> outbox[m]]]
  BY <1>0, <1>4 DEF ChannelTyped
<1> QED
  BY <1>1, <1>2, <1>3, <1>4 DEF Move, Keeps, Buffers, Asks, TakesBuffer, TakesStream, Posts,
     Edits,
     Drops, Forgets

LEMMA SettledStep == Settled /\ [Next]_vars => Settled'
<1> SUFFICES ASSUME Settled, [Next]_vars PROVE Settled'
  OBVIOUS
<1>0. Typed /\ Lined /\ Unsaid /\ Idle /\ LiveOnly /\ Aims
  BY DEF Settled
<1>1. (Typed /\ Lined /\ Unsaid /\ Idle /\ LiveOnly)'
  BY <1>0, TurnStepTyped, LinedStep, UnsaidStep, IdleStep
<1>2. turn \in [Turns -> TurnStates] /\ target \in [Turns -> Nat]
  BY <1>0 DEF Typed, FlowTyped, CallsTyped
<1>3. ASSUME NEW m \in Turns, OwnStep(m) PROVE Aims'
  <2>1. \A n \in Turns \ {m} : turn'[n] = turn[n] /\ target'[n] = target[n]
    BY <1>0, <1>3, OwnFrame DEF Frame
  <2>2. target'[m] # 0 <=> turn'[m] \in {"editing", "flushing"}
    BY <1>3, OwnAims
  <2>3. \A k \in Chats : stream'[k] # NoStream => stream'[k].message # 0
    BY <1>3, OwnMove, MoveAims
  <2> QED
    BY <1>0, <2>1, <2>2, <2>3 DEF Aims
<1>4. ASSUME NEW m \in Turns, Publish(m) PROVE Aims'
  BY <1>0, <1>2, <1>4 DEF Publish, Goes, callVars, Aims
<1>5. ASSUME Handle PROVE Aims'
  <2>1. PICK m \in Turns :
            /\ turn[m] = "queued" /\ UNCHANGED <<target, stream>>
            /\ \/ turn' = [turn EXCEPT ![m] = "direct"]
               \/ turn' = [turn EXCEPT ![m] = "preparing"]
    BY <1>0, <1>5, HandleIs
  <2> QED
    BY <1>0, <1>2, <2>1 DEF Aims
<1>6. ASSUME UNCHANGED vars PROVE Aims'
  BY <1>0, <1>6 DEF vars, callVars, channelVars, Aims
<1>7. Aims'
  BY <1>3, <1>4, <1>5, <1>6, Steps
<1> QED
  BY <1>1, <1>7 DEF Settled

LEMMA InitSettled == Init => Settled
<1> SUFFICES ASSUME Init PROVE Settled
  OBVIOUS
<1>1. Lined /\ Unsaid /\ Idle /\ LiveOnly /\ Aims
  BY DEF Init, Lined, Unsaid, Idle, LiveOnly, Aims
<1> QED
  BY <1>1, InitTyped DEF Settled

-----------------------------------------------------------------------------
Fixed == UNCHANGED <<said, tool, buffer, outbox, target, stream, shown>>
Grown ==
    /\ UNCHANGED configVars
    /\ untold \subseteq untold' /\ lost \subseteq lost'
    /\ overlapped \subseteq overlapped' /\ failed \subseteq failed'

LEMMA EveryMove ==
    ASSUME Settled, [Next]_vars
    PROVE  Grown /\ (Fixed \/ \E m \in Turns : Move(m))
<1>0. Typed /\ Lined /\ Unsaid /\ Idle /\ Aims
  BY DEF Settled
<1>1. ASSUME NEW m \in Turns, OwnStep(m) PROVE Grown /\ Move(m)
  BY <1>0, <1>1, OwnMove, OwnFrame DEF Frame, Grown
<1>2. ASSUME NEW m \in Turns, Publish(m) PROVE Grown /\ Fixed
  BY <1>2 DEF Publish, Grown, Fixed, agentVars, callVars, historyVars
<1>3. ASSUME Handle PROVE Grown /\ (Fixed \/ \E m \in Turns : Move(m))
  <2>1. PICK m \in Turns :
            /\ turn[m] = "queued"
            /\ \/ /\ outbox' = [outbox EXCEPT ![m] = <<<<m, 1>>>>]
                  /\ said' = [said EXCEPT ![m] = 1]
               \/ UNCHANGED <<said, outbox>>
            /\ UNCHANGED <<tool, target, configVars, buffer, stream, shown, lost, untold>>
    BY <1>0, <1>3, HandleIs
  <2>g. overlapped \subseteq overlapped' /\ failed \subseteq failed'
    BY <1>3 DEF Handle
  <2>2. said[m] = 0 /\ outbox[m] = <<>> /\ target[m] = 0 /\ said \in [Turns -> 0..MaxPieces]
    BY <1>0, <2>1 DEF Unsaid, Idle, Calling, Typed, AgentTyped
  <2>3. CASE UNCHANGED <<said, outbox>>
    BY <2>1, <2>g, <2>3 DEF Grown, Fixed
  <2>4. CASE /\ outbox' = [outbox EXCEPT ![m] = <<<<m, 1>>>>]
             /\ said' = [said EXCEPT ![m] = 1]
    <3>1. Piece(m) = <<m, 1>> /\ <<m, 1>> \in Pieces
      BY <2>2, TurnAssumption DEF Piece, Pieces
    <3>2. said' = [said EXCEPT ![m] = @ + 1]
      BY <2>2, <2>4
    <3>3. Asks(m, <<m, 1>>)
      BY <2>1, <2>2, <2>4, <3>1, <3>2 DEF Asks, Says
    <3> QED
      BY <2>1, <2>g, <3>1, <3>3 DEF Grown, Move
  <2> QED
    BY <2>1, <2>3, <2>4
<1>4. ASSUME UNCHANGED vars PROVE Grown /\ Fixed
  BY <1>4 DEF vars, agentVars, callVars, channelVars, historyVars, Grown, Fixed
<1> QED
  BY <1>1, <1>2, <1>3, <1>4, Steps

-----------------------------------------------------------------------------
\* What texts hold.

LEMMA AppendSet ==
    ASSUME NEW S, NEW s \in Seq(S), NEW x
    PROVE  ToSet(Append(s, x)) = ToSet(s) \cup {x}
<1>1. /\ DOMAIN Append(s, x) = 1..(Len(s) + 1) /\ DOMAIN s = 1..Len(s) /\ Len(s) \in Nat
      /\ Append(s, x)[Len(s) + 1] = x /\ \A i \in 1..Len(s) : Append(s, x)[i] = s[i]
  OBVIOUS
<1>2. 1..(Len(s) + 1) = (1..Len(s)) \cup {Len(s) + 1}
  BY <1>1
<1> QED
  BY <1>1, <1>2 DEF ToSet

LEMMA SmallSets == ToSet(<<>>) = {} /\ \A x : ToSet(<<x>>) = {x}
BY DEF ToSet

LEMMA PostShows ==
    ASSUME Typed, NEW m \in Turns, Post(m)
    PROVE  /\ \A k \in Chats \ {Chat[m]} : shown'[k] = shown[k]
           /\ Len(shown[Chat[m]]) + 1 \notin DOMAIN shown[Chat[m]]
           /\ DOMAIN shown'[Chat[m]] = DOMAIN shown[Chat[m]] \cup {Len(shown[Chat[m]]) + 1}
           /\ shown'[Chat[m]][Len(shown[Chat[m]]) + 1] = outbox[m]
           /\ \A i \in DOMAIN shown[Chat[m]] : shown'[Chat[m]][i] = shown[Chat[m]][i]
<1>1. /\ Chat[m] \in Chats /\ shown \in [Chats -> Seq(Seq(Pieces))] /\ outbox[m] \in Seq(Pieces)
  BY TurnAssumption DEF Typed, ChannelTyped, CallsTyped
<1> DEFINE s == shown[Chat[m]]
<1>2. shown' = [shown EXCEPT ![Chat[m]] = Append(s, outbox[m])]
  BY DEF Post
<1>3. s \in Seq(Seq(Pieces))
  BY <1>1
<1>4. shown'[Chat[m]] = Append(s, outbox[m]) /\ \A k \in Chats \ {Chat[m]} : shown'[k] = shown[k]
  BY <1>1, <1>2
<1> HIDE DEF s
<1>5. /\ DOMAIN s = 1..Len(s) /\ Len(s) \in Nat /\ DOMAIN Append(s, outbox[m]) = 1..(Len(s) + 1)
      /\ Append(s, outbox[m])[Len(s) + 1] = outbox[m]
      /\ \A i \in 1..Len(s) : Append(s, outbox[m])[i] = s[i]
  BY <1>1, <1>3
<1>6. 1..(Len(s) + 1) = (1..Len(s)) \cup {Len(s) + 1} /\ Len(s) + 1 \notin 1..Len(s)
  BY <1>5
<1> QED
  BY <1>4, <1>5, <1>6 DEF s

LEMMA EditShows ==
    ASSUME Typed, NEW m \in Turns, Edit(m), target[m] # 0
    PROVE  /\ \A k \in Chats \ {Chat[m]} : shown'[k] = shown[k]
           /\ target[m] \in DOMAIN shown[Chat[m]]
           /\ DOMAIN shown'[Chat[m]] = DOMAIN shown[Chat[m]]
           /\ shown'[Chat[m]][target[m]] = outbox[m]
           /\ \A i \in DOMAIN shown[Chat[m]] \ {target[m]} :
                shown'[Chat[m]][i] = shown[Chat[m]][i]
<1>1. /\ Chat[m] \in Chats /\ shown \in [Chats -> Seq(Seq(Pieces))]
      /\ target[m] \in Nat /\ target[m] <= Len(shown[Chat[m]])
  BY TurnAssumption DEF Typed, ChannelTyped, CallsTyped, Aimed
<1>2. shown' = [shown EXCEPT ![Chat[m]] = [shown[Chat[m]] EXCEPT ![target[m]] = outbox[m]]]
  BY DEF Edit
<1>3. shown[Chat[m]] \in Seq(Seq(Pieces)) /\ target[m] \in DOMAIN shown[Chat[m]]
  BY <1>1
<1> QED
  BY <1>1, <1>2, <1>3

-----------------------------------------------------------------------------
\* A piece is found in its own chat, and it has been said.

Proper(p, k) ==
    /\ p \in Pieces /\ Chat[p[1]] = k
    /\ p[2] <= said[p[1]]
    /\ p[2] = 0 => tool[p[1]] = "done"

BufferProper == \A k \in Chats : \A p \in ToSet(buffer[k]) : Proper(p, k)
StreamProper == \A k \in Chats : \A p \in ToSet(stream[k].text) : Proper(p, k)
CallsProper == \A t \in Turns : \A p \in ToSet(outbox[t]) : Proper(p, Chat[t])
ShownProper ==
    \A k \in Chats : \A i \in DOMAIN shown[k] : \A p \in ToSet(shown[k][i]) : Proper(p, k)

Belongs == BufferProper /\ StreamProper /\ CallsProper /\ ShownProper

LEMMA ProperStays ==
    ASSUME Settled, NEW m \in Turns, Move(m) \/ Fixed, NEW p, NEW k, Proper(p, k)
    PROVE  Proper(p, k)'
<1>0. /\ said \in [Turns -> 0..MaxPieces] /\ MaxPieces \in Nat
      /\ tool \in [Turns -> {"none", "called", "done"}] /\ p \in Turns \X (0..MaxPieces)
  BY TurnAssumption DEF Settled, Typed, AgentTyped, Proper, Pieces
<1>1. /\ \/ said' = said
         \/ said' = [said EXCEPT ![m] = @ + 1]
      /\ \/ tool' = tool
         \/ tool[m] = "none" /\ tool' = [tool EXCEPT ![m] = "called"]
         \/ tool[m] = "called" /\ tool' = [tool EXCEPT ![m] = "done"]
  BY DEF Move, Keeps, Buffers, Asks, Streams, Says, TakesBuffer, TakesStream, Posts, Edits,
     Drops,
     CallOver, SaysNothing, Fixed
<1>2. said[p[1]] <= said'[p[1]] /\ said'[p[1]] \in Nat
  BY <1>0, <1>1
<1>3. tool[p[1]] = "done" => tool'[p[1]] = "done"
  BY <1>0, <1>1
<1> QED
  BY <1>0, <1>2, <1>3 DEF Proper

LEMMA NewIsProper ==
    ASSUME Settled, NEW m \in Turns, NEW p \in Pieces, Says(m, p)
    PROVE  Proper(p, Chat[m])' /\ \A k : ~Proper(p, k)
<1>0. /\ said \in [Turns -> 0..MaxPieces] /\ MaxPieces \in Nat
      /\ tool \in [Turns -> {"none", "called", "done"}]
  BY TurnAssumption DEF Settled, Typed, AgentTyped
<1>1. CASE p = Piece(m) /\ said' = [said EXCEPT ![m] = @ + 1] /\ tool' = tool
  BY <1>0, <1>1 DEF Piece, Proper
<1>2. CASE /\ p = ToolLine(m) /\ tool[m] = "called"
           /\ said' = said /\ tool' = [tool EXCEPT ![m] = "done"]
  BY <1>0, <1>2 DEF ToolLine, Proper
<1> QED
  BY <1>1, <1>2 DEF Says

LEMMA BelongsMove ==
    ASSUME Settled, Belongs, NEW m \in Turns, Move(m)
    PROVE  Belongs'
<1>0. /\ Chat[m] \in Chats
      /\ buffer \in [Chats -> Seq(Pieces)] /\ outbox \in [Turns -> Seq(Pieces)]
      /\ stream \in [Chats -> [message : Nat, text : Seq(Pieces)]]
      /\ target \in [Turns -> Nat] /\ Typed
  BY TurnAssumption DEF Settled, Typed, ChannelTyped, CallsTyped
<1>a. \A p, c : Proper(p, c) => Proper(p, c)'
  BY ProperStays
<1>b. BufferProper /\ StreamProper /\ CallsProper /\ ShownProper
  BY DEF Belongs
<1>c. /\ UNCHANGED buffer => BufferProper'
      /\ UNCHANGED stream => StreamProper'
      /\ UNCHANGED outbox => CallsProper'
      /\ UNCHANGED shown => ShownProper'
  BY <1>a, <1>b DEF BufferProper, StreamProper, CallsProper, ShownProper
<1>d. outbox' = [outbox EXCEPT ![m] = <<>>] => CallsProper'
  BY <1>0, <1>a, <1>b, SmallSets DEF CallsProper
<1>e. ASSUME Forgets(m) PROVE StreamProper'
  <2>1. CASE UNCHANGED stream
    BY <1>c, <2>1
  <2>2. CASE stream' = [stream EXCEPT ![Chat[m]] = NoStream]
    <3>1. /\ stream'[Chat[m]].text = <<>>
          /\ \A k \in Chats \ {Chat[m]} : stream'[k] = stream[k]
      BY <1>0, <2>2 DEF NoStream
    <3> QED
      BY <1>a, <1>b, <3>1, SmallSets DEF StreamProper
  <2> QED
    BY <1>e, <2>1, <2>2 DEF Forgets
<1>1. CASE Keeps(m)
  BY <1>1, <1>c DEF Keeps, Belongs
<1>2. ASSUME NEW p \in Pieces, Buffers(m, p) PROVE Belongs'
  <2>1. Proper(p, Chat[m])'
    BY <1>2, NewIsProper DEF Buffers
  <2>2. /\ ToSet(buffer'[Chat[m]]) = ToSet(buffer[Chat[m]]) \cup {p}
        /\ \A k \in Chats \ {Chat[m]} : buffer'[k] = buffer[k]
    BY <1>0, <1>2, AppendSet DEF Buffers
  <2>3. BufferProper'
    BY <1>a, <1>b, <2>1, <2>2 DEF BufferProper
  <2> QED
    BY <1>2, <1>c, <2>3 DEF Buffers, Belongs
<1>3. ASSUME NEW p \in Pieces, Asks(m, p) PROVE Belongs'
  <2>1. Proper(p, Chat[m])'
    BY <1>3, NewIsProper DEF Asks
  <2>2. ToSet(outbox'[m]) = {p} /\ \A t \in Turns \ {m} : outbox'[t] = outbox[t]
    BY <1>0, <1>3, SmallSets DEF Asks
  <2>3. CallsProper'
    BY <1>a, <1>b, <2>1, <2>2 DEF CallsProper
  <2> QED
    BY <1>3, <1>c, <2>3 DEF Asks, Belongs
<1>4. ASSUME NEW p \in Pieces, Streams(m, p) PROVE Belongs'
  <2>1. Proper(p, Chat[m])'
    BY <1>4, NewIsProper DEF Streams
  <2>2. ToSet(Append(stream[Chat[m]].text, p)) = ToSet(stream[Chat[m]].text) \cup {p}
    BY <1>0, AppendSet
  <2>3. /\ stream'[Chat[m]].text = Append(stream[Chat[m]].text, p)
        /\ \A k \in Chats \ {Chat[m]} : stream'[k] = stream[k]
        /\ outbox'[m] = Append(stream[Chat[m]].text, p) \/ outbox'[m] = outbox[m]
        /\ \A t \in Turns \ {m} : outbox'[t] = outbox[t]
    BY <1>0, <1>4 DEF Streams
  <2>4. StreamProper'
    BY <1>0, <1>a, <1>b, <2>1, <2>2, <2>3 DEF StreamProper
  <2>5. CallsProper'
    BY <1>0, <1>a, <1>b, <2>1, <2>2, <2>3 DEF StreamProper, CallsProper
  <2> QED
    BY <1>4, <1>c, <2>4, <2>5 DEF Streams, Belongs
<1>5. CASE TakesBuffer(m)
  <2>1. /\ buffer'[Chat[m]] = <<>> /\ \A k \in Chats \ {Chat[m]} : buffer'[k] = buffer[k]
        /\ outbox'[m] = buffer[Chat[m]] /\ \A t \in Turns \ {m} : outbox'[t] = outbox[t]
    BY <1>0, <1>5 DEF TakesBuffer
  <2>2. BufferProper'
    BY <1>a, <1>b, <2>1, SmallSets DEF BufferProper
  <2>3. CallsProper'
    BY <1>0, <1>a, <1>b, <2>1 DEF BufferProper, CallsProper
  <2> QED
    BY <1>5, <1>c, <2>2, <2>3 DEF TakesBuffer, Belongs
<1>6. CASE TakesStream(m)
  <2>1. outbox'[m] = stream[Chat[m]].text /\ \A t \in Turns \ {m} : outbox'[t] = outbox[t]
    BY <1>0, <1>6 DEF TakesStream
  <2>2. CallsProper'
    BY <1>0, <1>a, <1>b, <2>1 DEF StreamProper, CallsProper
  <2> QED
    BY <1>6, <1>c, <2>2 DEF TakesStream, Belongs
<1>7. CASE Posts(m)
  <2>1. \A p \in ToSet(outbox[m]) : Proper(p, Chat[m])'
    BY <1>a, <1>b DEF CallsProper
  <2>2. ShownProper'
    <3> SUFFICES ASSUME NEW k \in Chats, NEW i \in DOMAIN shown'[k], NEW p \in ToSet(shown'[k][i])
                 PROVE  Proper(p, k)'
      BY DEF ShownProper
    <3>1. Post(m)
      BY <1>7 DEF Posts
    <3>2. CASE k = Chat[m] /\ i = Len(shown[Chat[m]]) + 1
      <4>1. shown'[k][i] = outbox[m]
        BY <1>0, <3>1, <3>2, PostShows
      <4> QED
        BY <2>1, <3>2, <4>1
    <3>3. CASE ~(k = Chat[m] /\ i = Len(shown[Chat[m]]) + 1)
      <4>1. i \in DOMAIN shown[k] /\ shown'[k][i] = shown[k][i]
        <5>1. CASE k # Chat[m]
          <6>1. shown'[k] = shown[k]
            BY <1>0, <3>1, <5>1, PostShows
          <6> QED
            BY <6>1
        <5>2. CASE k = Chat[m]
          <6>1. /\ DOMAIN shown'[Chat[m]]
                    = DOMAIN shown[Chat[m]] \cup {Len(shown[Chat[m]]) + 1}
                /\ \A j \in DOMAIN shown[Chat[m]] : shown'[Chat[m]][j] = shown[Chat[m]][j]
            BY <1>0, <3>1, PostShows
          <6> QED
            BY <3>3, <5>2, <6>1
        <5> QED
          BY <5>1, <5>2
      <4> QED
        BY <1>a, <1>b, <4>1 DEF ShownProper
    <3> QED
      BY <3>2, <3>3
  <2>3. StreamProper'
    <3>1. CASE UNCHANGED stream
      BY <1>c, <3>1
    <3>2. CASE stream' = [stream EXCEPT ![Chat[m]] =
                            [message |-> Len(shown[Chat[m]]) + 1, text |-> outbox[m]]]
      <4>1. stream'[Chat[m]].text = outbox[m] /\ \A k \in Chats \ {Chat[m]} : stream'[k] = stream[k]
        BY <1>0, <3>2
      <4> QED
        BY <1>a, <1>b, <2>1, <4>1 DEF StreamProper
    <3> QED
      BY <1>7, <3>1, <3>2 DEF Posts
  <2> QED
    BY <1>7, <1>c, <1>d, <2>2, <2>3 DEF Posts, CallOver, Belongs
<1>8. CASE Edits(m)
  <2>1. \A p \in ToSet(outbox[m]) : Proper(p, Chat[m])'
    BY <1>a, <1>b DEF CallsProper
  <2>2. ShownProper'
    <3> SUFFICES ASSUME NEW k \in Chats, NEW i \in DOMAIN shown'[k], NEW p \in ToSet(shown'[k][i])
                 PROVE  Proper(p, k)'
      BY DEF ShownProper
    <3>1. Edit(m) /\ target[m] # 0
      BY <1>8 DEF Edits
    <3>2. CASE k = Chat[m] /\ i = target[m]
      <4>1. shown'[k][i] = outbox[m]
        BY <1>0, <3>1, <3>2, EditShows
      <4> QED
        BY <2>1, <3>2, <4>1
    <3>3. CASE ~(k = Chat[m] /\ i = target[m])
      <4>1. i \in DOMAIN shown[k] /\ shown'[k][i] = shown[k][i]
        <5>1. CASE k # Chat[m]
          <6>1. shown'[k] = shown[k]
            BY <1>0, <3>1, <5>1, EditShows
          <6> QED
            BY <6>1
        <5>2. CASE k = Chat[m]
          BY <1>0, <3>1, <3>3, <5>2, EditShows
        <5> QED
          BY <5>1, <5>2
      <4> QED
        BY <1>a, <1>b, <4>1 DEF ShownProper
    <3> QED
      BY <3>2, <3>3
  <2> QED
    BY <1>8, <1>c, <1>d, <1>e, <2>2 DEF Edits, CallOver, Belongs
<1>9. CASE Drops(m)
  BY <1>9, <1>c, <1>d, <1>e DEF Drops, CallOver, Belongs
<1> QED
  BY <1>1, <1>2, <1>3, <1>4, <1>5, <1>6, <1>7, <1>8, <1>9 DEF Move

LEMMA BelongsStep == Settled /\ Belongs /\ [Next]_vars => Belongs'
<1> SUFFICES ASSUME Settled, Belongs, [Next]_vars PROVE Belongs'
  OBVIOUS
<1>1. CASE Fixed
  BY <1>1 DEF Fixed, Belongs, BufferProper, StreamProper, CallsProper, ShownProper, Proper
<1>2. ASSUME NEW m \in Turns, Move(m) PROVE Belongs'
  BY <1>2, BelongsMove
<1> QED
  BY <1>1, <1>2, EveryMove

LEMMA InitBelongs == Init => Belongs
<1> SUFFICES ASSUME Init PROVE Belongs
  OBVIOUS
<1>1. /\ \A k \in Chats : buffer[k] = <<>> /\ stream[k].text = <<>> /\ DOMAIN shown[k] = {}
      /\ \A t \in Turns : outbox[t] = <<>>
  BY DEF Init, NoStream
<1> QED
  BY <1>1, SmallSets DEF Belongs, BufferProper, StreamProper, CallsProper, ShownProper

-----------------------------------------------------------------------------
\* Where a piece that has been said is found.
Kept(p) ==
    \/ InChat(p, Chat[p[1]])
    \/ p \in ToSet(buffer[Chat[p[1]]])
    \/ \E t \in Turns : p \in ToSet(outbox[t])
    \/ p \in lost

Accounted == \A m \in Turns : ~Live(m) => \A p \in Uttered(m) \ untold : Kept(p)

LEMMA LiveByChat ==
    ASSUME NEW m \in Turns, NEW n \in Turns, Chat[m] = Chat[n]
    PROVE  Live(m) <=> Live(n)
BY DEF Live, Quiet

LEMMA ChatKeeps ==
    ASSUME Settled, NEW m \in Turns, Move(m), NEW p, p[1] \in Turns, ~Live(p[1]),
           InChat(p, Chat[p[1]])
    PROVE  InChat(p, Chat[p[1]])'
<1>0. Typed /\ Chat[p[1]] \in Chats
  BY TurnAssumption DEF Settled
<1>1. CASE UNCHANGED shown
  BY <1>1 DEF InChat
<1>2. CASE Posts(m)
  <2>1. Post(m)
    BY <1>2 DEF Posts
  <2>2. CASE Chat[p[1]] = Chat[m]
    <3>1. /\ DOMAIN shown[Chat[m]] \subseteq DOMAIN shown'[Chat[m]]
          /\ \A i \in DOMAIN shown[Chat[m]] : shown'[Chat[m]][i] = shown[Chat[m]][i]
      BY <1>0, <2>1, PostShows
    <3> QED
      BY <2>2, <3>1 DEF InChat
  <2>3. CASE Chat[p[1]] # Chat[m]
    <3>1. shown'[Chat[p[1]]] = shown[Chat[p[1]]]
      BY <1>0, <2>1, <2>3, PostShows
    <3> QED
      BY <3>1 DEF InChat
  <2> QED
    BY <2>2, <2>3
<1>3. CASE Edits(m)
  <2>1. Edit(m) /\ target[m] # 0 /\ Chat[p[1]] # Chat[m]
    BY <1>3, LiveByChat DEF Edits
  <2>2. shown'[Chat[p[1]]] = shown[Chat[p[1]]]
    BY <1>0, <2>1, EditShows
  <2> QED
    BY <2>2 DEF InChat
<1> QED
  BY <1>1, <1>2, <1>3 DEF Move, Keeps, Buffers, Asks, Streams, TakesBuffer, TakesStream, Drops

LEMMA KeptStays ==
    ASSUME Settled, Belongs, Grown, NEW m \in Turns, Move(m), NEW p, p[1] \in Turns,
           ~Live(p[1]), Kept(p)
    PROVE  Kept(p)'
<1>0. /\ Chat[m] \in Chats /\ Chat[p[1]] \in Chats /\ Typed
      /\ buffer \in [Chats -> Seq(Pieces)] /\ outbox \in [Turns -> Seq(Pieces)]
  BY TurnAssumption DEF Settled, Typed, ChannelTyped, CallsTyped
<1>1. CASE InChat(p, Chat[p[1]])
  BY <1>1, ChatKeeps DEF Kept
<1>2. CASE p \in ToSet(buffer[Chat[p[1]]])
  <2>1. CASE UNCHANGED buffer
    BY <1>2, <2>1 DEF Kept
  <2>2. ASSUME NEW q \in Pieces, Buffers(m, q) PROVE Kept(p)'
    <3>1. /\ ToSet(Append(buffer[Chat[m]], q)) = ToSet(buffer[Chat[m]]) \cup {q}
          /\ buffer' = [buffer EXCEPT ![Chat[m]] = Append(@, q)]
      BY <1>0, <2>2, AppendSet DEF Buffers
    <3>2. p \in ToSet(buffer'[Chat[p[1]]])
      BY <1>0, <1>2, <3>1
    <3> QED
      BY <3>2 DEF Kept
  <2>3. CASE TakesBuffer(m)
    <3>1. CASE Chat[p[1]] = Chat[m]
      <4>1. p \in ToSet(outbox'[m])
        BY <1>0, <1>2, <2>3, <3>1 DEF TakesBuffer
      <4> QED
        BY <4>1 DEF Kept
    <3>2. CASE Chat[p[1]] # Chat[m]
      <4>1. buffer'[Chat[p[1]]] = buffer[Chat[p[1]]]
        BY <1>0, <2>3, <3>2 DEF TakesBuffer
      <4> QED
        BY <1>2, <4>1 DEF Kept
    <3> QED
      BY <3>1, <3>2
  <2> QED
    BY <2>1, <2>2, <2>3 DEF Move, Keeps, Asks, Streams, TakesStream, Posts, Edits, Drops,
       CallOver
<1>3. ASSUME NEW t \in Turns, p \in ToSet(outbox[t]) PROVE Kept(p)'
  <2>1. CASE outbox'[t] = outbox[t]
    BY <1>3, <2>1 DEF Kept
  <2>2. CASE t = m /\ Posts(m)
    <3>1. Post(m) /\ Chat[p[1]] = Chat[m]
      BY <1>3, <2>2 DEF Posts, Belongs, CallsProper, Proper
    <3>2. /\ Len(shown[Chat[m]]) + 1 \in DOMAIN shown'[Chat[m]]
          /\ shown'[Chat[m]][Len(shown[Chat[m]]) + 1] = outbox[m]
      BY <1>0, <3>1, PostShows
    <3>3. InChat(p, Chat[p[1]])'
      BY <1>3, <2>2, <3>1, <3>2 DEF InChat
    <3> QED
      BY <3>3 DEF Kept
  <2>3. CASE t = m /\ (Edits(m) \/ Drops(m))
    <3>1. ~Live(m)
      BY <1>3, <2>3, LiveByChat DEF Belongs, CallsProper, Proper
    <3>2. p \in lost'
      BY <1>3, <2>3, <3>1 DEF Edits, Drops
    <3> QED
      BY <3>2 DEF Kept
  <2>4. outbox'[t] = outbox[t] \/ (t = m /\ (outbox[m] = <<>> \/ Posts(m) \/ Edits(m) \/ Drops(m)))
    BY <1>0 DEF Move, Keeps, Buffers, Asks, Streams, TakesBuffer, TakesStream, Posts, Edits,
       Drops,
       CallOver
  <2>5. outbox[t] # <<>>
    BY <1>3, SmallSets
  <2> QED
    BY <2>1, <2>2, <2>3, <2>4, <2>5
<1>4. CASE p \in lost
  BY <1>4 DEF Grown, Kept
<1> QED
  BY <1>1, <1>2, <1>3, <1>4 DEF Kept

\* What is new, a step has just said.
LEMMA NewIsSaid ==
    ASSUME Settled, NEW m \in Turns, Move(m), Grown, NEW n \in Turns,
           NEW p \in (Uttered(n) \ untold)'
    PROVE  \/ p \in Uttered(n) \ untold
           \/ n = m /\ p \in Pieces /\ (Buffers(m, p) \/ Asks(m, p) \/ Streams(m, p))
<1>0. /\ said \in [Turns -> 0..MaxPieces] /\ MaxPieces \in Nat
      /\ tool \in [Turns -> {"none", "called", "done"}]
  BY TurnAssumption DEF Settled, Typed, AgentTyped
<1>1. p \notin untold /\ (Quiet(n) <=> Quiet(n)')
  BY DEF Grown, configVars, Quiet
<1>2. CASE SaysNothing
  BY <1>1, <1>2 DEF SaysNothing, Uttered
<1>3. CASE Keeps(m)
  <2>1. CASE p \in {<<n, i>> : i \in 1..said'[n]}
    <3>1. PICK i \in 1..said'[n] : p = <<n, i>>
      BY <2>1
    <3>2. i \in 1..said[n] \/ (n = m /\ p = Piece(m) /\ Piece(m) \in untold')
      BY <1>0, <1>3, <3>1 DEF Keeps, Piece
    <3> QED
      BY <1>1, <3>1, <3>2 DEF Uttered
  <2>2. CASE p = ToolLine(n) /\ tool'[n] = "done" /\ ~Quiet(n)
    <3>1. tool[n] = "done"
      BY <1>0, <1>3, <2>2 DEF Keeps
    <3> QED
      BY <1>1, <2>2, <3>1 DEF Uttered
  <2> QED
    BY <1>1, <2>1, <2>2 DEF Uttered
<1>4. ASSUME NEW q \in Pieces, Says(m, q)
      PROVE  p \in Uttered(n) \ untold \/ (n = m /\ p = q)
  <2>1. CASE p \in {<<n, i>> : i \in 1..said'[n]}
    <3>1. PICK i \in 1..said'[n] : p = <<n, i>>
      BY <2>1
    <3>2. i \in 1..said[n] \/ (n = m /\ p = q)
      BY <1>0, <1>4, <3>1 DEF Says, Piece
    <3> QED
      BY <1>1, <3>1, <3>2 DEF Uttered
  <2>2. CASE p = ToolLine(n) /\ tool'[n] = "done" /\ ~Quiet(n)
    <3>1. tool[n] = "done" \/ (n = m /\ p = q)
      BY <1>0, <1>4, <2>2 DEF Says
    <3> QED
      BY <1>1, <2>2, <3>1 DEF Uttered
  <2> QED
    BY <1>1, <2>1, <2>2 DEF Uttered
<1>5. ASSUME NEW q \in Pieces, Buffers(m, q) \/ Asks(m, q) \/ Streams(m, q)
      PROVE  Says(m, q)
  BY <1>5 DEF Buffers, Asks, Streams
<1> QED
  BY <1>2, <1>3, <1>4, <1>5 DEF Move, TakesBuffer, TakesStream, Posts, Edits, Drops, CallOver

\* It is found too.
LEMMA NewKept ==
    ASSUME Settled, NEW m \in Turns, Move(m), Grown, NEW n \in Turns, ~Live(n),
           NEW p \in (Uttered(n) \ untold)'
    PROVE  p \in Uttered(n) \ untold \/ Kept(p)'
<1>0. /\ Chat[m] \in Chats
      /\ buffer \in [Chats -> Seq(Pieces)] /\ outbox \in [Turns -> Seq(Pieces)]
  BY TurnAssumption DEF Settled, Typed, ChannelTyped, CallsTyped
<1>1. CASE n = m /\ Buffers(m, p)
  <2>1. Chat[p[1]] = Chat[m]
    BY <1>1 DEF Buffers
  <2>2. /\ ToSet(Append(buffer[Chat[m]], p)) = ToSet(buffer[Chat[m]]) \cup {p}
        /\ buffer'[Chat[m]] = Append(buffer[Chat[m]], p)
    BY <1>0, <1>1, AppendSet DEF Buffers
  <2> QED
    BY <2>1, <2>2 DEF Kept
<1>2. CASE n = m /\ Asks(m, p)
  <2>1. ToSet(outbox'[m]) = {p}
    BY <1>0, <1>2, SmallSets DEF Asks
  <2> QED
    BY <2>1 DEF Kept
<1>3. CASE n = m /\ Streams(m, p)
  BY <1>3 DEF Streams
<1> QED
  BY <1>1, <1>2, <1>3, NewIsSaid

LEMMA AccountedStep ==
    Settled /\ Belongs /\ Accounted /\ [Next]_vars => Accounted'
<1> SUFFICES ASSUME Settled, Belongs, Accounted, [Next]_vars,
                    NEW n \in Turns, ~Live(n)', NEW p \in (Uttered(n) \ untold)'
             PROVE  Kept(p)'
  BY DEF Accounted
<1>0. Grown /\ ~Live(n)
  BY EveryMove DEF Grown, configVars, Live, Quiet
<1>1. ASSUME p \in Uttered(n) \ untold PROVE p[1] = n /\ Kept(p)
  BY <1>0, <1>1 DEF Accounted, Uttered, ToolLine
<1>2. CASE Fixed
  <2>1. p \in Uttered(n) \ untold
    BY <1>0, <1>2 DEF Fixed, Grown, configVars, Uttered, Quiet
  <2> QED
    BY <1>0, <1>1, <1>2, <2>1 DEF Fixed, Grown, Kept, InChat
<1>3. ASSUME NEW m \in Turns, Move(m) PROVE Kept(p)'
  BY <1>0, <1>1, <1>3, NewKept, KeptStays
<1> QED
  BY <1>2, <1>3, EveryMove

\* Without streaming_enabled nothing of a turn disappears, however the turns of a
\* chat overlap: each piece it has said, and the line of its tool, is in the
\* chat, in the buffer, on its way, or a call to the platform has failed with it.
THEOREM NothingDisappears == Spec => []PiecesAccounted
<1> DEFINE Inv == Settled /\ Belongs /\ Accounted
<1>1. Init => Inv
  <2> SUFFICES ASSUME Init PROVE Accounted
    BY InitSettled, InitBelongs
  <2>1. \A m \in Turns : 1..said[m] = {} /\ tool[m] = "none"
    BY DEF Init
  <2> QED
    BY <2>1 DEF Accounted, Uttered
<1>2. Inv /\ [Next]_vars => Inv'
  BY SettledStep, BelongsStep, AccountedStep
<1>3. Inv => PiecesAccounted
  <2> SUFFICES ASSUME Accounted, NEW m \in Turns, ~Live(m), NEW p \in Uttered(m) \ untold
               PROVE  \/ InChat(p, Chat[m])
                      \/ p \in ToSet(buffer[Chat[m]])
                      \/ \E t \in Turns : p \in ToSet(outbox[t])
                      \/ p \in lost
    BY DEF PiecesAccounted
  <2>1. p[1] = m /\ Kept(p)
    BY DEF Accounted, Uttered, ToolLine
  <2> QED
    BY <2>1 DEF Kept
<1> QED
  BY <1>1, <1>2, <1>3, PTL DEF Spec

-----------------------------------------------------------------------------
\* A piece in a version of message i of a chat: the one that is shown, one that
\* an edit brings, the stream's.
InVersion(p, k, i) ==
    \/ i \in DOMAIN shown[k] /\ p \in ToSet(shown[k][i])
    \/ \E t \in Turns : Chat[t] = k /\ target[t] = i /\ i # 0 /\ p \in ToSet(outbox[t])
    \/ stream[k].message = i /\ p \in ToSet(stream[k].text)

\* A piece on its way to the chat in a message of its own.
Posting(p, t) == target[t] = 0 /\ p \in ToSet(outbox[t])

Buffered(p, k) == p \in ToSet(buffer[k])

\* A piece is in versions of one message, or in one call, or in the buffer.
OneVersion ==
    \A p \in Pieces : \A k \in Chats : \A i, j \in Nat :
        InVersion(p, k, i) /\ InVersion(p, k, j) => i = j
OnePosting ==
    \A p \in Pieces : \A t, u \in Turns : Posting(p, t) /\ Posting(p, u) => t = u
NotYet ==
    \A p \in Pieces : \A t \in Turns : Posting(p, t) =>
        ~Buffered(p, Chat[t]) /\ \A i \in Nat : ~InVersion(p, Chat[t], i)
NotBuffered ==
    \A p \in Pieces : \A k \in Chats : Buffered(p, k) => \A i \in Nat : ~InVersion(p, k, i)

Once == OneVersion /\ OnePosting /\ NotYet /\ NotBuffered

\* A new piece is nowhere.
LEMMA NewIsNowhere ==
    ASSUME Settled, Belongs, NEW m \in Turns, NEW p \in Pieces, Says(m, p)
    PROVE  /\ \A k \in Chats : ~Buffered(p, k) /\ \A i \in Nat : ~InVersion(p, k, i)
           /\ \A t \in Turns : ~Posting(p, t)
<1>1. \A k : ~Proper(p, k)
  BY NewIsProper
<1> QED
  BY <1>1 DEF Belongs, BufferProper, StreamProper, CallsProper, ShownProper, Buffered,
     InVersion,
     Posting

\* What a step leaves where it was.
LEMMA OnceShrinks ==
    ASSUME Once,
           \A p \in Pieces : \A k \in Chats : \A i \in Nat :
                InVersion(p, k, i)' => InVersion(p, k, i),
           \A p \in Pieces : \A t \in Turns : Posting(p, t)' => Posting(p, t),
           \A p \in Pieces : \A k \in Chats : Buffered(p, k)' => Buffered(p, k)
    PROVE  Once'
<1>0. \A t \in Turns : Chat[t] \in Chats
  BY TurnAssumption
<1> QED
  BY <1>0 DEF Once, OneVersion, OnePosting, NotYet, NotBuffered

\* A message of its own for a piece, or for all that is in a call or the buffer.
LEMMA VersionsSame ==
    ASSUME Settled, NEW m \in Turns, target[m] = 0, UNCHANGED <<shown, stream, target>>,
           \A t \in Turns \ {m} : outbox'[t] = outbox[t],
           NEW p \in Pieces, NEW k \in Chats, NEW i \in Nat, InVersion(p, k, i)'
    PROVE  InVersion(p, k, i)
BY DEF InVersion

\* The call of m is over, in a chat whose messages stay.
LEMMA CallsShrink ==
    ASSUME Settled, NEW m \in Turns, CallOver(m)
    PROVE  /\ \A t \in Turns : \A p : p \in ToSet(outbox'[t]) => p \in ToSet(outbox[t])
                                         /\ t # m /\ target'[t] = target[t]
           /\ \A p \in Pieces : \A t \in Turns : Posting(p, t)' => Posting(p, t) /\ t # m
           /\ \A p \in Pieces : \A k \in Chats : Buffered(p, k)' => Buffered(p, k)
<1>0. outbox \in [Turns -> Seq(Pieces)] /\ target \in [Turns -> Nat]
  BY DEF Settled, Typed, CallsTyped
<1>1. /\ \A t \in Turns \ {m} : outbox'[t] = outbox[t] /\ target'[t] = target[t]
      /\ ToSet(outbox'[m]) = {} /\ buffer' = buffer
  BY <1>0, SmallSets DEF CallOver
<1> QED
  BY <1>1 DEF Posting, Buffered

\* Where a step takes pieces.
FewerVersions ==
    \A p \in Pieces : \A k \in Chats : \A i \in Nat : InVersion(p, k, i)' => InVersion(p, k, i)
FewerPostings == \A p \in Pieces : \A t \in Turns : Posting(p, t)' => Posting(p, t)
FewerBuffered == \A p \in Pieces : \A k \in Chats : Buffered(p, k)' => Buffered(p, k)

BuffersFlow(m, q) ==
    /\ Buffers(m, q) /\ FewerVersions /\ FewerPostings
    /\ \A p \in Pieces : \A k \in Chats :
        Buffered(p, k)' => Buffered(p, k) \/ (p = q /\ k = Chat[m])
AsksFlow(m, q) ==
    /\ Asks(m, q) /\ FewerVersions /\ FewerBuffered
    /\ \A p \in Pieces : \A t \in Turns : Posting(p, t)' => Posting(p, t) \/ (p = q /\ t = m)
StreamsFlow(m, q) ==
    /\ Streams(m, q) /\ FewerPostings /\ FewerBuffered
    /\ \A p \in Pieces : \A k \in Chats : \A i \in Nat : InVersion(p, k, i)' =>
        InVersion(p, k, i) \/ (p = q /\ k = Chat[m] /\ i = stream[Chat[m]].message)
TakesFlow(m) ==
    /\ TakesBuffer(m) /\ FewerVersions
    /\ \A p \in Pieces : \A k \in Chats : Buffered(p, k)' => Buffered(p, k) /\ k # Chat[m]
    /\ \A p \in Pieces : \A t \in Turns : Posting(p, t)' =>
        (t # m /\ Posting(p, t)) \/ (t = m /\ Buffered(p, Chat[m]))
PostsFlow(m) ==
    /\ Posts(m) /\ FewerBuffered
    /\ \A p \in Pieces : \A k \in Chats : \A i \in Nat : InVersion(p, k, i)' =>
        InVersion(p, k, i) \/ (k = Chat[m] /\ i = Len(shown[Chat[m]]) + 1 /\ Posting(p, m))
    /\ \A p \in Pieces : \A t \in Turns : Posting(p, t)' => Posting(p, t) /\ t # m

Flow(m) ==
    \/ /\ Keeps(m) \/ TakesStream(m) \/ Edits(m) \/ Drops(m)
       /\ FewerVersions /\ FewerPostings /\ FewerBuffered
    \/ \E q \in Pieces : BuffersFlow(m, q) \/ AsksFlow(m, q) \/ StreamsFlow(m, q)
    \/ TakesFlow(m)
    \/ PostsFlow(m)

LEMMA PiecesFlow ==
    ASSUME Settled, Belongs, NEW m \in Turns, Move(m)
    PROVE  Flow(m)
<1>0. /\ Chat[m] \in Chats /\ Typed
      /\ buffer \in [Chats -> Seq(Pieces)] /\ outbox \in [Turns -> Seq(Pieces)]
      /\ stream \in [Chats -> [message : Nat, text : Seq(Pieces)]]
      /\ target \in [Turns -> Nat]
      /\ \A k \in Chats : Len(shown[k]) \in Nat
  BY TurnAssumption DEF Settled, Typed, ChannelTyped, CallsTyped
<1>b. UNCHANGED buffer => FewerBuffered
  BY DEF Buffered, FewerBuffered
<1>1. CASE Keeps(m)
  <2>1. UNCHANGED <<buffer, outbox, target, stream, shown>>
    BY <1>1 DEF Keeps
  <2> QED
    BY <1>1, <2>1 DEF InVersion, Posting, Buffered, Flow, FewerVersions, FewerPostings,
       FewerBuffered
<1>2. ASSUME NEW q \in Pieces, Buffers(m, q) PROVE Flow(m)
  <2>1. \A p \in Pieces : \A k \in Chats :
            Buffered(p, k)' => Buffered(p, k) \/ (p = q /\ k = Chat[m])
    <3>1. /\ ToSet(buffer'[Chat[m]]) = ToSet(buffer[Chat[m]]) \cup {q}
          /\ \A k \in Chats \ {Chat[m]} : buffer'[k] = buffer[k]
      BY <1>0, <1>2, AppendSet DEF Buffers
    <3> QED
      BY <3>1 DEF Buffered
  <2>2. FewerVersions /\ FewerPostings
    BY <1>2 DEF Buffers, InVersion, Posting, FewerVersions, FewerPostings
  <2> QED
    BY <1>2, <2>1, <2>2 DEF Flow, BuffersFlow
<1>3. ASSUME NEW q \in Pieces, Asks(m, q) PROVE Flow(m)
  <2>1. /\ ToSet(outbox'[m]) = {q} /\ \A t \in Turns \ {m} : outbox'[t] = outbox[t]
        /\ UNCHANGED <<buffer, target, stream, shown>> /\ target[m] = 0
    BY <1>0, <1>3, SmallSets DEF Asks
  <2>2. \A p \in Pieces : \A t \in Turns : Posting(p, t)' => Posting(p, t) \/ (p = q /\ t = m)
    BY <2>1 DEF Posting
  <2>3. FewerVersions /\ FewerBuffered
    BY <1>b, <2>1, VersionsSame DEF FewerVersions
  <2> QED
    BY <1>3, <2>2, <2>3 DEF Flow, AsksFlow
<1>4. ASSUME NEW q \in Pieces, Streams(m, q) PROVE Flow(m)
  <2> DEFINE j == stream[Chat[m]].message
  <2>1. ToSet(Append(stream[Chat[m]].text, q)) = ToSet(stream[Chat[m]].text) \cup {q}
    BY <1>0, AppendSet
  <2>2. /\ stream'[Chat[m]].text = Append(stream[Chat[m]].text, q)
        /\ stream'[Chat[m]].message = j
        /\ \A k \in Chats \ {Chat[m]} : stream'[k] = stream[k]
        /\ \/ outbox'[m] = Append(stream[Chat[m]].text, q) /\ target'[m] = j /\ j # 0
           \/ outbox'[m] = outbox[m] /\ target'[m] = target[m]
        /\ \A t \in Turns \ {m} : outbox'[t] = outbox[t] /\ target'[t] = target[t]
        /\ UNCHANGED <<buffer, shown>>
    BY <1>0, <1>4 DEF Streams
  <2>3. FewerPostings /\ FewerBuffered
    BY <1>b, <2>2 DEF Posting, FewerPostings
  <2>4. ASSUME NEW p \in Pieces, NEW k \in Chats, NEW i \in Nat, InVersion(p, k, i)'
        PROVE  InVersion(p, k, i) \/ (p = q /\ k = Chat[m] /\ i = j)
    <3>1. CASE i \in DOMAIN shown'[k] /\ p \in ToSet(shown'[k][i])
      BY <2>2, <3>1 DEF InVersion
    <3>2. ASSUME NEW t \in Turns, Chat[t] = k, target'[t] = i, i # 0, p \in ToSet(outbox'[t])
          PROVE  InVersion(p, k, i) \/ (p = q /\ k = Chat[m] /\ i = j)
      <4>1. CASE outbox'[t] = outbox[t] /\ target'[t] = target[t]
        BY <3>2, <4>1 DEF InVersion
      <4>2. CASE t = m /\ outbox'[m] = Append(stream[Chat[m]].text, q) /\ target'[m] = j
        <5>1. p \in ToSet(stream[Chat[m]].text) \/ p = q
          BY <2>1, <3>2, <4>2
        <5> QED
          BY <3>2, <4>2, <5>1 DEF InVersion
      <4> QED
        BY <2>2, <4>1, <4>2
    <3>3. CASE stream'[k].message = i /\ p \in ToSet(stream'[k].text)
      BY <2>1, <2>2, <3>3 DEF InVersion
    <3> QED
      BY <2>4, <3>1, <3>2, <3>3 DEF InVersion
  <2> QED
    BY <1>4, <2>3, <2>4 DEF Flow, StreamsFlow
<1>5. CASE TakesBuffer(m)
  <2>1. /\ buffer'[Chat[m]] = <<>> /\ \A k \in Chats \ {Chat[m]} : buffer'[k] = buffer[k]
        /\ outbox'[m] = buffer[Chat[m]] /\ \A t \in Turns \ {m} : outbox'[t] = outbox[t]
        /\ UNCHANGED <<target, stream, shown>> /\ target[m] = 0
    BY <1>0, <1>5 DEF TakesBuffer
  <2>2. FewerVersions
    BY <2>1, VersionsSame DEF FewerVersions
  <2>3. \A p \in Pieces : \A k \in Chats : Buffered(p, k)' => Buffered(p, k) /\ k # Chat[m]
    BY <2>1, SmallSets DEF Buffered
  <2>4. \A p \in Pieces : \A t \in Turns : Posting(p, t)' =>
            (t # m /\ Posting(p, t)) \/ (t = m /\ Buffered(p, Chat[m]))
    BY <2>1 DEF Posting, Buffered
  <2> QED
    BY <1>5, <2>2, <2>3, <2>4 DEF Flow, TakesFlow
<1>6. CASE TakesStream(m)
  <2>1. /\ outbox'[m] = stream[Chat[m]].text /\ target'[m] = stream[Chat[m]].message
        /\ stream[Chat[m]].message # 0
        /\ \A t \in Turns \ {m} : outbox'[t] = outbox[t] /\ target'[t] = target[t]
        /\ UNCHANGED <<buffer, stream, shown>>
    BY <1>0, <1>6 DEF TakesStream
  <2>2. FewerVersions
    BY <2>1 DEF InVersion, FewerVersions
  <2>3. FewerPostings
    BY <2>1 DEF Posting, FewerPostings
  <2> QED
    BY <1>6, <1>b, <2>1, <2>2, <2>3 DEF Flow
<1>f. ASSUME Forgets(m)
      PROVE  \A k \in Chats : \A i \in Nat : \A p :
                stream'[k].message = i /\ p \in ToSet(stream'[k].text)
                    => stream[k].message = i /\ p \in ToSet(stream[k].text)
  <2>1. CASE UNCHANGED stream
    BY <2>1
  <2>2. CASE stream' = [stream EXCEPT ![Chat[m]] = NoStream]
    <3>1. /\ stream'[Chat[m]].text = <<>>
          /\ \A k \in Chats \ {Chat[m]} : stream'[k] = stream[k]
      BY <1>0, <2>2 DEF NoStream
    <3> QED
      BY <3>1, SmallSets
  <2> QED
    BY <1>f, <2>1, <2>2 DEF Forgets
<1>7. CASE Posts(m)
  <2> DEFINE n == Len(shown[Chat[m]]) + 1
  <2>1. CallOver(m) /\ Post(m) /\ target[m] = 0
    BY <1>7 DEF Posts
  <2>2. ASSUME NEW p \in Pieces, NEW k \in Chats, NEW i \in Nat, InVersion(p, k, i)'
        PROVE  InVersion(p, k, i) \/ (k = Chat[m] /\ i = n /\ Posting(p, m))
    <3>1. CASE i \in DOMAIN shown'[k] /\ p \in ToSet(shown'[k][i])
      <4>1. CASE k = Chat[m] /\ i = n
        <5>1. shown'[Chat[m]][n] = outbox[m]
          BY <1>0, <2>1, PostShows
        <5> QED
          BY <2>1, <3>1, <4>1, <5>1 DEF Posting
      <4>2. CASE k = Chat[m] /\ i # n
        <5>1. /\ DOMAIN shown'[Chat[m]] = DOMAIN shown[Chat[m]] \cup {n}
              /\ \A x \in DOMAIN shown[Chat[m]] : shown'[Chat[m]][x] = shown[Chat[m]][x]
          BY <1>0, <2>1, PostShows
        <5> QED
          BY <3>1, <4>2, <5>1 DEF InVersion
      <4>3. CASE k # Chat[m]
        <5>1. shown'[k] = shown[k]
          BY <1>0, <2>1, <4>3, PostShows
        <5> QED
          BY <3>1, <5>1 DEF InVersion
      <4> QED
        BY <4>1, <4>2, <4>3
    <3>2. ASSUME NEW t \in Turns, Chat[t] = k, target'[t] = i, i # 0, p \in ToSet(outbox'[t])
          PROVE  InVersion(p, k, i)
      BY <2>1, <3>2, CallsShrink DEF InVersion
    <3>3. CASE stream'[k].message = i /\ p \in ToSet(stream'[k].text)
      <4>1. CASE UNCHANGED stream
        BY <3>3, <4>1 DEF InVersion
      <4>2. CASE stream' = [stream EXCEPT ![Chat[m]] = [message |-> n, text |-> outbox[m]]]
        <5>1. /\ stream'[Chat[m]].text = outbox[m] /\ stream'[Chat[m]].message = n
              /\ \A c \in Chats \ {Chat[m]} : stream'[c] = stream[c]
          BY <1>0, <4>2
        <5> QED
          BY <2>1, <3>3, <5>1 DEF InVersion, Posting
      <4> QED
        BY <1>7, <4>1, <4>2 DEF Posts
    <3> QED
      BY <2>2, <3>1, <3>2, <3>3 DEF InVersion
  <2>3. /\ \A p \in Pieces : \A t \in Turns : Posting(p, t)' => Posting(p, t) /\ t # m
        /\ FewerBuffered
    BY <2>1, CallsShrink DEF FewerBuffered
  <2> QED
    BY <1>7, <2>2, <2>3 DEF Flow, PostsFlow
<1>8. CASE Edits(m)
  <2>1. CallOver(m) /\ Edit(m) /\ target[m] # 0 /\ Forgets(m)
    BY <1>8 DEF Edits
  <2>2. ASSUME NEW p \in Pieces, NEW k \in Chats, NEW i \in Nat, InVersion(p, k, i)'
        PROVE  InVersion(p, k, i)
    <3>1. CASE i \in DOMAIN shown'[k] /\ p \in ToSet(shown'[k][i])
      <4>1. CASE k = Chat[m] /\ i = target[m]
        <5>1. shown'[Chat[m]][target[m]] = outbox[m]
          BY <1>0, <2>1, EditShows
        <5> QED
          BY <2>1, <3>1, <4>1, <5>1 DEF InVersion
      <4>2. CASE k = Chat[m] /\ i # target[m]
        <5>1. /\ DOMAIN shown'[Chat[m]] = DOMAIN shown[Chat[m]]
              /\ \A x \in DOMAIN shown[Chat[m]] \ {target[m]} :
                    shown'[Chat[m]][x] = shown[Chat[m]][x]
          BY <1>0, <2>1, EditShows
        <5> QED
          BY <3>1, <4>2, <5>1 DEF InVersion
      <4>3. CASE k # Chat[m]
        <5>1. shown'[k] = shown[k]
          BY <1>0, <2>1, <4>3, EditShows
        <5> QED
          BY <3>1, <5>1 DEF InVersion
      <4> QED
        BY <4>1, <4>2, <4>3
    <3>2. ASSUME NEW t \in Turns, Chat[t] = k, target'[t] = i, i # 0, p \in ToSet(outbox'[t])
          PROVE  InVersion(p, k, i)
      BY <2>1, <3>2, CallsShrink DEF InVersion
    <3>3. CASE stream'[k].message = i /\ p \in ToSet(stream'[k].text)
      BY <1>f, <2>1, <3>3 DEF InVersion
    <3> QED
      BY <2>2, <3>1, <3>2, <3>3 DEF InVersion
  <2>3. FewerVersions /\ FewerPostings /\ FewerBuffered
    BY <2>1, <2>2, CallsShrink DEF FewerVersions, FewerPostings, FewerBuffered
  <2> QED
    BY <1>8, <2>3 DEF Flow
<1>9. CASE Drops(m)
  <2>1. CallOver(m) /\ Forgets(m) /\ UNCHANGED shown
    BY <1>9 DEF Drops
  <2>2. ASSUME NEW p \in Pieces, NEW k \in Chats, NEW i \in Nat, InVersion(p, k, i)'
        PROVE  InVersion(p, k, i)
    <3>1. CASE i \in DOMAIN shown'[k] /\ p \in ToSet(shown'[k][i])
      BY <2>1, <3>1 DEF InVersion
    <3>2. ASSUME NEW t \in Turns, Chat[t] = k, target'[t] = i, i # 0, p \in ToSet(outbox'[t])
          PROVE  InVersion(p, k, i)
      BY <2>1, <3>2, CallsShrink DEF InVersion
    <3>3. CASE stream'[k].message = i /\ p \in ToSet(stream'[k].text)
      BY <1>f, <2>1, <3>3 DEF InVersion
    <3> QED
      BY <2>2, <3>1, <3>2, <3>3 DEF InVersion
  <2>3. FewerVersions /\ FewerPostings /\ FewerBuffered
    BY <2>1, <2>2, CallsShrink DEF FewerVersions, FewerPostings, FewerBuffered
  <2> QED
    BY <1>9, <2>3 DEF Flow
<1> QED
  BY <1>1, <1>2, <1>3, <1>4, <1>5, <1>6, <1>7, <1>8, <1>9 DEF Move

LEMMA OnceMove ==
    ASSUME Settled, Belongs, Once, NEW m \in Turns, Move(m)
    PROVE  Once'
<1>0. /\ Flow(m) /\ Chat[m] \in Chats /\ OneVersion /\ OnePosting /\ NotYet /\ NotBuffered
      /\ \A t \in Turns : Chat[t] \in Chats
  BY PiecesFlow, TurnAssumption DEF Once
<1>n. ASSUME NEW q \in Pieces, Says(m, q)
      PROVE  /\ \A k \in Chats : ~Buffered(q, k) /\ \A i \in Nat : ~InVersion(q, k, i)
             /\ \A t \in Turns : ~Posting(q, t)
  BY <1>n, NewIsNowhere
<1>1. CASE FewerVersions /\ FewerPostings /\ FewerBuffered
  BY <1>1, OnceShrinks DEF FewerVersions, FewerPostings, FewerBuffered
<1>2. ASSUME NEW q \in Pieces, BuffersFlow(m, q) PROVE Once'
  BY <1>0, <1>2, <1>n DEF BuffersFlow, Buffers, FewerVersions, FewerPostings, Once, OneVersion,
     OnePosting, NotYet, NotBuffered
<1>3. ASSUME NEW q \in Pieces, AsksFlow(m, q) PROVE Once'
  BY <1>0, <1>3, <1>n DEF AsksFlow, Asks, FewerVersions, FewerBuffered, Once, OneVersion,
     OnePosting, NotYet, NotBuffered
<1>4. ASSUME NEW q \in Pieces, StreamsFlow(m, q) PROVE Once'
  BY <1>0, <1>4, <1>n DEF StreamsFlow, Streams, FewerPostings, FewerBuffered, Once, OneVersion,
     OnePosting, NotYet, NotBuffered
<1>5. CASE TakesFlow(m)
  <2>1. \A p \in Pieces : \A t \in Turns :
            Posting(p, t) /\ Buffered(p, Chat[m]) => Chat[t] = Chat[m]
    <3>1. \A p : \A t \in Turns : p \in ToSet(outbox[t]) => Chat[p[1]] = Chat[t]
      BY DEF Belongs, CallsProper, Proper
    <3>2. \A p : p \in ToSet(buffer[Chat[m]]) => Chat[p[1]] = Chat[m]
      BY <1>0 DEF Belongs, BufferProper, Proper
    <3> QED
      BY <3>1, <3>2 DEF Posting, Buffered
  <2>2. OneVersion' /\ NotBuffered'
    BY <1>0, <1>5 DEF TakesFlow, FewerVersions, OneVersion, NotBuffered
  <2>3. OnePosting'
    BY <1>0, <1>5, <2>1 DEF TakesFlow, OnePosting, NotYet
  <2>4. NotYet'
    BY <1>0, <1>5 DEF TakesFlow, FewerVersions, NotYet, NotBuffered
  <2> QED
    BY <2>2, <2>3, <2>4 DEF Once
<1>6. CASE PostsFlow(m)
  <2>1. OneVersion' /\ OnePosting'
    BY <1>0, <1>6 DEF PostsFlow, OneVersion, OnePosting, NotYet
  <2>2. NotYet' /\ NotBuffered'
    BY <1>0, <1>6 DEF PostsFlow, FewerBuffered, OnePosting, NotYet, NotBuffered
  <2> QED
    BY <2>1, <2>2 DEF Once
<1> QED
  BY <1>0, <1>1, <1>2, <1>3, <1>4, <1>5, <1>6 DEF Flow

LEMMA InitOnce == Init => Once
<1> SUFFICES ASSUME Init PROVE Once
  OBVIOUS
<1>1. /\ \A k \in Chats : buffer[k] = <<>> /\ stream[k].text = <<>> /\ DOMAIN shown[k] = {}
      /\ \A t \in Turns : outbox[t] = <<>>
  BY DEF Init, NoStream
<1>2. \A p : (\A k \in Chats, i \in Nat : ~InVersion(p, k, i)) /\ (\A k \in Chats : ~Buffered(p, k))
              /\ (\A t \in Turns : ~Posting(p, t))
  BY <1>1, SmallSets DEF InVersion, Buffered, Posting
<1> QED
  BY <1>2 DEF Once, OneVersion, OnePosting, NotYet, NotBuffered

LEMMA OnceStep == Settled /\ Belongs /\ Once /\ [Next]_vars => Once'
<1> SUFFICES ASSUME Settled, Belongs, Once, [Next]_vars PROVE Once'
  OBVIOUS
<1>1. CASE Fixed
  BY <1>1 DEF Fixed, Once, OneVersion, OnePosting, NotYet, NotBuffered, InVersion, Posting,
     Buffered
<1> QED
  BY <1>1, OnceMove, EveryMove

-----------------------------------------------------------------------------
\* In a text, each piece comes after the others of its turn before it.
Ordered(s) == \A x, y \in DOMAIN s : x < y => Promise!Follows(s[y], s[x])

TextsOrdered ==
    /\ \A k \in Chats : Ordered(buffer[k]) /\ Ordered(stream[k].text)
    /\ \A t \in Turns : Ordered(outbox[t])
    /\ \A k \in Chats : \A i \in DOMAIN shown[k] : Ordered(shown[k][i])

\* What is new comes after what has been said.
LEMMA NewFollows ==
    ASSUME Settled, NEW m \in Turns, NEW p \in Pieces, Says(m, p),
           NEW q, NEW k, Proper(q, k)
    PROVE  Promise!Follows(p, q)
<1>0. said \in [Turns -> 0..MaxPieces] /\ MaxPieces \in Nat /\ q \in Turns \X (0..MaxPieces)
  BY TurnAssumption DEF Settled, Typed, AgentTyped, Proper, Pieces
<1>1. p # q
  BY NewIsProper
<1>2. CASE p = Piece(m)
  BY <1>0, <1>1, <1>2 DEF Piece, Proper, Promise!Follows
<1>3. CASE p = ToolLine(m)
  BY <1>0, <1>1, <1>3 DEF ToolLine, Promise!Follows
<1> QED
  BY <1>2, <1>3 DEF Says

LEMMA AppendOrdered ==
    ASSUME NEW S, NEW s \in Seq(S), Ordered(s), NEW x, \A r \in ToSet(s) : Promise!Follows(x, r)
    PROVE  Ordered(Append(s, x))
<1>1. /\ DOMAIN Append(s, x) = 1..(Len(s) + 1) /\ DOMAIN s = 1..Len(s) /\ Len(s) \in Nat
      /\ Append(s, x)[Len(s) + 1] = x /\ \A i \in 1..Len(s) : Append(s, x)[i] = s[i]
  OBVIOUS
<1>2. \A i \in 1..Len(s) : s[i] \in ToSet(s)
  BY <1>1 DEF ToSet
<1>3. SUFFICES ASSUME NEW i \in 1..(Len(s) + 1), NEW j \in 1..(Len(s) + 1), i < j
               PROVE  Promise!Follows(Append(s, x)[j], Append(s, x)[i])
  BY <1>1 DEF Ordered
<1>4. i \in 1..Len(s)
  BY <1>1, <1>3
<1>5. CASE j = Len(s) + 1
  BY <1>1, <1>2, <1>4, <1>5
<1>6. CASE j \in 1..Len(s)
  BY <1>1, <1>3, <1>4, <1>6 DEF Ordered
<1> QED
  BY <1>1, <1>5, <1>6

LEMMA SmallOrdered == Ordered(<<>>) /\ \A x : Ordered(<<x>>)
BY DEF Ordered

LEMMA OrderedMove ==
    ASSUME Settled, Belongs, TextsOrdered, NEW m \in Turns, Move(m)
    PROVE  TextsOrdered'
<1> DEFINE Buf == \A k \in Chats : Ordered(buffer[k])
           Str == \A k \in Chats : Ordered(stream[k].text)
           Out == \A t \in Turns : Ordered(outbox[t])
           Sho == \A k \in Chats : \A i \in DOMAIN shown[k] : Ordered(shown[k][i])
<1>0. /\ Chat[m] \in Chats /\ Typed
      /\ buffer \in [Chats -> Seq(Pieces)] /\ outbox \in [Turns -> Seq(Pieces)]
      /\ stream \in [Chats -> [message : Nat, text : Seq(Pieces)]]
  BY TurnAssumption DEF Settled, Typed, ChannelTyped, CallsTyped
<1>a. Buf /\ Str /\ Out /\ Sho
  BY DEF TextsOrdered
<1>b. Buf' /\ Str' /\ Out' /\ Sho' => TextsOrdered'
  BY DEF TextsOrdered
<1>c. /\ UNCHANGED buffer => Buf'
      /\ UNCHANGED stream => Str'
      /\ UNCHANGED outbox => Out'
      /\ UNCHANGED shown => Sho'
  BY <1>a
<1>n. ASSUME NEW q \in Pieces, Says(m, q)
      PROVE  /\ \A r \in ToSet(buffer[Chat[m]]) : Promise!Follows(q, r)
             /\ \A r \in ToSet(stream[Chat[m]].text) : Promise!Follows(q, r)
  BY <1>0, <1>n, NewFollows DEF Belongs, BufferProper, StreamProper
<1>d. CallOver(m) => Buf' /\ Out'
  BY <1>0, <1>a, <1>c, SmallOrdered DEF CallOver
<1>e. ASSUME Forgets(m) PROVE Str'
  <2>1. CASE UNCHANGED stream
    BY <1>c, <2>1
  <2>2. CASE stream' = [stream EXCEPT ![Chat[m]] = NoStream]
    <3>1. /\ stream'[Chat[m]].text = <<>>
          /\ \A k \in Chats \ {Chat[m]} : stream'[k] = stream[k]
      BY <1>0, <2>2 DEF NoStream
    <3> QED
      BY <1>a, <3>1, SmallOrdered
  <2> QED
    BY <1>e, <2>1, <2>2 DEF Forgets
<1>1. CASE Keeps(m)
  BY <1>1, <1>b, <1>c DEF Keeps
<1>2. ASSUME NEW q \in Pieces, Buffers(m, q) PROVE TextsOrdered'
  <2>1. Ordered(Append(buffer[Chat[m]], q))
    BY <1>0, <1>2, <1>a, <1>n, AppendOrdered DEF Buffers
  <2>2. /\ buffer'[Chat[m]] = Append(buffer[Chat[m]], q)
        /\ \A k \in Chats \ {Chat[m]} : buffer'[k] = buffer[k]
    BY <1>0, <1>2 DEF Buffers
  <2>3. Buf'
    BY <1>a, <2>1, <2>2
  <2> QED
    BY <1>2, <1>b, <1>c, <2>3 DEF Buffers
<1>3. ASSUME NEW q \in Pieces, Asks(m, q) PROVE TextsOrdered'
  <2>1. outbox'[m] = <<q>> /\ \A t \in Turns \ {m} : outbox'[t] = outbox[t]
    BY <1>0, <1>3 DEF Asks
  <2>2. Out'
    BY <1>a, <2>1, SmallOrdered
  <2> QED
    BY <1>3, <1>b, <1>c, <2>2 DEF Asks
<1>4. ASSUME NEW q \in Pieces, Streams(m, q) PROVE TextsOrdered'
  <2>1. Ordered(Append(stream[Chat[m]].text, q))
    BY <1>0, <1>4, <1>a, <1>n, AppendOrdered DEF Streams
  <2>2. /\ stream'[Chat[m]].text = Append(stream[Chat[m]].text, q)
        /\ \A k \in Chats \ {Chat[m]} : stream'[k] = stream[k]
        /\ outbox'[m] = Append(stream[Chat[m]].text, q) \/ outbox'[m] = outbox[m]
        /\ \A t \in Turns \ {m} : outbox'[t] = outbox[t]
    BY <1>0, <1>4 DEF Streams
  <2>3. Str'
    BY <1>a, <2>1, <2>2
  <2>4. Out'
    BY <1>a, <2>1, <2>2
  <2> QED
    BY <1>4, <1>b, <1>c, <2>3, <2>4 DEF Streams
<1>5. CASE TakesBuffer(m)
  <2>1. /\ buffer'[Chat[m]] = <<>> /\ \A k \in Chats \ {Chat[m]} : buffer'[k] = buffer[k]
        /\ outbox'[m] = buffer[Chat[m]] /\ \A t \in Turns \ {m} : outbox'[t] = outbox[t]
    BY <1>0, <1>5 DEF TakesBuffer
  <2>2. Buf'
    BY <1>a, <2>1, SmallOrdered
  <2>3. Out'
    BY <1>0, <1>a, <2>1
  <2> QED
    BY <1>5, <1>b, <1>c, <2>2, <2>3 DEF TakesBuffer
<1>6. CASE TakesStream(m)
  <2>1. outbox'[m] = stream[Chat[m]].text /\ \A t \in Turns \ {m} : outbox'[t] = outbox[t]
    BY <1>0, <1>6 DEF TakesStream
  <2>2. Out'
    BY <1>0, <1>a, <2>1
  <2> QED
    BY <1>6, <1>b, <1>c, <2>2 DEF TakesStream
<1>7. CASE Posts(m)
  <2>1. Post(m) /\ CallOver(m) /\ Ordered(outbox[m])
    BY <1>7, <1>a DEF Posts
  <2>2. Sho'
    <3> SUFFICES ASSUME NEW k \in Chats, NEW i \in DOMAIN shown'[k]
                 PROVE  Ordered(shown'[k][i])
      OBVIOUS
    <3>1. CASE k = Chat[m]
      <4>1. /\ DOMAIN shown'[Chat[m]] = DOMAIN shown[Chat[m]] \cup {Len(shown[Chat[m]]) + 1}
            /\ shown'[Chat[m]][Len(shown[Chat[m]]) + 1] = outbox[m]
            /\ \A j \in DOMAIN shown[Chat[m]] : shown'[Chat[m]][j] = shown[Chat[m]][j]
        BY <1>0, <2>1, PostShows
      <4> QED
        BY <1>0, <1>a, <2>1, <3>1, <4>1
    <3>2. CASE k # Chat[m]
      <4>1. shown'[k] = shown[k]
        BY <1>0, <2>1, <3>2, PostShows
      <4> QED
        BY <1>a, <4>1
    <3> QED
      BY <3>1, <3>2
  <2>3. Str'
    <3>1. CASE UNCHANGED stream
      BY <1>c, <3>1
    <3>2. CASE stream' = [stream EXCEPT ![Chat[m]] =
                            [message |-> Len(shown[Chat[m]]) + 1, text |-> outbox[m]]]
      <4>1. stream'[Chat[m]].text = outbox[m] /\ \A k \in Chats \ {Chat[m]} : stream'[k] = stream[k]
        BY <1>0, <3>2
      <4> QED
        BY <1>a, <2>1, <4>1
    <3> QED
      BY <1>7, <3>1, <3>2 DEF Posts
  <2> QED
    BY <1>b, <1>d, <2>1, <2>2, <2>3
<1>8. CASE Edits(m)
  <2>1. Edit(m) /\ target[m] # 0 /\ CallOver(m) /\ Ordered(outbox[m])
    BY <1>8, <1>a DEF Edits
  <2>2. Sho'
    <3> SUFFICES ASSUME NEW k \in Chats, NEW i \in DOMAIN shown'[k]
                 PROVE  Ordered(shown'[k][i])
      OBVIOUS
    <3>1. CASE k = Chat[m]
      <4>1. /\ DOMAIN shown'[Chat[m]] = DOMAIN shown[Chat[m]]
            /\ shown'[Chat[m]][target[m]] = outbox[m]
            /\ \A j \in DOMAIN shown[Chat[m]] \ {target[m]} :
                    shown'[Chat[m]][j] = shown[Chat[m]][j]
        BY <1>0, <2>1, EditShows
      <4> QED
        BY <1>0, <1>a, <2>1, <3>1, <4>1
    <3>2. CASE k # Chat[m]
      <4>1. shown'[k] = shown[k]
        BY <1>0, <2>1, <3>2, EditShows
      <4> QED
        BY <1>a, <4>1
    <3> QED
      BY <3>1, <3>2
  <2> QED
    BY <1>8, <1>b, <1>d, <1>e, <2>1, <2>2 DEF Edits
<1>9. CASE Drops(m)
  BY <1>9, <1>b, <1>c, <1>d, <1>e DEF Drops
<1> QED
  BY <1>1, <1>2, <1>3, <1>4, <1>5, <1>6, <1>7, <1>8, <1>9 DEF Move

LEMMA OrderedStep == Settled /\ Belongs /\ TextsOrdered /\ [Next]_vars => TextsOrdered'
<1> SUFFICES ASSUME Settled, Belongs, TextsOrdered, [Next]_vars PROVE TextsOrdered'
  OBVIOUS
<1>1. CASE Fixed
  BY <1>1 DEF Fixed, TextsOrdered
<1> QED
  BY <1>1, OrderedMove, EveryMove

LEMMA InitOrdered == Init => TextsOrdered
<1> SUFFICES ASSUME Init PROVE TextsOrdered
  OBVIOUS
<1>1. /\ \A k \in Chats : buffer[k] = <<>> /\ stream[k].text = <<>> /\ DOMAIN shown[k] = {}
      /\ \A t \in Turns : outbox[t] = <<>>
  BY DEF Init, NoStream
<1> QED
  BY <1>1, SmallOrdered DEF TextsOrdered

\* No piece of an answer is shown twice, in two messages or within one, though
\* the agent reports its text in chunks and again whole, turns of a chat overlap
\* and take over each other's buffer and stream, and calls to the platform fail.
THEOREM NothingIsShownTwice == Spec => []ShownOnce
<1> DEFINE Inv == Settled /\ Belongs /\ Once /\ TextsOrdered
<1>1. Init => Inv
  BY InitSettled, InitBelongs, InitOnce, InitOrdered
<1>2. Inv /\ [Next]_vars => Inv'
  BY SettledStep, BelongsStep, OnceStep, OrderedStep
<1>3. Inv => ShownOnce
  <2> SUFFICES ASSUME Inv, NEW k \in Chats, NEW i \in DOMAIN shown[k], NEW j \in DOMAIN shown[k],
                      NEW x \in DOMAIN shown[k][i], NEW y \in DOMAIN shown[k][j],
                      shown[k][i][x] = shown[k][j][y]
               PROVE  i = j /\ x = y
    BY DEF ShownOnce
  <2>1. shown \in [Chats -> Seq(Seq(Pieces))]
    BY DEF Settled, Typed, ChannelTyped
  <2>2. i \in Nat /\ j \in Nat /\ shown[k][i] \in Seq(Pieces) /\ shown[k][j] \in Seq(Pieces)
    BY <2>1
  <2>3. /\ shown[k][i][x] \in Pieces
        /\ shown[k][i][x] \in ToSet(shown[k][i]) /\ shown[k][i][x] \in ToSet(shown[k][j])
    BY <2>2 DEF ToSet
  <2>4. i = j
    BY <2>2, <2>3 DEF InVersion, Once, OneVersion
  <2>5. ~(x < y) /\ ~(y < x)
    BY <2>4 DEF TextsOrdered, Ordered, Promise!Follows
  <2> QED
    BY <2>2, <2>4, <2>5
<1> QED
  BY <1>1, <1>2, <1>3, PTL DEF Spec

-----------------------------------------------------------------------------
Working == {"agent", "starting", "editing", "tool"}

\* Two turns of a chat that are in flight are known to have overlapped.
Together ==
    \A t, u \in Turns :
        t # u /\ Chat[t] = Chat[u] /\ turn[t] \in InFlight /\ turn[u] \in InFlight
            => t \in overlapped /\ u \in overlapped

\* Only a turn that has streamed is in the buffer or the stream, and only until
\* it flushes: after that, it has failed.
StreamsOnly ==
    /\ streamed \subseteq streams
    /\ \A t \in Turns : turn[t] \in {"away", "queued", "preparing", "direct"} => t \notin streamed
    /\ \A t \in Turns : turn[t] = "whole" => t \notin streams
StartsOwn ==
    \A t \in Turns : turn[t] = "starting" =>
        t \in streamed /\ \A p \in ToSet(outbox[t]) : p[1] = t
BufferOwners ==
    \A k \in Chats : \A p \in ToSet(buffer[k]) :
        p[1] \in streamed /\ ~Live(p[1]) /\ (p[1] \in failed \/ turn[p[1]] \in Working)
StreamOwners ==
    \A k \in Chats : \A p \in ToSet(stream[k].text) :
        /\ p[1] \in streamed /\ Live(p[1])
        /\ p[1] \in failed \/ turn[p[1]] \in Working \cup {"flushing"}

Owned == Together /\ StreamsOnly /\ StartsOwn /\ BufferOwners /\ StreamOwners

\* How a turn leaves its buffer or its stream.
LEMMA OwnLeaves ==
    ASSUME Settled, StreamsOnly, NEW m \in Turns, OwnStep(m)
    PROVE  /\ \/ turn'[m] \in Working
              \/ turn[m] \notin Working \cup {"flushing"}
              \/ m \in failed'
              \/ m \notin streamed
              \/ ~Live(m) /\ buffer'[Chat[m]] = <<>>
              \/ Live(m) /\ (turn'[m] = "flushing" \/ stream'[Chat[m]].text = <<>>)
           /\ turn'[m] = "whole" => m \notin streams
           /\ turn'[m] # "direct"
           /\ streamed' = streamed \/ (m \in streams /\ streamed' = streamed \cup {m})
           /\ turn'[m] = "starting" => m \in streamed' /\ outbox'[m] = <<Piece(m)>>
<1>0. /\ turn \in [Turns -> TurnStates] /\ outbox \in [Turns -> Seq(Pieces)]
      /\ buffer \in [Chats -> Seq(Pieces)] /\ stream \in [Chats -> [message : Nat, text : Seq(Pieces)]]
      /\ turn[m] = "whole" => m \notin streamed
      /\ turn[m] \in {"starting", "editing", "flushing"} => Live(m)
      /\ NoStream.text = <<>> /\ Chat[m] \in Chats /\ streamed \subseteq streams
  BY TurnAssumption DEF Settled, Typed, FlowTyped, CallsTyped, ChannelTyped, StreamsOnly,
     LiveOnly,
     NoStream
<1>1. CASE Prepare(m)
  BY <1>0, <1>1 DEF Working, TurnStates, Prepare, Goes, agentVars, callVars
<1>2. CASE BufferChunk(m)
  BY <1>0, <1>2 DEF Working, TurnStates, BufferChunk, NewChunk, callVars, InModel, InAgent,
     agentVars
<1>3. CASE StartMessage(m)
  BY <1>0, <1>3 DEF Working, TurnStates, StartMessage, NewChunk, Calls, InModel, Goes, InAgent,
     agentVars
<1>4. CASE AppendChunk(m)
  BY <1>0, <1>4 DEF Working, TurnStates, AppendChunk, NewChunk, Calls, InModel, Goes, InAgent,
     agentVars
<1>5. CASE Started(m)
  BY <1>0, <1>5 DEF Working, TurnStates, Started, Answered, agentVars, Goes
<1>6. CASE Edited(m)
  BY <1>0, <1>6 DEF Working, TurnStates, Edited, Answered, agentVars, Goes
<1>7. CASE ModelUpdate(m)
  BY <1>0, <1>7 DEF Working, TurnStates, ModelUpdate, InModel, callVars, InAgent, agentVars
<1>8. CASE WholeUpdate(m)
  BY <1>0, <1>8 DEF Working, TurnStates, WholeUpdate, InModel, Calls, InAgent, Goes, agentVars
<1>9. CASE ToolCall(m)
  BY <1>0, <1>9 DEF Working, TurnStates, ToolCall, InAgent, callVars, agentVars
<1>10. CASE ToolResult(m)
  BY <1>0, <1>10 DEF Working, TurnStates, ToolResult, InAgent, Calls, Goes, agentVars
<1>11. CASE ToolSent(m)
  BY <1>0, <1>11 DEF Working, TurnStates, ToolSent, Answered, agentVars, Goes
<1>12. CASE EndUnstreamed(m)
  BY <1>0, <1>12 DEF Working, TurnStates, EndUnstreamed, StreamEnds, Goes, callVars, agentVars
<1>13. CASE EndBuffered(m)
  BY <1>0, <1>13 DEF Working, TurnStates, EndBuffered, StreamEnds, Goes, Calls, agentVars
<1>14. CASE EndEdited(m)
  BY <1>0, <1>14 DEF Working, TurnStates, EndEdited, StreamEnds, Goes, callVars, Calls,
     agentVars
<1>15. CASE Flushed(m)
  BY <1>0, <1>15 DEF Working, TurnStates, Flushed, Answered, agentVars, Goes
<1>16. CASE Sent(m)
  BY <1>0, <1>16 DEF Working, TurnStates, Sent, Answered, AfterSend, agentVars, Goes
<1>17. CASE Apologise(m)
  BY <1>0, <1>17 DEF Working, TurnStates, Apologise, Goes, agentVars, callVars
<1>18. CASE PrepareRaises(m)
  BY <1>0, <1>18 DEF Working, TurnStates, PrepareRaises, Goes, agentVars, callVars
<1>19. CASE Block(m)
  BY <1>0, <1>19 DEF Working, TurnStates, Block, callVars, agentVars
<1>20. CASE AgentRaises(m)
  BY <1>0, <1>20 DEF Working, TurnStates, AgentRaises, Goes, agentVars, callVars
<1>21. CASE StreamCallFails(m)
  BY <1>0, <1>21 DEF Working, TurnStates, StreamCallFails, Answered, agentVars, Goes
<1>22. CASE SendFails(m)
  BY <1>0, <1>22 DEF Working, TurnStates, SendFails, Answered, AfterSend, agentVars, Goes
<1> QED
  BY <1>1, <1>2, <1>3, <1>4, <1>5, <1>6, <1>7, <1>8, <1>9, <1>10, <1>11, <1>12, <1>13, <1>14,
     <1>15, <1>16, <1>17, <1>18, <1>19, <1>20, <1>21, <1>22 DEF OwnStep, TurnStep

LEMMA OwnTogether ==
    ASSUME Settled, Together, NEW m \in Turns, OwnStep(m)
    PROVE  Together'
<1>1. Frame(m)
  BY OwnFrame DEF Settled
<1> QED
  BY <1>1 DEF Frame, Together

\* In a chat that streams nothing is buffered, and in another nothing streams.
LEMMA NewOwners ==
    ASSUME Settled, Belongs, Owned, NEW m \in Turns, OwnStep(m)
    PROVE  /\ \A k \in Chats : \A p \in ToSet(buffer'[k]) :
                \/ p \in ToSet(buffer[k])
                \/ p[1] = m /\ ~Live(m) /\ m \in streamed' /\ turn'[m] \in Working
           /\ \A k \in Chats : \A p \in ToSet(stream'[k].text) :
                \/ p \in ToSet(stream[k].text)
                \/ p[1] = m /\ Live(m) /\ m \in streamed' /\ turn'[m] \in Working
<1>0. /\ Chat[m] \in Chats /\ turn \in [Turns -> TurnStates]
      /\ buffer \in [Chats -> Seq(Pieces)]
      /\ stream \in [Chats -> [message : Nat, text : Seq(Pieces)]]
      /\ streamed \subseteq streamed'
  BY OwnFrame, TurnAssumption DEF Settled, Typed, FlowTyped, ChannelTyped, Frame
<1>1. CASE UNCHANGED <<buffer, stream>>
  BY <1>1
<1>2. ASSUME BufferChunk(m)
      PROVE  /\ \A k \in Chats : \A p \in ToSet(buffer'[k]) :
                    \/ p \in ToSet(buffer[k])
                    \/ p[1] = m /\ ~Live(m) /\ m \in streamed' /\ turn'[m] \in Working
             /\ UNCHANGED stream
  <2>1. /\ buffer' = [buffer EXCEPT ![Chat[m]] = Append(@, Piece(m))]
        /\ ~Live(m) /\ m \in streamed' /\ turn'[m] = "agent" /\ UNCHANGED stream
    BY <1>2 DEF BufferChunk, NewChunk, InModel, InAgent
  <2>2. ToSet(Append(buffer[Chat[m]], Piece(m))) = ToSet(buffer[Chat[m]]) \cup {Piece(m)}
    BY <1>0, AppendSet
  <2>3. Piece(m)[1] = m
    BY DEF Piece
  <2>4. ASSUME NEW k \in Chats, NEW p \in ToSet(buffer'[k]) PROVE p \in ToSet(buffer[k]) \/ p = Piece(m)
    BY <1>0, <2>1, <2>2, <2>4
  <2> QED
    BY <2>1, <2>3, <2>4 DEF Working
<1>3. ASSUME AppendChunk(m)
      PROVE  /\ \A k \in Chats : \A p \in ToSet(stream'[k].text) :
                    \/ p \in ToSet(stream[k].text)
                    \/ p[1] = m /\ Live(m) /\ m \in streamed' /\ turn'[m] \in Working
             /\ UNCHANGED buffer
  <2> DEFINE s == [stream[Chat[m]] EXCEPT !.text = Append(@, Piece(m))]
  <2>1. /\ stream' = [stream EXCEPT ![Chat[m]] = s]
        /\ Live(m) /\ m \in streamed' /\ turn[m] = "agent" /\ UNCHANGED buffer
        /\ turn' = [turn EXCEPT ![m] = "editing"] \/ turn' = turn
    BY <1>3 DEF AppendChunk, NewChunk, InModel, InAgent, Calls, Goes
  <2>2. /\ ToSet(Append(stream[Chat[m]].text, Piece(m))) = ToSet(stream[Chat[m]].text) \cup {Piece(m)}
        /\ s.text = Append(stream[Chat[m]].text, Piece(m))
    BY <1>0, AppendSet
  <2>3. Piece(m)[1] = m /\ turn'[m] \in Working
    BY <1>0, <2>1 DEF Piece, Working
  <2> HIDE DEF s
  <2>4. ASSUME NEW k \in Chats, NEW p \in ToSet(stream'[k].text)
        PROVE  p \in ToSet(stream[k].text) \/ p = Piece(m)
    BY <1>0, <2>1, <2>2, <2>4
  <2> QED
    BY <2>1, <2>3, <2>4
<1>4. ASSUME Started(m)
      PROVE  /\ \A k \in Chats : \A p \in ToSet(stream'[k].text) :
                    \/ p \in ToSet(stream[k].text)
                    \/ p[1] = m /\ Live(m) /\ m \in streamed' /\ turn'[m] \in Working
             /\ UNCHANGED buffer
  <2>1. /\ stream' = [stream EXCEPT ![Chat[m]] =
                        [message |-> Len(shown[Chat[m]]) + 1, text |-> outbox[m]]]
        /\ turn[m] = "starting" /\ UNCHANGED buffer /\ turn' = [turn EXCEPT ![m] = "agent"]
    BY <1>4 DEF Started, Answered, Goes
  <2>2. Live(m) /\ m \in streamed' /\ turn'[m] \in Working /\ \A p \in ToSet(outbox[m]) : p[1] = m
    BY <1>0, <2>1 DEF Owned, StartsOwn, Settled, LiveOnly, Working
  <2>3. stream'[Chat[m]].text = outbox[m] /\ \A k \in Chats \ {Chat[m]} : stream'[k] = stream[k]
    BY <1>0, <2>1
  <2> QED
    BY <2>1, <2>2, <2>3
<1>5. CASE EndBuffered(m)
  <2>1. /\ buffer'[Chat[m]] = <<>> /\ \A k \in Chats \ {Chat[m]} : buffer'[k] = buffer[k]
        /\ UNCHANGED stream
    BY <1>0, <1>5 DEF EndBuffered
  <2> QED
    BY <2>1, SmallSets
<1>6. CASE Flushed(m)
  <2>1. /\ stream'[Chat[m]].text = <<>> /\ \A k \in Chats \ {Chat[m]} : stream'[k] = stream[k]
        /\ UNCHANGED buffer
    BY <1>0, <1>6 DEF Flushed, NoStream
  <2> QED
    BY <2>1, SmallSets
<1>7. \/ UNCHANGED <<buffer, stream>>
      \/ BufferChunk(m) \/ AppendChunk(m) \/ Started(m) \/ EndBuffered(m) \/ Flushed(m)
  BY DEF OwnStep, TurnStep, Prepare, StartMessage, Edited, ModelUpdate, WholeUpdate, ToolCall,
     ToolResult, ToolSent, EndUnstreamed, EndEdited, Sent, Apologise, PrepareRaises, Block,
     AgentRaises, StreamCallFails, SendFails, channelVars
<1> QED
  BY <1>1, <1>2, <1>3, <1>4, <1>5, <1>6, <1>7

LEMMA OwnOwned ==
    ASSUME Settled, Belongs, Owned, NEW m \in Turns, OwnStep(m)
    PROVE  Owned'
<1>0. Together /\ StreamsOnly /\ StartsOwn /\ BufferOwners /\ StreamOwners
  BY DEF Owned
<1>1. Frame(m)
  BY OwnFrame DEF Settled
<1>2. /\ \/ turn'[m] \in Working
         \/ turn[m] \notin Working \cup {"flushing"}
         \/ m \in failed'
         \/ m \notin streamed
         \/ ~Live(m) /\ buffer'[Chat[m]] = <<>>
         \/ Live(m) /\ (turn'[m] = "flushing" \/ stream'[Chat[m]].text = <<>>)
      /\ turn'[m] = "whole" => m \notin streams
      /\ turn'[m] # "direct"
      /\ streamed' = streamed \/ (m \in streams /\ streamed' = streamed \cup {m})
      /\ turn'[m] = "starting" => m \in streamed' /\ outbox'[m] = <<Piece(m)>>
  BY <1>0, OwnLeaves
<1>3. StreamsOnly'
  BY <1>0, <1>1, <1>2 DEF StreamsOnly, Frame, InFlight
<1>4. StartsOwn'
  <2>1. turn'[m] = "starting" => ToSet(outbox'[m]) = {Piece(m)} /\ Piece(m)[1] = m
    BY <1>2, SmallSets DEF Piece
  <2> QED
    BY <1>0, <1>1, <1>2, <2>1 DEF StartsOwn, Frame
<1>5. \A p : \A k \in Chats : p \in ToSet(buffer'[k]) => Chat[p[1]] = k /\ p[1] \in Turns
  BY BelongsMove, OwnMove DEF Belongs, BufferProper, Proper, Pieces
<1>6. \A p : \A k \in Chats : p \in ToSet(stream'[k].text) => Chat[p[1]] = k /\ p[1] \in Turns
  BY BelongsMove, OwnMove DEF Belongs, StreamProper, Proper, Pieces
<1>7. \A t \in Turns : Live(t)' <=> Live(t)
  BY <1>1 DEF Frame, configVars, Live, Quiet
<1>8. BufferOwners'
  <2> SUFFICES ASSUME NEW k \in Chats, NEW p \in ToSet(buffer'[k])
               PROVE  p[1] \in streamed' /\ ~Live(p[1])' /\ (p[1] \in failed' \/ turn'[p[1]] \in Working)
    BY DEF BufferOwners
  <2>1. Chat[p[1]] = k /\ p[1] \in Turns /\ (Live(p[1])' <=> Live(p[1]))
    BY <1>5, <1>7
  <2>2. CASE p[1] = m /\ ~Live(m) /\ m \in streamed' /\ turn'[m] \in Working
    BY <2>1, <2>2
  <2>3. CASE p \in ToSet(buffer[k])
    <3>1. p[1] \in streamed /\ ~Live(p[1]) /\ (p[1] \in failed \/ turn[p[1]] \in Working)
      BY <1>0, <2>3 DEF BufferOwners
    <3>2. p[1] \in streamed' /\ failed \subseteq failed'
      BY <1>1, <3>1 DEF Frame
    <3>3. CASE p[1] # m
      BY <1>1, <2>1, <3>1, <3>2, <3>3 DEF Frame
    <3>4. CASE p[1] = m
      <4>1. buffer'[Chat[m]] # <<>>
        BY <2>1, <3>4, SmallSets
      <4> QED
        BY <1>2, <2>1, <3>1, <3>2, <3>4, <4>1
    <3> QED
      BY <3>3, <3>4
  <2> QED
    BY <2>2, <2>3, NewOwners
<1>9. StreamOwners'
  <2> SUFFICES ASSUME NEW k \in Chats, NEW p \in ToSet(stream'[k].text)
               PROVE  /\ p[1] \in streamed' /\ Live(p[1])'
                      /\ p[1] \in failed' \/ turn'[p[1]] \in Working \cup {"flushing"}
    BY DEF StreamOwners
  <2>1. Chat[p[1]] = k /\ p[1] \in Turns /\ (Live(p[1])' <=> Live(p[1]))
    BY <1>6, <1>7
  <2>2. CASE p[1] = m /\ Live(m) /\ m \in streamed' /\ turn'[m] \in Working
    BY <2>1, <2>2
  <2>3. CASE p \in ToSet(stream[k].text)
    <3>1. /\ p[1] \in streamed /\ Live(p[1])
          /\ p[1] \in failed \/ turn[p[1]] \in Working \cup {"flushing"}
      BY <1>0, <2>3 DEF StreamOwners
    <3>2. p[1] \in streamed' /\ failed \subseteq failed'
      BY <1>1, <3>1 DEF Frame
    <3>3. CASE p[1] # m
      BY <1>1, <2>1, <3>1, <3>2, <3>3 DEF Frame
    <3>4. CASE p[1] = m
      <4>1. stream'[Chat[m]].text # <<>>
        BY <2>1, <3>4, SmallSets
      <4> QED
        BY <1>2, <2>1, <3>1, <3>2, <3>4, <4>1
    <3> QED
      BY <3>3, <3>4
  <2> QED
    BY <2>2, <2>3, NewOwners
<1> QED
  BY <1>0, <1>3, <1>4, <1>8, <1>9, OwnTogether DEF Owned

LEMMA OwnedStep == Settled /\ Belongs /\ Owned /\ [Next]_vars => Owned'
<1> SUFFICES ASSUME Settled, Belongs, Owned, [Next]_vars PROVE Owned'
  OBVIOUS
<1>0. /\ Typed /\ Lined /\ turn \in [Turns -> TurnStates]
      /\ Together /\ StreamsOnly /\ StartsOwn /\ BufferOwners /\ StreamOwners
  BY DEF Settled, Typed, FlowTyped, Owned
<1>o. \A k \in Chats : /\ \A p \in ToSet(buffer[k]) : p[1] \in Turns
                       /\ \A p \in ToSet(stream[k].text) : p[1] \in Turns
  BY DEF Belongs, BufferProper, StreamProper, Proper, Pieces
<1>1. ASSUME NEW m \in Turns, OwnStep(m) PROVE Owned'
  BY <1>1, OwnOwned
<1>2. ASSUME NEW m \in Turns, Publish(m) PROVE Owned'
  <2>1. /\ turn[m] = "away" /\ turn' = [turn EXCEPT ![m] = "queued"]
        /\ UNCHANGED <<agentVars, outbox, buffer, stream, streaming, cron, failed, overlapped>>
    BY <1>2 DEF Publish, Goes, callVars, configVars, historyVars
  <2>2. \A t \in Turns : turn'[t] = turn[t] \/ (t = m /\ turn[t] = "away" /\ turn'[t] = "queued")
    BY <1>0, <2>1
  <2>3. Together' /\ StreamsOnly' /\ StartsOwn'
    BY <1>0, <2>1, <2>2 DEF Together, StreamsOnly, StartsOwn, InFlight, agentVars
  <2>4. \A t \in Turns : turn[t] \in Working \cup {"flushing"} => turn'[t] = turn[t]
    BY <2>2 DEF Working
  <2>5. BufferOwners' /\ StreamOwners'
    BY <1>0, <1>o, <2>1, <2>4 DEF BufferOwners, StreamOwners, Live, Quiet, agentVars
  <2> QED
    BY <2>3, <2>5 DEF Owned
<1>3. CASE Handle
  <2>1. PICK m \in Turns :
            /\ turn[m] = "queued"
            /\ turn' = [turn EXCEPT ![m] = "direct"] \/ turn' = [turn EXCEPT ![m] = "preparing"]
            /\ \A t \in Turns \ {m} : outbox'[t] = outbox[t]
            /\ LET beside == {n \in Turns : Chat[n] = Chat[m] /\ turn[n] \in InFlight}
               IN  overlapped' = IF beside = {} THEN overlapped
                                 ELSE overlapped \cup beside \cup {m}
            /\ UNCHANGED <<streams, streamed, buffer, stream, streaming, cron, failed>>
    <3>1. /\ Head(queue) \in Turns
          /\ \A t \in Turns \ {Head(queue)} : outbox'[t] = outbox[t]
      BY <1>0, <1>3, HandleIs DEF CallsTyped, Typed
    <3> QED
      BY <1>0, <1>3, <3>1, HandleIs DEF Handle, configVars
  <2>2. /\ turn'[m] \in {"direct", "preparing"}
        /\ \A t \in Turns \ {m} : turn'[t] = turn[t]
    BY <1>0, <2>1
  <2>3. Together'
    <3> SUFFICES ASSUME NEW t \in Turns, NEW u \in Turns, t # u, Chat[t] = Chat[u],
                        turn'[t] \in InFlight, turn'[u] \in InFlight
                 PROVE  t \in overlapped' /\ u \in overlapped'
      BY DEF Together
    <3>1. CASE t # m /\ u # m
      BY <1>0, <2>1, <2>2, <3>1 DEF Together
    <3>2. CASE t = m \/ u = m
      BY <2>1, <2>2, <3>2
    <3> QED
      BY <3>1, <3>2
  <2>4. StreamsOnly' /\ StartsOwn'
    BY <1>0, <2>1, <2>2 DEF StreamsOnly, StartsOwn
  <2>5. \A t \in Turns : turn[t] \in Working \cup {"flushing"} => turn'[t] = turn[t]
    BY <1>0, <2>1, <2>2 DEF Working
  <2>6. BufferOwners' /\ StreamOwners'
    BY <1>0, <1>o, <2>1, <2>5 DEF BufferOwners, StreamOwners, Live, Quiet
  <2> QED
    BY <2>3, <2>4, <2>6 DEF Owned
<1>4. CASE UNCHANGED vars
  BY <1>4 DEF vars, agentVars, callVars, configVars, channelVars, historyVars, Owned, Together,
     StreamsOnly, StartsOwn, BufferOwners, StreamOwners, Live, Quiet
<1> QED
  BY <1>1, <1>2, <1>3, <1>4, Steps

LEMMA InitOwned == Init => Owned
<1> SUFFICES ASSUME Init PROVE Owned
  OBVIOUS
<1>1. /\ \A k \in Chats : buffer[k] = <<>> /\ stream[k].text = <<>>
      /\ streamed = {} /\ \A t \in Turns : turn[t] = "away"
  BY DEF Init, NoStream
<1> QED
  BY <1>1, SmallSets DEF Owned, Together, StreamsOnly, StartsOwn, BufferOwners, StreamOwners,
     InFlight

-----------------------------------------------------------------------------
\* Pieces of two turns are in one text only if both turns overlapped another,
\* or one of the two failed.
Mixes(p, q) ==
    p[1] # q[1] => \/ {p[1], q[1]} \subseteq overlapped
                   \/ {p[1], q[1]} \cap failed # {}

BufferMixed == \A k \in Chats : \A p, q \in ToSet(buffer[k]) : Mixes(p, q)
StreamMixed == \A k \in Chats : \A p, q \in ToSet(stream[k].text) : Mixes(p, q)
CallsMixed == \A t \in Turns : \A p, q \in ToSet(outbox[t]) : Mixes(p, q)
ShownMixed ==
    \A k \in Chats : \A i \in DOMAIN shown[k] : \A p, q \in ToSet(shown[k][i]) : Mixes(p, q)

Mixed == BufferMixed /\ StreamMixed /\ CallsMixed /\ ShownMixed

\* A turn that adds to a text it shares overlaps those it shares it with, or
\* they have failed.
LEMMA AddedMixes ==
    ASSUME Settled, Belongs, Owned, NEW m \in Turns, Grown, turn[m] = "agent", NEW p, p[1] = m
    PROVE  /\ \A q \in ToSet(buffer[Chat[m]]) : Mixes(p, q)' /\ Mixes(q, p)'
           /\ \A q \in ToSet(stream[Chat[m]].text) : Mixes(p, q)' /\ Mixes(q, p)'
<1> SUFFICES ASSUME NEW q,
                    q \in ToSet(buffer[Chat[m]]) \/ q \in ToSet(stream[Chat[m]].text)
             PROVE  Mixes(p, q)' /\ Mixes(q, p)'
  OBVIOUS
<1>0. Chat[m] \in Chats
  BY TurnAssumption
<1>1. q[1] \in Turns /\ Chat[q[1]] = Chat[m]
  BY <1>0 DEF Belongs, BufferProper, StreamProper, Proper, Pieces
<1>2. q[1] \in failed \/ turn[q[1]] \in Working \cup {"flushing"}
  BY <1>0 DEF Owned, BufferOwners, StreamOwners
<1>3. turn[q[1]] \in Working \cup {"flushing"} => turn[q[1]] \in InFlight
  BY DEF Working, InFlight, TurnStates
<1>4. q[1] # m => q[1] \in failed \/ (m \in overlapped /\ q[1] \in overlapped)
  BY <1>1, <1>2, <1>3 DEF Owned, Together, InFlight, TurnStates
<1> QED
  BY <1>4 DEF Mixes, Grown

LEMMA MixedMove ==
    ASSUME Settled, Belongs, Owned, Mixed, Grown, NEW m \in Turns, Move(m)
    PROVE  Mixed'
<1>0. /\ Chat[m] \in Chats
      /\ buffer \in [Chats -> Seq(Pieces)] /\ outbox \in [Turns -> Seq(Pieces)]
      /\ stream \in [Chats -> [message : Nat, text : Seq(Pieces)]]
      /\ target \in [Turns -> Nat] /\ Typed
  BY TurnAssumption DEF Settled, Typed, ChannelTyped, CallsTyped
<1>a. \A p, q : Mixes(p, q) => Mixes(p, q)'
  BY DEF Mixes, Grown
<1>b. BufferMixed /\ StreamMixed /\ CallsMixed /\ ShownMixed
  BY DEF Mixed
<1>c. /\ UNCHANGED buffer => BufferMixed'
      /\ UNCHANGED stream => StreamMixed'
      /\ UNCHANGED outbox => CallsMixed'
      /\ UNCHANGED shown => ShownMixed'
  BY <1>a, <1>b DEF BufferMixed, StreamMixed, CallsMixed, ShownMixed
<1>d. outbox' = [outbox EXCEPT ![m] = <<>>] => CallsMixed'
  BY <1>0, <1>a, <1>b, SmallSets DEF CallsMixed
<1>e. ASSUME Forgets(m) PROVE StreamMixed'
  <2>1. CASE UNCHANGED stream
    BY <1>c, <2>1
  <2>2. CASE stream' = [stream EXCEPT ![Chat[m]] = NoStream]
    <3>1. /\ stream'[Chat[m]].text = <<>>
          /\ \A k \in Chats \ {Chat[m]} : stream'[k] = stream[k]
      BY <1>0, <2>2 DEF NoStream
    <3> QED
      BY <1>a, <1>b, <3>1, SmallSets DEF StreamMixed
  <2> QED
    BY <1>e, <2>1, <2>2 DEF Forgets
<1>f. \A p : Mixes(p, p)'
  BY DEF Mixes
<1>1. CASE Keeps(m)
  BY <1>1, <1>c DEF Keeps, Mixed
<1>2. ASSUME NEW p \in Pieces, Buffers(m, p) PROVE Mixed'
  <2>1. \A q \in ToSet(buffer[Chat[m]]) : Mixes(p, q)' /\ Mixes(q, p)'
    BY <1>2, AddedMixes DEF Buffers
  <2>2. /\ ToSet(buffer'[Chat[m]]) = ToSet(buffer[Chat[m]]) \cup {p}
        /\ \A k \in Chats \ {Chat[m]} : buffer'[k] = buffer[k]
    BY <1>0, <1>2, AppendSet DEF Buffers
  <2>3. BufferMixed'
    <3> SUFFICES ASSUME NEW k \in Chats, NEW x \in ToSet(buffer'[k]), NEW y \in ToSet(buffer'[k])
                 PROVE  Mixes(x, y)'
      BY DEF BufferMixed
    <3>1. CASE x \in ToSet(buffer[k]) /\ y \in ToSet(buffer[k])
      BY <1>a, <1>b, <3>1 DEF BufferMixed
    <3>2. CASE ~(x \in ToSet(buffer[k]) /\ y \in ToSet(buffer[k]))
      BY <1>f, <2>1, <2>2, <3>2
    <3> QED
      BY <3>1, <3>2
  <2> QED
    BY <1>2, <1>c, <2>3 DEF Buffers, Mixed
<1>3. ASSUME NEW p \in Pieces, Asks(m, p) PROVE Mixed'
  <2>1. ToSet(outbox'[m]) = {p} /\ \A t \in Turns \ {m} : outbox'[t] = outbox[t]
    BY <1>0, <1>3, SmallSets DEF Asks
  <2>2. CallsMixed'
    BY <1>a, <1>b, <1>f, <2>1 DEF CallsMixed
  <2> QED
    BY <1>3, <1>c, <2>2 DEF Asks, Mixed
<1>4. ASSUME NEW p \in Pieces, Streams(m, p) PROVE Mixed'
  <2>1. \A q \in ToSet(stream[Chat[m]].text) : Mixes(p, q)' /\ Mixes(q, p)'
    BY <1>4, AddedMixes DEF Streams
  <2>2. ToSet(Append(stream[Chat[m]].text, p)) = ToSet(stream[Chat[m]].text) \cup {p}
    BY <1>0, AppendSet
  <2>3. /\ stream'[Chat[m]].text = Append(stream[Chat[m]].text, p)
        /\ \A k \in Chats \ {Chat[m]} : stream'[k] = stream[k]
        /\ outbox'[m] = Append(stream[Chat[m]].text, p) \/ outbox'[m] = outbox[m]
        /\ \A t \in Turns \ {m} : outbox'[t] = outbox[t]
    BY <1>0, <1>4 DEF Streams
  <2>4. \A x, y \in ToSet(Append(stream[Chat[m]].text, p)) : Mixes(x, y)'
    <3> SUFFICES ASSUME NEW x \in ToSet(Append(stream[Chat[m]].text, p)),
                        NEW y \in ToSet(Append(stream[Chat[m]].text, p))
                 PROVE  Mixes(x, y)'
      OBVIOUS
    <3>1. CASE x \in ToSet(stream[Chat[m]].text) /\ y \in ToSet(stream[Chat[m]].text)
      BY <1>0, <1>a, <1>b, <3>1 DEF StreamMixed
    <3>2. CASE ~(x \in ToSet(stream[Chat[m]].text) /\ y \in ToSet(stream[Chat[m]].text))
      BY <1>f, <2>1, <2>2, <3>2
    <3> QED
      BY <3>1, <3>2
  <2>5. StreamMixed'
    BY <1>a, <1>b, <2>3, <2>4 DEF StreamMixed
  <2>6. CallsMixed'
    BY <1>a, <1>b, <2>3, <2>4 DEF CallsMixed
  <2> QED
    BY <1>4, <1>c, <2>5, <2>6 DEF Streams, Mixed
<1>5. CASE TakesBuffer(m)
  <2>1. /\ buffer'[Chat[m]] = <<>> /\ \A k \in Chats \ {Chat[m]} : buffer'[k] = buffer[k]
        /\ outbox'[m] = buffer[Chat[m]] /\ \A t \in Turns \ {m} : outbox'[t] = outbox[t]
    BY <1>0, <1>5 DEF TakesBuffer
  <2>2. BufferMixed'
    BY <1>a, <1>b, <2>1, SmallSets DEF BufferMixed
  <2>3. CallsMixed'
    BY <1>0, <1>a, <1>b, <2>1 DEF BufferMixed, CallsMixed
  <2> QED
    BY <1>5, <1>c, <2>2, <2>3 DEF TakesBuffer, Mixed
<1>6. CASE TakesStream(m)
  <2>1. outbox'[m] = stream[Chat[m]].text /\ \A t \in Turns \ {m} : outbox'[t] = outbox[t]
    BY <1>0, <1>6 DEF TakesStream
  <2>2. CallsMixed'
    BY <1>0, <1>a, <1>b, <2>1 DEF StreamMixed, CallsMixed
  <2> QED
    BY <1>6, <1>c, <2>2 DEF TakesStream, Mixed
<1>g. \A x, y \in ToSet(outbox[m]) : Mixes(x, y)'
  BY <1>a, <1>b DEF CallsMixed
<1>7. CASE Posts(m)
  <2>1. Post(m)
    BY <1>7 DEF Posts
  <2>2. ShownMixed'
    <3> SUFFICES ASSUME NEW k \in Chats, NEW i \in DOMAIN shown'[k]
                 PROVE  \A x, y \in ToSet(shown'[k][i]) : Mixes(x, y)'
      BY DEF ShownMixed
    <3>1. CASE k # Chat[m]
      <4>1. shown'[k] = shown[k]
        BY <1>0, <2>1, <3>1, PostShows
      <4> QED
        BY <1>a, <1>b, <4>1 DEF ShownMixed
    <3>2. CASE k = Chat[m] /\ i = Len(shown[Chat[m]]) + 1
      <4>1. shown'[k][i] = outbox[m]
        BY <1>0, <2>1, <3>2, PostShows
      <4> QED
        BY <1>g, <4>1
    <3>3. CASE k = Chat[m] /\ i # Len(shown[Chat[m]]) + 1
      <4>0. /\ DOMAIN shown'[Chat[m]] = DOMAIN shown[Chat[m]] \cup {Len(shown[Chat[m]]) + 1}
            /\ \A j \in DOMAIN shown[Chat[m]] : shown'[Chat[m]][j] = shown[Chat[m]][j]
        BY <1>0, <2>1, PostShows
      <4>1. i \in DOMAIN shown[k] /\ shown'[k][i] = shown[k][i]
        BY <3>3, <4>0
      <4> QED
        BY <1>a, <1>b, <4>1 DEF ShownMixed
    <3> QED
      BY <3>1, <3>2, <3>3
  <2>3. StreamMixed'
    <3>1. CASE UNCHANGED stream
      BY <1>c, <3>1
    <3>2. CASE stream' = [stream EXCEPT ![Chat[m]] =
                            [message |-> Len(shown[Chat[m]]) + 1, text |-> outbox[m]]]
      <4>1. stream'[Chat[m]].text = outbox[m] /\ \A k \in Chats \ {Chat[m]} : stream'[k] = stream[k]
        BY <1>0, <3>2
      <4> QED
        BY <1>a, <1>b, <1>g, <4>1 DEF StreamMixed
    <3> QED
      BY <1>7, <3>1, <3>2 DEF Posts
  <2> QED
    BY <1>7, <1>c, <1>d, <2>2, <2>3 DEF Posts, CallOver, Mixed
<1>8. CASE Edits(m)
  <2>1. Edit(m) /\ target[m] # 0
    BY <1>8 DEF Edits
  <2>2. ShownMixed'
    <3> SUFFICES ASSUME NEW k \in Chats, NEW i \in DOMAIN shown'[k]
                 PROVE  \A x, y \in ToSet(shown'[k][i]) : Mixes(x, y)'
      BY DEF ShownMixed
    <3>1. CASE k # Chat[m]
      <4>1. shown'[k] = shown[k]
        BY <1>0, <2>1, <3>1, EditShows
      <4> QED
        BY <1>a, <1>b, <4>1 DEF ShownMixed
    <3>2. CASE k = Chat[m] /\ i = target[m]
      <4>1. shown'[k][i] = outbox[m]
        BY <1>0, <2>1, <3>2, EditShows
      <4> QED
        BY <1>g, <4>1
    <3>3. CASE k = Chat[m] /\ i # target[m]
      <4>1. i \in DOMAIN shown[k] /\ shown'[k][i] = shown[k][i]
        BY <1>0, <2>1, <3>3, EditShows
      <4> QED
        BY <1>a, <1>b, <4>1 DEF ShownMixed
    <3> QED
      BY <3>1, <3>2, <3>3
  <2> QED
    BY <1>8, <1>c, <1>d, <1>e, <2>2 DEF Edits, CallOver, Mixed
<1>9. CASE Drops(m)
  BY <1>9, <1>c, <1>d, <1>e DEF Drops, CallOver, Mixed
<1> QED
  BY <1>1, <1>2, <1>3, <1>4, <1>5, <1>6, <1>7, <1>8, <1>9 DEF Move

LEMMA MixedStep == Settled /\ Belongs /\ Owned /\ Mixed /\ [Next]_vars => Mixed'
<1> SUFFICES ASSUME Settled, Belongs, Owned, Mixed, [Next]_vars PROVE Mixed'
  OBVIOUS
<1>1. ASSUME Grown, Fixed PROVE Mixed'
  BY <1>1 DEF Grown, Fixed, Mixed, BufferMixed, StreamMixed, CallsMixed, ShownMixed, Mixes
<1>2. ASSUME Grown, NEW m \in Turns, Move(m) PROVE Mixed'
  BY <1>2, MixedMove
<1> QED
  BY <1>1, <1>2, EveryMove

LEMMA InitMixed == Init => Mixed
<1> SUFFICES ASSUME Init PROVE Mixed
  OBVIOUS
<1>1. /\ \A k \in Chats : buffer[k] = <<>> /\ stream[k].text = <<>> /\ DOMAIN shown[k] = {}
      /\ \A t \in Turns : outbox[t] = <<>>
  BY DEF Init, NoStream
<1> QED
  BY <1>1, SmallSets DEF Mixed, BufferMixed, StreamMixed, CallsMixed, ShownMixed

\* However many turns, chats and failures: two turns share a message only if
\* both were in flight together in their chat, or one of them failed and left
\* its text in the chat's buffer or stream.
THEOREM RepliesAreTheirOwn == Spec => []ReplyIsOwn
<1>1. Init => Settled /\ Belongs /\ Owned /\ Mixed
  BY InitSettled, InitBelongs, InitOwned, InitMixed
<1>2. Settled /\ Belongs /\ Owned /\ Mixed /\ [Next]_vars => (Settled /\ Belongs /\ Owned /\ Mixed)'
  BY SettledStep, BelongsStep, OwnedStep, MixedStep
<1>3. Mixed => ReplyIsOwn
  BY DEF Mixed, ShownMixed, Mixes, ReplyIsOwn
<1> QED
  BY <1>1, <1>2, <1>3, PTL DEF Spec

-----------------------------------------------------------------------------
\* A turn that had its chat for itself.
Alone(t) == t \notin overlapped \cup failed

\* A call to the platform fails, or nothing is lost.
Fails == failures' = failures + 1 \/ (failures' = failures /\ lost' = lost)

\* How the first and the last call of a stream come about.
Begins(m) ==
    /\ turn'[m] = "starting" => stream[Chat[m]] = NoStream /\ stream' = stream
    /\ turn'[m] = "flushing" => outbox'[m] = stream[Chat[m]].text /\ stream' = stream

LEMMA OwnBegins ==
    ASSUME Settled, NEW m \in Turns, OwnStep(m)
    PROVE  Fails /\ Begins(m)
<1>0. /\ turn \in [Turns -> TurnStates] /\ outbox \in [Turns -> Seq(Pieces)]
  BY DEF Settled, Typed, FlowTyped, CallsTyped
<1>1. CASE Prepare(m)
  BY <1>0, <1>1 DEF Prepare, Goes, agentVars, callVars, Fails, Begins, historyVars, channelVars
<1>2. CASE BufferChunk(m)
  BY <1>0, <1>2 DEF BufferChunk, NewChunk, callVars, InModel, InAgent, Fails, Begins,
     historyVars
<1>3. CASE StartMessage(m)
  BY <1>0, <1>3 DEF StartMessage, NewChunk, Calls, InModel, Goes, InAgent, Fails, Begins,
     historyVars
<1>4. CASE AppendChunk(m)
  BY <1>0, <1>4 DEF AppendChunk, NewChunk, Calls, InModel, Goes, InAgent, Fails, Begins,
     historyVars
<1>5. CASE Started(m)
  BY <1>0, <1>5 DEF Started, Answered, agentVars, Goes, Fails, Begins, historyVars
<1>6. CASE Edited(m)
  BY <1>0, <1>6 DEF Edited, Answered, agentVars, Goes, Fails, Begins, historyVars
<1>7. CASE ModelUpdate(m)
  BY <1>0, <1>7 DEF ModelUpdate, InModel, callVars, InAgent, Fails, Begins, historyVars,
     channelVars
<1>8. CASE WholeUpdate(m)
  BY <1>0, <1>8 DEF WholeUpdate, InModel, Calls, InAgent, Goes, Fails, Begins, historyVars
<1>9. CASE ToolCall(m)
  BY <1>0, <1>9 DEF ToolCall, InAgent, callVars, Fails, Begins
<1>10. CASE ToolResult(m)
  BY <1>0, <1>10 DEF ToolResult, InAgent, Calls, Goes, Fails, Begins, historyVars
<1>11. CASE ToolSent(m)
  BY <1>0, <1>11 DEF ToolSent, Answered, agentVars, Goes, Fails, Begins, PlatformFails
<1>12. CASE EndUnstreamed(m)
  BY <1>0, <1>12 DEF EndUnstreamed, StreamEnds, Goes, callVars, agentVars, Fails, Begins
<1>13. CASE EndBuffered(m)
  BY <1>0, <1>13 DEF EndBuffered, StreamEnds, Goes, Calls, agentVars, Fails, Begins
<1>14. CASE EndEdited(m)
  BY <1>0, <1>14 DEF EndEdited, StreamEnds, Goes, callVars, Calls, agentVars, Fails, Begins
<1>15. CASE Flushed(m)
  BY <1>0, <1>15 DEF Flushed, Answered, agentVars, Goes, Fails, Begins, PlatformFails
<1>16. CASE Sent(m)
  BY <1>0, <1>16 DEF Sent, Answered, AfterSend, agentVars, Goes, Fails, Begins, historyVars
<1>17. CASE Apologise(m)
  BY <1>0, <1>17 DEF Apologise, Goes, agentVars, callVars, Fails, Begins, PlatformFails
<1>18. CASE PrepareRaises(m)
  BY <1>0, <1>18 DEF PrepareRaises, Goes, agentVars, callVars, Fails, Begins, channelVars
<1>19. CASE Block(m)
  BY <1>0, <1>19 DEF Block, callVars, Fails, Begins, historyVars, channelVars
<1>20. CASE AgentRaises(m)
  BY <1>0, <1>20 DEF AgentRaises, Goes, agentVars, callVars, Fails, Begins
<1>21. CASE StreamCallFails(m)
  BY <1>0, <1>21 DEF StreamCallFails, Answered, agentVars, Goes, Fails, Begins, PlatformFails,
     channelVars
<1>22. CASE SendFails(m)
  BY <1>0, <1>22 DEF SendFails, Answered, AfterSend, agentVars, Goes, Fails, Begins,
     PlatformFails, channelVars
<1> QED
  BY <1>1, <1>2, <1>3, <1>4, <1>5, <1>6, <1>7, <1>8, <1>9, <1>10, <1>11, <1>12, <1>13, <1>14,
     <1>15, <1>16, <1>17, <1>18, <1>19, <1>20, <1>21, <1>22 DEF OwnStep, TurnStep

\* A step of a turn, or the start of a direct one; and the others.
Acts(m) ==
    /\ Move(m) /\ Grown /\ Fails /\ Begins(m)
    /\ \A n \in Turns \ {m} : turn'[n] = turn[n]
    /\ turn[m] \in InFlight \/ \E p \in Pieces : Asks(m, p)
Rests ==
    /\ Fixed /\ Grown /\ UNCHANGED <<failures, lost>>
    /\ \A t \in Turns : turn'[t] \in {"starting", "flushing"} => turn'[t] = turn[t]

LEMMA EveryAct ==
    ASSUME Settled, [Next]_vars
    PROVE  Rests \/ \E m \in Turns : Acts(m)
<1>0. Typed /\ Lined /\ Unsaid /\ Idle /\ turn \in [Turns -> TurnStates]
  BY DEF Settled, Typed, FlowTyped
<1>g. Grown /\ (Fixed \/ \E m \in Turns : Move(m))
  BY EveryMove
<1>1. ASSUME NEW m \in Turns, OwnStep(m) PROVE Acts(m)
  BY <1>0, <1>1, <1>g, OwnMove, OwnFrame, OwnBegins DEF Frame, Acts
<1>2. ASSUME NEW m \in Turns, Publish(m) PROVE Rests
  BY <1>0, <1>2, <1>g DEF Publish, Goes, Rests, Fixed, agentVars, callVars, historyVars
<1>3. ASSUME Handle PROVE Rests \/ \E m \in Turns : Acts(m)
  <2>1. PICK m \in Turns :
            /\ turn[m] = "queued"
            /\ \/ /\ outbox' = [outbox EXCEPT ![m] = <<<<m, 1>>>>]
                  /\ said' = [said EXCEPT ![m] = 1] /\ turn' = [turn EXCEPT ![m] = "direct"]
               \/ UNCHANGED <<said, outbox>> /\ turn' = [turn EXCEPT ![m] = "preparing"]
            /\ UNCHANGED <<tool, target, buffer, stream, shown, lost>>
    BY <1>0, <1>3, HandleIs
  <2>2. UNCHANGED failures
    BY <1>3 DEF Handle
  <2>3. CASE UNCHANGED <<said, outbox>> /\ turn' = [turn EXCEPT ![m] = "preparing"]
    BY <1>0, <1>g, <2>1, <2>2, <2>3 DEF Rests, Fixed
  <2>4. CASE /\ outbox' = [outbox EXCEPT ![m] = <<<<m, 1>>>>]
             /\ said' = [said EXCEPT ![m] = 1] /\ turn' = [turn EXCEPT ![m] = "direct"]
    <3>1. said[m] = 0 /\ outbox[m] = <<>> /\ target[m] = 0 /\ said \in [Turns -> 0..MaxPieces]
      BY <1>0, <2>1 DEF Unsaid, Idle, Calling, Typed, AgentTyped
    <3>2. Piece(m) = <<m, 1>> /\ <<m, 1>> \in Pieces
      BY <3>1, TurnAssumption DEF Piece, Pieces
    <3>3. said' = [said EXCEPT ![m] = @ + 1]
      BY <2>4, <3>1
    <3>4. Asks(m, <<m, 1>>)
      BY <2>1, <2>4, <3>1, <3>2, <3>3 DEF Asks, Says
    <3>5. turn'[m] = "direct" /\ \A n \in Turns \ {m} : turn'[n] = turn[n]
      BY <1>0, <2>4
    <3> QED
      BY <1>g, <2>1, <2>2, <3>2, <3>4, <3>5 DEF Acts, Move, Fails, Begins
  <2> QED
    BY <2>1, <2>3, <2>4
<1>4. ASSUME UNCHANGED vars PROVE Rests
  BY <1>4, <1>g DEF vars, agentVars, callVars, channelVars, historyVars, Rests, Fixed
<1> QED
  BY <1>1, <1>2, <1>3, <1>4, Steps

-----------------------------------------------------------------------------
\* What a step does to a message, a stream, a call.

LEMMA ShownMoves ==
    ASSUME Settled, NEW m \in Turns, Move(m), NEW k \in Chats
    PROVE  /\ DOMAIN shown[k] \subseteq DOMAIN shown'[k]
           /\ \A i \in DOMAIN shown'[k] :
                \/ i \in DOMAIN shown[k] /\ shown'[k][i] = shown[k][i]
                \/ /\ k = Chat[m] /\ shown'[k][i] = outbox[m]
                   /\ \/ Posts(m) /\ i = Len(shown[k]) + 1
                      \/ Edits(m) /\ i = target[m]
<1>0. Typed
  BY DEF Settled
<1>1. CASE Posts(m)
  <2>1. Post(m)
    BY <1>1 DEF Posts
  <2>2. CASE k = Chat[m]
    <3>1. /\ DOMAIN shown'[k] = DOMAIN shown[k] \cup {Len(shown[k]) + 1}
          /\ shown'[k][Len(shown[k]) + 1] = outbox[m]
          /\ \A i \in DOMAIN shown[k] : shown'[k][i] = shown[k][i]
      BY <1>0, <2>1, <2>2, PostShows
    <3> QED
      BY <1>1, <2>2, <3>1
  <2>3. CASE k # Chat[m]
    <3>1. shown'[k] = shown[k]
      BY <1>0, <2>1, <2>3, PostShows
    <3> QED
      BY <3>1
  <2> QED
    BY <2>2, <2>3
<1>2. CASE Edits(m)
  <2>1. Edit(m) /\ target[m] # 0
    BY <1>2 DEF Edits
  <2>2. CASE k = Chat[m]
    <3>1. /\ DOMAIN shown'[k] = DOMAIN shown[k] /\ shown'[k][target[m]] = outbox[m]
          /\ \A i \in DOMAIN shown[k] \ {target[m]} : shown'[k][i] = shown[k][i]
      BY <1>0, <2>1, <2>2, EditShows
    <3> QED
      BY <1>2, <2>2, <3>1
  <2>3. CASE k # Chat[m]
    <3>1. shown'[k] = shown[k]
      BY <1>0, <2>1, <2>3, EditShows
    <3> QED
      BY <3>1
  <2> QED
    BY <2>2, <2>3
<1>3. CASE UNCHANGED shown
  BY <1>3
<1> QED
  BY <1>1, <1>2, <1>3 DEF Move, Keeps, Buffers, Asks, Streams, TakesBuffer, TakesStream, Drops

LEMMA StreamMoves ==
    ASSUME Settled, NEW m \in Turns, Acts(m), NEW k \in Chats
    PROVE  \/ stream'[k] = stream[k]
           \/ /\ k = Chat[m] /\ turn[m] \in InFlight
              /\ \/ /\ UNCHANGED shown /\ stream'[k].message = stream[k].message
                    /\ ToSet(stream[k].text) \subseteq ToSet(stream'[k].text)
                 \/ /\ Posts(m) /\ turn[m] = "starting"
                    /\ stream'[k] = [message |-> Len(shown[k]) + 1, text |-> outbox[m]]
                 \/ /\ Edits(m) \/ Drops(m)
                    /\ turn[m] = "flushing"
                    /\ stream'[k] = NoStream
<1>0. stream \in [Chats -> [message : Nat, text : Seq(Pieces)]] /\ Chat[m] \in Chats
  BY TurnAssumption DEF Settled, Typed, ChannelTyped
<1>1. ASSUME NEW p \in Pieces, Streams(m, p)
      PROVE  /\ turn[m] \in InFlight /\ UNCHANGED shown
             /\ \A c \in Chats \ {Chat[m]} : stream'[c] = stream[c]
             /\ stream'[Chat[m]].message = stream[Chat[m]].message
             /\ ToSet(stream[Chat[m]].text) \subseteq ToSet(stream'[Chat[m]].text)
  <2>1. stream' = [stream EXCEPT ![Chat[m]].text = Append(@, p)] /\ turn[m] = "agent"
        /\ UNCHANGED shown
    BY <1>1 DEF Streams
  <2>2. /\ stream'[Chat[m]].text = Append(stream[Chat[m]].text, p)
        /\ stream'[Chat[m]].message = stream[Chat[m]].message
        /\ \A c \in Chats \ {Chat[m]} : stream'[c] = stream[c]
    BY <1>0, <2>1
  <2>3. ToSet(stream'[Chat[m]].text) = ToSet(stream[Chat[m]].text) \cup {p}
    BY <1>0, <2>2, AppendSet
  <2> QED
    BY <2>1, <2>2, <2>3 DEF InFlight, TurnStates
<1>2. CASE Posts(m)
  BY <1>0, <1>2 DEF Posts, InFlight, TurnStates
<1>3. CASE Edits(m) \/ Drops(m)
  BY <1>0, <1>3 DEF Edits, Drops, Forgets, InFlight, TurnStates
<1> QED
  BY <1>1, <1>2, <1>3 DEF Acts, Move, Keeps, Buffers, Asks, TakesBuffer, TakesStream

LEMMA CallMoves ==
    ASSUME Settled, NEW m \in Turns, Move(m)
    PROVE  /\ \A t \in Turns \ {m} : outbox'[t] = outbox[t] /\ target'[t] = target[t]
           /\ \/ outbox'[m] = outbox[m] /\ target'[m] = target[m]
              \/ outbox[m] = <<>> /\ target'[m] = 0
              \/ /\ outbox[m] = <<>> /\ UNCHANGED shown
                 /\ target'[m] = stream'[Chat[m]].message /\ outbox'[m] = stream'[Chat[m]].text
              \/ /\ outbox'[m] = <<>> /\ target'[m] = 0
                 /\ Posts(m) \/ Edits(m) \/ Drops(m)
<1>0. /\ stream \in [Chats -> [message : Nat, text : Seq(Pieces)]] /\ Chat[m] \in Chats
      /\ outbox \in [Turns -> Seq(Pieces)] /\ target \in [Turns -> Nat]
  BY TurnAssumption DEF Settled, Typed, ChannelTyped, CallsTyped
<1>1. ASSUME NEW p \in Pieces, Streams(m, p), ~UNCHANGED <<outbox, target>>
      PROVE  /\ \A t \in Turns \ {m} : outbox'[t] = outbox[t] /\ target'[t] = target[t]
             /\ outbox[m] = <<>> /\ UNCHANGED shown
             /\ target'[m] = stream'[Chat[m]].message /\ outbox'[m] = stream'[Chat[m]].text
  <2>1. /\ stream'[Chat[m]].text = Append(stream[Chat[m]].text, p)
        /\ stream'[Chat[m]].message = stream[Chat[m]].message
    BY <1>0, <1>1 DEF Streams
  <2> QED
    BY <1>0, <1>1, <2>1 DEF Streams
<1>2. CASE TakesStream(m)
  BY <1>0, <1>2 DEF TakesStream
<1>3. CASE Posts(m) \/ Edits(m) \/ Drops(m)
  BY <1>0, <1>3 DEF Posts, Edits, Drops, CallOver
<1>4. CASE TakesBuffer(m) \/ \E p \in Pieces : Asks(m, p)
  BY <1>0, <1>4 DEF TakesBuffer, Asks
<1>5. CASE UNCHANGED <<outbox, target>>
  BY <1>5
<1> QED
  BY <1>1, <1>2, <1>3, <1>4, <1>5 DEF Move, Keeps, Buffers

-----------------------------------------------------------------------------
\* Of a turn that has its chat for itself, only its own calls hold pieces.
CallsOfOne == \A t \in Turns : \A p \in ToSet(outbox[t]) : Alone(p[1]) => p[1] = t
\* The text of a stream, and of an edit, has all that its message shows of such
\* a turn; the stream has all that an edit of its message brings.
StreamCovers ==
    \A k \in Chats : stream[k].message # 0 =>
        \A p \in ToSet(shown[k][stream[k].message]) : Alone(p[1]) => p \in ToSet(stream[k].text)
EditCovers ==
    \A t \in Turns : target[t] # 0 =>
        \A p \in ToSet(shown[Chat[t]][target[t]]) : Alone(p[1]) => p \in ToSet(outbox[t])
EditStreamed ==
    \A t \in Turns : target[t] # 0 /\ stream[Chat[t]].message = target[t] =>
        \A p \in ToSet(outbox[t]) : Alone(p[1]) => p \in ToSet(stream[Chat[t]].text)
\* Such a turn starts its message when there is none, and its last edit is all
\* of the text.
StartsAfresh == \A t \in Turns : turn[t] = "starting" /\ Alone(t) => stream[Chat[t]] = NoStream
FlushesAll ==
    \A t \in Turns : turn[t] = "flushing" /\ Alone(t) => stream[Chat[t]].text = outbox[t]

Solo ==
    CallsOfOne /\ StreamCovers /\ EditCovers /\ EditStreamed /\ StartsAfresh /\ FlushesAll

LEMMA OneInFlight ==
    ASSUME Owned, NEW m \in Turns, NEW t \in Turns, Chat[m] = Chat[t], Alone(m) \/ Alone(t),
           turn[m] \in InFlight, turn[t] \in InFlight
    PROVE  m = t
BY DEF Owned, Together, Alone

\* What a turn finds in the buffer or in the stream is of a turn that is not
\* over, or that failed.
LEMMA FoundIsOwn ==
    ASSUME Owned, Belongs, NEW m \in Turns, turn[m] \in InFlight,
           NEW p, p \in ToSet(buffer[Chat[m]]) \/ p \in ToSet(stream[Chat[m]].text), Alone(p[1])
    PROVE  p[1] = m
<1>1. Chat[m] \in Chats
  BY TurnAssumption
<1>2. /\ p[1] \in Turns /\ Chat[p[1]] = Chat[m]
      /\ p[1] \in failed \/ turn[p[1]] \in Working \cup {"flushing"}
  BY <1>1 DEF Belongs, BufferProper, StreamProper, Proper, Pieces, Owned, BufferOwners,
     StreamOwners
<1>3. turn[p[1]] \in InFlight
  BY <1>2 DEF Alone, Working, InFlight, TurnStates
<1> QED
  BY <1>2, <1>3, OneInFlight

LEMMA SoloAct ==
    ASSUME Settled, Belongs, Owned, Solo, NEW m \in Turns, Acts(m)
    PROVE  Solo'
<1>0. /\ stream \in [Chats -> [message : Nat, text : Seq(Pieces)]]
      /\ outbox \in [Turns -> Seq(Pieces)] /\ target \in [Turns -> Nat]
      /\ \A t \in Turns : Chat[t] \in Chats
      /\ \A k \in Chats : DOMAIN shown[k] = 1..Len(shown[k]) /\ Len(shown[k]) \in Nat
      /\ \A k \in Chats : stream[k].message <= Len(shown[k])
      /\ \A t \in Turns : target[t] <= Len(shown[Chat[t]])
      /\ \A t \in Turns : target[t] # 0 => turn[t] \in InFlight
  BY TurnAssumption DEF Settled, Typed, ChannelTyped, CallsTyped, Aimed, Aims, InFlight,
     TurnStates
<1>s. /\ CallsOfOne /\ StreamCovers /\ EditCovers
      /\ EditStreamed /\ StartsAfresh /\ FlushesAll
  BY DEF Solo
<1>a. \A t : Alone(t)' => Alone(t)
  BY DEF Acts, Grown, Alone
<1>n. NoStream.message = 0 /\ ToSet(NoStream.text) = {}
  BY SmallSets DEF NoStream
<1>k. \A k \in Chats :
        \/ stream'[k] = stream[k]
        \/ /\ k = Chat[m] /\ turn[m] \in InFlight
           /\ \/ /\ UNCHANGED shown /\ stream'[k].message = stream[k].message
                 /\ ToSet(stream[k].text) \subseteq ToSet(stream'[k].text)
              \/ /\ Posts(m) /\ turn[m] = "starting"
                 /\ stream'[k] = [message |-> Len(shown[k]) + 1, text |-> outbox[m]]
              \/ /\ Edits(m) \/ Drops(m)
                 /\ turn[m] = "flushing"
                 /\ stream'[k] = NoStream
  BY StreamMoves
<1>v. \A k \in Chats :
        /\ DOMAIN shown[k] \subseteq DOMAIN shown'[k]
        /\ \A i \in DOMAIN shown'[k] :
            \/ i \in DOMAIN shown[k] /\ shown'[k][i] = shown[k][i]
            \/ /\ k = Chat[m] /\ shown'[k][i] = outbox[m]
               /\ \/ Posts(m) /\ i = Len(shown[k]) + 1
                  \/ Edits(m) /\ i = target[m]
  BY ShownMoves DEF Acts
<1>c. /\ \A t \in Turns \ {m} : outbox'[t] = outbox[t] /\ target'[t] = target[t]
      /\ \/ outbox'[m] = outbox[m] /\ target'[m] = target[m]
         \/ outbox[m] = <<>> /\ target'[m] = 0
         \/ /\ outbox[m] = <<>> /\ UNCHANGED shown
            /\ target'[m] = stream'[Chat[m]].message /\ outbox'[m] = stream'[Chat[m]].text
         \/ /\ outbox'[m] = <<>> /\ target'[m] = 0
            /\ Posts(m) \/ Edits(m) \/ Drops(m)
  BY CallMoves DEF Acts
<1>1. CallsOfOne'
  <2> SUFFICES ASSUME NEW t \in Turns, NEW p \in ToSet(outbox'[t]), Alone(p[1])'
               PROVE  p[1] = t
    BY DEF CallsOfOne
  <2>1. Alone(p[1])
    BY <1>a
  <2>2. CASE outbox'[t] = outbox[t]
    BY <1>s, <2>1, <2>2 DEF CallsOfOne
  <2>3. ASSUME t = m, NEW q \in Pieces, Asks(m, q) PROVE p[1] = m
    <3>1. ToSet(outbox'[m]) = {q} /\ q[1] = m
      BY <1>0, <2>3, SmallSets DEF Asks, Says, Piece, ToolLine
    <3> QED
      BY <2>3, <3>1
  <2>4. CASE t = m /\ turn[m] \in InFlight /\ outbox'[m] # outbox[m]
    <3>1. ASSUME p \in ToSet(buffer[Chat[m]]) \/ p \in ToSet(stream[Chat[m]].text)
          PROVE  p[1] = m
      BY <2>1, <2>4, <3>1, FoundIsOwn
    <3>2. ASSUME NEW q \in Pieces, Streams(m, q) PROVE p[1] = m
      <4>1. outbox'[m] = Append(stream[Chat[m]].text, q) /\ q[1] = m
        BY <1>0, <2>4, <3>2 DEF Streams
      <4>2. ToSet(outbox'[m]) = ToSet(stream[Chat[m]].text) \cup {q}
        BY <1>0, <4>1, AppendSet
      <4> QED
        BY <2>4, <3>1, <4>1, <4>2
    <3>3. CASE TakesBuffer(m) \/ TakesStream(m)
      BY <1>0, <2>4, <3>1, <3>3 DEF TakesBuffer, TakesStream
    <3>4. CASE Posts(m) \/ Edits(m) \/ Drops(m)
      <4>1. ToSet(outbox'[m]) = {}
        BY <1>0, <3>4, SmallSets DEF Posts, Edits, Drops, CallOver
      <4> QED
        BY <2>4, <4>1
    <3> QED
      BY <2>3, <2>4, <3>2, <3>3, <3>4 DEF Acts, Move, Keeps, Buffers
  <2> QED
    BY <1>c, <2>2, <2>3, <2>4 DEF Acts
<1>2. StreamCovers'
  <2> SUFFICES ASSUME NEW k \in Chats, stream'[k].message # 0,
                      NEW p \in ToSet(shown'[k][stream'[k].message]), Alone(p[1])'
               PROVE  p \in ToSet(stream'[k].text)
    BY DEF StreamCovers
  <2>1. Alone(p[1])
    BY <1>a
  <2>2. CASE stream'[k] = stream[k]
    <3> DEFINE i == stream[k].message
    <3>1. i \in DOMAIN shown[k] /\ i \in DOMAIN shown'[k] /\ i <= Len(shown[k])
      BY <1>0, <1>v, <2>2
    <3>2. CASE shown'[k][i] = shown[k][i]
      BY <1>s, <2>1, <2>2, <3>2 DEF StreamCovers
    <3>3. CASE /\ k = Chat[m] /\ shown'[k][i] = outbox[m]
               /\ Edits(m) /\ i = target[m]
      BY <1>s, <2>1, <2>2, <3>3 DEF EditStreamed, Edits
    <3> QED
      BY <1>0, <1>v, <3>1, <3>2, <3>3
  <2>3. CASE /\ UNCHANGED shown /\ stream'[k].message = stream[k].message
             /\ ToSet(stream[k].text) \subseteq ToSet(stream'[k].text)
    BY <1>s, <2>1, <2>3 DEF StreamCovers
  <2>4. CASE /\ k = Chat[m] /\ Posts(m)
             /\ stream'[k] = [message |-> Len(shown[k]) + 1, text |-> outbox[m]]
    <3>1. Len(shown[k]) + 1 \notin DOMAIN shown[k]
      BY <1>0
    <3>2. shown'[k][Len(shown[k]) + 1] = outbox[m]
      BY <2>4, PostShows DEF Posts, Settled
    <3> QED
      BY <2>4, <3>2
  <2>5. CASE stream'[k] = NoStream
    BY <1>n, <2>5
  <2> QED
    BY <1>k, <2>2, <2>3, <2>4, <2>5
<1>3. EditCovers'
  <2> SUFFICES ASSUME NEW t \in Turns, target'[t] # 0,
                      NEW p \in ToSet(shown'[Chat[t]][target'[t]]), Alone(p[1])'
               PROVE  p \in ToSet(outbox'[t])
    BY DEF EditCovers
  <2>1. Alone(p[1])
    BY <1>a
  <2>2. CASE outbox'[t] = outbox[t] /\ target'[t] = target[t]
    <3> DEFINE i == target[t]
    <3>1. i \in DOMAIN shown[Chat[t]] /\ i \in DOMAIN shown'[Chat[t]] /\ i <= Len(shown[Chat[t]])
      BY <1>0, <1>v, <2>2
    <3>2. CASE shown'[Chat[t]][i] = shown[Chat[t]][i]
      BY <1>s, <2>1, <2>2, <3>2 DEF EditCovers
    <3>3. CASE /\ Chat[t] = Chat[m] /\ shown'[Chat[t]][i] = outbox[m]
               /\ Edits(m) /\ i = target[m]
      <4>1. p[1] = m
        BY <1>s, <2>1, <2>2, <3>3 DEF CallsOfOne
      <4>2. t = m
        BY <1>0, <2>1, <2>2, <3>3, <4>1, OneInFlight
      <4> QED
        BY <2>2, <3>3, <4>2
    <3> QED
      BY <1>0, <1>v, <3>1, <3>2, <3>3
  <2>3. CASE /\ t = m
             /\ target'[m] = stream'[Chat[m]].message /\ outbox'[m] = stream'[Chat[m]].text
    BY <1>0, <1>2, <2>3 DEF StreamCovers
  <2> QED
    BY <1>c, <2>2, <2>3
<1>4. EditStreamed'
  <2> SUFFICES ASSUME NEW t \in Turns, target'[t] # 0, stream'[Chat[t]].message = target'[t],
                      NEW p \in ToSet(outbox'[t]), Alone(p[1])'
               PROVE  p \in ToSet(stream'[Chat[t]].text)
    BY DEF EditStreamed
  <2>1. Alone(p[1]) /\ Chat[t] \in Chats
    BY <1>0, <1>a
  <2>2. CASE outbox'[t] = outbox[t] /\ target'[t] = target[t]
    <3>1. target[t] <= Len(shown[Chat[t]]) /\ target[t] \in Nat /\ Len(shown[Chat[t]]) \in Nat
      BY <1>0, <2>1
    <3>2. CASE stream'[Chat[t]].message = stream[Chat[t]].message
               /\ ToSet(stream[Chat[t]].text) \subseteq ToSet(stream'[Chat[t]].text)
      BY <1>s, <2>1, <2>2, <3>2 DEF EditStreamed
    <3>3. CASE stream'[Chat[t]] = [message |-> Len(shown[Chat[t]]) + 1, text |-> outbox[m]]
      <4>1. stream'[Chat[t]].message = Len(shown[Chat[t]]) + 1
        BY <3>3
      <4> QED
        BY <2>2, <3>1, <4>1
    <3>4. CASE stream'[Chat[t]] = NoStream
      BY <1>n, <3>4
    <3>5. CASE stream'[Chat[t]] = stream[Chat[t]]
      BY <3>2, <3>5
    <3> QED
      BY <1>k, <2>1, <3>2, <3>3, <3>4, <3>5
  <2>3. CASE t = m /\ outbox'[m] = stream'[Chat[m]].text
    BY <2>3
  <2> QED
    BY <1>c, <2>2, <2>3
<1>5. StartsAfresh'
  <2> SUFFICES ASSUME NEW t \in Turns, turn'[t] = "starting", Alone(t)'
               PROVE  stream'[Chat[t]] = NoStream
    BY DEF StartsAfresh
  <2>1. CASE t = m
    BY <1>0, <2>1 DEF Acts, Begins
  <2>2. CASE t # m
    <3>1. turn[t] = "starting" /\ turn[t] \in InFlight /\ Alone(t)
      BY <1>a, <2>2 DEF Acts, InFlight, TurnStates
    <3>2. stream[Chat[t]] = NoStream
      BY <1>s, <3>1 DEF StartsAfresh
    <3>3. ~(Chat[t] = Chat[m] /\ turn[m] \in InFlight)
      BY <2>2, <3>1, OneInFlight
    <3>4. stream'[Chat[t]] = stream[Chat[t]]
      BY <1>0, <1>k, <3>3
    <3> QED
      BY <3>2, <3>4
  <2> QED
    BY <2>1, <2>2
<1>6. FlushesAll'
  <2> SUFFICES ASSUME NEW t \in Turns, turn'[t] = "flushing", Alone(t)'
               PROVE  stream'[Chat[t]].text = outbox'[t]
    BY DEF FlushesAll
  <2>1. CASE t = m
    BY <1>0, <2>1 DEF Acts, Begins
  <2>2. CASE t # m
    <3>1. turn[t] = "flushing" /\ turn[t] \in InFlight /\ Alone(t)
      BY <1>a, <2>2 DEF Acts, InFlight, TurnStates
    <3>2. stream[Chat[t]].text = outbox[t]
      BY <1>s, <3>1 DEF FlushesAll
    <3>3. ~(Chat[t] = Chat[m] /\ turn[m] \in InFlight)
      BY <2>2, <3>1, OneInFlight
    <3>4. stream'[Chat[t]] = stream[Chat[t]]
      BY <1>0, <1>k, <3>3
    <3> QED
      BY <1>c, <2>2, <3>2, <3>4
  <2> QED
    BY <2>1, <2>2
<1> QED
  BY <1>1, <1>2, <1>3, <1>4, <1>5, <1>6 DEF Solo

LEMMA SoloStep == Settled /\ Belongs /\ Owned /\ Solo /\ [Next]_vars => Solo'
<1> SUFFICES ASSUME Settled, Belongs, Owned, Solo, [Next]_vars PROVE Solo'
  OBVIOUS
<1>1. ASSUME Rests PROVE Solo'
  <2>1. \A t : Alone(t)' => Alone(t)
    BY <1>1 DEF Rests, Grown, Alone
  <2>2. /\ UNCHANGED <<outbox, target, stream, shown>>
        /\ \A t \in Turns : turn'[t] \in {"starting", "flushing"} => turn'[t] = turn[t]
    BY <1>1 DEF Rests, Fixed
  <2>3. CallsOfOne' /\ StreamCovers'
    BY <2>1, <2>2 DEF Solo, CallsOfOne, StreamCovers
  <2>4. EditCovers' /\ EditStreamed'
    BY <2>1, <2>2 DEF Solo, EditCovers, EditStreamed
  <2>5. StartsAfresh' /\ FlushesAll'
    BY <2>1, <2>2 DEF Solo, StartsAfresh, FlushesAll
  <2> QED
    BY <2>3, <2>4, <2>5 DEF Solo
<1>2. ASSUME NEW m \in Turns, Acts(m) PROVE Solo'
  BY <1>2, SoloAct
<1> QED
  BY <1>1, <1>2, EveryAct

LEMMA InitSolo == Init => Solo
<1> SUFFICES ASSUME Init PROVE Solo
  OBVIOUS
<1>1. /\ \A t \in Turns : outbox[t] = <<>> /\ target[t] = 0 /\ turn[t] = "away"
      /\ \A k \in Chats : stream[k].message = 0
  BY DEF Init, NoStream
<1> QED
  BY <1>1, SmallSets DEF Solo, CallsOfOne, StreamCovers, EditCovers, EditStreamed, StartsAfresh,
     FlushesAll

-----------------------------------------------------------------------------
\* Before the platform fails, nothing is lost, and what a turn that has its chat
\* for itself has said is in the chat, in the stream, or on its way.
NothingLost == failures = 0 => lost = {}
Found(m, p) ==
    InChat(p, Chat[m]) \/ p \in ToSet(stream[Chat[m]].text) \/ p \in ToSet(outbox[m])
LiveKept ==
    failures = 0 =>
        \A m \in Turns : Live(m) /\ Alone(m) => \A p \in Uttered(m) \ untold : Found(m, p)

LEMMA FoundStays ==
    ASSUME Settled, Belongs, Owned, Solo, NEW m \in Turns, Acts(m), failures' = 0,
           NEW n \in Turns, Alone(n), NEW p, p[1] = n, Found(n, p)
    PROVE  Found(n, p)'
<1> DEFINE k == Chat[n]
<1>0. /\ k \in Chats /\ Chat[m] \in Chats /\ failures \in Nat
      /\ Len(shown[Chat[m]]) \in Nat
  BY TurnAssumption DEF Settled, Typed, RestTyped, ChannelTyped
<1>d. ~Drops(m)
  BY <1>0 DEF Drops
<1>n. ToSet(NoStream.text) = {}
  BY SmallSets DEF NoStream
<1>o. Posts(m) \/ Edits(m) => \E i \in DOMAIN shown'[Chat[m]] : shown'[Chat[m]][i] = outbox[m]
  <2>1. CASE Posts(m)
    <3>1. /\ Len(shown[Chat[m]]) + 1 \in DOMAIN shown'[Chat[m]]
          /\ shown'[Chat[m]][Len(shown[Chat[m]]) + 1] = outbox[m]
      BY <2>1, PostShows DEF Posts, Settled
    <3> QED
      BY <3>1
  <2>2. CASE Edits(m)
    <3>1. target[m] \in DOMAIN shown'[Chat[m]] /\ shown'[Chat[m]][target[m]] = outbox[m]
      BY <2>2, EditShows DEF Edits, Settled
    <3> QED
      BY <3>1
  <2> QED
    BY <2>1, <2>2
<1>p. ASSUME Posts(m) \/ Edits(m), Chat[m] = k, p \in ToSet(outbox[m]) PROVE InChat(p, k)'
  BY <1>o, <1>p DEF InChat
<1>1. ASSUME InChat(p, k) PROVE InChat(p, k)'
  <2>1. PICK i \in DOMAIN shown[k] : p \in ToSet(shown[k][i])
    BY <1>1 DEF InChat
  <2>2. /\ i \in DOMAIN shown'[k]
        /\ \/ shown'[k][i] = shown[k][i]
           \/ k = Chat[m] /\ Posts(m) /\ i = Len(shown[k]) + 1
           \/ k = Chat[m] /\ Edits(m) /\ i = target[m]
    BY <1>0, ShownMoves DEF Acts
  <2>3. CASE shown'[k][i] = shown[k][i]
    BY <2>1, <2>2, <2>3 DEF InChat
  <2>4. CASE k = Chat[m] /\ Posts(m) /\ i = Len(shown[k]) + 1
    BY <1>0, <2>1, <2>4, PostShows DEF Posts, Settled
  <2>5. CASE k = Chat[m] /\ Edits(m) /\ i = target[m]
    <3>1. p \in ToSet(outbox[m])
      BY <2>1, <2>5 DEF Solo, EditCovers, Edits
    <3> QED
      BY <1>p, <2>5, <3>1
  <2> QED
    BY <2>2, <2>3, <2>4, <2>5
<1>2. ASSUME p \in ToSet(stream[k].text)
      PROVE  InChat(p, k)' \/ p \in ToSet(stream'[k].text)
  <2>1. CASE stream'[k] = stream[k] \/ ToSet(stream[k].text) \subseteq ToSet(stream'[k].text)
    BY <1>2, <2>1
  <2>2. CASE /\ k = Chat[m] /\ turn[m] \in InFlight
             /\ Posts(m) \/ Edits(m)
             /\ turn[m] \in {"starting", "flushing"}
    <3>1. m = n
      BY <1>2, <2>2, FoundIsOwn
    <3>2. CASE turn[m] = "starting"
      BY <1>2, <1>n, <3>1, <3>2 DEF Solo, StartsAfresh
    <3>3. CASE turn[m] = "flushing"
      <4>1. p \in ToSet(outbox[m])
        BY <1>2, <3>1, <3>3 DEF Solo, FlushesAll
      <4> QED
        BY <1>p, <2>2, <4>1
    <3> QED
      BY <2>2, <3>2, <3>3
  <2> QED
    BY <1>0, <1>d, <2>1, <2>2, StreamMoves
<1>3. ASSUME p \in ToSet(outbox[n]) PROVE InChat(p, k)' \/ p \in ToSet(outbox'[n])
  <2>1. outbox[n] # <<>>
    BY <1>3, SmallSets
  <2>2. CASE n = m /\ (Posts(m) \/ Edits(m))
    BY <1>3, <1>p, <2>2
  <2> QED
    BY <1>3, <1>d, <2>1, <2>2, CallMoves DEF Acts
<1> QED
  BY <1>1, <1>2, <1>3 DEF Found

LEMMA LiveKeptStep ==
    Settled /\ Belongs /\ Owned /\ Solo /\ NothingLost /\ LiveKept /\ [Next]_vars
        => NothingLost' /\ LiveKept'
<1> SUFFICES ASSUME Settled, Belongs, Owned, Solo, NothingLost, LiveKept, [Next]_vars,
                    failures' = 0
             PROVE  /\ lost' = {}
                    /\ \A n \in Turns : Live(n)' /\ Alone(n)' =>
                        \A p \in (Uttered(n) \ untold)' : Found(n, p)'
  BY DEF NothingLost, LiveKept
<1>0. /\ failures \in Nat /\ stream \in [Chats -> [message : Nat, text : Seq(Pieces)]]
      /\ outbox \in [Turns -> Seq(Pieces)] /\ \A n \in Turns : Chat[n] \in Chats
  BY TurnAssumption DEF Settled, Typed, RestTyped, ChannelTyped, CallsTyped
<1>1. /\ Grown /\ Fails /\ failures = 0
      /\ Rests \/ \E m \in Turns : Acts(m)
  BY <1>0, EveryAct DEF Acts, Rests, Fails
<1>2. lost' = {}
  BY <1>1 DEF Fails, NothingLost
<1>3. ASSUME NEW n \in Turns, Live(n)', Alone(n)', NEW p \in (Uttered(n) \ untold)'
      PROVE  Found(n, p)'
  <2>1. Live(n) /\ Alone(n)
    BY <1>1, <1>3 DEF Grown, configVars, Live, Quiet, Alone
  <2>2. ASSUME p \in Uttered(n) \ untold PROVE Found(n, p) /\ p[1] = n
    BY <1>1, <2>1, <2>2 DEF LiveKept, Uttered, ToolLine
  <2>3. CASE Rests
    <3>1. p \in Uttered(n) \ untold
      BY <1>1, <2>3 DEF Rests, Fixed, Grown, configVars, Uttered, Quiet
    <3> QED
      BY <2>2, <2>3, <3>1 DEF Rests, Fixed, Found, InChat
  <2>4. ASSUME NEW m \in Turns, Acts(m) PROVE Found(n, p)'
    <3>1. CASE p \in Uttered(n) \ untold
      BY <2>1, <2>2, <2>4, <3>1, FoundStays
    <3>2. CASE n = m /\ Buffers(m, p)
      BY <2>1, <3>2 DEF Buffers
    <3>3. CASE n = m /\ Asks(m, p)
      <4>1. ToSet(outbox'[m]) = {p}
        BY <1>0, <3>3, SmallSets DEF Asks
      <4> QED
        BY <3>3, <4>1 DEF Found
    <3>4. CASE n = m /\ Streams(m, p)
      <4>1. stream'[Chat[m]].text = Append(stream[Chat[m]].text, p)
        BY <1>0, <3>4 DEF Streams
      <4>2. p \in ToSet(stream'[Chat[m]].text)
        BY <1>0, <4>1, AppendSet
      <4> QED
        BY <3>4, <4>2 DEF Found
    <3> QED
      BY <1>1, <2>4, <3>1, <3>2, <3>3, <3>4, NewIsSaid DEF Acts
  <2> QED
    BY <1>1, <2>3, <2>4
<1> QED
  BY <1>2, <1>3

LEMMA InitComplete == Init => Accounted /\ NothingLost /\ LiveKept
<1> SUFFICES ASSUME Init PROVE Accounted /\ NothingLost /\ LiveKept
  OBVIOUS
<1>1. lost = {} /\ \A m \in Turns : 1..said[m] = {} /\ tool[m] = "none"
  BY DEF Init
<1> QED
  BY <1>1 DEF Accounted, NothingLost, LiveKept, Uttered

LEMMA CompleteAnswers ==
    Settled /\ Belongs /\ Accounted /\ Owned /\ Solo /\ NothingLost /\ LiveKept => StreamComplete
<1> SUFFICES ASSUME Settled, Accounted, Owned, Solo, NothingLost, LiveKept,
                    NEW m \in Turns, Alone(m), turn[m] = "ended", failures = 0,
                    NEW p \in Uttered(m) \ untold
             PROVE  InChat(p, Chat[m])
  BY DEF StreamComplete, Alone
<1>0. p[1] = m /\ Chat[m] \in Chats
  BY TurnAssumption DEF Uttered, ToolLine
<1>1. \A t \in Turns : p \notin ToSet(outbox[t])
  <2>1. ToSet(outbox[m]) = {}
    BY SmallSets DEF Settled, Idle, Calling
  <2> QED
    BY <1>0, <2>1 DEF Solo, CallsOfOne
<1>2. p \notin ToSet(buffer[Chat[m]]) /\ p \notin ToSet(stream[Chat[m]].text)
  BY <1>0 DEF Owned, BufferOwners, StreamOwners, Working, Alone
<1>3. CASE Live(m)
  BY <1>1, <1>2, <1>3 DEF LiveKept, Found
<1>4. CASE ~Live(m)
  <2>1. Kept(p)
    BY <1>4 DEF Accounted
  <2> QED
    BY <1>0, <1>1, <1>2, <2>1 DEF Kept, NothingLost
<1> QED
  BY <1>3, <1>4

\* The answer of a turn that had the chat for itself is complete in the chat when
\* the turn ends, streamed or not, unless the agent raised or the platform failed.
THEOREM AnswersAreComplete == Spec => []StreamComplete
<1> DEFINE Inv ==
        Settled /\ Belongs /\ Accounted /\ Owned /\ Solo /\ NothingLost /\ LiveKept
<1>1. Init => Inv
  BY InitSettled, InitBelongs, InitOwned, InitSolo, InitComplete
<1>2. Inv /\ [Next]_vars => Inv'
  BY SettledStep, BelongsStep, AccountedStep, OwnedStep, SoloStep, LiveKeptStep
<1>3. Inv => StreamComplete
  BY CompleteAnswers
<1> QED
  BY <1>1, <1>2, <1>3, PTL DEF Spec

\* Versions of a message: the same as far as both go, and what one has beyond
\* the other.
Agree(s, t) == \A x \in DOMAIN s \cap DOMAIN t : s[x] = t[x]
Begin(s, t) == Agree(s, t) /\ DOMAIN s \subseteq DOMAIN t
Beyond(s, t, S) == \A x \in DOMAIN s \ DOMAIN t : s[x][1] \in S

StreamAhead ==
    \A k \in Chats : stream[k].message # 0 => Begin(shown[k][stream[k].message], stream[k].text)
StreamAheadOfEdits ==
    \A t \in Turns : target[t] # 0 /\ stream[Chat[t]].message = target[t] =>
        /\ Begin(outbox[t], stream[Chat[t]].text)
        /\ Beyond(stream[Chat[t]].text, outbox[t], overlapped)
EditsAgree ==
    \A t \in Turns : target[t] # 0 =>
        /\ Agree(outbox[t], shown[Chat[t]][target[t]])
        /\ Beyond(shown[Chat[t]][target[t]], outbox[t], overlapped)
EditsOfOne ==
    \A t, u \in Turns : target[t] # 0 /\ target[t] = target[u] /\ Chat[t] = Chat[u] =>
        /\ Agree(outbox[t], outbox[u])
        /\ Beyond(outbox[u], outbox[t], overlapped)

Chained == StreamAhead /\ StreamAheadOfEdits /\ EditsAgree /\ EditsOfOne

LEMMA InitChained == Init => Chained
<1> SUFFICES ASSUME Init PROVE Chained
  OBVIOUS
<1>1. /\ \A t \in Turns : target[t] = 0
      /\ \A k \in Chats : stream[k].message = 0
  BY DEF Init, NoStream
<1> QED
  BY <1>1 DEF Chained, StreamAhead, StreamAheadOfEdits, EditsAgree, EditsOfOne

\* A step on a stream makes all turns that have an edit under way share the chat.
LEMMA EditsAreShared ==
    ASSUME Settled, Owned, NEW m \in Turns, turn[m] \in InFlight,
           NEW t \in Turns, t # m, Chat[t] = Chat[m], target[t] # 0
    PROVE  m \in overlapped /\ t \in overlapped
<1>1. turn[t] \in InFlight
  BY DEF Settled, Aims, InFlight, TurnStates
<1> QED
  BY <1>1 DEF Owned, Together

LEMMA BeginChain ==
    ASSUME NEW r, NEW s, NEW t, Begin(r, s), Begin(s, t)
    PROVE  Begin(r, t)
BY DEF Begin, Agree

LEMMA AppendBegins ==
    ASSUME NEW S, NEW s \in Seq(S), NEW x
    PROVE  /\ Begin(s, Append(s, x))
           /\ DOMAIN Append(s, x) = DOMAIN s \cup {Len(s) + 1} /\ Append(s, x)[Len(s) + 1] = x
<1>1. /\ DOMAIN Append(s, x) = 1..(Len(s) + 1) /\ DOMAIN s = 1..Len(s) /\ Len(s) \in Nat
      /\ Append(s, x)[Len(s) + 1] = x /\ \A i \in 1..Len(s) : Append(s, x)[i] = s[i]
  OBVIOUS
<1>2. 1..(Len(s) + 1) = (1..Len(s)) \cup {Len(s) + 1}
  BY <1>1
<1> QED
  BY <1>1, <1>2 DEF Begin, Agree

LEMMA ChainedAct ==
    ASSUME Settled, Owned, Chained, NEW m \in Turns, Acts(m)
    PROVE  Chained'
<1>0. /\ Chat[m] \in Chats /\ Typed /\ Aims
      /\ buffer \in [Chats -> Seq(Pieces)] /\ outbox \in [Turns -> Seq(Pieces)]
      /\ target \in [Turns -> Nat]
      /\ stream \in [Chats -> [message : Nat, text : Seq(Pieces)]]
      /\ shown \in [Chats -> Seq(Seq(Pieces))]
      /\ overlapped \subseteq overlapped'
      /\ \A t \in Turns : Chat[t] \in Chats
  BY TurnAssumption DEF Settled, Typed, ChannelTyped, CallsTyped, Acts, Grown
<1>c. StreamAhead /\ StreamAheadOfEdits /\ EditsAgree /\ EditsOfOne
  BY DEF Chained
<1>b. \A s, t : Beyond(s, t, overlapped) => Beyond(s, t, overlapped')
  BY <1>0 DEF Beyond
\* No call edits more than it did.
<1>1. ASSUME UNCHANGED <<shown, stream>>,
             \A t \in Turns : target'[t] # 0 => target'[t] = target[t] /\ outbox'[t] = outbox[t]
      PROVE  Chained'
  <2>1. StreamAhead'
    BY <1>c, <1>1 DEF StreamAhead
  <2>2. StreamAheadOfEdits'
    BY <1>b, <1>c, <1>1 DEF StreamAheadOfEdits
  <2>3. EditsAgree'
    BY <1>b, <1>c, <1>1 DEF EditsAgree
  <2>4. EditsOfOne'
    BY <1>b, <1>c, <1>1 DEF EditsOfOne
  <2> QED
    BY <2>1, <2>2, <2>3, <2>4 DEF Chained
<1>2. CASE Keeps(m) \/ TakesBuffer(m) \/ \E p \in Pieces : Buffers(m, p) \/ Asks(m, p)
  BY <1>0, <1>1, <1>2 DEF Keeps, TakesBuffer, Buffers, Asks
\* Or that of m has all of the stream.
<1>3. ASSUME NEW s, NEW i, i # 0, i = stream[Chat[m]].message, UNCHANGED shown,
             stream'[Chat[m]].message = i, stream'[Chat[m]].text = s,
             \A k \in Chats \ {Chat[m]} : stream'[k] = stream[k],
             Begin(stream[Chat[m]].text, s),
             \A t \in Turns \ {m} : Chat[t] = Chat[m] /\ target[t] = i => Beyond(s, outbox[t], overlapped),
             \A t \in Turns \ {m} : outbox'[t] = outbox[t] /\ target'[t] = target[t],
             target'[m] = 0 \/ (target'[m] = i /\ outbox'[m] = s)
      PROVE  Chained'
  <2>0. Begin(s, s) /\ Beyond(s, s, overlapped)
    BY DEF Begin, Agree, Beyond
  <2>1. Begin(shown[Chat[m]][i], s)
    BY <1>0, <1>3, <1>c, BeginChain DEF StreamAhead
  <2>2. StreamAhead'
    BY <1>c, <1>3, <2>1 DEF StreamAhead
  <2>3. ASSUME NEW t \in Turns \ {m}, Chat[t] = Chat[m], target[t] = i
        PROVE  /\ Begin(outbox[t], s) /\ Beyond(s, outbox[t], overlapped)'
               /\ Agree(s, outbox[t]) /\ Beyond(outbox[t], s, overlapped)'
    <3>1. Begin(outbox[t], s)
      BY <1>c, <1>3, <2>3, BeginChain DEF StreamAheadOfEdits
    <3>2. Beyond(s, outbox[t], overlapped)'
      BY <1>b, <1>3, <2>3 DEF Beyond
    <3> QED
      BY <1>3, <3>1, <3>2 DEF Begin, Agree, Beyond
  <2>4. StreamAheadOfEdits'
    <3> SUFFICES ASSUME NEW t \in Turns, target'[t] # 0, stream'[Chat[t]].message = target'[t]
                 PROVE  /\ Begin(outbox'[t], stream'[Chat[t]].text)
                        /\ Beyond(stream[Chat[t]].text, outbox[t], overlapped)'
      BY DEF StreamAheadOfEdits
    <3>1. CASE t = m
      BY <1>3, <2>0, <3>1 DEF Beyond
    <3>2. CASE t # m /\ Chat[t] = Chat[m]
      BY <1>3, <2>3, <3>2 DEF Beyond
    <3>3. CASE t # m /\ Chat[t] # Chat[m]
      BY <1>0, <1>b, <1>c, <1>3, <3>3 DEF StreamAheadOfEdits
    <3> QED
      BY <3>1, <3>2, <3>3
  <2>5. EditsAgree'
    <3> SUFFICES ASSUME NEW t \in Turns, target'[t] # 0
                 PROVE  /\ Agree(outbox'[t], shown'[Chat[t]][target'[t]])
                        /\ Beyond(shown[Chat[t]][target[t]], outbox[t], overlapped)'
      BY DEF EditsAgree
    <3>1. CASE t = m
      BY <1>3, <2>1, <3>1 DEF Beyond, Begin, Agree
    <3>2. CASE t # m
      BY <1>b, <1>c, <1>3, <3>2 DEF EditsAgree
    <3> QED
      BY <3>1, <3>2
  <2>6. EditsOfOne'
    <3> SUFFICES ASSUME NEW t \in Turns, NEW u \in Turns, target'[t] # 0, target'[t] = target'[u],
                        Chat[t] = Chat[u]
                 PROVE  Agree(outbox'[t], outbox'[u]) /\ Beyond(outbox[u], outbox[t], overlapped)'
      BY DEF EditsOfOne
    <3>1. CASE t # m /\ u # m
      BY <1>b, <1>c, <1>3, <3>1 DEF EditsOfOne
    <3>2. CASE t = m /\ u # m
      BY <1>3, <2>3, <3>2 DEF Beyond
    <3>3. CASE t # m /\ u = m
      BY <1>3, <2>3, <3>3 DEF Beyond, Agree, Begin
    <3>4. CASE t = m /\ u = m
      BY <1>3, <2>0, <3>4 DEF Beyond, Agree, Begin
    <3> QED
      BY <3>1, <3>2, <3>3, <3>4
  <2> QED
    BY <2>2, <2>4, <2>5, <2>6 DEF Chained
<1>4. ASSUME NEW p \in Pieces, Streams(m, p) PROVE Chained'
  <2> DEFINE s == stream[Chat[m]].text
  <2>1. /\ s \in Seq(Pieces)
        /\ stream'[Chat[m]].text = Append(s, p)
        /\ stream'[Chat[m]].message = stream[Chat[m]].message /\ stream[Chat[m]].message # 0
        /\ \A k \in Chats \ {Chat[m]} : stream'[k] = stream[k]
        /\ UNCHANGED shown /\ turn[m] \in InFlight /\ p[1] = m
        /\ \A t \in Turns \ {m} : outbox'[t] = outbox[t] /\ target'[t] = target[t]
        /\ target'[m] = 0
              \/ (target'[m] = stream[Chat[m]].message /\ outbox'[m] = Append(s, p))
    BY <1>0, <1>4 DEF Streams, InFlight, TurnStates
  <2> HIDE DEF s
  <2>2. Begin(s, Append(s, p)) /\ DOMAIN Append(s, p) = DOMAIN s \cup {Len(s) + 1}
        /\ Append(s, p)[Len(s) + 1] = p
    BY <2>1, AppendBegins
  <2>3. ASSUME NEW t \in Turns \ {m}, Chat[t] = Chat[m], target[t] = stream[Chat[m]].message
        PROVE  Beyond(Append(s, p), outbox[t], overlapped)
    <3>1. m \in overlapped
      BY <2>1, <2>3, EditsAreShared
    <3>2. Beyond(s, outbox[t], overlapped)
      BY <1>c, <2>1, <2>3 DEF StreamAheadOfEdits, s
    <3> QED
      BY <2>1, <2>2, <3>1, <3>2 DEF Beyond, Begin, Agree
  <2> QED
    BY <1>3, <2>1, <2>2, <2>3 DEF s
<1>5. CASE TakesStream(m)
  <2>1. /\ stream' = stream /\ stream[Chat[m]].message # 0 /\ UNCHANGED shown
        /\ \A t \in Turns \ {m} : outbox'[t] = outbox[t] /\ target'[t] = target[t]
        /\ target'[m] = stream[Chat[m]].message /\ outbox'[m] = stream[Chat[m]].text
    BY <1>0, <1>5 DEF TakesStream
  <2>2. Begin(stream[Chat[m]].text, stream[Chat[m]].text)
    BY DEF Begin, Agree
  <2>3. \A t \in Turns \ {m} : Chat[t] = Chat[m] /\ target[t] = stream[Chat[m]].message =>
            Beyond(stream[Chat[m]].text, outbox[t], overlapped)
    BY <1>c, <2>1 DEF StreamAheadOfEdits
  <2> QED
    BY <1>3, <2>1, <2>2, <2>3
<1>d. CallOver(m) => /\ target'[m] = 0
                     /\ \A t \in Turns \ {m} : outbox'[t] = outbox[t] /\ target'[t] = target[t]
  BY <1>0 DEF CallOver
<1>e. ASSUME Forgets(m)
      PROVE  \A k \in Chats : stream'[k] = stream[k] \/ stream'[k].message = 0
  BY <1>0, <1>e DEF Forgets, NoStream
<1>6. CASE Posts(m)
  <2>1. /\ \A k \in Chats : \A i \in DOMAIN shown[k] : shown'[k][i] = shown[k][i]
        /\ Len(shown[Chat[m]]) + 1 \notin DOMAIN shown[Chat[m]]
        /\ shown'[Chat[m]][Len(shown[Chat[m]]) + 1] = outbox[m]
    BY <1>0, <1>6, PostShows DEF Posts
  <2>2. /\ \A t \in Turns : target[t] # 0 => target[t] \in DOMAIN shown[Chat[t]]
        /\ \A k \in Chats : stream[k].message # 0 => stream[k].message \in DOMAIN shown[k]
    BY <1>0 DEF Typed, Aimed, ChannelTyped
  <2>3. \A k \in Chats :
            \/ stream'[k] = stream[k]
            \/ /\ k = Chat[m] /\ stream'[k].message = Len(shown[k]) + 1
               /\ stream'[k].text = outbox[m]
    BY <1>0, <1>6 DEF Posts
  <2>4. StreamAhead'
    BY <1>c, <2>1, <2>2, <2>3 DEF StreamAhead, Begin, Agree
  <2>a. \A t \in Turns : target'[t] # 0 =>
            /\ target'[t] = target[t] /\ outbox'[t] = outbox[t] /\ Chat[t] \in Chats
            /\ target[t] \in DOMAIN shown[Chat[t]]
            /\ shown'[Chat[t]][target[t]] = shown[Chat[t]][target[t]]
            /\ stream'[Chat[t]].message = target[t] => stream'[Chat[t]] = stream[Chat[t]]
    <3> SUFFICES ASSUME NEW t \in Turns, target'[t] # 0
                 PROVE  /\ target'[t] = target[t] /\ outbox'[t] = outbox[t] /\ Chat[t] \in Chats
                        /\ target[t] \in DOMAIN shown[Chat[t]]
                        /\ shown'[Chat[t]][target[t]] = shown[Chat[t]][target[t]]
                        /\ stream'[Chat[t]].message = target[t] => stream'[Chat[t]] = stream[Chat[t]]
      OBVIOUS
    <3>1. target'[t] = target[t] /\ outbox'[t] = outbox[t] /\ Chat[t] \in Chats
      BY <1>0, <1>d, <1>6 DEF Posts
    <3>2. target[t] \in DOMAIN shown[Chat[t]]
      BY <2>2, <3>1
    <3>3. stream'[Chat[t]].message = target[t] => stream'[Chat[t]] = stream[Chat[t]]
      BY <2>1, <2>3, <3>1, <3>2
    <3> QED
      BY <2>1, <3>1, <3>2, <3>3
  <2>5. StreamAheadOfEdits'
    BY <1>b, <1>c, <2>a DEF StreamAheadOfEdits
  <2>6. EditsAgree'
    BY <1>b, <1>c, <2>a DEF EditsAgree
  <2>7. EditsOfOne'
    BY <1>b, <1>c, <1>d, <1>6 DEF EditsOfOne, Posts
  <2> QED
    BY <2>4, <2>5, <2>6, <2>7 DEF Chained
<1>7. CASE Edits(m)
  <2>1. /\ target[m] # 0
        /\ shown'[Chat[m]][target[m]] = outbox[m]
        /\ \A k \in Chats : \A i \in DOMAIN shown[k] :
                k # Chat[m] \/ i # target[m] => shown'[k][i] = shown[k][i]
    <3>1. Edit(m) /\ target[m] # 0
      BY <1>7 DEF Edits
    <3>2. /\ \A k \in Chats \ {Chat[m]} : shown'[k] = shown[k]
          /\ shown'[Chat[m]][target[m]] = outbox[m]
          /\ \A i \in DOMAIN shown[Chat[m]] \ {target[m]} :
                shown'[Chat[m]][i] = shown[Chat[m]][i]
      BY <1>0, <3>1, EditShows
    <3>3. ASSUME NEW k \in Chats, NEW i \in DOMAIN shown[k], k # Chat[m] \/ i # target[m]
          PROVE  shown'[k][i] = shown[k][i]
      <4>1. CASE k = Chat[m]
        BY <3>2, <3>3, <4>1
      <4>2. CASE k # Chat[m]
        BY <3>2, <4>2
      <4> QED
        BY <4>1, <4>2
    <3> QED
      BY <3>1, <3>2, <3>3
  <2>2. /\ \A t \in Turns : target[t] # 0 => target[t] \in DOMAIN shown[Chat[t]]
        /\ \A k \in Chats : stream[k].message # 0 => stream[k].message \in DOMAIN shown[k]
    BY <1>0 DEF Typed, Aimed, ChannelTyped
  <2>3. CallOver(m) /\ \A k \in Chats : stream'[k] = stream[k] \/ stream'[k].message = 0
    BY <1>7, <1>e DEF Edits
  <2>4. StreamAhead'
    BY <1>c, <2>1, <2>2, <2>3 DEF StreamAhead, StreamAheadOfEdits
  <2>5. StreamAheadOfEdits'
    BY <1>0, <1>b, <1>c, <1>d, <2>3 DEF StreamAheadOfEdits
  <2>6. EditsAgree'
    <3> SUFFICES ASSUME NEW t \in Turns \ {m}, target[t] # 0
                 PROVE  /\ Agree(outbox[t], shown'[Chat[t]][target[t]])
                        /\ Beyond(shown'[Chat[t]][target[t]], outbox[t], overlapped)
      BY <1>b, <1>d, <2>3 DEF EditsAgree
    <3>1. CASE Chat[t] = Chat[m] /\ target[t] = target[m]
      BY <1>c, <2>1, <3>1 DEF EditsOfOne
    <3>2. CASE Chat[t] # Chat[m] \/ target[t] # target[m]
      BY <1>0, <1>c, <2>1, <2>2, <3>2 DEF EditsAgree
    <3> QED
      BY <3>1, <3>2
  <2>7. EditsOfOne'
    BY <1>b, <1>c, <1>d, <2>3 DEF EditsOfOne
  <2> QED
    BY <2>4, <2>5, <2>6, <2>7 DEF Chained
<1>8. CASE Drops(m)
  <2>3. CallOver(m) /\ UNCHANGED shown
        /\ \A k \in Chats : stream'[k] = stream[k] \/ stream'[k].message = 0
    BY <1>8, <1>e DEF Drops
  <2>4. StreamAhead'
    BY <1>c, <2>3 DEF StreamAhead
  <2>5. StreamAheadOfEdits'
    BY <1>0, <1>b, <1>c, <1>d, <2>3 DEF StreamAheadOfEdits
  <2>6. EditsAgree'
    BY <1>b, <1>c, <1>d, <2>3 DEF EditsAgree
  <2>7. EditsOfOne'
    BY <1>b, <1>c, <1>d, <2>3 DEF EditsOfOne
  <2> QED
    BY <2>4, <2>5, <2>6, <2>7 DEF Chained
<1> QED
  BY <1>2, <1>4, <1>5, <1>6, <1>7, <1>8 DEF Acts, Move

LEMMA ChainedStep == Settled /\ Owned /\ Chained /\ [Next]_vars => Chained'
<1> SUFFICES ASSUME Settled, Owned, Chained, [Next]_vars PROVE Chained'
  OBVIOUS
<1>1. ASSUME Rests PROVE Chained'
  <2>1. /\ UNCHANGED <<outbox, target, stream, shown>>
        /\ overlapped \subseteq overlapped'
    BY <1>1 DEF Rests, Fixed, Grown
  <2>2. \A s, t : Beyond(s, t, overlapped) => Beyond(s, t, overlapped')
    BY <2>1 DEF Beyond
  <2>3. StreamAhead' /\ StreamAheadOfEdits'
    BY <2>1, <2>2 DEF Chained, StreamAhead, StreamAheadOfEdits
  <2>4. EditsAgree' /\ EditsOfOne'
    BY <2>1, <2>2 DEF Chained, EditsAgree, EditsOfOne
  <2> QED
    BY <2>3, <2>4 DEF Chained
<1>2. ASSUME NEW m \in Turns, Acts(m) PROVE Chained'
  BY <1>2, ChainedAct
<1> QED
  BY <1>1, <1>2, EveryAct

-----------------------------------------------------------------------------
\* More of what a turn's step does: what its calls carry, and of whom.
Carries(m) ==
    /\ turn'[m] = "whole" => outbox'[m] = <<Piece(m)>> /\ m \notin streams
    /\ turn'[m] = "tool" => outbox'[m] = <<ToolLine(m)>>
    /\ turn'[m] = "showing" => ~Live(m) /\ said' = said
    /\ turn'[m] # "direct"
    /\ turn'[m] \in Working \cup {"flushing"} => turn[m] \in Working \cup {"preparing", "whole"}
    /\ turn[m] = "apologising" => turn'[m] = "ended"
    /\ turn[m] = "direct" => turn'[m] = "ended"
    /\ streamed' = streamed \/ (streamed' = streamed \cup {m} /\ turn[m] = "agent")
    /\ said' = said \/ turn[m] = "agent"
    /\ tool'[m] # tool[m] => UNCHANGED <<buffer, stream>>
    /\ turn[m] = "starting" /\ shown' # shown =>
            stream' = [stream EXCEPT ![Chat[m]] =
                            [message |-> Len(shown[Chat[m]]) + 1, text |-> outbox[m]]]

\* One thing happens at a time: something is said, shown, refused, or the agent
\* raises.
Marks(m) ==
    /\ UNCHANGED overlapped
    /\ \/ UNCHANGED untold
       \/ /\ untold' = untold \cup {Piece(m)} /\ said' = [said EXCEPT ![m] = @ + 1]
          /\ Keeps(m)
    /\ \/ UNCHANGED failures
       \/ failures' = failures + 1 /\ UNCHANGED <<said, tool, shown, failed, untold>>
    /\ \/ UNCHANGED failed
       \/ failed' = failed \cup {m} /\ UNCHANGED <<said, tool, shown, untold>>
          /\ turn'[m] = "apologising"
    /\ UNCHANGED shown \/ UNCHANGED <<said, tool, failures, failed, untold>>
    /\ UNCHANGED <<said, tool, untold>> \/ turn'[m] \in InFlight

LEMMA OwnCarries ==
    ASSUME Settled, NEW m \in Turns, OwnStep(m)
    PROVE  Carries(m)
<1>0. /\ turn \in [Turns -> TurnStates] /\ outbox \in [Turns -> Seq(Pieces)]
      /\ tool \in [Turns -> {"none", "called", "done"}]
      /\ failures \in Nat
  BY DEF Settled, Typed, FlowTyped, CallsTyped, AgentTyped, RestTyped
<1>1. CASE Prepare(m)
  BY <1>0, <1>1 DEF Carries, Prepare, Goes, Calls, Answered, agentVars, callVars, channelVars,
     historyVars, PlatformFails, Working
<1>2. CASE BufferChunk(m)
  BY <1>0, <1>2 DEF Carries, BufferChunk, NewChunk, InModel, InAgent, Goes, Calls, Answered,
     agentVars, callVars, channelVars, historyVars, PlatformFails, Working
<1>3. CASE StartMessage(m)
  BY <1>0, <1>3 DEF Carries, StartMessage, NewChunk, InModel, InAgent, Goes, Calls, Answered,
     agentVars, callVars, channelVars, historyVars, PlatformFails, Working
<1>4. CASE AppendChunk(m)
  BY <1>0, <1>4 DEF Carries, AppendChunk, NewChunk, InModel, InAgent, Goes, Calls, Answered,
     agentVars, callVars, channelVars, historyVars, PlatformFails, Working
<1>5. CASE Started(m)
  BY <1>0, <1>5 DEF Carries, Started, Goes, Calls, Answered, agentVars, callVars, channelVars,
     historyVars, PlatformFails, Working
<1>6. CASE Edited(m)
  BY <1>0, <1>6 DEF Carries, Edited, Goes, Calls, Answered, agentVars, callVars, channelVars,
     historyVars, PlatformFails, Working
<1>7. CASE ModelUpdate(m)
  BY <1>0, <1>7 DEF Carries, ModelUpdate, InModel, InAgent, Goes, Calls, Answered, agentVars,
     callVars, channelVars, historyVars, PlatformFails, Working
<1>8. CASE WholeUpdate(m)
  BY <1>0, <1>8 DEF Carries, WholeUpdate, InModel, InAgent, Goes, Calls, Answered, agentVars,
     callVars, channelVars, historyVars, PlatformFails, Working
<1>9. CASE ToolCall(m)
  BY <1>0, <1>9 DEF Carries, ToolCall, InAgent, Goes, Calls, Answered, agentVars, callVars,
     channelVars, historyVars, PlatformFails, Working
<1>10. CASE ToolResult(m)
  BY <1>0, <1>10 DEF Carries, ToolResult, InAgent, Goes, Calls, Answered, agentVars, callVars,
     channelVars, historyVars, PlatformFails, Working
<1>11. CASE ToolSent(m)
  BY <1>0, <1>11 DEF Carries, ToolSent, Goes, Calls, Answered, agentVars, callVars,
     channelVars, historyVars, PlatformFails, Working
<1>12. CASE EndUnstreamed(m)
  BY <1>0, <1>12 DEF Carries, EndUnstreamed, StreamEnds, Goes, Calls, Answered, agentVars,
     callVars, channelVars, historyVars, PlatformFails, Working
<1>13. CASE EndBuffered(m)
  BY <1>0, <1>13 DEF Carries, EndBuffered, StreamEnds, Goes, Calls, Answered, agentVars,
     callVars, channelVars, historyVars, PlatformFails, Working
<1>14. CASE EndEdited(m)
  BY <1>0, <1>14 DEF Carries, EndEdited, StreamEnds, Goes, Calls, Answered, agentVars,
     callVars, channelVars, historyVars, PlatformFails, Working
<1>15. CASE Flushed(m)
  BY <1>0, <1>15 DEF Carries, Flushed, Goes, Calls, Answered, agentVars, callVars, channelVars,
     historyVars, PlatformFails, Working
<1>16. CASE Sent(m)
  BY <1>0, <1>16 DEF Carries, Sent, AfterSend, Goes, Calls, Answered, agentVars, callVars,
     channelVars, historyVars, PlatformFails, Working
<1>17. CASE Apologise(m)
  BY <1>0, <1>17 DEF Carries, Apologise, Goes, Calls, Answered, agentVars, callVars,
     channelVars, historyVars, PlatformFails, Working
<1>18. CASE PrepareRaises(m)
  BY <1>0, <1>18 DEF Carries, PrepareRaises, Goes, Calls, Answered, agentVars, callVars,
     channelVars, historyVars, PlatformFails, Working
<1>19. CASE Block(m)
  BY <1>0, <1>19 DEF Carries, Block, Goes, Calls, Answered, agentVars, callVars, channelVars,
     historyVars, PlatformFails, Working
<1>20. CASE AgentRaises(m)
  BY <1>0, <1>20 DEF Carries, AgentRaises, Goes, Calls, Answered, agentVars, callVars,
     channelVars, historyVars, PlatformFails, Working
<1>21. CASE StreamCallFails(m)
  BY <1>0, <1>21 DEF Carries, StreamCallFails, Goes, Calls, Answered, agentVars, callVars,
     channelVars, historyVars, PlatformFails, Working
<1>22. CASE SendFails(m)
  BY <1>0, <1>22 DEF Carries, SendFails, AfterSend, Goes, Calls, Answered, agentVars, callVars,
     channelVars, historyVars, PlatformFails, Working
<1> QED
  BY <1>1, <1>2, <1>3, <1>4, <1>5, <1>6, <1>7, <1>8, <1>9, <1>10, <1>11, <1>12, <1>13, <1>14,
     <1>15, <1>16, <1>17, <1>18, <1>19, <1>20, <1>21, <1>22 DEF OwnStep, TurnStep

LEMMA OwnMarks ==
    ASSUME Settled, NEW m \in Turns, OwnStep(m)
    PROVE  Marks(m)
<1>0. /\ turn \in [Turns -> TurnStates] /\ outbox \in [Turns -> Seq(Pieces)]
      /\ tool \in [Turns -> {"none", "called", "done"}]
      /\ failures \in Nat
  BY DEF Settled, Typed, FlowTyped, CallsTyped, AgentTyped, RestTyped
<1>1. CASE Prepare(m)
  BY <1>0, <1>1 DEF Marks, Prepare, Goes, Calls, Answered, agentVars, callVars, channelVars,
     historyVars, PlatformFails, Keeps, InFlight, TurnStates
<1>2. CASE BufferChunk(m)
  BY <1>0, <1>2 DEF Marks, BufferChunk, NewChunk, InModel, InAgent, Goes, Calls, Answered,
     agentVars, callVars, channelVars, historyVars, PlatformFails, Keeps, InFlight, TurnStates
<1>3. CASE StartMessage(m)
  BY <1>0, <1>3 DEF Marks, StartMessage, NewChunk, InModel, InAgent, Goes, Calls, Answered,
     agentVars, callVars, channelVars, historyVars, PlatformFails, Keeps, InFlight, TurnStates
<1>4. CASE AppendChunk(m)
  BY <1>0, <1>4 DEF Marks, AppendChunk, NewChunk, InModel, InAgent, Goes, Calls, Answered,
     agentVars, callVars, channelVars, historyVars, PlatformFails, Keeps, InFlight, TurnStates
<1>5. CASE Started(m)
  BY <1>0, <1>5 DEF Marks, Started, Goes, Calls, Answered, agentVars, callVars, channelVars,
     historyVars, PlatformFails, Keeps, InFlight, TurnStates
<1>6. CASE Edited(m)
  BY <1>0, <1>6 DEF Marks, Edited, Goes, Calls, Answered, agentVars, callVars, channelVars,
     historyVars, PlatformFails, Keeps, InFlight, TurnStates
<1>7. CASE ModelUpdate(m)
  BY <1>0, <1>7 DEF Marks, ModelUpdate, InModel, InAgent, Goes, Calls, Answered, agentVars,
     callVars, channelVars, historyVars, PlatformFails, Keeps, InFlight, TurnStates
<1>8. CASE WholeUpdate(m)
  BY <1>0, <1>8 DEF Marks, WholeUpdate, InModel, InAgent, Goes, Calls, Answered, agentVars,
     callVars, channelVars, historyVars, PlatformFails, Keeps, InFlight, TurnStates
<1>9. CASE ToolCall(m)
  BY <1>0, <1>9 DEF Marks, ToolCall, InAgent, Goes, Calls, Answered, agentVars, callVars,
     channelVars, historyVars, PlatformFails, Keeps, InFlight, TurnStates
<1>10. CASE ToolResult(m)
  BY <1>0, <1>10 DEF Marks, ToolResult, InAgent, Goes, Calls, Answered, agentVars, callVars,
     channelVars, historyVars, PlatformFails, Keeps, InFlight, TurnStates
<1>11. CASE ToolSent(m)
  BY <1>0, <1>11 DEF Marks, ToolSent, Goes, Calls, Answered, agentVars, callVars, channelVars,
     historyVars, PlatformFails, Keeps, InFlight, TurnStates
<1>12. CASE EndUnstreamed(m)
  BY <1>0, <1>12 DEF Marks, EndUnstreamed, StreamEnds, Goes, Calls, Answered, agentVars,
     callVars, channelVars, historyVars, PlatformFails, Keeps, InFlight, TurnStates
<1>13. CASE EndBuffered(m)
  BY <1>0, <1>13 DEF Marks, EndBuffered, StreamEnds, Goes, Calls, Answered, agentVars,
     callVars, channelVars, historyVars, PlatformFails, Keeps, InFlight, TurnStates
<1>14. CASE EndEdited(m)
  BY <1>0, <1>14 DEF Marks, EndEdited, StreamEnds, Goes, Calls, Answered, agentVars, callVars,
     channelVars, historyVars, PlatformFails, Keeps, InFlight, TurnStates
<1>15. CASE Flushed(m)
  BY <1>0, <1>15 DEF Marks, Flushed, Goes, Calls, Answered, agentVars, callVars, channelVars,
     historyVars, PlatformFails, Keeps, InFlight, TurnStates
<1>16. CASE Sent(m)
  BY <1>0, <1>16 DEF Marks, Sent, AfterSend, Goes, Calls, Answered, agentVars, callVars,
     channelVars, historyVars, PlatformFails, Keeps, InFlight, TurnStates
<1>17. CASE Apologise(m)
  BY <1>0, <1>17 DEF Marks, Apologise, Goes, Calls, Answered, agentVars, callVars, channelVars,
     historyVars, PlatformFails, Keeps, InFlight, TurnStates
<1>18. CASE PrepareRaises(m)
  BY <1>0, <1>18 DEF Marks, PrepareRaises, Goes, Calls, Answered, agentVars, callVars,
     channelVars, historyVars, PlatformFails, Keeps, InFlight, TurnStates
<1>19. CASE Block(m)
  BY <1>0, <1>19 DEF Marks, Block, Goes, Calls, Answered, agentVars, callVars, channelVars,
     historyVars, PlatformFails, Keeps, InFlight, TurnStates
<1>20. CASE AgentRaises(m)
  BY <1>0, <1>20 DEF Marks, AgentRaises, Goes, Calls, Answered, agentVars, callVars,
     channelVars, historyVars, PlatformFails, Keeps, InFlight, TurnStates
<1>21. CASE StreamCallFails(m)
  BY <1>0, <1>21 DEF Marks, StreamCallFails, Goes, Calls, Answered, agentVars, callVars,
     channelVars, historyVars, PlatformFails, Keeps, InFlight, TurnStates
<1>22. CASE SendFails(m)
  BY <1>0, <1>22 DEF Marks, SendFails, AfterSend, Goes, Calls, Answered, agentVars, callVars,
     channelVars, historyVars, PlatformFails, Keeps, InFlight, TurnStates
<1> QED
  BY <1>1, <1>2, <1>3, <1>4, <1>5, <1>6, <1>7, <1>8, <1>9, <1>10, <1>11, <1>12, <1>13, <1>14,
     <1>15, <1>16, <1>17, <1>18, <1>19, <1>20, <1>21, <1>22 DEF OwnStep, TurnStep

-----------------------------------------------------------------------------
\* A step is one of a turn in flight, or the start of a subagent's message, or
\* what no chat can tell.
Starts(m) ==
    /\ m \in Direct /\ turn[m] = "queued" /\ turn' = [turn EXCEPT ![m] = "direct"]
    /\ <<m, 1>> \in Pieces /\ Asks(m, <<m, 1>>)
    /\ outbox'[m] = <<<<m, 1>>>> /\ UNCHANGED tool
Readies ==
    /\ Rests
    /\ \A t \in Turns :
        \/ turn'[t] = turn[t]
        \/ turn[t] = "away" /\ turn'[t] = "queued"
        \/ turn[t] = "queued" /\ turn'[t] = "preparing" /\ t \notin Direct

LEMMA EveryStep ==
    ASSUME Settled, [Next]_vars
    PROVE  \/ \E m \in Turns : OwnStep(m)
           \/ /\ UNCHANGED <<streams, streamed, untold, failed, failures, configVars>>
              /\ Grown
              /\ Readies \/ \E m \in Turns : Starts(m) /\ Acts(m)
<1>0. Typed /\ Lined /\ Unsaid /\ Idle /\ turn \in [Turns -> TurnStates]
  BY DEF Settled, Typed, FlowTyped
<1>g. Grown
  BY EveryMove
<1>1. ASSUME NEW m \in Turns, Publish(m)
      PROVE  Readies /\ UNCHANGED <<streams, streamed, untold, failed, failures, configVars>>
  BY <1>0, <1>1, <1>g DEF Publish, Goes, Rests, Readies, Fixed, agentVars, callVars, historyVars
<1>2. ASSUME Handle
      PROVE  /\ UNCHANGED <<streams, streamed, untold, failed, failures, configVars>>
             /\ Readies \/ \E m \in Turns : Starts(m) /\ Acts(m)
  <2>1. PICK m \in Turns :
            /\ turn[m] = "queued"
            /\ \/ /\ m \in Direct /\ outbox' = [outbox EXCEPT ![m] = <<<<m, 1>>>>]
                  /\ said' = [said EXCEPT ![m] = 1] /\ turn' = [turn EXCEPT ![m] = "direct"]
               \/ /\ m \notin Direct
                  /\ UNCHANGED <<said, outbox>> /\ turn' = [turn EXCEPT ![m] = "preparing"]
            /\ UNCHANGED <<tool, target, buffer, stream, shown, lost>>
    BY <1>0, <1>2, HandleIs
  <2>2. UNCHANGED <<streams, streamed, untold, failed, failures, configVars>>
    BY <1>2 DEF Handle
  <2>3. CASE /\ m \notin Direct
             /\ UNCHANGED <<said, outbox>> /\ turn' = [turn EXCEPT ![m] = "preparing"]
    <3>1. Rests
      BY <1>0, <1>g, <2>1, <2>2, <2>3 DEF Rests, Fixed
    <3> QED
      BY <1>0, <2>1, <2>2, <2>3, <3>1 DEF Readies
  <2>4. CASE /\ m \in Direct /\ outbox' = [outbox EXCEPT ![m] = <<<<m, 1>>>>]
             /\ said' = [said EXCEPT ![m] = 1] /\ turn' = [turn EXCEPT ![m] = "direct"]
    <3>1. said[m] = 0 /\ outbox[m] = <<>> /\ target[m] = 0 /\ said \in [Turns -> 0..MaxPieces]
      BY <1>0, <2>1 DEF Unsaid, Idle, Calling, Typed, AgentTyped
    <3>2. Piece(m) = <<m, 1>> /\ <<m, 1>> \in Pieces
      BY <3>1, TurnAssumption DEF Piece, Pieces
    <3>3. said' = [said EXCEPT ![m] = @ + 1]
      BY <2>4, <3>1
    <3>4. Asks(m, <<m, 1>>)
      BY <2>1, <2>4, <3>1, <3>2, <3>3 DEF Asks, Says
    <3>5. /\ turn'[m] = "direct" /\ \A n \in Turns \ {m} : turn'[n] = turn[n]
          /\ outbox'[m] = <<<<m, 1>>>>
      BY <1>0, <2>4 DEF Typed, CallsTyped
    <3>6. Acts(m)
      BY <1>g, <2>1, <2>2, <3>2, <3>4, <3>5 DEF Acts, Move, Fails, Begins
    <3> QED
      BY <2>1, <2>2, <2>4, <3>2, <3>4, <3>5, <3>6 DEF Starts
  <2> QED
    BY <2>1, <2>3, <2>4
<1>3. ASSUME UNCHANGED vars
      PROVE  Readies /\ UNCHANGED <<streams, streamed, untold, failed, failures, configVars>>
  BY <1>3, <1>g DEF vars, agentVars, callVars, channelVars, historyVars, Rests, Readies, Fixed
<1> QED
  BY <1>g, <1>1, <1>2, <1>3, Steps

LEMMA OwnActs ==
    ASSUME Settled, NEW m \in Turns, OwnStep(m)
    PROVE  Acts(m) /\ Frame(m) /\ Carries(m) /\ Marks(m)
<1>1. Frame(m) /\ Move(m) /\ Carries(m) /\ Marks(m) /\ Fails /\ Begins(m)
  BY OwnFrame, OwnMove, OwnCarries, OwnMarks, OwnBegins DEF Settled
<1> QED
  BY <1>1 DEF Acts, Frame, Grown

-----------------------------------------------------------------------------
\* Pieces only move, once they are said.
Somewhere(p) ==
    \/ \E k \in Chats : p \in ToSet(buffer[k]) \/ p \in ToSet(stream[k].text) \/ InChat(p, k)
    \/ \E t \in Turns : p \in ToSet(outbox[t])

LEMMA PiecesMove ==
    ASSUME Settled, NEW m \in Turns, Move(m), NEW p, Somewhere(p)'
    PROVE  Somewhere(p) \/ (p \in Pieces /\ Says(m, p))
<1>0. /\ Chat[m] \in Chats
      /\ buffer \in [Chats -> Seq(Pieces)] /\ outbox \in [Turns -> Seq(Pieces)]
      /\ target \in [Turns -> Nat]
      /\ stream \in [Chats -> [message : Nat, text : Seq(Pieces)]]
      /\ ToSet(NoStream.text) = {}
  BY TurnAssumption, SmallSets DEF Settled, Typed, ChannelTyped, CallsTyped, NoStream
<1>1. ASSUME NEW k \in Chats, InChat(p, k)' PROVE Somewhere(p)
  <2>1. PICK i \in DOMAIN shown'[k] : p \in ToSet(shown'[k][i])
    BY <1>1 DEF InChat
  <2>2. CASE i \in DOMAIN shown[k] /\ shown'[k][i] = shown[k][i]
    BY <2>1, <2>2 DEF InChat, Somewhere
  <2>3. CASE shown'[k][i] = outbox[m]
    BY <2>1, <2>3 DEF Somewhere
  <2> QED
    BY <2>1, <2>2, <2>3, ShownMoves
<1>s. ASSUME UNCHANGED <<buffer, outbox, stream>> PROVE Somewhere(p)
  BY <1>1, <1>s DEF Somewhere
<1>2. CASE Keeps(m)
  BY <1>2, <1>s DEF Keeps
<1>3. ASSUME NEW q \in Pieces, Buffers(m, q) PROVE Somewhere(p) \/ (p \in Pieces /\ Says(m, p))
  <2>1. /\ buffer'[Chat[m]] = Append(buffer[Chat[m]], q)
        /\ \A k \in Chats \ {Chat[m]} : buffer'[k] = buffer[k]
        /\ ToSet(Append(buffer[Chat[m]], q)) = ToSet(buffer[Chat[m]]) \cup {q}
    BY <1>0, <1>3, AppendSet DEF Buffers
  <2> QED
    BY <1>1, <1>3, <2>1 DEF Buffers, Somewhere
<1>4. ASSUME NEW q \in Pieces, Asks(m, q) PROVE Somewhere(p) \/ (p \in Pieces /\ Says(m, p))
  <2>1. /\ ToSet(outbox'[m]) = {q} /\ \A t \in Turns \ {m} : outbox'[t] = outbox[t]
    BY <1>0, <1>4, SmallSets DEF Asks
  <2> QED
    BY <1>1, <1>4, <2>1 DEF Asks, Somewhere
<1>5. ASSUME NEW q \in Pieces, Streams(m, q) PROVE Somewhere(p) \/ (p \in Pieces /\ Says(m, p))
  <2>1. /\ stream'[Chat[m]].text = Append(stream[Chat[m]].text, q)
        /\ \A k \in Chats \ {Chat[m]} : stream'[k] = stream[k]
        /\ ToSet(Append(stream[Chat[m]].text, q)) = ToSet(stream[Chat[m]].text) \cup {q}
        /\ outbox'[m] = outbox[m] \/ outbox'[m] = Append(stream[Chat[m]].text, q)
        /\ \A t \in Turns \ {m} : outbox'[t] = outbox[t]
        /\ buffer' = buffer /\ Says(m, q)
    BY <1>0, <1>5, AppendSet DEF Streams
  <2>2. CASE p = q
    BY <2>1, <2>2
  <2>3. ASSUME NEW k \in Chats, p \in ToSet(stream'[k].text), p # q PROVE Somewhere(p)
    BY <2>1, <2>3 DEF Somewhere
  <2>4. ASSUME NEW t \in Turns, p \in ToSet(outbox'[t]), p # q PROVE Somewhere(p)
    <3>1. CASE t = m
      BY <1>0, <2>1, <2>4, <3>1 DEF Somewhere
    <3>2. CASE t # m
      BY <2>1, <2>4, <3>2 DEF Somewhere
    <3> QED
      BY <3>1, <3>2
  <2> QED
    BY <1>1, <2>1, <2>2, <2>3, <2>4 DEF Somewhere
<1>6. CASE TakesBuffer(m)
  <2>1. /\ buffer'[Chat[m]] = <<>> /\ \A k \in Chats \ {Chat[m]} : buffer'[k] = buffer[k]
        /\ outbox'[m] = buffer[Chat[m]] /\ \A t \in Turns \ {m} : outbox'[t] = outbox[t]
    BY <1>0, <1>6 DEF TakesBuffer
  <2> QED
    BY <1>0, <1>1, <1>6, <2>1, SmallSets DEF TakesBuffer, Somewhere
<1>7. CASE TakesStream(m)
  <2>1. outbox'[m] = stream[Chat[m]].text /\ \A t \in Turns \ {m} : outbox'[t] = outbox[t]
    BY <1>0, <1>7 DEF TakesStream
  <2> QED
    BY <1>0, <1>1, <1>7, <2>1 DEF TakesStream, Somewhere
<1>8. CASE Posts(m) \/ Edits(m) \/ Drops(m)
  <2>1. /\ buffer' = buffer /\ ToSet(outbox'[m]) = {}
        /\ \A t \in Turns \ {m} : outbox'[t] = outbox[t]
    BY <1>0, <1>8, SmallSets DEF Posts, Edits, Drops, CallOver
  <2>2. \A k \in Chats :
            stream'[k] = stream[k] \/ stream'[k].text = outbox[m] \/ stream'[k] = NoStream
    BY <1>0, <1>8 DEF Posts, Edits, Drops, Forgets
  <2> QED
    BY <1>0, <1>1, <2>1, <2>2 DEF Somewhere
<1> QED
  BY <1>2, <1>3, <1>4, <1>5, <1>6, <1>7, <1>8 DEF Move

\* Text beside a tool call that is not sent is nowhere.
UntoldUnseen == \A p \in untold : p[2] \in 1..said[p[1]] /\ ~Somewhere(p)

LEMMA SomewhereIsProper == Belongs => \A p : Somewhere(p) => \E k : Proper(p, k)
BY DEF Belongs, BufferProper, StreamProper, CallsProper, ShownProper, Somewhere, InChat

LEMMA UntoldUnseenStep ==
    Settled /\ Belongs /\ UntoldUnseen /\ [Next]_vars => UntoldUnseen'
<1> SUFFICES ASSUME Settled, Belongs, UntoldUnseen, [Next]_vars, NEW p \in untold'
             PROVE  p[2] \in 1..said'[p[1]] /\ ~Somewhere(p)'
  BY DEF UntoldUnseen
<1>0. /\ said \in [Turns -> 0..MaxPieces] /\ MaxPieces \in Nat /\ untold' \subseteq Pieces
      /\ \A q \in Pieces : q = <<q[1], q[2]>> /\ q[1] \in Turns /\ q[2] \in Nat
  <2>1. untold' \subseteq Pieces
    BY SettledStep DEF Settled, Typed, RestTyped
  <2> QED
    BY <2>1, TurnAssumption DEF Settled, Typed, AgentTyped, Pieces
<1>1. ASSUME NEW m \in Turns, Move(m) PROVE said[p[1]] <= said'[p[1]] /\ said'[p[1]] \in Nat
  <2>1. said' = said \/ said' = [said EXCEPT ![m] = @ + 1]
    BY <1>1 DEF Move, Keeps, Buffers, Asks, Streams, Says, TakesBuffer, TakesStream, Posts,
       Edits, Drops, CallOver, SaysNothing
  <2>2. p[1] \in Turns
    BY <1>0
  <2> QED
    BY <1>0, <2>1, <2>2
<1>2. ASSUME NEW m \in Turns, Move(m), untold' = untold
      PROVE  p[2] \in 1..said'[p[1]] /\ ~Somewhere(p)'
  <2>1. p[2] \in 1..said[p[1]] /\ ~Somewhere(p)
    BY <1>2 DEF UntoldUnseen
  <2>2. ~Says(m, p)
    BY <1>0, <2>1 DEF Says, Piece, ToolLine
  <2> QED
    BY <1>0, <1>1, <1>2, <2>1, <2>2, PiecesMove
<1>3. ASSUME NEW m \in Turns, Keeps(m), said' = [said EXCEPT ![m] = @ + 1], p = Piece(m)
      PROVE  p[2] \in 1..said'[p[1]] /\ ~Somewhere(p)'
  <2>1. p[1] = m /\ p[2] = said[m] + 1 /\ said'[m] = said[m] + 1 /\ said[m] \in Nat
    BY <1>0, <1>3 DEF Piece
  <2>2. \A k : ~Proper(p, k)
    BY <2>1 DEF Proper
  <2>3. ~Somewhere(p)
    BY <2>2, SomewhereIsProper
  <2>4. UNCHANGED <<buffer, stream, shown, outbox>>
    BY <1>3 DEF Keeps
  <2> QED
    BY <2>1, <2>3, <2>4 DEF Somewhere, InChat
<1>4. ASSUME NEW m \in Turns, OwnStep(m)
      PROVE  p[2] \in 1..said'[p[1]] /\ ~Somewhere(p)'
  <2>1. Move(m) /\ Marks(m)
    BY <1>4, OwnActs DEF Acts
  <2>2. CASE untold' = untold
    BY <1>2, <2>1, <2>2
  <2>3. CASE /\ untold' = untold \cup {Piece(m)} /\ said' = [said EXCEPT ![m] = @ + 1]
             /\ Keeps(m)
    <3>1. CASE p = Piece(m)
      BY <1>3, <2>3, <3>1
    <3>2. CASE p \in untold
      <4>1. p[2] \in 1..said[p[1]] /\ ~Somewhere(p)
        BY <3>2 DEF UntoldUnseen
      <4>2. UNCHANGED <<buffer, stream, shown, outbox>>
        BY <2>3 DEF Keeps
      <4> QED
        BY <1>0, <1>1, <2>1, <4>1, <4>2 DEF Somewhere, InChat
    <3> QED
      BY <2>3, <3>1, <3>2
  <2> QED
    BY <2>1, <2>2, <2>3 DEF Marks
<1>5. ASSUME Readies, untold' = untold PROVE p[2] \in 1..said'[p[1]] /\ ~Somewhere(p)'
  BY <1>5 DEF Readies, Rests, Fixed, UntoldUnseen, Somewhere, InChat
<1>6. ASSUME NEW m \in Turns, Acts(m), untold' = untold
      PROVE  p[2] \in 1..said'[p[1]] /\ ~Somewhere(p)'
  BY <1>2, <1>6 DEF Acts
<1> QED
  BY <1>4, <1>5, <1>6, EveryStep

\* What the calls of a turn carry: a message of its own or of a subagent its own
\* text, the line of a tool that line, an edit what was streamed.
Kinds ==
    /\ \A t \in Turns : \A p \in ToSet(outbox[t]) :
        /\ turn[t] \in {"whole", "direct"} => p[1] = t
        /\ turn[t] = "starting" => p[2] # 0
        /\ turn[t] = "tool" => p[2] = 0
        /\ target[t] # 0 => p[2] # 0 /\ p[1] \in streamed /\ Live(p[1])
    /\ \A t \in Turns : turn[t] = "whole" => t \notin streams
    /\ \A t \in Turns : turn[t] = "showing" => ~Live(t)
    /\ \A t \in Turns : turn[t] = "direct" => t \in Direct
    /\ \A t \in Direct : turn[t] \in {"away", "queued", "direct", "ended"}
    /\ streamed \cap Direct = {}
    /\ \A t \in failed : turn[t] \in {"apologising", "ended"}
    /\ \A k \in Chats : \A p \in ToSet(stream[k].text) : p[2] # 0

LEMMA KindsStep == Settled /\ Owned /\ Owned' /\ Kinds /\ [Next]_vars => Kinds'
<1> SUFFICES ASSUME Settled, Owned, Owned', Kinds, [Next]_vars PROVE Kinds'
  OBVIOUS
<1>0. /\ outbox \in [Turns -> Seq(Pieces)] /\ target \in [Turns -> Nat]
      /\ turn \in [Turns -> TurnStates] /\ Direct \subseteq Turns /\ Aims /\ Idle
      /\ tool \in [Turns -> {"none", "called", "done"}]
      /\ said \in [Turns -> 0..MaxPieces] /\ MaxPieces \in Nat
      /\ stream \in [Chats -> [message : Nat, text : Seq(Pieces)]]
      /\ \A t \in Turns : Chat[t] \in Chats
  BY TurnAssumption DEF Settled, Typed, FlowTyped, CallsTyped, ChannelTyped, AgentTyped
<1> DEFINE CallsK == \A t \in Turns : \A p \in ToSet(outbox[t]) :
                /\ turn[t] \in {"whole", "direct"} => p[1] = t
                /\ turn[t] = "starting" => p[2] # 0
                /\ turn[t] = "tool" => p[2] = 0
                /\ target[t] # 0 => p[2] # 0 /\ p[1] \in streamed /\ Live(p[1])
           StreamsK == \A k \in Chats : \A p \in ToSet(stream[k].text) : p[2] # 0
           TurnsK ==
                /\ \A t \in Turns : turn[t] = "whole" => t \notin streams
                /\ \A t \in Turns : turn[t] = "showing" => ~Live(t)
                /\ \A t \in Turns : turn[t] = "direct" => t \in Direct
                /\ \A t \in Direct : turn[t] \in {"away", "queued", "direct", "ended"}
                /\ streamed \cap Direct = {}
                /\ \A t \in failed : turn[t] \in {"apologising", "ended"}
<1>k. (CallsK /\ StreamsK /\ TurnsK) /\ (CallsK' /\ StreamsK' /\ TurnsK' => Kinds')
  BY DEF Kinds
<1>1. ASSUME NEW m \in Turns, OwnStep(m) PROVE Kinds'
  <2>1. Acts(m) /\ Move(m) /\ Frame(m) /\ Carries(m) /\ Marks(m)
    BY <1>1, OwnActs DEF Acts
  <2>2. UNCHANGED <<streams, streaming, cron>> /\ streamed \subseteq streamed'
        /\ turn[m] \in InFlight /\ turn'[m] \in InFlight \cup {"ended"}
        /\ \A n \in Turns \ {m} : turn'[n] = turn[n] /\ outbox'[n] = outbox[n] /\ target'[n] = target[n]
    BY <2>1 DEF Frame, configVars
  <2>3. \A t : Live(t)' <=> Live(t)
    BY <2>2 DEF Live, Quiet
  <2>4. TurnsK'
    <3>1. m \in Direct => turn[m] = "direct"
      BY <2>2, <1>k DEF InFlight
    <3>2. m \in Direct => turn'[m] = "ended" /\ streamed' = streamed
      BY <2>1, <3>1 DEF Carries
    <3>3. /\ turn'[m] = "whole" => m \notin streams
          /\ turn'[m] = "showing" => ~Live(m)
          /\ turn'[m] # "direct"
          /\ streamed' = streamed \/ streamed' = streamed \cup {m}
      BY <2>1 DEF Carries
    <3>4. ASSUME NEW t \in Turns
          PROVE  /\ turn'[t] = "whole" => t \notin streams'
                 /\ turn'[t] = "showing" => ~Live(t)'
                 /\ turn'[t] = "direct" => t \in Direct
                 /\ t \in Direct => turn'[t] \in {"away", "queued", "direct", "ended"}
      BY <1>k, <2>2, <2>3, <3>2, <3>3
    <3>5. streamed' \cap Direct = {}
      BY <1>0, <1>k, <3>2, <3>3
    <3>6. \A t \in failed' : turn'[t] \in {"apologising", "ended"}
      <4>1. failed \subseteq Turns
        BY DEF Settled, Typed, RestTyped
      <4>2. ASSUME m \in failed PROVE turn'[m] \in {"apologising", "ended"}
        <5>1. turn[m] = "apologising"
          BY <1>k, <2>2, <4>2 DEF InFlight
        <5> QED
          BY <2>1, <5>1 DEF Carries
      <4>3. failed' = failed \/ (failed' = failed \cup {m} /\ turn'[m] = "apologising")
        BY <2>1 DEF Marks
      <4> QED
        BY <1>k, <2>2, <4>1, <4>2, <4>3
    <3> QED
      BY <1>0, <3>4, <3>5, <3>6
  <2>5. StreamsK'
    <3> SUFFICES ASSUME NEW k \in Chats, NEW p \in ToSet(stream'[k].text) PROVE p[2] # 0
      OBVIOUS
    <3>1. CASE p \in ToSet(stream[k].text)
      BY <1>k, <3>1
    <3>2. CASE Posts(m) /\ turn[m] = "starting" /\ stream'[k].text = outbox[m]
      BY <1>k, <3>2
    <3>3. CASE stream'[k] = NoStream
      BY <3>3, SmallSets DEF NoStream
    <3>4. ASSUME NEW q \in Pieces, Streams(m, q), k = Chat[m], p \notin ToSet(stream[k].text)
          PROVE  p[2] # 0
      <4>1. stream'[k].text = Append(stream[k].text, q)
        BY <1>0, <3>4 DEF Streams
      <4>2. p = q /\ stream' # stream
        BY <1>0, <3>4, <4>1, AppendSet
      <4>3. tool'[m] = tool[m]
        BY <2>1, <4>2 DEF Carries
      <4>4. q = Piece(m)
        BY <1>0, <3>4, <4>3 DEF Streams, Says
      <4> QED
        BY <1>0, <4>2, <4>4 DEF Piece
    <3>5. \/ stream'[k] = stream[k]
          \/ k = Chat[m] /\ \E q \in Pieces : Streams(m, q)
          \/ Posts(m) /\ turn[m] = "starting" /\ stream'[k].text = outbox[m]
          \/ stream'[k] = NoStream
      <4>1. CASE Posts(m)
        BY <1>0, <4>1 DEF Posts
      <4>2. CASE Edits(m) \/ Drops(m)
        BY <1>0, <4>2 DEF Edits, Drops, Forgets
      <4>3. ASSUME NEW q \in Pieces, Streams(m, q), k # Chat[m] PROVE stream'[k] = stream[k]
        BY <1>0, <4>3 DEF Streams
      <4> QED
        BY <2>1, <4>1, <4>2, <4>3 DEF Move, Keeps, Buffers, Asks, TakesBuffer, TakesStream
    <3> QED
      BY <3>1, <3>2, <3>3, <3>4, <3>5
  <2>6. CallsK'
    <3> SUFFICES ASSUME NEW p \in ToSet(outbox'[m])
                 PROVE  /\ turn'[m] \in {"whole", "direct"} => p[1] = m
                        /\ turn'[m] = "starting" => p[2] # 0
                        /\ turn'[m] = "tool" => p[2] = 0
                        /\ target'[m] # 0 => p[2] # 0 /\ p[1] \in streamed' /\ Live(p[1])'
      BY <1>k, <2>2, <2>3
    <3>1. ASSUME turn'[m] = "whole" PROVE p = Piece(m)
      <4>1. outbox'[m] = <<Piece(m)>>
        BY <2>1, <3>1 DEF Carries
      <4> QED
        BY <4>1, SmallSets
    <3>2. turn'[m] = "starting" => p = Piece(m)
      BY <1>1, OwnLeaves, SmallSets DEF Owned
    <3>3. ASSUME turn'[m] = "tool" PROVE p = ToolLine(m)
      <4>1. outbox'[m] = <<ToolLine(m)>>
        BY <2>1, <3>3 DEF Carries
      <4> QED
        BY <4>1, SmallSets
    <3>4. turn'[m] # "direct"
      BY <2>1 DEF Carries
    <3>5. ASSUME target'[m] # 0 PROVE p[2] # 0 /\ p[1] \in streamed' /\ Live(p[1])'
      <4>1. CASE outbox'[m] = outbox[m] /\ target'[m] = target[m]
        BY <1>k, <2>2, <2>3, <3>5, <4>1
      <4>2. CASE outbox'[m] = stream'[Chat[m]].text
        BY <1>0, <2>5, <4>2 DEF Owned, StreamOwners
      <4> QED
        BY <2>1, <3>5, <4>1, <4>2, CallMoves
    <3>6. Piece(m)[1] = m /\ Piece(m)[2] # 0 /\ ToolLine(m)[2] = 0
      BY <1>0 DEF Piece, ToolLine
    <3> QED
      BY <3>1, <3>2, <3>3, <3>4, <3>5, <3>6
  <2> QED
    BY <1>k, <2>4, <2>5, <2>6
<1>2. ASSUME NEW m \in Turns, Starts(m), UNCHANGED <<streams, streamed, failed, configVars>>
      PROVE  Kinds'
  <2>1. /\ outbox'[m] = <<<<m, 1>>>> /\ target'[m] = 0 /\ turn'[m] = "direct" /\ m \in Direct
        /\ UNCHANGED <<stream, streams, streamed, streaming, cron, failed>> /\ turn[m] = "queued"
        /\ \A t \in Turns \ {m} : outbox'[t] = outbox[t] /\ turn'[t] = turn[t]
        /\ target' = target
    BY <1>0, <1>2 DEF Starts, Asks, configVars
  <2>2. \A t : Live(t)' <=> Live(t)
    BY <2>1 DEF Live, Quiet
  <2>3. \A p \in ToSet(outbox'[m]) : p[1] = m
    BY <2>1, SmallSets
  <2>4. CallsK' /\ StreamsK'
    BY <1>k, <2>1, <2>2, <2>3
  <2>5. TurnsK'
    <3>1. \A t \in failed : t # m /\ t \in Turns
      BY <1>k, <2>1 DEF Settled, Typed, RestTyped
    <3>2. \A t \in failed' : turn'[t] \in {"apologising", "ended"}
      BY <1>k, <2>1, <3>1
    <3> QED
      BY <1>0, <1>k, <2>1, <2>2, <3>2
  <2> QED
    BY <1>k, <2>4, <2>5
<1>3. ASSUME Readies, UNCHANGED <<streams, streamed, failed, configVars>> PROVE Kinds'
  <2>1. /\ UNCHANGED <<outbox, target, stream, streams, streamed, streaming, cron, failed>>
        /\ failed \subseteq Turns
        /\ \A t \in Turns :
            \/ turn'[t] = turn[t]
            \/ turn[t] = "away" /\ turn'[t] = "queued"
            \/ turn[t] = "queued" /\ turn'[t] = "preparing" /\ t \notin Direct
    BY <1>3 DEF Readies, Rests, Fixed, configVars, Settled, Typed, RestTyped
  <2>2. \A t : Live(t)' <=> Live(t)
    BY <2>1 DEF Live, Quiet
  <2>3. CallsK' /\ StreamsK'
    BY <1>k, <2>1, <2>2
  <2>4. TurnsK'
    BY <1>0, <1>k, <2>1, <2>2
  <2> QED
    BY <1>k, <2>3, <2>4
<1> QED
  BY <1>1, <1>2, <1>3, EveryStep

LEMMA InitKinds == Init => Kinds /\ UntoldUnseen
<1> SUFFICES ASSUME Init PROVE Kinds /\ UntoldUnseen
  OBVIOUS
<1>1. /\ \A k \in Chats : buffer[k] = <<>> /\ stream[k].text = <<>> /\ DOMAIN shown[k] = {}
      /\ \A t \in Turns : outbox[t] = <<>> /\ turn[t] = "away" /\ target[t] = 0
      /\ streamed = {} /\ untold = {} /\ failed = {} /\ Direct \subseteq Turns
  BY TurnAssumption DEF Init, NoStream
<1> QED
  BY <1>1, SmallSets DEF Kinds, UntoldUnseen

-----------------------------------------------------------------------------
\* The text of a turn that has had the chat for itself so far is shown in the
\* order in which it is said: a call that will post some of it posts what comes
\* after all that is in the chat, and so does what is collected; of a turn that
\* edits, all of it is in the one message that the channel streams.
Apart(m) == m \notin overlapped
TextOf(p, m) == p \in Pieces /\ p[1] = m /\ p[2] # 0
ByEdits(m) == Apart(m) /\ Live(m) /\ m \in streams \ Direct

OneMessage ==
    \A m \in Turns : ByEdits(m) =>
        \A p, q : TextOf(p, m) /\ TextOf(q, m) =>
            \A i, j \in Nat : InVersion(p, Chat[m], i) /\ InVersion(q, Chat[m], j) => i = j
InItsStream ==
    \A m \in Turns : ByEdits(m) /\ turn[m] \in Working \cup {"flushing"} =>
        \A p : TextOf(p, m) =>
            \A i \in Nat : InVersion(p, Chat[m], i) => i = stream[Chat[m]].message
PostedLast ==
    \A m \in Turns : Apart(m) =>
        \A p, q : TextOf(p, m) /\ TextOf(q, m) =>
            \A t \in Turns : Posting(p, t) =>
                /\ \A i \in Nat : InVersion(q, Chat[m], i) => q[2] < p[2]
                /\ ~Buffered(q, Chat[m])
                /\ \A u \in Turns : Posting(q, u) => t = u
BufferedLast ==
    \A m \in Turns : Apart(m) =>
        \A p, q : TextOf(p, m) /\ TextOf(q, m) /\ Buffered(p, Chat[m]) =>
            \A i \in Nat : InVersion(q, Chat[m], i) => q[2] < p[2]
ShownInOrder ==
    \A m \in Turns : Apart(m) =>
        \A p, q : TextOf(p, m) /\ TextOf(q, m) =>
            \A i, j \in Nat :
                i < j /\ InVersion(p, Chat[m], i) /\ InVersion(q, Chat[m], j) => p[2] < q[2]
SpokenInOrder == OneMessage /\ InItsStream /\ PostedLast /\ BufferedLast /\ ShownInOrder

LEMMA InitSpoken == Init => SpokenInOrder
<1> SUFFICES ASSUME Init PROVE SpokenInOrder
  OBVIOUS
<1>1. /\ \A k \in Chats : buffer[k] = <<>> /\ stream[k].text = <<>> /\ DOMAIN shown[k] = {}
      /\ \A t \in Turns : outbox[t] = <<>> /\ Chat[t] \in Chats
  BY TurnAssumption DEF Init, NoStream
<1>2. \A k \in Chats : \A p : ~Buffered(p, k) /\ \A i \in Nat : ~InVersion(p, k, i)
  BY <1>1, SmallSets DEF Buffered, InVersion
<1>3. \A t \in Turns : \A p : ~Posting(p, t)
  BY <1>1, SmallSets DEF Posting
<1> QED
  BY <1>1, <1>2, <1>3 DEF SpokenInOrder, OneMessage, InItsStream, PostedLast, BufferedLast,
     ShownInOrder

\* A version is one of a message of the chat, of what has been said.
LEMMA VersionIsProper ==
    ASSUME Settled, Belongs, NEW k \in Chats, NEW p, NEW i \in Nat, InVersion(p, k, i)
    PROVE  Proper(p, k) /\ i # 0 /\ i <= Len(shown[k]) /\ Len(shown[k]) \in Nat
<1>0. /\ shown \in [Chats -> Seq(Seq(Pieces))]
      /\ \A t \in Turns : target[t] <= Len(shown[Chat[t]])
      /\ \A c \in Chats : stream[c].message <= Len(shown[c])
      /\ \A c \in Chats : stream[c] # NoStream => stream[c].message # 0
  BY DEF Settled, Typed, ChannelTyped, Aimed, Aims
<1>1. Len(shown[k]) \in Nat /\ DOMAIN shown[k] = 1..Len(shown[k])
  BY <1>0
<1>2. CASE i \in DOMAIN shown[k] /\ p \in ToSet(shown[k][i])
  BY <1>1, <1>2 DEF Belongs, ShownProper
<1>3. ASSUME NEW t \in Turns, Chat[t] = k, target[t] = i, i # 0, p \in ToSet(outbox[t])
      PROVE  Proper(p, k) /\ i # 0 /\ i <= Len(shown[k])
  BY <1>0, <1>3 DEF Belongs, CallsProper
<1>4. CASE stream[k].message = i /\ p \in ToSet(stream[k].text)
  <2>1. stream[k] # NoStream
    BY <1>4, SmallSets DEF NoStream
  <2> QED
    BY <1>0, <1>4, <2>1 DEF Belongs, StreamProper
<1> QED
  BY <1>1, <1>2, <1>3, <1>4 DEF InVersion

\* Who posts a piece is in flight, in the chat of its turn.
LEMMA PosterIsInFlight ==
    ASSUME Settled, Belongs, NEW t \in Turns, NEW p, Posting(p, t)
    PROVE  turn[t] \in Calling \ {"editing", "flushing"} /\ Proper(p, Chat[t])
<1>1. outbox[t] # <<>> /\ target[t] = 0 /\ p \in ToSet(outbox[t])
  BY SmallSets DEF Posting
<1> QED
  BY <1>1 DEF Settled, Idle, Aims, Calling, Belongs, CallsProper

LEMMA PostsItself ==
    ASSUME Settled, Belongs, Owned, NEW m \in Turns, Apart(m), turn[m] \in InFlight,
           NEW t \in Turns, NEW p, TextOf(p, m), Posting(p, t)
    PROVE  t = m
<1>1. turn[t] \in InFlight /\ Chat[t] = Chat[m]
  BY PosterIsInFlight DEF Calling, InFlight, TurnStates, Proper, TextOf
<1> QED
  BY <1>1 DEF Owned, Together, Apart

\* Buffered text is of a turn that is still asking its agent, or has failed.
LEMMA BufferedIsOpen ==
    ASSUME Owned, Kinds, NEW m \in Turns, NEW p, TextOf(p, m), Buffered(p, Chat[m])
    PROVE  /\ m \in streamed /\ m \in streams /\ m \notin Direct /\ ~Live(m)
           /\ turn[m] \in Working \cup {"apologising", "ended"}
<1>1. Chat[m] \in Chats
  BY TurnAssumption
<1> QED
  BY <1>1 DEF Owned, BufferOwners, StreamsOnly, Kinds, TextOf, Buffered

\* What m says in its call comes last.
LEMMA NewIsLast ==
    ASSUME Settled, Belongs, NEW m \in Turns, NEW q \in Pieces, Says(m, q), q[1] = m, q[2] # 0,
           NEW r, TextOf(r, m), NEW k, Proper(r, k)
    PROVE  r[2] < q[2]
BY NewFollows DEF Promise!Follows, TextOf

-----------------------------------------------------------------------------
\* A step of m, and what it can rely on.
Steady(m) ==
    /\ Settled /\ Settled' /\ Belongs /\ Belongs' /\ Owned /\ Owned' /\ Kinds /\ Kinds'
    /\ Solo /\ SpokenInOrder
    /\ Acts(m) /\ UNCHANGED <<streams, configVars>>
    /\ (Frame(m) /\ Carries(m)) \/ Starts(m)

LEMMA SteadyFacts ==
    ASSUME NEW m \in Turns, Steady(m)
    PROVE  /\ Flow(m) /\ Chat[m] \in Chats
           /\ \A n \in Turns : (Apart(n)' => Apart(n)) /\ (ByEdits(n)' => ByEdits(n))
           /\ \A n : Live(n)' <=> Live(n)
           /\ \A n \in Turns \ {m} : turn'[n] = turn[n]
           /\ turn'[m] \in InFlight \cup {"ended"}
<1>1. Flow(m)
  BY PiecesFlow DEF Steady, Acts
<1>2. \A n : Live(n)' <=> Live(n)
  BY DEF Steady, Live, Quiet, configVars
<1>3. \A n \in Turns : (Apart(n)' => Apart(n)) /\ (ByEdits(n)' => ByEdits(n))
  BY <1>2 DEF Steady, Acts, Grown, Apart, ByEdits
<1>4. turn'[m] \in InFlight \cup {"ended"} /\ \A n \in Turns \ {m} : turn'[n] = turn[n]
  BY DEF Steady, Acts, Frame, Starts, InFlight, TurnStates, Settled, Typed, FlowTyped
<1> QED
  BY <1>1, <1>2, <1>3, <1>4, TurnAssumption

\* The call in which a turn says its text is the only one to post some of it, and
\* none of it is collected.
LEMMA AskedAlone ==
    ASSUME NEW m \in Turns, Steady(m), NEW q, Asks(m, q), TextOf(q, m), Apart(m)',
           NEW r, TextOf(r, m)
    PROVE  /\ ~Buffered(r, Chat[m])
           /\ \A u \in Turns : Posting(r, u)' => u = m /\ r = q
<1>0. /\ outbox \in [Turns -> Seq(Pieces)] /\ target \in [Turns -> Nat] /\ target[m] = 0
      /\ turn \in [Turns -> TurnStates]
  BY DEF Steady, Settled, Typed, CallsTyped, FlowTyped, Asks
<1>1. outbox'[m] = <<q>> /\ target'[m] = 0 /\ ToSet(outbox'[m]) = {q}
  BY <1>0, SmallSets DEF Asks
<1>2. turn'[m] \in {"starting", "tool", "whole", "direct", "showing"}
  BY <1>1 DEF Steady, Settled, Idle, Aims, Calling
<1>3. q[2] # 0 /\ q = Piece(m) /\ said' # said
  <2>1. said \in [Turns -> 0..MaxPieces] /\ MaxPieces \in Nat
    BY TurnAssumption DEF Steady, Settled, Typed, AgentTyped
  <2>2. q = Piece(m) /\ said' = [said EXCEPT ![m] = @ + 1]
    BY DEF Asks, Says, ToolLine, TextOf
  <2> QED
    BY <2>1, <2>2 DEF TextOf
<1>4. turn'[m] # "tool" /\ turn'[m] # "showing"
  BY <1>0, <1>1, <1>3 DEF Steady, Carries, ToolLine, Starts
<1>5. ~Buffered(r, Chat[m])
  <2> SUFFICES ASSUME Buffered(r, Chat[m]) PROVE FALSE
    OBVIOUS
  <2>1. m \in streamed /\ m \in streams /\ m \notin Direct /\ ~Live(m)
    BY BufferedIsOpen DEF Steady
  <2>2. turn'[m] # "direct"
    BY <2>1 DEF Steady, Kinds
  <2>3. turn'[m] # "whole"
    BY <2>1 DEF Steady, Kinds
  <2>4. turn'[m] # "starting"
    BY <2>1, SteadyFacts DEF Steady, Settled, LiveOnly
  <2> QED
    BY <1>2, <1>4, <2>2, <2>3, <2>4
<1>6. ASSUME NEW u \in Turns, Posting(r, u)' PROVE u = m /\ r = q
  <2>1. turn'[u] \in Calling /\ Chat[u] = Chat[m]
    <3>1. outbox'[u] # <<>> /\ r \in ToSet(outbox'[u])
      BY <1>6, SmallSets DEF Posting
    <3>2. Proper(r, Chat[u])'
      BY <3>1 DEF Steady, Belongs, CallsProper
    <3> QED
      BY <3>1, <3>2 DEF Steady, Settled, Idle, Proper, TextOf
  <2>2. u = m
    BY <1>2, <2>1 DEF Steady, Owned, Together, Apart, Calling, InFlight, TurnStates
  <2> QED
    BY <1>1, <1>6, <2>2 DEF Posting
<1> QED
  BY <1>5, <1>6

LEMMA PostedLastAct ==
    ASSUME NEW m \in Turns, Steady(m)
    PROVE  PostedLast'
<1> SUFFICES ASSUME NEW n \in Turns, Apart(n)', NEW p, NEW q, TextOf(p, n), TextOf(q, n),
                    NEW t \in Turns, Posting(p, t)'
             PROVE  /\ \A i \in Nat : InVersion(q, Chat[n], i)' => q[2] < p[2]
                    /\ ~Buffered(q, Chat[n])'
                    /\ \A u \in Turns : Posting(q, u)' => t = u
  BY DEF PostedLast, TextOf, Apart
<1>0. /\ Apart(n) /\ Chat[n] \in Chats /\ p \in Pieces /\ q \in Pieces /\ p[1] = n /\ q[1] = n
      /\ Flow(m) /\ PostedLast /\ BufferedLast /\ Settled /\ Belongs /\ Owned /\ Kinds
      /\ Chat[m] \in Chats
  BY SteadyFacts, TurnAssumption DEF Steady, TextOf, SpokenInOrder
<1>p. ASSUME Posting(p, t)
      PROVE  /\ \A i \in Nat : InVersion(q, Chat[n], i) => q[2] < p[2]
             /\ ~Buffered(q, Chat[n])
             /\ \A u \in Turns : Posting(q, u) => t = u
  BY <1>0, <1>p DEF PostedLast
<1>1. CASE FewerVersions /\ FewerPostings /\ FewerBuffered
  BY <1>0, <1>1, <1>p DEF FewerVersions, FewerPostings, FewerBuffered
<1>2. ASSUME NEW r \in Pieces, BuffersFlow(m, r)
      PROVE  /\ \A i \in Nat : InVersion(q, Chat[n], i)' => q[2] < p[2]
             /\ ~Buffered(q, Chat[n])'
             /\ \A u \in Turns : Posting(q, u)' => t = u
  <2>1. Posting(p, t) /\ FewerVersions /\ FewerPostings
    BY <1>0, <1>2 DEF BuffersFlow, FewerPostings
  <2>2. ~Buffered(q, Chat[n])'
    <3> SUFFICES ASSUME Buffered(q, Chat[n])' PROVE FALSE
      OBVIOUS
    <3>1. q = r /\ r[1] = m /\ turn[m] = "agent" /\ n = m
      BY <1>0, <1>2, <1>p, <2>1 DEF BuffersFlow, Buffers
    <3>2. t = m
      BY <1>0, <2>1, <3>1, PostsItself DEF InFlight, TurnStates
    <3> QED
      BY <1>0, <2>1, <3>1, <3>2, PosterIsInFlight DEF Calling
  <2> QED
    BY <1>0, <1>p, <2>1, <2>2 DEF FewerVersions, FewerPostings
<1>3. ASSUME NEW r \in Pieces, AsksFlow(m, r)
      PROVE  /\ \A i \in Nat : InVersion(q, Chat[n], i)' => q[2] < p[2]
             /\ ~Buffered(q, Chat[n])'
             /\ \A u \in Turns : Posting(q, u)' => t = u
  <2>0. FewerVersions /\ FewerBuffered /\ Asks(m, r) /\ Says(m, r)
    BY <1>3 DEF AsksFlow, Asks
  <2>1. CASE p = r /\ t = m
    <3>1. n = m
      BY <1>0, <2>0, <2>1 DEF Says, Piece, ToolLine
    <3>2. ~Buffered(q, Chat[n]) /\ \A u \in Turns : Posting(q, u)' => u = m
      BY <2>0, <2>1, <3>1, AskedAlone
    <3>3. ASSUME NEW i \in Nat, InVersion(q, Chat[n], i) PROVE q[2] < p[2]
      <4>1. Proper(q, Chat[n])
        BY <1>0, <3>3, VersionIsProper
      <4> QED
        BY <1>0, <2>0, <2>1, <3>1, <4>1, NewIsLast DEF TextOf
    <3> QED
      BY <1>0, <2>0, <2>1, <3>2, <3>3 DEF FewerVersions, FewerBuffered
  <2>2. CASE Posting(p, t)
    <3>1. ASSUME NEW u \in Turns, Posting(q, u)', ~Posting(q, u) PROVE t = u
      <4>1. q = r /\ u = m
        BY <1>0, <1>3, <3>1 DEF AsksFlow
      <4>2. n = m
        BY <1>0, <2>0, <4>1 DEF Says, Piece, ToolLine
      <4> QED
        BY <2>0, <4>1, <4>2, AskedAlone
    <3> QED
      BY <1>0, <1>p, <2>0, <2>2, <3>1 DEF FewerVersions, FewerBuffered
  <2> QED
    BY <1>0, <1>3, <2>1, <2>2 DEF AsksFlow
<1>4. ASSUME NEW r \in Pieces, StreamsFlow(m, r)
      PROVE  /\ \A i \in Nat : InVersion(q, Chat[n], i)' => q[2] < p[2]
             /\ ~Buffered(q, Chat[n])'
             /\ \A u \in Turns : Posting(q, u)' => t = u
  <2>1. Posting(p, t) /\ FewerBuffered /\ FewerPostings
    BY <1>0, <1>4 DEF StreamsFlow, FewerPostings
  <2>2. ASSUME NEW i \in Nat, InVersion(q, Chat[n], i)', ~InVersion(q, Chat[n], i) PROVE FALSE
    <3>1. q = r /\ r[1] = m /\ turn[m] = "agent" /\ n = m
      BY <1>0, <1>4, <2>2 DEF StreamsFlow, Streams
    <3>2. t = m
      BY <1>0, <2>1, <3>1, PostsItself DEF InFlight, TurnStates
    <3> QED
      BY <1>0, <2>1, <3>1, <3>2, PosterIsInFlight DEF Calling
  <2> QED
    BY <1>0, <1>p, <2>1, <2>2 DEF FewerBuffered, FewerPostings
<1>5. CASE TakesFlow(m)
  <2>0. FewerVersions /\ ~Buffered(q, Chat[m])'
    BY <1>0, <1>5 DEF TakesFlow
  <2>b. FewerBuffered
    BY <1>5 DEF TakesFlow, FewerBuffered
  <2>1. CASE Buffered(p, Chat[m])
    <3>1. Chat[n] = Chat[m]
      BY <1>0, <2>1 DEF Belongs, BufferProper, Proper, Buffered
    <3>2. \A i \in Nat : InVersion(q, Chat[n], i)' => q[2] < p[2]
      BY <1>0, <2>0, <2>1, <3>1 DEF BufferedLast, FewerVersions
    <3>3. ASSUME NEW u \in Turns, u # m, Posting(q, u) PROVE FALSE
      BY <1>0, <2>1, <3>1, <3>3 DEF PostedLast
    <3>4. t = m
      BY <1>0, <1>5, <2>1, <3>1 DEF TakesFlow, PostedLast
    <3> QED
      BY <1>0, <1>5, <2>0, <3>1, <3>2, <3>3, <3>4 DEF TakesFlow
  <2>2. CASE t # m /\ Posting(p, t)
    <3>1. ASSUME NEW u \in Turns, Posting(q, u)' PROVE t = u
      <4>1. CASE u # m /\ Posting(q, u)
        BY <1>p, <2>2, <4>1
      <4>2. CASE u = m /\ Buffered(q, Chat[m])
        <5>1. Chat[n] = Chat[m]
          BY <1>0, <4>2 DEF Belongs, BufferProper, Proper, Buffered
        <5> QED
          BY <1>p, <2>2, <4>2, <5>1
      <4> QED
        BY <1>0, <1>5, <3>1, <4>1, <4>2 DEF TakesFlow
    <3> QED
      BY <1>0, <1>p, <2>0, <2>b, <2>2, <3>1 DEF FewerVersions, FewerBuffered
  <2> QED
    BY <1>0, <1>5, <2>1, <2>2 DEF TakesFlow
<1>6. CASE PostsFlow(m)
  <2>1. Posting(p, t) /\ t # m /\ FewerBuffered /\ FewerPostings
    BY <1>0, <1>6 DEF PostsFlow, FewerPostings
  <2>2. ~Posting(q, m)
    BY <1>p, <2>1
  <2>3. \A i \in Nat : InVersion(q, Chat[n], i)' => InVersion(q, Chat[n], i)
    BY <1>0, <1>6, <2>2 DEF PostsFlow
  <2> QED
    BY <1>0, <1>p, <2>1, <2>3 DEF FewerBuffered, FewerPostings
<1> QED
  BY <1>0, <1>1, <1>2, <1>3, <1>4, <1>5, <1>6 DEF Flow

LEMMA BufferedLastAct ==
    ASSUME NEW m \in Turns, Steady(m)
    PROVE  BufferedLast'
<1> SUFFICES ASSUME NEW n \in Turns, Apart(n)', NEW p, NEW q, TextOf(p, n), TextOf(q, n),
                    Buffered(p, Chat[n])', NEW i \in Nat, InVersion(q, Chat[n], i)'
             PROVE  q[2] < p[2]
  BY DEF BufferedLast, TextOf, Apart
<1>0. /\ Apart(n) /\ Chat[n] \in Chats /\ p \in Pieces /\ q \in Pieces /\ p[1] = n /\ q[1] = n
      /\ Flow(m) /\ PostedLast /\ BufferedLast /\ Settled /\ Belongs /\ Owned /\ Kinds
  BY SteadyFacts, TurnAssumption DEF Steady, TextOf, SpokenInOrder
<1>b. Buffered(p, Chat[n]) /\ InVersion(q, Chat[n], i) => q[2] < p[2]
  BY <1>0 DEF BufferedLast
<1>1. CASE FewerVersions /\ FewerBuffered
  BY <1>0, <1>1, <1>b DEF FewerVersions, FewerBuffered
<1>2. ASSUME NEW r \in Pieces, BuffersFlow(m, r) PROVE q[2] < p[2]
  <2>1. InVersion(q, Chat[n], i) /\ Buffers(m, r)
    BY <1>0, <1>2 DEF BuffersFlow, FewerVersions
  <2>2. CASE p = r
    <3>1. Proper(q, Chat[n]) /\ Says(m, r) /\ r[1] = m /\ n = m
      BY <1>0, <2>1, <2>2, VersionIsProper DEF Buffers
    <3> QED
      BY <1>0, <2>2, <3>1, NewIsLast DEF TextOf
  <2> QED
    BY <1>0, <1>2, <1>b, <2>1, <2>2 DEF BuffersFlow
<1>3. ASSUME NEW r \in Pieces, StreamsFlow(m, r) PROVE q[2] < p[2]
  <2>1. Buffered(p, Chat[n]) /\ Streams(m, r)
    BY <1>0, <1>3 DEF StreamsFlow, FewerBuffered
  <2>2. ~Live(n)
    BY <1>0, <2>1, BufferedIsOpen
  <2>3. q # r
    BY <1>0, <2>1, <2>2 DEF Streams
  <2> QED
    BY <1>0, <1>3, <1>b, <2>1, <2>3 DEF StreamsFlow
<1>4. CASE PostsFlow(m)
  <2>1. Buffered(p, Chat[n])
    BY <1>0, <1>4 DEF PostsFlow, FewerBuffered
  <2>2. ~Posting(q, m)
    BY <1>0, <2>1 DEF PostedLast
  <2> QED
    BY <1>0, <1>4, <1>b, <2>1, <2>2 DEF PostsFlow
<1> QED
  BY <1>0, <1>1, <1>2, <1>3, <1>4 DEF Flow, AsksFlow, TakesFlow, FewerBuffered, FewerVersions

\* A turn that edits starts its message when none of its text is in the chat.
LEMMA StartsFirst ==
    ASSUME Settled, Belongs, Kinds, Solo, SpokenInOrder, NEW m \in Turns, ByEdits(m),
           turn[m] = "starting", NEW p, TextOf(p, m), NEW i \in Nat
    PROVE  ~InVersion(p, Chat[m], i)
<1>1. m \notin failed
  BY DEF Kinds
<1>2. stream[Chat[m]] = NoStream
  BY <1>1 DEF Solo, StartsAfresh, Alone, ByEdits, Apart
<1>3. InVersion(p, Chat[m], i) => i = 0
  BY <1>2 DEF SpokenInOrder, InItsStream, Working, NoStream
<1> QED
  BY <1>3, VersionIsProper, TurnAssumption

\* And it posts text in no other call.
LEMMA PostsToStart ==
    ASSUME Settled, Belongs, Owned, Kinds, NEW m \in Turns, NEW n \in Turns, ByEdits(n),
           NEW p, TextOf(p, n), Posting(p, m)
    PROVE  n = m /\ turn[m] = "starting"
<1>1. /\ turn[m] \in {"starting", "tool", "whole", "direct", "showing"}
      /\ Chat[n] = Chat[m] /\ p \in ToSet(outbox[m])
  BY PosterIsInFlight DEF Calling, Proper, TextOf, Posting
<1>2. turn[m] # "tool"
  BY <1>1 DEF Kinds, TextOf
<1>3. turn[m] # "showing"
  BY <1>1 DEF Kinds, ByEdits, Live, Quiet
<1>4. turn[m] # "whole" /\ turn[m] # "direct"
  BY <1>1 DEF Kinds, TextOf, ByEdits
<1> QED
  BY <1>1, <1>2, <1>3, <1>4 DEF Owned, StartsOwn, TextOf

LEMMA InItsStreamAct ==
    ASSUME NEW m \in Turns, Steady(m)
    PROVE  InItsStream'
<1> SUFFICES ASSUME NEW n \in Turns, ByEdits(n)', turn'[n] \in Working \cup {"flushing"},
                    NEW p, TextOf(p, n), NEW i \in Nat, InVersion(p, Chat[n], i)'
             PROVE  i = stream'[Chat[n]].message
  BY DEF InItsStream, TextOf
<1>e. ByEdits(n) /\ Apart(n) /\ n \notin Direct /\ n \in streams
  <2>1. ByEdits(n)
    BY SteadyFacts
  <2> QED
    BY <2>1 DEF ByEdits
<1>0. /\ ByEdits(n) /\ Apart(n) /\ Chat[n] \in Chats /\ p \in Pieces /\ p[1] = n /\ p[2] # 0
      /\ Flow(m) /\ InItsStream /\ Settled /\ Belongs /\ Owned /\ Kinds /\ Acts(m)
      /\ n \notin Direct /\ n \in streams
  BY <1>e, SteadyFacts, TurnAssumption DEF Steady, TextOf, SpokenInOrder
<1>t. /\ stream \in [Chats -> [message : Nat, text : Seq(Pieces)]]
      /\ shown \in [Chats -> Seq(Seq(Pieces))]
  BY <1>0 DEF Settled, Typed, ChannelTyped
<1>m. n = m => Frame(m) /\ Carries(m)
  BY <1>0 DEF Steady, Starts
<1>s. n = m \/ (turn'[n] = turn[n] /\ turn[n] \in InFlight)
  BY SteadyFacts DEF Working, InFlight, TurnStates
<1>1. ASSUME InVersion(p, Chat[n], i)
      PROVE  turn[n] \in Working \cup {"flushing"}
  <2>1. CASE n # m
    BY <1>s, <2>1
  <2>2. CASE n = m
    <3>1. turn[m] # "preparing"
      <4>1. Proper(p, Chat[n])
        BY <1>0, <1>1, VersionIsProper
      <4>2. p[2] <= said[n] /\ p[2] \in Nat /\ said[n] \in Nat
        BY <1>0, <4>1, TurnAssumption DEF Proper, Pieces, Settled, Typed, AgentTyped
      <4> QED
        BY <1>0, <2>2, <4>2 DEF Settled, Unsaid
    <3>2. turn[m] # "whole"
      BY <1>0, <2>2 DEF Kinds
    <3> QED
      BY <1>m, <2>2, <3>1, <3>2 DEF Carries
  <2> QED
    BY <2>1, <2>2
<1>2. ASSUME InVersion(p, Chat[n], i) PROVE i = stream'[Chat[n]].message
  <2>1. i = stream[Chat[n]].message /\ turn[n] \in Working \cup {"flushing"}
    BY <1>0, <1>1, <1>2 DEF InItsStream, TextOf
  <2>2. ASSUME Chat[n] = Chat[m], turn[m] \in InFlight PROVE n = m
    BY <1>0, <1>s, <2>2 DEF Owned, Together, Apart
  <2>3. ~(n = m /\ turn[m] = "starting")
    BY <1>0, <1>2, StartsFirst DEF Steady, TextOf
  <2>4. ~(n = m /\ turn[m] = "flushing")
    BY <1>m DEF Carries, Working
  <2> QED
    BY <1>0, <2>1, <2>2, <2>3, <2>4, StreamMoves
<1>3. ASSUME NEW r \in Pieces, StreamsFlow(m, r) PROVE i = stream'[Chat[n]].message
  <2>1. Streams(m, r)
    BY <1>3 DEF StreamsFlow
  <2>2. p = r => n = m /\ stream'[Chat[m]].message = stream[Chat[m]].message
    BY <1>0, <1>t, <2>1 DEF Streams
  <2> QED
    BY <1>0, <1>2, <1>3, <2>2 DEF StreamsFlow
<1>4. CASE PostsFlow(m)
  <2>1. CASE Posting(p, m) /\ i = Len(shown[Chat[m]]) + 1
    <3>1. n = m /\ turn[m] = "starting" /\ Chat[m] \in Chats
      BY <1>0, <2>1, PostsToStart DEF TextOf
    <3>2. shown' # shown
      <4>1. DOMAIN shown'[Chat[m]] # DOMAIN shown[Chat[m]]
        BY <1>0, <1>4, PostShows DEF PostsFlow, Posts, Settled
      <4> QED
        BY <4>1
    <3>3. stream' = [stream EXCEPT ![Chat[m]] =
                            [message |-> Len(shown[Chat[m]]) + 1, text |-> outbox[m]]]
      BY <1>m, <3>1, <3>2 DEF Carries
    <3> QED
      BY <1>0, <1>t, <2>1, <3>1, <3>3
  <2> QED
    BY <1>0, <1>2, <1>4, <2>1 DEF PostsFlow
<1> QED
  BY <1>0, <1>2, <1>3, <1>4 DEF Flow, BuffersFlow, AsksFlow, TakesFlow, FewerVersions

LEMMA OneMessageAct ==
    ASSUME NEW m \in Turns, Steady(m)
    PROVE  OneMessage'
<1> SUFFICES ASSUME NEW n \in Turns, ByEdits(n)', NEW p, NEW q, TextOf(p, n), TextOf(q, n),
                    NEW i \in Nat, NEW j \in Nat,
                    InVersion(p, Chat[n], i)', InVersion(q, Chat[n], j)'
             PROVE  i = j
  BY DEF OneMessage, TextOf
<1>e. ByEdits(n) /\ Apart(n)
  <2>1. ByEdits(n)
    BY SteadyFacts
  <2> QED
    BY <2>1 DEF ByEdits
<1>0. /\ ByEdits(n) /\ Apart(n) /\ Chat[n] \in Chats /\ p \in Pieces /\ q \in Pieces
      /\ Flow(m) /\ OneMessage /\ InItsStream /\ Settled /\ Belongs /\ Owned /\ Kinds /\ Solo
      /\ SpokenInOrder
  BY <1>e, SteadyFacts, TurnAssumption DEF Steady, TextOf, SpokenInOrder
<1>1. ASSUME InVersion(p, Chat[n], i), InVersion(q, Chat[n], j) PROVE i = j
  BY <1>0, <1>1 DEF OneMessage
<1>2. ASSUME NEW r \in Pieces, StreamsFlow(m, r) PROVE i = j
  <2>1. CASE r[1] = n
    <3>1. n = m /\ turn[n] \in Working
      BY <1>2, <2>1 DEF StreamsFlow, Streams, Working
    <3>2. \A s : TextOf(s, n) => \A x \in Nat :
            InVersion(s, Chat[n], x) => x = stream[Chat[n]].message
      BY <1>0, <3>1 DEF InItsStream
    <3> QED
      BY <1>0, <1>2, <3>1, <3>2 DEF StreamsFlow
  <2>2. CASE r[1] # n
    BY <1>0, <1>1, <1>2, <2>2 DEF StreamsFlow, TextOf
  <2> QED
    BY <2>1, <2>2
<1>3. CASE PostsFlow(m)
  <2>1. CASE \E s : TextOf(s, n) /\ Posting(s, m)
    <3>1. n = m /\ turn[m] = "starting"
      BY <1>0, <2>1, PostsToStart
    <3>2. ~InVersion(p, Chat[n], i) /\ ~InVersion(q, Chat[n], j)
      BY <1>0, <3>1, StartsFirst
    <3> QED
      BY <1>0, <1>3, <3>2 DEF PostsFlow
  <2>2. CASE ~\E s : TextOf(s, n) /\ Posting(s, m)
    BY <1>0, <1>1, <1>3, <2>2 DEF PostsFlow
  <2> QED
    BY <2>1, <2>2
<1> QED
  BY <1>0, <1>1, <1>2, <1>3 DEF Flow, BuffersFlow, AsksFlow, TakesFlow, FewerVersions

LEMMA ShownInOrderAct ==
    ASSUME NEW m \in Turns, Steady(m), OneMessage'
    PROVE  ShownInOrder'
<1> SUFFICES ASSUME NEW n \in Turns, Apart(n)', NEW p, NEW q, TextOf(p, n), TextOf(q, n),
                    NEW i \in Nat, NEW j \in Nat, i < j,
                    InVersion(p, Chat[n], i)', InVersion(q, Chat[n], j)'
             PROVE  p[2] < q[2]
  BY DEF ShownInOrder, TextOf, Apart
<1>0. /\ Apart(n) /\ Chat[n] \in Chats /\ p \in Pieces /\ q \in Pieces /\ p[1] = n /\ q[1] = n
      /\ Flow(m) /\ ShownInOrder /\ PostedLast /\ Settled /\ Belongs /\ Owned
  BY SteadyFacts, TurnAssumption DEF Steady, TextOf, SpokenInOrder
<1>1. ASSUME InVersion(p, Chat[n], i), InVersion(q, Chat[n], j) PROVE p[2] < q[2]
  BY <1>0, <1>1 DEF ShownInOrder
<1>2. ASSUME NEW r \in Pieces, StreamsFlow(m, r) PROVE p[2] < q[2]
  <2>1. CASE r[1] = n
    <3>1. n = m /\ Live(n) /\ r \in ToSet(stream'[Chat[m]].text) /\ Chat[m] \in Chats
      <4>1. Streams(m, r) /\ Chat[m] \in Chats
        BY <1>2, TurnAssumption DEF StreamsFlow
      <4>2. stream \in [Chats -> [message : Nat, text : Seq(Pieces)]]
        BY <1>0 DEF Settled, Typed, ChannelTyped
      <4>3. stream'[Chat[m]].text = Append(stream[Chat[m]].text, r)
        BY <4>1, <4>2 DEF Streams
      <4> QED
        BY <2>1, <4>1, <4>2, <4>3, AppendSet DEF Streams
    <3>2. n \in streamed' /\ n \in streams'
      BY <2>1, <3>1 DEF Steady, Owned, StreamOwners, StreamsOnly
    <3>3. ByEdits(n)'
      BY <3>1, <3>2, SteadyFacts DEF ByEdits, Steady, Kinds, Apart
    <3> QED
      BY <3>3 DEF OneMessage, TextOf
  <2>2. CASE r[1] # n
    BY <1>0, <1>1, <1>2, <2>2 DEF StreamsFlow
  <2> QED
    BY <2>1, <2>2
<1>3. CASE PostsFlow(m)
  <2>0. Len(shown[Chat[m]]) \in Nat /\ Chat[m] \in Chats
    BY <1>0, TurnAssumption DEF Settled, Typed, ChannelTyped
  <2>1. CASE InVersion(p, Chat[n], i) /\ ~InVersion(q, Chat[n], j)
    <3>1. Posting(q, m)
      BY <1>0, <1>3, <2>1 DEF PostsFlow
    <3> QED
      BY <1>0, <2>1, <3>1 DEF PostedLast
  <2>2. CASE ~InVersion(p, Chat[n], i)
    <3>1. Chat[n] = Chat[m] /\ i = Len(shown[Chat[m]]) + 1
      BY <1>0, <1>3, <2>2 DEF PostsFlow
    <3>2. j # i /\ InVersion(q, Chat[n], j)
      BY <1>0, <1>3, <3>1 DEF PostsFlow
    <3>3. j <= Len(shown[Chat[n]])
      BY <1>0, <3>2, VersionIsProper
    <3> QED
      BY <2>0, <3>1, <3>3
  <2> QED
    BY <1>1, <2>1, <2>2
<1> QED
  BY <1>0, <1>1, <1>2, <1>3 DEF Flow, BuffersFlow, AsksFlow, TakesFlow, FewerVersions

LEMMA SpokenStep ==
    ASSUME Settled, Settled', Belongs, Belongs', Owned, Owned', Kinds, Kinds', Solo,
           SpokenInOrder, [Next]_vars
    PROVE  SpokenInOrder'
<1>1. ASSUME NEW m \in Turns, Steady(m) PROVE SpokenInOrder'
  BY <1>1, PostedLastAct, BufferedLastAct, InItsStreamAct, OneMessageAct, ShownInOrderAct
     DEF SpokenInOrder
<1>2. ASSUME NEW m \in Turns, OwnStep(m) PROVE SpokenInOrder'
  BY <1>1, <1>2, OwnActs DEF Steady, Frame
<1>3. ASSUME Readies, UNCHANGED <<streams, configVars>> PROVE SpokenInOrder'
  <2>1. /\ UNCHANGED <<buffer, stream, shown, outbox, target, streams, streaming, cron>>
        /\ overlapped \subseteq overlapped'
        /\ \A t \in Turns : turn'[t] \in Working \cup {"flushing"} => turn'[t] = turn[t]
    BY <1>3 DEF Readies, Rests, Fixed, Grown, configVars, Working
  <2>2. /\ \A p, k, i : InVersion(p, k, i)' <=> InVersion(p, k, i)
        /\ \A p, k : Buffered(p, k)' <=> Buffered(p, k)
        /\ \A p, t : Posting(p, t)' <=> Posting(p, t)
        /\ \A t : (Apart(t)' => Apart(t)) /\ (ByEdits(t)' => ByEdits(t))
    BY <2>1 DEF InVersion, Buffered, Posting, Apart, ByEdits, Live, Quiet
  <2>3. OneMessage' /\ ShownInOrder' /\ BufferedLast' /\ PostedLast'
    BY <2>2 DEF SpokenInOrder, OneMessage, ShownInOrder, BufferedLast, PostedLast, TextOf
  <2>4. InItsStream'
    BY <2>1, <2>2 DEF SpokenInOrder, InItsStream, TextOf
  <2> QED
    BY <2>3, <2>4 DEF SpokenInOrder
<1> QED
  BY <1>1, <1>2, <1>3, EveryStep DEF Steady

-----------------------------------------------------------------------------
\* What has been said and is to be shown.

ToBeShown(p) ==
    /\ p \in Pieces /\ p \notin untold
    /\ p[2] <= said[p[1]]
    /\ p[2] = 0 => tool[p[1]] = "done" /\ ~Quiet(p[1])

LEMMA ToldIs == Settled => \A p : p \in Told <=> ToBeShown(p)
<1> SUFFICES ASSUME Settled, NEW p PROVE p \in Told <=> ToBeShown(p)
  OBVIOUS
<1>0. /\ said \in [Turns -> 0..MaxPieces] /\ MaxPieces \in Nat
  BY TurnAssumption DEF Settled, Typed, AgentTyped
<1>1. ASSUME NEW m \in Turns, p \in Uttered(m)
      PROVE  /\ p \in Pieces /\ p[2] <= said[p[1]]
             /\ p[2] = 0 => tool[p[1]] = "done" /\ ~Quiet(p[1])
  <2>1. CASE p \in {<<m, n>> : n \in 1..said[m]}
    BY <1>0, <2>1 DEF Pieces
  <2>2. CASE p = ToolLine(m) /\ tool[m] = "done" /\ ~Quiet(m)
    BY <1>0, <2>2 DEF Pieces, ToolLine
  <2> QED
    BY <1>1, <2>1, <2>2 DEF Uttered
<1>2. ASSUME p \in Pieces, p[2] <= said[p[1]],
             p[2] = 0 => tool[p[1]] = "done" /\ ~Quiet(p[1])
      PROVE  \E m \in Turns : p \in Uttered(m)
  <2>1. p = <<p[1], p[2]>> /\ p[1] \in Turns /\ p[2] \in 0..MaxPieces
    BY <1>2 DEF Pieces
  <2>2. CASE p[2] = 0
    BY <1>2, <2>1, <2>2 DEF Uttered, ToolLine
  <2>3. CASE p[2] # 0
    BY <1>0, <1>2, <2>1, <2>3 DEF Uttered
  <2> QED
    BY <2>2, <2>3
<1>3. p \in Told <=> p \notin untold /\ \E m \in Turns : p \in Uttered(m)
  BY DEF Told
<1> QED
  BY <1>1, <1>2, <1>3 DEF ToBeShown

LEMMA ToldIsNext == (Settled => \A p : p \in Told <=> ToBeShown(p))'
BY ToldIs, PTL

LEMMA ToldIsProper ==
    ASSUME Settled, NEW p \in Told
    PROVE  Proper(p, Chat[p[1]])
BY ToldIs DEF ToBeShown, Proper

\* In a job's conversation there are no lines of tools.
LinesTold == \A p : Somewhere(p) /\ p[2] = 0 => ~Quiet(p[1])

LEMMA LinesToldStep == Settled /\ LinesTold /\ [Next]_vars => LinesTold'
<1> SUFFICES ASSUME Settled, LinesTold, [Next]_vars, NEW p, Somewhere(p)', p[2] = 0
             PROVE  ~Quiet(p[1])'
  BY DEF LinesTold
<1>0. Grown /\ (Fixed \/ \E m \in Turns : Move(m))
  BY EveryMove
<1>1. Quiet(p[1])' <=> Quiet(p[1])
  BY <1>0 DEF Grown, configVars, Quiet
<1>2. CASE Fixed
  <2>1. Somewhere(p)
    BY <1>2 DEF Fixed, Somewhere, InChat
  <2> QED
    BY <1>1, <2>1 DEF LinesTold
<1>3. ASSUME NEW m \in Turns, Move(m) PROVE ~Quiet(p[1])'
  <2>1. CASE Somewhere(p)
    BY <1>1, <2>1 DEF LinesTold
  <2>2. CASE Says(m, p)
    <3>1. said \in [Turns -> 0..MaxPieces] /\ MaxPieces \in Nat
      BY TurnAssumption DEF Settled, Typed, AgentTyped
    <3> QED
      BY <1>1, <2>2, <3>1 DEF Says, Piece, ToolLine
  <2> QED
    BY <1>3, <2>1, <2>2, PiecesMove
<1> QED
  BY <1>0, <1>2, <1>3

LEMMA SomewhereIsTold ==
    ASSUME Settled, Belongs, UntoldUnseen, LinesTold, NEW p, Somewhere(p)
    PROVE  p \in Told
<1>1. PICK k : Proper(p, k)
  BY SomewhereIsProper
<1> QED
  BY <1>1, ToldIs DEF ToBeShown, Proper, UntoldUnseen, LinesTold

\* What a step says.
LEMMA SaysTells ==
    ASSUME Settled, Settled', UntoldUnseen, UNCHANGED <<untold, configVars>>,
           NEW m \in Turns, NEW p \in Pieces, Says(m, p)
    PROVE  /\ \A q \in Told : Promise!Follows(p, q)
           /\ Told' = Told \cup {p}
<1>0. /\ said \in [Turns -> 0..MaxPieces] /\ MaxPieces \in Nat
      /\ tool \in [Turns -> {"none", "called", "done"}]
  BY TurnAssumption DEF Settled, Typed, AgentTyped
<1>1. \A q \in Told : Promise!Follows(p, q)
  BY ToldIsProper, NewFollows
<1>q. \A t : Quiet(t)' <=> Quiet(t)
  BY DEF Quiet, configVars
<1>2. p \notin untold
  BY <1>0 DEF UntoldUnseen, Says, Piece, ToolLine
<1>3. p \in Told'
  <2>1. Proper(p, Chat[m])' /\ (p[2] = 0 => ~Quiet(p[1]))
    BY <1>0, NewIsProper DEF Says, Piece, ToolLine
  <2> QED
    BY <1>2, <1>q, <2>1, ToldIsNext DEF ToBeShown, Proper
<1>4. ASSUME NEW q \in Pieces, q # p
      PROVE  q \in Told' <=> q \in Told
  <2>1. q = <<q[1], q[2]>> /\ q[1] \in Turns /\ q[2] \in Nat
    BY <1>0, <1>4 DEF Pieces
  <2>2. CASE p = Piece(m) /\ said' = [said EXCEPT ![m] = @ + 1] /\ tool' = tool
    <3>1. q[2] <= said'[q[1]] <=> q[2] <= said[q[1]]
      BY <1>0, <1>4, <2>1, <2>2 DEF Piece
    <3> QED
      BY <1>q, <2>2, <3>1, ToldIs, ToldIsNext DEF ToBeShown
  <2>3. CASE p = ToolLine(m) /\ said' = said /\ tool' = [tool EXCEPT ![m] = "done"]
    <3>1. q[2] = 0 => (tool'[q[1]] = "done" <=> tool[q[1]] = "done")
      BY <1>0, <1>4, <2>1, <2>3 DEF ToolLine
    <3> QED
      BY <1>q, <2>3, <3>1, ToldIs, ToldIsNext DEF ToBeShown
  <2> QED
    BY <2>2, <2>3 DEF Says
<1> QED
  BY <1>1, <1>3, <1>4, ToldIs, ToldIsNext DEF ToBeShown

LEMMA SaysNothingTells ==
    ASSUME SaysNothing, UNCHANGED <<untold, configVars>>
    PROVE  Told' = Told
BY DEF SaysNothing, configVars, Told, Uttered, Quiet

\* Text that a model puts beside a tool call, and the line of a tool in a job's
\* conversation, is not for the chat.
LEMMA KeepsTells ==
    ASSUME Settled, Settled', UntoldUnseen, UNCHANGED configVars, NEW m \in Turns, Keeps(m),
           Marks(m)
    PROVE  Told' = Told
<1>0. /\ said \in [Turns -> 0..MaxPieces] /\ MaxPieces \in Nat
      /\ tool \in [Turns -> {"none", "called", "done"}]
  BY TurnAssumption DEF Settled, Typed, AgentTyped
<1>q. \A t : Quiet(t)' <=> Quiet(t)
  BY DEF Quiet, configVars
<1>1. ASSUME NEW p \in Pieces
      PROVE  p \in Told' <=> p \in Told
  <2>1. p = <<p[1], p[2]>> /\ p[1] \in Turns /\ p[2] \in Nat
    BY <1>0, <1>1 DEF Pieces
  <2>2. p[2] = 0 => (tool'[p[1]] = "done" /\ ~Quiet(p[1]) <=> tool[p[1]] = "done" /\ ~Quiet(p[1]))
    BY <1>0, <2>1 DEF Keeps
  <2>3. /\ Piece(m)[1] = m /\ Piece(m)[2] = said[m] + 1 /\ said[m] + 1 \notin 1..said[m]
    BY <1>0 DEF Piece
  <2>4. Piece(m) \notin untold
    BY <2>3 DEF UntoldUnseen
  <2>5. \/ UNCHANGED <<said, untold>>
        \/ untold' = untold \cup {Piece(m)} /\ said' = [said EXCEPT ![m] = @ + 1]
    BY <2>4 DEF Keeps, Marks
  <2>6. p \notin untold' /\ p[2] <= said'[p[1]] <=> p \notin untold /\ p[2] <= said[p[1]]
    <3>1. CASE UNCHANGED <<said, untold>>
      BY <3>1
    <3>2. CASE untold' = untold \cup {Piece(m)} /\ said' = [said EXCEPT ![m] = @ + 1]
      <4>1. CASE p = Piece(m)
        BY <1>0, <2>3, <3>2, <4>1
      <4>2. CASE p # Piece(m)
        BY <1>0, <2>1, <3>2, <4>2 DEF Piece
      <4> QED
        BY <4>1, <4>2
    <3> QED
      BY <2>5, <3>1, <3>2
  <2> QED
    BY <1>1, <1>q, <2>2, <2>6, ToldIs, ToldIsNext DEF ToBeShown
<1> QED
  BY <1>1, ToldIs, ToldIsNext DEF ToBeShown

-----------------------------------------------------------------------------
\* All of the invariants.
Complete == Accounted /\ NothingLost /\ LiveKept
Placed == Once /\ TextsOrdered /\ Chained /\ SpokenInOrder
Own == Owned /\ Solo /\ Mixed /\ Kinds
Coherent == Settled /\ Belongs /\ Own /\ Complete /\ Placed /\ UntoldUnseen /\ LinesTold

LEMMA InitCoherent == Init => Coherent
<1> SUFFICES ASSUME Init PROVE Coherent
  OBVIOUS
<1>1. Accounted /\ NothingLost /\ LiveKept
  BY InitComplete
<1>2. Once
  BY InitOnce
<1>3. LinesTold
  <2>1. /\ \A k \in Chats : buffer[k] = <<>> /\ stream[k].text = <<>> /\ DOMAIN shown[k] = {}
        /\ \A t \in Turns : outbox[t] = <<>>
    BY DEF Init, NoStream
  <2> QED
    BY <2>1, SmallSets DEF LinesTold, Somewhere, InChat
<1> QED
  BY <1>1, <1>2, <1>3, InitSettled, InitBelongs, InitOwned, InitSolo, InitMixed, InitKinds,
     InitOrdered, InitChained, InitSpoken DEF Coherent, Complete, Placed, Own

LEMMA CoherentStep == Coherent /\ [Next]_vars => Coherent'
<1> SUFFICES ASSUME Coherent, [Next]_vars PROVE Coherent'
  OBVIOUS
<1>0. /\ Settled /\ Belongs /\ Owned /\ Solo /\ Mixed /\ Kinds /\ Accounted /\ NothingLost
      /\ LiveKept /\ Once /\ TextsOrdered /\ Chained /\ SpokenInOrder /\ UntoldUnseen /\ LinesTold
  BY DEF Coherent, Complete, Placed, Own
<1>1. Settled' /\ Belongs' /\ Owned'
  BY <1>0, SettledStep, BelongsStep, OwnedStep
<1>2. Solo' /\ Mixed' /\ Kinds'
  BY <1>0, <1>1, SoloStep, MixedStep, KindsStep
<1>3. Complete'
  BY <1>0, AccountedStep, LiveKeptStep DEF Complete
<1>4. Once' /\ TextsOrdered'
  BY <1>0, OnceStep, OrderedStep
<1>5. Chained' /\ SpokenInOrder'
  BY <1>0, <1>1, <1>2, ChainedStep, SpokenStep
<1>6. UntoldUnseen' /\ LinesTold'
  BY <1>0, UntoldUnseenStep, LinesToldStep
<1> QED
  BY <1>1, <1>2, <1>3, <1>4, <1>5, <1>6 DEF Coherent, Placed, Own

LEMMA CoherentCompletes == Coherent => StreamComplete
BY CompleteAnswers DEF Coherent, Complete, Own

LEMMA CoherentCompletesNext == (Coherent => StreamComplete)'
BY CoherentCompletes, PTL

-----------------------------------------------------------------------------
\* What a chat shows, as the promise says it.

LEMMA ShowsIsInChat == \A k, p : Promise!Shows(k, p) <=> InChat(p, k)
BY DEF Promise!Shows, Promise!Holds, InChat, ToSet

LEMMA ShowsIsInChatNext == (\A k, p : Promise!Shows(k, p) <=> InChat(p, k))'
BY ShowsIsInChat, PTL

\* A turn that is over had its whole answer shown, if the promise asks for it.
LEMMA Closing ==
    ASSUME Settled, Coherent', NEW m \in Turns, turn[m] \in InFlight, turn'[m] = "ended",
           \A n \in Turns \ {m} : turn'[n] = turn[n]
    PROVE  Promise!Closes(m)
<1>1. UnderWay' = UnderWay \ {m}
  BY DEF UnderWay, InFlight
<1>2. Settled' /\ StreamComplete'
  BY CoherentCompletesNext DEF Coherent
<1>3. ASSUME m \notin overlapped' \cup failed', failures' = 0, NEW p \in Told', p[1] = m
      PROVE  Promise!Shows(Chat[m], p)'
  <2>1. p \in (Uttered(m) \ untold)'
    <3>1. ToBeShown(p)'
      BY <1>2, <1>3, ToldIsNext
    <3>2. p[1] = m /\ p[2] \in Nat /\ p = <<m, p[2]>>
      BY <1>3, <3>1, TurnAssumption DEF ToBeShown, Pieces
    <3>3. said'[m] \in Nat
      BY <1>2, TurnAssumption DEF Settled, Typed, AgentTyped
    <3> QED
      BY <3>1, <3>2, <3>3 DEF ToBeShown, Uttered, ToolLine
  <2>2. InChat(p, Chat[m])'
    BY <1>2, <1>3, <2>1 DEF StreamComplete
  <2> QED
    BY <2>2, ShowsIsInChatNext
<1>4. Promise!Whole(m)'
  BY <1>3 DEF Promise!Whole
<1> QED
  BY <1>1, <1>4 DEF Promise!Closes

LEMMA StaysOpen ==
    ASSUME NEW m \in Turns, turn[m] \in InFlight, turn'[m] \in InFlight,
           \A n \in Turns \ {m} : turn'[n] = turn[n]
    PROVE  UnderWay' = UnderWay
BY DEF UnderWay

-----------------------------------------------------------------------------
\* What a call brings to a chat is what the promise lets a turn write.

\* A piece on its way into a chat has been said, in this chat, and is together
\* only with pieces that it may be with.
LEMMA CarriesTold ==
    ASSUME Coherent, NEW m \in Turns, NEW x \in DOMAIN outbox[m]
    PROVE  /\ outbox[m][x] \in Told /\ Chat[outbox[m][x][1]] = Chat[m]
           /\ outbox[m][x] \in ToSet(outbox[m]) /\ outbox[m][x] \in Pieces
           /\ outbox[m][x][1] \in Turns /\ outbox[m][x][2] \in Nat
<1>1. Settled /\ Belongs /\ UntoldUnseen /\ LinesTold
  BY DEF Coherent
<1>2. outbox[m][x] \in ToSet(outbox[m])
  BY DEF ToSet
<1>3. Proper(outbox[m][x], Chat[m])
  BY <1>1, <1>2 DEF Belongs, CallsProper
<1>4. outbox[m][x] \in Told
  BY <1>1, <1>2, SomewhereIsTold DEF Somewhere
<1> QED
  BY <1>2, <1>3, <1>4, TurnAssumption DEF Proper, Pieces

LEMMA CarriesWell ==
    ASSUME Coherent, NEW m \in Turns
    PROVE  /\ \A x, y \in DOMAIN outbox[m] : x < y => Promise!Follows(outbox[m][y], outbox[m][x])
           /\ \A x, y \in DOMAIN outbox[m] : Promise!Mingle(outbox[m][x], outbox[m][y])
<1>1. Ordered(outbox[m]) /\ Mixed
  BY DEF Coherent, Placed, Own, TextsOrdered
<1>2. ASSUME NEW x \in DOMAIN outbox[m], NEW y \in DOMAIN outbox[m]
      PROVE  Promise!Mingle(outbox[m][x], outbox[m][y])
  <2>1. outbox[m][x] \in ToSet(outbox[m]) /\ outbox[m][y] \in ToSet(outbox[m])
    BY DEF ToSet
  <2>2. Mixes(outbox[m][x], outbox[m][y])
    BY <1>1, <2>1 DEF Mixed, CallsMixed
  <2> QED
    BY <2>2 DEF Mixes, Promise!Mingle
<1> QED
  BY <1>1, <1>2 DEF Ordered

\* What is in a chat, as a version.
LEMMA ShownIsVersion ==
    ASSUME Coherent, NEW k \in Chats, NEW i \in DOMAIN shown[k], NEW x \in DOMAIN shown[k][i]
    PROVE  /\ InVersion(shown[k][i][x], k, i) /\ i \in Nat
           /\ i \in 1..Len(shown[k]) /\ Len(shown[k]) \in Nat
           /\ InChat(shown[k][i][x], k)
           /\ shown[k][i][x] \in Pieces /\ shown[k][i][x][1] \in Turns
           /\ shown[k][i][x][2] \in Nat
<1>1. shown[k][i][x] \in ToSet(shown[k][i])
  BY DEF ToSet
<1>2. Proper(shown[k][i][x], k)
  BY <1>1 DEF Coherent, Belongs, ShownProper
<1>3. shown[k] \in Seq(Seq(Pieces))
  BY DEF Coherent, Settled, Typed, ChannelTyped
<1> QED
  BY <1>1, <1>2, <1>3, TurnAssumption DEF InVersion, InChat, Proper, Pieces

\* A message of its own.
LEMMA PostWrites ==
    ASSUME Coherent, NEW m \in Turns, Posts(m)
    PROVE  /\ Promise!Write(Chat[m], Len(shown[Chat[m]]) + 1, outbox[m])
           /\ Len(shown[Chat[m]]) + 1 \in DOMAIN shown'[Chat[m]]
           /\ shown'[Chat[m]][Len(shown[Chat[m]]) + 1] = outbox[m]
<1> DEFINE k == Chat[m]
           i == Len(shown[k]) + 1
<1>0. /\ Settled /\ Belongs /\ Once /\ SpokenInOrder /\ Typed /\ k \in Chats /\ Post(m)
      /\ target[m] = 0
  BY TurnAssumption DEF Coherent, Placed, Settled, Posts
<1>1. /\ Len(shown[k]) + 1 \notin DOMAIN shown[k]
      /\ Len(shown[k]) + 1 \in DOMAIN shown'[k] /\ shown'[k][Len(shown[k]) + 1] = outbox[m]
  BY <1>0, PostShows
<1>2. Len(shown[k]) \in Nat
  BY <1>0 DEF Typed, ChannelTyped
<1>3. ASSUME NEW x \in DOMAIN outbox[m] PROVE Promise!Fits(outbox[m][x], k, i)
  <2> DEFINE q == outbox[m][x]
  <2>1. /\ q \in Told /\ Chat[q[1]] = k /\ q \in ToSet(outbox[m]) /\ q \in Pieces
        /\ q[1] \in Turns /\ q[2] \in Nat
    BY CarriesTold
  <2> HIDE DEF q
  <2>2. Posting(q, m)
    BY <1>0, <2>1 DEF Posting
  <2>3. \A j \in Nat : ~InVersion(q, k, j)
    BY <1>0, <2>1, <2>2 DEF Once, NotYet
  <2>4. ~Promise!Shows(k, q)
    <3>1. ~InChat(q, k)
      <4> SUFFICES ASSUME NEW j \in DOMAIN shown[k], q \in ToSet(shown[k][j]) PROVE FALSE
        BY DEF InChat
      <4>1. j \in Nat
        BY <1>0 DEF Typed, ChannelTyped
      <4> QED
        BY <2>3, <4>1 DEF InVersion
    <3> QED
      BY <3>1, ShowsIsInChat
  <2>5. ASSUME q[1] \notin overlapped, NEW j \in DOMAIN shown[k], NEW y \in DOMAIN shown[k][j]
        PROVE  /\ Promise!Follows(q, shown[k][j][y])
               /\ (shown[k][j][y][1] = q[1] /\ j > i => shown[k][j][y][2] = 0)
    <3> DEFINE p == shown[k][j][y]
    <3>1. /\ InVersion(p, k, j) /\ j \in Nat /\ j \in 1..Len(shown[k])
          /\ p \in Pieces /\ p[2] \in Nat
      BY <1>0, ShownIsVersion
    <3> HIDE DEF p
    <3>2. p # q
      BY <2>3, <3>1
    <3>3. ASSUME p[1] = q[1], q[2] # 0 PROVE p[2] < q[2]
      <4>1. CASE p[2] = 0
        BY <2>1, <3>3, <4>1
      <4>2. CASE p[2] # 0
        <5>1. TextOf(p, q[1]) /\ TextOf(q, q[1]) /\ Apart(q[1])
          BY <2>1, <2>5, <3>1, <3>3, <4>2 DEF TextOf, Apart
        <5> QED
          BY <1>0, <2>1, <2>2, <3>1, <5>1 DEF SpokenInOrder, PostedLast
      <4> QED
        BY <4>1, <4>2
    <3>4. Promise!Follows(q, p)
      BY <3>2, <3>3 DEF Promise!Follows
    <3>5. ~(j > i)
      BY <1>2, <3>1
    <3> QED
      BY <3>4, <3>5 DEF p
  <2> QED
    BY <2>1, <2>4, <2>5 DEF Promise!Fits, q
<1>4. shown' = [shown EXCEPT ![k] = Append(@, outbox[m])]
  BY <1>0 DEF Post
<1>5. Promise!Write(k, i, outbox[m])
  <2>1. shown' = [shown EXCEPT ![k] =
                IF i = Len(@) + 1 THEN Append(@, outbox[m]) ELSE [@ EXCEPT ![i] = outbox[m]]]
    BY <1>4
  <2> DEFINE old == IF i \in DOMAIN shown[k] THEN shown[k][i] ELSE <<>>
  <2>2. old = <<>> /\ DOMAIN old = {}
    BY <1>1
  <2> HIDE DEF old
  <2>3. /\ \A x \in DOMAIN outbox[m] \cap DOMAIN old : outbox[m][x] = old[x]
        /\ \A x \in DOMAIN old \ DOMAIN outbox[m] : old[x][1] \in overlapped
        /\ \A x \in DOMAIN outbox[m] \ DOMAIN old : Promise!Fits(outbox[m][x], k, i)
    BY <1>3, <2>2
  <2>4. i \in 1..(Len(shown[k]) + 1)
    BY <1>2
  <2> QED
    BY <2>1, <2>3, <2>4, CarriesWell DEF Promise!Write, old
<1> QED
  BY <1>1, <1>5

\* An edit: what is new in it fits into the message.
LEMMA EditFits ==
    ASSUME Coherent, NEW m \in Turns, Edits(m),
           NEW x \in DOMAIN outbox[m], x \notin DOMAIN shown[Chat[m]][target[m]]
    PROVE  Promise!Fits(outbox[m][x], Chat[m], target[m])
<1> DEFINE k == Chat[m]
           i == target[m]
           text == outbox[m]
           old == shown[k][i]
           q == text[x]
<1>0. /\ Settled /\ Belongs /\ Once /\ SpokenInOrder /\ Typed /\ k \in Chats /\ Edit(m)
      /\ i # 0 /\ i \in Nat /\ Owned /\ Kinds /\ Chained
  BY TurnAssumption DEF Coherent, Placed, Own, Settled, Edits, Typed, CallsTyped
<1>1. i \in DOMAIN shown[k] /\ old \in Seq(Pieces) /\ text \in Seq(Pieces)
  <2>1. i \in DOMAIN shown[k]
    BY <1>0, EditShows
  <2> QED
    BY <1>0, <2>1 DEF Typed, ChannelTyped, CallsTyped
<1>2. /\ q \in Told /\ Chat[q[1]] = k /\ q \in ToSet(text) /\ q \in Pieces
      /\ q[1] \in Turns /\ q[2] \in Nat
  BY CarriesTold
<1>3. /\ \A a, b \in DOMAIN text : a < b => Promise!Follows(text[b], text[a])
      /\ \A a \in DOMAIN old \cap DOMAIN text : old[a] = text[a]
      /\ \A a \in DOMAIN old \ DOMAIN text : old[a][1] \in overlapped
  <2>1. Agree(text, old) /\ Beyond(old, text, overlapped)
    BY <1>0 DEF Chained, EditsAgree
  <2> QED
    BY <2>1, CarriesWell DEF Agree, Beyond
<1>4. \A y \in DOMAIN old : y < x
  BY <1>1
<1>5. InVersion(q, k, i)
  BY <1>0, <1>2 DEF InVersion
<1> HIDE DEF q
<1>6. ASSUME NEW y \in DOMAIN old, y \in DOMAIN text PROVE Promise!Follows(q, old[y])
  <2>1. old[y] = text[y] /\ y < x
    BY <1>3, <1>4, <1>6
  <2> QED
    BY <1>3, <1>6, <2>1 DEF q
<1>7. \A y \in DOMAIN old : y \in DOMAIN text
  BY <1>1, <1>4
<1>8. \A y \in DOMAIN old : old[y] # q
  BY <1>6, <1>7 DEF Promise!Follows
<1>9. ASSUME NEW j \in DOMAIN shown[k], NEW y \in DOMAIN shown[k][j]
      PROVE  /\ shown[k][j][y] # q
             /\ InVersion(shown[k][j][y], k, j) /\ j \in Nat
             /\ shown[k][j][y] \in Pieces /\ shown[k][j][y][2] \in Nat
  <2> DEFINE p == shown[k][j][y]
  <2>1. InVersion(p, k, j) /\ j \in Nat /\ p \in Pieces /\ p[2] \in Nat
    BY <1>0, ShownIsVersion
  <2>2. ASSUME p = q PROVE FALSE
    <3>1. j = i
      BY <1>0, <1>2, <1>5, <2>1, <2>2 DEF Once, OneVersion
    <3> QED
      BY <1>8, <2>2, <3>1
  <2> QED
    BY <2>1, <2>2
<1>10. ~Promise!Shows(k, q)
  BY <1>9 DEF Promise!Shows, Promise!Holds
<1>11. ASSUME q[1] \notin overlapped, NEW j \in DOMAIN shown[k], NEW y \in DOMAIN shown[k][j]
       PROVE  /\ Promise!Follows(q, shown[k][j][y])
              /\ (shown[k][j][y][1] = q[1] /\ j > i => shown[k][j][y][2] = 0)
  <2> DEFINE p == shown[k][j][y]
  <2>1. p # q /\ InVersion(p, k, j) /\ j \in Nat /\ p \in Pieces /\ p[2] \in Nat
    BY <1>9
  <2>2. q[2] # 0 /\ ByEdits(q[1])
    <3>1. q[2] # 0 /\ q[1] \in streamed /\ Live(q[1])
      BY <1>0, <1>2 DEF Kinds
    <3>2. q[1] \in streams \ Direct
      BY <1>0, <3>1 DEF Kinds, Owned, StreamsOnly
    <3> QED
      BY <1>11, <3>1, <3>2 DEF ByEdits, Apart
  <2>3. ASSUME p[1] = q[1], p[2] # 0 PROVE j = i /\ p[2] < q[2]
    <3>1. TextOf(p, q[1]) /\ TextOf(q, q[1])
      BY <1>2, <2>1, <2>2, <2>3 DEF TextOf
    <3>2. j = i
      BY <1>0, <1>2, <1>5, <2>1, <2>2, <3>1 DEF SpokenInOrder, OneMessage
    <3>3. y \in DOMAIN old /\ y \in DOMAIN text /\ p = old[y]
      BY <1>7, <3>2
    <3>4. Promise!Follows(q, p)
      BY <1>6, <3>3
    <3> QED
      BY <2>2, <2>3, <3>2, <3>4 DEF Promise!Follows
  <2> HIDE DEF p
  <2>4. Promise!Follows(q, p)
    <3>1. p[1] = q[1] => p[2] < q[2]
      BY <1>2, <2>1, <2>2, <2>3
    <3> QED
      BY <2>1, <3>1 DEF Promise!Follows
  <2>5. p[1] = q[1] /\ j > i => p[2] = 0
    BY <1>0, <2>1, <2>3
  <2> QED
    BY <2>4, <2>5 DEF p
<1> QED
  BY <1>2, <1>10, <1>11 DEF Promise!Fits, q

LEMMA EditWrites ==
    ASSUME Coherent, NEW m \in Turns, Edits(m)
    PROVE  /\ Promise!Write(Chat[m], target[m], outbox[m])
           /\ target[m] \in DOMAIN shown'[Chat[m]]
           /\ shown'[Chat[m]][target[m]] = outbox[m]
<1> DEFINE k == Chat[m]
           i == target[m]
<1>0. /\ Settled /\ Typed /\ k \in Chats /\ Edit(m) /\ i # 0 /\ i \in Nat /\ Chained
  BY TurnAssumption DEF Coherent, Placed, Settled, Edits, Typed, CallsTyped
<1>1. /\ i \in DOMAIN shown[k] /\ i \in DOMAIN shown'[k] /\ shown'[k][i] = outbox[m]
  BY <1>0, EditShows
<1>2. i \in 1..(Len(shown[k]) + 1) /\ i # Len(shown[k]) + 1
  BY <1>0, <1>1 DEF Typed, ChannelTyped
<1>3. shown' = [shown EXCEPT ![k] =
            IF i = Len(@) + 1 THEN Append(@, outbox[m]) ELSE [@ EXCEPT ![i] = outbox[m]]]
  BY <1>0, <1>2 DEF Edit
<1>4. Agree(outbox[m], shown[k][i]) /\ Beyond(shown[k][i], outbox[m], overlapped)
  BY <1>0 DEF Chained, EditsAgree
<1> DEFINE old == IF i \in DOMAIN shown[k] THEN shown[k][i] ELSE <<>>
<1>5. old = shown[k][i]
  BY <1>1
<1> HIDE DEF old
<1>6. /\ \A x \in DOMAIN outbox[m] \cap DOMAIN old : outbox[m][x] = old[x]
      /\ \A x \in DOMAIN old \ DOMAIN outbox[m] : old[x][1] \in overlapped
  BY <1>4, <1>5 DEF Agree, Beyond
<1>7. \A x \in DOMAIN outbox[m] \ DOMAIN old : Promise!Fits(outbox[m][x], k, i)
  BY <1>5, EditFits
<1>8. Promise!Write(k, i, outbox[m])
  BY <1>2, <1>3, <1>6, <1>7, CarriesWell DEF Promise!Write, old
<1> QED
  BY <1>1, <1>8

-----------------------------------------------------------------------------
\* A step of a turn is one of the promise, or no chat can tell.

LEMMA EndsOrGoesOn ==
    ASSUME Coherent, Coherent', NEW m \in Turns, OwnStep(m)
    PROVE  m \in UnderWay /\ (Promise!Closes(m) \/ UNCHANGED UnderWay)
           /\ (turn'[m] \in InFlight => UNCHANGED UnderWay)
<1>1. Settled /\ Frame(m)
  BY OwnActs DEF Coherent
<1>2. /\ turn[m] \in InFlight /\ turn'[m] \in InFlight \cup {"ended"}
      /\ \A n \in Turns \ {m} : turn'[n] = turn[n]
  BY <1>1 DEF Frame
<1>3. CASE turn'[m] \in InFlight
  BY <1>2, <1>3, StaysOpen DEF UnderWay
<1>4. CASE turn'[m] = "ended"
  BY <1>1, <1>2, <1>4, Closing DEF UnderWay, InFlight
<1> QED
  BY <1>2, <1>3, <1>4

LEMMA SpeaksOrShows ==
    ASSUME Coherent, Coherent', NEW m \in Turns, OwnStep(m), UNCHANGED <<failures, failed>>
    PROVE  Promise!TranscriptNext \/ UNCHANGED <<UnderWay, overlapped, failed, Told, shown, failures>>
<1>0. /\ Settled /\ Settled' /\ UntoldUnseen /\ Move(m) /\ Marks(m) /\ UNCHANGED configVars
      /\ UNCHANGED overlapped
  BY OwnActs DEF Coherent, Frame, Acts, Marks
<1>1. /\ m \in UnderWay /\ (Promise!Closes(m) \/ UNCHANGED UnderWay)
      /\ (turn'[m] \in InFlight => UNCHANGED UnderWay)
  BY EndsOrGoesOn
<1>2. ASSUME UNCHANGED <<Told, shown>>
      PROVE  Promise!TranscriptNext \/ UNCHANGED <<UnderWay, overlapped, failed, Told, shown, failures>>
  BY <1>0, <1>1, <1>2 DEF Promise!TranscriptNext, Promise!Close
<1>3. CASE Keeps(m)
  <2>1. UNCHANGED <<Told, shown>>
    BY <1>0, <1>3, KeepsTells DEF Keeps
  <2> QED
    BY <1>2, <2>1
<1>4. ASSUME ~Keeps(m) PROVE UNCHANGED untold
  BY <1>0, <1>4 DEF Marks
<1>5. ASSUME ~Keeps(m), NEW p \in Pieces, Says(m, p), UNCHANGED shown
      PROVE  Promise!TranscriptNext
  <2>1. (\A q \in Told : Promise!Follows(p, q)) /\ Told' = Told \cup {p}
    BY <1>0, <1>4, <1>5, SaysTells
  <2>2. p = <<m, p[2]>> /\ p[2] \in 0..MaxPieces
    BY <1>5 DEF Says, Piece, ToolLine, Pieces
  <2>3. turn'[m] \in InFlight
    <3>1. said' # said \/ tool' # tool
      BY <1>0, <1>5, TurnAssumption DEF Says, Settled, Typed, AgentTyped
    <3> QED
      BY <1>0, <3>1 DEF Marks
  <2>4. Promise!Says(<<m, p[2]>>)
    BY <2>1, <2>2 DEF Promise!Says
  <2>5. Promise!Tell(m)
    BY <1>0, <1>1, <1>5, <2>2, <2>3, <2>4 DEF Promise!Tell
  <2> QED
    BY <2>5 DEF Promise!TranscriptNext
<1>6. ASSUME ~Keeps(m), SaysNothing PROVE Told' = Told
  BY <1>0, <1>4, <1>6, SaysNothingTells
<1>7. ASSUME ~Keeps(m), SaysNothing, NEW i \in DOMAIN shown'[Chat[m]],
             Promise!Write(Chat[m], i, shown'[Chat[m]][i])
      PROVE  Promise!TranscriptNext
  <2>1. Promise!Show(m)
    BY <1>0, <1>1, <1>6, <1>7 DEF Promise!Show
  <2> QED
    BY <2>1 DEF Promise!TranscriptNext
<1>8. ASSUME ~Keeps(m), Posts(m) PROVE Promise!TranscriptNext
  BY <1>7, <1>8, PostWrites DEF Posts, CallOver
<1>9. ASSUME ~Keeps(m), Edits(m) PROVE Promise!TranscriptNext
  BY <1>7, <1>9, EditWrites DEF Edits, CallOver
<1>10. ~Drops(m)
  BY <1>0 DEF Drops, Settled, Typed, RestTyped
<1>11. ASSUME ~Keeps(m), TakesBuffer(m) \/ TakesStream(m) PROVE UNCHANGED <<Told, shown>>
  BY <1>6, <1>11 DEF TakesBuffer, TakesStream
<1>12. ASSUME ~Keeps(m), NEW p \in Pieces, Buffers(m, p) \/ Asks(m, p) \/ Streams(m, p)
       PROVE  Promise!TranscriptNext
  BY <1>5, <1>12 DEF Buffers, Asks, Streams
<1> QED
  BY <1>0, <1>2, <1>3, <1>8, <1>9, <1>10, <1>11, <1>12 DEF Move

LEMMA OwnKeepsPromise ==
    ASSUME Coherent, Coherent', NEW m \in Turns, OwnStep(m)
    PROVE  Promise!TranscriptNext \/ UNCHANGED <<UnderWay, overlapped, failed, Told, shown, failures>>
<1>0. /\ Settled /\ Marks(m) /\ UNCHANGED configVars /\ UNCHANGED overlapped
  BY OwnActs DEF Coherent, Frame, Marks
<1>1. /\ m \in UnderWay /\ (Promise!Closes(m) \/ UNCHANGED UnderWay)
      /\ (turn'[m] \in InFlight => UNCHANGED UnderWay)
  BY EndsOrGoesOn
<1>2. ASSUME UNCHANGED <<said, tool, untold>> PROVE Told' = Told
  BY <1>0, <1>2, SaysNothingTells DEF SaysNothing
<1>3. CASE failures' = failures + 1 /\ UNCHANGED <<said, tool, shown, failed, untold>>
  <2>1. Promise!Refuse(m)
    BY <1>0, <1>1, <1>2, <1>3 DEF Promise!Refuse
  <2> QED
    BY <2>1 DEF Promise!TranscriptNext
<1>4. CASE UNCHANGED failures /\ failed' = failed \cup {m} /\ turn'[m] = "apologising"
           /\ UNCHANGED <<said, tool, shown, untold>>
  <2>1. turn'[m] \in InFlight
    BY <1>4 DEF InFlight, TurnStates
  <2>2. Promise!Fail(m)
    BY <1>0, <1>1, <1>2, <1>4, <2>1 DEF Promise!Fail
  <2> QED
    BY <2>2 DEF Promise!TranscriptNext
<1>5. CASE UNCHANGED <<failures, failed>>
  BY <1>5, SpeaksOrShows
<1> QED
  BY <1>0, <1>3, <1>4, <1>5 DEF Marks

-----------------------------------------------------------------------------
\* A task for a message is a turn under way.
LEMMA HandleOpens ==
    ASSUME Coherent, Coherent', Handle
    PROVE  Promise!Open(Head(queue))
<1> DEFINE m == Head(queue)
<1>0. /\ Settled /\ Settled' /\ Typed /\ Lined /\ UntoldUnseen
  BY DEF Coherent, Settled
<1>1. /\ m \in Turns /\ turn[m] = "queued"
      /\ \/ /\ m \in Direct /\ turn' = [turn EXCEPT ![m] = "direct"]
            /\ said' = [said EXCEPT ![m] = 1]
         \/ /\ m \notin Direct /\ turn' = [turn EXCEPT ![m] = "preparing"]
            /\ UNCHANGED said
      /\ UNCHANGED <<tool, configVars, shown, untold>>
  BY <1>0, HandleIs
<1>2. /\ UNCHANGED <<failures, failed>>
      /\ overlapped' =
            LET beside == {n \in Turns : Chat[n] = Chat[m] /\ turn[n] \in InFlight}
            IN  IF beside = {} THEN overlapped ELSE overlapped \cup beside \cup {m}
  BY DEF Handle
<1> HIDE DEF m
<1>3. m \notin UnderWay /\ UnderWay' = UnderWay \cup {m}
  <2>1. turn'[m] \in InFlight /\ turn[m] \notin InFlight
    BY <1>0, <1>1 DEF Typed, FlowTyped, InFlight, TurnStates
  <2>2. \A n \in Turns \ {m} : turn'[n] = turn[n]
    BY <1>0, <1>1 DEF Typed, FlowTyped
  <2> QED
    BY <1>1, <2>1, <2>2 DEF UnderWay
<1>4. {n \in Turns : Chat[n] = Chat[m] /\ turn[n] \in InFlight} =
            {n \in UnderWay : Chat[n] = Chat[m]}
  BY DEF UnderWay
<1>5. Promise!Says(<<m, 1>>) \/ UNCHANGED Told
  <2>1. CASE m \in Direct /\ said' = [said EXCEPT ![m] = 1]
    <3>1. said[m] = 0
      BY <1>0, <1>1 DEF Settled, Unsaid
    <3>2. Piece(m) = <<m, 1>> /\ <<m, 1>> \in Pieces
      BY <1>1, <3>1, TurnAssumption DEF Piece, Pieces
    <3>3. Says(m, <<m, 1>>)
      BY <1>0, <1>1, <2>1, <3>1, <3>2 DEF Says, Typed, AgentTyped
    <3> QED
      BY <1>0, <1>1, <3>2, <3>3, SaysTells DEF Promise!Says
  <2>2. CASE UNCHANGED said
    BY <1>1, <2>2, SaysNothingTells DEF SaysNothing
  <2> QED
    BY <1>1, <2>1, <2>2
<1> QED
  BY <1>1, <1>2, <1>3, <1>4, <1>5 DEF Promise!Open, m

LEMMA InitPromises == Init => Promise!TranscriptInit
<1> SUFFICES ASSUME Init PROVE Promise!TranscriptInit
  OBVIOUS
<1>1. /\ \A m \in Turns : turn[m] = "away" /\ said[m] = 0 /\ tool[m] = "none"
      /\ overlapped = {} /\ failed = {} /\ failures = 0 /\ shown = [k \in Chats |-> <<>>]
  BY DEF Init
<1>2. UnderWay = {}
  BY <1>1 DEF UnderWay, InFlight
<1>3. \A m \in Turns : Uttered(m) = {}
  BY <1>1 DEF Uttered
<1>4. Told = {}
  BY <1>3 DEF Told
<1> QED
  BY <1>1, <1>2, <1>4 DEF Promise!TranscriptInit

LEMMA StepPromises ==
    Coherent /\ Coherent' /\ [Next]_vars => [Promise!TranscriptNext]_(Promise!transcriptVars)
<1> SUFFICES ASSUME Coherent, Coherent', [Next]_vars
             PROVE  Promise!TranscriptNext \/ UNCHANGED <<UnderWay, overlapped, failed, Told, shown, failures>>
  BY DEF Promise!transcriptVars
<1>1. CASE \E m \in Turns : OwnStep(m)
  BY <1>1, OwnKeepsPromise
<1>2. CASE \E m \in Turns : Publish(m) /\ typing' \subseteq typing \cup {Chat[m]}
  <2>1. PICK m \in Turns : Publish(m)
    BY <1>2
  <2>2. /\ UNCHANGED <<said, tool, untold, configVars, overlapped, failed, shown, failures>>
        /\ turn[m] = "away" /\ turn' = [turn EXCEPT ![m] = "queued"]
    BY <2>1 DEF Publish, Goes, agentVars, historyVars, configVars
  <2>3. Told' = Told
    BY <2>2, SaysNothingTells DEF SaysNothing
  <2>4. UNCHANGED UnderWay
    BY <2>2 DEF UnderWay, InFlight, Coherent, Settled, Typed, FlowTyped
  <2> QED
    BY <2>2, <2>3, <2>4
<1>3. CASE Handle
  <2>1. Head(queue) \in Turns
    BY <1>3, HandleIs DEF Coherent, Settled
  <2> QED
    BY <1>3, <2>1, HandleOpens DEF Promise!TranscriptNext
<1>4. CASE UNCHANGED vars
  BY <1>4 DEF vars, agentVars, configVars, channelVars, historyVars, UnderWay, Told, Uttered,
     Quiet, ToolLine
<1> QED
  BY <1>1, <1>2, <1>3, <1>4, Steps

\* However many turns, chats, pieces and failures: what the bus, the streaming,
\* the buffers and the calls to the platform bring about in a chat is what the
\* promise allows.  A message grows with what an agent has said and the chat does
\* not show, the text of a turn that has the chat for itself is read in the order
\* in which it was said and stays, and the turn ends when all of it is shown.
THEOREM TurnsKeepThePromise == Spec => KeepsPromise
<1>1. Init => Coherent /\ Promise!TranscriptInit
  BY InitCoherent, InitPromises
<1>2. Coherent /\ [Next]_vars => Coherent'
  BY CoherentStep
<1>3. Coherent /\ Coherent' /\ [Next]_vars => [Promise!TranscriptNext]_(Promise!transcriptVars)
  BY StepPromises
<1> QED
  BY <1>1, <1>2, <1>3, PTL DEF Spec, KeepsPromise, Promise!TranscriptSpec
=============================================================================
