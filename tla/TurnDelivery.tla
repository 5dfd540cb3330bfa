---------------------------- MODULE TurnDelivery ----------------------------
(***************************************************************************)
(* From a user's message on the bus to the agent's reply in the chat.  The *)
(* bus worker starts a task per message, so two turns of one conversation  *)
(* overlap; the reply is streamed in pieces, which the channel collects    *)
(* for one message (BaseChannel) or, with streaming_enabled, shows by      *)
(* editing a message that is already in the chat (Telegram, Discord,       *)
(* Slack).  The channel's state is keyed by the conversation, not by the   *)
(* turn, and is shared by the turns that overlap.                          *)
(*                                                                         *)
(* An action is the code between two awaits; a message that is split into  *)
(* parts for its length is one message here.                               *)
(***************************************************************************)
EXTENDS Integers, SequencesExt

CONSTANTS
    Turns,        \* messages on the bus
    Direct,       \* those of subagents, addressed to the channel: no agent is asked
    Chats,        \* conversations: pairs (chat_id, context_id)
    Chat,         \* Chat[m]: the conversation of m
    Configs,      \* settings to look at: streaming_enabled, the chats of cron jobs
    MaxTurns,     \* bound: messages that come
    MaxPieces,    \* bound: pieces of text of one turn
    MaxTools,     \* bound: turns whose agent calls a tool, once
    MaxFailures   \* bound: calls to the chat platform that fail

ASSUME TurnAssumption ==
    /\ Direct \subseteq Turns
    /\ Chat \in [Turns -> Chats]
    /\ Configs \subseteq [streaming : BOOLEAN, cron : SUBSET Chats]
    /\ MaxTurns \in Nat /\ MaxPieces \in Nat \ {0} /\ MaxTools \in Nat /\ MaxFailures \in Nat

VARIABLES
    queue,      \* the bus
    turn,       \* where the task of a turn awaits
    streams,    \* the turns whose model streams its answers
    said,       \* said[m]: pieces of text of m's model so far
    heard,      \* heard[m]: those whose model call is over
    streamed,   \* turns in their own streaming_contexts
    tool,       \* tool[m]: the tool call of m's agent
    outbox,     \* outbox[m]: the text of the call to the platform m awaits
    target,     \* target[m]: the message that call edits
    streaming,  \* channel config: streaming_enabled
    cron,       \* the conversations of cron jobs (is_cron_context_id)
    stash,      \* _tool_call_buffer: the turns with a call in it
    buffer,     \* BaseChannel._chunk_buffer
    stream,     \* _stream_state: a message and its text, or none
    shown,      \* the messages in the chat
    typing,     \* the conversations with a typing task
    apologies,  \* turns answered with "Sorry, something went wrong"
    blocked,    \* turns a guardrail or the rate limit answered
    \* bounds and history
    failures,
    lost,       \* pieces of calls to the platform that failed
    untold,     \* pieces beside a tool call of a model that does not stream
    silent,     \* turns that ended without asking the channel to answer
    failed,     \* turns whose agent raised
    overlapped  \* turns that were in flight beside another of their chat

agentVars == <<streams, said, heard, streamed, tool, blocked>>
configVars == <<streaming, cron>>
callVars == <<outbox, target>>
channelVars == <<stash, buffer, stream, shown, typing>>
historyVars == <<failures, lost, untold, silent, failed, overlapped>>
vars == <<queue, turn, agentVars, callVars, configVars, channelVars, apologies, historyVars>>

\* Pieces of text; number 0 is the line of the tool call.
Pieces == Turns \X (0..MaxPieces)
NoStream == [message |-> 0, text |-> <<>>]

\* What an await of a turn is for.
TurnStates == {"away", "queued", "preparing", "agent", "starting", "editing", "tool",
               "whole", "direct", "flushing", "showing", "apologising", "ended"}
InFlight == TurnStates \ {"away", "queued", "ended"}

Init ==
    /\ queue = <<>>
    /\ turn = [m \in Turns |-> "away"]
    /\ streams \in SUBSET Turns
    /\ said = [m \in Turns |-> 0]
    /\ heard = [m \in Turns |-> 0]
    /\ streamed = {}
    /\ tool = [m \in Turns |-> "none"]
    /\ outbox = [m \in Turns |-> <<>>]
    /\ target = [m \in Turns |-> 0]
    /\ \E c \in Configs : streaming = c.streaming /\ cron = c.cron
    /\ stash = {}
    /\ buffer = [k \in Chats |-> <<>>]
    /\ stream = [k \in Chats |-> NoStream]
    /\ shown = [k \in Chats |-> <<>>]
    /\ typing = {}
    /\ apologies = {}
    /\ blocked = {}
    /\ failures = 0
    /\ lost = {}
    /\ untold = {}
    /\ silent = {}
    /\ failed = {}
    /\ overlapped = {}

-----------------------------------------------------------------------------
Goes(m, s) == turn' = [turn EXCEPT ![m] = s]

\* The task of m awaits a call to the platform, with this text.
Calls(m, s, text) ==
    /\ Goes(m, s)
    /\ outbox' = [outbox EXCEPT ![m] = text]

\* The call is over.
Answered(m, s) ==
    /\ Goes(m, s)
    /\ outbox' = [outbox EXCEPT ![m] = <<>>]
    /\ target' = [target EXCEPT ![m] = 0]

PlatformFails ==
    /\ failures < MaxFailures
    /\ failures' = failures + 1

Post(m) == shown' = [shown EXCEPT ![Chat[m]] = Append(@, outbox[m])]
Edit(m) == shown' = [shown EXCEPT ![Chat[m]][target[m]] = outbox[m]]

\* In a job's conversation there are no tool lines, and send_ai_chunk is
\* BaseChannel's whatever the config.
Quiet(m) == Chat[m] \in cron
Live(m) == streaming /\ ~Quiet(m)

StopTyping(m) == typing' = typing \ {Chat[m]}

-----------------------------------------------------------------------------
Publish(m) ==
    /\ turn[m] = "away"
    /\ Cardinality({n \in Turns : turn[n] # "away"}) < MaxTurns
    /\ Goes(m, "queued")
    /\ queue' = Append(queue, m)
    /\ UNCHANGED <<agentVars, callVars, configVars, stash, buffer, stream, shown, apologies,
                   historyVars>>

\* A channel's handler of a user's message: typing, then the bus.  A job that
\* fires is published without.
Arrive(m) ==
    /\ m \notin Direct
    /\ Publish(m)
    /\ typing' = IF Quiet(m) THEN typing ELSE typing \cup {Chat[m]}

\* A channel-routed subagent that m's agent has called sends its answer to the
\* chat itself; a publish that raises is logged, and then there is no message.
SubagentReports(m, n) ==
    /\ turn[m] = "agent"
    /\ tool[m] = "called"
    /\ n \in Direct
    /\ Chat[n] = Chat[m]
    /\ Publish(n)
    /\ UNCHANGED typing

\* _bus_worker: a task for the next message.  A direct one goes to the channel.
Handle ==
    /\ queue # <<>>
    /\ LET m == Head(queue)
           beside == {n \in Turns : Chat[n] = Chat[m] /\ turn[n] \in InFlight}
       IN  /\ queue' = Tail(queue)
           /\ overlapped' = IF beside = {} THEN overlapped ELSE overlapped \cup beside \cup {m}
           /\ IF m \in Direct
              THEN /\ Calls(m, "direct", <<<<m, 1>>>>)
                   /\ said' = [said EXCEPT ![m] = 1]
                   /\ heard' = [heard EXCEPT ![m] = 1]
                   /\ StopTyping(m)
              ELSE /\ Goes(m, "preparing")
                   /\ UNCHANGED <<said, heard, outbox, typing>>
    /\ UNCHANGED <<streams, streamed, tool, blocked, target, configVars, stash, buffer, stream,
                   shown, apologies, failures, lost, untold, silent, failed>>

\* _handle up to its try: which agent, its thread, role, context, a rebuild.
Prepare(m) ==
    /\ turn[m] = "preparing"
    /\ Goes(m, "agent")
    /\ UNCHANGED <<queue, agentVars, callVars, configVars, channelVars, apologies, historyVars>>

\* An exception there is nobody's: the task dies.
PrepareRaises(m) ==
    /\ turn[m] = "preparing"
    /\ Goes(m, "ended")
    /\ silent' = silent \cup {m}
    /\ UNCHANGED <<queue, agentVars, callVars, configVars, channelVars, apologies, failures,
                   lost, untold, failed, overlapped>>

-----------------------------------------------------------------------------
\* The agent streams.

InAgent(m) ==
    /\ turn[m] = "agent"
    /\ m \notin blocked
    /\ UNCHANGED <<queue, streams, blocked, configVars, apologies>>

InModel(m) ==
    /\ InAgent(m)
    /\ tool[m] # "called"

\* The next piece of the model's answer, as an AIMessageChunk of the model node.
NewChunk(m) ==
    /\ InModel(m)
    /\ m \in streams
    /\ said[m] < MaxPieces
    /\ said' = [said EXCEPT ![m] = @ + 1]
    /\ streamed' = streamed \cup {m}
    /\ UNCHANGED <<heard, tool, stash, typing, historyVars>>

Piece(m) == <<m, said[m] + 1>>

\* MUTANT of BufferChunk: the chunk of another turn is not kept.
BufferChunkAlone(m) ==
    /\ NewChunk(m)
    /\ ~Live(m)
    /\ buffer' = [buffer EXCEPT ![Chat[m]] =
                    Append(SelectSeq(@, LAMBDA p : p[1] = m), Piece(m))]
    /\ UNCHANGED <<turn, callVars, stream, shown>>

\* BaseChannel.send_ai_chunk.
BufferChunk(m) ==
    /\ NewChunk(m)
    /\ ~Live(m)
    /\ buffer' = [buffer EXCEPT ![Chat[m]] = Append(@, Piece(m))]
    /\ UNCHANGED <<turn, callVars, stream, shown>>

\* The first chunk is sent as a message of its own,
StartMessage(m) ==
    /\ NewChunk(m)
    /\ Live(m)
    /\ stream[Chat[m]] = NoStream
    /\ Calls(m, "starting", <<Piece(m)>>)
    /\ UNCHANGED <<target, buffer, stream, shown>>

\* MUTANT of AppendChunk: the edit carries the new chunk and not all of the text.
AppendChunkBare(m) ==
    /\ NewChunk(m)
    /\ Live(m)
    /\ stream[Chat[m]] # NoStream
    /\ LET s == [stream[Chat[m]] EXCEPT !.text = Append(@, Piece(m))]
       IN  /\ stream' = [stream EXCEPT ![Chat[m]] = s]
           /\ \/ /\ Calls(m, "editing", <<Piece(m)>>)
                 /\ target' = [target EXCEPT ![m] = s.message]
              \/ UNCHANGED <<turn, outbox, target>>
    /\ UNCHANGED <<buffer, shown>>

\* which the next chunks edit, at most every 300 ms.
AppendChunk(m) ==
    /\ NewChunk(m)
    /\ Live(m)
    /\ stream[Chat[m]] # NoStream
    /\ LET s == [stream[Chat[m]] EXCEPT !.text = Append(@, Piece(m))]
       IN  /\ stream' = [stream EXCEPT ![Chat[m]] = s]
           /\ \/ /\ Calls(m, "editing", s.text)
                 /\ target' = [target EXCEPT ![m] = s.message]
              \/ UNCHANGED <<turn, outbox, target>>
    /\ UNCHANGED <<buffer, shown>>

Started(m) ==
    /\ turn[m] = "starting"
    /\ Post(m)
    /\ stream' = [stream EXCEPT ![Chat[m]] =
                    [message |-> Len(shown[Chat[m]]) + 1, text |-> outbox[m]]]
    /\ Answered(m, "agent")
    /\ UNCHANGED <<queue, agentVars, configVars, stash, buffer, typing, apologies, historyVars>>

Edited(m) ==
    /\ turn[m] = "editing"
    /\ Edit(m)
    /\ Answered(m, "agent")
    /\ UNCHANGED <<queue, agentVars, configVars, stash, buffer, stream, typing, apologies,
                   historyVars>>

\* MUTANT of StreamCallFails: the message is taken for sent.
StreamCallFailsKept(m) ==
    /\ turn[m] \in {"starting", "editing"}
    /\ PlatformFails
    /\ lost' = lost \cup ToSet(outbox[m])
    /\ stream' = [stream EXCEPT ![Chat[m]] =
                    [message |-> Len(shown[Chat[m]]) + 1, text |-> outbox[m]]]
    /\ Answered(m, "agent")
    /\ UNCHANGED <<queue, agentVars, configVars, stash, buffer, shown, typing, apologies,
                   untold, silent, failed, overlapped>>

\* Both calls are best effort: what raises is logged.
StreamCallFails(m) ==
    /\ turn[m] \in {"starting", "editing"}
    /\ PlatformFails
    /\ lost' = IF turn[m] = "starting" THEN lost \cup ToSet(outbox[m]) ELSE lost
    /\ Answered(m, "agent")
    /\ UNCHANGED <<queue, agentVars, configVars, channelVars, apologies, untold, silent, failed,
                   overlapped>>

\* MUTANT of ModelUpdate: the whole text is sent even when it was streamed.
ModelUpdateTwice(m) ==
    /\ InModel(m)
    /\ m \in streams
    /\ heard[m] < said[m]
    /\ heard' = [heard EXCEPT ![m] = said[m]]
    /\ Calls(m, "whole", [i \in 1..(said[m] - heard[m]) |-> <<m, heard[m] + i>>])
    /\ StopTyping(m)
    /\ UNCHANGED <<said, streamed, tool, target, stash, buffer, stream, shown, historyVars>>

\* The update of a model call: its text was streamed already,
ModelUpdate(m) ==
    /\ InModel(m)
    /\ m \in streams
    /\ heard[m] < said[m]
    /\ heard' = [heard EXCEPT ![m] = said[m]]
    /\ UNCHANGED <<turn, said, streamed, tool, callVars, channelVars, historyVars>>

\* or is sent whole.
WholeUpdate(m) ==
    /\ InModel(m)
    /\ m \notin streams
    /\ said[m] < MaxPieces
    /\ said' = [said EXCEPT ![m] = @ + 1]
    /\ heard' = [heard EXCEPT ![m] = said[m] + 1]
    /\ Calls(m, "whole", <<Piece(m)>>)
    /\ StopTyping(m)
    /\ UNCHANGED <<streamed, tool, target, stash, buffer, stream, shown, historyVars>>

\* An update with a tool call: the channel keeps its name and arguments.  Text
\* beside it is not sent: a model that streams has sent it in pieces, of one that
\* does not it is seen by nobody.
ToolCall(m) ==
    /\ InAgent(m)
    /\ tool[m] = "none"
    /\ Cardinality({n \in Turns : tool[n] # "none"}) < MaxTools
    /\ tool' = [tool EXCEPT ![m] = "called"]
    /\ stash' = IF Quiet(m) THEN stash ELSE stash \cup {m}
    /\ \/ /\ heard' = [heard EXCEPT ![m] = said[m]]
          /\ UNCHANGED <<said, untold>>
       \/ /\ m \notin streams
          /\ said[m] < MaxPieces
          /\ said' = [said EXCEPT ![m] = @ + 1]
          /\ heard' = [heard EXCEPT ![m] = @ + 1]
          /\ untold' = untold \cup {Piece(m)}
    /\ UNCHANGED <<turn, streamed, callVars, buffer, stream, shown, typing, failures, lost,
                   silent, failed, overlapped>>

\* What was called, with what, and what it returned.
ToolLine(m) == <<m, 0>>

\* The tool's result: the channel takes the call out and shows both in a line.
ToolResult(m) ==
    /\ InAgent(m)
    /\ tool[m] = "called"
    /\ tool' = [tool EXCEPT ![m] = "done"]
    /\ stash' = stash \ {m}
    /\ IF Quiet(m) THEN UNCHANGED <<turn, outbox>> ELSE Calls(m, "tool", <<ToolLine(m)>>)
    /\ UNCHANGED <<said, heard, streamed, target, buffer, stream, shown, typing, historyVars>>

\* The line is best effort on every platform.
ToolSent(m) ==
    /\ turn[m] = "tool"
    /\ \/ Post(m) /\ UNCHANGED <<failures, lost>>
       \/ PlatformFails /\ lost' = lost \cup ToSet(outbox[m]) /\ UNCHANGED shown
    /\ Answered(m, "agent")
    /\ UNCHANGED <<queue, agentVars, configVars, stash, buffer, stream, typing, apologies,
                   untold, silent, failed, overlapped>>

\* before_agent of a guardrail or the rate limit answers and jumps to the end:
\* an update of another node than model and tools.
Block(m) ==
    /\ turn[m] = "agent"
    /\ said[m] = 0
    /\ tool[m] = "none"
    /\ m \notin blocked
    /\ blocked' = blocked \cup {m}
    /\ UNCHANGED <<queue, turn, streams, said, heard, streamed, tool, callVars, configVars,
                   channelVars, apologies, historyVars>>

AgentRaises(m) ==
    /\ turn[m] = "agent"
    /\ Goes(m, "apologising")
    /\ failed' = failed \cup {m}
    /\ UNCHANGED <<queue, agentVars, callVars, configVars, stash, buffer, stream, shown, typing,
                   apologies, failures, lost, untold, silent, overlapped>>

-----------------------------------------------------------------------------
\* The end of the stream.

StreamEnds(m) ==
    /\ turn[m] = "agent"
    /\ tool[m] # "called"
    /\ heard[m] = said[m]
    /\ UNCHANGED <<queue, agentVars, configVars, stash, shown, apologies, failures, lost,
                   untold, failed, overlapped>>

\* Nothing was streamed, so there is nothing to flush.
EndUnstreamed(m) ==
    /\ StreamEnds(m)
    /\ m \notin streamed
    /\ Goes(m, "ended")
    /\ silent' = IF \A n \in 1..said[m] : <<m, n>> \in untold THEN silent \cup {m} ELSE silent
    /\ UNCHANGED <<callVars, buffer, stream, typing>>

\* MUTANT of EndBuffered: the buffer is read and stays.
EndBufferedKeeps(m) ==
    /\ StreamEnds(m)
    /\ m \in streamed
    /\ ~Live(m)
    /\ IF buffer[Chat[m]] = <<>>
       THEN Goes(m, "ended") /\ UNCHANGED <<outbox, typing>>
       ELSE Calls(m, "showing", buffer[Chat[m]]) /\ StopTyping(m)
    /\ UNCHANGED <<target, buffer, stream, silent>>

\* MUTANT of EndBuffered: the typing indicator goes on.
EndBufferedTyping(m) ==
    /\ StreamEnds(m)
    /\ m \in streamed
    /\ ~Live(m)
    /\ buffer' = [buffer EXCEPT ![Chat[m]] = <<>>]
    /\ IF buffer[Chat[m]] = <<>>
       THEN Goes(m, "ended") /\ UNCHANGED outbox
       ELSE Calls(m, "showing", buffer[Chat[m]])
    /\ UNCHANGED <<target, stream, typing, silent>>

\* is_final: everything collected becomes one message.  The text of a turn that
\* overlapped may have gone with the other's.
EndBuffered(m) ==
    /\ StreamEnds(m)
    /\ m \in streamed
    /\ ~Live(m)
    /\ buffer' = [buffer EXCEPT ![Chat[m]] = <<>>]
    /\ IF buffer[Chat[m]] = <<>>
       THEN Goes(m, "ended") /\ silent' = silent \cup {m} /\ UNCHANGED <<outbox, typing>>
       ELSE Calls(m, "showing", buffer[Chat[m]]) /\ StopTyping(m) /\ UNCHANGED silent
    /\ UNCHANGED <<target, stream>>

\* MUTANT of EndEdited: the last edit is throttled like the others.
EndEditedThrottled(m) ==
    /\ StreamEnds(m)
    /\ m \in streamed
    /\ Live(m)
    /\ StopTyping(m)
    /\ stream' = [stream EXCEPT ![Chat[m]] = NoStream]
    /\ Goes(m, "ended")
    /\ UNCHANGED <<callVars, buffer, silent>>

\* is_final: one last edit, whatever the throttle says.
EndEdited(m) ==
    /\ StreamEnds(m)
    /\ m \in streamed
    /\ Live(m)
    /\ StopTyping(m)
    /\ LET s == stream[Chat[m]]
       IN  IF s = NoStream
           THEN Goes(m, "ended") /\ UNCHANGED callVars
           ELSE /\ Calls(m, "flushing", s.text)
                /\ target' = [target EXCEPT ![m] = s.message]
    /\ UNCHANGED <<buffer, stream, silent>>

\* It succeeds or is logged; then the state is deleted.  A turn that overlapped
\* may have deleted it, and deleting it again raises.
Flushed(m) ==
    /\ turn[m] = "flushing"
    /\ \/ Edit(m) /\ UNCHANGED <<failures, lost>>
       \/ PlatformFails /\ lost' = lost \cup ToSet(outbox[m]) /\ UNCHANGED shown
    /\ stream' = [stream EXCEPT ![Chat[m]] = NoStream]
    /\ Answered(m, IF stream[Chat[m]] = NoStream THEN "apologising" ELSE "ended")
    /\ UNCHANGED <<queue, agentVars, configVars, stash, buffer, typing, apologies, untold, silent,
                   failed, overlapped>>

-----------------------------------------------------------------------------
\* Messages sent whole, with send_ai_message.

AfterSend(m) == IF turn[m] = "whole" THEN "agent" ELSE "ended"

Sent(m) ==
    /\ turn[m] \in {"whole", "direct", "showing"}
    /\ Post(m)
    /\ Answered(m, AfterSend(m))
    /\ UNCHANGED <<queue, agentVars, configVars, stash, buffer, stream, typing, apologies,
                   historyVars>>

\* Discord, Slack and Matrix log a failed send; Telegram's raises in the end.  A
\* direct message is sent outside the try of _handle.
SendFails(m) ==
    /\ turn[m] \in {"whole", "direct", "showing"}
    /\ PlatformFails
    /\ lost' = lost \cup ToSet(outbox[m])
    /\ \/ Answered(m, AfterSend(m))
       \/ Answered(m, IF turn[m] = "direct" THEN "ended" ELSE "apologising")
    /\ UNCHANGED <<queue, agentVars, configVars, channelVars, apologies, untold, silent, failed,
                   overlapped>>

\* "Sorry, something went wrong" is sent, or that fails or takes too long.
Apologise(m) ==
    /\ turn[m] = "apologising"
    /\ Goes(m, "ended")
    /\ StopTyping(m)
    /\ \/ apologies' = apologies \cup {m} /\ UNCHANGED failures
       \/ PlatformFails /\ UNCHANGED apologies
    /\ UNCHANGED <<queue, agentVars, callVars, configVars, stash, buffer, stream, shown, lost,
                   untold, silent, failed, overlapped>>

\* Every user has got what he gets.
Quiescent ==
    /\ \A m \in Turns : turn[m] \in {"away", "ended"}
    /\ UNCHANGED vars

-----------------------------------------------------------------------------
\* The steps that the event loop takes, or a call's answer.
TurnStep(m) ==
    \/ Prepare(m)
    \/ BufferChunk(m)
    \/ StartMessage(m)
    \/ AppendChunk(m)
    \/ Started(m)
    \/ Edited(m)
    \/ ModelUpdate(m)
    \/ WholeUpdate(m)
    \/ ToolCall(m)
    \/ ToolResult(m)
    \/ ToolSent(m)
    \/ EndUnstreamed(m)
    \/ EndBuffered(m)
    \/ EndEdited(m)
    \/ Flushed(m)
    \/ Sent(m)
    \/ Apologise(m)

Next ==
    \/ \E m \in Turns :
        \/ TurnStep(m)
        \/ Arrive(m)
        \/ PrepareRaises(m)
        \/ Block(m)
        \/ AgentRaises(m)
        \/ StreamCallFails(m)
        \/ SendFails(m)
        \/ \E n \in Turns : SubagentReports(m, n)
    \/ Handle
    \/ Quiescent

Spec == Init /\ [][Next]_vars

-----------------------------------------------------------------------------
\* Properties.

\* The types; a message that is edited is in the chat, and the channel keeps a
\* tool call until its result, or for good when the agent raised in between.
TypeOK ==
    /\ queue \in Seq(Turns)
    /\ turn \in [Turns -> TurnStates]
    /\ streams \subseteq Turns
    /\ said \in [Turns -> 0..MaxPieces]
    /\ heard \in [Turns -> 0..MaxPieces]
    /\ streamed \subseteq Turns
    /\ outbox \in [Turns -> Seq(Pieces)]
    /\ \A m \in Turns : target[m] \in 0..Len(shown[Chat[m]])
    /\ tool \in [Turns -> {"none", "called", "done"}]
    /\ [streaming |-> streaming, cron |-> cron] \in Configs
    /\ \A m \in stash : m \in Turns /\ tool[m] = "called"
    /\ buffer \in [Chats -> Seq(Pieces)]
    /\ shown \in [Chats -> Seq(Seq(Pieces))]
    /\ stream \in [Chats -> [message : Nat, text : Seq(Pieces)]]
    /\ \A k \in Chats : stream[k].message <= Len(shown[k])
    /\ typing \subseteq Chats
    /\ apologies \subseteq Turns /\ blocked \subseteq Turns
    /\ failures \in Nat
    /\ lost \subseteq Pieces /\ untold \subseteq Pieces
    /\ silent \subseteq Turns /\ failed \subseteq Turns /\ overlapped \subseteq Turns

InChat(p, k) == \E i \in DOMAIN shown[k] : p \in ToSet(shown[k][i])

\* No piece of an answer is shown twice, in two messages or within one, though
\* the agent reports its text in chunks and again whole, and turns overlap.
ShownOnce ==
    \A k \in Chats : \A i, j \in DOMAIN shown[k] :
        \A x \in DOMAIN shown[k][i], y \in DOMAIN shown[k][j] :
            shown[k][i][x] = shown[k][j][y] => i = j /\ x = y

\* What m has to show: its text and, but in a job's conversation, the line of a
\* tool that is done.
Uttered(m) ==
    {<<m, n>> : n \in 1..said[m]}
        \cup (IF tool[m] = "done" /\ ~Quiet(m) THEN {ToolLine(m)} ELSE {})

\* Without streaming_enabled nothing disappears, however the turns of a chat
\* overlap: text or the line of a tool is in the chat, in the buffer, on its way,
\* or a call to the platform has failed with it.  (Text that a model which does
\* not stream puts beside a tool call is never sent.)
PiecesAccounted ==
    \A m \in Turns : ~Live(m) =>
        \A p \in Uttered(m) \ untold :
            \/ InChat(p, Chat[m])
            \/ p \in ToSet(buffer[Chat[m]])
            \/ \E t \in Turns : p \in ToSet(outbox[t])
            \/ p \in lost

\* With it, the answer of a turn that had the chat for itself is complete when
\* the turn ends, unless the agent raised or the platform failed: no piece stays
\* behind the throttle.
StreamComplete ==
    \A m \in Turns \ (overlapped \cup failed) :
        (turn[m] = "ended" /\ failures = 0) =>
            \A p \in Uttered(m) \ untold : InChat(p, Chat[m])

\* A message of the chat holds the text of one turn, or of turns that overlapped,
\* or what a turn that failed has left behind.
ReplyIsOwn ==
    \A k \in Chats : \A i \in DOMAIN shown[k] :
        \A p, q \in ToSet(shown[k][i]) :
            p[1] # q[1] => \/ {p[1], q[1]} \subseteq overlapped
                           \/ {p[1], q[1]} \cap failed # {}

\* The typing indicator of a chat goes on only for a turn that is not over, or
\* that ended without a word.
TypingMeansWork ==
    \A k \in typing : \E m \in Turns :
        Chat[m] = k /\ (turn[m] \in InFlight \cup {"queued"} \/ m \in silent)

\* The turns that have a task, and what is to be shown of what agents have said.
UnderWay == {m \in Turns : turn[m] \in InFlight}
Told == (UNION {Uttered(m) : m \in Turns}) \ untold

\* All of it together implements what a chat promises its users.
Promise == INSTANCE Transcript WITH
            open <- UnderWay, shared <- overlapped, told <- Told, refused <- failures
KeepsPromise == Promise!TranscriptSpec
=============================================================================
