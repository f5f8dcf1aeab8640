----------------------------- MODULE ChatStream -----------------------------
(***************************************************************************)
(* The assistant's chat: ChatWidget.tsx and lib/chat.ts in the browser,    *)
(* api/chat/route.ts and the agent's chat/chatHandler.ts on the server,    *)
(* and the event stream between them.  What is said is left out: a reply   *)
(* is the numbers of the pieces it has received.                           *)
(***************************************************************************)
EXTENDS Integers, SequencesExt

CONSTANTS
  MaxMessages,   \* bound: messages the user sends
  MaxDeltas,     \* bound: pieces of a reply
  HasKey         \* the values ANTHROPIC_API_KEY may have: present or not

ASSUME ChatAssumption == {MaxMessages, MaxDeltas} \subseteq Nat /\ HasKey \subseteq BOOLEAN

VARIABLES
  replies,     \* replies[i]: the assistant's message for the user's i-th
  streaming,   \* send() is under way
  server,      \* where the server is with the last request
  pieces,      \* the pieces the model has produced for this reply
  wire,        \* the events between the server and the browser
  line,        \* "open", "ended" by the server, or "cut"
  hasKey

chatVars == <<replies, streaming, server, pieces, wire, line, hasKey>>

NewReply == [content |-> <<>>, pending |-> TRUE, error |-> FALSE, cut |-> FALSE]

ChatInit ==
  /\ replies = <<>> /\ streaming = FALSE
  /\ server = "finished" /\ pieces = 0 /\ wire = <<>> /\ line = "ended"
  /\ hasKey \in HasKey

(* send(): one reply at a time. *)
SendMessage ==
  /\ ~streaming /\ Len(replies) < MaxMessages
  /\ replies' = Append(replies, NewReply)
  /\ streaming' = TRUE
  /\ server' = "asked" /\ pieces' = 0 /\ wire' = <<>> /\ line' = "open"
  /\ UNCHANGED hasKey

-----------------------------------------------------------------------------
(* The server. *)

Write(events) == wire' = wire \o events

ServerStep(from, to) == server = from /\ server' = to /\ UNCHANGED <<replies, streaming, hasKey>>

Event(name) == [event |-> name, piece |-> 0]

(* Fault: the stream is left open. *)
TellsOnly(events) == Write(events) /\ UNCHANGED line

(* Fault: the stream ends without a word. *)
EndsOnly(events) == UNCHANGED wire /\ line' = "ended"

LastWords(events) == Write(events) /\ line' = "ended"

(* The core of the agent can not be loaded: the route's own words. *)
RouteFails ==
  /\ ServerStep("asked", "failed")
  /\ LastWords(<<Event("error")>>)
  /\ UNCHANGED pieces

NoKey ==
  /\ ~hasKey /\ ServerStep("asked", "failed")
  /\ LastWords(<<Event("error")>>)
  /\ UNCHANGED pieces

(* The live context is read for the prompt; without it there is a note. *)
ReadContext ==
  /\ hasKey /\ ServerStep("asked", "streaming")
  /\ Write(<<>>) \/ Write(<<Event("note")>>)
  /\ UNCHANGED <<pieces, line>>

ModelSpeaks ==
  /\ pieces < MaxDeltas /\ ServerStep("streaming", "streaming")
  /\ pieces' = pieces + 1
  /\ Write(<<[event |-> "delta", piece |-> pieces + 1]>>)
  /\ UNCHANGED line

ModelEnds ==
  /\ ServerStep("streaming", "finished")
  /\ LastWords(<<Event("done")>>)
  /\ UNCHANGED pieces

(* Fault: "done" is sent whatever ended the stream. *)
FailsAsDone ==
  /\ ServerStep("streaming", "failed")
  /\ LastWords(<<Event("done")>>)
  /\ UNCHANGED pieces

(* Both the stream's error handler and the catch say so. *)
ModelFails ==
  /\ ServerStep("streaming", "failed")
  /\ LastWords(<<Event("error"), Event("error")>>)
  /\ UNCHANGED pieces

-----------------------------------------------------------------------------
(* The browser. *)

Current == Len(replies)

Heard(m, e) ==
  CASE e.event = "delta" -> [m EXCEPT !.content = Append(@, e.piece), !.pending = FALSE]
    [] e.event = "error" -> [m EXCEPT !.pending = FALSE, !.error = TRUE]
    [] e.event = "done" -> [m EXCEPT !.pending = FALSE]
    [] OTHER -> m

Receive ==
  /\ streaming /\ line # "cut" /\ wire # <<>>
  /\ replies' = [replies EXCEPT ![Current] = Heard(@, Head(wire))]
  /\ wire' = Tail(wire)
  /\ UNCHANGED <<streaming, server, pieces, line, hasKey>>

(* The reader is done. *)
ReplyEnds ==
  /\ streaming /\ line = "ended" /\ wire = <<>>
  /\ streaming' = FALSE
  /\ UNCHANGED <<replies, server, pieces, wire, line, hasKey>>

(* The server answers with another status than 200: no stream. *)
RequestRefused ==
  /\ server = "asked" /\ streaming
  /\ replies' = [replies EXCEPT ![Current] = Heard(@, Event("error"))]
  /\ streaming' = FALSE /\ server' = "failed" /\ line' = "ended"
  /\ UNCHANGED <<pieces, wire, hasKey>>

(* The connection breaks, or the host ends the function: fetch or read     *)
(* throws out of send(), which leaves the message as it is.  cut is no     *)
(* part of the code's state.                                               *)
LineCut ==
  /\ streaming
  /\ replies' = [replies EXCEPT ![Current].cut = TRUE]
  /\ streaming' = FALSE /\ line' = "cut" /\ wire' = <<>> /\ server' = "failed"
  /\ UNCHANGED <<pieces, hasKey>>

ChatNext ==
  \/ SendMessage
  \/ RouteFails
  \/ NoKey
  \/ ReadContext
  \/ ModelSpeaks
  \/ ModelEnds
  \/ ModelFails
  \/ Receive
  \/ ReplyEnds
  \/ RequestRefused
  \/ LineCut

(* The server comes to an end with each request (maxDuration), the browser *)
(* reads what arrives.                                                     *)
ChatFairness ==
  /\ WF_chatVars(ReadContext \/ NoKey \/ RouteFails)
  /\ WF_chatVars(ModelEnds \/ ModelFails)
  /\ WF_chatVars(Receive)
  /\ WF_chatVars(ReplyEnds)
=============================================================================
