---- MODULE CompletionStream ----
(***************************************************************************)
(* One chat completion streamed by the model gateway, and the two routes   *)
(* that consume it: /api/agent/stream translates it frame by frame for the *)
(* client (sseToNdjson), /api/reason buffers it (accumulateReasonStream),  *)
(* charges it and only then answers.                                       *)
(*                                                                         *)
(* A frame is one event of the gateway; where the network cuts the bytes   *)
(* is left out, since an incomplete frame stays in the parser's buffer and *)
(* is dropped with it. Text and arguments are known by the position of     *)
(* their frame. The client may leave at any step, the gateway may break    *)
(* off, and may fall silent for good: nothing bounds the time of a body.   *)
(***************************************************************************)
EXTENDS Naturals, Sequences, Ascending

CONSTANTS
  Indices,    \* indices of tool calls
  MaxFrames   \* bound: frames of the completion

ASSUME StreamAssumption == Indices \subseteq Nat /\ MaxFrames \in Nat

Routes == {"agent", "reason"}
Stages == {"calling", "draining", "charging", "over"}

\* A piece of a tool call brings its name (and id) or more of its arguments; a
\* finish_reason comes with the usage or without; "usage" is the frame without
\* choices; "noise" has no data line, or does not parse, or has an empty delta.
Pieces == [kind : {"call"}, index : Indices, name : BOOLEAN]
Finishes == [kind : {"stop", "calls"}, usage : BOOLEAN]
Frames == [kind : {"text", "usage", "error", "noise", "end"}] \cup Pieces \cup Finishes

\* What is pending of a tool call, in the accumulator.
Absent == [named |-> FALSE, args |-> <<>>]

VARIABLES
  route,    \* which route consumes the completion
  stage,    \* how far its handler is
  body,     \* the body of the answer: "none", "open" or "ended"
  sent,     \* the frames of the gateway, in order
  fin,      \* how the gateway ended it: "no", "eof", "lost"
  seen,     \* how many frames the route has read
  calls,    \* the tool call accumulator
  finish,   \* sawFinish
  usage,    \* the usage was given
  failed,   \* sawError
  text,     \* reason: the text accumulated
  out,      \* agent: the chunks the client was written
  reply,    \* reason: "none", "ok", "bad"
  row,      \* reason: the charge is in the ledger
  left      \* the stage at which the client's connection closed, or "no"

parser == <<calls, finish, usage, failed, text>>
answer == <<out, reply, row>>
vars == <<route, stage, body, sent, fin, seen, calls, finish, usage, failed, text, out, reply, row, left>>

Init ==
  /\ route \in Routes
  /\ stage = "calling"
  /\ body = "none"
  /\ sent = <<>>
  /\ fin = "no"
  /\ seen = 0
  /\ calls = [i \in Indices |-> Absent]
  /\ finish = FALSE
  /\ usage = FALSE
  /\ failed = FALSE
  /\ text = <<>>
  /\ out = <<>>
  /\ reply = "none"
  /\ row = FALSE
  /\ left = "no"

Ends(f) == f.kind \in {"stop", "calls"}
Chunk(type) == [type |-> type]
Done(reason) == [type |-> "done", reason |-> reason]

\* emitTerminalErrorChunk: the text of the error as content, which is all the client
\* renders, then the error; no frame of the gateway is behind that content.
TerminalError == <<[type |-> "content", frame |-> 0], Chunk("error")>>

\* raw.write: nothing reaches a client that has left, and no error says so.
Written(chunks) == out' = IF left = "no" THEN out \o chunks ELSE out

---------------------------------------------------------------------------
(* The gateway                                                             *)

\* After a finish_reason come only the usage and the sentinel, or an error.
Says(f) ==
  /\ body = "open"
  /\ fin = "no"
  /\ Len(sent) < MaxFrames
  /\ \A k \in DOMAIN sent :
       /\ sent[k].kind # "end"
       /\ Ends(sent[k]) => f.kind \in {"usage", "error", "noise", "end"}
  /\ sent' = Append(sent, f)
  /\ UNCHANGED <<route, stage, body, fin, seen, parser, answer, left>>

\* It closes the stream, or the connection breaks.
Stops(how) ==
  /\ body = "open"
  /\ fin = "no"
  /\ fin' = how
  /\ UNCHANGED <<route, stage, body, sent, seen, parser, answer, left>>

\* The client's connection closes. No listener runs: the close event of the request
\* has been emitted when its body was read, and a write to the client fails silently.
Leaves ==
  /\ left = "no"
  /\ left' = stage
  /\ UNCHANGED <<route, stage, body, sent, fin, seen, parser, answer>>

---------------------------------------------------------------------------
(* The call and the parsers                                                *)

\* chatCompletionsStream resolves: the status is good and the body opens.
Answers ==
  /\ stage = "calling"
  /\ stage' = "draining"
  /\ body' = "open"
  /\ UNCHANGED <<route, sent, fin, seen, parser, answer, left>>

\* It throws: no key, no connection, a bad status.
Refuses ==
  /\ stage = "calling"
  /\ stage' = "over"
  /\ IF route = "agent"
     THEN Written(TerminalError) /\ UNCHANGED reply
     ELSE reply' = "bad" /\ UNCHANGED out
  /\ UNCHANGED <<route, body, sent, fin, seen, parser, row, left>>

\* Mutant: the arguments are replaced.
AbsorbedLast(f, k) ==
  [calls EXCEPT ![f.index] =
    [named |-> @.named \/ f.name, args |-> IF f.name THEN @.args ELSE <<k>>]]

\* absorb, of the frame at position k.
Absorbed(f, k) ==
  [calls EXCEPT ![f.index] =
    [named |-> @.named \/ f.name,
     args |-> IF f.name THEN @.args ELSE Append(@.args, k)]]

\* flush: the named calls, by index.
Flushed ==
  LET named == {i \in Indices : calls[i].named}
      order == InOrder(named)
  IN [k \in DOMAIN order |-> [type |-> "tool_call", index |-> order[k],
                              args |-> calls[order[k]].args]]

\* translateChunk: the chunks of a frame.
Translated(f, k) ==
  CASE f.kind = "text" -> <<[type |-> "content", frame |-> k]>>
    [] f.kind = "calls" -> Append(Flushed, Done("tool_calls"))
    [] f.kind = "stop" -> <<Done("stop")>>
    [] OTHER -> <<>>

\* Mutant: the sentinel is passed over like a frame that does not parse.
SentinelSkipped(f) == FALSE

\* The frame at which the parser returns, whether or not the body goes on.
Sentinel(f) == f.kind = "end"

\* sseToNdjson reads a frame.
AgentReads ==
  LET k == seen + 1
      f == sent[k]
  IN /\ route = "agent"
     /\ stage = "draining"
     /\ body = "open"
     /\ seen < Len(sent)
     /\ seen' = k
     /\ Written(Translated(f, k))
     /\ calls' = CASE f.kind = "call" -> Absorbed(f, k)
                   [] f.kind = "calls" -> [i \in Indices |-> Absent]
                   [] OTHER -> calls
     /\ finish' = (finish \/ Ends(f))
     /\ stage' = IF Sentinel(f) THEN "over" ELSE stage
     /\ UNCHANGED <<route, body, sent, fin, usage, failed, text, reply, row, left>>

\* accumulateReasonStream reads a frame.
ReasonReads ==
  LET k == seen + 1
      f == sent[k]
  IN /\ route = "reason"
     /\ stage = "draining"
     /\ seen < Len(sent)
     /\ seen' = k
     /\ text' = IF f.kind = "text" THEN Append(text, k) ELSE text
     /\ finish' = (finish \/ Ends(f))
     /\ usage' = (usage \/ f.kind = "usage" \/ (Ends(f) /\ f.usage))
     /\ failed' = (failed \/ f.kind = "error")
     /\ UNCHANGED <<route, stage, body, sent, fin, calls, answer, left>>

\* Mutant: the missing finish is not made up.
AgentEndsSilently ==
  /\ route = "agent"
  /\ stage = "draining"
  /\ body = "open"
  /\ fin = "eof" /\ seen = Len(sent)
  /\ body' = "ended"
  /\ stage' = "over"
  /\ UNCHANGED <<route, sent, fin, seen, parser, answer, left>>

\* The stream has closed without the sentinel: a missing finish is made up.
AgentEnds ==
  /\ route = "agent"
  /\ stage = "draining"
  /\ body = "open"
  /\ fin = "eof" /\ seen = Len(sent)
  /\ body' = "ended"
  /\ stage' = "over"
  /\ Written(IF finish THEN <<>> ELSE <<Done("incomplete")>>)
  /\ UNCHANGED <<route, sent, fin, seen, parser, reply, row, left>>

\* Mutant: the error frame is not looked at.
WholeUnlessShort == finish /\ usage

\* A stream with an error frame, or without a finish or a usage, is refused.
Whole == finish /\ usage /\ ~failed

ReasonEnds ==
  /\ route = "reason"
  /\ stage = "draining"
  /\ fin = "eof" /\ seen = Len(sent)
  /\ body' = "ended"
  /\ stage' = IF Whole THEN "charging" ELSE "over"
  /\ reply' = IF Whole THEN reply ELSE "bad"
  /\ UNCHANGED <<route, sent, fin, seen, parser, out, row, left>>

\* Mutant: the catch does not end the response.
BreaksOpen ==
  /\ stage = "draining"
  /\ fin = "lost"
  /\ body' = "ended"
  /\ IF route = "agent"
     THEN Written(TerminalError) /\ UNCHANGED <<reply, stage>>
     ELSE reply' = "bad" /\ stage' = "over" /\ UNCHANGED out
  /\ UNCHANGED <<route, sent, fin, seen, parser, row, left>>

\* The read fails because the connection broke, whatever is still unread: the
\* agent's client is told once.
Breaks ==
  /\ stage = "draining"
  /\ fin = "lost"
  /\ body' = "ended"
  /\ stage' = "over"
  /\ IF route = "agent"
     THEN Written(TerminalError) /\ UNCHANGED reply
     ELSE reply' = "bad" /\ UNCHANGED out
  /\ UNCHANGED <<route, sent, fin, seen, parser, row, left>>

\* The row of the ledger is inserted, then the answer is sent.
Charges ==
  /\ stage = "charging"
  /\ stage' = "over"
  /\ row' = TRUE
  /\ reply' = "ok"
  /\ UNCHANGED <<route, body, sent, fin, seen, parser, out, left>>

\* The transaction fails, or its commit is not acknowledged.
ChargeFails ==
  /\ stage = "charging"
  /\ stage' = "over"
  /\ row' \in BOOLEAN
  /\ reply' = "bad"
  /\ UNCHANGED <<route, body, sent, fin, seen, parser, out, left>>

---------------------------------------------------------------------------

Gateway ==
  \/ \E f \in Frames : Says(f)
  \/ \E how \in {"eof", "lost"} : Stops(how)
  \/ Answers \/ Refuses

Handler ==
  \/ AgentReads \/ AgentEnds
  \/ ReasonReads \/ ReasonEnds
  \/ Breaks
  \/ Charges \/ ChargeFails

Next == Gateway \/ Handler \/ Leaves

Spec == Init /\ [][Next]_vars

\* The handler goes on with what has arrived; the gateway owes nothing.
Fairness == WF_vars(Handler)

FairSpec == Spec /\ Fairness

---------------------------------------------------------------------------
(* Properties                                                              *)

\* The type invariant; the chunks the client is written are CallsWhole's and EndTold's.
TypeOK ==
  /\ route \in Routes
  /\ stage \in Stages
  /\ body \in {"none", "open", "ended"}
  /\ sent \in Seq(Frames)
  /\ fin \in {"no", "eof", "lost"}
  /\ seen \in 0 .. Len(sent)
  /\ calls \in [Indices -> [named : BOOLEAN, args : Seq(Nat)]]
  /\ \A b \in {finish, usage, failed, row} : b \in BOOLEAN
  /\ text \in Seq(Nat)
  /\ reply \in {"none", "ok", "bad"}
  /\ left \in Stages \cup {"no"}

\* s lists the positions of the frames in S, in order.
Lists(s, S) ==
  /\ {s[j] : j \in DOMAIN s} = {k \in 1 .. seen : sent[k] \in S}
  /\ \A j, k \in DOMAIN s : j < k => s[j] < s[k]

Piece(i, name) == [kind |-> "call", index |-> i, name |-> name]

\* Tool calls reach the client whole or not at all: with the finish that asks for
\* them, each named one once, by index, with all the pieces of its arguments in order,
\* however the pieces of several calls were mixed; a stream that stops for another
\* reason, or breaks, delivers none (lib/tool-call-accumulator.ts:60-90).
CallsWhole ==
  LET given == {k \in DOMAIN out : out[k].type = "tool_call"}
      asked == {k \in DOMAIN out : out[k] = Done("tool_calls")}
  IN /\ \A k \in given : \E l \in asked : k < l
     /\ \A k \in given : Lists(out[k].args, {Piece(out[k].index, FALSE)})
     /\ \A k, l \in given : k < l => out[k].index < out[l].index
     /\ asked # {} =>
          {out[k].index : k \in given} =
            {i \in Indices : \E k \in 1 .. seen : sent[k] = Piece(i, TRUE)}

\* Nothing is charged or answered on a stream that was not whole: the charge and the
\* answer are for a completion that ended by itself, with a finish and a usage and no
\* error frame, and the answer has all of its text (routes/reason.ts:190-244).
ChargedWhole ==
  row \/ reply = "ok" =>
    /\ fin = "eof" /\ seen = Len(sent)
    /\ \E k \in DOMAIN sent : Ends(sent[k])
    /\ \E k \in DOMAIN sent : sent[k].kind = "usage" \/ (Ends(sent[k]) /\ sent[k].usage)
    /\ \A k \in DOMAIN sent : sent[k].kind # "error"
    /\ Lists(text, {[kind |-> "text"]})
    /\ reply = "ok" => row

\* A client that has stayed to the end has been told how the stream ended, unless the
\* gateway sent its sentinel without a finish (lib/sse-parser.ts:148-157).
EndTold ==
  route = "agent" /\ stage = "over" /\ left \in {"no", "over"} =>
    \/ \E k \in DOMAIN out : out[k].type \in {"done", "error"}
    \/ /\ \E k \in 1 .. seen : sent[k].kind = "end"
       /\ \A k \in 1 .. seen : ~Ends(sent[k])

\* An error is the last thing a client is told, and a done is followed by nothing but
\* the two chunks of an error: neither is told twice, and no done comes after an error
\* (docs/operations.md:1969-1972, "the server NEVER emits a done chunk after it").
LastWord ==
  [][\A k \in DOMAIN out :
       /\ out[k].type = "error" => out' = out
       /\ out[k].type = "done" => out' \in {out, out \o TerminalError}]_vars

\* The comment of routes/agent/stream.ts:247-256: a client's leaving aborts the
\* upstream request.
DisconnectStops == [][left # "no" /\ route = "agent" => sent' = sent]_vars

\* The handler never hangs on its own account: it comes to its end unless the gateway
\* leaves the call unanswered or the body open; and the agent's not even then once
\* the gateway has sent its sentinel.
Settles ==
  <>[](\/ stage \in {"over", "calling"}
       \/ /\ stage = "draining" /\ fin = "no"
          /\ route = "agent" => \A k \in DOMAIN sent : sent[k].kind # "end")
====
