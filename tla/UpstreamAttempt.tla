--------------------------- MODULE UpstreamAttempt ---------------------------
(***************************************************************************)
(* attemptChannel() and attemptChannelInner() of lib/proxy.mjs: one try of *)
(* one channel for one chat request, from the queue of the limiter to the  *)
(* last byte, against an upstream, a client and five timers.               *)
(*                                                                         *)
(*   off -> queued -> sent -> body            -> over                      *)
(*                         -> reading <-> writing -> draining ... -> over  *)
(*                                                                         *)
(* `sent` awaits the headers, `body` a whole JSON or error body, `reading` *)
(* the next item of a stream, `draining` a client that is slow to read.    *)
(* In `writing` the code awaits nothing: only its own steps are enabled.   *)
(* How the request goes on is ChatRequest.tla's part.                      *)
(***************************************************************************)
EXTENDS Naturals, Sequences, SequencesExt

CONSTANTS Channels,
          Nobody,    \* no channel
          HeadMax    \* bound: items that fill the 16 KB of the head buffer

ASSUME NobodyAssumption == Nobody \notin Channels
ASSUME HeadAssumption == HeadMax \in Nat \ {0}

VARIABLES res,       \* the client's side of the response
          att,       \* the attempt under way
          late       \* Date.now() >= deadlineAt

(* Items of a stream: useful content, a frame without any, a tool call in  *)
(* the text, a finish reason, the end frame ([DONE] or message_stop), and  *)
(* a chunk that holds the last two.                                        *)
Items == {"text", "blank", "leak", "finish", "end", "last"}

(* What converts the upstream's stream: nothing, streamToOpenAI() or       *)
(* streamToAnthropic(); for a client that wants JSON from a channel with   *)
(* forceStream, aggregateStreamToCompletion().                             *)
Adapters == {"none", "toOpenAI", "toAnthropic", "toJson"}

(* The response to a request that asks for a stream or does not: its head, *)
(* which tells JSON pieced together from a stream from JSON; the end of    *)
(* the answer (of a stream, its end frame) and an error frame in it;       *)
(* res.end(), and a client that left.                                      *)
Response(stream) ==
  [stream |-> stream, head |-> "none", end |-> FALSE, error |-> FALSE, ended |-> FALSE,
   gone |-> FALSE]

NoOutcome == [kind |-> "none", retryable |-> FALSE, started |-> FALSE]

Off == [phase |-> "off", channel |-> Nobody, adapter |-> "none", buffering |-> FALSE,
        stage |-> "open", firstByte |-> TRUE, refused |-> FALSE, head |-> <<>>, out |-> <<>>,
        seen |-> FALSE, sawEndFrame |-> FALSE, aborted |-> {}, outcome |-> NoOutcome]

headersSent == res.head = "stream"

\* the attempt ends, by a return or by the error it throws
Over(kind, retryable, started) ==
  att' = [Off EXCEPT !.phase = "over", !.channel = att.channel,
                     !.outcome = [kind |-> kind, retryable |-> retryable, started |-> started]]

-----------------------------------------------------------------------------
(* Before the upstream has answered.                                       *)

(* The half-open window is full, the queue timed out, or a reload drained  *)
(* it, in which case the error has no kind.                                *)
Refused ==
  /\ att.phase = "queued"
  /\ \/ Over("overloaded", FALSE, FALSE)
     \/ Over("overloaded", TRUE, FALSE)
     \/ Over("unknown", TRUE, FALSE)
  /\ UNCHANGED <<res, late>>

Admitted ==
  /\ att.phase = "queued"
  /\ IF res.gone THEN Over("client_abort", FALSE, FALSE)
                 ELSE att' = [att EXCEPT !.phase = "sent"]
  /\ UNCHANGED <<res, late>>

\* 200 to a request for a stream: without a guard the headers go out at once
StreamBegins ==
  /\ att.phase = "sent" /\ res.stream
  /\ \E guarded \in BOOLEAN, adapter \in Adapters \ {"toJson"} :
       /\ att' = [att EXCEPT !.phase = "reading", !.buffering = guarded, !.adapter = adapter]
       /\ res' = IF guarded THEN res ELSE [res EXCEPT !.head = "stream"]
  /\ UNCHANGED late

\* an error status, or 200 to a request for JSON
BodyBegins ==
  /\ att.phase = "sent"
  /\ \/ att' = [att EXCEPT !.phase = "body", !.refused = TRUE]
     \/ /\ ~res.stream
        /\ \E adapter \in {"none", "toJson"} :
             att' = [att EXCEPT !.phase = "body", !.adapter = adapter]
  /\ UNCHANGED <<res, late>>

NetworkError ==
  /\ att.phase = "sent"
  /\ Over("network", TRUE, FALSE)
  /\ UNCHANGED <<res, late>>

\* classifyFailure(): the verdicts that the routing loop tells apart
ErrorRead ==
  /\ att.phase = "body"
  /\ att.refused
  /\ \/ Over("auth", FALSE, FALSE)       \* and insufficient_balance
     \/ Over("bad_request", TRUE, FALSE)
     \/ Over("effort", TRUE, FALSE)      \* a bad_request about reasoning_effort
     \/ Over("model", FALSE, FALSE)
     \/ Over("upstream", TRUE, FALSE)    \* 429, 5xx and the rest
  /\ UNCHANGED <<res, late>>

\* the guards find a tool call in the text, or nothing at all
Unaccepted == Over("tool_call_text", FALSE, FALSE) \/ Over("empty_response", FALSE, FALSE)

(* The body is read and parses as JSON, which is then whole, or does not,  *)
(* perhaps because the connection broke: readAllText() swallows that.      *)
JsonRead ==
  /\ att.phase = "body"
  /\ ~att.refused /\ att.adapter = "none"
  /\ \/ /\ Over("ok", FALSE, FALSE)
        /\ res' = [res EXCEPT !.head = "json", !.end = TRUE, !.ended = TRUE]
     \/ /\ Unaccepted \/ Over("bad_response", TRUE, FALSE)
        /\ UNCHANGED res
  /\ UNCHANGED late

(* forceStream: the stream is read to its end and pieced together.  Nobody *)
(* asks whether the upstream has said that it was through: where it gave   *)
(* no finish_reason, "stop" is put in.  Only a broken connection is noted, *)
(* as an error without a kind.                                             *)
Aggregated ==
  /\ att.phase = "body"
  /\ ~att.refused /\ att.adapter = "toJson"
  /\ \/ /\ Over("ok", FALSE, FALSE)
        /\ \E whole \in BOOLEAN :
             res' = [res EXCEPT !.head = "pieced", !.end = whole, !.ended = TRUE]
     \/ /\ Unaccepted \/ Over("unknown", TRUE, FALSE)
        /\ UNCHANGED res
  /\ UNCHANGED late

-----------------------------------------------------------------------------
(* Reading a stream.                                                       *)

\* terminal.push(): it looks no further once it has seen a signal
Traced(a, item) ==
  IF a.seen THEN a
  ELSE [a EXCEPT !.seen = item \in {"finish", "end", "last"},
                 !.sawEndFrame = item \in {"end", "last"}]

Holds(seq, items) == \E i \in 1..Len(seq) : seq[i] \in items

(* findUnusableStreamHead(): no data frame at all, or finished without any *)
(* content.                                                                *)
Unusable(head) ==
  /\ ~Holds(head, {"text"})
  /\ Holds(head, {"finish", "last"}) \/ ~Holds(head, {"blank", "finish", "last"})

\* the head buffer is judged at the latest here
MustJudge(head) == Holds(head, {"finish", "last"}) \/ Len(head) >= HeadMax

(* What may come next.  The adapters yield the finish reason and the end   *)
(* frame one after the other once the upstream is through.                 *)
Offered ==
  CASE att.stage = "open"     -> IF att.adapter = "none" THEN Items ELSE Items \ {"end", "last"}
    [] att.stage = "finished" -> IF att.adapter = "none" THEN {"blank", "end"} ELSE {"end"}
    [] OTHER                  -> {}

StageAfter(item) ==
  CASE item = "finish"          -> "finished"
    [] item \in {"end", "last"} -> "ended"
    [] OTHER                    -> att.stage

\* an item that is passed on
Forward(item) ==
  /\ att.phase = "reading" /\ ~att.buffering /\ item \in Offered
  /\ att' = [Traced(att, item) EXCEPT !.phase = "writing", !.out = <<item>>,
                                      !.firstByte = FALSE, !.stage = StageAfter(item)]
  /\ UNCHANGED <<res, late>>

\* an item that is kept back until the head can be judged
Buffer(item) ==
  /\ att.phase = "reading" /\ att.buffering /\ item \in Offered
  /\ LET head == Append(att.head, item)
         kept == [Traced(att, item) EXCEPT !.head = head, !.firstByte = FALSE,
                                           !.stage = StageAfter(item)]
     IN  IF item = "leak"
         THEN Over("tool_call_text", FALSE, FALSE) /\ UNCHANGED res
         ELSE \/ /\ ~MustJudge(head)
                 /\ att' = kept
                 /\ UNCHANGED res
              \/ IF Unusable(head)
                 THEN Over("empty_response", FALSE, FALSE) /\ UNCHANGED res
                 ELSE /\ att' = [kept EXCEPT !.phase = "writing", !.buffering = FALSE,
                                             !.head = <<>>, !.out = head]
                      /\ res' = [res EXCEPT !.head = "stream"]
  /\ UNCHANGED late

\* STREAM_TRUNCATED and what the loop itself finds truncated
Truncated ==
  /\ Over("stream_truncated", FALSE, headersSent)
  /\ res' = IF headersSent THEN [res EXCEPT !.error = TRUE, !.ended = TRUE] ELSE res

(* The upstream's body ends.  An adapter reports a truncation; what is     *)
(* left in the head buffer is judged and sent.                             *)
EndOfStream ==
  /\ att.phase = "reading"
  /\ att.adapter # "none" => att.stage \in {"open", "ended"}
  /\ IF att.adapter # "none" /\ att.stage = "open" THEN Truncated
     ELSE IF att.buffering /\ Unusable(att.head)
     THEN Over("empty_response", FALSE, FALSE) /\ UNCHANGED res
     ELSE /\ att' = [att EXCEPT !.phase = "writing", !.stage = "eof", !.buffering = FALSE,
                                !.head = <<>>, !.out = att.head]
          /\ res' = [res EXCEPT !.head = "stream"]
  /\ UNCHANGED late

\* an adapter that only has to yield what it holds touches no socket
AdapterBusy == att.phase = "reading" /\ att.adapter # "none" /\ att.stage # "open"

\* the connection to the upstream breaks; streamToOpenAI() calls that a truncation
StreamBreaks ==
  /\ att.phase = "reading" /\ ~AdapterBusy
  /\ IF att.adapter = "toOpenAI" THEN Truncated
     ELSE /\ Over("stream_break", TRUE, headersSent)
          /\ res' = IF headersSent THEN [res EXCEPT !.ended = TRUE] ELSE res
  /\ UNCHANGED late

-----------------------------------------------------------------------------
(* Writing to the client.                                                  *)

\* the upstream's body is over, and it never said that the answer is
IsTruncated == ~att.seen

Write ==
  /\ att.phase = "writing" /\ att.out # <<>>
  /\ res' = [res EXCEPT !.end = @ \/ Head(att.out) \in {"end", "last"}]
  /\ \E full \in BOOLEAN :
       att' = [att EXCEPT !.out = Tail(@), !.phase = IF full THEN "draining" ELSE "writing"]
  /\ UNCHANGED late

(* All is written: read on, or close the response with an error frame, an  *)
(* end frame the upstream has left out, or nothing.                        *)
Written ==
  /\ att.phase = "writing" /\ att.out = <<>>
  /\ CASE att.stage \in {"open", "finished", "ended"} ->
            /\ att' = [att EXCEPT !.phase = "reading"]
            /\ UNCHANGED res
       [] att.stage = "eof" /\ IsTruncated -> Truncated
       [] att.stage = "eof" /\ ~IsTruncated /\ ~att.sawEndFrame ->
            /\ att' = [att EXCEPT !.stage = "closing", !.out = <<"end">>]
            /\ UNCHANGED res
       [] OTHER ->
            /\ Over("ok", FALSE, FALSE)
            /\ res' = [res EXCEPT !.ended = TRUE]
  /\ UNCHANGED late

(* The catch block for an attempt whose signals in S have gone off.  The   *)
(* error for the deadline names maxTotalWaitMs, which is not in scope: a   *)
(* ReferenceError leaves both the attempt and its catch block instead.     *)
Interrupted(S, wrapped) ==
  IF wrapped THEN Truncated
  ELSE IF "budget" \in S THEN Over("unknown", TRUE, FALSE) /\ UNCHANGED res
  ELSE /\ Over("timeout", TRUE, headersSent)
       /\ res' = IF headersSent THEN [res EXCEPT !.ended = TRUE] ELSE res

\* the client reads again, after timers may have gone off
Drained ==
  /\ att.phase = "draining"
  /\ IF att.aborted = {} THEN att' = [att EXCEPT !.phase = "writing"] /\ UNCHANGED res
                         ELSE Interrupted(att.aborted, FALSE)
  /\ UNCHANGED late

\* mutants: no timer of its own, one that resolves instead of throwing, and
\* one that calls the slow client a time-out of the upstream
DrainNeverTimesOut == FALSE
DrainTimeoutResolves ==
  /\ att.phase = "draining"
  /\ Over("ok", FALSE, FALSE)
  /\ UNCHANGED <<res, late>>

DrainTimeoutBlamesUpstream ==
  /\ att.phase = "draining"
  /\ Over("timeout", TRUE, FALSE)
  /\ UNCHANGED <<res, late>>

(* waitDrain() times out: the client is taken for gone, though it is not,  *)
(* and the error does not say that the response has begun.                 *)
DrainTimeout ==
  /\ att.phase = "draining"
  /\ Over("client_abort", FALSE, FALSE)
  /\ UNCHANGED <<res, late>>

-----------------------------------------------------------------------------
(* Timers and the client.                                                  *)

Awaiting == att.phase \in {"sent", "body", "reading"} /\ ~AdapterBusy

\* a signal goes off; in a drain it is noticed later
Signal(s) ==
  \/ /\ Awaiting
     /\ Interrupted({s}, att.phase = "reading" /\ att.adapter = "toOpenAI")
  \/ /\ att.phase = "draining"
     /\ s \notin att.aborted
     /\ att' = [att EXCEPT !.aborted = @ \cup {s}]
     /\ UNCHANGED res

\* headerTimer until the headers are there, firstByteTimer until the first item
HeaderTimeout    == att.phase = "sent" /\ Signal("header") /\ UNCHANGED late
FirstByteTimeout == att.phase # "sent" /\ att.firstByte /\ Signal("firstByte") /\ UNCHANGED late
IdleTimeout      == att.phase # "sent" /\ Signal("idle") /\ UNCHANGED late
BudgetTimeout    == late /\ Signal("budget") /\ UNCHANGED late

\* mutant: the attempt does not listen for it
ClientCloseUnheard ==
  /\ ~res.gone /\ ~res.ended
  /\ att.phase \notin {"writing", "over"} /\ ~AdapterBusy
  /\ res' = [res EXCEPT !.gone = TRUE]
  /\ UNCHANGED <<att, late>>

(* The client closes its connection.  In the queue nobody notices; where   *)
(* the attempt awaits something it ends at once.                           *)
ClientClose ==
  /\ ~res.gone /\ ~res.ended
  /\ att.phase \notin {"writing", "over"} /\ ~AdapterBusy
  /\ res' = [res EXCEPT !.gone = TRUE]
  /\ IF Awaiting \/ att.phase = "draining"
     THEN Over("client_abort", FALSE, headersSent)
     ELSE UNCHANGED att
  /\ UNCHANGED late

DeadlinePasses ==
  /\ ~late
  /\ late' = TRUE
  /\ UNCHANGED <<res, att>>

(* The upstream's part, and the steps the attempt takes without awaiting   *)
(* anybody.                                                                *)
Receive == \/ StreamBegins \/ BodyBegins \/ NetworkError
           \/ ErrorRead \/ JsonRead \/ Aggregated
           \/ \E i \in Items : Forward(i) \/ Buffer(i)
           \/ EndOfStream \/ StreamBreaks

OwnStep == Write \/ Written \/ (AdapterBusy /\ Receive)
=============================================================================
