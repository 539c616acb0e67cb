----------------------------- MODULE ChatRequest -----------------------------
(***************************************************************************)
(* handleChatCompletions() of lib/proxy.mjs: the routing loop of one chat  *)
(* request over the candidates it is given, with the attempts of           *)
(* UpstreamAttempt.tla as they happen, not as their outcomes only.         *)
(*                                                                         *)
(* A round goes through the candidates and tries each up to Attempts       *)
(* times; when they are used up, candidates that have not been tried are   *)
(* injected once; then the next round begins.  The loop awaits an attempt, *)
(* a pause inside a channel or a pause between rounds, and in between its  *)
(* steps are its own.                                                      *)
(***************************************************************************)
EXTENDS UpstreamAttempt, FiniteSets

CONSTANTS Attempts,    \* attemptsPerChannel
          MaxPauses    \* retryMaxWaitMs, counted in pauses

ASSUME AttemptsAssumption == Attempts \in Nat \ {0}
ASSUME PausesAssumption == MaxPauses \in Nat
ASSUME ChannelsAssumption == IsFiniteSet(Channels)

VARIABLE req
vars == <<res, att, late, req>>

(* pc: where the loop is; cands, next: the candidates of this round and    *)
(* the next of them; a: attempts at the present one; dead: deadChannels,   *)
(* which deadThisRound adds nothing to; record: the task log's record;     *)
(* tries: attempts of this round at each channel, for a property.          *)
Fresh(cands) ==
  [pc |-> IF cands = <<>> THEN "empty" ELSE "pick", cands |-> cands, next |-> 1, channel |-> Nobody, a |-> 0,
   downgraded |-> FALSE, dead |-> {}, injected |-> FALSE, sentAny |-> FALSE,
   nonRetryable |-> FALSE, pauses |-> 0, exhausted |-> FALSE, record |-> "none",
   tries |-> [c \in Channels |-> 0]]

\* what candidatesFor() may return, without the channels in S
Orders(S) == UNION {SetToSeqs(T) : T \in SUBSET (Channels \ S)}

Init ==
  /\ late = FALSE
  /\ att = Off
  /\ \E stream \in BOOLEAN : res = Response(stream)
  /\ \E cands \in Orders({}) : req = Fresh(cands)

At(pc) == req.pc = pc

\* the code's writableEnded || destroyed
Closed == res.ended \/ res.gone

\* finish(): only the first record is written
Recorded(kind) == IF req.record = "none" THEN kind ELSE req.record

-----------------------------------------------------------------------------
\* mutant: a channel given up for good is skipped in this round only
SkipForgets(c) == req.tries[c] > 0 /\ c \in req.dead

Skips(c) == c \in req.dead

\* no candidate at all: 400 and a record
NoCandidates ==
  /\ At("empty")
  /\ req' = [req EXCEPT !.pc = "done", !.record = Recorded("failed")]
  /\ res' = IF Closed THEN res ELSE [res EXCEPT !.head = "json", !.ended = TRUE]
  /\ UNCHANGED <<att, late>>

PickChannel ==
  /\ At("pick") /\ req.next <= Len(req.cands)
  /\ LET c == req.cands[req.next]
     IN  req' = IF Skips(c) THEN [req EXCEPT !.next = @ + 1]
                ELSE [req EXCEPT !.next = @ + 1, !.pc = "try", !.channel = c, !.a = 0,
                                 !.downgraded = FALSE]
  /\ UNCHANGED <<res, att, late>>

\* the candidates that have not had their turn, once per request
Inject ==
  /\ At("pick") /\ req.next > Len(req.cands) /\ ~req.injected
  /\ \E rest \in Orders(ToSet(req.cands) \cup req.dead) \ {<<>>} :
       req' = [req EXCEPT !.injected = TRUE, !.cands = @ \o rest]
  /\ UNCHANGED <<res, att, late>>

\* the head of the attempt loop
Try ==
  /\ At("try")
  /\ IF req.a = Attempts THEN /\ req' = [req EXCEPT !.pc = "pick"]
                              /\ UNCHANGED att
     ELSE IF Closed      THEN /\ req' = [req EXCEPT !.pc = "stop"]
                              /\ UNCHANGED att
     ELSE IF late        THEN /\ req' = [req EXCEPT !.pc = "stop", !.exhausted = TRUE]
                              /\ UNCHANGED att
     ELSE /\ req' = [req EXCEPT !.pc = "attempt", !.a = @ + 1, !.sentAny = TRUE,
                                !.tries[req.channel] = @ + 1]
          /\ att' = [Off EXCEPT !.phase = "queued", !.channel = req.channel]
  /\ UNCHANGED <<res, late>>

-----------------------------------------------------------------------------
(* The attempt is over, and its outcome decides.                           *)

Done(kind) == [req EXCEPT !.pc = "done", !.record = Recorded(kind)]

HasStarted(o) == o.started

RetriesInChannel(o) == o.retryable /\ req.a < Attempts

Settle ==
  /\ At("attempt") /\ att.phase = "over"
  /\ LET o == att.outcome
     IN  req' =
           CASE o.kind = "ok" -> Done("ok")
             [] o.kind = "effort" /\ ~req.downgraded ->
                  [req EXCEPT !.pc = "try", !.downgraded = TRUE, !.a = @ - 1]
             [] o.kind = "client_abort" ->
                  [req EXCEPT !.pc = "stop", !.record = Recorded("client_abort")]
             [] o.kind # "client_abort" /\ HasStarted(o) -> Done("failed")
             [] o.kind = "auth" ->
                  [req EXCEPT !.pc = "pick", !.dead = @ \cup {req.channel}]
             [] OTHER ->
                  IF RetriesInChannel(o) THEN [req EXCEPT !.pc = "pause"]
                  ELSE [req EXCEPT !.pc = "pick",
                          !.nonRetryable = @ \/ o.kind \in {"bad_request", "effort"}]
  /\ att' = Off
  /\ UNCHANGED <<res, late>>

\* what follows a pause in which the client may have left
AfterPause(pc) ==
  IF Closed THEN [req EXCEPT !.pc = "stop"]
  ELSE IF late THEN [req EXCEPT !.pc = "stop", !.exhausted = TRUE]
  ELSE [req EXCEPT !.pc = pc, !.pauses = IF @ < MaxPauses THEN @ + 1 ELSE @]

PauseInChannel ==
  /\ At("pause")
  /\ req' = AfterPause("try")
  /\ UNCHANGED <<res, att, late>>

\* the candidates are used up: give up, or pause before the next round
EndOfRound ==
  /\ At("pick") /\ req.next > Len(req.cands)
  /\ req' =
       IF ~req.sentAny \/ req.nonRetryable \/ req.pauses >= MaxPauses
       THEN [req EXCEPT !.pc = "stop"]
       ELSE IF late THEN [req EXCEPT !.pc = "stop", !.exhausted = TRUE]
       ELSE IF Closed THEN [req EXCEPT !.pc = "stop"]
       ELSE [req EXCEPT !.pc = "between", !.injected = TRUE]
  /\ UNCHANGED <<res, att, late>>

NextRound ==
  /\ At("between")
  /\ \E cands \in Orders({}) :
       req' = [AfterPause("pick") EXCEPT
                 !.cands = cands, !.next = 1, !.sentAny = FALSE, !.nonRetryable = FALSE,
                 !.tries = [c \in Channels |-> 0]]
  /\ UNCHANGED <<res, att, late>>

-----------------------------------------------------------------------------
\* mutant: no catch block in server.mjs
NobodyCatches(r) == r

\* the last record
LastRecord ==
  Done(IF Closed THEN "client_abort" ELSE IF req.exhausted THEN "total_deadline" ELSE "failed")

\* sendJson() throws once a stream has begun, and server.mjs ends the response
Caught(r) == [r EXCEPT !.ended = TRUE]

LastAnswer(r) == IF r.head = "none" THEN [r EXCEPT !.head = "json", !.ended = TRUE] ELSE Caught(r)

\* the code below the loop
Stop ==
  /\ At("stop")
  /\ req' = LastRecord
  /\ res' = IF Closed THEN res ELSE LastAnswer(res)
  /\ UNCHANGED <<att, late>>

\* the loop's steps, which await nothing but the pauses' timers
Route ==
  NoCandidates \/ PickChannel \/ Inject \/ Try \/ Settle \/ PauseInChannel
  \/ EndOfRound \/ NextRound \/ Stop

\* the handler awaits something: only then others get their turn
Waits == At("attempt") \/ At("pause") \/ At("between")

Finished == At("done") /\ UNCHANGED vars

Next ==
  \/ Route
  \/ /\ Waits
     /\ \/ Refused \/ Admitted \/ Receive \/ Write \/ Written \/ Drained \/ DrainTimeout
        \/ HeaderTimeout \/ FirstByteTimeout \/ IdleTimeout \/ BudgetTimeout
        \/ ClientClose
     /\ UNCHANGED req
  \/ DeadlinePasses /\ UNCHANGED req
  \/ Finished

Spec == Init /\ [][Next]_vars

(***************************************************************************)
(* The code goes on when it can, the limiter answers (GatewayLimiter), the *)
(* deadline passes and timers go off.  A timer that is due goes off before *)
(* the next data is read, however often the attempt is busy in between.    *)
(* Nothing is assumed of the upstream, nor that the client reads or leaves.*)
(***************************************************************************)
FairSpec ==
  /\ Spec
  /\ WF_vars(Route)
  /\ WF_vars(OwnStep /\ UNCHANGED req)
  /\ WF_vars((Refused \/ Admitted) /\ UNCHANGED req)
  /\ WF_vars(DeadlinePasses /\ UNCHANGED req)
  /\ WF_vars(DrainTimeout /\ UNCHANGED req)
  /\ SF_vars(BudgetTimeout /\ UNCHANGED req)

-----------------------------------------------------------------------------
Kinds == {"none", "ok", "client_abort", "overloaded", "unknown", "network", "auth",
          "bad_request", "effort", "model", "upstream", "empty_response", "bad_response",
          "tool_call_text", "stream_truncated", "stream_break", "timeout"}

TypeOK ==
  /\ res \in [stream : BOOLEAN, head : {"none", "stream", "json", "pieced"},
              end : BOOLEAN, error : BOOLEAN, ended : BOOLEAN, gone : BOOLEAN]
  /\ late \in BOOLEAN
  /\ att.phase \in {"off", "queued", "sent", "body", "reading", "writing", "draining", "over"}
  /\ att.channel \in Channels \cup {Nobody}
  /\ att.adapter \in Adapters
  /\ att.stage \in {"open", "finished", "ended", "eof", "closing"}
  /\ Len(att.head) <= HeadMax /\ Len(att.out) <= HeadMax + 1
  /\ att.outcome \in [kind : Kinds, retryable : BOOLEAN, started : BOOLEAN]
  /\ req.pc \in {"empty", "pick", "try", "attempt", "pause", "between", "stop", "done"}
  /\ ToSet(req.cands) \subseteq Channels /\ req.dead \subseteq Channels
  /\ req.a \in 0..Attempts /\ req.pauses \in 0..MaxPauses
  /\ req.record \in {"none", "ok", "client_abort", "total_deadline", "failed"}

(* A client never gets pieces of two answers: whatever went wrong, on      *)
(* whatever path through buffers, drains and timers, no further attempt    *)
(* begins once a byte has been sent.                                       *)
SwitchesOnlyBeforeFirstByte ==
  [][att'.phase = "queued" /\ att.phase # "queued" => res.head = "none" /\ ~res.ended]_vars

(* F1: a request is recorded as a success only when the client has got the *)
(* end of the answer, and no error frame, before its response was ended.   *)
(* One answer is excepted: JSON that aggregateStreamToCompletion() pieced  *)
(* together, of which PiecedIsWhole does not hold.                         *)
SuccessIsComplete ==
  req.record = "ok" =>
    /\ res.ended /\ ~res.error
    /\ res.head # "pieced" => res.end

(* emitStreamError(): an answer that breaks off is never made to look      *)
(* complete as well.                                                       *)
ErrorIsNotAnEnd == res.error => ~res.end

\* the channel whose attempt is under way
Asked == IF att.phase \in {"off", "over"} THEN Nobody ELSE req.channel

\* what the client has been sent
Answer ==
  CASE res.head = "none"   -> "nothing"
    [] res.head = "json"   -> IF "ok" \in {att.outcome.kind, req.record} THEN "reply" ELSE "refusal"
    [] res.head = "pieced" -> "pieced"
    [] res.head = "stream" -> IF res.error THEN IF res.end THEN "forged" ELSE "broken"
                                           ELSE IF res.end THEN "whole" ELSE "part"

(* The whole handler keeps AnswerContract: whatever the candidates, the    *)
(* upstreams, the timers and the client do, and however far an attempt has *)
(* come, the client gets the answer of one channel, and the record says    *)
(* what it got.  JSON pieced together from a stream is an answer of its    *)
(* own there: the record calls it a success, whole or not.                 *)
Contract == INSTANCE AnswerContract WITH
              asked <- Asked, answer <- Answer, closed <- res.ended, gone <- res.gone,
              record <- req.record

RefinesAnswerContract == Contract!Spec

(* Every exit leaves one record, and a response that is ended unless the   *)
(* client has gone.                                                        *)
EveryExitSettles ==
  /\ TypeOK
  /\ At("done") => req.record # "none" /\ Closed

(* A channel that refused the key or has no balance is not asked again by  *)
(* this request, in no later round and through no injection.               *)
DeadStaysDead ==
  [][\A c \in req.dead : req'.tries[c] <= req.tries[c]]_vars

(* The client is never left hanging: the request ends, though the upstream *)
(* may send for ever or not at all and the client may stop reading.        *)
EveryRequestEnds == <>At("done")

(* Comment of attemptChannelInner(): when the deadline ends a stream that  *)
(* has begun, an error frame tells the client that the answer is cut off.  *)
DeadlineIsSignalled ==
  At("done") /\ req.record = "total_deadline" /\ res.head = "stream" => res.error

(* Comment of the truncation check: a stream that is known to be truncated *)
(* before the headers are out leaves the client to the next channel.       *)
TruncatedHeadIsNotCommitted ==
  [][(res.head = "none" /\ res'.head = "stream" /\ att'.stage = "eof") => att'.seen]_vars

(* Comment of emitStreamError(): a finish_reason is never made up, which   *)
(* would dress up half an answer as a whole one and make the channel's     *)
(* failure a success.                                                      *)
PiecedIsWhole == req.record = "ok" /\ res.head = "pieced" => res.end
=============================================================================
