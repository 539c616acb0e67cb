-------------------------- MODULE ChatRequestProofs --------------------------
(***************************************************************************)
(* Proofs about ChatRequest.tla and the attempts of UpstreamAttempt.tla in *)
(* it, for any finite set of channels and any number of attempts, pauses   *)
(* and items in the head buffer.                                           *)
(***************************************************************************)
EXTENDS ChatRequest, SequenceTheorems, FiniteSetTheorems, TLAPS

\* the items that end an answer for the client
Ends == {"end", "last"}

Responses == [stream : BOOLEAN, head : {"none", "stream", "json", "pieced"},
              end : BOOLEAN, error : BOOLEAN, ended : BOOLEAN, gone : BOOLEAN]

Outcomes == [kind : Kinds, retryable : BOOLEAN, started : BOOLEAN]

AttemptStates ==
  [phase : {"off", "queued", "sent", "body", "reading", "writing", "draining", "over"},
   channel : Channels \cup {Nobody}, adapter : Adapters, buffering : BOOLEAN,
   stage : {"open", "finished", "ended", "eof", "closing"}, firstByte : BOOLEAN,
   refused : BOOLEAN, head : Seq(Items), out : Seq(Items), seen : BOOLEAN,
   sawEndFrame : BOOLEAN, aborted : SUBSET {"header", "firstByte", "idle", "budget"},
   outcome : Outcomes]

Requests ==
  [pc : {"empty", "pick", "try", "attempt", "pause", "between", "stop", "done"},
   cands : Seq(Channels), next : Nat \ {0}, channel : Channels \cup {Nobody},
   a : 0..Attempts, downgraded : BOOLEAN, dead : SUBSET Channels, injected : BOOLEAN,
   sentAny : BOOLEAN, nonRetryable : BOOLEAN, pauses : 0..MaxPauses, exhausted : BOOLEAN,
   record : {"none", "ok", "client_abort", "total_deadline", "failed"},
   tries : [Channels -> Nat]]

-----------------------------------------------------------------------------
(* The inductive invariant: what an attempt keeps true of the response ... *)

\* a response whose head is not out has nothing in it
Untouched == res.head = "none" => ~res.end /\ ~res.error /\ ~res.ended

\* the head goes out when the head buffer is given up, and nothing is left behind in it
HeadInStep ==
  /\ att.phase \in {"queued", "sent", "body"} =>
       res.head = "none" /\ att.out = <<>> /\ att.head = <<>>
  /\ att.phase = "reading" =>
       /\ att.out = <<>>
       /\ res.head = IF att.buffering THEN "none" ELSE "stream"
  /\ att.phase \in {"writing", "draining"} => res.head = "stream" /\ ~att.buffering
  /\ att.phase \in {"reading", "writing", "draining"} => ~res.ended /\ ~res.error
  /\ ~att.buffering => att.head = <<>>

\* an end frame that the attempt knows of is written or waits to be, and no other
EndInStep ==
  /\ att.sawEndFrame \/ att.stage = "closing" =>
       res.end \/ Holds(att.out, Ends) \/ Holds(att.head, Ends)
  /\ att.phase \in {"reading", "writing", "draining"} /\ ~att.seen =>
       ~res.end /\ ~Holds(att.out, Ends) /\ ~Holds(att.head, Ends)
  /\ att.stage = "open" => ~att.seen

\* a response that counts as a success
Complete == res.ended /\ ~res.error /\ (res.head # "pieced" => res.end)

\* what the loop may take from an outcome
OutcomeTrue ==
  att.phase = "over" =>
    /\ att.outcome.kind # "none"
    /\ att.outcome.kind = "ok" => Complete
    /\ att.outcome.started => Closed /\ att.outcome.kind \notin {"ok", "effort", "auth"}
    /\ att.outcome.kind \notin {"ok", "client_abort"} /\ ~att.outcome.started =>
         res.head = "none" \/ late

AttemptTyped ==
  /\ res \in Responses /\ late \in BOOLEAN /\ att \in AttemptStates
  /\ Len(att.head) < HeadMax /\ Len(att.out) <= HeadMax

AttemptInv ==
  /\ AttemptTyped
  /\ Untouched /\ ErrorIsNotAnEnd
  /\ HeadInStep /\ EndInStep /\ OutcomeTrue
  /\ "budget" \in att.aborted => late

(* ... and what the loop adds to it.                                       *)

\* an attempt is under way where the loop awaits one, and only there
AttemptInStep == IF At("attempt") THEN att.phase # "off" /\ req.a > 0 ELSE att = Off

\* the loop goes on only before the first byte or after the deadline, which stops it
GoesOn == req.pc \in {"empty", "pick", "try", "pause", "between"} => res.head = "none" \/ late

\* the channel at hand has not been given up
NotDead == req.pc \in {"try", "attempt", "pause"} => req.channel \in Channels \ req.dead

\* the record is written at the end, a client that left excepted
RecordInStep ==
  /\ req.pc \notin {"stop", "done"} => req.record = "none"
  /\ At("stop") => req.record \in {"none", "client_abort"}
  /\ At("done") => req.record # "none" /\ Closed
  /\ req.record = "ok" => Complete

LoopInv ==
  /\ req \in Requests
  /\ AttemptInStep /\ GoesOn /\ NotDead /\ RecordInStep

Inv == AttemptInv /\ LoopInv
-----------------------------------------------------------------------------
(* Sequences of items, and the orders of the candidates.                   *)

LEMMA HoldsNothing == ASSUME NEW S PROVE ~Holds(<<>>, S)
BY DEF Holds

LEMMA HoldsOne ==
  ASSUME NEW i, NEW S
  PROVE  Holds(<<i>>, S) <=> i \in S
<1>1. Len(<<i>>) = 1 /\ <<i>>[1] = i
  OBVIOUS
<1> QED
  BY <1>1 DEF Holds

LEMMA HoldsAppend ==
  ASSUME NEW s \in Seq(Items), NEW i \in Items, NEW S
  PROVE  Holds(Append(s, i), S) <=> Holds(s, S) \/ i \in S
<1> DEFINE t == Append(s, i)
<1>1. /\ Len(s) \in Nat /\ Len(t) = Len(s) + 1 /\ t[Len(s) + 1] = i
      /\ \A k \in 1..Len(s) : t[k] = s[k]
  OBVIOUS
<1> HIDE DEF t
<1>2. Holds(t, S) => Holds(s, S) \/ i \in S
  BY <1>1 DEF Holds
<1>3. Holds(s, S) => Holds(t, S)
  BY <1>1 DEF Holds
<1>4. i \in S => Holds(t, S)
  BY <1>1 DEF Holds
<1> QED
  BY <1>2, <1>3, <1>4 DEF t

\* what the head of a sequence takes with it, and what remains
LEMMA HoldsTail ==
  ASSUME NEW s \in Seq(Items), s # <<>>, NEW S
  PROVE  /\ Tail(s) \in Seq(Items) /\ Len(Tail(s)) < Len(s) /\ Head(s) \in Items
         /\ Holds(s, S) <=> Head(s) \in S \/ Holds(Tail(s), S)
<1> DEFINE t == Tail(s)
<1>1. /\ t \in Seq(Items) /\ Len(s) \in Nat \ {0} /\ Len(t) = Len(s) - 1 /\ Head(s) = s[1]
      /\ Head(s) \in Items /\ \A k \in 1..Len(t) : t[k] = s[k + 1]
  OBVIOUS
<1> HIDE DEF t
<1>2. Holds(t, S) => Holds(s, S)
  <2> SUFFICES ASSUME NEW k \in 1..Len(t), t[k] \in S PROVE Holds(s, S)
    BY DEF Holds
  <2>1. k + 1 \in 1..Len(s) /\ s[k + 1] \in S
    BY <1>1
  <2> QED
    BY <2>1 DEF Holds
<1>3. s[1] \in S => Holds(s, S)
  BY <1>1 DEF Holds
<1>4. Holds(s, S) => s[1] \in S \/ Holds(t, S)
  <2> SUFFICES ASSUME NEW k \in 1..Len(s), s[k] \in S, k # 1 PROVE Holds(t, S)
    BY DEF Holds
  <2>1. k - 1 \in 1..Len(t) /\ t[k - 1] = s[k]
    BY <1>1
  <2> QED
    BY <2>1 DEF Holds
<1> QED
  BY <1>1, <1>2, <1>3, <1>4 DEF t

\* the candidates of a round are a sequence of channels
LEMMA OrderFacts ==
  ASSUME NEW S, NEW cands \in Orders(S)
  PROVE  cands \in Seq(Channels)
<1>1. PICK T \in SUBSET (Channels \ S) : cands \in SetToSeqs(T)
  BY DEF Orders
<1>2. T \subseteq Channels /\ IsFiniteSet(T)
  BY ChannelsAssumption, FS_Subset
<1>3. Cardinality(T) \in Nat
  BY <1>2, FS_CardinalityType
<1>4. cands \in [1..Cardinality(T) -> T]
  BY <1>1 DEF SetToSeqs
<1>5. cands \in [1..Cardinality(T) -> Channels]
  BY <1>2, <1>4
<1> QED
  BY <1>3, <1>5

-----------------------------------------------------------------------------
(* Steps of an attempt.                                                    *)

\* an attempt that has not begun is well typed and holds nothing
LEMMA OffFacts ==
  /\ Off \in AttemptStates /\ NoOutcome \in Outcomes
  /\ <<>> \in Seq(Items) /\ Len(<<>>) = 0 /\ 0 < HeadMax /\ HeadMax \in Nat
<1>1. <<>> \in Seq(Items) /\ Len(<<>>) = 0
  OBVIOUS
<1>2. NoOutcome \in Outcomes
  BY DEF NoOutcome, Outcomes, Kinds
<1>3. 0 < HeadMax /\ HeadMax \in Nat
  BY HeadAssumption
<1>4. "none" \in Adapters /\ {} \in SUBSET {"header", "firstByte", "idle", "budget"}
  BY DEF Adapters
<1> QED
  BY <1>1, <1>2, <1>3, <1>4 DEF Off, AttemptStates

\* an attempt that ends leaves what its outcome says to be shown
LEMMA OverKeeps ==
  ASSUME AttemptInv,
         NEW kind \in Kinds \ {"none"}, NEW retryable \in BOOLEAN, NEW started \in BOOLEAN,
         Over(kind, retryable, started),
         res' \in Responses, late' \in BOOLEAN, Untouched', ErrorIsNotAnEnd',
         kind = "ok" => Complete',
         started => Closed' /\ kind \notin {"ok", "effort", "auth"},
         kind \notin {"ok", "client_abort"} /\ ~started => res'.head = "none" \/ late'
  PROVE  AttemptInv' /\ att'.phase = "over"
<1> DEFINE o == [kind |-> kind, retryable |-> retryable, started |-> started]
<1>1. o \in Outcomes
  BY DEF Outcomes
<1>2. att.channel \in Channels \cup {Nobody}
  BY DEF AttemptInv, AttemptTyped, AttemptStates
<1>3. att' = [Off EXCEPT !.phase = "over", !.channel = att.channel, !.outcome = o]
  BY DEF Over
<1>4. o.kind = kind /\ o.started = started
  OBVIOUS
<1> HIDE DEF o
<1>5. /\ att' \in AttemptStates /\ att'.phase = "over" /\ att'.outcome = o
      /\ att'.head = <<>> /\ att'.out = <<>> /\ att'.stage = "open" /\ ~att'.seen
      /\ ~att'.sawEndFrame /\ att'.aborted = {}
  <2>1. Off \in AttemptStates
    BY OffFacts
  <2>2. att' \in AttemptStates
    BY <1>1, <1>2, <1>3, <2>1 DEF AttemptStates
  <2> QED
    BY <1>3, <2>2 DEF Off
<1>6. AttemptTyped'
  BY <1>5, OffFacts DEF AttemptTyped
<1>7. HeadInStep' /\ EndInStep'
  BY <1>5 DEF HeadInStep, EndInStep
<1>8. OutcomeTrue'
  BY <1>4, <1>5 DEF OutcomeTrue
<1> QED
  BY <1>5, <1>6, <1>7, <1>8 DEF AttemptInv

\* the parts of the response and of the attempt that a step may set
LEMMA AttemptFields ==
  ASSUME AttemptInv
  PROVE  /\ res \in Responses /\ late \in BOOLEAN /\ att \in AttemptStates
         /\ att.head \in Seq(Items) /\ att.out \in Seq(Items)
         /\ att.aborted \subseteq {"header", "firstByte", "idle", "budget"}
         /\ res.head \in {"none", "stream", "json", "pieced"}
         /\ att.buffering \in BOOLEAN /\ att.seen \in BOOLEAN /\ att.sawEndFrame \in BOOLEAN
         /\ att.firstByte \in BOOLEAN /\ att.refused \in BOOLEAN
         /\ res.end \in BOOLEAN /\ res.error \in BOOLEAN /\ res.ended \in BOOLEAN
         /\ res.gone \in BOOLEAN /\ res.stream \in BOOLEAN
BY DEF AttemptInv, AttemptTyped, AttemptStates, Responses

\* the kinds of outcome, one by one
LEMMA KindFacts ==
  {"ok", "client_abort", "overloaded", "unknown", "network", "auth", "bad_request", "effort",
   "model", "upstream", "empty_response", "bad_response", "tool_call_text",
   "stream_truncated", "stream_break", "timeout"} = Kinds \ {"none"}
BY DEF Kinds

\* an attempt that ends before the head is out, without success, touches nothing
LEMMA FailsBeforeHead ==
  ASSUME AttemptInv, res.head = "none",
         NEW kind \in Kinds \ {"none", "ok"}, NEW retryable \in BOOLEAN,
         Over(kind, retryable, FALSE), UNCHANGED <<res, late>>
  PROVE  AttemptInv' /\ att'.phase = "over"
<1>1. /\ res' \in Responses /\ late' \in BOOLEAN /\ Untouched' /\ ErrorIsNotAnEnd'
      /\ res'.head = "none"
  BY DEF AttemptInv, AttemptTyped, Untouched, ErrorIsNotAnEnd
<1>2. kind \in Kinds \ {"none"} /\ kind # "ok" /\ FALSE \in BOOLEAN
  OBVIOUS
<1> QED
  BY <1>1, <1>2, OverKeeps

\* an answer that is cut off after its head is closed, with an error frame or without
LEMMA BrokenOff ==
  ASSUME AttemptInv, res.head = "stream",
         NEW kind \in Kinds \ {"none", "ok", "effort", "auth"}, NEW retryable \in BOOLEAN,
         Over(kind, retryable, TRUE), UNCHANGED late,
         NEW error \in BOOLEAN, error => ~res.end,
         res' = [res EXCEPT !.error = error \/ @, !.ended = TRUE]
  PROVE  AttemptInv' /\ att'.phase = "over"
<1>1. /\ res' \in Responses /\ late' \in BOOLEAN /\ res'.ended /\ res'.head = "stream"
      /\ res'.end = res.end /\ res'.error = (error \/ res.error)
  BY AttemptFields DEF Responses
<1>2. Untouched' /\ ErrorIsNotAnEnd' /\ Closed'
  BY <1>1 DEF AttemptInv, Untouched, ErrorIsNotAnEnd, Closed
<1>3. kind \in Kinds \ {"none"} /\ kind \notin {"ok", "effort", "auth"} /\ TRUE \in BOOLEAN
  OBVIOUS
<1> QED
  BY <1>1, <1>2, <1>3, OverKeeps

\* a truncation says so if there is anybody left to tell
LEMMA TruncatedKeeps ==
  ASSUME AttemptInv, res.head \in {"none", "stream"}, ~res.end, Truncated, UNCHANGED late
  PROVE  AttemptInv' /\ att'.phase = "over"
<1>1. "stream_truncated" \in Kinds \ {"none", "ok", "effort", "auth"} /\ FALSE \in BOOLEAN /\ TRUE \in BOOLEAN
  BY KindFacts
<1>2. CASE res.head = "none"
  BY <1>1, <1>2, FailsBeforeHead DEF Truncated, headersSent
<1>3. CASE res.head = "stream"
  <2>1. Over("stream_truncated", FALSE, TRUE)
    BY <1>3 DEF Truncated, headersSent
  <2>2. res' = [res EXCEPT !.error = TRUE \/ @, !.ended = TRUE]
    BY <1>3 DEF Truncated, headersSent
  <2> QED
    BY <1>1, <1>3, <2>1, <2>2, BrokenOff
<1> QED
  BY <1>2, <1>3

\* the catch block, for whichever signals have gone off
LEMMA InterruptedKeeps ==
  ASSUME AttemptInv, att.phase \in {"sent", "body", "reading", "draining"},
         NEW S, "budget" \in S => late, NEW wrapped \in BOOLEAN, wrapped => ~res.end,
         Interrupted(S, wrapped), UNCHANGED late
  PROVE  AttemptInv' /\ att'.phase = "over"
<1>1. res.head \in {"none", "stream"}
  BY AttemptFields DEF AttemptInv, HeadInStep
<1>2. CASE wrapped
  BY <1>1, <1>2, TruncatedKeeps DEF Interrupted
<1>3. CASE ~wrapped /\ "budget" \in S
  <2>1. Over("unknown", TRUE, FALSE) /\ res' = res
    BY <1>3 DEF Interrupted
  <2>2. /\ res' \in Responses /\ late' \in BOOLEAN /\ Untouched' /\ ErrorIsNotAnEnd'
        /\ late'
    BY <1>3, <2>1 DEF AttemptInv, AttemptTyped, Untouched, ErrorIsNotAnEnd
  <2>3. "unknown" \in Kinds \ {"none"} /\ TRUE \in BOOLEAN /\ FALSE \in BOOLEAN
    BY KindFacts
  <2> QED
    BY <2>1, <2>2, <2>3, OverKeeps
<1>4. CASE ~wrapped /\ "budget" \notin S
  <2>1. "timeout" \in Kinds \ {"none", "ok", "effort", "auth"} /\ TRUE \in BOOLEAN /\ FALSE \in BOOLEAN
    BY KindFacts
  <2>2. CASE res.head = "none"
    BY <1>4, <2>1, <2>2, FailsBeforeHead DEF Interrupted, headersSent
  <2>3. CASE res.head = "stream"
    <3>1. Over("timeout", TRUE, TRUE) /\ res' = [res EXCEPT !.ended = TRUE]
      BY <1>4, <2>3 DEF Interrupted, headersSent
    <3>2. res' = [res EXCEPT !.error = FALSE \/ @, !.ended = TRUE]
      BY <3>1, AttemptFields DEF Responses
    <3> QED
      BY <2>1, <2>3, <3>1, <3>2, BrokenOff
  <2> QED
    BY <1>1, <2>2, <2>3
<1> QED
  BY <1>2, <1>3, <1>4

-----------------------------------------------------------------------------
(* The actions of an attempt.                                              *)

LEMMA RefusedKeeps ==
  ASSUME AttemptInv, Refused
  PROVE  AttemptInv' /\ att'.phase \notin {"off", "queued"}
<1>1. res.head = "none" /\ UNCHANGED <<res, late>>
  BY DEF AttemptInv, HeadInStep, Refused
<1>2. /\ "overloaded" \in Kinds \ {"none", "ok"} /\ "unknown" \in Kinds \ {"none", "ok"}
      /\ TRUE \in BOOLEAN /\ FALSE \in BOOLEAN
  BY KindFacts
<1>3. Over("overloaded", FALSE, FALSE) => AttemptInv' /\ att'.phase = "over"
  BY <1>1, <1>2, FailsBeforeHead
<1>4. Over("overloaded", TRUE, FALSE) => AttemptInv' /\ att'.phase = "over"
  BY <1>1, <1>2, FailsBeforeHead
<1>5. Over("unknown", TRUE, FALSE) => AttemptInv' /\ att'.phase = "over"
  BY <1>1, <1>2, FailsBeforeHead
<1> QED
  BY <1>3, <1>4, <1>5 DEF Refused

\* a step that only moves the attempt on before the head is out
LEMMA MovesOn ==
  ASSUME AttemptInv, res.head = "none", att.phase \in {"queued", "sent"},
         NEW phase \in {"sent", "body"}, NEW refused \in BOOLEAN, NEW adapter \in Adapters,
         att' = [att EXCEPT !.phase = phase, !.refused = refused, !.adapter = adapter], UNCHANGED <<res, late>>
  PROVE  AttemptInv' /\ att'.phase \notin {"off", "queued"}
<1>1. /\ att' \in AttemptStates /\ att'.phase = phase /\ att'.head = att.head
      /\ att'.out = att.out /\ att'.buffering = att.buffering /\ att'.stage = att.stage
      /\ att'.seen = att.seen /\ att'.sawEndFrame = att.sawEndFrame
      /\ att'.aborted = att.aborted
  BY AttemptFields DEF AttemptStates
<1>2. AttemptTyped' /\ Untouched' /\ ErrorIsNotAnEnd'
  BY <1>1 DEF AttemptInv, AttemptTyped, Untouched, ErrorIsNotAnEnd
<1>3. HeadInStep' /\ OutcomeTrue'
  BY <1>1 DEF AttemptInv, HeadInStep, OutcomeTrue
<1>4. EndInStep'
  BY <1>1 DEF AttemptInv, EndInStep
<1> QED
  BY <1>1, <1>2, <1>3, <1>4 DEF AttemptInv

LEMMA AdmittedKeeps ==
  ASSUME AttemptInv, Admitted
  PROVE  AttemptInv' /\ att'.phase \notin {"off", "queued"}
<1>1. res.head = "none" /\ UNCHANGED <<res, late>> /\ att.phase = "queued"
  BY DEF AttemptInv, HeadInStep, Admitted
<1>2. CASE res.gone
  <2>1. "client_abort" \in Kinds \ {"none", "ok"} /\ FALSE \in BOOLEAN
    BY KindFacts
  <2> QED
    BY <1>1, <1>2, <2>1, FailsBeforeHead DEF Admitted
<1>3. CASE ~res.gone
  <2>1. att' = [att EXCEPT !.phase = "sent", !.refused = att.refused, !.adapter = att.adapter]
    BY <1>3, AttemptFields, ZenonT(60) DEF Admitted, AttemptStates
  <2> QED
    BY <1>1, <2>1, AttemptFields, MovesOn DEF AttemptStates
<1> QED
  BY <1>2, <1>3

LEMMA StreamBeginsKeeps ==
  ASSUME AttemptInv, StreamBegins
  PROVE  AttemptInv' /\ att'.phase \notin {"off", "queued"}
<1>1. PICK guarded \in BOOLEAN, adapter \in Adapters \ {"toJson"} :
        /\ att' = [att EXCEPT !.phase = "reading", !.buffering = guarded, !.adapter = adapter]
        /\ res' = IF guarded THEN res ELSE [res EXCEPT !.head = "stream"]
  BY DEF StreamBegins
<1>2. res.head = "none" /\ late' = late /\ att.phase = "sent"
  BY DEF AttemptInv, HeadInStep, StreamBegins
<1>3. ~res.end /\ ~res.error /\ ~res.ended
  BY <1>2 DEF AttemptInv, Untouched
<1>4. /\ att' \in AttemptStates /\ att'.phase = "reading" /\ att'.head = att.head
      /\ att'.out = att.out /\ att'.buffering = guarded /\ att'.stage = att.stage
      /\ att'.seen = att.seen /\ att'.sawEndFrame = att.sawEndFrame
      /\ att'.aborted = att.aborted
  BY <1>1, AttemptFields DEF AttemptStates
<1>5. /\ res' \in Responses /\ res'.head = (IF guarded THEN "none" ELSE "stream")
      /\ ~res'.end /\ ~res'.error /\ ~res'.ended
  BY <1>1, <1>2, <1>3, AttemptFields DEF Responses
<1>6. AttemptTyped' /\ Untouched' /\ ErrorIsNotAnEnd'
  BY <1>2, <1>4, <1>5 DEF AttemptInv, AttemptTyped, Untouched, ErrorIsNotAnEnd
<1>7. HeadInStep' /\ OutcomeTrue'
  BY <1>2, <1>4, <1>5 DEF AttemptInv, HeadInStep, OutcomeTrue
<1>8. att.out = <<>> /\ att.head = <<>>
  BY <1>2 DEF AttemptInv, HeadInStep
<1>9. EndInStep'
  BY <1>3, <1>4, <1>5, <1>8, HoldsNothing DEF AttemptInv, EndInStep
<1> QED
  BY <1>2, <1>4, <1>6, <1>7, <1>9 DEF AttemptInv
LEMMA BodyBeginsKeeps ==
  ASSUME AttemptInv, BodyBegins
  PROVE  AttemptInv' /\ att'.phase \notin {"off", "queued"}
<1>1. res.head = "none" /\ UNCHANGED <<res, late>> /\ att.phase = "sent"
  BY DEF AttemptInv, HeadInStep, BodyBegins
<1>2. att.refused \in BOOLEAN /\ att.adapter \in Adapters /\ {"none", "toJson"} \subseteq Adapters
  BY AttemptFields DEF AttemptStates, Adapters
<1>3. PICK refused \in BOOLEAN, adapter \in Adapters :
        att' = [att EXCEPT !.phase = "body", !.refused = refused, !.adapter = adapter]
  <2>1. /\ [att EXCEPT !.phase = "body", !.refused = TRUE]
              = [att EXCEPT !.phase = "body", !.refused = TRUE, !.adapter = att.adapter]
        /\ \A adapter \in Adapters :
             [att EXCEPT !.phase = "body", !.adapter = adapter]
               = [att EXCEPT !.phase = "body", !.refused = att.refused, !.adapter = adapter]
    BY AttemptFields DEF AttemptStates
  <2> QED
    BY <1>2, <2>1 DEF BodyBegins
<1> QED
  BY <1>1, <1>3, MovesOn

LEMMA NetworkErrorKeeps ==
  ASSUME AttemptInv, NetworkError
  PROVE  AttemptInv' /\ att'.phase \notin {"off", "queued"}
<1>1. res.head = "none"
  BY DEF AttemptInv, HeadInStep, NetworkError
<1>2. "network" \in Kinds \ {"none", "ok"} /\ TRUE \in BOOLEAN
  BY KindFacts
<1>3. Over("network", TRUE, FALSE) /\ UNCHANGED <<res, late>>
  BY DEF NetworkError
<1> QED
  BY <1>1, <1>2, <1>3, FailsBeforeHead

LEMMA ErrorReadKeeps ==
  ASSUME AttemptInv, ErrorRead
  PROVE  AttemptInv' /\ att'.phase \notin {"off", "queued"}
<1>1. res.head = "none" /\ UNCHANGED <<res, late>>
  BY DEF AttemptInv, HeadInStep, ErrorRead
<1>2. /\ {"auth", "bad_request", "effort", "model", "upstream"} \subseteq Kinds \ {"none", "ok"}
      /\ {TRUE, FALSE} \subseteq BOOLEAN
  BY KindFacts
<1>3. PICK kind \in Kinds \ {"none", "ok"}, retryable \in BOOLEAN : Over(kind, retryable, FALSE)
  <2>1. \/ Over("auth", FALSE, FALSE) \/ Over("bad_request", TRUE, FALSE)
        \/ Over("effort", TRUE, FALSE) \/ Over("model", FALSE, FALSE)
        \/ Over("upstream", TRUE, FALSE)
    BY DEF ErrorRead
  <2> QED
    BY <1>2, <2>1
<1> QED
  BY <1>1, <1>3, FailsBeforeHead

\* an answer in one piece is delivered, whole unless it was pieced together
LEMMA AnsweredKeeps ==
  ASSUME AttemptInv, res.head = "none", late' = late,
         NEW head \in {"json", "pieced"}, NEW end \in BOOLEAN, head = "json" => end,
         Over("ok", FALSE, FALSE),
         res' = [res EXCEPT !.head = head, !.end = end, !.ended = TRUE]
  PROVE  AttemptInv' /\ att'.phase = "over"
<1>1. ~res.error
  BY DEF AttemptInv, Untouched
<1>2. /\ res' \in Responses /\ late' \in BOOLEAN /\ res'.head = head /\ res'.end = end
      /\ res'.ended /\ ~res'.error
  BY <1>1, AttemptFields DEF Responses
<1>3. Untouched' /\ ErrorIsNotAnEnd' /\ Complete'
  BY <1>2 DEF Untouched, ErrorIsNotAnEnd, Complete
<1>4. "ok" \in Kinds \ {"none"} /\ FALSE \in BOOLEAN
  BY KindFacts
<1> QED
  BY <1>2, <1>3, <1>4, OverKeeps

LEMMA JsonReadKeeps ==
  ASSUME AttemptInv, JsonRead \/ Aggregated
  PROVE  AttemptInv' /\ att'.phase \notin {"off", "queued"}
<1>1. res.head = "none" /\ late' = late
  BY DEF AttemptInv, HeadInStep, JsonRead, Aggregated
<1>2. /\ {"tool_call_text", "empty_response", "bad_response", "unknown"} \subseteq Kinds \ {"none", "ok"}
      /\ {TRUE, FALSE} \subseteq BOOLEAN
  BY KindFacts
<1>3. ASSUME NEW kind \in {"tool_call_text", "empty_response", "bad_response", "unknown"},
             NEW retryable \in BOOLEAN, Over(kind, retryable, FALSE), res' = res
      PROVE  AttemptInv' /\ att'.phase = "over"
  BY <1>1, <1>2, <1>3, FailsBeforeHead
<1>4. ASSUME JsonRead
      PROVE  AttemptInv' /\ att'.phase = "over"
  <2>1. ASSUME Over("ok", FALSE, FALSE), res' = [res EXCEPT !.head = "json", !.end = TRUE, !.ended = TRUE]
        PROVE  AttemptInv' /\ att'.phase = "over"
    BY <1>1, <2>1, AnsweredKeeps
  <2> QED
    BY <1>2, <1>3, <1>4, <2>1 DEF JsonRead, Unaccepted
<1>5. ASSUME Aggregated
      PROVE  AttemptInv' /\ att'.phase = "over"
  <2>1. ASSUME Over("ok", FALSE, FALSE), NEW whole \in BOOLEAN,
               res' = [res EXCEPT !.head = "pieced", !.end = whole, !.ended = TRUE]
        PROVE  AttemptInv' /\ att'.phase = "over"
    BY <1>1, <2>1, AnsweredKeeps
  <2> QED
    BY <1>2, <1>3, <1>5, <2>1 DEF Aggregated, Unaccepted
<1> QED
  BY <1>4, <1>5

\* the tracer takes an item for what it is
LEMMA TracedFacts ==
  ASSUME AttemptInv, NEW item \in Items
  PROVE  \E seen \in BOOLEAN, saw \in BOOLEAN :
           /\ Traced(att, item) = [att EXCEPT !.seen = seen, !.sawEndFrame = saw]
           /\ saw => att.sawEndFrame \/ item \in Ends
           /\ ~seen => ~att.seen /\ item \notin Ends
           /\ StageAfter(item) = "open" => ~seen
<1>1. (att.stage = "open" => ~att.seen) /\ att \in AttemptStates
  BY AttemptFields DEF AttemptInv, EndInStep
<1>2. CASE att.seen
  <2>1. Traced(att, item) = [att EXCEPT !.seen = att.seen, !.sawEndFrame = att.sawEndFrame]
    BY <1>1, <1>2 DEF Traced, AttemptStates
  <2>2. StageAfter(item) # "open"
    BY <1>1, <1>2 DEF StageAfter
  <2> QED
    BY <1>2, <2>1, <2>2, AttemptFields
<1>3. CASE ~att.seen
  <2> DEFINE seen == item \in {"finish", "end", "last"}
             saw  == item \in {"end", "last"}
  <2>1. Traced(att, item) = [att EXCEPT !.seen = seen, !.sawEndFrame = saw]
    BY <1>3 DEF Traced
  <2>2. StageAfter(item) = "open" => ~seen
    BY DEF StageAfter
  <2>3. ~seen => item \notin Ends
    BY DEF Ends
  <2>4. saw => item \in Ends
    BY DEF Ends
  <2>5. seen \in BOOLEAN /\ saw \in BOOLEAN
    OBVIOUS
  <2> HIDE DEF seen, saw
  <2> QED
    BY <1>3, <2>1, <2>2, <2>3, <2>4, <2>5
<1> QED
  BY <1>2, <1>3

\* where the item takes the stream
LEMMA StageFacts ==
  ASSUME AttemptInv, NEW item \in Offered
  PROVE  StageAfter(item) \in {"open", "finished", "ended"}
BY AttemptFields DEF Offered, StageAfter, AttemptStates, Items

\* an item on its way to the client
LEMMA ForwardKeeps ==
  ASSUME AttemptInv, NEW item \in Items, Forward(item)
  PROVE  AttemptInv' /\ att'.phase \notin {"off", "queued"}
<1>1. /\ att.phase = "reading" /\ ~att.buffering /\ item \in Offered
      /\ res' = res /\ late' = late
  BY DEF Forward
<1>2. /\ att.out = <<>> /\ att.head = <<>> /\ res.head = "stream"
      /\ ~res.ended /\ ~res.error
  BY <1>1 DEF AttemptInv, HeadInStep
<1>3. PICK seen \in BOOLEAN, saw \in BOOLEAN :
        /\ Traced(att, item) = [att EXCEPT !.seen = seen, !.sawEndFrame = saw]
        /\ saw => att.sawEndFrame \/ item \in Ends
        /\ ~seen => ~att.seen /\ item \notin Ends
        /\ StageAfter(item) = "open" => ~seen
  BY TracedFacts
<1> DEFINE stage == StageAfter(item)
<1>4. stage \in {"open", "finished", "ended"}
  BY <1>1, StageFacts
<1>5. <<item>> \in Seq(Items) /\ Len(<<item>>) = 1
  OBVIOUS
<1>6. att' = [[att EXCEPT !.seen = seen, !.sawEndFrame = saw]
                EXCEPT !.phase = "writing", !.out = <<item>>, !.firstByte = FALSE, !.stage = stage]
  BY <1>3 DEF Forward
<1>7. stage = "open" => ~seen
  BY <1>3
<1> HIDE DEF stage
<1>8. /\ att' \in AttemptStates /\ att'.phase = "writing" /\ att'.head = <<>>
      /\ att'.out = <<item>> /\ ~att'.buffering /\ att'.stage = stage
      /\ att'.seen = seen /\ att'.sawEndFrame = saw /\ att'.aborted = att.aborted
  BY <1>1, <1>2, <1>4, <1>5, <1>6, AttemptFields, ZenonT(60) DEF AttemptStates
<1>9. AttemptTyped'
  BY <1>1, <1>5, <1>8, OffFacts DEF AttemptInv, AttemptTyped
<1>10. Untouched' /\ ErrorIsNotAnEnd'
  BY <1>1 DEF AttemptInv, Untouched, ErrorIsNotAnEnd
<1>11. HeadInStep' /\ OutcomeTrue'
  BY <1>1, <1>2, <1>8 DEF HeadInStep, OutcomeTrue
<1>12. EndInStep'
  <2>1. ~Holds(att.out, Ends) /\ ~Holds(att.head, Ends)
    BY <1>2, HoldsNothing
  <2>2. Holds(<<item>>, Ends) <=> item \in Ends
    BY HoldsOne
  <2>3. att.sawEndFrame => res.end
    BY <2>1 DEF AttemptInv, EndInStep
  <2>4. ~seen => ~res.end /\ item \notin Ends
    BY <1>1, <1>3 DEF AttemptInv, EndInStep
  <2>5. ~Holds(<<>>, Ends)
    BY HoldsNothing
  <2> QED
    BY <1>1, <1>3, <1>4, <1>7, <1>8, <2>2, <2>3, <2>4, <2>5 DEF EndInStep
<1> QED
  BY <1>1, <1>8, <1>9, <1>10, <1>11, <1>12 DEF AttemptInv

\* an item that joins the head buffer, which is judged and given up when it is full
LEMMA BufferKeeps ==
  ASSUME AttemptInv, NEW item \in Items, Buffer(item)
  PROVE  AttemptInv' /\ att'.phase \notin {"off", "queued"}
<1>1. att.phase = "reading" /\ att.buffering /\ item \in Offered /\ late' = late
  BY DEF Buffer
<1>2. att.out = <<>> /\ res.head = "none" /\ ~res.ended /\ ~res.error /\ ~res.end
  BY <1>1 DEF AttemptInv, HeadInStep, Untouched
<1> DEFINE head  == Append(att.head, item)
           stage == StageAfter(item)
           kept  == [Traced(att, item) EXCEPT !.head = head, !.firstByte = FALSE, !.stage = stage]
<1>3. /\ {"tool_call_text", "empty_response"} \subseteq Kinds \ {"none", "ok"}
      /\ FALSE \in BOOLEAN
  BY KindFacts
<1>4. PICK seen \in BOOLEAN, saw \in BOOLEAN :
        /\ Traced(att, item) = [att EXCEPT !.seen = seen, !.sawEndFrame = saw]
        /\ saw => att.sawEndFrame \/ item \in Ends
        /\ ~seen => ~att.seen /\ item \notin Ends
        /\ stage = "open" => ~seen
  BY TracedFacts
<1>5. stage \in {"open", "finished", "ended"}
  BY <1>1, StageFacts
<1>6. head \in Seq(Items) /\ Len(head) = Len(att.head) + 1
  BY AttemptFields
<1>7. Holds(head, Ends) <=> Holds(att.head, Ends) \/ item \in Ends
  BY AttemptFields, HoldsAppend
<1>8. ~MustJudge(head) => Len(head) < HeadMax
  BY <1>6, OffFacts DEF MustJudge
<1>9. Len(head) <= HeadMax
  BY <1>6, AttemptFields, OffFacts DEF AttemptInv, AttemptTyped
<1>10. /\ ~Holds(<<>>, Ends)
       /\ att.sawEndFrame => Holds(att.head, Ends)
       /\ ~att.seen => ~Holds(att.head, Ends)
  BY <1>1, <1>2, HoldsNothing DEF AttemptInv, EndInStep
<1>11. kept = [[att EXCEPT !.seen = seen, !.sawEndFrame = saw]
                 EXCEPT !.head = head, !.firstByte = FALSE, !.stage = stage]
  BY <1>4
<1>12. \/ Over("tool_call_text", FALSE, FALSE) /\ UNCHANGED res
       \/ ~MustJudge(head) /\ att' = kept /\ UNCHANGED res
       \/ Over("empty_response", FALSE, FALSE) /\ UNCHANGED res
       \/ /\ att' = [kept EXCEPT !.phase = "writing", !.buffering = FALSE,
                                 !.head = <<>>, !.out = head]
          /\ res' = [res EXCEPT !.head = "stream"]
  BY DEF Buffer
<1> HIDE DEF head, stage, kept
<1>13. /\ kept \in AttemptStates /\ kept.phase = "reading" /\ kept.head = head
       /\ kept.out = <<>> /\ kept.buffering /\ kept.stage = stage
       /\ kept.seen = seen /\ kept.sawEndFrame = saw /\ kept.aborted = att.aborted
  BY <1>1, <1>2, <1>5, <1>6, <1>11, AttemptFields, ZenonT(60) DEF AttemptStates
<1>14. ASSUME ~MustJudge(head), att' = kept, UNCHANGED res
       PROVE  AttemptInv'
  <2>1. AttemptTyped'
    BY <1>1, <1>2, <1>8, <1>13, <1>14, OffFacts DEF AttemptInv, AttemptTyped
  <2>2. Untouched' /\ ErrorIsNotAnEnd'
    BY <1>14 DEF AttemptInv, Untouched, ErrorIsNotAnEnd
  <2>3. HeadInStep' /\ OutcomeTrue'
    BY <1>2, <1>13, <1>14 DEF HeadInStep, OutcomeTrue
  <2>4. EndInStep'
    BY <1>2, <1>4, <1>5, <1>7, <1>10, <1>13, <1>14 DEF EndInStep
  <2> QED
    BY <1>1, <1>13, <1>14, <2>1, <2>2, <2>3, <2>4 DEF AttemptInv
<1>15. ASSUME att' = [kept EXCEPT !.phase = "writing", !.buffering = FALSE,
                                  !.head = <<>>, !.out = head],
              res' = [res EXCEPT !.head = "stream"]
       PROVE  AttemptInv' /\ att'.phase = "writing"
  <2>1. /\ att' \in AttemptStates /\ att'.phase = "writing" /\ att'.head = <<>>
        /\ att'.out = head /\ ~att'.buffering /\ att'.stage = stage
        /\ att'.seen = seen /\ att'.sawEndFrame = saw /\ att'.aborted = att.aborted
    BY <1>6, <1>13, <1>15, OffFacts DEF AttemptStates
  <2>2. /\ res' \in Responses /\ res'.head = "stream" /\ ~res'.end /\ ~res'.error /\ ~res'.ended
    BY <1>2, <1>15, AttemptFields DEF Responses
  <2>3. AttemptTyped'
    BY <1>1, <1>9, <2>1, <2>2, OffFacts DEF AttemptInv, AttemptTyped
  <2>4. Untouched' /\ ErrorIsNotAnEnd'
    BY <2>2 DEF Untouched, ErrorIsNotAnEnd
  <2>5. HeadInStep' /\ OutcomeTrue'
    BY <2>1, <2>2 DEF HeadInStep, OutcomeTrue
  <2>6. EndInStep'
    BY <1>4, <1>5, <1>7, <1>10, <2>1, <2>2 DEF EndInStep
  <2> QED
    BY <1>1, <2>1, <2>3, <2>4, <2>5, <2>6 DEF AttemptInv
<1>16. ASSUME NEW kind \in {"tool_call_text", "empty_response"},
              Over(kind, FALSE, FALSE), UNCHANGED res
       PROVE  AttemptInv' /\ att'.phase = "over"
  BY <1>1, <1>2, <1>3, <1>16, FailsBeforeHead
<1> QED
  BY <1>12, <1>13, <1>14, <1>15, <1>16

\* a stream whose end has not come has written none
LEMMA OpenHasNoEnd ==
  ASSUME AttemptInv, att.phase \in {"reading", "writing", "draining"},
         att.stage = "open" \/ ~att.seen
  PROVE  ~res.end
BY DEF AttemptInv, EndInStep

LEMMA EndOfStreamKeeps ==
  ASSUME AttemptInv, EndOfStream
  PROVE  AttemptInv' /\ att'.phase \notin {"off", "queued"}
<1>1. att.phase = "reading" /\ late' = late
  BY DEF EndOfStream
<1>2. /\ att.out = <<>> /\ res.head = (IF att.buffering THEN "none" ELSE "stream")
      /\ ~res.ended /\ ~res.error /\ (~att.buffering => att.head = <<>>)
  BY <1>1 DEF AttemptInv, HeadInStep
<1>3. CASE att.adapter # "none" /\ att.stage = "open"
  <2>1. Truncated
    BY <1>3 DEF EndOfStream
  <2> QED
    BY <1>1, <1>2, <1>3, <2>1, OpenHasNoEnd, TruncatedKeeps
<1>4. CASE ~(att.adapter # "none" /\ att.stage = "open") /\ att.buffering /\ Unusable(att.head)
  <2>1. Over("empty_response", FALSE, FALSE) /\ res' = res
    BY <1>4 DEF EndOfStream
  <2>2. "empty_response" \in Kinds \ {"none", "ok"} /\ FALSE \in BOOLEAN
    BY KindFacts
  <2> QED
    BY <1>1, <1>2, <1>4, <2>1, <2>2, FailsBeforeHead
<1>5. CASE /\ ~(att.adapter # "none" /\ att.stage = "open")
           /\ ~(att.buffering /\ Unusable(att.head))
  <2>1. /\ att' = [att EXCEPT !.phase = "writing", !.stage = "eof", !.buffering = FALSE,
                              !.head = <<>>, !.out = att.head]
        /\ res' = [res EXCEPT !.head = "stream"]
    BY <1>5 DEF EndOfStream
  <2>2. /\ att' \in AttemptStates /\ att'.phase = "writing" /\ att'.head = <<>>
        /\ att'.out = att.head /\ ~att'.buffering /\ att'.stage = "eof"
        /\ att'.seen = att.seen /\ att'.sawEndFrame = att.sawEndFrame
        /\ att'.aborted = att.aborted
    BY <2>1, AttemptFields, OffFacts DEF AttemptStates
  <2>3. /\ res' \in Responses /\ res'.head = "stream" /\ res'.end = res.end
        /\ ~res'.error /\ ~res'.ended
    BY <1>2, <2>1, AttemptFields DEF Responses
  <2>4. Len(att.head) \in Nat /\ Len(att.head) < HeadMax
    BY AttemptFields DEF AttemptInv, AttemptTyped
  <2>5. AttemptTyped'
    BY <1>1, <2>2, <2>3, <2>4, OffFacts DEF AttemptInv, AttemptTyped
  <2>6. Untouched' /\ ErrorIsNotAnEnd'
    BY <2>3 DEF Untouched, ErrorIsNotAnEnd
  <2>7. HeadInStep' /\ OutcomeTrue'
    BY <2>2, <2>3 DEF HeadInStep, OutcomeTrue
  <2>8. EndInStep'
    BY <1>1, <1>2, <2>2, <2>3, HoldsNothing DEF AttemptInv, EndInStep
  <2> QED
    BY <1>1, <2>2, <2>5, <2>6, <2>7, <2>8 DEF AttemptInv
<1> QED
  BY <1>3, <1>4, <1>5

LEMMA StreamBreaksKeeps ==
  ASSUME AttemptInv, StreamBreaks
  PROVE  AttemptInv' /\ att'.phase \notin {"off", "queued"}
<1>1. att.phase = "reading" /\ ~AdapterBusy /\ late' = late
  BY DEF StreamBreaks
<1>2. res.head \in {"none", "stream"}
  BY <1>1 DEF AttemptInv, HeadInStep
<1>3. CASE att.adapter = "toOpenAI"
  <2>1. att.stage = "open"
    BY <1>1, <1>3 DEF AdapterBusy
  <2>2. Truncated
    BY <1>3 DEF StreamBreaks
  <2> QED
    BY <1>1, <1>2, <2>1, <2>2, OpenHasNoEnd, TruncatedKeeps
<1>4. CASE att.adapter # "toOpenAI"
  <2>1. /\ Over("stream_break", TRUE, headersSent)
        /\ res' = IF headersSent THEN [res EXCEPT !.ended = TRUE] ELSE res
    BY <1>4 DEF StreamBreaks
  <2>2. "stream_break" \in Kinds \ {"none", "ok", "effort", "auth"} /\ {TRUE, FALSE} \subseteq BOOLEAN
    BY KindFacts
  <2>3. CASE res.head = "none"
    BY <1>1, <2>1, <2>2, <2>3, FailsBeforeHead DEF headersSent
  <2>4. CASE res.head = "stream"
    <3>1. res' = [res EXCEPT !.error = FALSE \/ @, !.ended = TRUE]
      BY <2>1, <2>4, AttemptFields DEF Responses, headersSent
    <3>2. Over("stream_break", TRUE, TRUE)
      BY <2>1, <2>4 DEF headersSent
    <3> QED
      BY <1>1, <2>2, <2>4, <3>1, <3>2, BrokenOff
  <2> QED
    BY <1>2, <2>3, <2>4
<1> QED
  BY <1>3, <1>4

\* an item is written; the client may be slow to take it
LEMMA WriteKeeps ==
  ASSUME AttemptInv, Write
  PROVE  AttemptInv' /\ att'.phase \notin {"off", "queued"}
<1>1. /\ att.phase = "writing" /\ att.out # <<>> /\ late' = late
      /\ res' = [res EXCEPT !.end = @ \/ Head(att.out) \in {"end", "last"}]
  BY DEF Write
<1>2. PICK full \in BOOLEAN :
        att' = [att EXCEPT !.out = Tail(@), !.phase = IF full THEN "draining" ELSE "writing"]
  BY DEF Write
<1>3. /\ res.head = "stream" /\ ~att.buffering /\ ~res.ended /\ ~res.error /\ att.head = <<>>
  BY <1>1 DEF AttemptInv, HeadInStep
<1> DEFINE rest  == Tail(att.out)
           first == Head(att.out) \in {"end", "last"}
<1>4. /\ rest \in Seq(Items) /\ Len(rest) < Len(att.out)
      /\ Holds(att.out, Ends) <=> first \/ Holds(rest, Ends)
  BY <1>1, AttemptFields, HoldsTail DEF Ends
<1>5. Len(rest) <= HeadMax
  <2>1. Len(rest) \in Nat /\ Len(att.out) \in Nat
    BY <1>4, AttemptFields
  <2> QED
    BY <1>4, <2>1, OffFacts DEF AttemptInv, AttemptTyped
<1>6. att' = [att EXCEPT !.out = rest, !.phase = IF full THEN "draining" ELSE "writing"]
  BY <1>2
<1>7. res' = [res EXCEPT !.end = @ \/ first] /\ first \in BOOLEAN
  BY <1>1
<1> HIDE DEF rest, first
<1>8. /\ att' \in AttemptStates /\ att'.phase \in {"draining", "writing"} /\ att'.head = <<>>
      /\ att'.out = rest /\ ~att'.buffering /\ att'.stage = att.stage
      /\ att'.seen = att.seen /\ att'.sawEndFrame = att.sawEndFrame
      /\ att'.aborted = att.aborted
  BY <1>3, <1>4, <1>6, AttemptFields DEF AttemptStates
<1>9. /\ res' \in Responses /\ res'.head = "stream" /\ res'.end = (res.end \/ first)
      /\ ~res'.error /\ ~res'.ended
  BY <1>3, <1>7, AttemptFields DEF Responses
<1>10. AttemptTyped'
  BY <1>1, <1>5, <1>8, <1>9, OffFacts DEF AttemptInv, AttemptTyped
<1>11. Untouched' /\ ErrorIsNotAnEnd'
  BY <1>9 DEF Untouched, ErrorIsNotAnEnd
<1>12. HeadInStep' /\ OutcomeTrue'
  BY <1>8, <1>9 DEF HeadInStep, OutcomeTrue
<1>13. EndInStep'
  BY <1>1, <1>3, <1>4, <1>8, <1>9, HoldsNothing DEF AttemptInv, EndInStep
<1> QED
  BY <1>1, <1>8, <1>10, <1>11, <1>12, <1>13 DEF AttemptInv

\* a step that changes only how far a stream that has begun has come
LEMMA StreamGoesOn ==
  ASSUME AttemptInv, att.phase \in {"writing", "draining"},
         NEW phase \in {"reading", "writing", "draining"},
         NEW aborted \in SUBSET {"header", "firstByte", "idle", "budget"},
         "budget" \in aborted => late,
         phase = "reading" => att.out = <<>>,
         att' = [att EXCEPT !.phase = phase, !.aborted = aborted], UNCHANGED <<res, late>>
  PROVE  AttemptInv' /\ att'.phase \notin {"off", "queued"}
<1>1. /\ att' \in AttemptStates /\ att'.phase = phase /\ att'.head = att.head
      /\ att'.out = att.out /\ att'.buffering = att.buffering /\ att'.stage = att.stage
      /\ att'.seen = att.seen /\ att'.sawEndFrame = att.sawEndFrame
      /\ att'.aborted = aborted
  BY AttemptFields DEF AttemptStates
<1>2. AttemptTyped' /\ Untouched' /\ ErrorIsNotAnEnd'
  BY <1>1 DEF AttemptInv, AttemptTyped, Untouched, ErrorIsNotAnEnd
<1>3. HeadInStep' /\ OutcomeTrue'
  BY <1>1 DEF AttemptInv, HeadInStep, OutcomeTrue
<1>4. EndInStep'
  BY <1>1 DEF AttemptInv, EndInStep
<1> QED
  BY <1>1, <1>2, <1>3, <1>4 DEF AttemptInv

\* everything is written: read on, or end the response
LEMMA WrittenKeeps ==
  ASSUME AttemptInv, Written
  PROVE  AttemptInv' /\ att'.phase \notin {"off", "queued"}
<1>1. att.phase = "writing" /\ att.out = <<>> /\ late' = late
  BY DEF Written
<1>2. /\ res.head = "stream" /\ ~att.buffering /\ ~res.ended /\ ~res.error /\ att.head = <<>>
  BY <1>1 DEF AttemptInv, HeadInStep
<1>3. ~Holds(att.out, Ends) /\ ~Holds(att.head, Ends)
  BY <1>1, <1>2, HoldsNothing
<1>4. CASE att.stage \in {"open", "finished", "ended"}
  <2>1. att' = [att EXCEPT !.phase = "reading"] /\ res' = res
    BY <1>4 DEF Written
  <2>2. att' = [att EXCEPT !.phase = "reading", !.aborted = att.aborted]
    BY <2>1, AttemptFields DEF AttemptStates
  <2>3. "budget" \in att.aborted => late
    BY DEF AttemptInv
  <2> QED
    BY <1>1, <2>1, <2>2, <2>3, AttemptFields, StreamGoesOn
<1>5. CASE att.stage = "eof" /\ ~att.seen
  <2>1. Truncated
    BY <1>5 DEF Written, IsTruncated
  <2> QED
    BY <1>1, <1>2, <1>5, <2>1, OpenHasNoEnd, TruncatedKeeps
<1>6. CASE att.stage = "eof" /\ att.seen /\ ~att.sawEndFrame
  <2>1. att' = [att EXCEPT !.stage = "closing", !.out = <<"end">>] /\ res' = res
    BY <1>6 DEF Written, IsTruncated
  <2>2. <<"end">> \in Seq(Items) /\ Len(<<"end">>) = 1 /\ Holds(<<"end">>, Ends)
    BY HoldsOne DEF Items, Ends
  <2>3. /\ att' \in AttemptStates /\ att'.phase = "writing" /\ att'.head = <<>>
        /\ att'.out = <<"end">> /\ ~att'.buffering /\ att'.stage = "closing"
        /\ att'.seen /\ att'.aborted = att.aborted
    BY <1>1, <1>2, <1>6, <2>1, <2>2, AttemptFields DEF AttemptStates
  <2>4. AttemptTyped'
    BY <1>1, <2>1, <2>2, <2>3, OffFacts DEF AttemptInv, AttemptTyped
  <2>5. Untouched' /\ ErrorIsNotAnEnd'
    BY <2>1 DEF AttemptInv, Untouched, ErrorIsNotAnEnd
  <2>6. HeadInStep' /\ OutcomeTrue'
    BY <1>2, <2>1, <2>3 DEF HeadInStep, OutcomeTrue
  <2>7. EndInStep'
    BY <2>2, <2>3 DEF EndInStep
  <2> QED
    BY <1>1, <2>3, <2>4, <2>5, <2>6, <2>7 DEF AttemptInv
<1>7. CASE att.stage = "closing" \/ (att.stage = "eof" /\ att.seen /\ att.sawEndFrame)
  <2>1. Over("ok", FALSE, FALSE) /\ res' = [res EXCEPT !.ended = TRUE]
    BY <1>7 DEF Written, IsTruncated
  <2>2. res.end
    BY <1>3, <1>7 DEF AttemptInv, EndInStep
  <2>3. /\ res' \in Responses /\ late' \in BOOLEAN /\ res'.head = "stream" /\ res'.ended
        /\ res'.end /\ ~res'.error
    BY <1>1, <1>2, <2>1, <2>2, AttemptFields DEF Responses
  <2>4. Untouched' /\ ErrorIsNotAnEnd' /\ Complete'
    BY <2>3 DEF Untouched, ErrorIsNotAnEnd, Complete
  <2>5. "ok" \in Kinds \ {"none"} /\ FALSE \in BOOLEAN
    BY KindFacts
  <2> QED
    BY <2>1, <2>3, <2>4, <2>5, OverKeeps
<1>8. att.stage \in {"open", "finished", "ended", "eof", "closing"}
  BY AttemptFields DEF AttemptStates
<1> QED
  BY <1>4, <1>5, <1>6, <1>7, <1>8, AttemptFields

LEMMA ReceiveKeeps ==
  ASSUME AttemptInv, Receive
  PROVE  AttemptInv' /\ att'.phase \notin {"off", "queued"}
<1>1. ASSUME NEW i \in Items, Forward(i) \/ Buffer(i) PROVE AttemptInv' /\ att'.phase \notin {"off", "queued"}
  BY <1>1, ForwardKeeps, BufferKeeps
<1> QED
  BY <1>1, StreamBeginsKeeps, BodyBeginsKeeps, NetworkErrorKeeps, ErrorReadKeeps, JsonReadKeeps,
     EndOfStreamKeeps, StreamBreaksKeeps DEF Receive

\* the client reads again, or it is given up though it has not gone
LEMMA DrainKeeps ==
  ASSUME AttemptInv, Drained \/ DrainTimeout
  PROVE  AttemptInv' /\ att'.phase \notin {"off", "queued"}
<1>1. att.phase = "draining" /\ late' = late
  BY DEF Drained, DrainTimeout
<1>2. "budget" \in att.aborted => late
  BY DEF AttemptInv
<1>3. CASE Drained /\ att.aborted = {}
  <2>1. att' = [att EXCEPT !.phase = "writing"] /\ res' = res
    BY <1>3 DEF Drained
  <2>2. att' = [att EXCEPT !.phase = "writing", !.aborted = att.aborted]
    BY <2>1, AttemptFields DEF AttemptStates
  <2> QED
    BY <1>1, <1>2, <2>1, <2>2, AttemptFields, StreamGoesOn
<1>4. CASE Drained /\ att.aborted # {}
  <2>1. Interrupted(att.aborted, FALSE)
    BY <1>4 DEF Drained
  <2> QED
    BY <1>1, <1>2, <2>1, InterruptedKeeps
<1>5. CASE DrainTimeout
  <2>1. Over("client_abort", FALSE, FALSE) /\ res' = res
    BY <1>5 DEF DrainTimeout
  <2>2. res' \in Responses /\ late' \in BOOLEAN /\ Untouched' /\ ErrorIsNotAnEnd'
    BY <1>1, <2>1 DEF AttemptInv, AttemptTyped, Untouched, ErrorIsNotAnEnd
  <2>3. "client_abort" \in Kinds \ {"none"} /\ FALSE \in BOOLEAN
    BY KindFacts
  <2> QED
    BY <2>1, <2>2, <2>3, OverKeeps
<1> QED
  BY <1>3, <1>4, <1>5

\* a signal ends an attempt that awaits something, and waits for one that drains
LEMMA SignalKeeps ==
  ASSUME AttemptInv, NEW s \in {"header", "firstByte", "idle", "budget"},
         s = "budget" => late, Signal(s), UNCHANGED late
  PROVE  AttemptInv' /\ att'.phase \notin {"off", "queued"}
<1>1. ASSUME Awaiting, Interrupted({s}, att.phase = "reading" /\ att.adapter = "toOpenAI")
      PROVE  AttemptInv' /\ att'.phase \notin {"off", "queued"}
  <2> DEFINE wrapped == att.phase = "reading" /\ att.adapter = "toOpenAI"
  <2>1. att.phase \in {"sent", "body", "reading", "draining"}
    BY <1>1 DEF Awaiting
  <2>2. wrapped => ~res.end
    <3>1. wrapped => att.stage = "open"
      BY <1>1 DEF Awaiting, AdapterBusy
    <3> QED
      BY <3>1, OpenHasNoEnd
  <2>3. wrapped \in BOOLEAN /\ Interrupted({s}, wrapped)
    BY <1>1
  <2>4. "budget" \in {s} => late
    OBVIOUS
  <2> HIDE DEF wrapped
  <2> QED
    BY <2>1, <2>2, <2>3, <2>4, InterruptedKeeps
<1>2. ASSUME att.phase = "draining", att' = [att EXCEPT !.aborted = @ \cup {s}], UNCHANGED res
      PROVE  AttemptInv' /\ att'.phase \notin {"off", "queued"}
  <2> DEFINE aborted == att.aborted \cup {s}
  <2>1. aborted \in SUBSET {"header", "firstByte", "idle", "budget"}
    BY AttemptFields
  <2>2. "budget" \in aborted => late
    BY DEF AttemptInv
  <2>3. att' = [att EXCEPT !.phase = "draining", !.aborted = aborted]
    BY <1>2, AttemptFields DEF AttemptStates
  <2> HIDE DEF aborted
  <2> QED
    BY <1>2, <2>1, <2>2, <2>3, StreamGoesOn
<1> QED
  BY <1>1, <1>2 DEF Signal

LEMMA TimersKeep ==
  ASSUME AttemptInv,
         HeaderTimeout \/ FirstByteTimeout \/ IdleTimeout \/ BudgetTimeout
  PROVE  AttemptInv' /\ att'.phase \notin {"off", "queued"}
BY SignalKeeps DEF HeaderTimeout, FirstByteTimeout, IdleTimeout, BudgetTimeout

\* the client leaves; nobody notices in the queue or between two attempts
LEMMA ClientCloseKeeps ==
  ASSUME AttemptInv, ClientClose
  PROVE  /\ AttemptInv'
         /\ att' = att \/ (att.phase # "off" /\ att'.phase \notin {"off", "queued"})
<1>1. /\ late' = late /\ ~res.ended
      /\ res' = [res EXCEPT !.gone = TRUE]
      /\ att.phase \notin {"writing", "over"} /\ ~AdapterBusy
  BY DEF ClientClose
<1>2. /\ res' \in Responses /\ res'.head = res.head /\ res'.end = res.end
      /\ res'.error = res.error /\ res'.ended = res.ended /\ res'.gone
  BY <1>1, AttemptFields DEF Responses
<1>3. Untouched' /\ ErrorIsNotAnEnd' /\ Closed'
  BY <1>2 DEF AttemptInv, Untouched, ErrorIsNotAnEnd, Closed
<1>4. CASE Awaiting \/ att.phase = "draining"
  <2>1. Over("client_abort", FALSE, headersSent)
    BY <1>4 DEF ClientClose
  <2>2. "client_abort" \in Kinds \ {"none"} /\ FALSE \in BOOLEAN /\ headersSent \in BOOLEAN
    BY KindFacts DEF headersSent
  <2>3. late' \in BOOLEAN
    BY <1>1, AttemptFields
  <2>4. att.phase # "off"
    BY <1>4 DEF Awaiting
  <2> QED
    BY <1>2, <1>3, <2>1, <2>2, <2>3, <2>4, OverKeeps
<1>5. CASE ~(Awaiting \/ att.phase = "draining")
  <2>1. att' = att
    BY <1>5 DEF ClientClose
  <2>2. AttemptTyped'
    BY <1>1, <1>2, <2>1 DEF AttemptInv, AttemptTyped
  <2>3. HeadInStep' /\ EndInStep'
    BY <1>2, <2>1 DEF AttemptInv, HeadInStep, EndInStep
  <2>4. OutcomeTrue'
    BY <1>1, <2>1 DEF OutcomeTrue
  <2> QED
    BY <1>1, <1>3, <2>1, <2>2, <2>3, <2>4 DEF AttemptInv
<1> QED
  BY <1>4, <1>5

-----------------------------------------------------------------------------
(* The routing loop.                                                       *)

LEMMA RequestFields ==
  ASSUME LoopInv
  PROVE  /\ req \in Requests /\ req.cands \in Seq(Channels) /\ req.next \in Nat \ {0}
         /\ req.channel \in Channels \cup {Nobody} /\ req.a \in 0..Attempts
         /\ req.dead \in SUBSET Channels /\ req.pauses \in 0..MaxPauses
         /\ req.tries \in [Channels -> Nat]
         /\ req.downgraded \in BOOLEAN /\ req.injected \in BOOLEAN /\ req.sentAny \in BOOLEAN
         /\ req.nonRetryable \in BOOLEAN /\ req.exhausted \in BOOLEAN
         /\ req.record \in {"none", "ok", "client_abort", "total_deadline", "failed"}
BY DEF LoopInv, Requests

\* no attempt is under way
LEMMA IdleKeeps ==
  ASSUME AttemptInv, att' = Off, res' \in Responses, late' \in BOOLEAN,
         Untouched', ErrorIsNotAnEnd'
  PROVE  AttemptInv'
<1>1. /\ att' \in AttemptStates /\ att'.phase = "off" /\ att'.head = <<>> /\ att'.out = <<>>
      /\ att'.stage = "open" /\ ~att'.seen /\ ~att'.sawEndFrame /\ att'.aborted = {}
  BY OffFacts DEF Off
<1>2. AttemptTyped' /\ HeadInStep' /\ EndInStep' /\ OutcomeTrue'
  BY <1>1, OffFacts DEF AttemptTyped, HeadInStep, EndInStep, OutcomeTrue
<1> QED
  BY <1>1, <1>2 DEF AttemptInv

LEMMA AttemptUntouched ==
  ASSUME AttemptInv, UNCHANGED <<res, att, late>>
  PROVE  AttemptInv'
BY DEF AttemptInv, AttemptTyped, Untouched, ErrorIsNotAnEnd, HeadInStep, EndInStep, OutcomeTrue,
       Complete, Closed, Holds

\* the loop has reached a step at which no attempt is under way and nothing is recorded
LEMMA BetweenAttempts ==
  ASSUME Inv, ~At("attempt"), ~At("stop"), ~At("done")
  PROVE  /\ att = Off /\ req.record = "none" /\ (res.head = "none" \/ late)
         /\ res \in Responses /\ late \in BOOLEAN
BY DEF Inv, LoopInv, AttemptInStep, RecordInStep, GoesOn, Requests, At, AttemptInv, AttemptTyped

\* a step of the loop that leaves the attempt and the response alone
LEMMA LoopStep ==
  ASSUME Inv, ~At("attempt"), ~At("stop"), ~At("done"), UNCHANGED <<res, att, late>>,
         req' \in Requests, req'.record = "none",
         req'.pc \in {"pick", "try", "pause", "between", "stop"},
         req'.pc \in {"try", "pause"} => req'.channel \in Channels \ req'.dead
  PROVE  Inv'
<1>1. AttemptInv'
  BY AttemptUntouched DEF Inv
<1>2. AttemptInStep' /\ GoesOn'
  BY BetweenAttempts DEF AttemptInStep, GoesOn, At
<1>3. NotDead' /\ RecordInStep'
  BY DEF NotDead, RecordInStep, At
<1> QED
  BY <1>1, <1>2, <1>3 DEF Inv, LoopInv

LEMMA NoCandidatesKeeps ==
  ASSUME Inv, NoCandidates
  PROVE  Inv'
<1>1. At("empty") /\ late' = late /\ att' = att
  BY DEF NoCandidates
<1>2. /\ att = Off /\ req.record = "none" /\ res \in Responses /\ late \in BOOLEAN
  BY <1>1, BetweenAttempts DEF At
<1>3. /\ req' = [req EXCEPT !.pc = "done", !.record = "failed"]
      /\ res' = IF Closed THEN res ELSE [res EXCEPT !.head = "json", !.ended = TRUE]
  BY <1>2 DEF NoCandidates, Recorded
<1>4. req' \in Requests /\ req'.pc = "done" /\ req'.record = "failed"
  BY <1>3, RequestFields DEF Inv, Requests
<1>5. /\ res' \in Responses /\ res'.error = res.error /\ res'.end = res.end /\ Closed'
      /\ res' = res \/ res'.head = "json"
  BY <1>2, <1>3 DEF Responses, Closed
<1>6. Untouched' /\ ErrorIsNotAnEnd'
  BY <1>5 DEF Inv, AttemptInv, Untouched, ErrorIsNotAnEnd
<1>7. AttemptInv'
  BY <1>1, <1>2, <1>5, <1>6, IdleKeeps DEF Inv
<1>8. AttemptInStep' /\ GoesOn' /\ NotDead' /\ RecordInStep'
  BY <1>1, <1>2, <1>4, <1>5 DEF AttemptInStep, GoesOn, NotDead, RecordInStep, At
<1> QED
  BY <1>4, <1>7, <1>8 DEF Inv, LoopInv

LEMMA PickChannelKeeps ==
  ASSUME Inv, PickChannel
  PROVE  Inv'
<1> DEFINE c == req.cands[req.next]
<1>1. At("pick") /\ req.next <= Len(req.cands) /\ UNCHANGED <<res, att, late>>
  BY DEF PickChannel
<1>2. c \in Channels
  BY <1>1, RequestFields DEF Inv
<1>3. req' = IF c \in req.dead THEN [req EXCEPT !.next = req.next + 1]
             ELSE [req EXCEPT !.next = req.next + 1, !.pc = "try", !.channel = c, !.a = 0,
                              !.downgraded = FALSE]
  BY DEF PickChannel, Skips
<1>4. req.next + 1 \in Nat \ {0} /\ 0 \in 0..Attempts /\ req.record = "none"
  BY <1>1, RequestFields, AttemptsAssumption, BetweenAttempts DEF Inv, At
<1> HIDE DEF c
<1>5. /\ req' \in Requests /\ req'.record = "none" /\ req'.pc \in {"pick", "try"}
      /\ req'.pc = "try" => req'.channel \in Channels \ req'.dead
  BY <1>1, <1>2, <1>3, <1>4, RequestFields DEF Inv, Requests, At
<1> QED
  BY <1>1, <1>5, LoopStep DEF At

LEMMA InjectKeeps ==
  ASSUME Inv, Inject
  PROVE  Inv'
<1>1. At("pick") /\ UNCHANGED <<res, att, late>>
  BY DEF Inject
<1>2. PICK rest \in Orders(ToSet(req.cands) \cup req.dead) :
        req' = [req EXCEPT !.injected = TRUE, !.cands = @ \o rest]
  BY DEF Inject
<1>3. req.cands \o rest \in Seq(Channels)
  BY <1>2, OrderFacts, RequestFields DEF Inv
<1>4. req.record = "none"
  BY <1>1, BetweenAttempts DEF At
<1>5. req' \in Requests /\ req'.record = "none" /\ req'.pc = "pick"
  BY <1>1, <1>2, <1>3, <1>4, RequestFields DEF Inv, Requests, At
<1> QED
  BY <1>1, <1>5, LoopStep DEF At

LEMMA TryKeeps ==
  ASSUME Inv, Try
  PROVE  Inv'
<1>1. At("try") /\ UNCHANGED <<res, late>>
  BY DEF Try
<1>2. att = Off /\ req.record = "none" /\ (res.head = "none" \/ late)
  BY <1>1, BetweenAttempts DEF At
<1>3. req.channel \in Channels \ req.dead
  BY <1>1 DEF Inv, LoopInv, NotDead, At
<1>4. CASE req.a = Attempts
  <2>1. req' = [req EXCEPT !.pc = "pick"] /\ att' = att
    BY <1>4 DEF Try
  <2>2. req' \in Requests /\ req'.record = "none" /\ req'.pc = "pick"
    BY <1>2, <2>1, RequestFields DEF Inv, Requests
  <2> QED
    BY <1>1, <2>1, <2>2, LoopStep DEF At
<1>5. CASE req.a # Attempts /\ (Closed \/ late)
  <2>1. /\ att' = att
        /\ req' = [req EXCEPT !.pc = "stop"] \/ req' = [req EXCEPT !.pc = "stop", !.exhausted = TRUE]
    BY <1>5 DEF Try
  <2>2. req' \in Requests /\ req'.record = "none" /\ req'.pc = "stop"
    BY <1>2, <2>1, RequestFields DEF Inv, Requests
  <2> QED
    BY <1>1, <2>1, <2>2, LoopStep DEF At
<1>6. CASE req.a # Attempts /\ ~Closed /\ ~late
  <2> DEFINE times == req.tries[req.channel] + 1
             tries == [req.tries EXCEPT ![req.channel] = times]
  <2>1. times \in Nat /\ tries \in [Channels -> Nat]
    BY <1>3, RequestFields DEF Inv
  <2>2. /\ req' = [req EXCEPT !.pc = "attempt", !.a = req.a + 1, !.sentAny = TRUE, !.tries = tries]
        /\ att' = [Off EXCEPT !.phase = "queued", !.channel = req.channel]
    BY <1>6, RequestFields DEF Try, Inv, Requests
  <2>3. req.a + 1 \in 0..Attempts /\ req.a + 1 > 0
    BY <1>6, RequestFields, AttemptsAssumption DEF Inv
  <2> HIDE DEF times, tries
  <2>4. /\ req' \in Requests /\ req'.record = "none" /\ req'.pc = "attempt" /\ req'.a > 0
        /\ req'.channel = req.channel /\ req'.dead = req.dead
    BY <1>2, <2>1, <2>2, <2>3, RequestFields DEF Inv, Requests
  <2>5. /\ att' \in AttemptStates /\ att'.phase = "queued" /\ att'.head = <<>> /\ att'.out = <<>>
        /\ att'.stage = "open" /\ ~att'.seen /\ ~att'.sawEndFrame /\ att'.aborted = {}
    <3>1. Off \in AttemptStates
      BY OffFacts
    <3>2. att' \in AttemptStates
      BY <1>3, <2>2, <3>1 DEF AttemptStates
    <3> QED
      BY <2>2, <3>2 DEF Off
  <2>6. AttemptTyped' /\ Untouched' /\ ErrorIsNotAnEnd'
    BY <1>1, <2>5, OffFacts DEF Inv, AttemptInv, AttemptTyped, Untouched, ErrorIsNotAnEnd
  <2>7. HeadInStep' /\ EndInStep' /\ OutcomeTrue'
    BY <1>1, <1>2, <1>6, <2>5 DEF HeadInStep, EndInStep, OutcomeTrue
  <2>8. AttemptInv'
    BY <2>5, <2>6, <2>7 DEF AttemptInv
  <2>9. AttemptInStep' /\ GoesOn' /\ NotDead' /\ RecordInStep'
    BY <1>3, <2>4, <2>5 DEF AttemptInStep, GoesOn, NotDead, RecordInStep, At
  <2> QED
    BY <2>4, <2>8, <2>9 DEF Inv, LoopInv
<1> QED
  BY <1>4, <1>5, <1>6

\* what the loop makes of an outcome
LEMMA SettleKeeps ==
  ASSUME Inv, Settle
  PROVE  Inv'
<1> DEFINE o == att.outcome
<1>1. At("attempt") /\ att.phase = "over" /\ att' = Off /\ UNCHANGED <<res, late>>
  BY DEF Settle
<1>2. /\ req.record = "none" /\ req.channel \in Channels \ req.dead
      /\ req.a \in 1..Attempts
  BY <1>1, RequestFields DEF Inv, LoopInv, RecordInStep, NotDead, AttemptInStep, At
<1>3. /\ o.kind = "ok" => Complete
      /\ o.started => Closed /\ o.kind \notin {"ok", "effort", "auth"}
      /\ o.kind \notin {"ok", "client_abort"} /\ ~o.started => res.head = "none" \/ late
  BY <1>1 DEF Inv, AttemptInv, OutcomeTrue
<1>4. AttemptInv'
  BY <1>1, IdleKeeps DEF Inv, AttemptInv, AttemptTyped, Untouched, ErrorIsNotAnEnd
<1>5. ASSUME NEW record \in {"ok", "failed"}, req' = Done(record),
             record = "ok" => Complete, Closed
      PROVE  Inv'
  <2>1. req' = [req EXCEPT !.pc = "done", !.record = record]
    BY <1>2, <1>5 DEF Done, Recorded
  <2>2. req' \in Requests /\ req'.pc = "done" /\ req'.record = record
    BY <2>1, RequestFields DEF Inv, Requests
  <2>3. (record = "ok" => Complete') /\ Closed'
    BY <1>1, <1>5 DEF Complete, Closed
  <2>4. AttemptInStep' /\ GoesOn' /\ NotDead' /\ RecordInStep'
    BY <1>1, <2>2, <2>3 DEF AttemptInStep, GoesOn, NotDead, RecordInStep, At
  <2> QED
    BY <1>4, <2>2, <2>4 DEF Inv, LoopInv
<1>6. ASSUME req' \in Requests, req'.record = "none", req'.pc \in {"try", "pause", "pick"},
             req'.pc # "pick" => req'.channel \in Channels \ req'.dead,
             res.head = "none" \/ late
      PROVE  Inv'
  <2>1. AttemptInStep' /\ GoesOn' /\ NotDead' /\ RecordInStep'
    BY <1>1, <1>6 DEF AttemptInStep, GoesOn, NotDead, RecordInStep, At
  <2> QED
    BY <1>4, <1>6, <2>1 DEF Inv, LoopInv
<1>7. CASE o.kind = "ok"
  BY <1>3, <1>5, <1>7 DEF Settle, Complete, Closed
<1>8. CASE o.kind = "effort" /\ ~req.downgraded
  <2>1. req' = [req EXCEPT !.pc = "try", !.downgraded = TRUE, !.a = req.a - 1]
    BY <1>3, <1>8 DEF Settle, HasStarted
  <2>2. req.a - 1 \in 0..Attempts
    BY <1>2, AttemptsAssumption
  <2>3. /\ req' \in Requests /\ req'.record = "none" /\ req'.pc = "try"
        /\ req'.channel = req.channel /\ req'.dead = req.dead
    BY <1>2, <2>1, <2>2, RequestFields DEF Inv, Requests
  <2> QED
    BY <1>2, <1>3, <1>6, <1>8, <2>3
<1>9. CASE o.kind = "client_abort"
  <2>1. req' = [req EXCEPT !.pc = "stop", !.record = "client_abort"]
    BY <1>2, <1>9 DEF Settle, Recorded
  <2>2. req' \in Requests /\ req'.pc = "stop" /\ req'.record = "client_abort"
    BY <2>1, RequestFields DEF Inv, Requests
  <2>3. AttemptInStep' /\ GoesOn' /\ NotDead' /\ RecordInStep'
    BY <1>1, <2>2 DEF AttemptInStep, GoesOn, NotDead, RecordInStep, At
  <2> QED
    BY <1>4, <2>2, <2>3 DEF Inv, LoopInv
<1>10. CASE o.kind \notin {"ok", "client_abort"} /\ o.started
  <2>1. req' = Done("failed")
    BY <1>3, <1>10 DEF Settle, HasStarted
  <2> QED
    BY <1>3, <1>5, <1>10, <2>1
<1>11. CASE o.kind = "auth" /\ ~o.started
  <2>1. req' = [req EXCEPT !.pc = "pick", !.dead = req.dead \cup {req.channel}]
    BY <1>11 DEF Settle, HasStarted
  <2>2. req.dead \cup {req.channel} \in SUBSET Channels
    BY <1>2, RequestFields DEF Inv
  <2>3. req' \in Requests /\ req'.record = "none" /\ req'.pc = "pick"
    BY <1>2, <2>1, <2>2, RequestFields DEF Inv, Requests
  <2> QED
    BY <1>3, <1>6, <1>11, <2>3
<1>12. CASE /\ o.kind \notin {"ok", "client_abort", "auth"} /\ ~o.started
            /\ ~(o.kind = "effort" /\ ~req.downgraded)
  <2> DEFINE hopeless == req.nonRetryable \/ o.kind \in {"bad_request", "effort"}
  <2>1. hopeless \in BOOLEAN
    OBVIOUS
  <2>2. \/ req' = [req EXCEPT !.pc = "pause"]
        \/ req' = [req EXCEPT !.pc = "pick", !.nonRetryable = hopeless]
    BY <1>12 DEF Settle, HasStarted
  <2> HIDE DEF hopeless
  <2>3. /\ req' \in Requests /\ req'.record = "none" /\ req'.pc \in {"pause", "pick"}
        /\ req'.channel = req.channel /\ req'.dead = req.dead
    BY <1>2, <2>1, <2>2, RequestFields DEF Inv, Requests
  <2> QED
    BY <1>2, <1>3, <1>6, <1>12, <2>3
<1> QED
  BY <1>7, <1>8, <1>9, <1>10, <1>11, <1>12

\* a pause that ends lets the loop go on or stops it
LEMMA AfterPauseFacts ==
  ASSUME Inv, NEW pc \in {"try", "pick"}
  PROVE  /\ AfterPause(pc) \in Requests /\ AfterPause(pc).pc \in {pc, "stop"}
         /\ AfterPause(pc).record = req.record /\ AfterPause(pc).dead = req.dead
         /\ AfterPause(pc).channel = req.channel /\ AfterPause(pc).tries = req.tries
<1> DEFINE pauses == IF req.pauses < MaxPauses THEN req.pauses + 1 ELSE req.pauses
<1>1. pauses \in 0..MaxPauses
  BY RequestFields, PausesAssumption DEF Inv
<1>2. \/ AfterPause(pc) = [req EXCEPT !.pc = "stop"]
      \/ AfterPause(pc) = [req EXCEPT !.pc = "stop", !.exhausted = TRUE]
      \/ AfterPause(pc) = [req EXCEPT !.pc = pc, !.pauses = pauses]
  BY RequestFields DEF AfterPause, Inv, Requests
<1> HIDE DEF pauses
<1>3. req \in Requests
  BY RequestFields DEF Inv
<1> DEFINE Fits(r) == /\ r \in Requests /\ r.pc \in {pc, "stop"} /\ r.record = req.record
                      /\ r.dead = req.dead /\ r.channel = req.channel /\ r.tries = req.tries
<1>4. Fits([req EXCEPT !.pc = "stop"]) /\ Fits([req EXCEPT !.pc = "stop", !.exhausted = TRUE])
  BY <1>3 DEF Requests
<1>5. Fits([req EXCEPT !.pc = pc, !.pauses = pauses])
  BY <1>1, <1>3 DEF Requests
<1> HIDE DEF Fits
<1>6. Fits(AfterPause(pc))
  BY <1>2, <1>4, <1>5
<1> QED
  BY <1>6 DEF Fits

LEMMA PauseInChannelKeeps ==
  ASSUME Inv, PauseInChannel
  PROVE  Inv'
<1>1. At("pause") /\ req' = AfterPause("try") /\ UNCHANGED <<res, att, late>>
  BY DEF PauseInChannel
<1>2. req.record = "none" /\ req.channel \in Channels \ req.dead
  BY <1>1, BetweenAttempts DEF At, Inv, LoopInv, NotDead
<1>3. /\ req' \in Requests /\ req'.pc \in {"try", "stop"} /\ req'.record = "none"
      /\ req'.channel \in Channels \ req'.dead
  BY <1>1, <1>2, AfterPauseFacts
<1> QED
  BY <1>1, <1>3, LoopStep DEF At

LEMMA EndOfRoundKeeps ==
  ASSUME Inv, EndOfRound
  PROVE  Inv'
<1>1. At("pick") /\ UNCHANGED <<res, att, late>>
  BY DEF EndOfRound
<1>2. req.record = "none"
  BY <1>1, BetweenAttempts DEF At
<1>3. \/ req' = [req EXCEPT !.pc = "stop"]
      \/ req' = [req EXCEPT !.pc = "stop", !.exhausted = TRUE]
      \/ req' = [req EXCEPT !.pc = "between", !.injected = TRUE]
  BY DEF EndOfRound
<1>4. req' \in Requests /\ req'.pc \in {"between", "stop"} /\ req'.record = "none"
  BY <1>2, <1>3, RequestFields DEF Inv, Requests
<1> QED
  BY <1>1, <1>4, LoopStep DEF At

LEMMA NextRoundKeeps ==
  ASSUME Inv, NextRound
  PROVE  Inv'
<1> DEFINE after == AfterPause("pick")
           zero  == [c \in Channels |-> 0]
<1>1. At("between") /\ UNCHANGED <<res, att, late>>
  BY DEF NextRound
<1>2. PICK cands \in Orders({}) :
        req' = [after EXCEPT !.cands = cands, !.next = 1, !.sentAny = FALSE,
                             !.nonRetryable = FALSE, !.tries = zero]
  BY DEF NextRound
<1>3. cands \in Seq(Channels) /\ zero \in [Channels -> Nat] /\ req.record = "none"
  BY <1>1, OrderFacts, BetweenAttempts DEF At
<1>4. after \in Requests /\ after.pc \in {"pick", "stop"} /\ after.record = "none"
  BY <1>3, AfterPauseFacts
<1> HIDE DEF after, zero
<1>5. req' \in Requests /\ req'.pc \in {"pick", "stop"} /\ req'.record = "none"
  <2>1. 1 \in Nat \ {0} /\ FALSE \in BOOLEAN
    OBVIOUS
  <2>2. req' \in Requests
    BY <1>2, <1>3, <1>4, <2>1 DEF Requests
  <2>3. req'.pc = after.pc /\ req'.record = after.record
    BY <1>2, <1>4 DEF Requests
  <2> QED
    BY <1>4, <2>2, <2>3
<1> QED
  BY <1>1, <1>5, LoopStep DEF At

\* the last answer and the last record
LEMMA StopKeeps ==
  ASSUME Inv, Stop
  PROVE  Inv'
<1>1. At("stop") /\ UNCHANGED <<att, late>>
  BY DEF Stop
<1>2. /\ att = Off /\ req.record \in {"none", "client_abort"}
      /\ res \in Responses /\ late \in BOOLEAN
  BY <1>1 DEF Inv, LoopInv, AttemptInStep, RecordInStep, At, AttemptInv, AttemptTyped
<1>3. PICK record \in {"client_abort", "total_deadline", "failed"} :
        req' = [req EXCEPT !.pc = "done", !.record = record]
  BY <1>2 DEF Stop, LastRecord, Done, Recorded
<1>4. req' \in Requests /\ req'.pc = "done" /\ req'.record = record
  BY <1>3, RequestFields DEF Inv, Requests
<1>5. \/ Closed /\ res' = res
      \/ res' = [res EXCEPT !.head = "json", !.ended = TRUE]
      \/ res.head # "none" /\ res' = [res EXCEPT !.ended = TRUE]
  BY DEF Stop, LastAnswer, Caught
<1>6. /\ res' \in Responses /\ res'.error = res.error /\ res'.end = res.end /\ Closed'
      /\ res' = res \/ res'.head # "none"
  BY <1>2, <1>5 DEF Responses, Closed
<1>7. Untouched' /\ ErrorIsNotAnEnd'
  BY <1>6 DEF Inv, AttemptInv, Untouched, ErrorIsNotAnEnd
<1>8. AttemptInv'
  BY <1>1, <1>2, <1>6, <1>7, IdleKeeps DEF Inv
<1>9. AttemptInStep' /\ GoesOn' /\ NotDead' /\ RecordInStep'
  BY <1>1, <1>2, <1>4, <1>6 DEF AttemptInStep, GoesOn, NotDead, RecordInStep, At
<1> QED
  BY <1>4, <1>8, <1>9 DEF Inv, LoopInv

LEMMA RouteKeeps ==
  ASSUME Inv, Route
  PROVE  Inv'
BY NoCandidatesKeeps, PickChannelKeeps, InjectKeeps, TryKeeps, SettleKeeps, PauseInChannelKeeps,
   EndOfRoundKeeps, NextRoundKeeps, StopKeeps DEF Route

\* what others do while the handler awaits something
Others ==
  \/ Refused \/ Admitted \/ Receive \/ Write \/ Written \/ Drained \/ DrainTimeout
  \/ HeaderTimeout \/ FirstByteTimeout \/ IdleTimeout \/ BudgetTimeout
  \/ ClientClose

\* without an attempt, only the client can do anything
LEMMA OthersFacts ==
  ASSUME AttemptInv, Others
  PROVE  /\ AttemptInv' /\ late' = late
         /\ \/ att.phase # "off" /\ att'.phase \notin {"off", "queued"}
            \/ ClientClose /\ att' = att
<1>1. CASE ClientClose
  BY <1>1, ClientCloseKeeps DEF ClientClose
<1>2. CASE Others /\ ~ClientClose
  <2>1. AttemptInv' /\ att'.phase \notin {"off", "queued"}
    BY <1>2, RefusedKeeps, AdmittedKeeps, ReceiveKeeps, WriteKeeps, WrittenKeeps, DrainKeeps,
       TimersKeep DEF Others
  <2>2. late' = late
    BY <1>2 DEF Others, Refused, Admitted, Receive, StreamBegins, BodyBegins, NetworkError, ErrorRead,
       JsonRead, Aggregated, Unaccepted, Forward, Buffer, EndOfStream, StreamBreaks, Write, Written, Drained, DrainTimeout,
       HeaderTimeout, FirstByteTimeout, IdleTimeout, BudgetTimeout
  <2>3. att.phase # "off"
    BY <1>2 DEF Others, Refused, Admitted, Receive, StreamBegins, BodyBegins, NetworkError, ErrorRead,
       JsonRead, Aggregated, Unaccepted, Forward, Buffer, EndOfStream, StreamBreaks, Write, Written, Drained, DrainTimeout,
       HeaderTimeout, FirstByteTimeout, IdleTimeout, BudgetTimeout, Signal, Awaiting
  <2> QED
    BY <2>1, <2>2, <2>3
<1> QED
  BY <1>1, <1>2

LEMMA OthersKeep ==
  ASSUME Inv, Waits, Others, UNCHANGED req
  PROVE  Inv'
<1>1. AttemptInv' /\ late' = late
  BY OthersFacts DEF Inv
<1>2. req' \in Requests /\ NotDead'
  BY DEF Inv, LoopInv, NotDead
<1>3. req.record = "none" /\ RecordInStep'
  BY DEF Inv, LoopInv, RecordInStep, Waits, At
<1>4. CASE att.phase # "off" /\ att'.phase \notin {"off", "queued"}
  <2>1. At("attempt")
    BY <1>4 DEF Inv, LoopInv, AttemptInStep, Off
  <2> QED
    BY <1>1, <1>2, <1>3, <1>4, <2>1 DEF Inv, LoopInv, AttemptInStep, GoesOn, At
<1>5. CASE ClientClose /\ att' = att
  <2>1. res'.head = res.head
    BY <1>5, AttemptFields DEF ClientClose, Inv, Responses
  <2>2. AttemptInStep' /\ GoesOn'
    BY <1>1, <1>5, <2>1 DEF Inv, LoopInv, AttemptInStep, GoesOn, At
  <2> QED
    BY <1>1, <1>2, <1>3, <2>2 DEF Inv, LoopInv
<1> QED
  BY <1>4, <1>5, OthersFacts DEF Inv

LEMMA DeadlinePassesKeeps ==
  ASSUME Inv, DeadlinePasses, UNCHANGED req
  PROVE  Inv'
<1>1. late' = TRUE /\ res' = res /\ att' = att /\ req' = req
  BY DEF DeadlinePasses
<1>2. AttemptInv'
  BY <1>1 DEF Inv, AttemptInv, AttemptTyped, Untouched, ErrorIsNotAnEnd, HeadInStep, EndInStep,
     OutcomeTrue, Complete, Closed
<1>3. LoopInv'
  BY <1>1 DEF Inv, LoopInv, AttemptInStep, GoesOn, NotDead, RecordInStep, At, Complete, Closed
<1> QED
  BY <1>2, <1>3 DEF Inv

-----------------------------------------------------------------------------
(* The theorems.                                                           *)

LEMMA InitInv == Init => Inv
<1> SUFFICES ASSUME Init PROVE Inv
  OBVIOUS
<1>1. PICK stream \in BOOLEAN : res = Response(stream)
  BY DEF Init
<1>2. PICK cands \in Orders({}) : req = Fresh(cands)
  BY DEF Init
<1>3. late = FALSE /\ att = Off
  BY DEF Init
<1>4. res \in Responses /\ res.head = "none" /\ ~res.end /\ ~res.error /\ ~res.ended
  BY <1>1 DEF Response, Responses
<1>5. /\ att \in AttemptStates /\ att.phase = "off" /\ att.head = <<>> /\ att.out = <<>>
      /\ att.stage = "open" /\ ~att.seen /\ ~att.sawEndFrame /\ att.aborted = {}
  BY <1>3, OffFacts DEF Off
<1>6. AttemptInv
  <2>1. AttemptTyped
    <3>1. late \in BOOLEAN
      BY <1>3
    <3>2. Len(att.head) = 0 /\ Len(att.out) = 0
      BY <1>5, OffFacts
    <3>3. Len(att.head) < HeadMax /\ Len(att.out) <= HeadMax
      BY <3>2, OffFacts
    <3> QED
      BY <1>4, <1>5, <3>1, <3>3 DEF AttemptTyped
  <2>2. Untouched /\ ErrorIsNotAnEnd /\ HeadInStep /\ EndInStep /\ OutcomeTrue
    BY <1>4, <1>5 DEF Untouched, ErrorIsNotAnEnd, HeadInStep, EndInStep, OutcomeTrue
  <2> QED
    BY <1>5, <2>1, <2>2 DEF AttemptInv
<1>7. /\ cands \in Seq(Channels) /\ [c \in Channels |-> 0] \in [Channels -> Nat]
      /\ 0 \in 0..Attempts /\ 0 \in 0..MaxPauses /\ 1 \in Nat \ {0}
  BY OrderFacts, AttemptsAssumption, PausesAssumption
<1>8. req \in Requests /\ req.pc \in {"empty", "pick"} /\ req.record = "none"
  BY <1>2, <1>7 DEF Fresh, Requests
<1>9. LoopInv
  BY <1>3, <1>4, <1>8 DEF LoopInv, AttemptInStep, GoesOn, NotDead, RecordInStep, At
<1> QED
  BY <1>6, <1>9 DEF Inv

LEMMA NextInv == Inv /\ [Next]_vars => Inv'
<1> SUFFICES ASSUME Inv, [Next]_vars PROVE Inv'
  OBVIOUS
<1>1. CASE Route
  BY <1>1, RouteKeeps
<1>2. CASE Waits /\ Others /\ UNCHANGED req
  BY <1>2, OthersKeep
<1>3. CASE DeadlinePasses /\ UNCHANGED req
  BY <1>3, DeadlinePassesKeeps
<1>4. CASE UNCHANGED vars
  <2>1. UNCHANGED <<res, att, late>> /\ req' = req
    BY <1>4 DEF vars
  <2>2. AttemptInv'
    BY <2>1, AttemptUntouched DEF Inv
  <2>3. LoopInv'
    BY <2>1 DEF Inv, LoopInv, AttemptInStep, GoesOn, NotDead, RecordInStep, At, Complete, Closed
  <2> QED
    BY <2>2, <2>3 DEF Inv
<1> QED
  BY <1>1, <1>2, <1>3, <1>4 DEF Next, Others, Finished

(* The inductive invariant: the response, the attempt and the loop stay in *)
(* step on every path through buffers, drains, timers, pauses and rounds   *)
(* of handleChatCompletions().                                             *)
THEOREM RequestSafe == Spec => []Inv
<1> QED
  BY InitInv, NextInv, PTL DEF Spec

LEMMA InvTypeOK == Inv => TypeOK
<1> SUFFICES ASSUME Inv PROVE TypeOK
  OBVIOUS
<1>1. /\ res \in Responses /\ late \in BOOLEAN /\ att \in AttemptStates
      /\ Len(att.head) < HeadMax /\ Len(att.out) <= HeadMax
  BY DEF Inv, AttemptInv, AttemptTyped
<1>2. Len(att.head) \in Nat /\ Len(att.out) \in Nat
  BY AttemptFields DEF Inv
<1>3. Len(att.head) <= HeadMax /\ Len(att.out) <= HeadMax + 1
  BY <1>1, <1>2, OffFacts
<1>4. att.outcome \in [kind : Kinds, retryable : BOOLEAN, started : BOOLEAN]
  BY <1>1 DEF AttemptStates, Outcomes
<1>5. /\ att.phase \in {"off", "queued", "sent", "body", "reading", "writing", "draining", "over"}
      /\ att.channel \in Channels \cup {Nobody} /\ att.adapter \in Adapters
      /\ att.stage \in {"open", "finished", "ended", "eof", "closing"}
  BY <1>1 DEF AttemptStates
<1>6. req.pc \in {"empty", "pick", "try", "attempt", "pause", "between", "stop", "done"}
  BY RequestFields DEF Inv, Requests
<1>7. ToSet(req.cands) \subseteq Channels /\ req.dead \subseteq Channels
  BY RequestFields DEF Inv, ToSet
<1>8. /\ req.a \in 0..Attempts /\ req.pauses \in 0..MaxPauses
      /\ req.record \in {"none", "ok", "client_abort", "total_deadline", "failed"}
  BY RequestFields DEF Inv
<1> QED
  BY <1>1, <1>3, <1>4, <1>5, <1>6, <1>7, <1>8 DEF TypeOK, Responses

(* Type correctness, and every exit leaves one record and a response that  *)
(* is ended unless the client has gone.                                    *)
THEOREM RequestSettles == Spec => []EveryExitSettles
<1>1. Inv => EveryExitSettles
  BY InvTypeOK DEF Inv, LoopInv, RecordInStep, EveryExitSettles
<1> QED
  BY <1>1, RequestSafe, PTL

(* What is recorded as a success is complete for the client: the end frame *)
(* is out and no error frame.  The end frame is followed from the tracer   *)
(* through the head buffer and the queue of items to the response.         *)
THEOREM SuccessReached == Spec => []SuccessIsComplete
<1>1. Inv => SuccessIsComplete
  BY DEF Inv, LoopInv, RecordInStep, Complete, SuccessIsComplete
<1> QED
  BY <1>1, RequestSafe, PTL

(* emitStreamError() never follows an end frame, and none follows it.      *)
THEOREM ErrorsEndNothing == Spec => []ErrorIsNotAnEnd
<1>1. Inv => ErrorIsNotAnEnd
  BY DEF Inv, AttemptInv
<1> QED
  BY <1>1, RequestSafe, PTL

(* No attempt begins once a byte has been sent: the loop goes on with the  *)
(* head out only after the deadline, and then it stops at its next check.  *)
THEOREM NoSwitchAfterFirstByte == Spec => SwitchesOnlyBeforeFirstByte
<1> DEFINE Begins == att'.phase = "queued" /\ att.phase # "queued"
<1>1. ASSUME Inv, [Next]_vars, Begins
      PROVE  res.head = "none" /\ ~res.ended
  <2>1. CASE Route
    <3>1. Try
      <4>1. att' # att /\ att' # Off
        BY <1>1 DEF Off
      <4> QED
        BY <2>1, <4>1 DEF Route, NoCandidates, PickChannel, Inject, Settle, PauseInChannel,
           EndOfRound, NextRound, Stop
    <3>2. At("try") /\ att' # att
      BY <1>1, <3>1 DEF Try
    <3>3. ~Closed /\ ~late
      BY <3>1, <3>2 DEF Try
    <3> QED
      BY <1>1, <3>2, <3>3 DEF Inv, LoopInv, GoesOn, At, Closed
  <2>2. CASE Waits /\ Others /\ UNCHANGED req
    BY <1>1, <2>2, OthersFacts DEF Inv
  <2>3. CASE DeadlinePasses \/ UNCHANGED vars
    BY <1>1, <2>3 DEF DeadlinePasses, vars
  <2> QED
    BY <1>1, <2>1, <2>2, <2>3 DEF Next, Others, Finished
<1>2. Inv /\ [Next]_vars => [Begins => res.head = "none" /\ ~res.ended]_vars
  BY <1>1
<1> QED
  BY <1>2, RequestSafe, PTL DEF Spec, SwitchesOnlyBeforeFirstByte

(* A channel that deadChannels holds is not asked again: the loop turns to *)
(* a channel only when it is not in the set, and adds to the set only the  *)
(* channel it then leaves.                                                 *)
THEOREM GivenUpForGood == Spec => DeadStaysDead
<1> DEFINE NotAsked == \A c \in req.dead : req'.tries[c] <= req.tries[c]
<1>1. ASSUME Inv, [Next]_vars PROVE NotAsked
  <2>1. req.tries \in [Channels -> Nat] /\ req.dead \subseteq Channels
    BY <1>1, RequestFields DEF Inv
  <2>2. ASSUME req'.tries = req.tries PROVE NotAsked
    BY <2>1, <2>2
  <2>3. CASE UNCHANGED req
    BY <2>2, <2>3
  <2>4. CASE Try
    <3>1. req.channel \in Channels \ req.dead
      BY <1>1, <2>4 DEF Inv, LoopInv, NotDead, Try, At
    <3>2. /\ req \in Requests
          /\ \/ req' = [req EXCEPT !.pc = "pick"]
             \/ req' = [req EXCEPT !.pc = "stop"]
             \/ req' = [req EXCEPT !.pc = "stop", !.exhausted = TRUE]
             \/ req' = [req EXCEPT !.pc = "attempt", !.a = @ + 1, !.sentAny = TRUE,
                                   !.tries[req.channel] = @ + 1]
      BY <1>1, <2>4, RequestFields DEF Inv, Try
    <3>3. req'.tries = req.tries \/ req'.tries = [req.tries EXCEPT ![req.channel] = @ + 1]
      BY <3>2 DEF Requests
    <3>4. \A c \in req.dead : req'.tries[c] = req.tries[c]
      BY <2>1, <3>1, <3>3
    <3> QED
      BY <2>1, <3>4
  <2>5. CASE NextRound
    <3>1. AfterPause("pick") \in Requests
      BY <1>1, AfterPauseFacts
    <3>2. req'.tries = [c \in Channels |-> 0]
      BY <2>5, <3>1 DEF NextRound, Requests
    <3> QED
      BY <2>1, <3>2
  <2>6. CASE PauseInChannel
    BY <1>1, <2>2, <2>6, AfterPauseFacts DEF PauseInChannel
  <2>7. CASE NoCandidates \/ PickChannel \/ Inject \/ Settle \/ EndOfRound \/ Stop
    <3>1. req \in Requests
      BY <1>1, RequestFields DEF Inv
    <3>2. CASE NoCandidates \/ PickChannel \/ Inject
      BY <2>2, <3>1, <3>2 DEF NoCandidates, PickChannel, Inject, Requests
    <3>3. CASE Settle
      BY <2>2, <3>1, <3>3 DEF Settle, Done, Requests
    <3>4. CASE EndOfRound \/ Stop
      BY <2>2, <3>1, <3>4 DEF EndOfRound, Stop, LastRecord, Done, Requests
    <3> QED
      BY <2>7, <3>2, <3>3, <3>4
  <2> QED
    BY <1>1, <2>3, <2>4, <2>5, <2>6, <2>7 DEF Next, Route, Finished, vars
<1>2. Inv /\ [Next]_vars => [NotAsked]_vars
  BY <1>1
<1> QED
  BY <1>2, RequestSafe, PTL DEF Spec, DeadStaysDead

-----------------------------------------------------------------------------
(* ChatRequest.tla keeps the contract of AnswerContract.tla.  What that    *)
(* needs beyond Inv:                                                       *)

\* an attempt that may still write has a client; one that queues does not look
GoneIsNoticed == res.gone => att.phase \in {"off", "queued", "over"}

\* between two attempts the response is open
OpenBetween == req.pc \notin {"attempt", "done"} => ~res.ended

\* an error frame is the last of a stream, and JSON comes in one piece
ClosedInStep == res.head \in {"json", "pieced"} \/ res.error => res.ended

EmptyIsFresh == At("empty") => res.head = "none" /\ ~res.gone

\* what an outcome says of the response
OutcomeTells ==
  att.phase = "over" =>
    /\ res.ended => att.outcome.kind = "ok" \/ att.outcome.started
    /\ att.outcome.started =>
         res.head = "stream" /\ (res.ended <=> att.outcome.kind # "client_abort")
    /\ att.outcome.kind = "client_abort" => ~res.ended /\ (res.gone \/ res.head = "stream")

ContractInv ==
  GoneIsNoticed /\ OpenBetween /\ ClosedInStep /\ EmptyIsFresh /\ OutcomeTells

\* the attempt goes on and has sent nothing, its headers or its end frame
Proceeds ==
  /\ ~res.gone
  /\ att'.phase \notin {"off", "queued", "over"}
  /\ \/ res' = res
     \/ res.head = "none" /\ res' = [res EXCEPT !.head = "stream"]
     \/ res.head = "stream" /\ res' = [res EXCEPT !.end = TRUE]

\* the attempt ends and leaves the response as it is
Fails ==
  \E kind \in Kinds \ {"none", "ok"}, retryable \in BOOLEAN :
    /\ Over(kind, retryable, FALSE)
    /\ kind = "client_abort" => res.gone \/ res.head = "stream"
    /\ res' = res

\* the attempt ends in the middle of a stream, with an error frame or without
BreaksOff ==
  /\ ~res.gone /\ res.head = "stream"
  /\ \E kind \in Kinds \ {"none", "ok", "client_abort"}, retryable \in BOOLEAN,
        error \in BOOLEAN :
       /\ Over(kind, retryable, TRUE)
       /\ error => ~res.end
       /\ res' = [res EXCEPT !.error = error, !.ended = TRUE]

\* the attempt ends with a complete answer
Succeeds ==
  /\ ~res.gone
  /\ Over("ok", FALSE, FALSE)
  /\ \/ /\ res.head = "none"
        /\ \E head \in {"json", "pieced"}, end \in BOOLEAN :
             res' = [res EXCEPT !.head = head, !.end = end, !.ended = TRUE]
     \/ res.head = "stream" /\ res.end /\ res' = [res EXCEPT !.ended = TRUE]

Advances == Proceeds \/ Fails \/ BreaksOff \/ Succeeds

\* an attempt that may act has a client, but in the queue, and an open response
LEMMA UnderWay ==
  ASSUME AttemptInv, GoneIsNoticed, att.phase \notin {"off", "over"}
  PROVE  /\ res.head \in {"none", "stream"} /\ ~res.ended /\ ~res.error
         /\ att.phase # "queued" => ~res.gone
<1>1. att.phase \in {"queued", "sent", "body", "reading", "writing", "draining"}
  BY AttemptFields DEF AttemptStates
<1>2. res.head \in {"none", "stream"}
  BY <1>1, AttemptFields DEF AttemptInv, HeadInStep
<1>3. ~res.ended /\ ~res.error
  BY <1>1 DEF AttemptInv, HeadInStep, Untouched
<1> QED
  BY <1>1, <1>2, <1>3 DEF GoneIsNoticed

\* res is a record, so a field may be set to what it is
LEMMA SameResponse ==
  ASSUME AttemptInv
  PROVE  /\ res = [res EXCEPT !.error = res.error]
         /\ [res EXCEPT !.ended = TRUE] = [res EXCEPT !.error = res.error, !.ended = TRUE]
         /\ res.end => res = [res EXCEPT !.end = TRUE]
         /\ res = [res EXCEPT !.end = res.end]
BY AttemptFields DEF Responses

LEMMA TruncatedAdvances ==
  ASSUME AttemptInv, ~res.gone, res.head \in {"none", "stream"}, ~res.end, Truncated
  PROVE  Advances
<1>1. /\ "stream_truncated" \in Kinds \ {"none", "ok"}
      /\ "stream_truncated" \in Kinds \ {"none", "ok", "client_abort"}
      /\ TRUE \in BOOLEAN /\ FALSE \in BOOLEAN
  BY KindFacts
<1>2. CASE res.head = "none"
  BY <1>1, <1>2 DEF Truncated, headersSent, Advances, Fails
<1>3. CASE res.head = "stream"
  <2>1. /\ Over("stream_truncated", FALSE, TRUE)
        /\ res' = [res EXCEPT !.error = TRUE, !.ended = TRUE]
    BY <1>3 DEF Truncated, headersSent
  <2> QED
    BY <1>1, <1>3, <2>1 DEF Advances, BreaksOff
<1> QED
  BY <1>2, <1>3

\* an attempt that ends without a frame of its own
LEMMA CutAdvances ==
  ASSUME AttemptInv, ~res.gone, res.head \in {"none", "stream"}, ~res.error,
         NEW kind \in Kinds \ {"none", "ok", "client_abort"}, NEW retryable \in BOOLEAN,
         Over(kind, retryable, headersSent),
         res' = IF headersSent THEN [res EXCEPT !.ended = TRUE] ELSE res
  PROVE  Advances
<1>1. CASE res.head = "none"
  BY <1>1 DEF headersSent, Advances, Fails
<1>2. CASE res.head = "stream"
  <2>1. Over(kind, retryable, TRUE) /\ res' = [res EXCEPT !.ended = TRUE]
    BY <1>2 DEF headersSent
  <2>2. res.error = FALSE
    BY AttemptFields
  <2>3. res' = [res EXCEPT !.error = FALSE, !.ended = TRUE]
    BY <2>1, <2>2, SameResponse
  <2>4. FALSE \in BOOLEAN /\ (FALSE => ~res.end)
    OBVIOUS
  <2> QED
    BY <1>2, <2>1, <2>3, <2>4 DEF Advances, BreaksOff
<1> QED
  BY <1>1, <1>2

LEMMA InterruptedAdvances ==
  ASSUME AttemptInv, ~res.gone, res.head \in {"none", "stream"}, ~res.error,
         NEW S, NEW wrapped \in BOOLEAN, wrapped => ~res.end, Interrupted(S, wrapped)
  PROVE  Advances
<1>1. /\ "unknown" \in Kinds \ {"none", "ok"} /\ "timeout" \in Kinds \ {"none", "ok", "client_abort"}
      /\ TRUE \in BOOLEAN
  BY KindFacts
<1>2. CASE wrapped
  BY <1>2, TruncatedAdvances DEF Interrupted
<1>3. CASE ~wrapped /\ "budget" \in S
  BY <1>1, <1>3 DEF Interrupted, Advances, Fails
<1>4. CASE ~wrapped /\ "budget" \notin S
  BY <1>1, <1>4, CutAdvances DEF Interrupted
<1> QED
  BY <1>2, <1>3, <1>4

LEMMA BeginningAdvances ==
  ASSUME AttemptInv, GoneIsNoticed,
         \/ Refused \/ Admitted \/ StreamBegins \/ BodyBegins \/ NetworkError
         \/ ErrorRead \/ JsonRead \/ Aggregated
  PROVE  att.phase \notin {"off", "over"} /\ Advances
<1>1. /\ att.phase \in {"queued", "sent", "body"} /\ res.head = "none"
      /\ att.phase # "queued" => ~res.gone
  <2>1. att.phase \in {"queued", "sent", "body"}
    BY DEF Refused, Admitted, StreamBegins, BodyBegins, NetworkError, ErrorRead, JsonRead, Aggregated
  <2> QED
    BY <2>1, UnderWay DEF AttemptInv, HeadInStep
<1>2. /\ {"overloaded", "unknown", "network", "auth", "bad_request", "effort", "model", "upstream",
          "tool_call_text", "empty_response", "bad_response", "client_abort"} \subseteq Kinds \ {"none", "ok"}
      /\ {TRUE, FALSE} \subseteq BOOLEAN
  BY KindFacts
<1>3. ASSUME NEW kind \in Kinds \ {"none", "ok"}, NEW retryable \in BOOLEAN,
             Over(kind, retryable, FALSE), res' = res, kind = "client_abort" => res.gone
      PROVE  Advances
  BY <1>3 DEF Advances, Fails
<1>4. ASSUME NEW phase \in {"sent", "reading", "body"}, att'.phase = phase, ~res.gone,
             \/ res' = res
             \/ res' = [res EXCEPT !.head = "stream"]
      PROVE  Advances
  BY <1>1, <1>4 DEF Advances, Proceeds
<1>5. CASE Refused
  <2>1. /\ res' = res
        /\ Over("overloaded", FALSE, FALSE) \/ Over("overloaded", TRUE, FALSE) \/ Over("unknown", TRUE, FALSE)
    BY <1>5 DEF Refused
  <2> QED
    BY <1>1, <1>2, <1>3, <1>5, <2>1 DEF Refused
<1>6. CASE Admitted
  <2>1. res' = res /\ att.phase = "queued"
    BY <1>6 DEF Admitted
  <2>2. CASE res.gone
    BY <1>2, <1>3, <1>6, <2>1, <2>2 DEF Admitted
  <2>3. CASE ~res.gone
    <3>1. att'.phase = "sent"
      BY <1>6, <2>3, AttemptFields DEF Admitted, AttemptStates
    <3> QED
      BY <1>4, <2>1, <2>3, <3>1
  <2> QED
    BY <2>1, <2>2, <2>3
<1>7. CASE StreamBegins
  <2>1. /\ att.phase = "sent" /\ att'.phase = "reading"
        /\ res' = res \/ res' = [res EXCEPT !.head = "stream"]
    BY <1>7, AttemptFields DEF StreamBegins, AttemptStates
  <2> QED
    BY <1>1, <1>4, <2>1
<1>8. CASE BodyBegins
  <2>1. att.phase = "sent" /\ att'.phase = "body" /\ res' = res
    BY <1>8, AttemptFields DEF BodyBegins, AttemptStates
  <2> QED
    BY <1>1, <1>4, <2>1
<1>9. CASE NetworkError
  <2>1. res' = res /\ Over("network", TRUE, FALSE) /\ att.phase = "sent"
    BY <1>9 DEF NetworkError
  <2> QED
    BY <1>2, <1>3, <2>1
<1>10. CASE ErrorRead
  <2>1. /\ res' = res /\ att.phase = "body"
        /\ \/ Over("auth", FALSE, FALSE) \/ Over("bad_request", TRUE, FALSE)
           \/ Over("effort", TRUE, FALSE) \/ Over("model", FALSE, FALSE)
           \/ Over("upstream", TRUE, FALSE)
    BY <1>10 DEF ErrorRead
  <2> QED
    BY <1>2, <1>3, <2>1
<1>11. CASE JsonRead \/ Aggregated
  <2>1. att.phase = "body"
    BY <1>11 DEF JsonRead, Aggregated
  <2>2. CASE /\ \/ Over("tool_call_text", FALSE, FALSE) \/ Over("empty_response", FALSE, FALSE)
                \/ Over("bad_response", TRUE, FALSE) \/ Over("unknown", TRUE, FALSE)
             /\ res' = res
    BY <1>2, <1>3, <2>1, <2>2
  <2>3. CASE /\ Over("ok", FALSE, FALSE)
             /\ \/ res' = [res EXCEPT !.head = "json", !.end = TRUE, !.ended = TRUE]
                \/ \E whole \in BOOLEAN :
                     res' = [res EXCEPT !.head = "pieced", !.end = whole, !.ended = TRUE]
    BY <1>1, <2>1, <2>3 DEF Advances, Succeeds
  <2> QED
    BY <1>11, <2>2, <2>3 DEF JsonRead, Aggregated, Unaccepted
<1> QED
  BY <1>5, <1>6, <1>7, <1>8, <1>9, <1>10, <1>11

LEMMA ReadingAdvances ==
  ASSUME AttemptInv, GoneIsNoticed,
         (\E item \in Items : Forward(item) \/ Buffer(item)) \/ EndOfStream \/ StreamBreaks
  PROVE  att.phase \notin {"off", "over"} /\ Advances
<1>1. att.phase = "reading"
  BY DEF Forward, Buffer, EndOfStream, StreamBreaks
<1>2. /\ res.head = (IF att.buffering THEN "none" ELSE "stream") /\ ~res.gone /\ ~res.error
      /\ att \in AttemptStates
  BY <1>1, UnderWay, AttemptFields DEF AttemptInv, HeadInStep
<1>3. /\ {"tool_call_text", "empty_response"} \subseteq Kinds \ {"none", "ok"}
      /\ {"tool_call_text", "empty_response"} \subseteq Kinds \ {"none", "ok", "client_abort"}
      /\ "stream_break" \in Kinds \ {"none", "ok", "client_abort"}
      /\ {TRUE, FALSE} \subseteq BOOLEAN
  BY KindFacts
<1>4. ASSUME NEW kind \in {"tool_call_text", "empty_response"}, Over(kind, FALSE, FALSE), res' = res
      PROVE  Advances
  BY <1>3, <1>4 DEF Advances, Fails
<1>5. ASSUME NEW item \in Items, Forward(item) PROVE Advances
  <2>1. att'.phase = "writing" /\ res' = res
    <3>1. PICK seen \in BOOLEAN, saw \in BOOLEAN :
            Traced(att, item) = [att EXCEPT !.seen = seen, !.sawEndFrame = saw]
      BY TracedFacts
    <3>2. att' = [[att EXCEPT !.seen = seen, !.sawEndFrame = saw]
                   EXCEPT !.phase = "writing", !.out = <<item>>, !.firstByte = FALSE,
                          !.stage = StageAfter(item)]
      BY <1>5, <3>1 DEF Forward
    <3> QED
      BY <1>2, <1>5, <3>2 DEF Forward, AttemptStates
  <2> QED
    BY <1>2, <2>1 DEF Advances, Proceeds
<1>6. ASSUME NEW item \in Items, Buffer(item) PROVE Advances
  <2> DEFINE head == Append(att.head, item)
             kept == [Traced(att, item) EXCEPT !.head = head, !.firstByte = FALSE,
                                               !.stage = StageAfter(item)]
  <2>1. Traced(att, item) \in AttemptStates /\ Traced(att, item).phase = "reading"
    <3>1. PICK seen \in BOOLEAN, saw \in BOOLEAN :
            Traced(att, item) = [att EXCEPT !.seen = seen, !.sawEndFrame = saw]
      BY TracedFacts
    <3> QED
      BY <1>1, <1>2, <3>1 DEF AttemptStates
  <2>2. kept.phase = "reading"
    BY <2>1 DEF AttemptStates
  <2>3. [kept EXCEPT !.phase = "writing", !.buffering = FALSE, !.head = <<>>, !.out = head].phase = "writing"
    BY <2>1 DEF AttemptStates
  <2>4. /\ att.buffering
        /\ \/ Over("tool_call_text", FALSE, FALSE) /\ res' = res
           \/ att' = kept /\ res' = res
           \/ Over("empty_response", FALSE, FALSE) /\ res' = res
           \/ /\ att' = [kept EXCEPT !.phase = "writing", !.buffering = FALSE, !.head = <<>>, !.out = head]
              /\ res' = [res EXCEPT !.head = "stream"]
    BY <1>6 DEF Buffer
  <2> HIDE DEF kept, head
  <2>5. att' = kept /\ res' = res => Advances
    BY <1>2, <2>2 DEF Advances, Proceeds
  <2>6. /\ att' = [kept EXCEPT !.phase = "writing", !.buffering = FALSE, !.head = <<>>, !.out = head]
        /\ res' = [res EXCEPT !.head = "stream"]
        => Advances
    BY <1>2, <2>3, <2>4 DEF Advances, Proceeds
  <2> QED
    BY <1>4, <2>4, <2>5, <2>6
<1>7. CASE EndOfStream
  <2>1. \/ att.stage = "open" /\ Truncated
        \/ Over("empty_response", FALSE, FALSE) /\ res' = res
        \/ /\ att' = [att EXCEPT !.phase = "writing", !.stage = "eof", !.buffering = FALSE,
                                 !.head = <<>>, !.out = att.head]
           /\ res' = [res EXCEPT !.head = "stream"]
    BY <1>7 DEF EndOfStream
  <2>2. att.stage = "open" /\ Truncated => Advances
    BY <1>1, <1>2, OpenHasNoEnd, TruncatedAdvances
  <2>3. res.head = "stream" => [res EXCEPT !.head = "stream"] = res
    BY AttemptFields DEF Responses
  <2>4. /\ att' = [att EXCEPT !.phase = "writing", !.stage = "eof", !.buffering = FALSE,
                              !.head = <<>>, !.out = att.head]
        /\ res' = [res EXCEPT !.head = "stream"]
        => Advances
    <3> SUFFICES ASSUME att' = [att EXCEPT !.phase = "writing", !.stage = "eof", !.buffering = FALSE,
                                           !.head = <<>>, !.out = att.head],
                        res' = [res EXCEPT !.head = "stream"]
                 PROVE  Advances
      OBVIOUS
    <3>1. att'.phase = "writing"
      BY <1>2 DEF AttemptStates
    <3> QED
      BY <1>2, <2>3, <3>1 DEF Advances, Proceeds
  <2>5. Over("empty_response", FALSE, FALSE) /\ res' = res => Advances
    BY <1>4
  <2> QED
    BY <1>1, <2>1, <2>2, <2>4, <2>5
<1>8. CASE StreamBreaks
  <2>1. CASE att.adapter = "toOpenAI"
    <3>1. att.stage = "open"
      BY <1>8, <2>1 DEF StreamBreaks, AdapterBusy
    <3>2. Truncated
      BY <1>8, <2>1 DEF StreamBreaks
    <3> QED
      BY <1>1, <1>2, <3>1, <3>2, OpenHasNoEnd, TruncatedAdvances
  <2>2. CASE att.adapter # "toOpenAI"
    <3>1. /\ Over("stream_break", TRUE, headersSent)
          /\ res' = IF headersSent THEN [res EXCEPT !.ended = TRUE] ELSE res
      BY <1>8, <2>2 DEF StreamBreaks
    <3>2. res.head \in {"none", "stream"} /\ ~res.gone /\ ~res.error
      BY <1>2
    <3>3. "stream_break" \in Kinds \ {"none", "ok", "client_abort"} /\ TRUE \in BOOLEAN
      BY <1>3
    <3> QED
      BY <1>1, <3>1, <3>2, <3>3, CutAdvances
  <2> QED
    BY <2>1, <2>2
<1> QED
  BY <1>1, <1>5, <1>6, <1>7, <1>8

LEMMA WritingAdvances ==
  ASSUME AttemptInv, GoneIsNoticed, Write \/ Written
  PROVE  att.phase \notin {"off", "over"} /\ Advances
<1>1. att.phase = "writing"
  BY DEF Write, Written
<1>2. /\ res.head = "stream" /\ ~res.gone /\ ~res.error /\ att \in AttemptStates
      /\ res.end \in BOOLEAN
  BY <1>1, UnderWay, AttemptFields DEF AttemptInv, HeadInStep
<1>3. ASSUME NEW end \in {TRUE, res.end}, res' = [res EXCEPT !.end = end],
             att'.phase \in {"reading", "writing", "draining"}
      PROVE  Advances
  <2>1. res' = res \/ res' = [res EXCEPT !.end = TRUE]
    BY <1>3, SameResponse
  <2> QED
    BY <1>2, <1>3, <2>1 DEF Advances, Proceeds
<1>4. CASE Write
  <2> DEFINE last == Head(att.out) \in {"end", "last"}
             end == res.end \/ last
  <2>1. res' = [res EXCEPT !.end = end]
    BY <1>4 DEF Write
  <2>2. end \in {TRUE, res.end}
    BY <1>2
  <2>3. att'.phase \in {"writing", "draining"}
    BY <1>2, <1>4 DEF Write, AttemptStates
  <2> HIDE DEF end
  <2> QED
    BY <1>1, <1>3, <2>1, <2>2, <2>3
<1>5. CASE Written
  <2>1. \/ res' = res /\ att' = [att EXCEPT !.phase = "reading"]
        \/ res' = res /\ att' = [att EXCEPT !.stage = "closing", !.out = <<"end">>]
        \/ att.stage = "eof" /\ ~att.seen /\ Truncated
        \/ /\ att.stage = "closing" \/ (att.stage = "eof" /\ att.seen /\ att.sawEndFrame)
           /\ Over("ok", FALSE, FALSE) /\ res' = [res EXCEPT !.ended = TRUE]
    BY <1>2, <1>5 DEF Written, IsTruncated, AttemptStates
  <2>2. ASSUME res' = res, \/ att' = [att EXCEPT !.phase = "reading"]
                           \/ att' = [att EXCEPT !.stage = "closing", !.out = <<"end">>]
        PROVE  Advances
    <3>1. att'.phase \in {"reading", "writing"}
      BY <1>1, <1>2, <2>2 DEF AttemptStates
    <3> QED
      BY <1>2, <2>2, <3>1 DEF Advances, Proceeds
  <2>3. ASSUME att.stage = "eof", ~att.seen, Truncated PROVE Advances
    BY <1>1, <1>2, <2>3, OpenHasNoEnd, TruncatedAdvances
  <2>4. ASSUME att.stage = "closing" \/ att.sawEndFrame,
               Over("ok", FALSE, FALSE), res' = [res EXCEPT !.ended = TRUE]
        PROVE  Advances
    <3>1. att.out = <<>> /\ att.head = <<>>
      BY <1>1, <1>5 DEF Written, AttemptInv, HeadInStep
    <3>2. ~Holds(att.out, Ends) /\ ~Holds(att.head, Ends)
      BY <3>1, HoldsNothing
    <3>3. res.end
      BY <2>4, <3>2 DEF AttemptInv, EndInStep
    <3> QED
      BY <1>2, <2>4, <3>3 DEF Advances, Succeeds
  <2> QED
    BY <1>1, <2>1, <2>2, <2>3, <2>4
<1> QED
  BY <1>4, <1>5

LEMMA WaitingAdvances ==
  ASSUME AttemptInv, GoneIsNoticed,
         \/ Drained \/ DrainTimeout
         \/ HeaderTimeout \/ FirstByteTimeout \/ IdleTimeout \/ BudgetTimeout
  PROVE  att.phase \notin {"off", "over"} /\ Advances
<1>1. att.phase \in {"sent", "body", "reading", "draining"}
  BY DEF Drained, DrainTimeout, HeaderTimeout, FirstByteTimeout, IdleTimeout, BudgetTimeout,
     Signal, Awaiting
<1>2. /\ res.head \in {"none", "stream"} /\ ~res.gone /\ ~res.error /\ att \in AttemptStates
      /\ att.phase = "draining" => res.head = "stream"
  BY <1>1, UnderWay, AttemptFields DEF AttemptInv, HeadInStep
<1>3. CASE Drained
  <2>1. \/ att' = [att EXCEPT !.phase = "writing"] /\ res' = res
        \/ Interrupted(att.aborted, FALSE)
    BY <1>3 DEF Drained
  <2>2. ASSUME att' = [att EXCEPT !.phase = "writing"], res' = res PROVE Advances
    <3>1. att'.phase = "writing"
      BY <1>2, <2>2 DEF AttemptStates
    <3> QED
      BY <1>2, <2>2, <3>1 DEF Advances, Proceeds
  <2> QED
    BY <1>1, <1>2, <2>1, <2>2, InterruptedAdvances
<1>4. CASE DrainTimeout
  <2>1. /\ Over("client_abort", FALSE, FALSE) /\ res' = res /\ res.head = "stream"
        /\ "client_abort" \in Kinds \ {"none", "ok"} /\ FALSE \in BOOLEAN
    BY <1>2, <1>4, KindFacts DEF DrainTimeout
  <2> QED
    BY <1>1, <2>1 DEF Advances, Fails
<1>5. ASSUME NEW s, Signal(s) PROVE Advances
  <2>1. CASE att.phase = "draining"
    <3>1. att' = [att EXCEPT !.aborted = @ \cup {s}] /\ res' = res
      BY <1>5, <2>1 DEF Signal, Awaiting
    <3>2. att'.phase = "draining"
      BY <1>2, <2>1, <3>1 DEF AttemptStates
    <3> QED
      BY <1>2, <3>1, <3>2 DEF Advances, Proceeds
  <2>2. CASE att.phase # "draining"
    <3> DEFINE wrapped == att.phase = "reading" /\ att.adapter = "toOpenAI"
    <3>1. Awaiting /\ Interrupted({s}, wrapped)
      BY <1>5, <2>2 DEF Signal
    <3>2. wrapped => ~res.end
      <4>1. wrapped => att.stage = "open"
        BY <3>1 DEF Awaiting, AdapterBusy
      <4> QED
        BY <4>1, OpenHasNoEnd
    <3>3. wrapped \in BOOLEAN
      OBVIOUS
    <3> HIDE DEF wrapped
    <3> QED
      BY <1>2, <3>1, <3>2, <3>3, InterruptedAdvances
  <2> QED
    BY <2>1, <2>2
<1> QED
  BY <1>1, <1>3, <1>4, <1>5 DEF HeaderTimeout, FirstByteTimeout, IdleTimeout, BudgetTimeout

\* every step of an attempt but the client's is one of the four
LEMMA AttemptAdvances ==
  ASSUME AttemptInv, GoneIsNoticed, Others, ~ClientClose
  PROVE  att.phase \notin {"off", "over"} /\ Advances
BY BeginningAdvances, ReadingAdvances, WritingAdvances, WaitingAdvances DEF Others, Receive

LEMMA OverFields ==
  ASSUME AttemptInv, NEW kind, NEW retryable, NEW started, Over(kind, retryable, started)
  PROVE  att'.phase = "over" /\ att'.outcome.kind = kind /\ att'.outcome.started = started
<1> DEFINE o == [kind |-> kind, retryable |-> retryable, started |-> started]
<1>1. att' = [Off EXCEPT !.phase = "over", !.channel = att.channel, !.outcome = o]
  BY DEF Over
<1>2. o.kind = kind /\ o.started = started
  OBVIOUS
<1> HIDE DEF o
<1>3. att'.phase = "over" /\ att'.outcome = o
  BY <1>1 DEF Off
<1> QED
  BY <1>2, <1>3

\* what a step of the attempt is to the contract
LEMMA ContractState ==
  ASSUME Inv, ContractInv, att.phase \notin {"off", "over"}
  PROVE  /\ At("attempt") /\ Asked = req.channel /\ Asked \in Channels /\ Asked # Nobody
         /\ req.record = "none" /\ ~res.ended /\ ~res.error
         /\ Answer = IF res.head = "none" THEN "nothing" ELSE IF res.end THEN "whole" ELSE "part"
         /\ res.head \in {"none", "stream"}
<1>1. At("attempt")
  BY DEF Inv, LoopInv, AttemptInStep, Off
<1>2. req.channel \in Channels /\ req.record = "none"
  BY <1>1 DEF Inv, LoopInv, NotDead, RecordInStep, At
<1>3. ~res.ended /\ ~res.error /\ res.head \in {"none", "stream"}
  BY UnderWay DEF Inv, ContractInv
<1> QED
  BY <1>1, <1>2, <1>3, NobodyAssumption DEF Asked, Answer

LEMMA ProceedsRefines ==
  ASSUME Inv, ContractInv, att.phase \notin {"off", "over"}, Proceeds, req' = req
  PROVE  ContractInv' /\ [Contract!Next]_(Contract!vars)
<1>1. /\ At("attempt") /\ Asked = req.channel /\ Asked \in Channels /\ Asked # Nobody
      /\ req.record = "none" /\ ~res.ended /\ ~res.error /\ ~res.gone
      /\ Answer = IF res.head = "none" THEN "nothing" ELSE IF res.end THEN "whole" ELSE "part"
      /\ res.head \in {"none", "stream"} /\ res \in Responses
  BY ContractState, AttemptFields DEF Proceeds, Inv
<1>2. res.head = "none" => ~res.end
  BY DEF Inv, AttemptInv, Untouched
<1>3. att'.phase \notin {"off", "queued", "over"} /\ Asked' = Asked
  BY <1>1 DEF Proceeds, Asked
<1>4. ASSUME res' \in Responses, res'.head \in {"none", "stream"}, ~res'.ended, ~res'.error, ~res'.gone
      PROVE  ContractInv'
  BY <1>1, <1>3, <1>4 DEF ContractInv, GoneIsNoticed, OpenBetween, ClosedInStep, EmptyIsFresh,
     OutcomeTells, At
<1>5. CASE res' = res
  <2>1. Answer' = Answer
    BY <1>1, <1>5 DEF Answer
  <2> QED
    BY <1>1, <1>3, <1>4, <1>5, <2>1 DEF Contract!vars
<1>6. CASE res.head = "none" /\ res' = [res EXCEPT !.head = "stream"]
  <2>1. /\ res' \in Responses /\ res'.head = "stream" /\ res'.end = res.end
        /\ ~res'.ended /\ ~res'.error /\ ~res'.gone /\ res'.ended = res.ended /\ res'.gone = res.gone
    BY <1>1, <1>6 DEF Responses
  <2>2. Answer = "nothing" /\ Answer' = "part"
    BY <1>1, <1>2, <1>6, <2>1 DEF Answer
  <2>3. Contract!Begin
    BY <1>1, <1>3, <2>1, <2>2 DEF Contract!Begin, Contract!Sends
  <2> QED
    BY <1>4, <2>1, <2>3 DEF Contract!Next
<1>7. CASE res.head = "stream" /\ res' = [res EXCEPT !.end = TRUE]
  <2>1. /\ res' \in Responses /\ res'.head = "stream" /\ res'.end
        /\ ~res'.ended /\ ~res'.error /\ ~res'.gone /\ res'.ended = res.ended /\ res'.gone = res.gone
    BY <1>1, <1>7 DEF Responses
  <2>2. Answer \in {"part", "whole"} /\ Answer' = "whole"
    BY <1>1, <1>7, <2>1 DEF Answer
  <2>3. Answer = "part" => Contract!Complete
    BY <1>1, <1>3, <2>1, <2>2 DEF Contract!Complete, Contract!Sends
  <2>4. Answer = "whole" => UNCHANGED Contract!vars
    BY <1>3, <2>1, <2>2 DEF Contract!vars
  <2> QED
    BY <1>4, <2>1, <2>2, <2>3, <2>4 DEF Contract!Next
<1> QED
  BY <1>5, <1>6, <1>7 DEF Proceeds

LEMMA FailsRefines ==
  ASSUME Inv, ContractInv, att.phase \notin {"off", "over"}, Fails, req' = req
  PROVE  ContractInv' /\ [Contract!Next]_(Contract!vars)
<1>1. /\ At("attempt") /\ Asked # Nobody /\ ~res.ended /\ ~res.error
      /\ res.head \in {"none", "stream"} /\ res' = res
  BY ContractState DEF Fails
<1>2. PICK kind \in Kinds \ {"none", "ok"}, retryable \in BOOLEAN :
        /\ Over(kind, retryable, FALSE)
        /\ kind = "client_abort" => res.gone \/ res.head = "stream"
  BY DEF Fails
<1>3. att'.phase = "over" /\ att'.outcome.kind = kind /\ ~att'.outcome.started
  BY <1>2, OverFields DEF Inv
<1>4. ContractInv'
  BY <1>1, <1>2, <1>3 DEF ContractInv, GoneIsNoticed, OpenBetween, ClosedInStep, EmptyIsFresh,
     OutcomeTells, At
<1>5. Asked' = Nobody /\ Answer' = Answer
  BY <1>1, <1>3 DEF Asked, Answer
<1>6. Contract!Fail
  BY <1>1, <1>5 DEF Contract!Fail
<1> QED
  BY <1>4, <1>6 DEF Contract!Next

LEMMA BreaksOffRefines ==
  ASSUME Inv, ContractInv, att.phase \notin {"off", "over"}, BreaksOff, req' = req
  PROVE  ContractInv' /\ [Contract!Next]_(Contract!vars)
<1>1. /\ At("attempt") /\ Asked # Nobody /\ ~res.ended /\ ~res.error /\ ~res.gone
      /\ Answer = IF res.end THEN "whole" ELSE "part"
      /\ res.head = "stream" /\ res \in Responses /\ req.record = "none"
  BY ContractState, AttemptFields DEF BreaksOff, Inv
<1>2. PICK kind \in Kinds \ {"none", "ok", "client_abort"}, retryable \in BOOLEAN,
           error \in BOOLEAN :
        /\ Over(kind, retryable, TRUE)
        /\ error => ~res.end
        /\ res' = [res EXCEPT !.error = error, !.ended = TRUE]
  BY DEF BreaksOff
<1>3. att'.phase = "over" /\ att'.outcome.kind = kind /\ att'.outcome.started
  BY <1>2, OverFields DEF Inv
<1>4. /\ res'.head = "stream" /\ res'.end = res.end /\ res'.error = error /\ res'.ended = TRUE
      /\ res'.gone = res.gone
  BY <1>1, <1>2 DEF Responses
<1>5. ContractInv'
  BY <1>1, <1>2, <1>3, <1>4 DEF ContractInv, GoneIsNoticed, OpenBetween, ClosedInStep, EmptyIsFresh,
     OutcomeTells, At
<1>6. /\ Asked' = Nobody
      /\ Answer' = IF error THEN "broken" ELSE IF res.end THEN "whole" ELSE "part"
  BY <1>2, <1>3, <1>4 DEF Asked, Answer
<1>7. Contract!Close
  BY <1>1, <1>2, <1>4, <1>6 DEF Contract!Close, Contract!Sends
<1> QED
  BY <1>5, <1>7 DEF Contract!Next

LEMMA SucceedsRefines ==
  ASSUME Inv, ContractInv, att.phase \notin {"off", "over"}, Succeeds, req' = req
  PROVE  ContractInv' /\ [Contract!Next]_(Contract!vars)
<1>1. /\ At("attempt") /\ Asked # Nobody /\ ~res.ended /\ ~res.error /\ ~res.gone
      /\ Answer = IF res.head = "none" THEN "nothing" ELSE IF res.end THEN "whole" ELSE "part"
      /\ res.head \in {"none", "stream"} /\ res \in Responses /\ req.record = "none"
  BY ContractState, AttemptFields DEF Succeeds, Inv
<1>2. att'.phase = "over" /\ att'.outcome.kind = "ok" /\ ~att'.outcome.started
  BY OverFields DEF Inv, Succeeds
<1>3. /\ \/ res.head = "none" /\ res'.head \in {"json", "pieced"}
         \/ res.head = "stream" /\ res'.head = "stream" /\ res.end /\ res'.end
      /\ ~res'.error /\ res'.ended = TRUE /\ res'.gone = res.gone
  BY <1>1 DEF Succeeds, Responses
<1>4. ContractInv'
  BY <1>1, <1>2, <1>3 DEF ContractInv, GoneIsNoticed, OpenBetween, ClosedInStep, EmptyIsFresh,
     OutcomeTells, At
<1>5. /\ Asked' = Nobody
      /\ IF res.head = "none" THEN Answer' \in {"reply", "pieced"} ELSE Answer' = "whole"
  BY <1>2, <1>3 DEF Asked, Answer
<1>6. Contract!Close
  BY <1>1, <1>3, <1>5 DEF Contract!Close, Contract!Sends
<1> QED
  BY <1>4, <1>6 DEF Contract!Next

LEMMA ClientCloseRefines ==
  ASSUME Inv, ContractInv, Waits, ClientClose, req' = req
  PROVE  ContractInv' /\ [Contract!Next]_(Contract!vars)
<1>1. /\ res' = [res EXCEPT !.gone = TRUE] /\ ~res.gone /\ ~res.ended /\ res \in Responses
      /\ att.phase # "over"
  BY AttemptFields DEF ClientClose, Inv
<1>2. /\ res'.gone = TRUE /\ res'.head = res.head /\ res'.end = res.end /\ res'.error = res.error
      /\ res'.ended = res.ended
  BY <1>1 DEF Responses
<1>3. res.head # "json" /\ ~res.error /\ req.pc # "empty"
  BY <1>1 DEF ContractInv, ClosedInStep, Waits, At
<1>4. Answer' = Answer
  BY <1>2, <1>3 DEF Answer
<1>5. CASE Awaiting \/ att.phase = "draining"
  <2>1. Over("client_abort", FALSE, headersSent)
    BY <1>5 DEF ClientClose
  <2>2. att'.phase = "over" /\ att'.outcome.kind = "client_abort" /\ att'.outcome.started = headersSent
    BY <2>1, OverFields DEF Inv
  <2>3. ContractInv'
    BY <1>1, <1>2, <1>3, <2>2 DEF ContractInv, GoneIsNoticed, OpenBetween, ClosedInStep, EmptyIsFresh,
       OutcomeTells, At, headersSent
  <2>4. Asked' = Nobody
    BY <2>2 DEF Asked
  <2>5. Contract!Leave
    BY <1>1, <1>2, <1>4, <2>4 DEF Contract!Leave
  <2> QED
    BY <2>3, <2>5 DEF Contract!Next
<1>6. CASE ~(Awaiting \/ att.phase = "draining")
  <2>1. att' = att
    BY <1>6 DEF ClientClose
  <2>2. att.phase \in {"off", "queued"}
    BY <1>1, <1>6, AttemptFields DEF ClientClose, Awaiting, Inv, AttemptStates
  <2>3. ContractInv'
    BY <1>1, <1>2, <1>3, <2>1, <2>2 DEF ContractInv, GoneIsNoticed, OpenBetween, ClosedInStep,
       EmptyIsFresh, OutcomeTells, At
  <2>4. Asked' = Asked
    BY <2>1 DEF Asked
  <2>5. Contract!Leave
    BY <1>1, <1>2, <1>4, <2>4 DEF Contract!Leave
  <2> QED
    BY <2>3, <2>5 DEF Contract!Next
<1> QED
  BY <1>5, <1>6

LEMMA OthersRefine ==
  ASSUME Inv, ContractInv, Waits, Others, req' = req
  PROVE  ContractInv' /\ [Contract!Next]_(Contract!vars)
<1>1. CASE ClientClose
  BY <1>1, ClientCloseRefines
<1>2. CASE ~ClientClose
  <2>1. att.phase \notin {"off", "over"} /\ Advances
    BY <1>2, AttemptAdvances DEF Inv, ContractInv
  <2> QED
    BY <2>1, ProceedsRefines, FailsRefines, BreaksOffRefines, SucceedsRefines DEF Advances
<1> QED
  BY <1>1, <1>2

\* the loop goes on, and neither the client nor the record sees it
LEMMA QuietRefines ==
  ASSUME Inv, ContractInv, ~At("attempt"), ~At("done"), UNCHANGED <<res, att>>,
         req'.record = req.record, req'.pc \notin {"attempt", "empty"}
  PROVE  ContractInv' /\ [Contract!Next]_(Contract!vars)
<1>1. att = Off /\ att' = att /\ res' = res
  BY DEF Inv, LoopInv, AttemptInStep
<1>2. Asked' = Asked /\ Answer' = Answer
  BY <1>1 DEF Asked, Answer, Off
<1>3. ContractInv'
  BY <1>1 DEF ContractInv, GoneIsNoticed, OpenBetween, ClosedInStep, EmptyIsFresh, OutcomeTells,
     At, Off
<1> QED
  BY <1>1, <1>2, <1>3 DEF Contract!vars

LEMMA QuietSteps ==
  ASSUME Inv, PickChannel \/ Inject \/ PauseInChannel \/ EndOfRound \/ NextRound
  PROVE  /\ ~At("attempt") /\ ~At("done") /\ UNCHANGED <<res, att>>
         /\ req'.record = req.record /\ req'.pc \notin {"attempt", "empty"}
<1>1. req \in Requests
  BY RequestFields DEF Inv
<1>2. CASE PickChannel
  <2>1. /\ At("pick") /\ UNCHANGED <<res, att>>
        /\ \/ req' = [req EXCEPT !.next = @ + 1]
           \/ req' = [req EXCEPT !.next = @ + 1, !.pc = "try", !.channel = req.cands[req.next],
                                 !.a = 0, !.downgraded = FALSE]
    BY <1>2 DEF PickChannel
  <2>2. ASSUME req' = [req EXCEPT !.next = @ + 1] PROVE req'.record = req.record /\ req'.pc = req.pc
    BY <1>1, <2>2 DEF Requests
  <2>3. ASSUME NEW c, req' = [req EXCEPT !.next = @ + 1, !.pc = "try", !.channel = c, !.a = 0,
                                         !.downgraded = FALSE]
        PROVE  req'.record = req.record /\ req'.pc = "try"
    BY <1>1, <2>3 DEF Requests
  <2> QED
    BY <2>1, <2>2, <2>3 DEF At
<1>3. CASE Inject
  <2>1. At("pick") /\ UNCHANGED <<res, att>>
    BY <1>3 DEF Inject
  <2>2. PICK rest : req' = [req EXCEPT !.injected = TRUE, !.cands = @ \o rest]
    BY <1>3 DEF Inject
  <2> QED
    BY <1>1, <2>1, <2>2 DEF Requests, At
<1>4. CASE PauseInChannel
  <2>1. At("pause") /\ UNCHANGED <<res, att>> /\ req' = AfterPause("try")
    BY <1>4 DEF PauseInChannel
  <2>2. req'.pc \in {"try", "stop"} /\ req'.record = req.record
    BY <2>1, AfterPauseFacts
  <2> QED
    BY <2>1, <2>2 DEF At
<1>5. CASE EndOfRound
  <2>1. /\ At("pick") /\ UNCHANGED <<res, att>>
        /\ \/ req' = [req EXCEPT !.pc = "stop"]
           \/ req' = [req EXCEPT !.pc = "stop", !.exhausted = TRUE]
           \/ req' = [req EXCEPT !.pc = "between", !.injected = TRUE]
    BY <1>5 DEF EndOfRound
  <2>2. ASSUME req' = [req EXCEPT !.pc = "stop"] \/ req' = [req EXCEPT !.pc = "stop", !.exhausted = TRUE]
        PROVE  req'.record = req.record /\ req'.pc = "stop"
    BY <1>1, <2>2 DEF Requests
  <2>3. ASSUME req' = [req EXCEPT !.pc = "between", !.injected = TRUE]
        PROVE  req'.record = req.record /\ req'.pc = "between"
    BY <1>1, <2>3 DEF Requests
  <2> QED
    BY <2>1, <2>2, <2>3 DEF At
<1>6. CASE NextRound
  <2> DEFINE after == AfterPause("pick")
  <2>1. At("between") /\ UNCHANGED <<res, att>>
    BY <1>6 DEF NextRound
  <2>2. after \in Requests /\ after.pc \in {"pick", "stop"} /\ after.record = req.record
    BY AfterPauseFacts
  <2>3. PICK cands : req' = [after EXCEPT !.cands = cands, !.next = 1, !.sentAny = FALSE,
                               !.nonRetryable = FALSE, !.tries = [c \in Channels |-> 0]]
    BY <1>6 DEF NextRound
  <2> HIDE DEF after
  <2>4. req'.pc = after.pc /\ req'.record = after.record
    BY <2>2, <2>3 DEF Requests
  <2> QED
    BY <2>1, <2>2, <2>4 DEF At
<1> QED
  BY <1>2, <1>3, <1>4, <1>5, <1>6

LEMMA TryRefines ==
  ASSUME Inv, ContractInv, Try
  PROVE  ContractInv' /\ [Contract!Next]_(Contract!vars)
<1>1. At("try") /\ res' = res /\ req \in Requests
  BY RequestFields DEF Try, Inv
<1>2. att = Off /\ req.record = "none" /\ req.channel \in Channels
  BY <1>1, BetweenAttempts DEF At, Inv, LoopInv, NotDead
<1>3. CASE req.a = Attempts \/ Closed \/ late
  <2>1. /\ att' = att
        /\ \/ req' = [req EXCEPT !.pc = "pick"]
           \/ req' = [req EXCEPT !.pc = "stop"]
           \/ req' = [req EXCEPT !.pc = "stop", !.exhausted = TRUE]
    BY <1>3 DEF Try
  <2>2. req'.record = req.record /\ req'.pc \in {"pick", "stop"}
    BY <1>1, <2>1 DEF Requests
  <2> QED
    BY <1>1, <2>1, <2>2, QuietRefines DEF At
<1>4. CASE ~(req.a = Attempts \/ Closed \/ late)
  <2>1. /\ att' = [Off EXCEPT !.phase = "queued", !.channel = req.channel]
        /\ req' = [req EXCEPT !.pc = "attempt", !.a = @ + 1, !.sentAny = TRUE,
                              !.tries[req.channel] = @ + 1]
    BY <1>4 DEF Try
  <2>2. /\ att'.phase = "queued" /\ att'.outcome = att.outcome
        /\ req'.pc = "attempt" /\ req'.record = req.record /\ req'.channel = req.channel
    BY <1>1, <1>2, <2>1 DEF Off, Requests
  <2>3. res.head = "none" /\ ~res.gone
    BY <1>1, <1>4, BetweenAttempts DEF At, Closed
  <2>4. /\ Asked = Nobody /\ Asked' = req.channel
        /\ Answer = "nothing" /\ Answer' = "nothing"
    BY <1>1, <1>2, <2>2, <2>3 DEF Asked, Answer, Off
  <2>5. Contract!Ask(req.channel)
    BY <1>1, <1>2, <2>2, <2>3, <2>4 DEF Contract!Ask
  <2>6. ContractInv'
    BY <1>1, <2>2 DEF ContractInv, GoneIsNoticed, OpenBetween, ClosedInStep, EmptyIsFresh,
       OutcomeTells, At
  <2> QED
    BY <1>2, <2>5, <2>6 DEF Contract!Next
<1> QED
  BY <1>3, <1>4

LEMMA SettleRefines ==
  ASSUME Inv, ContractInv, Settle
  PROVE  ContractInv' /\ [Contract!Next]_(Contract!vars)
<1> DEFINE o == att.outcome
<1>1. /\ At("attempt") /\ att.phase = "over" /\ att' = Off /\ res' = res
      /\ req \in Requests /\ res \in Responses
  BY RequestFields, AttemptFields DEF Settle, Inv
<1>2. req.record = "none" /\ o.kind # "none"
  BY <1>1 DEF Inv, LoopInv, RecordInStep, At, AttemptInv, OutcomeTrue
<1>3. /\ o.kind = "ok" => Complete
      /\ o.started => o.kind \notin {"ok", "effort", "auth"}
      /\ res.ended => o.kind = "ok" \/ o.started
      /\ o.started => res.head = "stream" /\ (res.ended <=> o.kind # "client_abort")
      /\ o.kind = "client_abort" => ~res.ended /\ (res.gone \/ res.head = "stream")
  BY <1>1 DEF Inv, AttemptInv, OutcomeTrue, ContractInv, OutcomeTells
<1>4. Asked = Nobody /\ Asked' = Nobody
  BY <1>1 DEF Asked, Off
<1>5. att'.outcome.kind = "none"
  BY <1>1 DEF Off, NoOutcome
<1>6. res.head \in {"json", "pieced"} \/ res.error => res.ended
  BY DEF ContractInv, ClosedInStep
<1>7. ASSUME req'.pc \notin {"empty", "attempt"}, req'.pc # "done" => ~res.ended
      PROVE  ContractInv'
  BY <1>1, <1>6, <1>7 DEF ContractInv, GoneIsNoticed, OpenBetween, ClosedInStep, EmptyIsFresh,
     OutcomeTells, At, Off
<1>8. CASE o.kind = "ok"
  <2>1. req' = [req EXCEPT !.pc = "done", !.record = "ok"]
    <3>1. req' = Done("ok")
      BY <1>3, <1>8 DEF Settle, HasStarted
    <3> QED
      BY <1>2, <3>1 DEF Done, Recorded
  <2>2. req'.pc = "done" /\ req'.record = "ok"
    BY <1>1, <2>1 DEF Requests
  <2>3. res.ended /\ ~res.error /\ (res.head = "stream" => res.end)
        /\ res.head \in {"stream", "json", "pieced"}
    BY <1>1, <1>3, <1>8 DEF Complete, Responses, Inv, AttemptInv, Untouched
  <2>4. Answer \in {"whole", "reply", "pieced"} /\ Answer' = Answer
    BY <1>1, <1>8, <2>2, <2>3 DEF Answer
  <2>5. Contract!Succeed
    BY <1>1, <1>2, <1>4, <2>2, <2>3, <2>4 DEF Contract!Succeed
  <2> QED
    BY <1>7, <2>2, <2>5 DEF Contract!Next
<1>9. CASE o.kind = "client_abort"
  <2>1. req' = [req EXCEPT !.pc = "stop", !.record = "client_abort"]
    BY <1>2, <1>9 DEF Settle, Recorded
  <2>2. req'.pc = "stop" /\ req'.record = "client_abort"
    BY <1>1, <2>1 DEF Requests
  <2>3. ~res.ended /\ ~res.error /\ (res.gone \/ res.head = "stream") /\ res.head \in {"none", "stream"}
    BY <1>1, <1>3, <1>6, <1>9 DEF Responses
  <2>4. Answer' = Answer /\ (res.gone \/ Answer \in {"part", "whole"})
    BY <1>1, <2>3 DEF Answer
  <2>5. Contract!Lose
    BY <1>1, <1>2, <1>4, <2>2, <2>3, <2>4 DEF Contract!Lose
  <2> QED
    BY <1>7, <2>2, <2>3, <2>5 DEF Contract!Next
<1>10. CASE o.kind \notin {"ok", "client_abort"} /\ o.started
  <2>1. req' = [req EXCEPT !.pc = "done", !.record = "failed"]
    BY <1>2, <1>3, <1>10 DEF Settle, HasStarted, Done, Recorded
  <2>2. req'.pc = "done" /\ req'.record = "failed"
    BY <1>1, <2>1 DEF Requests
  <2>3. res.head = "stream" /\ res.ended
    BY <1>3, <1>10
  <2>4. ~(res.error /\ res.end)
    BY DEF Inv, AttemptInv, ErrorIsNotAnEnd
  <2>5. Answer \in {"part", "whole", "broken"} /\ Answer' = Answer
    BY <1>1, <2>3, <2>4 DEF Answer
  <2>6. Contract!BreakDown
    BY <1>1, <1>2, <1>4, <2>2, <2>3, <2>5 DEF Contract!BreakDown
  <2> QED
    BY <1>7, <2>2, <2>6 DEF Contract!Next
<1>11. CASE o.kind \notin {"ok", "client_abort"} /\ ~o.started
  <2>1. \/ req' = [req EXCEPT !.pc = "try", !.downgraded = TRUE, !.a = @ - 1]
        \/ req' = [req EXCEPT !.pc = "pick", !.dead = @ \cup {req.channel}]
        \/ req' = [req EXCEPT !.pc = "pause"]
        \/ req' = [req EXCEPT !.pc = "pick", !.nonRetryable = @ \/ o.kind \in {"bad_request", "effort"}]
    BY <1>11 DEF Settle, HasStarted
  <2>2. req'.pc \in {"try", "pick", "pause"} /\ req'.record = req.record
    BY <1>1, <2>1 DEF Requests
  <2>3. ~res.ended /\ res.head # "json"
    BY <1>3, <1>6, <1>11
  <2>4. Answer' = Answer
    BY <1>1, <2>3 DEF Answer
  <2>5. UNCHANGED Contract!vars
    BY <1>1, <1>4, <2>2, <2>4 DEF Contract!vars
  <2> QED
    BY <1>7, <2>2, <2>3, <2>5
<1> QED
  BY <1>8, <1>9, <1>10, <1>11

\* the last record and the last answer
LEMMA GiveUpRefines ==
  ASSUME Inv, ContractInv, att = Off, att' = att, ~res.ended, res \in Responses,
         req.record \in {"none", "client_abort"},
         req'.pc = "done",
         req'.record \in IF req.record # "none" THEN {req.record}
                         ELSE IF res.gone THEN {"client_abort"} ELSE {"failed", "total_deadline"},
         IF res.gone THEN res' = res
                     ELSE res' = [res EXCEPT !.head = IF @ = "none" THEN "json" ELSE @, !.ended = TRUE]
  PROVE  ContractInv' /\ [Contract!Next]_(Contract!vars)
<1>1. res.head \in {"none", "stream"} /\ ~res.error
  BY DEF ContractInv, ClosedInStep, Responses
<1>2. att.phase = "off" /\ att.outcome.kind = "none"
  BY DEF Off, NoOutcome
<1>3. Asked = Nobody /\ Asked' = Nobody
  BY <1>2 DEF Asked
<1>4. req'.record # "ok" /\ req'.record # "none"
  OBVIOUS
<1>5. CASE res.gone
  <2>1. Answer' = Answer
    BY <1>1, <1>5 DEF Answer
  <2>2. Contract!GiveUp
    BY <1>3, <1>5, <2>1 DEF Contract!GiveUp
  <2>3. ContractInv'
    BY <1>1, <1>2, <1>5 DEF ContractInv, GoneIsNoticed, OpenBetween, ClosedInStep, EmptyIsFresh,
       OutcomeTells, At
  <2> QED
    BY <2>2, <2>3 DEF Contract!Next
<1>6. CASE ~res.gone
  <2>1. /\ res'.head = (IF res.head = "none" THEN "json" ELSE res.head) /\ res'.ended = TRUE
        /\ res'.end = res.end /\ res'.error = res.error /\ res'.gone = res.gone
    BY <1>6 DEF Responses
  <2>2. Answer' = IF Answer = "nothing" THEN "refusal" ELSE Answer
    BY <1>1, <1>2, <1>4, <2>1 DEF Answer
  <2>3. Contract!GiveUp
    BY <1>3, <1>6, <2>1, <2>2 DEF Contract!GiveUp
  <2>4. ContractInv'
    BY <1>1, <1>2, <1>6, <2>1 DEF ContractInv, GoneIsNoticed, OpenBetween, ClosedInStep, EmptyIsFresh,
       OutcomeTells, At
  <2> QED
    BY <2>3, <2>4 DEF Contract!Next
<1> QED
  BY <1>5, <1>6

LEMMA NoCandidatesRefines ==
  ASSUME Inv, ContractInv, NoCandidates
  PROVE  ContractInv' /\ [Contract!Next]_(Contract!vars)
<1>1. At("empty") /\ att' = att /\ req \in Requests /\ res \in Responses
  BY RequestFields, AttemptFields DEF NoCandidates, Inv
<1>2. att = Off /\ req.record = "none" /\ res.head = "none" /\ ~res.gone /\ ~res.ended
  BY <1>1, BetweenAttempts DEF At, ContractInv, EmptyIsFresh, OpenBetween
<1>3. req'.pc = "done" /\ req'.record = "failed"
  BY <1>1, <1>2 DEF NoCandidates, Recorded, Requests
<1>4. res' = [res EXCEPT !.head = "json", !.ended = TRUE]
  BY <1>2 DEF NoCandidates, Closed
<1> QED
  BY <1>1, <1>2, <1>3, <1>4, GiveUpRefines

LEMMA StopRefines ==
  ASSUME Inv, ContractInv, Stop
  PROVE  ContractInv' /\ [Contract!Next]_(Contract!vars)
<1>1. At("stop") /\ att' = att /\ req \in Requests /\ res \in Responses
  BY RequestFields, AttemptFields DEF Stop, Inv
<1>2. att = Off /\ req.record \in {"none", "client_abort"} /\ ~res.ended
  BY <1>1 DEF Inv, LoopInv, AttemptInStep, RecordInStep, At, ContractInv, OpenBetween
<1>3. Closed <=> res.gone
  BY <1>2 DEF Closed
<1>4. /\ req'.pc = "done"
      /\ req'.record \in IF req.record # "none" THEN {req.record}
                         ELSE IF res.gone THEN {"client_abort"} ELSE {"failed", "total_deadline"}
  BY <1>1, <1>3 DEF Stop, LastRecord, Done, Recorded, Requests
<1>5. IF res.gone THEN res' = res
                  ELSE res' = [res EXCEPT !.head = IF @ = "none" THEN "json" ELSE @, !.ended = TRUE]
  <2>1. res.head # "none" => [res EXCEPT !.ended = TRUE] = [res EXCEPT !.head = res.head, !.ended = TRUE]
    BY <1>1 DEF Responses
  <2> QED
    BY <1>1, <1>3, <2>1 DEF Stop, LastAnswer, Caught
<1> QED
  BY <1>1, <1>2, <1>4, <1>5, GiveUpRefines

\* every step keeps the contract, or is invisible to it
LEMMA StepRefines ==
  ASSUME Inv, ContractInv, [Next]_vars
  PROVE  ContractInv' /\ [Contract!Next]_(Contract!vars)
<1>1. CASE Route
  <2>1. CASE PickChannel \/ Inject \/ PauseInChannel \/ EndOfRound \/ NextRound
    BY <2>1, QuietSteps, QuietRefines
  <2> QED
    BY <1>1, <2>1, NoCandidatesRefines, TryRefines, SettleRefines, StopRefines DEF Route
<1>2. CASE Waits /\ Others /\ UNCHANGED req
  BY <1>2, OthersRefine
<1>3. CASE UNCHANGED <<res, att, req>>
  <2>1. Asked' = Asked /\ Answer' = Answer
    BY <1>3 DEF Asked, Answer
  <2>2. ContractInv'
    BY <1>3 DEF ContractInv, GoneIsNoticed, OpenBetween, ClosedInStep, EmptyIsFresh, OutcomeTells, At
  <2> QED
    BY <1>3, <2>1, <2>2 DEF Contract!vars
<1> QED
  BY <1>1, <1>2, <1>3 DEF Next, Others, Finished, DeadlinePasses, vars

LEMMA InitRefines == Init => ContractInv /\ Contract!Init
<1> SUFFICES ASSUME Init PROVE ContractInv /\ Contract!Init
  OBVIOUS
<1>1. PICK stream \in BOOLEAN : res = Response(stream)
  BY DEF Init
<1>2. PICK cands \in Orders({}) : req = Fresh(cands)
  BY DEF Init
<1>3. att.phase = "off"
  BY DEF Init, Off
<1>4. res.head = "none" /\ ~res.error /\ res.ended = FALSE /\ res.gone = FALSE
  BY <1>1 DEF Response
<1>5. req.record = "none"
  BY <1>2 DEF Fresh
<1>6. Asked = Nobody /\ Answer = "nothing"
  BY <1>3, <1>4 DEF Asked, Answer
<1>7. ContractInv
  BY <1>3, <1>4 DEF ContractInv, GoneIsNoticed, OpenBetween, ClosedInStep, EmptyIsFresh, OutcomeTells
<1> QED
  BY <1>4, <1>5, <1>6, <1>7 DEF Contract!Init

(* The routing loop, the attempts, the buffers, the drains and the timers  *)
(* of handleChatCompletions() together keep AnswerContract: one channel is *)
(* asked at a time and nobody any more once a byte is out or the client    *)
(* has left, and the record says what the client got.                      *)
THEOREM RequestKeepsContract == Spec => RefinesAnswerContract
<1>1. Inv /\ ContractInv /\ [Next]_vars => ContractInv' /\ [Contract!Next]_(Contract!vars)
  BY StepRefines
<1> QED
  BY <1>1, InitRefines, RequestSafe, PTL DEF Spec, RefinesAnswerContract, Contract!Spec

=============================================================================
