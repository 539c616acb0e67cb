-------------------------- MODULE EmbeddingsProofs --------------------------
(***************************************************************************)
(* Proofs about Embeddings.tla and OutboundProxy.tla, for any set of       *)
(* requests and channels, any number of slots and of redirects.            *)
(***************************************************************************)
EXTENDS Embeddings, TLAPS

(* What every exchange keeps true of itself, given whether its request has *)
(* been aborted: the socket lags behind an abort only while no event can   *)
(* come, and what ends is what has an outcome.                             *)
Fit(e, gone) ==
  /\ e.stage = "over" <=> e.outcome # "none"
  /\ e.stage \in {"off", "fetch"} => e.socket = "none"
  /\ e.outcome \in {"network", "abort"} => e.socket # "open"
  /\ gone => /\ e.socket # "open" \/ e.stage = "connected"
             /\ ~e.left
             /\ e.stage \notin {"asked", "fetch"}

Sound(e, gone) == e \in Exchange /\ Fit(e, gone)

Busy(r) == pc[r] \in {"queue", "call"}

\* the exchanges and the signal
Exchanged ==
  /\ aborted \in [Requests -> SUBSET {"client", "timer"}]
  /\ x \in [Requests -> Exchange]
  /\ \A r \in Requests : Sound(x[r], Aborted(r))

\* the handler: who has a slot or waits for one has a candidate
Queued ==
  /\ pc \in [Requests -> {"new", "pick", "queue", "call", "over"}]
  /\ held = {r \in Requests : pc[r] = "call"}
  /\ rest \in [Requests -> Seq(Channels)]
  /\ \A r \in Requests : Busy(r) => rest[r] # <<>>

\* what is noted and answered
Told ==
  /\ lastErr \in [Requests -> Failures \cup {"none", "overload", "client"}]
  /\ answer \in [Requests -> {"none", "200", "400", "503", "nothing"}]

Inv == Exchanged /\ Queued /\ Told

Sockets == {"none", "open", "closed"}
Framings == {"length", "chunked", "close"}
Statuses == {"ok", "failed", "redirect"}
Bodies == {"open", "complete", "cut", "broken", "aborted", "unheard"}
Outcomes == {"none", "ok", "failed", "network", "abort"}

-----------------------------------------------------------------------------
(* The operators of OutboundProxy.                                         *)

\* a field that is set within its type leaves an exchange
LEMMA Setters ==
  /\ \A e \in Exchange : \A v \in Stages : [e EXCEPT !.stage = v] \in Exchange
  /\ \A e \in Exchange : \A v \in Sockets : [e EXCEPT !.socket = v] \in Exchange
  /\ \A e \in Exchange : \A v \in Bodies : [e EXCEPT !.body = v] \in Exchange
  /\ \A e \in Exchange : \A v \in Outcomes : [e EXCEPT !.outcome = v] \in Exchange
  /\ \A e \in Exchange : \A v \in Framings : [e EXCEPT !.framing = v] \in Exchange
  /\ \A e \in Exchange : \A v \in Statuses : [e EXCEPT !.status = v] \in Exchange
  /\ \A e \in Exchange : \A v \in BOOLEAN : [e EXCEPT !.left = v] \in Exchange
  /\ \A e \in Exchange : \A v \in BOOLEAN : [e EXCEPT !.secure = v] \in Exchange
  /\ \A e \in Exchange : \A v \in BOOLEAN : [e EXCEPT !.encoded = v] \in Exchange
  /\ \A e \in Exchange : \A v \in 0 .. MAX_REDIRECTS : [e EXCEPT !.hop = v] \in Exchange
<1>1. \A e \in Exchange : \A v \in Stages : [e EXCEPT !.stage = v] \in Exchange
  BY DEF Exchange
<1>2. \A e \in Exchange : \A v \in Sockets : [e EXCEPT !.socket = v] \in Exchange
  BY DEF Exchange, Sockets
<1>3. \A e \in Exchange : \A v \in Bodies : [e EXCEPT !.body = v] \in Exchange
  BY DEF Exchange, Bodies
<1>4. \A e \in Exchange : \A v \in Outcomes : [e EXCEPT !.outcome = v] \in Exchange
  BY DEF Exchange, Outcomes
<1>5. \A e \in Exchange : \A v \in Framings : [e EXCEPT !.framing = v] \in Exchange
  BY DEF Exchange, Framings
<1>6. \A e \in Exchange : \A v \in Statuses : [e EXCEPT !.status = v] \in Exchange
  BY DEF Exchange, Statuses
<1>7. \A e \in Exchange : \A v \in BOOLEAN : [e EXCEPT !.left = v] \in Exchange
  BY DEF Exchange
<1>8. \A e \in Exchange : \A v \in BOOLEAN : [e EXCEPT !.secure = v] \in Exchange
  BY DEF Exchange
<1>9. \A e \in Exchange : \A v \in BOOLEAN : [e EXCEPT !.encoded = v] \in Exchange
  BY DEF Exchange
<1>10. \A e \in Exchange : \A v \in 0 .. MAX_REDIRECTS : [e EXCEPT !.hop = v] \in Exchange
  BY DEF Exchange
<1> QED
  BY <1>1, <1>2, <1>3, <1>4, <1>5, <1>6, <1>7, <1>8, <1>9, <1>10

\* a new exchange, which knows only what an earlier one has left open
LEMMA OffSound ==
  ASSUME NEW left \in BOOLEAN, NEW secure \in BOOLEAN, NEW gone \in BOOLEAN, gone => ~left,
         NEW e, e = [Off EXCEPT !.left = left, !.secure = secure]
  PROVE  Sound(e, gone) /\ e.outcome = "none" /\ e.socket = "none" /\ e.left = left
         /\ Sound([Off EXCEPT !.left = left], gone)
<1>1. Off \in Exchange
  BY RedirectAssumption DEF Off, Exchange, Stages
<1>2. e \in Exchange
  BY <1>1, Setters
<1>3. e.stage = "off" /\ e.outcome = "none" /\ e.socket = "none" /\ e.left = left
  BY DEF Off
<1>4. [Off EXCEPT !.left = left] \in Exchange
  BY <1>1, Setters
<1>5. /\ [Off EXCEPT !.left = left].stage = "off" /\ [Off EXCEPT !.left = left].socket = "none"
      /\ [Off EXCEPT !.left = left].outcome = "none" /\ [Off EXCEPT !.left = left].left = left
  BY DEF Off
<1> QED
  BY <1>2, <1>3, <1>4, <1>5 DEF Sound, Fit

\* a call that fails has no socket left
LEMMA RejectedSound ==
  ASSUME NEW e \in Exchange, NEW kind \in {"network", "abort"}, NEW gone \in BOOLEAN,
         gone => ~e.left
  PROVE  Sound(Rejected(e, kind), gone)
<1>1. Rejected(e, kind) \in Exchange
  BY Setters DEF Rejected, Stages, Sockets, Outcomes
<1>2. /\ Rejected(e, kind).stage = "over" /\ Rejected(e, kind).socket = "closed"
      /\ Rejected(e, kind).outcome = kind /\ Rejected(e, kind).left = e.left
  BY DEF Rejected, Exchange
<1> QED
  BY <1>1, <1>2 DEF Sound, Fit

\* dialling starts from no socket, or from none that is open
LEMMA DialledSound ==
  ASSUME NEW r, NEW e \in Exchange, e.outcome = "none", e.socket # "open",
         Aborted(r) => ~e.left
  PROVE  Sound(Dialled(r, e), Aborted(r))
<1>1. CASE Aborted(r)
  <2> DEFINE d == [e EXCEPT !.stage = "over", !.outcome = "abort"]
  <2>1. d \in Exchange
    BY Setters DEF Stages, Outcomes
  <2>2. d.stage = "over" /\ d.outcome = "abort" /\ d.socket = e.socket /\ d.left = e.left
    BY DEF Exchange
  <2>3. Dialled(r, e) = d
    BY <1>1 DEF Dialled
  <2> QED
    BY <1>1, <2>1, <2>2, <2>3 DEF Sound, Fit
<1>2. CASE ~Aborted(r)
  <2> DEFINE d == [e EXCEPT !.stage = "connecting", !.socket = "open"]
  <2>1. d \in Exchange
    BY Setters DEF Stages, Sockets
  <2>2. d.stage = "connecting" /\ d.outcome = "none"
    BY DEF Exchange
  <2>3. Dialled(r, e) = d
    BY <1>2 DEF Dialled
  <2> QED
    BY <1>2, <2>1, <2>2, <2>3 DEF Sound, Fit
<1> QED
  BY <1>1, <1>2

\* the listeners close whatever socket there is
LEMMA HeardCloses ==
  ASSUME NEW e, Sound(e, FALSE), e.stage # "over"
  PROVE  /\ Heard(e) \in Exchange
         /\ Fit(Heard(e), FALSE)
         /\ Heard(e).socket # "open" \/ Heard(e).stage = "connected"
         /\ Heard(e).stage \notin {"asked", "fetch"}
<1>1. e \in Exchange /\ Fit(e, FALSE)
  BY DEF Sound
<1>2. CASE e.stage \in {"connecting", "tls", "fetch", "asked"}
  <2>1. Heard(e) = Rejected(e, "abort")
    BY <1>2 DEF Heard
  <2>2. Sound(Rejected(e, "abort"), FALSE)
    BY <1>1, RejectedSound
  <2>3. Rejected(e, "abort").stage = "over" /\ Rejected(e, "abort").socket = "closed"
    BY <1>1 DEF Rejected, Exchange
  <2> QED
    BY <2>1, <2>2, <2>3 DEF Sound
<1>3. CASE e.stage \in {"connect", "ready"} \/ (e.stage = "reading" /\ e.body # "open" /\ e.socket = "open")
  <2> DEFINE d == [e EXCEPT !.socket = "closed"]
  <2>1. d \in Exchange
    BY <1>1, Setters DEF Sockets
  <2>2. d.stage = e.stage /\ d.outcome = e.outcome /\ d.socket = "closed" /\ d.left = e.left
    BY <1>1 DEF Exchange
  <2>3. Heard(e) = d
    BY <1>3 DEF Heard
  <2> QED
    BY <1>1, <1>3, <2>1, <2>2, <2>3 DEF Fit
<1>4. CASE e.stage = "reading" /\ e.body = "open"
  <2> DEFINE d == [e EXCEPT !.socket = "closed", !.body = "aborted"]
  <2>1. d \in Exchange
    BY <1>1, Setters DEF Sockets, Bodies
  <2>2. d.stage = e.stage /\ d.outcome = e.outcome /\ d.socket = "closed" /\ d.left = e.left
    BY <1>1 DEF Exchange
  <2>3. Heard(e) = d
    BY <1>4 DEF Heard
  <2> QED
    BY <1>1, <1>4, <2>1, <2>2, <2>3 DEF Fit
<1>5. CASE \/ e.stage \in {"off", "connected"}
           \/ e.stage = "reading" /\ e.body # "open" /\ e.socket # "open"
  <2>1. Heard(e) = e
    BY <1>5 DEF Heard
  <2> QED
    BY <1>1, <1>5, <2>1 DEF Fit
<1> QED
  BY <1>1, <1>2, <1>3, <1>4, <1>5 DEF Exchange, Stages

LEMMA InterruptedSound ==
  ASSUME NEW e, Sound(e, FALSE), e.stage # "over"
  PROVE  Sound(Interrupted(e), TRUE)
<1> DEFINE h == Heard(e)
<1>1. /\ h \in Exchange /\ Fit(h, FALSE)
      /\ h.socket # "open" \/ h.stage = "connected"
      /\ h.stage \notin {"asked", "fetch"}
  BY HeardCloses
<1> HIDE DEF h
<1>2. [h EXCEPT !.left = FALSE] \in Exchange
  BY <1>1, Setters
<1>3. /\ [h EXCEPT !.left = FALSE].stage = h.stage
      /\ [h EXCEPT !.left = FALSE].socket = h.socket
      /\ [h EXCEPT !.left = FALSE].outcome = h.outcome
      /\ [h EXCEPT !.left = FALSE].left = FALSE
  BY <1>1 DEF Exchange
<1>4. Sound([h EXCEPT !.left = FALSE], TRUE)
  BY <1>1, <1>2, <1>3 DEF Sound, Fit
<1> QED
  BY <1>4 DEF Interrupted, h

\* what the end of an answer leaves behind
LEMMA PastSound ==
  ASSUME NEW r, NEW e, Sound(e, Aborted(r)), e.stage = "reading"
  PROVE  /\ Past(e) \in Exchange
         /\ Past(e).socket = "none" /\ Past(e).outcome = "none" /\ Past(e).stage = e.stage
         /\ Aborted(r) => ~Past(e).left
<1>1. e \in Exchange /\ Fit(e, Aborted(r))
  BY DEF Sound
<1>2. (e.left \/ Kept(e)) \in BOOLEAN
  BY <1>1 DEF Exchange, Kept
<1>3. Past(e) \in Exchange
  BY <1>1, <1>2, Setters DEF Past, Sockets, Bodies
<1>4. /\ Past(e).socket = "none" /\ Past(e).outcome = e.outcome /\ Past(e).stage = e.stage
      /\ Past(e).left = (e.left \/ Kept(e))
  BY <1>1 DEF Past, Exchange
<1> QED
  BY <1>1, <1>3, <1>4 DEF Fit, Kept

\* an answer whose end is the end of the call, without a failure
LEMMA OverSound ==
  ASSUME NEW d \in Exchange, NEW outcome \in Outcomes \ {"none"}, NEW gone \in BOOLEAN,
         d.socket # "open", gone => ~d.left
  PROVE  Sound([d EXCEPT !.stage = "over", !.outcome = outcome], gone)
<1> DEFINE f == [d EXCEPT !.stage = "over", !.outcome = outcome]
<1>1. f \in Exchange
  BY Setters DEF Stages, Outcomes
<1>2. f.stage = "over" /\ f.outcome = outcome /\ f.socket = d.socket /\ f.left = d.left
  BY DEF Exchange
<1> QED
  BY <1>1, <1>2 DEF Sound, Fit

LEMMA AnsweredSound ==
  ASSUME NEW r, NEW e, Sound(e, Aborted(r)), e.stage = "reading"
  PROVE  Sound(Answered(r, e), Aborted(r))
<1> DEFINE p == Past(e)
<1>1. /\ p \in Exchange /\ p.socket = "none" /\ p.outcome = "none"
      /\ Aborted(r) => ~p.left
  BY PastSound
<1>2. e \in Exchange /\ e.hop \in 0 .. MAX_REDIRECTS /\ e.status \in Statuses
  BY DEF Sound, Exchange, Statuses
<1>3. p.hop = e.hop
  BY <1>2 DEF Past, Exchange
<1>4. Aborted(r) \in BOOLEAN
  BY DEF Aborted
<1> HIDE DEF p
<1>5. CASE e.status # "redirect"
  <2>1. Answered(r, e) = [p EXCEPT !.stage = "over", !.outcome = e.status]
    BY <1>5 DEF Answered, p
  <2>2. e.status \in Outcomes \ {"none"}
    BY <1>2, <1>5 DEF Outcomes, Statuses
  <2> QED
    BY <1>1, <1>4, <2>1, <2>2, OverSound
<1>6. CASE e.status = "redirect" /\ e.hop = MAX_REDIRECTS
  <2>1. Answered(r, e) = [p EXCEPT !.stage = "over", !.outcome = "network"]
    BY <1>6 DEF Answered, p
  <2>2. "network" \in Outcomes \ {"none"}
    BY DEF Outcomes
  <2> QED
    BY <1>1, <1>4, <2>1, <2>2, OverSound
<1>7. CASE e.status = "redirect" /\ e.hop # MAX_REDIRECTS
  <2> DEFINE next == [p EXCEPT !.hop = @ + 1]
  <2>1. p.hop + 1 \in 0 .. MAX_REDIRECTS
    BY <1>2, <1>3, <1>7, RedirectAssumption
  <2>2. next \in Exchange
    BY <1>1, <2>1, Setters
  <2>3. next.outcome = p.outcome /\ next.socket = p.socket /\ next.left = p.left
    BY <1>1 DEF Exchange
  <2>4. Answered(r, e) = Dialled(r, next)
    BY <1>7 DEF Answered, p
  <2> HIDE DEF next
  <2> QED
    BY <1>1, <2>2, <2>3, <2>4, DialledSound
<1> QED
  BY <1>5, <1>6, <1>7

\* a piece of the body leaves what it does not concern
LEMMA FedSound ==
  ASSUME NEW e \in Exchange, NEW piece \in {"some", "last", "bad"}
  PROVE  /\ Fed(e, piece) \in Exchange
         /\ Fed(e, piece).stage = e.stage /\ Fed(e, piece).outcome = e.outcome
         /\ Fed(e, piece).left = e.left
         /\ Fed(e, piece).socket = e.socket \/ Fed(e, piece).socket = "closed"
<1>1. CASE piece = "some"
  BY <1>1 DEF Fed
<1>2. CASE piece = "last"
  <2> DEFINE d == [e EXCEPT !.body = "complete", !.framing = "close"]
  <2>1. d \in Exchange
    BY Setters DEF Bodies, Framings
  <2>2. d.stage = e.stage /\ d.outcome = e.outcome /\ d.left = e.left /\ d.socket = e.socket
    BY DEF Exchange
  <2>3. Fed(e, piece) = d
    BY <1>2 DEF Fed, Finished
  <2> QED
    BY <2>1, <2>2, <2>3
<1>3. CASE piece = "bad"
  <2> DEFINE d == [e EXCEPT !.body = "broken", !.framing = "close"]
             f == [d EXCEPT !.socket = "closed"]
  <2>1. d \in Exchange
    BY Setters DEF Bodies, Framings
  <2>2. d.stage = e.stage /\ d.outcome = e.outcome /\ d.left = e.left
    BY DEF Exchange
  <2>3. Fed(e, piece) = f
    BY <1>3 DEF Fed, Finished
  <2> HIDE DEF d
  <2>4. f \in Exchange
    BY <2>1, Setters DEF Sockets
  <2>5. f.stage = d.stage /\ f.outcome = d.outcome /\ f.left = d.left /\ f.socket = "closed"
    BY <2>1 DEF Exchange
  <2> QED
    BY <2>2, <2>3, <2>4, <2>5
<1> QED
  BY <1>1, <1>2, <1>3

(* The head, with its piece of the body.                                   *)
LEMMA HeadSound ==
  ASSUME NEW e \in Exchange, NEW framing \in Framings, NEW encoded \in BOOLEAN,
         NEW status \in Statuses, NEW piece \in {"some", "last", "bad"}, e.outcome = "none",
         NEW d, d = Unheard(Fed([e EXCEPT !.stage = "reading", !.framing = framing,
                                          !.body = "open", !.encoded = encoded,
                                          !.status = status], piece))
  PROVE  Sound(d, FALSE)
<1> DEFINE h == [e EXCEPT !.stage = "reading", !.framing = framing, !.body = "open",
                          !.encoded = encoded, !.status = status]
           f == Fed(h, piece)
<1>1. h \in Exchange
  BY Setters DEF Stages, Bodies
<1>2. h.stage = "reading" /\ h.outcome = "none"
  BY DEF Exchange
<1>3. d = Unheard(f)
  OBVIOUS
<1> HIDE DEF h
<1>4. f \in Exchange /\ f.stage = "reading" /\ f.outcome = "none"
  BY <1>1, <1>2, FedSound
<1> HIDE DEF f
<1>5. d \in Exchange /\ d.stage = "reading" /\ d.outcome = "none"
  <2>1. CASE f.body = "broken"
    <3>1. d = [f EXCEPT !.body = "unheard"]
      BY <1>3, <2>1 DEF Unheard
    <3>2. [f EXCEPT !.body = "unheard"] \in Exchange
      BY <1>4, Setters DEF Bodies
    <3>3. /\ [f EXCEPT !.body = "unheard"].stage = f.stage
          /\ [f EXCEPT !.body = "unheard"].outcome = f.outcome
      BY <1>4 DEF Exchange
    <3> QED
      BY <1>4, <3>1, <3>2, <3>3
  <2>2. CASE f.body # "broken"
    BY <1>3, <1>4, <2>2 DEF Unheard
  <2> QED
    BY <2>1, <2>2
<1> QED
  BY <1>5 DEF Sound, Fit

\* a new stage that is no end and needs no listener
LEMMA StagedSound ==
  ASSUME NEW e, NEW gone \in BOOLEAN, Sound(e, gone), e.outcome = "none",
         NEW stage \in Stages \ {"off", "fetch", "over"},
         gone => \/ stage = "connected"
                 \/ e.socket # "open" /\ stage # "asked"
  PROVE  Sound([e EXCEPT !.stage = stage], gone)
<1> DEFINE d == [e EXCEPT !.stage = stage]
<1>1. e \in Exchange /\ Fit(e, gone)
  BY DEF Sound
<1>2. d \in Exchange
  BY <1>1, Setters
<1>3. d.stage = stage /\ d.outcome = "none" /\ d.socket = e.socket /\ d.left = e.left
  BY <1>1 DEF Exchange
<1> QED
  BY <1>1, <1>2, <1>3 DEF Sound, Fit

\* a body that is over with its socket
LEMMA ClosedSound ==
  ASSUME NEW e, NEW gone \in BOOLEAN, Sound(e, gone), e.stage = "reading", NEW body \in Bodies
  PROVE  Sound([e EXCEPT !.socket = "closed", !.body = body], gone)
<1> DEFINE d == [e EXCEPT !.socket = "closed", !.body = body]
<1>1. e \in Exchange /\ Fit(e, gone)
  BY DEF Sound
<1>2. d \in Exchange
  BY <1>1, Setters DEF Sockets
<1>3. d.stage = e.stage /\ d.outcome = e.outcome /\ d.socket = "closed" /\ d.left = e.left
  BY <1>1 DEF Exchange
<1> QED
  BY <1>1, <1>2, <1>3 DEF Sound, Fit

-----------------------------------------------------------------------------
(* The steps of an exchange: whatever happens to it, it stays sound.       *)

LEMMA OwnStepSound ==
  ASSUME Inv, NEW r \in Requests, OwnStep(r)
  PROVE  \E e : x' = [x EXCEPT ![r] = e] /\ Sound(e, Aborted(r))
<1>1. Sound(x[r], Aborted(r)) /\ x[r] \in Exchange /\ Fit(x[r], Aborted(r))
  BY DEF Inv, Exchanged, Sound
<1>2. Aborted(r) \in BOOLEAN /\ (Aborted(r) => ~x[r].left)
  BY <1>1 DEF Aborted, Fit
<1>3. ASSUME Arm(r)
      PROVE  x' = [x EXCEPT ![r] = Armed(r, x[r])] /\ Sound(Armed(r, x[r]), Aborted(r))
  <2>1. CASE Aborted(r)
    BY <1>1, <1>2, <1>3, <2>1, RejectedSound DEF Arm, Armed
  <2>2. CASE ~Aborted(r)
    <3> DEFINE stage == IF x[r].secure THEN "connect" ELSE "ready"
    <3>1. stage \in Stages \ {"off", "fetch", "over"}
      BY DEF Stages
    <3>2. x[r].outcome = "none"
      BY <1>1, <1>3 DEF Arm, Fit
    <3>3. Sound([x[r] EXCEPT !.stage = stage], Aborted(r))
      BY <1>1, <1>2, <2>2, <3>1, <3>2, StagedSound
    <3>4. Armed(r, x[r]) = [x[r] EXCEPT !.stage = stage]
      BY <2>2 DEF Armed
    <3> QED
      BY <1>3, <3>3, <3>4 DEF Arm
  <2> QED
    BY <2>1, <2>2
<1>4. ASSUME Ask(r)
      PROVE  x' = [x EXCEPT ![r] = Asked(r, x[r])] /\ Sound(Asked(r, x[r]), Aborted(r))
  <2>1. CASE Aborted(r)
    BY <1>1, <1>2, <1>4, <2>1, RejectedSound DEF Ask, Asked
  <2>2. CASE ~Aborted(r)
    <3>1. x[r].outcome = "none" /\ "asked" \in Stages \ {"off", "fetch", "over"}
      BY <1>1, <1>4 DEF Ask, Fit, Stages
    <3>2. Sound([x[r] EXCEPT !.stage = "asked"], Aborted(r))
      BY <1>1, <1>2, <2>2, <3>1, StagedSound
    <3> QED
      BY <1>4, <2>2, <3>2 DEF Ask, Asked
  <2> QED
    BY <2>1, <2>2
<1>5. ASSUME TextEnds(r)
      PROVE  x' = [x EXCEPT ![r] = Answered(r, x[r])] /\ Sound(Answered(r, x[r]), Aborted(r))
  BY <1>1, <1>5, AnsweredSound DEF TextEnds
<1>6. CASE TextFails(r)
  <2> DEFINE kind == IF x[r].body = "aborted" THEN "abort" ELSE "network"
  <2>1. x[r].stage = "reading"
    BY <1>6 DEF TextFails
  <2>2. CASE x[r].status = "redirect"
    <3>1. x' = [x EXCEPT ![r] = Answered(r, x[r])]
      BY <1>6, <2>2 DEF TextFails
    <3> QED
      BY <1>1, <2>1, <3>1, AnsweredSound
  <2>3. CASE x[r].status # "redirect"
    <3>1. x' = [x EXCEPT ![r] = Rejected(x[r], kind)]
      BY <1>6, <2>3 DEF TextFails
    <3>2. kind \in {"network", "abort"}
      OBVIOUS
    <3> QED
      BY <1>1, <1>2, <3>1, <3>2, RejectedSound
  <2> QED
    BY <2>2, <2>3
<1>7. CASE HandshakeFails(r)
  <2>1. x' = [x EXCEPT ![r] = Rejected(x[r], Named(r, "network"))]
    BY <1>7 DEF HandshakeFails
  <2>2. Named(r, "network") \in {"network", "abort"}
    BY DEF Named
  <2> QED
    BY <1>1, <1>2, <2>1, <2>2, RejectedSound
<1> QED
  BY <1>3, <1>4, <1>5, <1>6, <1>7 DEF OwnStep

LEMMA ProxyStepSound ==
  ASSUME Inv, NEW r \in Requests, ProxyStep(r)
  PROVE  \E e : x' = [x EXCEPT ![r] = e] /\ Sound(e, Aborted(r))
<1>1. Sound(x[r], Aborted(r)) /\ x[r] \in Exchange /\ Fit(x[r], Aborted(r))
  BY DEF Inv, Exchanged, Sound
<1>2. Aborted(r) \in BOOLEAN /\ (Aborted(r) => ~x[r].left)
  BY <1>1 DEF Aborted, Fit
<1>3. \A s \in {"connected", "tls", "ready"} : s \in Stages \ {"off", "fetch", "over"}
  BY DEF Stages
<1>4. CASE Connected(r)
  <2>1. x' = [x EXCEPT ![r] = [x[r] EXCEPT !.stage = "connected"]] /\ x[r].outcome = "none"
    BY <1>1, <1>4 DEF Connected, Fit
  <2> QED
    BY <1>1, <1>2, <1>3, <2>1, StagedSound
<1>5. CASE Established(r)
  <2>1. x[r].outcome = "none" /\ ~Aborted(r)
    BY <1>1, <1>5 DEF Established, Fit
  <2>2. \/ x' = [x EXCEPT ![r] = [x[r] EXCEPT !.stage = "tls"]]
        \/ x' = [x EXCEPT ![r] = Rejected(x[r], "network")]
    BY <1>5 DEF Established
  <2> QED
    BY <1>1, <1>2, <1>3, <2>1, <2>2, StagedSound, RejectedSound
<1>6. CASE Secured(r)
  <2>1. x' = [x EXCEPT ![r] = [x[r] EXCEPT !.stage = "ready"]] /\ x[r].outcome = "none"
    BY <1>1, <1>6 DEF Secured, Fit
  <2>2. Aborted(r) => x[r].socket # "open"
    BY <1>1, <1>6 DEF Secured, Fit
  <2> QED
    BY <1>1, <1>2, <1>3, <2>1, <2>2, StagedSound
<1>7. CASE HeadArrives(r)
  <2>1. x[r].outcome = "none" /\ ~Aborted(r)
    BY <1>1, <1>7 DEF HeadArrives, Fit
  <2>2. PICK framing \in Framings, encoded \in BOOLEAN, status \in Statuses :
          \E piece \in Pieces(framing) :
            x' = [x EXCEPT ![r] =
                   Unheard(Fed([x[r] EXCEPT !.stage = "reading", !.framing = framing,
                                            !.body = "open", !.encoded = encoded,
                                            !.status = status], piece))]
    BY <1>7, Zenon DEF HeadArrives, Framings, Statuses
  <2>3. PICK piece \in Pieces(framing) :
          x' = [x EXCEPT ![r] =
                 Unheard(Fed([x[r] EXCEPT !.stage = "reading", !.framing = framing,
                                          !.body = "open", !.encoded = encoded,
                                          !.status = status], piece))]
    BY <2>2
  <2>4. piece \in {"some", "last", "bad"}
    BY DEF Pieces, Framings
  <2> DEFINE d == Unheard(Fed([x[r] EXCEPT !.stage = "reading", !.framing = framing,
                                           !.body = "open", !.encoded = encoded,
                                           !.status = status], piece))
  <2>5. Sound(d, FALSE)
    BY <1>1, <2>1, <2>4, HeadSound
  <2> QED
    BY <1>2, <2>1, <2>3, <2>5
<1>8. CASE BodyArrives(r)
  <2>1. x[r].outcome = "none" /\ ~Aborted(r) /\ x[r].stage = "reading"
    BY <1>1, <1>8 DEF BodyArrives, Fit
  <2>2. PICK piece \in Pieces(x[r].framing) : x' = [x EXCEPT ![r] = Fed(x[r], piece)]
    BY <1>8 DEF BodyArrives
  <2>3. piece \in {"some", "last", "bad"}
    BY <1>1 DEF Pieces, Exchange
  <2>4. /\ Fed(x[r], piece) \in Exchange /\ Fed(x[r], piece).stage = "reading"
        /\ Fed(x[r], piece).outcome = "none"
    BY <1>1, <2>1, <2>3, FedSound
  <2>5. Sound(Fed(x[r], piece), Aborted(r))
    BY <2>1, <2>4 DEF Sound, Fit
  <2> QED
    BY <2>2, <2>5
<1>9. CASE NoHead(r)
  BY <1>1, <1>2, <1>9, RejectedSound DEF NoHead
<1>10. CASE DecompressFails(r)
  <2>1. /\ x' = [x EXCEPT ![r] = [x[r] EXCEPT !.socket = "closed", !.body = "broken"]]
        /\ x[r].stage = "reading"
    <3>1. [x[r] EXCEPT !.body = "broken", !.socket = "closed"]
          = [x[r] EXCEPT !.socket = "closed", !.body = "broken"]
      BY <1>1 DEF Exchange
    <3> QED
      BY <1>10, <3>1 DEF DecompressFails
  <2>2. "broken" \in Bodies
    BY DEF Bodies
  <2> QED
    BY <1>1, <1>2, <2>1, <2>2, ClosedSound
<1>11. CASE SocketEnds(r)
  <2> DEFINE body == IF x[r].body # "open" THEN x[r].body
                     ELSE IF x[r].framing = "close" THEN "complete" ELSE "cut"
  <2>1. x' = [x EXCEPT ![r] = [x[r] EXCEPT !.socket = "closed", !.body = body]]
    BY <1>11 DEF SocketEnds, Ended
  <2>2. x[r].stage = "reading" /\ body \in Bodies
    BY <1>1, <1>11 DEF SocketEnds, Bodies, Exchange
  <2> HIDE DEF body
  <2> QED
    BY <1>1, <1>2, <2>1, <2>2, ClosedSound
<1>12. CASE SocketBreaks(r)
  <2> DEFINE body == IF x[r].body = "open" THEN "broken" ELSE x[r].body
  <2>1. x' = [x EXCEPT ![r] = [x[r] EXCEPT !.socket = "closed", !.body = body]]
    BY <1>12 DEF SocketBreaks, Broken
  <2>2. x[r].stage = "reading" /\ body \in Bodies
    BY <1>1, <1>12 DEF SocketBreaks, Bodies, Exchange
  <2> HIDE DEF body
  <2> QED
    BY <1>1, <1>2, <2>1, <2>2, ClosedSound
<1>13. CASE HandshakeFails(r)
  <2>1. x' = [x EXCEPT ![r] = Rejected(x[r], Named(r, "network"))]
    BY <1>13 DEF HandshakeFails
  <2>2. Named(r, "network") \in {"network", "abort"}
    BY DEF Named
  <2> QED
    BY <1>1, <1>2, <2>1, <2>2, RejectedSound
<1> QED
  BY <1>4, <1>5, <1>6, <1>7, <1>8, <1>9, <1>10, <1>11, <1>12, <1>13 DEF ProxyStep

\* the call without a proxy
LEMMA FetchedSound ==
  ASSUME Inv, NEW r \in Requests, Fetched(r)
  PROVE  \E e : x' = [x EXCEPT ![r] = e] /\ Sound(e, Aborted(r))
<1>1. x[r] \in Exchange /\ Fit(x[r], Aborted(r))
  BY DEF Inv, Exchanged, Sound
<1>2. x[r].socket = "none" /\ ~Aborted(r)
  BY <1>1 DEF Fetched, Fit
<1>3. PICK outcome \in {"ok", "failed", "network"} :
        x' = [x EXCEPT ![r] = [x[r] EXCEPT !.stage = "over", !.outcome = outcome]]
  BY DEF Fetched
<1>4. outcome \in Outcomes \ {"none"}
  BY DEF Outcomes
<1> DEFINE d == [x[r] EXCEPT !.stage = "over", !.outcome = outcome]
<1>5. x' = [x EXCEPT ![r] = d] /\ Sound(d, FALSE)
  BY <1>1, <1>2, <1>3, <1>4, OverSound
<1> HIDE DEF d
<1>6. Sound(d, Aborted(r))
  BY <1>2, <1>5 DEF Sound, Fit
<1> QED
  BY <1>5, <1>6

-----------------------------------------------------------------------------
(* The handler.                                                            *)

\* an exchange that is replaced by a sound one leaves the others as they are
LEMMA Stored ==
  ASSUME Inv, NEW r \in Requests, NEW e, x' = [x EXCEPT ![r] = e], UNCHANGED aborted,
         Sound(e, Aborted(r))
  PROVE  Exchanged'
<1>1. x \in [Requests -> Exchange] /\ e \in Exchange
  BY DEF Inv, Exchanged, Sound
<1>2. \A q \in Requests : Aborted(q)' = Aborted(q)
  BY DEF Aborted
<1>3. \A q \in Requests : Sound(x[q], Aborted(q))
  BY DEF Inv, Exchanged
<1>4. \A q \in Requests : x'[q] = IF q = r THEN e ELSE x[q]
  BY <1>1
<1>5. \A q \in Requests : Sound(x'[q], Aborted(q)')
  BY <1>2, <1>3, <1>4
<1>6. x' \in [Requests -> Exchange] /\ aborted' \in [Requests -> SUBSET {"client", "timer"}]
  BY <1>1 DEF Inv, Exchanged
<1> QED
  BY <1>5, <1>6 DEF Exchanged

\* what the steps of one request do to the rest of the state
LEMMA Moved ==
  ASSUME Inv, NEW r \in Requests, NEW to \in {"pick", "queue", "call", "over"},
         pc' = [pc EXCEPT ![r] = to],
         held' = IF to = "call" THEN held \cup {r} ELSE held \ {r},
         NEW candidates \in Seq(Channels), rest' = [rest EXCEPT ![r] = candidates],
         to \in {"queue", "call"} => candidates # <<>>
  PROVE  Queued'
<1>1. /\ pc \in [Requests -> {"new", "pick", "queue", "call", "over"}]
      /\ rest \in [Requests -> Seq(Channels)]
      /\ held = {q \in Requests : pc[q] = "call"}
      /\ \A q \in Requests : Busy(q) => rest[q] # <<>>
  BY DEF Inv, Queued
<1>2. pc' \in [Requests -> {"new", "pick", "queue", "call", "over"}]
  BY <1>1
<1>3. \A q \in Requests : pc'[q] = IF q = r THEN to ELSE pc[q]
  BY <1>1
<1>4. held' = {q \in Requests : pc'[q] = "call"}
  BY <1>1, <1>3
<1>5. rest' \in [Requests -> Seq(Channels)]
  BY <1>1
<1>6. \A q \in Requests : rest'[q] = IF q = r THEN candidates ELSE rest[q]
  BY <1>1
<1>7. \A q \in Requests : Busy(q)' => rest'[q] # <<>>
  BY <1>1, <1>3, <1>6 DEF Busy
<1> QED
  BY <1>2, <1>4, <1>5, <1>7 DEF Queued

\* the parts that a step leaves alone
LEMMA Untouched ==
  ASSUME Inv
  PROVE  /\ UNCHANGED <<aborted, x>> => Exchanged'
         /\ UNCHANGED <<pc, rest, held>> => Queued'
BY DEF Inv, Exchanged, Queued, Aborted, Busy

LEMMA Kinds ==
  ASSUME Inv, NEW r \in Requests, x[r].stage = "over", x[r].outcome # "ok"
  PROVE  Failure(r) \in Failures \cup {"none", "overload", "client"}
<1>1. x[r] \in Exchange /\ Fit(x[r], Aborted(r))
  BY DEF Inv, Exchanged, Sound
<1>2. x[r].outcome \in {"failed", "network", "abort"}
  BY <1>1 DEF Exchange, Fit
<1>3. CASE x[r].outcome = "failed"
  BY <1>3 DEF Failure, Failures
<1>4. CASE x[r].outcome = "network"
  BY <1>4 DEF Failure, Failures
<1>5. CASE x[r].outcome = "abort"
  BY <1>5 DEF Failure, Failures
<1> QED
  BY <1>2, <1>3, <1>4, <1>5

LEMMA InitInv == Init => Inv
<1> SUFFICES ASSUME Init PROVE Inv
  OBVIOUS
<1>1. Off \in Exchange /\ Fit(Off, FALSE)
  BY RedirectAssumption DEF Off, Exchange, Stages, Fit
<1>2. \A r \in Requests : Sound(x[r], Aborted(r)) /\ ~Busy(r)
  BY <1>1 DEF Init, Sound, Aborted, Busy
<1>3. <<>> \in Seq(Channels)
  OBVIOUS
<1> QED
  BY <1>1, <1>2, <1>3 DEF Init, Inv, Exchanged, Queued, Told

LEMMA StepInv ==
  ASSUME Inv, NEW r \in Requests,
         \/ Arrive(r) \/ PickChannel(r) \/ Acquired(r) \/ QueueTimesOut(r) \/ Settle(r)
         \/ Exchanges(r) \/ LeftCloses(r) \/ ClientLeaves(r) \/ TimerFires(r)
  PROVE  Inv'
<1>1. /\ pc \in [Requests -> {"new", "pick", "queue", "call", "over"}]
      /\ rest \in [Requests -> Seq(Channels)]
      /\ held = {q \in Requests : pc[q] = "call"}
      /\ lastErr \in [Requests -> Failures \cup {"none", "overload", "client"}]
      /\ answer \in [Requests -> {"none", "200", "400", "503", "nothing"}]
      /\ x[r] \in Exchange /\ Fit(x[r], Aborted(r)) /\ Sound(x[r], Aborted(r))
      /\ Busy(r) => rest[r] # <<>>
  BY DEF Inv, Exchanged, Queued, Told, Sound
<1>2. CASE Arrive(r)
  <2>1. PICK order \in Orders[r] :
          /\ rest' = [rest EXCEPT ![r] = order]
          /\ IF order = <<>> THEN Answer(r, "400")
             ELSE pc' = [pc EXCEPT ![r] = "pick"] /\ UNCHANGED answer
    BY <1>2 DEF Arrive
  <2>2. order \in Seq(Channels)
    BY OrdersAssumption
  <2>3. r \notin held /\ held' = held /\ UNCHANGED <<aborted, x, lastErr>>
    BY <1>1, <1>2 DEF Arrive
  <2>4. \E to \in {"pick", "over"} : pc' = [pc EXCEPT ![r] = to]
    BY <2>1 DEF Answer
  <2>5. answer' \in [Requests -> {"none", "200", "400", "503", "nothing"}]
    BY <1>1, <2>1 DEF Answer
  <2>6. held' = held \ {r}
    BY <2>3
  <2> QED
    BY <1>1, <2>1, <2>2, <2>3, <2>4, <2>5, <2>6, Moved, Untouched DEF Inv, Told
<1>3. CASE PickChannel(r)
  <2>1. /\ rest' = [rest EXCEPT ![r] = rest[r]] /\ held' = held \ {r}
        /\ UNCHANGED <<aborted, x, lastErr>>
    BY <1>1, <1>3 DEF PickChannel
  <2>2. \E to \in {"queue", "over"} :
          pc' = [pc EXCEPT ![r] = to] /\ (to = "queue" => rest[r] # <<>>)
    BY <1>3 DEF PickChannel, Answer
  <2>3. answer' \in [Requests -> {"none", "200", "400", "503", "nothing"}]
    BY <1>1, <1>3 DEF PickChannel, Answer
  <2> QED
    BY <1>1, <2>1, <2>2, <2>3, Moved, Untouched DEF Inv, Told
<1>4. CASE Acquired(r)
  <2> DEFINE e == [Off EXCEPT !.left = x[r].left, !.secure = Head(rest[r]) \in Secure]
             f == [e EXCEPT !.stage = "fetch"]
  <2>1. /\ pc' = [pc EXCEPT ![r] = "call"] /\ held' = held \cup {r}
        /\ rest' = [rest EXCEPT ![r] = rest[r]] /\ rest[r] # <<>>
        /\ UNCHANGED <<aborted, lastErr, answer>>
    BY <1>1, <1>4 DEF Acquired, Busy
  <2>2. /\ x[r].left \in BOOLEAN /\ Aborted(r) \in BOOLEAN /\ (Aborted(r) => ~x[r].left)
        /\ (Head(rest[r]) \in Secure) \in BOOLEAN
    BY <1>1 DEF Exchange, Fit, Aborted
  <2>3. Sound(e, Aborted(r)) /\ e.outcome = "none" /\ e.socket = "none" /\ e.left = x[r].left
    BY <2>2, OffSound
  <2>4. x' = [x EXCEPT ![r] = IF Head(rest[r]) \in Proxied \/ Aborted(r) THEN Dialled(r, e) ELSE f]
    BY <1>4 DEF Acquired
  <2> HIDE DEF e
  <2>5. e \in Exchange
    BY <2>3 DEF Sound
  <2>6. Sound(Dialled(r, e), Aborted(r))
    BY <2>2, <2>3, <2>5, DialledSound
  <2>7. ~Aborted(r) => Sound(f, Aborted(r))
    <3>1. f \in Exchange
      BY <2>5, Setters DEF Stages
    <3>2. f.stage = "fetch" /\ f.outcome = e.outcome /\ f.socket = e.socket
      BY <2>5 DEF Exchange
    <3> QED
      BY <2>3, <3>1, <3>2 DEF Sound, Fit
  <2>8. Exchanged'
    BY <2>1, <2>4, <2>6, <2>7, Stored
  <2>9. Queued'
    BY <1>1, <2>1, Moved
  <2> QED
    BY <1>1, <2>1, <2>8, <2>9 DEF Inv, Told
<1>5. CASE QueueTimesOut(r)
  <2>1. /\ pc' = [pc EXCEPT ![r] = "pick"] /\ held' = held \ {r}
        /\ rest' = [rest EXCEPT ![r] = Tail(rest[r])] /\ rest[r] # <<>>
        /\ UNCHANGED <<aborted, x, answer>>
    BY <1>1, <1>5 DEF QueueTimesOut, Busy
  <2>2. Tail(rest[r]) \in Seq(Channels)
    BY <1>1, <2>1
  <2>3. lastErr' \in [Requests -> Failures \cup {"none", "overload", "client"}]
    BY <1>1, <1>5 DEF QueueTimesOut
  <2> QED
    BY <1>1, <2>1, <2>2, <2>3, Moved, Untouched DEF Inv, Told
<1>6. CASE Settle(r)
  <2>1. /\ held' = held \ {r} /\ UNCHANGED aborted /\ rest[r] # <<>>
        /\ x' = [x EXCEPT ![r] = [Off EXCEPT !.left = x[r].left]]
    BY <1>1, <1>6 DEF Settle, Released, Busy
  <2>2. /\ x[r].left \in BOOLEAN /\ Aborted(r) \in BOOLEAN /\ (Aborted(r) => ~x[r].left)
    BY <1>1 DEF Exchange, Fit, Aborted
  <2>3. Sound([Off EXCEPT !.left = x[r].left], Aborted(r))
    BY <2>2, OffSound
  <2>4. Exchanged'
    BY <2>1, <2>3, Stored
  <2>5. CASE x[r].outcome = "ok"
    <3>1. /\ pc' = [pc EXCEPT ![r] = "over"] /\ rest' = [rest EXCEPT ![r] = rest[r]]
          /\ UNCHANGED lastErr
      BY <1>1, <1>6, <2>5 DEF Settle, Answer
    <3>2. answer' \in [Requests -> {"none", "200", "400", "503", "nothing"}]
      BY <1>1, <1>6, <2>5 DEF Settle, Answer
    <3> QED
      BY <1>1, <2>1, <2>4, <3>1, <3>2, Moved DEF Inv, Told
  <2>6. CASE x[r].outcome # "ok"
    <3>1. /\ pc' = [pc EXCEPT ![r] = "pick"] /\ rest' = [rest EXCEPT ![r] = Tail(rest[r])]
          /\ lastErr' = [lastErr EXCEPT ![r] = Failure(r)] /\ UNCHANGED answer
      BY <1>6, <2>6 DEF Settle
    <3>2. Tail(rest[r]) \in Seq(Channels)
      BY <1>1, <2>1
    <3>3. Failure(r) \in Failures \cup {"none", "overload", "client"}
      BY <1>6, <2>6, Kinds DEF Settle
    <3> QED
      BY <1>1, <2>1, <2>4, <3>1, <3>2, <3>3, Moved DEF Inv, Told
  <2> QED
    BY <2>5, <2>6
<1>7. CASE Exchanges(r)
  <2>1. UNCHANGED <<aborted, pc, rest, held, lastErr, answer>>
    BY <1>7 DEF Exchanges
  <2>2. PICK e : x' = [x EXCEPT ![r] = e] /\ Sound(e, Aborted(r))
    BY <1>7, OwnStepSound, ProxyStepSound, FetchedSound DEF Exchanges
  <2> QED
    BY <1>1, <2>1, <2>2, Stored, Untouched DEF Inv, Told
<1>8. CASE LeftCloses(r)
  <2> DEFINE d == [x[r] EXCEPT !.left = FALSE]
  <2>1. UNCHANGED <<aborted, pc, rest, held, lastErr, answer>> /\ x' = [x EXCEPT ![r] = d]
    BY <1>8 DEF LeftCloses, PeerCloses
  <2>2. d \in Exchange
    BY <1>1, Setters
  <2>3. d.stage = x[r].stage /\ d.outcome = x[r].outcome /\ d.socket = x[r].socket /\ d.left = FALSE
    BY <1>1 DEF Exchange
  <2>4. Sound(d, Aborted(r))
    BY <1>1, <2>2, <2>3 DEF Sound, Fit
  <2> QED
    BY <1>1, <2>1, <2>4, Stored, Untouched DEF Inv, Told
<1>9. ASSUME NEW who \in {"client", "timer"}, Abort(r, who)
      PROVE  Inv'
  <2>1. /\ UNCHANGED <<pc, rest, held, lastErr, answer>> /\ x[r].stage # "over"
        /\ aborted' = [aborted EXCEPT ![r] = aborted[r] \cup {who}]
    BY <1>9 DEF Abort
  <2>2. /\ aborted' \in [Requests -> SUBSET {"client", "timer"}]
        /\ \A q \in Requests : q # r => Aborted(q)' = Aborted(q)
        /\ Aborted(r)'
    BY <2>1 DEF Inv, Exchanged, Aborted
  <2>3. \A q \in Requests : Sound(x[q], Aborted(q)) /\ x \in [Requests -> Exchange]
    BY DEF Inv, Exchanged
  <2>4. CASE Aborted(r)
    <3>1. x' = x
      BY <1>9, <2>4 DEF Abort
    <3>2. \A q \in Requests : Sound(x'[q], Aborted(q)')
      BY <2>2, <2>3, <2>4, <3>1 DEF Sound, Fit
    <3>3. Exchanged'
      BY <2>2, <2>3, <3>1, <3>2 DEF Exchanged
    <3> QED
      BY <1>1, <2>1, <3>3, Untouched DEF Inv, Told
  <2>5. CASE ~Aborted(r)
    <3>1. x' = [x EXCEPT ![r] = Interrupted(x[r])]
      BY <1>9, <2>5 DEF Abort
    <3>2. Sound(x[r], FALSE)
      BY <1>1, <2>5 DEF Sound, Fit
    <3>3. Sound(Interrupted(x[r]), TRUE)
      BY <2>1, <3>2, InterruptedSound
    <3>4. Sound(x'[r], Aborted(r)') /\ x' \in [Requests -> Exchange]
      BY <2>2, <2>3, <3>1, <3>3 DEF Sound, Fit
    <3>5. \A q \in Requests : Sound(x'[q], Aborted(q)')
      BY <2>2, <2>3, <3>1, <3>4
    <3>6. Exchanged'
      BY <2>2, <3>4, <3>5 DEF Exchanged
    <3> QED
      BY <1>1, <2>1, <3>6, Untouched DEF Inv, Told
  <2> QED
    BY <2>4, <2>5
<1> QED
  BY <1>2, <1>3, <1>4, <1>5, <1>6, <1>7, <1>8, <1>9 DEF ClientLeaves, TimerFires

LEMMA NextInv == Inv /\ [Next]_vars => Inv'
<1> SUFFICES ASSUME Inv, [Next]_vars PROVE Inv'
  OBVIOUS
<1>1. CASE Next
  BY <1>1, StepInv DEF Next
<1>2. CASE UNCHANGED vars
  BY <1>2, Untouched DEF vars, Inv, Told
<1> QED
  BY <1>1, <1>2

-----------------------------------------------------------------------------
(* The invariant, which is inductive: whatever the proxies, the upstreams, *)
(* the timers and the clients do (server.mjs:700-792 over                  *)
(* lib/outbound-proxy.mjs), every exchange is sound, the limiter's slots   *)
(* are those of the calls under way, and whoever waits or calls has a      *)
(* candidate.                                                              *)
THEOREM EmbeddingsSafe == Spec => []Inv
<1>1. Init => Inv
  BY InitInv
<1>2. Inv /\ [Next]_vars => Inv'
  BY NextInv
<1> QED
  BY <1>1, <1>2, PTL DEF Spec

(* The type invariant of Embeddings.tla and the promise of                 *)
(* lib/outbound-proxy.mjs:314-319: after an abort no socket of the request *)
(* is open, but for one whose connect the code has yet to look at; no old  *)
(* answer keeps one, and no failed call leaves one.                        *)
THEOREM AbortReaches == Spec => []AbortReachesEverySocket
<1>1. Inv => AbortReachesEverySocket
  <2> SUFFICES ASSUME Inv PROVE AbortReachesEverySocket
    OBVIOUS
  <2>1. TypeOK
    BY DEF Inv, Exchanged, Queued, Told, TypeOK
  <2>2. \A r \in Requests : Fit(x[r], Aborted(r))
    BY DEF Inv, Exchanged, Sound
  <2> QED
    BY <2>1, <2>2 DEF AbortReachesEverySocket, Fit
<1> QED
  BY <1>1, EmbeddingsSafe, PTL

-----------------------------------------------------------------------------
(* What an abort is reported as.                                           *)

\* a rejection names its kind
LEMMA RejectedKind ==
  ASSUME NEW e \in Exchange, NEW kind
  PROVE  Rejected(e, kind).outcome = kind
BY DEF Rejected, Exchange

LEMMA ExchangeReported ==
  ASSUME Inv, NEW r \in Requests, Exchanges(r), Aborted(r), x[r].outcome = "none",
         x'[r].outcome = "network"
  PROVE  x[r].stage = "reading" /\ (x[r].body # "aborted" \/ x[r].status = "redirect")
<1>1. x \in [Requests -> Exchange] /\ x[r] \in Exchange /\ Fit(x[r], Aborted(r))
  BY DEF Inv, Exchanged, Sound
<1>2. \A e : x' = [x EXCEPT ![r] = e] => e.outcome = "network"
  BY <1>1
<1>3. \A stage : [x[r] EXCEPT !.stage = stage].outcome = "none"
  BY <1>1 DEF Exchange
<1>4. ~Arm(r)
  BY <1>1, <1>2, RejectedKind DEF Arm, Armed
<1>5. ~Ask(r)
  BY <1>1, <1>2, RejectedKind DEF Ask, Asked
<1>6. ~HandshakeFails(r)
  BY <1>1, <1>2, RejectedKind DEF HandshakeFails, Named
<1>7. ~Connected(r) /\ ~Secured(r)
  BY <1>2, <1>3 DEF Connected, Secured
<1>8. ~Established(r) /\ ~NoHead(r) /\ ~HeadArrives(r) /\ ~Fetched(r)
  BY <1>1 DEF Established, NoHead, HeadArrives, Fetched, Fit
<1>9. BodyArrives(r) \/ DecompressFails(r) \/ SocketEnds(r) \/ SocketBreaks(r) => FALSE
  <2>1. ~BodyArrives(r)
    BY <1>1 DEF BodyArrives, Fit
  <2>2. ~DecompressFails(r)
    <3>1. [x[r] EXCEPT !.body = "broken", !.socket = "closed"].outcome = "none"
      BY <1>1 DEF Exchange
    <3> QED
      BY <1>2, <3>1 DEF DecompressFails
  <2>3. ~SocketEnds(r) /\ ~SocketBreaks(r)
    BY <1>1 DEF SocketEnds, SocketBreaks, Fit
  <2> QED
    BY <2>1, <2>2, <2>3
<1>10. TextEnds(r) \/ TextFails(r)
  BY <1>4, <1>5, <1>6, <1>7, <1>8, <1>9 DEF Exchanges, OwnStep, ProxyStep
<1>11. CASE TextEnds(r)
  BY <1>11 DEF TextEnds
<1>12. CASE TextFails(r)
  <2>1. CASE x[r].status = "redirect"
    BY <1>12, <2>1 DEF TextFails
  <2>2. CASE x[r].status # "redirect"
    <3>1. x' = [x EXCEPT ![r] = Rejected(x[r], IF x[r].body = "aborted" THEN "abort" ELSE "network")]
      BY <1>12, <2>2 DEF TextFails
    <3>2. (IF x[r].body = "aborted" THEN "abort" ELSE "network") = "network"
      BY <1>1, <1>2, <3>1, RejectedKind
    <3> QED
      BY <1>12, <3>2 DEF TextFails
  <2> QED
    BY <2>1, <2>2
<1> QED
  BY <1>10, <1>11, <1>12

\* the other steps of the handler bring no network error
LEMMA HandlerReported ==
  ASSUME Inv, NEW r \in Requests, NEW q \in Requests, Aborted(q), x[q].outcome = "none",
         x'[q].outcome = "network",
         \/ Arrive(r) \/ PickChannel(r) \/ Acquired(r) \/ QueueTimesOut(r) \/ Settle(r)
         \/ Exchanges(r) \/ LeftCloses(r) \/ ClientLeaves(r) \/ TimerFires(r)
  PROVE  Exchanges(q)
<1>1. x \in [Requests -> Exchange] /\ x[r] \in Exchange /\ x[q] \in Exchange
  BY DEF Inv, Exchanged
<1>2. x' # x
  OBVIOUS
<1>3. ~Arrive(r) /\ ~PickChannel(r) /\ ~QueueTimesOut(r)
  BY <1>2 DEF Arrive, PickChannel, QueueTimesOut
<1>4. ASSUME NEW e, x' = [x EXCEPT ![r] = e] PROVE q = r /\ e.outcome = "network"
  BY <1>1, <1>4
<1>5. ~Settle(r)
  <2> SUFFICES ASSUME Settle(r) PROVE FALSE
    OBVIOUS
  <2>1. x' = [x EXCEPT ![r] = [Off EXCEPT !.left = x[r].left]]
    BY DEF Settle
  <2>2. [Off EXCEPT !.left = x[r].left].outcome = "none"
    BY DEF Off
  <2> QED
    BY <1>4, <2>1, <2>2
<1>6. ~LeftCloses(r)
  <2> SUFFICES ASSUME LeftCloses(r) PROVE FALSE
    OBVIOUS
  <2>1. x' = [x EXCEPT ![r] = [x[r] EXCEPT !.left = FALSE]]
    BY DEF LeftCloses, PeerCloses
  <2>2. [x[r] EXCEPT !.left = FALSE].outcome = x[r].outcome
    BY <1>1 DEF Exchange
  <2> QED
    BY <1>4, <2>1, <2>2
<1>7. ~Acquired(r)
  <2> SUFFICES ASSUME Acquired(r) PROVE FALSE
    OBVIOUS
  <2> DEFINE e == [Off EXCEPT !.left = x[r].left, !.secure = Head(rest[r]) \in Secure]
  <2>1. x' = [x EXCEPT ![r] = IF Head(rest[r]) \in Proxied \/ Aborted(r) THEN Dialled(r, e)
                              ELSE [e EXCEPT !.stage = "fetch"]]
    BY DEF Acquired
  <2>2. e.outcome = "none" /\ [e EXCEPT !.stage = "fetch"].outcome = "none"
        /\ [e EXCEPT !.stage = "over", !.outcome = "abort"].outcome = "abort"
        /\ [e EXCEPT !.stage = "connecting", !.socket = "open"].outcome = "none"
    BY DEF Off
  <2> HIDE DEF e
  <2>3. Dialled(r, e).outcome # "network"
    BY <2>2 DEF Dialled
  <2> QED
    BY <1>4, <2>1, <2>2, <2>3
<1>8. ASSUME NEW who, Abort(r, who) PROVE FALSE
  <2>1. ~Aborted(r) /\ x' = [x EXCEPT ![r] = Interrupted(x[r])]
    BY <1>2, <1>8 DEF Abort
  <2> QED
    BY <1>4, <2>1
<1> QED
  BY <1>3, <1>4, <1>5, <1>6, <1>7, <1>8, OwnStepSound, ProxyStepSound, FetchedSound
     DEF ClientLeaves, TimerFires, Exchanges

(* lib/outbound-proxy.mjs: a call that fails after its signal was aborted  *)
(* fails as an abort, whatever the socket says, and is not held against    *)
(* the channel; but for a body that had failed before.                     *)
THEOREM AbortKeepsItsName == Spec => AbortIsNoNetworkError
<1> DEFINE P(r) == Aborted(r) /\ x[r].outcome = "none" /\ x'[r].outcome = "network"
                   => x[r].stage = "reading" /\ (x[r].body # "aborted" \/ x[r].status = "redirect")
<1>1. Inv /\ [Next]_vars => [\A r \in Requests : P(r)]_vars
  <2> SUFFICES ASSUME Inv, Next, NEW q \in Requests, Aborted(q), x[q].outcome = "none",
                      x'[q].outcome = "network"
               PROVE  x[q].stage = "reading" /\ (x[q].body # "aborted" \/ x[q].status = "redirect")
    OBVIOUS
  <2>1. Exchanges(q)
    BY HandlerReported DEF Next
  <2> QED
    BY <2>1, ExchangeReported
<1> QED
  BY <1>1, EmbeddingsSafe, PTL DEF Spec, AbortIsNoNetworkError

=============================================================================
