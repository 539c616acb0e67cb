--------------------------- MODULE OutboundProxy ----------------------------
(***************************************************************************)
(* gwFetch() of lib/outbound-proxy.mjs and the text() of its response: one *)
(* request through a CONNECT tunnel or to the proxy itself, with redirects,*)
(* against a proxy that may answer, stall, end or break at any moment and  *)
(* a signal that may abort at any moment.                                  *)
(*                                                                         *)
(*   off -> connecting -> connected -> connect -> tls -> ready -> asked    *)
(*       -> reading -> over                                                *)
(*                                                                         *)
(* `connected` and `ready` are windows in which a promise is settled and   *)
(* its continuation has not run: no event of a socket comes there.  The    *)
(* other stages wait for one.  A response is handed over and its text()    *)
(* called in one turn of the event loop, and events that a stream emits    *)
(* before the end of that turn come first (process.nextTick).  Without a   *)
(* proxy the call is one `fetch`.                                          *)
(***************************************************************************)
EXTENDS Naturals, FiniteSets

CONSTANTS Requests,
          MAX_REDIRECTS

ASSUME RedirectAssumption == MAX_REDIRECTS \in Nat

VARIABLES aborted,   \* who has aborted the signal of each request
          x          \* the exchange of each request

Stages == {"off", "fetch", "connecting", "connected", "connect", "tls", "ready", "asked", "reading",
           "over"}

Exchange ==
  [stage : Stages,
   secure : BOOLEAN,                        \* an https target: CONNECT and TLS
   socket : {"none", "open", "closed"},
   framing : {"length", "chunked", "close"},
   encoded : BOOLEAN,                       \* a decompressor follows the body
   status : {"ok", "failed", "redirect"},
   body : {"open", "complete", "cut", "broken", "aborted", "unheard"},
   hop : 0 .. MAX_REDIRECTS,
   left : BOOLEAN,                          \* an ended round trip left its socket open
   outcome : {"none", "ok", "failed", "network", "abort"}]

Aborted(r) == aborted[r] # {}

Off == [stage |-> "off", secure |-> FALSE, socket |-> "none", framing |-> "close",
        encoded |-> FALSE, status |-> "ok", body |-> "open", hop |-> 0, left |-> FALSE,
        outcome |-> "none"]

\* the promise of the whole call is rejected, and the socket destroyed
Rejected(e, kind) == [e EXCEPT !.stage = "over", !.socket = "closed", !.outcome = kind]

-----------------------------------------------------------------------------
(* The signal.  Its listeners run within abort(), armAbort()'s first.      *)

Heard(e) ==
  CASE e.stage = "connecting" -> Rejected(e, "abort")      \* waitConnect
    [] e.stage = "connect"    -> [e EXCEPT !.socket = "closed"]
    [] e.stage = "ready"      -> [e EXCEPT !.socket = "closed"]
    [] e.stage = "tls"        -> Rejected(e, "abort")      \* waitSecureConnect
    [] e.stage = "fetch"      -> Rejected(e, "abort")      \* without a proxy
    [] e.stage = "asked"      -> Rejected(e, "abort")      \* roundTrip's onAbort
    [] e.stage = "reading" /\ e.body = "open" ->
         [e EXCEPT !.socket = "closed", !.body = "aborted"]
    [] e.stage = "reading" /\ e.body # "open" /\ e.socket = "open" ->
         [e EXCEPT !.socket = "closed"]
    [] OTHER -> e                                          \* no listener

Interrupted(e) == [Heard(e) EXCEPT !.left = FALSE]

-----------------------------------------------------------------------------
(* openTunnel()                                                            *)

\* its catch block: what fails after an abort has failed by the abort
Named(r, kind) == IF Aborted(r) THEN "abort" ELSE kind

Dialled(r, e) ==
  IF Aborted(r) THEN [e EXCEPT !.stage = "over", !.outcome = "abort"]
  ELSE [e EXCEPT !.stage = "connecting", !.socket = "open"]

Connected(r) ==
  /\ x[r].stage = "connecting"
  /\ x' = [x EXCEPT ![r] = [@ EXCEPT !.stage = "connected"]]

\* mutant: an abort in the window is left to the listener
ArmedBlindly(r, e) == [e EXCEPT !.stage = IF e.secure THEN "connect" ELSE "ready"]

\* armAbort(), and a look at the signal for what came before it
Armed(r, e) ==
  IF Aborted(r) THEN Rejected(e, "abort")
  ELSE [e EXCEPT !.stage = IF e.secure THEN "connect" ELSE "ready"]

Arm(r) ==
  /\ x[r].stage = "connected"
  /\ x' = [x EXCEPT ![r] = Armed(r, x[r])]

\* the answer to CONNECT: 200, or anything else, an overlong head included
Established(r) ==
  /\ x[r].stage = "connect" /\ x[r].socket = "open"
  /\ \/ x' = [x EXCEPT ![r] = [@ EXCEPT !.stage = "tls"]]
     \/ x' = [x EXCEPT ![r] = Rejected(@, "network")]

Secured(r) ==
  /\ x[r].stage = "tls"
  /\ x' = [x EXCEPT ![r] = [@ EXCEPT !.stage = "ready"]]

\* the socket fails, is closed by the peer, or emits the close of destroy()
HandshakeFails(r) ==
  /\ x[r].stage \in {"connecting", "connect", "tls"}
  /\ x' = [x EXCEPT ![r] = Rejected(@, Named(r, "network"))]

-----------------------------------------------------------------------------
(* roundTrip()                                                             *)

\* mutant: the request goes out without a look at the signal
AskedBlindly(r, e) ==
  IF e.socket = "closed" THEN Rejected(e, "network") ELSE [e EXCEPT !.stage = "asked"]

Asked(r, e) ==
  IF Aborted(r) THEN Rejected(e, "abort") ELSE [e EXCEPT !.stage = "asked"]

Ask(r) ==
  /\ x[r].stage = "ready"
  /\ x' = [x EXCEPT ![r] = Asked(r, x[r])]

(* eatBodyBytes() of a piece: some bytes, the last ones that length or     *)
(* chunks announce, or a chunk that is none.                               *)
\* framing and decompressor matter as long as the body may go on
Finished(e, body) == [e EXCEPT !.body = body, !.framing = "close"]

Fed(e, piece) ==
  CASE piece = "some" -> e
    [] piece = "last" -> Finished(e, "complete")
    [] piece = "bad"  -> [Finished(e, "broken") EXCEPT !.socket = "closed"]

Pieces(framing) ==
  CASE framing = "length" -> {"some", "last"}
    [] framing = "chunked" -> {"some", "last", "bad"}
    [] framing = "close" -> {"some"}

(* The head, with the first piece in the same packet.  If that piece is a  *)
(* bad chunk, the body has emitted its error and its close before text()   *)
(* listens for them, and the abort listener is gone with them.             *)
Unheard(e) == IF e.body = "broken" THEN [e EXCEPT !.body = "unheard"] ELSE e

HeadArrives(r) ==
  /\ x[r].stage = "asked" /\ x[r].socket = "open"
  /\ \E framing \in {"length", "chunked", "close"}, encoded \in BOOLEAN,
        status \in {"ok", "failed", "redirect"} :
       \E piece \in Pieces(framing) :
         x' = [x EXCEPT ![r] =
                Unheard(Fed([@ EXCEPT !.stage = "reading", !.framing = framing, !.body = "open",
                                      !.encoded = encoded, !.status = status], piece))]

BodyArrives(r) ==
  /\ x[r].stage = "reading" /\ x[r].body = "open" /\ x[r].socket = "open"
  /\ \E piece \in Pieces(x[r].framing) \ {"some"} :
       x' = [x EXCEPT ![r] = Fed(@, piece)]

\* a head that is too long or no HTTP, and an end or error before there is one
NoHead(r) ==
  /\ x[r].stage = "asked"
  /\ x' = [x EXCEPT ![r] = Rejected(@, "network")]

\* an end or a close, which finishes any body; or an error
Ended(e) ==
  [e EXCEPT !.socket = "closed",
            !.body = IF @ # "open" THEN @ ELSE IF e.framing = "close" THEN "complete" ELSE "cut"]
Broken(e) == [e EXCEPT !.socket = "closed", !.body = IF @ = "open" THEN "broken" ELSE @]

SocketEnds(r) ==
  /\ x[r].stage = "reading" /\ x[r].socket = "open"
  /\ x' = [x EXCEPT ![r] = Ended(@)]

SocketBreaks(r) ==
  /\ x[r].stage = "reading" /\ x[r].socket = "open"
  /\ x' = [x EXCEPT ![r] = Broken(@)]

\* the peer closes what the gateway has left open
PeerCloses(r) ==
  /\ x[r].left
  /\ x' = [x EXCEPT ![r] = [@ EXCEPT !.left = FALSE]]

-----------------------------------------------------------------------------
(* text() and gwFetch()                                                    *)

(* The body is only ever pushed to, so that its end does not destroy it:   *)
(* where no decompressor closes it, an open socket stays open.             *)
Kept(e) == e.socket = "open" /\ ~e.encoded

Past(e) == [e EXCEPT !.socket = "none", !.left = @ \/ Kept(e), !.body = "open"]

\* the text has come or, for a redirect, failed
Answered(r, e) ==
  IF e.status # "redirect" THEN [Past(e) EXCEPT !.stage = "over", !.outcome = e.status]
  ELSE IF e.hop = MAX_REDIRECTS THEN [Past(e) EXCEPT !.stage = "over", !.outcome = "network"]
  ELSE Dialled(r, [Past(e) EXCEPT !.hop = @ + 1])

TextEnds(r) ==
  /\ x[r].stage = "reading" /\ x[r].body \in {"complete", "cut"}
  /\ x' = [x EXCEPT ![r] = Answered(r, x[r])]

\* the error of the body, or one of the decompressor, which destroys the body
DecompressFails(r) ==
  /\ x[r].stage = "reading" /\ x[r].encoded /\ x[r].body \in {"open", "complete", "cut"}
  /\ x' = [x EXCEPT ![r] = [@ EXCEPT !.body = "broken", !.socket = "closed"]]

TextFails(r) ==
  /\ x[r].stage = "reading" /\ x[r].body \in {"broken", "aborted"}
  /\ x' = [x EXCEPT ![r] =
            IF @.status = "redirect" THEN Answered(r, x[r])
            ELSE Rejected(@, IF @.body = "aborted" THEN "abort" ELSE "network")]

-----------------------------------------------------------------------------
\* what the code does next, without the proxy
OwnStep(r) == Arm(r) \/ Ask(r) \/ TextEnds(r) \/ TextFails(r)
              \/ (x[r].socket = "closed" /\ HandshakeFails(r))

ProxyStep(r) ==
  \/ Connected(r) \/ Established(r) \/ Secured(r)
  \/ HeadArrives(r) \/ BodyArrives(r) \/ NoHead(r) \/ DecompressFails(r) \/ SocketEnds(r) \/ SocketBreaks(r)
  \/ (x[r].socket = "open" /\ HandshakeFails(r))
=============================================================================
