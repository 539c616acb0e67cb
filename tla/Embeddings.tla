----------------------------- MODULE Embeddings -----------------------------
(***************************************************************************)
(* handleEmbeddings() of server.mjs: requests that try the channels of a   *)
(* model one after the other, each in a slot of the limiter, under one     *)
(* timer and the departure of the client, over fetch() or gwFetch().       *)
(*                                                                         *)
(*   new -> pick -> queue -> call -> pick ... -> over                      *)
(*                                                                         *)
(* The limiter is cut down to Slots places without an order, and a queue   *)
(* that may time out; GatewayLimiter.tla has the rest.                     *)
(***************************************************************************)
EXTENDS OutboundProxy, Sequences

CONSTANTS Orders,      \* what candidatesFor() and maxAttempts may leave of each model
          Proxied,     \* channels with a proxy
          Secure,      \* those among them with an https endpoint
          Slots

ASSUME SlotAssumption == Slots \in Nat \ {0}
ASSUME SecureAssumption == Secure \subseteq Proxied

VARIABLES pc,
          rest,        \* the candidates ahead, the one in use first
          held,        \* requests that hold a slot
          lastErr,     \* why the last candidate did not answer
          answer       \* what the client is sent
vars == <<aborted, x, pc, rest, held, lastErr, answer>>

Channels == UNION {{order[i] : i \in DOMAIN order} : order \in UNION {Orders[r] : r \in Requests}}

ASSUME OrdersAssumption == \A r \in Requests : Orders[r] \subseteq Seq(Channels)

-----------------------------------------------------------------------------
\* the handler is left, with its timer and its listener
Answer(r, a) ==
  /\ pc' = [pc EXCEPT ![r] = "over"]
  /\ answer' = [answer EXCEPT ![r] = a]

Arrive(r) ==
  /\ pc[r] = "new"
  /\ \E order \in Orders[r] :
       /\ rest' = [rest EXCEPT ![r] = order]
       /\ IF order = <<>> THEN Answer(r, "400")
          ELSE pc' = [pc EXCEPT ![r] = "pick"] /\ UNCHANGED answer
  /\ UNCHANGED <<aborted, x, held, lastErr>>

\* the next candidate queues, unless there is none or the client has left
PickChannel(r) ==
  /\ pc[r] = "pick"
  /\ CASE "client" \in aborted[r] -> Answer(r, "nothing")
       [] "client" \notin aborted[r] /\ rest[r] = <<>> -> Answer(r, "503")
       [] OTHER -> pc' = [pc EXCEPT ![r] = "queue"] /\ UNCHANGED answer
  /\ UNCHANGED <<aborted, x, rest, held, lastErr>>

(* The queue of the limiter knows nothing of the signal: who has been      *)
(* aborted there still waits for its slot, and calls with it.              *)
Acquired(r) ==
  /\ pc[r] = "queue"
  /\ Cardinality(held) < Slots
  /\ held' = held \cup {r}
  /\ pc' = [pc EXCEPT ![r] = "call"]
  /\ LET ch == Head(rest[r])
         e == [Off EXCEPT !.left = x[r].left, !.secure = ch \in Secure]
     IN  x' = [x EXCEPT ![r] =
                IF ch \in Proxied \/ Aborted(r) THEN Dialled(r, e)
                ELSE [e EXCEPT !.stage = "fetch"]]
  /\ UNCHANGED <<aborted, rest, lastErr, answer>>

\* an overload error: no slot, no failure
QueueTimesOut(r) ==
  /\ pc[r] = "queue"
  /\ pc' = [pc EXCEPT ![r] = "pick"]
  /\ rest' = [rest EXCEPT ![r] = Tail(@)]
  /\ lastErr' = [lastErr EXCEPT ![r] = "overload"]
  /\ UNCHANGED <<aborted, x, held, answer>>

\* mutant: only the paths that return give the slot back
HeldOnContinue(r) == IF x[r].outcome = "ok" THEN held \ {r} ELSE held

\* finally: release?.()
Released(r) == held \ {r}

(* What is noted for the channel: everything but an abort by the client.   *)
Failures == {"http", "network", "timeout"}

Failure(r) ==
  CASE x[r].outcome = "failed"  -> "http"
    [] x[r].outcome = "network" -> "network"
    [] x[r].outcome = "abort" /\ "client" \in aborted[r] -> "client"
    [] x[r].outcome = "abort" /\ "client" \notin aborted[r] -> "timeout"

\* the text has come, or the call has failed
Settle(r) ==
  /\ pc[r] = "call" /\ x[r].stage = "over"
  /\ held' = Released(r)
  /\ x' = [x EXCEPT ![r] = [Off EXCEPT !.left = x[r].left]]
  /\ IF x[r].outcome = "ok" THEN Answer(r, "200") /\ UNCHANGED <<rest, lastErr>>
     ELSE /\ lastErr' = [lastErr EXCEPT ![r] = Failure(r)]
          /\ rest' = [rest EXCEPT ![r] = Tail(@)]
          /\ pc' = [pc EXCEPT ![r] = "pick"]
          /\ UNCHANGED answer
  /\ UNCHANGED aborted

-----------------------------------------------------------------------------
\* the global fetch(), headers and text
Fetched(r) ==
  /\ x[r].stage = "fetch"
  /\ \E outcome \in {"ok", "failed", "network"} :
       x' = [x EXCEPT ![r] = [@ EXCEPT !.stage = "over", !.outcome = outcome]]

Exchanges(r) ==
  /\ pc[r] = "call"
  /\ OwnStep(r) \/ ProxyStep(r) \/ Fetched(r)
  /\ UNCHANGED <<aborted, pc, rest, held, lastErr, answer>>

LeftCloses(r) ==
  /\ PeerCloses(r)
  /\ UNCHANGED <<aborted, pc, rest, held, lastErr, answer>>

(* A listener of the signal runs in abort(); a call that is settled is     *)
(* looked at in the same turn, so that no abort comes between.             *)
Abort(r, who) ==
  /\ pc[r] \notin {"new", "over"} /\ who \notin aborted[r] /\ x[r].stage # "over"
  /\ aborted' = [aborted EXCEPT ![r] = @ \cup {who}]
  /\ x' = IF Aborted(r) THEN x ELSE [x EXCEPT ![r] = Interrupted(@)]
  /\ UNCHANGED <<pc, rest, held, lastErr, answer>>

ClientLeaves(r) == Abort(r, "client")
TimerFires(r) == Abort(r, "timer")

Init ==
  /\ aborted = [r \in Requests |-> {}]
  /\ x = [r \in Requests |-> Off]
  /\ pc = [r \in Requests |-> "new"]
  /\ rest = [r \in Requests |-> <<>>]
  /\ held = {}
  /\ lastErr = [r \in Requests |-> "none"]
  /\ answer = [r \in Requests |-> "none"]

Next ==
  \E r \in Requests :
    \/ Arrive(r) \/ PickChannel(r) \/ Acquired(r) \/ QueueTimesOut(r) \/ Settle(r)
    \/ Exchanges(r) \/ LeftCloses(r) \/ ClientLeaves(r) \/ TimerFires(r)

Spec == Init /\ [][Next]_vars

(***************************************************************************)
(* The timer of a request goes off, a free slot is given, and the gateway  *)
(* goes on where it waits for nobody.  Of the proxy, the upstream and the  *)
(* queue's own timer nothing is expected.                                  *)
(***************************************************************************)
FairSpec ==
  Spec /\ \A r \in Requests :
            /\ WF_vars(PickChannel(r)) /\ WF_vars(Acquired(r)) /\ WF_vars(Settle(r))
            /\ WF_vars(pc[r] = "call" /\ OwnStep(r) /\ Exchanges(r))
            /\ WF_vars(TimerFires(r))
-----------------------------------------------------------------------------
TypeOK ==
  /\ aborted \in [Requests -> SUBSET {"client", "timer"}]
  /\ x \in [Requests -> Exchange]
  /\ pc \in [Requests -> {"new", "pick", "queue", "call", "over"}]
  /\ rest \in [Requests -> Seq(Channels)]
  /\ held = {r \in Requests : pc[r] = "call"}
  /\ lastErr \in [Requests -> Failures \cup {"none", "overload", "client"}]
  /\ answer \in [Requests -> {"none", "200", "400", "503", "nothing"}]

(* P6 (lib/outbound-proxy.mjs:314-319): the signal reaches the socket in   *)
(* every stage, not only while the function that registered a listener     *)
(* runs: after an abort no socket of the request stays open, also those of *)
(* answers that were read long ago; and no failed call leaves one.         *)
AbortReachesEverySocket ==
  /\ TypeOK
  /\ \A r \in Requests :
       /\ Aborted(r) => x[r].socket # "open" \/ x[r].stage = "connected"
       /\ Aborted(r) => ~x[r].left
       /\ x[r].outcome \in {"network", "abort"} => x[r].socket # "open"

(* An abort that interrupts the handshake, the wait for the head or the    *)
(* body is reported as the abort, whatever the socket says: as a network   *)
(* error it would be held against the channel.                             *)
AbortIsNoNetworkError ==
  [][\A r \in Requests :
       Aborted(r) /\ x[r].outcome = "none" /\ x'[r].outcome = "network"
       => x[r].stage = "reading" /\ (x[r].body # "aborted" \/ x[r].status = "redirect")]_vars

(* A request ends whatever the upstreams do, and returns its slot, so that *)
(* the next one gets it; unless a body was closed before text() listened,  *)
(* which nothing ends.                                                     *)
EmbeddingsEnd ==
  \A r \in Requests :
    pc[r] # "new" ~> (pc[r] = "over" \/ \E q \in Requests : x[q].body = "unheard")

(* server.mjs:752: a timeout is a sign that this channel does not answer.  *)
(* Only a channel that was called is noted for one.                        *)
TimeoutIsOfTheCalled ==
  [][\A r \in Requests :
       Settle(r) /\ lastErr'[r] = "timeout" => x[r].socket # "none"]_vars
=============================================================================
