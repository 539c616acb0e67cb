--------------------------- MODULE ChannelHealth ----------------------------
(***************************************************************************)
(* The health of one channel: the circuit breaker of class Channel         *)
(* (lib/channels.mjs), the half-open trial slots, the attempts of          *)
(* lib/proxy.mjs that report to it, the background probe and the reloads   *)
(* that replace the Channel object while all of them are under way.        *)
(*                                                                         *)
(* Instants are kept as the time that is left until them, in ticks: 0 is   *)
(* an instant that has passed (or was never set: nothing tells the two     *)
(* apart, see halfOpen below).  A reload makes a new object; attempts and  *)
(* the probe go on reporting to the object they started with.              *)
(***************************************************************************)
EXTENDS Naturals, FiniteSets

CONSTANTS Reqs,             \* requests, each making one attempt after another
          MaxObjects,       \* bound: Channel objects, one more than reloads
          FailThreshold, Cooldown, MaxCooldown, HalfOpenMs,
          BalanceCooldown, AuthCooldown, FailDedup,
          ProbeCooldownMax, \* the 60 s that cap the cooldown of a failed probe
          HalfOpenMaxInFlight,
          ChannelLimited,   \* maxConcurrentPerChannel > 0
          ForceStream,      \* the channel has no usable /models
          HasModel          \* the channel has a bound model to probe

ASSUME RequestsAssumption == IsFiniteSet(Reqs)
ASSUME ObjectsAssumption == MaxObjects \in Nat \ {0}
ASSUME ThresholdAssumption == FailThreshold \in Nat \ {0}
ASSUME TrialsAssumption == HalfOpenMaxInFlight \in Nat \ {0}
ASSUME TimesAssumption ==
  {Cooldown, MaxCooldown, HalfOpenMs, BalanceCooldown, AuthCooldown, FailDedup,
   ProbeCooldownMax} \subseteq Nat

Objects == 1..MaxObjects

VARIABLES channel,   \* the Channel objects
          current,   \* the one in manager.channels
          at,        \* each request's attempt: idle, queued in the limiter, sent
          object,    \* the Channel object it uses
          trial,     \* it took a half-open slot (halfSlot === true)
          probe      \* the probe under way, and the object it probes

vars == <<channel, current, at, object, trial, probe>>

\* growth of the back-off stops at this many failures, and so does the count
MaxFailures == FailThreshold + 3

Healthy == [failures |-> 0, open |-> 0, probe |-> 0, dedup |-> 0, trials |-> 0]

Init ==
  /\ channel = [o \in Objects |-> Healthy]
  /\ current = 1
  /\ at = [r \in Reqs |-> "idle"]
  /\ object = [r \in Reqs |-> 1]
  /\ trial = [r \in Reqs |-> FALSE]
  /\ probe = [kind |-> "none", object |-> 1]

-----------------------------------------------------------------------------
(* Channel.                                                                *)

Smaller(m, n) == IF m < n THEN m ELSE n
Larger(m, n)  == IF m > n THEN m ELSE n

coolingDown(c) == c.open > 0

(* openUntil is 0 only where probeUntil is, so the test openUntil > 0 of   *)
(* the code adds nothing.                                                  *)
halfOpen(c) == c.open = 0 /\ c.probe > 0

\* the window opens where the cooldown ends; halfOpenMs = 0 switches it off
WindowAfter(open) == IF HalfOpenMs > 0 THEN open + HalfOpenMs ELSE 0

\* mutant: the window is counted from this call, not from the later cooldown
coolFromNow(c, ms) ==
  [c EXCEPT !.open = Larger(@, ms), !.probe = ms + HalfOpenMs]

cool(c, ms) ==
  LET open == Larger(c.open, ms)
  IN  [c EXCEPT !.open = open, !.probe = WindowAfter(open)]

uncool(c) == [c EXCEPT !.failures = 0, !.open = 0, !.probe = 0, !.dedup = 0]

\* markSuccess() resets the same four fields (and the statistics)
markSuccess(c) == uncool(c)

Counted(c) == [c EXCEPT !.failures = Smaller(@ + 1, MaxFailures)]

Backoff(failures) ==
  Smaller(Cooldown * 2 ^ Smaller(failures - FailThreshold, 3), MaxCooldown)

\* the failure falls into the window of one that was counted
Deduplicated(c, inFlight) == FailDedup > 0 /\ inFlight > 1 /\ c.dedup > 0

\* a counted failure; openUntil is assigned, not raised
Trip(c) ==
  LET d == [Counted(c) EXCEPT !.dedup = FailDedup]
      open == Backoff(d.failures)
  IN  IF d.failures < FailThreshold THEN d
      ELSE [d EXCEPT !.open = open, !.probe = WindowAfter(open)]

markFailure(c, kind, inFlight) ==
  CASE kind = "rate_limit"           -> c
    [] kind = "insufficient_balance" -> Counted(cool(c, BalanceCooldown))
    [] kind = "auth"                 -> Counted(cool(c, AuthCooldown))
    [] OTHER -> IF Deduplicated(c, inFlight) THEN c ELSE Trip(c)

-----------------------------------------------------------------------------
(* attemptChannel() and what handleChatCompletions() makes of its outcome. *)

Sent == {r \in Reqs : at[r] = "sent"}

\* limiter.channelInFlight() once the slot of r has been released
InFlightBeside(r) == IF ChannelLimited THEN Cardinality(Sent \ {r}) ELSE 0

\* tryAcquireHalfOpen(): no slot needed outside the half-open window
StartFreely(r) ==
  /\ at[r] = "idle"
  /\ ~halfOpen(channel[current])
  /\ at' = [at EXCEPT ![r] = "queued"]
  /\ object' = [object EXCEPT ![r] = current]
  /\ UNCHANGED <<channel, current, trial, probe>>

(* In the window a slot is needed; without one the attempt fails as        *)
(* "overloaded" before it starts, and nothing changes.                     *)
StartTrial(r) ==
  /\ at[r] = "idle"
  /\ halfOpen(channel[current])
  /\ channel[current].trials < HalfOpenMaxInFlight
  /\ channel' = [channel EXCEPT ![current].trials = @ + 1]
  /\ at' = [at EXCEPT ![r] = "queued"]
  /\ object' = [object EXCEPT ![r] = current]
  /\ trial' = [trial EXCEPT ![r] = TRUE]
  /\ UNCHANGED <<current, probe>>

\* the limiter admits the attempt (GatewayLimiter.tla)
Send(r) ==
  /\ at[r] = "queued"
  /\ at' = [at EXCEPT ![r] = "sent"]
  /\ UNCHANGED <<channel, current, object, trial, probe>>

\* mutant: whoever ends returns a slot
ReleasesAnyway(r) == channel[object[r]].trials > 0

\* `finally`: only an attempt that took a slot returns one
ReleasesTrial(r) == trial[r] /\ channel[object[r]].trials > 0

Returned(r) ==
  IF ReleasesTrial(r) THEN [channel[object[r]] EXCEPT !.trials = @ - 1]
                      ELSE channel[object[r]]

\* r's attempt ends and its object becomes c
End(r, c) ==
  /\ channel' = [channel EXCEPT ![object[r]] = c]
  /\ at' = [at EXCEPT ![r] = "idle"]
  /\ object' = [object EXCEPT ![r] = 1]
  /\ trial' = [trial EXCEPT ![r] = FALSE]
  /\ UNCHANGED <<current, probe>>

\* mutant: the success goes to the channel that has the name now
SucceedByName(r) ==
  /\ at[r] = "sent"
  /\ channel' = [channel EXCEPT ![object[r]] = Returned(r),
                                ![current] = markSuccess(@)]
  /\ at' = [at EXCEPT ![r] = "idle"]
  /\ object' = [object EXCEPT ![r] = 1]
  /\ trial' = [trial EXCEPT ![r] = FALSE]
  /\ UNCHANGED <<current, probe>>

Succeed(r) ==
  /\ at[r] = "sent"
  /\ End(r, markSuccess(Returned(r)))

UpstreamKinds == {"error", "rate_limit", "insufficient_balance", "auth"}

\* client_abort and overloaded are not the channel's fault; everything else is
FailWith(r, kind) ==
  LET c == Returned(r)
  IN  End(r, IF kind \in {"client_abort", "overloaded"} THEN c
             ELSE markFailure(c, kind, InFlightBeside(r)))

(* An attempt that queues fails because the client left, because the queue *)
(* timed out, or because a reload switched the limit off: the error of     *)
(* drain() has a code but no kind, and is reported as "error".             *)
FailQueued(r) ==
  /\ at[r] = "queued"
  /\ \E kind \in {"client_abort", "overloaded", "drained"} : FailWith(r, kind)

FailSent(r) ==
  /\ at[r] = "sent"
  /\ \E kind \in UpstreamKinds \cup {"client_abort"} : FailWith(r, kind)

-----------------------------------------------------------------------------
(* probe(), single-flight.  Which request is sent is decided from the      *)
(* state before the await, what the answer does to the state after it.     *)

ProbeKind(c) ==
  IF coolingDown(c) THEN IF HasModel THEN "chat" ELSE "models"
  ELSE IF ForceStream THEN IF HasModel THEN "chat" ELSE "void" ELSE "models"

ProbeStart ==
  /\ probe.kind = "none"
  /\ probe' = [kind |-> ProbeKind(channel[current]), object |-> current]
  /\ UNCHANGED <<channel, current, at, object, trial>>

ProbeDone(c) ==
  /\ probe.kind # "none"
  /\ channel' = [channel EXCEPT ![probe.object] = c]
  /\ probe' = [kind |-> "none", object |-> 1]
  /\ UNCHANGED <<current, at, object, trial>>

ProbeOk == ProbeDone(uncool(channel[probe.object]))

ProbeFailed(c) == cool(c, Smaller(Cooldown, ProbeCooldownMax))

(* A chat probe that meets an empty account or a bad key marks the channel *)
(* first.                                                                  *)
ProbeFail ==
  /\ probe.kind \in {"chat", "models"}
  /\ LET c == channel[probe.object]
     IN  \/ ProbeDone(ProbeFailed(c))
         \/ /\ probe.kind = "chat"
            /\ \E kind \in {"insufficient_balance", "auth"} :
                 ProbeDone(ProbeFailed(markFailure(c, kind, 1)))

-----------------------------------------------------------------------------
(* load() builds a new object and copies the health of the old one, but    *)
(* neither lastCountedFailAt nor halfOpenInFlight; a channel whose baseUrl *)
(* or protocol has changed is another account and starts afresh.           *)

Inherited(c) == [c EXCEPT !.dedup = 0, !.trials = 0]

Replace(c) ==
  /\ current < MaxObjects
  /\ current' = current + 1
  /\ channel' = [channel EXCEPT ![current + 1] = c]
  /\ UNCHANGED <<at, object, trial, probe>>

Reload == Replace(Inherited(channel[current]))

Move == Replace(Healthy)

\* time passes for every object
Elapsed(n) == IF n = 0 THEN 0 ELSE n - 1

Tick ==
  /\ channel' = [o \in Objects |->
                   [channel[o] EXCEPT !.open  = Elapsed(@), !.probe = Elapsed(@),
                                      !.dedup = Elapsed(@)]]
  /\ channel' # channel
  /\ UNCHANGED <<current, at, object, trial, probe>>

Next ==
  \/ \E r \in Reqs : \/ StartFreely(r) \/ StartTrial(r) \/ Send(r)
                     \/ Succeed(r) \/ FailQueued(r) \/ FailSent(r)
  \/ ProbeStart \/ ProbeOk \/ ProbeFail
  \/ Reload \/ Move
  \/ Tick

Spec == Init /\ [][Next]_vars

-----------------------------------------------------------------------------
TypeOK ==
  /\ channel \in [Objects -> [failures : 0..MaxFailures, open : Nat, probe : Nat,
                              dedup : 0..FailDedup, trials : 0..HalfOpenMaxInFlight]]
  /\ current \in Objects
  /\ at \in [Reqs -> {"idle", "queued", "sent"}]
  /\ object \in [Reqs -> Objects]
  /\ trial \in [Reqs -> BOOLEAN]
  /\ probe \in [kind : {"none", "chat", "models", "void"}, object : Objects]

(* F8: the trials an object counts are the attempts that hold one of its   *)
(* slots, so the half-open window lets no more of them through than the    *)
(* configuration allows and never loses a slot for good.                   *)
TrialsAreCounted ==
  \A o \in Objects : channel[o].trials = Cardinality({r \in Reqs : trial[r] /\ object[r] = o})

(* Whoever cools a channel, and whatever else shortens or prolongs the     *)
(* cooldown, a half-open window of full length follows it: a channel is    *)
(* never handed its whole share the moment it comes back.  And however     *)
(* many failures, probes and reloads pile up, and in whatever order, it    *)
(* comes: no cooldown is longer than the longest the configuration knows.  *)
CooldownLeadsToHalfOpen ==
  \A o \in Objects :
     /\ HalfOpenMs > 0 /\ coolingDown(channel[o]) => channel[o].probe = channel[o].open + HalfOpenMs
     /\ \E longest \in {MaxCooldown, BalanceCooldown, AuthCooldown,
                        Smaller(Cooldown, ProbeCooldownMax)} :
          channel[o].open <= longest

\* somebody heard a good answer through the object that is in use
Answered ==
  \/ ProbeOk /\ probe.object = current
  \/ \E r \in Reqs : Succeed(r) /\ object[r] = current

(* There is no shortcut back to a whole share of the traffic.  A channel   *)
(* that cools goes on cooling until the cooldown has run out and the       *)
(* window is open, and the window stays open until it has run out too,     *)
(* unless somebody heard a good answer through the very object that is in  *)
(* use, or the channel was moved to another account.  A late failure (the  *)
(* back-off of which is assigned and not raised), a failed probe, a reload *)
(* and whatever is still reported to an object that a reload has replaced, *)
(* a success or a good probe among them, never end either.                 *)
NoShortcutBack ==
  [][LET c == channel[current]
         d == channel'[current']
     IN  Cooldown > 0 /\ MaxCooldown > 0 /\ HalfOpenMs > 0 =>
           /\ coolingDown(c) =>
                coolingDown(d) \/ (Tick /\ halfOpen(d)) \/ Answered \/ Move
           /\ halfOpen(c) =>
                halfOpen(d) \/ coolingDown(d) \/ Tick \/ Answered \/ Move]_vars

(* README 2.2 and the probe's comment: an empty account or a bad key means *)
(* a long cooldown.  No other failure ends a cooldown early.               *)
FailureNeverShortensCooldown ==
  [][\A r \in Reqs : at[r] = "sent" /\ at'[r] = "idle" =>
       \/ channel'[object[r]].open >= channel[object[r]].open
       \/ channel'[object[r]].failures = 0]_vars
=============================================================================
