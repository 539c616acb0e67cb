------------------------ MODULE ChannelHealthProofs -------------------------
(***************************************************************************)
(* Proofs about ChannelHealth.tla, for any finite set of requests, any     *)
(* number of reloads and any configuration of the times.                   *)
(***************************************************************************)
EXTENDS ChannelHealth, FiniteSetTheorems, TLAPS

Longest == {MaxCooldown, BalanceCooldown, AuthCooldown, Smaller(Cooldown, ProbeCooldownMax)}

Channels == [failures : 0..MaxFailures, open : Nat, probe : Nat,
             dedup : 0..FailDedup, trials : 0..HalfOpenMaxInFlight]

(* What every method of Channel keeps true of its object.                  *)
Windowed(c) == HalfOpenMs > 0 /\ coolingDown(c) => c.probe = c.open + HalfOpenMs
Bounded(c)  == \E longest \in Longest : c.open <= longest
Sound(c)    == c \in Channels /\ Windowed(c) /\ Bounded(c)

\* the requests that hold a trial slot of an object
Holders(o) == {r \in Reqs : trial[r] /\ object[r] = o}

-----------------------------------------------------------------------------
(* The methods of Channel.                                                 *)

\* the times of the configuration are natural numbers
LEMMA TimesFacts ==
  /\ Cooldown \in Nat /\ MaxCooldown \in Nat /\ HalfOpenMs \in Nat
  /\ BalanceCooldown \in Nat /\ AuthCooldown \in Nat /\ FailDedup \in Nat
  /\ ProbeCooldownMax \in Nat /\ FailThreshold \in Nat \ {0}
  /\ HalfOpenMaxInFlight \in Nat \ {0}
  /\ Longest \subseteq Nat
BY TimesAssumption, ThresholdAssumption, TrialsAssumption DEF Longest, Smaller

\* a field that is reset stays in its range
LEMMA ZeroFacts ==
  0 \in Nat /\ 0 \in 0..MaxFailures /\ 0 \in 0..FailDedup /\ 0 \in 0..HalfOpenMaxInFlight
BY TimesFacts DEF MaxFailures

\* the factor of the back-off is a number, and no 0
LEMMA DoublingFacts ==
  ASSUME NEW n \in 0..3
  PROVE  2 ^ n \in Nat /\ 2 ^ n > 0
<1>1. 2 ^ 0 = 1 /\ 2 ^ 1 = 2 /\ 2 ^ 2 = 4 /\ 2 ^ 3 = 8
  OBVIOUS
<1>2. {1, 2, 4, 8} \subseteq Nat /\ 1 > 0 /\ 2 > 0 /\ 4 > 0 /\ 8 > 0
  OBVIOUS
<1>3. n = 0 \/ n = 1 \/ n = 2 \/ n = 3
  OBVIOUS
<1> QED
  BY <1>1, <1>2, <1>3, Zenon

\* the back-off is a time and stays within maxCooldownMs
LEMMA BackoffFacts ==
  ASSUME NEW n \in Nat, n >= FailThreshold
  PROVE  Backoff(n) \in Nat /\ Backoff(n) <= MaxCooldown
<1> DEFINE growth == Smaller(n - FailThreshold, 3)
<1>1. growth \in 0..3
  BY TimesFacts DEF Smaller
<1> HIDE DEF growth
<1>2. 2 ^ growth \in Nat
  BY <1>1, DoublingFacts
<1> DEFINE factor == 2 ^ growth
<1>3. factor \in Nat
  BY <1>2
<1>4. Backoff(n) = Smaller(Cooldown * factor, MaxCooldown)
  BY DEF Backoff, growth
<1> HIDE DEF factor
<1>5. Cooldown * factor \in Nat
  BY <1>3, TimesFacts
<1> QED
  BY <1>4, <1>5, TimesFacts DEF Smaller

\* cooling for one of the known times keeps an object sound and its trials
LEMMA CoolFacts ==
  ASSUME NEW c, Sound(c), NEW ms \in Longest
  PROVE  /\ Sound(cool(c, ms))
         /\ cool(c, ms).trials = c.trials
         /\ cool(c, ms).failures = c.failures
<1> DEFINE open == Larger(c.open, ms)
<1>1. c \in Channels /\ ms \in Nat /\ open \in Nat
  BY TimesFacts DEF Sound, Channels, Larger
<1>2. cool(c, ms) = [c EXCEPT !.open = open, !.probe = WindowAfter(open)]
  BY DEF cool
<1>3. WindowAfter(open) \in Nat /\ (HalfOpenMs > 0 => WindowAfter(open) = open + HalfOpenMs)
  BY <1>1, TimesFacts DEF WindowAfter
<1>4. \E longest \in Longest : open <= longest
  BY <1>1, TimesFacts DEF Sound, Bounded, Channels, Larger
<1> HIDE DEF open
<1> QED
  BY <1>1, <1>2, <1>3, <1>4, TimesFacts DEF Sound, Channels, Windowed, Bounded, coolingDown

\* one more failure touches neither the times nor the trials
LEMMA CountedFacts ==
  ASSUME NEW c, Sound(c)
  PROVE  /\ Sound(Counted(c))
         /\ Counted(c).trials = c.trials
         /\ Counted(c).open = c.open
<1>1. Smaller(c.failures + 1, MaxFailures) \in 0..MaxFailures
  BY TimesFacts DEF Sound, Channels, Smaller, MaxFailures
<1> QED
  BY <1>1, TimesFacts DEF Sound, Channels, Windowed, Bounded, coolingDown, Counted

\* a success or a good probe unfreezes the object and keeps its trials
LEMMA UncoolFacts ==
  ASSUME NEW c, Sound(c)
  PROVE  Sound(uncool(c)) /\ uncool(c).trials = c.trials
<1>1. /\ uncool(c) \in Channels
      /\ uncool(c).open = 0
      /\ uncool(c).trials = c.trials
  BY ZeroFacts DEF Sound, Channels, uncool
<1>2. Bounded(uncool(c))
  BY <1>1, TimesFacts DEF Bounded, Longest
<1>3. Windowed(uncool(c))
  BY <1>1 DEF Windowed, coolingDown
<1> QED
  BY <1>1, <1>2, <1>3 DEF Sound

\* a failure that may trip the breaker
LEMMA TripFacts ==
  ASSUME NEW c, Sound(c)
  PROVE  Sound(Trip(c)) /\ Trip(c).trials = c.trials
<1> DEFINE d == [Counted(c) EXCEPT !.dedup = FailDedup]
           open == Backoff(d.failures)
<1>1. Sound(d) /\ d.trials = c.trials /\ d.failures \in Nat
  BY CountedFacts, TimesFacts
     DEF Sound, Channels, Windowed, Bounded, coolingDown, MaxFailures
<1>2. CASE d.failures < FailThreshold
  <2>1. Trip(c) = d
    BY <1>2 DEF Trip
  <2> QED
    BY <1>1, <2>1
<1>3. CASE ~(d.failures < FailThreshold)
  <2>1. Trip(c) = [d EXCEPT !.open = open, !.probe = WindowAfter(open)]
    BY <1>3 DEF Trip
  <2> HIDE DEF d
  <2>2. open \in Nat /\ open <= MaxCooldown
    BY <1>1, <1>3, BackoffFacts, TimesFacts
  <2> HIDE DEF open
  <2>3. WindowAfter(open) \in Nat /\ (HalfOpenMs > 0 => WindowAfter(open) = open + HalfOpenMs)
    BY <2>2, TimesFacts DEF WindowAfter
  <2> QED
    BY <1>1, <2>1, <2>2, <2>3, TimesFacts
       DEF Sound, Channels, Windowed, Bounded, coolingDown, Longest
<1> QED
  BY <1>2, <1>3

\* markFailure(), whatever the kind and whatever else is in flight
LEMMA FailureFacts ==
  ASSUME NEW c, Sound(c), NEW kind, NEW n
  PROVE  Sound(markFailure(c, kind, n)) /\ markFailure(c, kind, n).trials = c.trials
<1>1. CASE kind = "rate_limit"
  BY <1>1 DEF markFailure
<1>2. CASE kind = "insufficient_balance"
  <2>1. markFailure(c, kind, n) = Counted(cool(c, BalanceCooldown))
    BY <1>2 DEF markFailure
  <2> QED
    BY <2>1, CoolFacts, CountedFacts DEF Longest
<1>3. CASE kind = "auth"
  <2>1. markFailure(c, kind, n) = Counted(cool(c, AuthCooldown))
    BY <1>3 DEF markFailure
  <2> QED
    BY <2>1, CoolFacts, CountedFacts DEF Longest
<1>4. CASE kind \notin {"rate_limit", "insufficient_balance", "auth"}
  <2>1. markFailure(c, kind, n) = IF Deduplicated(c, n) THEN c ELSE Trip(c)
    BY <1>4 DEF markFailure
  <2> QED
    BY <2>1, TripFacts
<1> QED
  BY <1>1, <1>2, <1>3, <1>4

\* the passing of time
LEMMA ElapsedFacts ==
  ASSUME NEW c, Sound(c)
  PROVE  LET d == [c EXCEPT !.open = Elapsed(@), !.probe = Elapsed(@), !.dedup = Elapsed(@)]
         IN  Sound(d) /\ d.trials = c.trials
<1>1. /\ Elapsed(c.open) \in Nat /\ Elapsed(c.probe) \in Nat
      /\ Elapsed(c.dedup) \in 0..FailDedup
      /\ Elapsed(c.open) <= c.open
  BY TimesFacts DEF Sound, Channels, Elapsed
<1>2. HalfOpenMs > 0 /\ Elapsed(c.open) > 0 => Elapsed(c.probe) = Elapsed(c.open) + HalfOpenMs
  BY TimesFacts DEF Sound, Channels, Windowed, coolingDown, Elapsed
<1> DEFINE d == [c EXCEPT !.open = Elapsed(@), !.probe = Elapsed(@), !.dedup = Elapsed(@)]
<1>3. /\ d \in Channels
      /\ d.open = Elapsed(c.open) /\ d.probe = Elapsed(c.probe) /\ d.trials = c.trials
  BY <1>1 DEF Sound, Channels
<1> HIDE DEF d
<1>4. Windowed(d)
  BY <1>2, <1>3 DEF Windowed, coolingDown
<1>5. Bounded(d)
  BY <1>1, <1>3, TimesFacts DEF Sound, Bounded, Channels
<1>6. Sound(d) /\ d.trials = c.trials
  BY <1>3, <1>4, <1>5 DEF Sound
<1> QED
  BY <1>6 DEF d

\* a new object of another account
LEMMA HealthyFacts == Sound(Healthy)
<1>1. Healthy \in Channels
  BY TimesFacts DEF Healthy, Channels, MaxFailures
<1>2. Healthy.open = 0
  BY DEF Healthy
<1> QED
  BY <1>1, <1>2, TimesFacts DEF Sound, Windowed, Bounded, coolingDown, Longest

\* the copy a reload makes
LEMMA InheritedFacts ==
  ASSUME NEW c, Sound(c)
  PROVE  Sound(Inherited(c)) /\ Inherited(c).trials = 0
<1> DEFINE d == Inherited(c)
<1>1. /\ d \in Channels
      /\ d.open = c.open /\ d.probe = c.probe /\ d.trials = 0
  BY ZeroFacts DEF Sound, Channels, Inherited
<1> HIDE DEF d
<1>2. Windowed(d) /\ Bounded(d)
  BY <1>1 DEF Sound, Windowed, Bounded, coolingDown
<1>3. Sound(d) /\ d.trials = 0
  BY <1>1, <1>2 DEF Sound
<1> QED
  BY <1>3 DEF d

-----------------------------------------------------------------------------
(* The invariant.  A trial slot belongs to an attempt that is under way,   *)
(* and nobody uses an object that a reload has not made yet: without the   *)
(* two the count of the slots is not inductive.                            *)

TrialsAreUnderWay == \A r \in Reqs : trial[r] => at[r] # "idle"
ObjectsAreMade    == \A r \in Reqs : object[r] <= current

HealthInv ==
  /\ TypeOK
  /\ \A o \in Objects : Sound(channel[o])
  /\ TrialsAreCounted
  /\ TrialsAreUnderWay
  /\ ObjectsAreMade

\* the counted trials of an object are its holders, a finite set
LEMMA HoldersFacts ==
  ASSUME TrialsAreCounted, NEW o \in Objects
  PROVE  IsFiniteSet(Holders(o)) /\ channel[o].trials = Cardinality(Holders(o))
<1>1. Holders(o) \subseteq Reqs
  BY DEF Holders
<1> QED
  BY <1>1, FS_Subset, RequestsAssumption DEF TrialsAreCounted, Holders

\* the first state
LEMMA HealthInit == Init => HealthInv
<1> SUFFICES ASSUME Init
             PROVE  HealthInv
  OBVIOUS
<1>1. 1 \in Objects
  BY ObjectsAssumption DEF Objects
<1>2. Sound(Healthy)
  BY HealthyFacts
<1>3. \A o \in Objects : channel[o] = Healthy /\ Sound(channel[o])
  BY <1>2 DEF Init
<1>4. TypeOK
  BY <1>1, <1>2 DEF Init, TypeOK, Sound, Channels
<1>5. TrialsAreCounted
  <2> SUFFICES ASSUME NEW o \in Objects
               PROVE  channel[o].trials = Cardinality({r \in Reqs : trial[r] /\ object[r] = o})
    BY DEF TrialsAreCounted
  <2>1. {r \in Reqs : trial[r] /\ object[r] = o} = {}
    BY DEF Init
  <2>2. channel[o].trials = 0
    BY <1>3 DEF Healthy
  <2> QED
    BY <2>1, <2>2, FS_EmptySet
<1>6. TrialsAreUnderWay /\ ObjectsAreMade
  BY DEF Init, TrialsAreUnderWay, ObjectsAreMade
<1> QED
  BY <1>3, <1>4, <1>5, <1>6 DEF HealthInv

\* the object an attempt ends with, before the verdict, is sound
LEMMA ReturnedFacts ==
  ASSUME HealthInv, NEW r \in Reqs
  PROVE  Sound(Returned(r))
<1> DEFINE c == channel[object[r]]
<1>1. Sound(c)
  BY DEF HealthInv, TypeOK
<1>2. CASE ReleasesTrial(r)
  <2>1. c.trials - 1 \in 0..HalfOpenMaxInFlight
    BY <1>1, <1>2, TimesFacts DEF ReleasesTrial, Sound, Channels
  <2>2. Sound([c EXCEPT !.trials = @ - 1])
    BY <1>1, <2>1 DEF Sound, Channels, Windowed, Bounded, coolingDown
  <2> QED
    BY <1>2, <2>2 DEF Returned
<1>3. CASE ~ReleasesTrial(r)
  BY <1>1, <1>3 DEF Returned
<1> QED
  BY <1>2, <1>3

\* an attempt ends: its slot goes back, and its object takes the verdict
LEMMA EndKeepsInv ==
  ASSUME HealthInv, NEW r \in Reqs, at[r] # "idle",
         NEW c, Sound(c), c.trials = Returned(r).trials, End(r, c)
  PROVE  HealthInv'
<1> DEFINE o == object[r]
<1>1. /\ TypeOK /\ o \in Objects /\ 1 \in Objects
      /\ channel \in [Objects -> Channels]
  <2>1. 1 \in Objects
    BY ObjectsAssumption DEF Objects
  <2>2. TypeOK /\ channel \in [Objects -> Channels] /\ object \in [Reqs -> Objects]
    BY DEF HealthInv, TypeOK, Channels
  <2> QED
    BY <2>1, <2>2
<1>2. /\ channel' = [channel EXCEPT ![o] = c]
      /\ at' = [at EXCEPT ![r] = "idle"]
      /\ object' = [object EXCEPT ![r] = 1]
      /\ trial' = [trial EXCEPT ![r] = FALSE]
      /\ current' = current /\ probe' = probe
  BY DEF End
<1>3. \A p \in Objects : Sound(channel[p])'
  BY <1>1, <1>2 DEF HealthInv, Sound, Windowed, Bounded, coolingDown
<1>4. TypeOK'
  BY <1>1, <1>2 DEF TypeOK, Sound, Channels
<1>5. TrialsAreUnderWay' /\ ObjectsAreMade'
  BY <1>1, <1>2 DEF HealthInv, TrialsAreUnderWay, ObjectsAreMade, TypeOK, Objects
<1>6. TrialsAreCounted'
  <2> SUFFICES ASSUME NEW p \in Objects
               PROVE  channel'[p].trials = Cardinality(Holders(p)')
    BY DEF TrialsAreCounted, Holders
  <2>1. Holders(p)' = Holders(p) \ {r}
    BY <1>1, <1>2 DEF Holders, TypeOK
  <2>2. IsFiniteSet(Holders(p)) /\ channel[p].trials = Cardinality(Holders(p))
    BY HoldersFacts DEF HealthInv
  <2>3. CASE p = o /\ trial[r]
    <3>1. r \in Holders(p)
      BY <2>3 DEF Holders
    <3>2. Cardinality(Holders(p) \ {r}) = Cardinality(Holders(p)) - 1
      BY <2>2, <3>1, FS_RemoveElement
    <3>3. channel[p].trials > 0
      BY <2>2, <3>1, FS_EmptySet, FS_CardinalityType
    <3>4. Returned(r).trials = channel[p].trials - 1
      BY <1>1, <2>3, <3>3 DEF Returned, ReleasesTrial, Channels
    <3> QED
      BY <1>1, <1>2, <2>1, <2>2, <2>3, <3>2, <3>4
  <2>4. CASE p = o /\ ~trial[r]
    <3>1. Holders(p)' = Holders(p)
      BY <2>1, <2>4 DEF Holders
    <3>2. Returned(r).trials = channel[p].trials
      BY <2>4 DEF Returned, ReleasesTrial
    <3> QED
      BY <1>1, <1>2, <2>2, <2>4, <3>1, <3>2
  <2>5. CASE p # o
    <3>1. Holders(p)' = Holders(p)
      BY <2>1, <2>5 DEF Holders
    <3> QED
      BY <1>1, <1>2, <2>2, <2>5, <3>1
  <2> QED
    BY <2>3, <2>4, <2>5
<1> QED
  BY <1>3, <1>4, <1>5, <1>6 DEF HealthInv

\* a step that changes objects and nothing the attempts hold
LEMMA ObjectsStepKeepsInv ==
  ASSUME HealthInv, UNCHANGED <<current, at, object, trial>>,
         NEW o \in Objects, NEW c, Sound(c), c.trials = channel[o].trials,
         channel' = [channel EXCEPT ![o] = c],
         probe' \in [kind : {"none", "chat", "models", "void"}, object : Objects]
  PROVE  HealthInv'
<1>1. TypeOK /\ channel \in [Objects -> Channels]
  BY DEF HealthInv, TypeOK, Channels
<1>2. \A p \in Objects : Sound(channel[p])' /\ channel'[p].trials = channel[p].trials
  BY <1>1 DEF HealthInv, Sound, Windowed, Bounded, coolingDown
<1>3. TypeOK'
  BY <1>1 DEF TypeOK, Sound, Channels
<1>4. TrialsAreCounted'
  BY <1>2 DEF HealthInv, TrialsAreCounted
<1>5. TrialsAreUnderWay' /\ ObjectsAreMade'
  BY DEF HealthInv, TrialsAreUnderWay, ObjectsAreMade
<1> QED
  BY <1>2, <1>3, <1>4, <1>5 DEF HealthInv

\* an attempt ends with a failure of any kind
LEMMA FailKeepsInv ==
  ASSUME HealthInv, NEW r \in Reqs, at[r] # "idle", NEW kind, FailWith(r, kind)
  PROVE  HealthInv'
<1>1. Sound(Returned(r))
  BY ReturnedFacts
<1> DEFINE c == IF kind \in {"client_abort", "overloaded"} THEN Returned(r)
                ELSE markFailure(Returned(r), kind, InFlightBeside(r))
<1>2. Sound(c) /\ c.trials = Returned(r).trials
  BY <1>1, FailureFacts
<1>3. End(r, c)
  BY DEF FailWith
<1> HIDE DEF c
<1> QED
  BY <1>2, <1>3, EndKeepsInv

\* every action keeps the invariant
LEMMA HealthNext == HealthInv /\ [Next]_vars => HealthInv'
<1> SUFFICES ASSUME HealthInv, [Next]_vars
             PROVE  HealthInv'
  OBVIOUS
<1>t. /\ TypeOK /\ current \in Objects
      /\ channel \in [Objects -> Channels]
  BY DEF HealthInv, TypeOK, Channels
<1>1. ASSUME NEW r \in Reqs, StartFreely(r)
      PROVE  HealthInv'
  <2>1. TypeOK'
    BY <1>1 DEF HealthInv, TypeOK, StartFreely
  <2>2. \A o \in Objects : Sound(channel[o])'
    BY <1>1 DEF HealthInv, StartFreely, Sound, Windowed, Bounded, coolingDown
  <2>3. TrialsAreCounted'
    <3> SUFFICES ASSUME NEW o \in Objects
                 PROVE  channel'[o].trials = Cardinality(Holders(o)')
      BY DEF TrialsAreCounted, Holders
    <3>1. Holders(o)' = Holders(o)
      BY <1>1 DEF Holders, HealthInv, TypeOK, StartFreely, TrialsAreUnderWay
    <3> QED
      BY <1>1, <3>1, HoldersFacts DEF HealthInv, StartFreely
  <2>4. TrialsAreUnderWay'
    BY <1>1 DEF HealthInv, TypeOK, StartFreely, TrialsAreUnderWay
  <2>5. ObjectsAreMade'
    BY <1>1 DEF HealthInv, TypeOK, StartFreely, ObjectsAreMade, Objects
  <2> QED
    BY <2>1, <2>2, <2>3, <2>4, <2>5 DEF HealthInv
<1>2. ASSUME NEW r \in Reqs, StartTrial(r)
      PROVE  HealthInv'
  <2> DEFINE c == [channel[current] EXCEPT !.trials = @ + 1]
  <2>1. /\ Sound(channel[current]) /\ channel[current].trials + 1 \in 0..HalfOpenMaxInFlight
        /\ channel' = [channel EXCEPT ![current] = c]
    BY <1>t, <1>2, TimesFacts DEF HealthInv, StartTrial, Channels
  <2>2. Sound(c) /\ c.trials = channel[current].trials + 1
    BY <2>1 DEF Sound, Channels, Windowed, Bounded, coolingDown
  <2> HIDE DEF c
  <2>3. TypeOK'
    BY <1>t, <1>2, <2>1, <2>2 DEF TypeOK, StartTrial, Sound, Channels
  <2>4. \A o \in Objects : Sound(channel[o])'
    BY <1>t, <2>1, <2>2 DEF HealthInv, Sound, Windowed, Bounded, coolingDown
  <2>5. TrialsAreCounted'
    <3> SUFFICES ASSUME NEW o \in Objects
                 PROVE  channel'[o].trials = Cardinality(Holders(o)')
      BY DEF TrialsAreCounted, Holders
    <3>1. IsFiniteSet(Holders(o)) /\ channel[o].trials = Cardinality(Holders(o))
      BY HoldersFacts DEF HealthInv
    <3>2. CASE o = current
      <4>1. Holders(o)' = Holders(o) \cup {r}
        BY <1>2, <3>2 DEF Holders, TypeOK, HealthInv, StartTrial, TrialsAreUnderWay
      <4>2. r \notin Holders(o)
        BY <1>2 DEF Holders, HealthInv, StartTrial, TrialsAreUnderWay
      <4>3. Cardinality(Holders(o) \cup {r}) = Cardinality(Holders(o)) + 1
        BY <3>1, <4>2, FS_AddElement
      <4>4. channel'[o].trials = channel[o].trials + 1
        BY <1>t, <2>1, <2>2, <3>2
      <4> QED
        BY <3>1, <4>1, <4>3, <4>4
    <3>3. CASE o # current
      <4>1. Holders(o)' = Holders(o)
        BY <1>2, <3>3 DEF Holders, TypeOK, HealthInv, StartTrial, TrialsAreUnderWay
      <4> QED
        BY <1>t, <2>1, <3>1, <3>3, <4>1
    <3> QED
      BY <3>2, <3>3
  <2>6. TrialsAreUnderWay'
    BY <1>2 DEF HealthInv, TypeOK, StartTrial, TrialsAreUnderWay
  <2>7. ObjectsAreMade'
    BY <1>2 DEF HealthInv, TypeOK, StartTrial, ObjectsAreMade, Objects
  <2> QED
    BY <2>3, <2>4, <2>5, <2>6, <2>7 DEF HealthInv
<1>3. ASSUME NEW r \in Reqs, Send(r)
      PROVE  HealthInv'
  <2>1. TypeOK'
    BY <1>3 DEF HealthInv, TypeOK, Send
  <2>2. \A o \in Objects : Sound(channel[o])'
    BY <1>3 DEF HealthInv, Send, Sound, Windowed, Bounded, coolingDown
  <2>3. TrialsAreCounted' /\ ObjectsAreMade'
    BY <1>3 DEF HealthInv, TrialsAreCounted, ObjectsAreMade, Send
  <2>4. TrialsAreUnderWay'
    BY <1>3 DEF HealthInv, TypeOK, Send, TrialsAreUnderWay
  <2> QED
    BY <2>1, <2>2, <2>3, <2>4 DEF HealthInv
<1>4. ASSUME NEW r \in Reqs, Succeed(r)
      PROVE  HealthInv'
  <2>1. Sound(markSuccess(Returned(r))) /\ markSuccess(Returned(r)).trials = Returned(r).trials
    BY ReturnedFacts, UncoolFacts DEF markSuccess
  <2> QED
    BY <1>4, <2>1, EndKeepsInv DEF Succeed
<1>5. ASSUME NEW r \in Reqs, FailQueued(r)
      PROVE  HealthInv'
  BY <1>5, FailKeepsInv DEF FailQueued
<1>6. ASSUME NEW r \in Reqs, FailSent(r)
      PROVE  HealthInv'
  BY <1>6, FailKeepsInv DEF FailSent
<1>7. ASSUME ProbeStart
      PROVE  HealthInv'
  <2>1. ProbeKind(channel[current]) \in {"none", "chat", "models", "void"}
    BY DEF ProbeKind
  <2>2. TypeOK'
    BY <1>t, <1>7, <2>1 DEF TypeOK, ProbeStart
  <2>3. \A o \in Objects : Sound(channel[o])'
    BY <1>7 DEF HealthInv, ProbeStart, Sound, Windowed, Bounded, coolingDown
  <2>4. TrialsAreCounted' /\ TrialsAreUnderWay' /\ ObjectsAreMade'
    BY <1>7 DEF HealthInv, TrialsAreCounted, TrialsAreUnderWay, ObjectsAreMade, ProbeStart
  <2> QED
    BY <2>2, <2>3, <2>4 DEF HealthInv
<1>8. ASSUME NEW c, Sound(c), c.trials = channel[probe.object].trials, ProbeDone(c)
      PROVE  HealthInv'
  <2>1. probe.object \in Objects
    BY <1>t DEF TypeOK
  <2>2. 1 \in Objects
    BY ObjectsAssumption DEF Objects
  <2>3. /\ channel' = [channel EXCEPT ![probe.object] = c]
        /\ UNCHANGED <<current, at, object, trial>>
        /\ probe' \in [kind : {"none", "chat", "models", "void"}, object : Objects]
    BY <1>8, <2>2 DEF ProbeDone
  <2> QED
    BY <1>8, <2>1, <2>3, ObjectsStepKeepsInv
<1>9. ASSUME ProbeOk
      PROVE  HealthInv'
  <2>1. Sound(channel[probe.object])
    BY <1>t DEF HealthInv, TypeOK
  <2> QED
    BY <1>8, <1>9, <2>1, UncoolFacts DEF ProbeOk
<1>10. ASSUME ProbeFail
       PROVE  HealthInv'
  <2> DEFINE c == channel[probe.object]
  <2>1. Sound(c)
    BY <1>t DEF HealthInv, TypeOK
  <2>2. ASSUME NEW d, Sound(d)
        PROVE  Sound(ProbeFailed(d)) /\ ProbeFailed(d).trials = d.trials
    <3>1. Smaller(Cooldown, ProbeCooldownMax) \in Longest
      BY DEF Longest
    <3> QED
      BY <2>2, <3>1, CoolFacts DEF ProbeFailed
  <2>3. CASE ProbeDone(ProbeFailed(c))
    BY <1>8, <2>1, <2>2, <2>3
  <2>4. ASSUME NEW kind, ProbeDone(ProbeFailed(markFailure(c, kind, 1)))
        PROVE  HealthInv'
    <3>1. Sound(markFailure(c, kind, 1)) /\ markFailure(c, kind, 1).trials = c.trials
      BY <2>1, FailureFacts
    <3> QED
      BY <1>8, <2>2, <2>4, <3>1
  <2> QED
    BY <1>10, <2>3, <2>4 DEF ProbeFail
<1>11. ASSUME NEW c, Sound(c), c.trials = 0, Replace(c)
       PROVE  HealthInv'
  <2>1. Sound(c) /\ c.trials = 0
    BY <1>11
  <2>2. /\ current + 1 \in Objects /\ current \in Nat
        /\ current' = current + 1
        /\ channel' = [channel EXCEPT ![current + 1] = c]
        /\ UNCHANGED <<at, object, trial, probe>>
    BY <1>t, <1>11, ObjectsAssumption DEF Replace, Objects
  <2>3. TypeOK'
    BY <1>t, <2>1, <2>2 DEF TypeOK, Sound, Channels
  <2>4. \A o \in Objects : Sound(channel[o])'
    BY <1>t, <2>1, <2>2 DEF HealthInv, Sound, Windowed, Bounded, coolingDown
  <2>5. ObjectsAreMade'
    BY <1>t, <2>2 DEF HealthInv, TypeOK, ObjectsAreMade, Objects
  <2>6. TrialsAreCounted'
    <3> SUFFICES ASSUME NEW o \in Objects
                 PROVE  channel'[o].trials = Cardinality(Holders(o))
      BY <2>2 DEF TrialsAreCounted, Holders
    <3>1. CASE o = current + 1
      <4>1. Holders(o) = {}
        BY <1>t, <2>2, <3>1 DEF HealthInv, TypeOK, ObjectsAreMade, Holders, Objects
      <4> QED
        BY <1>t, <2>1, <2>2, <3>1, <4>1, FS_EmptySet
    <3>2. CASE o # current + 1
      BY <1>t, <2>2, <3>2, HoldersFacts DEF HealthInv
    <3> QED
      BY <3>1, <3>2
  <2>7. TrialsAreUnderWay'
    BY <2>2 DEF HealthInv, TrialsAreUnderWay
  <2> QED
    BY <2>3, <2>4, <2>5, <2>6, <2>7 DEF HealthInv
<1>14. ASSUME Reload \/ Move
       PROVE  HealthInv'
  <2>1. Sound(Inherited(channel[current])) /\ Inherited(channel[current]).trials = 0
    BY <1>t, InheritedFacts DEF HealthInv
  <2>2. Sound(Healthy) /\ Healthy.trials = 0
    BY HealthyFacts DEF Healthy
  <2> QED
    BY <1>11, <1>14, <2>1, <2>2 DEF Reload, Move
<1>12. ASSUME Tick
       PROVE  HealthInv'
  <2> DEFINE later(c) == [c EXCEPT !.open = Elapsed(@), !.probe = Elapsed(@), !.dedup = Elapsed(@)]
  <2>1. ASSUME NEW o \in Objects
        PROVE  Sound(later(channel[o])) /\ later(channel[o]).trials = channel[o].trials
    BY ElapsedFacts DEF HealthInv
  <2>2. /\ channel' = [o \in Objects |-> later(channel[o])]
        /\ UNCHANGED <<current, at, object, trial, probe>>
    BY <1>12 DEF Tick
  <2> HIDE DEF later
  <2>3. \A o \in Objects : Sound(channel[o])' /\ channel'[o].trials = channel[o].trials
    BY <2>1, <2>2 DEF Sound, Windowed, Bounded, coolingDown
  <2>4. TypeOK'
    BY <1>t, <2>1, <2>2 DEF TypeOK, Sound, Channels
  <2>5. TrialsAreCounted'
    BY <2>2, <2>3 DEF HealthInv, TrialsAreCounted
  <2>6. TrialsAreUnderWay' /\ ObjectsAreMade'
    BY <2>2 DEF HealthInv, TrialsAreUnderWay, ObjectsAreMade
  <2> QED
    BY <2>3, <2>4, <2>5, <2>6 DEF HealthInv
<1>13. CASE UNCHANGED vars
  <2>1. TypeOK'
    BY <1>13, <1>t DEF TypeOK, vars
  <2>2. \A o \in Objects : Sound(channel[o])'
    BY <1>13 DEF HealthInv, vars, Sound, Windowed, Bounded, coolingDown
  <2>3. TrialsAreCounted' /\ TrialsAreUnderWay' /\ ObjectsAreMade'
    BY <1>13 DEF HealthInv, vars, TrialsAreCounted, TrialsAreUnderWay, ObjectsAreMade
  <2> QED
    BY <2>1, <2>2, <2>3 DEF HealthInv
<1> QED
  BY <1>1, <1>2, <1>3, <1>4, <1>5, <1>6, <1>7, <1>9, <1>10, <1>12, <1>13, <1>14 DEF Next

-----------------------------------------------------------------------------
(* No shortcut back: how an object in a cooldown or its window may change. *)

\* an object that cools, or whose window is open, is not let go
Kept(c, d) ==
  /\ coolingDown(c) => coolingDown(d)
  /\ halfOpen(c) => halfOpen(d) \/ coolingDown(d)

\* the times of the property: none of them switched off
LongTimes == Cooldown > 0 /\ MaxCooldown > 0 /\ HalfOpenMs > 0

NoShortcut ==
  LET c == channel[current]
      d == channel'[current']
  IN  Cooldown > 0 /\ MaxCooldown > 0 /\ HalfOpenMs > 0 =>
        /\ coolingDown(c) =>
             coolingDown(d) \/ (Tick /\ halfOpen(d)) \/ Answered \/ Move
        /\ halfOpen(c) =>
             halfOpen(d) \/ coolingDown(d) \/ Tick \/ Answered \/ Move

\* the same times keep an object where it is
LEMMA SameTimesKept ==
  ASSUME NEW c, NEW d, d.open = c.open, d.probe = c.probe
  PROVE  Kept(c, d)
BY DEF Kept, coolingDown, halfOpen

\* cooling on, for whatever time, ends nothing
LEMMA CoolKept ==
  ASSUME LongTimes, NEW c, Sound(c), NEW ms \in Longest
  PROVE  Kept(c, cool(c, ms))
<1> DEFINE open == Larger(c.open, ms)
<1>1. /\ c \in Channels /\ ms \in Nat
      /\ open \in Nat /\ open >= c.open
  BY TimesFacts DEF Sound, Channels, Larger
<1>2. cool(c, ms).open = open /\ cool(c, ms).probe = WindowAfter(open)
  BY <1>1 DEF cool, Channels
<1>3. WindowAfter(open) > 0
  BY <1>1, TimesFacts DEF WindowAfter, LongTimes
<1> HIDE DEF open
<1> QED
  BY <1>1, <1>2, <1>3 DEF Kept, coolingDown, halfOpen, Channels

\* the back-off that is assigned is never no cooldown at all
LEMMA BackoffPositive ==
  ASSUME LongTimes, NEW n \in Nat, n >= FailThreshold
  PROVE  Backoff(n) > 0
<1> DEFINE growth == Smaller(n - FailThreshold, 3)
<1>1. growth \in 0..3
  BY TimesFacts DEF Smaller
<1> HIDE DEF growth
<1> DEFINE factor == 2 ^ growth
<1>2. factor \in Nat /\ factor > 0
  BY <1>1, DoublingFacts
<1>3. Backoff(n) = Smaller(Cooldown * factor, MaxCooldown)
  BY DEF Backoff, growth
<1> HIDE DEF factor
<1>4. Cooldown * factor > 0
  BY <1>2, TimesFacts DEF LongTimes
<1> QED
  BY <1>3, <1>4, TimesFacts DEF Smaller, LongTimes

\* a counted failure: the back-off it assigns is a cooldown again
LEMMA TripKept ==
  ASSUME LongTimes, NEW c, Sound(c)
  PROVE  Kept(c, Trip(c))
<1> DEFINE d == [Counted(c) EXCEPT !.dedup = FailDedup]
           open == Backoff(d.failures)
<1>1. /\ c \in Channels /\ d \in Channels /\ d.failures \in Nat
      /\ d.open = c.open /\ d.probe = c.probe
  <2>1. c \in Channels /\ Counted(c) \in Channels
    BY CountedFacts DEF Sound
  <2>2. Counted(c).open = c.open /\ Counted(c).probe = c.probe
    BY <2>1 DEF Counted, Channels
  <2>3. /\ d \in Channels
        /\ d.open = Counted(c).open /\ d.probe = Counted(c).probe
    BY <2>1, TimesFacts DEF Channels
  <2>4. d.failures \in Nat
    BY <2>3, TimesFacts DEF Channels, MaxFailures
  <2> QED
    BY <2>1, <2>2, <2>3, <2>4
<1>2. CASE d.failures < FailThreshold
  <2>1. Trip(c) = d
    BY <1>2 DEF Trip
  <2> QED
    BY <1>1, <2>1, SameTimesKept
<1>3. CASE ~(d.failures < FailThreshold)
  <2>1. Trip(c) = [d EXCEPT !.open = open, !.probe = WindowAfter(open)]
    BY <1>3 DEF Trip
  <2> HIDE DEF d
  <2>2. open > 0
    BY <1>1, <1>3, BackoffPositive, TimesFacts
  <2> HIDE DEF open
  <2>3. Trip(c).open = open
    BY <1>1, <2>1 DEF Channels
  <2> QED
    BY <2>2, <2>3 DEF Kept, coolingDown
<1> QED
  BY <1>2, <1>3

LEMMA FailureKept ==
  ASSUME LongTimes, NEW c, Sound(c), NEW kind, NEW n
  PROVE  Kept(c, markFailure(c, kind, n))
<1>1. ASSUME NEW ms \in Longest
      PROVE  Kept(c, Counted(cool(c, ms)))
  <2>1. Sound(cool(c, ms)) /\ Kept(c, cool(c, ms))
    BY CoolFacts, CoolKept
  <2>2. /\ Counted(cool(c, ms)).open = cool(c, ms).open
        /\ Counted(cool(c, ms)).probe = cool(c, ms).probe
    BY <2>1 DEF Counted, Sound, Channels
  <2> QED
    BY <2>1, <2>2 DEF Kept, coolingDown, halfOpen
<1>2. CASE kind = "rate_limit"
  BY <1>2, SameTimesKept DEF markFailure
<1>3. CASE kind = "insufficient_balance"
  <2>1. markFailure(c, kind, n) = Counted(cool(c, BalanceCooldown))
    BY <1>3 DEF markFailure
  <2> QED
    BY <1>1, <2>1 DEF Longest
<1>4. CASE kind = "auth"
  <2>1. markFailure(c, kind, n) = Counted(cool(c, AuthCooldown))
    BY <1>4 DEF markFailure
  <2> QED
    BY <1>1, <2>1 DEF Longest
<1>5. CASE kind \notin {"rate_limit", "insufficient_balance", "auth"}
  <2>1. markFailure(c, kind, n) = IF Deduplicated(c, n) THEN c ELSE Trip(c)
    BY <1>5 DEF markFailure
  <2> QED
    BY <2>1, TripKept, SameTimesKept
<1> QED
  BY <1>2, <1>3, <1>4, <1>5

\* a step on the object in use or another one, or on none
LEMMA KeptOrAnswered ==
  ASSUME HealthInv, LongTimes, [Next]_vars, ~Tick, ~Move, ~Answered
  PROVE  Kept(channel[current], channel'[current'])
<1>t. /\ channel \in [Objects -> Channels] /\ current \in Objects
      /\ object \in [Reqs -> Objects] /\ probe.object \in Objects
      /\ \A o \in Objects : Sound(channel[o])
  BY DEF HealthInv, TypeOK, Channels
<1>o. ASSUME NEW o \in Objects, NEW c, channel' = [channel EXCEPT ![o] = c],
             current' = current, o = current => Kept(channel[current], c)
      PROVE  Kept(channel[current], channel'[current'])
  BY <1>t, <1>o, SameTimesKept
<1>r. ASSUME NEW r \in Reqs
      PROVE  /\ Sound(Returned(r))
             /\ Returned(r).open = channel[object[r]].open
             /\ Returned(r).probe = channel[object[r]].probe
  <2>1. channel[object[r]] \in Channels
    BY <1>t
  <2> QED
    BY <2>1, ReturnedFacts DEF Returned, Channels
<1>f. ASSUME NEW r \in Reqs, NEW kind, FailWith(r, kind)
      PROVE  Kept(channel[current], channel'[current'])
  <2> DEFINE c == IF kind \in {"client_abort", "overloaded"} THEN Returned(r)
                  ELSE markFailure(Returned(r), kind, InFlightBeside(r))
  <2>1. /\ object[r] \in Objects /\ current' = current
        /\ channel' = [channel EXCEPT ![object[r]] = c]
    BY <1>t, <1>f DEF FailWith, End
  <2>2. Kept(Returned(r), c)
    BY <1>r, FailureKept, SameTimesKept
  <2> HIDE DEF c
  <2>3. Kept(channel[object[r]], c)
    BY <1>r, <2>2 DEF Kept, coolingDown, halfOpen
  <2> QED
    BY <1>o, <2>1, <2>3
<1>1. ASSUME NEW r \in Reqs, StartFreely(r) \/ Send(r)
      PROVE  Kept(channel[current], channel'[current'])
  <2>1. channel'[current'] = channel[current]
    BY <1>1 DEF StartFreely, Send
  <2> QED
    BY <2>1, SameTimesKept
<1>2. ASSUME NEW r \in Reqs, StartTrial(r)
      PROVE  Kept(channel[current], channel'[current'])
  <2>1. /\ channel'[current'].open = channel[current].open
        /\ channel'[current'].probe = channel[current].probe
    BY <1>t, <1>2 DEF StartTrial, Channels
  <2> QED
    BY <2>1, SameTimesKept
<1>3. ASSUME NEW r \in Reqs, Succeed(r)
      PROVE  Kept(channel[current], channel'[current'])
  <2>1. object[r] # current
    BY <1>3 DEF Answered
  <2>2. object[r] \in Objects
    BY <1>t
  <2> QED
    BY <1>o, <1>3, <2>1, <2>2 DEF Succeed, End
<1>4. ASSUME NEW r \in Reqs, FailQueued(r) \/ FailSent(r)
      PROVE  Kept(channel[current], channel'[current'])
  BY <1>f, <1>4 DEF FailQueued, FailSent
<1>5. ASSUME ProbeStart \/ UNCHANGED vars
      PROVE  Kept(channel[current], channel'[current'])
  <2>1. channel'[current'] = channel[current]
    BY <1>5 DEF ProbeStart, vars
  <2> QED
    BY <2>1, SameTimesKept
<1>6. ASSUME ProbeOk
      PROVE  Kept(channel[current], channel'[current'])
  BY <1>t, <1>o, <1>6 DEF Answered, ProbeOk, ProbeDone
<1>7. ASSUME ProbeFail
      PROVE  Kept(channel[current], channel'[current'])
  <2> DEFINE c == channel[probe.object]
  <2>1. Smaller(Cooldown, ProbeCooldownMax) \in Longest
    BY DEF Longest
  <2>2. ASSUME NEW d, Sound(d), Kept(c, d), ProbeDone(ProbeFailed(d))
        PROVE  Kept(channel[current], channel'[current'])
    <3>1. Kept(d, ProbeFailed(d))
      BY <2>1, <2>2, CoolKept DEF ProbeFailed
    <3>2. Kept(c, ProbeFailed(d))
      BY <2>2, <3>1 DEF Kept
    <3> QED
      BY <1>t, <1>o, <2>2, <3>2 DEF ProbeDone
  <2>3. Sound(c) /\ Kept(c, c)
    BY <1>t, SameTimesKept
  <2>4. ASSUME NEW kind
        PROVE  Sound(markFailure(c, kind, 1)) /\ Kept(c, markFailure(c, kind, 1))
    BY <2>3, FailureFacts, FailureKept
  <2> QED
    BY <1>7, <2>2, <2>3, <2>4 DEF ProbeFail
<1>8. ASSUME Reload
      PROVE  Kept(channel[current], channel'[current'])
  <2> DEFINE c == Inherited(channel[current])
  <2>1. current + 1 \in Objects
    BY <1>t, <1>8, ObjectsAssumption DEF Reload, Replace, Objects
  <2>2. channel'[current'] = c
    BY <1>t, <1>8, <2>1 DEF Reload, Replace
  <2>3. c.open = channel[current].open /\ c.probe = channel[current].probe
    BY <1>t DEF Inherited, Channels
  <2> QED
    BY <2>2, <2>3, SameTimesKept
<1> QED
  BY <1>1, <1>2, <1>3, <1>4, <1>5, <1>6, <1>7, <1>8 DEF Next

\* time ends a cooldown in the window, not beside it
LEMMA TickKept ==
  ASSUME HealthInv, LongTimes, Tick, coolingDown(channel[current])
  PROVE  coolingDown(channel'[current']) \/ halfOpen(channel'[current'])
<1> DEFINE c == channel[current]
<1>1. /\ c \in Channels /\ current \in Objects /\ c.open > 0
      /\ c.probe = c.open + HalfOpenMs
  BY DEF HealthInv, TypeOK, Sound, Windowed, LongTimes, coolingDown, Channels
<1>2. /\ channel'[current'].open = Elapsed(c.open)
      /\ channel'[current'].probe = Elapsed(c.probe)
  BY <1>1 DEF Tick, Channels
<1>3. Elapsed(c.open) \in Nat /\ Elapsed(c.probe) > 0
  BY <1>1, TimesFacts DEF Elapsed, Channels, LongTimes
<1> QED
  BY <1>2, <1>3 DEF coolingDown, halfOpen

LEMMA NoShortcutStep ==
  ASSUME HealthInv, [Next]_vars
  PROVE  NoShortcut
BY KeptOrAnswered, TickKept DEF NoShortcut, Kept, LongTimes

-----------------------------------------------------------------------------
(* The theorems.                                                           *)

(* The inductive invariant of Channel, its attempts, its probe and its     *)
(* reloads holds in every reachable state.                                 *)
THEOREM HealthSafe == Spec => []HealthInv
BY HealthInit, HealthNext, PTL DEF Spec

(* The state of every channel has its type: the trials never exceed        *)
(* halfOpenMaxInFlight, and no count falls below 0.                        *)
THEOREM HealthTyped == Spec => []TypeOK
<1>1. HealthInv => TypeOK
  BY DEF HealthInv
<1> QED
  BY <1>1, HealthSafe, PTL

(* halfOpenInFlight of every object is the number of attempts that hold    *)
(* one of its slots, however attempts and reloads interleave.              *)
THEOREM TrialsExact == Spec => []TrialsAreCounted
<1>1. HealthInv => TrialsAreCounted
  BY DEF HealthInv
<1> QED
  BY <1>1, HealthSafe, PTL

(* Every cooldown of a channel is followed by its whole half-open window,  *)
(* and none is longer than the longest configured one.                     *)
THEOREM WindowFollows == Spec => []CooldownLeadsToHalfOpen
<1>1. HealthInv => CooldownLeadsToHalfOpen
  BY DEF HealthInv, Sound, Windowed, Bounded, Longest, CooldownLeadsToHalfOpen
<1> QED
  BY <1>1, HealthSafe, PTL

(* What ends the cooldown or the window of the object in use is time, a    *)
(* good answer through that object, or the move to another account.        *)
THEOREM BackTheLongWay == Spec => NoShortcutBack
<1>1. HealthInv /\ [Next]_vars => [NoShortcut]_vars
  BY NoShortcutStep
<1> QED
  BY <1>1, HealthSafe, PTL DEF Spec, NoShortcutBack, NoShortcut
=============================================================================
