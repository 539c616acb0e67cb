------------------------ MODULE GatewayLimiterProofs ------------------------
(***************************************************************************)
(* Proofs about GatewayLimiter.tla, for any finite set of calls, any       *)
(* agents, channels and limits, and any number of reloads: no slot leaks   *)
(* at any level, a backlog holds nothing shared, one quota for each agent, *)
(* and a reload keeps the count of what is running.                        *)
(***************************************************************************)
EXTENDS GatewayLimiter, FiniteSetTheorems, FunctionTheorems, SequenceTheorems,
        WellFoundedInduction, TLAPS

Limits == Nat \ {0}

\* the Semaphore objects of the heap
Sems == [limit : Limits, active : Nat, queue : Seq(Reqs)]

-----------------------------------------------------------------------------
(* What the methods do to one object.                                      *)

\* an immediate acquire() keeps the queue as it is
LEMMA EnterFacts ==
  ASSUME NEW s \in Sems
  PROVE  /\ Enter(s) \in Sems
         /\ Enter(s).active = s.active + 1
         /\ Enter(s).limit = s.limit
         /\ Enter(s).queue = s.queue
BY DEF Enter, Sems

\* joining the queue adds one waiter, at its end
LEMMA EnqueueFacts ==
  ASSUME NEW s \in Sems, NEW r \in Reqs, Distinct(s), r \notin Waiters(s)
  PROVE  /\ Enqueue(s, r) \in Sems
         /\ Enqueue(s, r).active = s.active
         /\ Enqueue(s, r).limit = s.limit
         /\ Distinct(Enqueue(s, r))
         /\ Waiters(Enqueue(s, r)) = Waiters(s) \cup {r}
<1> DEFINE q == s.queue
           t == Append(q, r)
<1>1. q \in Seq(Reqs) /\ Len(q) \in Nat
  BY DEF Sems
<1>2. /\ t \in Seq(Reqs)
      /\ Len(t) = Len(q) + 1
      /\ \A i \in 1..Len(q) : t[i] = q[i]
      /\ t[Len(q) + 1] = r
  BY <1>1
<1>3. /\ Enqueue(s, r).queue = t
      /\ Enqueue(s, r).active = s.active
      /\ Enqueue(s, r).limit = s.limit
      /\ Enqueue(s, r) \in Sems
  BY <1>2 DEF Enqueue, Sems
<1>4. \A i \in 1..Len(q) : q[i] # r
  BY DEF Waiters
<1> HIDE DEF t
<1>5. Distinct(Enqueue(s, r))
  BY <1>1, <1>2, <1>3, <1>4, SMTT(30) DEF Distinct
<1>6. Waiters(Enqueue(s, r)) = Waiters(s) \cup {r}
  <2>1. {t[i] : i \in 1..Len(t)} = {q[i] : i \in 1..Len(q)} \cup {r}
    BY <1>1, <1>2, SMTT(30)
  <2> QED
    BY <2>1, <1>3 DEF Waiters
<1> QED
  BY <1>3, <1>5, <1>6

\* a timed-out waiter leaves the queue, and only it
LEMMA AbandonFacts ==
  ASSUME NEW s \in Sems, NEW r \in Waiters(s), Distinct(s)
  PROVE  /\ Abandon(s, r) \in Sems
         /\ Abandon(s, r).active = s.active
         /\ Abandon(s, r).limit = s.limit
         /\ Distinct(Abandon(s, r))
         /\ Waiters(Abandon(s, r)) = Waiters(s) \ {r}
<1> DEFINE q == s.queue
           k == CHOOSE j \in 1..Len(q) : q[j] = r
           t == SubSeq(q, 1, k - 1) \o SubSeq(q, k + 1, Len(q))
<1>1. q \in Seq(Reqs) /\ Len(q) \in Nat /\ \A i \in 1..Len(q) : q[i] \in Reqs
  BY DEF Sems
<1>2. k \in 1..Len(q) /\ q[k] = r
  BY DEF Waiters
<1> HIDE DEF k
<1>3. /\ SubSeq(q, 1, k - 1) \in Seq(Reqs)
      /\ Len(SubSeq(q, 1, k - 1)) = k - 1
      /\ \A i \in 1..(k - 1) : SubSeq(q, 1, k - 1)[i] = q[i]
  BY <1>1, <1>2
<1>4. /\ SubSeq(q, k + 1, Len(q)) \in Seq(Reqs)
      /\ Len(SubSeq(q, k + 1, Len(q))) = Len(q) - k
      /\ \A i \in 1..(Len(q) - k) : SubSeq(q, k + 1, Len(q))[i] = q[k + i]
  BY <1>1, <1>2
<1>5. /\ t \in Seq(Reqs)
      /\ Len(t) = Len(q) - 1
      /\ \A i \in 1..(Len(q) - 1) : t[i] = IF i < k THEN q[i] ELSE q[i + 1]
  <2> DEFINE a == SubSeq(q, 1, k - 1)
             b == SubSeq(q, k + 1, Len(q))
  <2>1. /\ a \in Seq(Reqs) /\ Len(a) = k - 1 /\ \A i \in 1..(k - 1) : a[i] = q[i]
        /\ b \in Seq(Reqs) /\ Len(b) = Len(q) - k
        /\ \A i \in 1..(Len(q) - k) : b[i] = q[k + i]
    BY <1>3, <1>4
  <2> HIDE DEF a, b
  <2>2. /\ a \o b \in Seq(Reqs)
        /\ Len(a \o b) = Len(a) + Len(b)
        /\ \A i \in 1..(Len(a) + Len(b)) :
              (a \o b)[i] = IF i <= Len(a) THEN a[i] ELSE b[i - Len(a)]
    BY <2>1, ConcatProperties
  <2>5. Len(a) + Len(b) = Len(q) - 1 /\ Len(q) \in Nat /\ k \in 1..Len(q)
    BY <1>1, <1>2, <2>1
  <2>3. ASSUME NEW i \in 1..(Len(q) - 1)
        PROVE  (a \o b)[i] = IF i < k THEN q[i] ELSE q[i + 1]
    <3>1. (a \o b)[i] = IF i <= k - 1 THEN a[i] ELSE b[i - (k - 1)]
      BY <2>1, <2>2, <2>5
    <3>2. CASE i < k
      <4>1. i \in 1..(k - 1) /\ i <= k - 1
        BY <2>5, <3>2
      <4> QED
        BY <2>1, <3>1, <3>2, <4>1
    <3>3. CASE ~(i < k)
      <4>1. i - (k - 1) \in 1..(Len(q) - k) /\ ~(i <= k - 1) /\ k + (i - (k - 1)) = i + 1
        BY <2>5, <3>3
      <4> QED
        BY <2>1, <3>1, <3>3, <4>1
    <3> QED
      BY <3>2, <3>3
  <2>4. t = a \o b
    BY DEF a, b
  <2> HIDE DEF t
  <2> QED
    BY <2>2, <2>3, <2>4, <2>5
<1>6. /\ Abandon(s, r).queue = t
      /\ Abandon(s, r).active = s.active
      /\ Abandon(s, r).limit = s.limit
      /\ Abandon(s, r) \in Sems
  BY <1>5 DEF Abandon, Sems, k
<1> HIDE DEF t
<1>7. \A i, j \in 1..Len(q) : q[i] = q[j] => i = j
  BY DEF Distinct
<1>8. Distinct(Abandon(s, r))
  BY <1>1, <1>2, <1>5, <1>6, <1>7, SMTT(30) DEF Distinct
<1>9. Waiters(Abandon(s, r)) = Waiters(s) \ {r}
  <2>1. ASSUME NEW i \in 1..Len(t)
        PROVE  t[i] \in Waiters(s) /\ t[i] # r
    <3>1. PICK j \in 1..Len(q) : j # k /\ t[i] = q[j]
      BY <1>1, <1>2, <1>5
    <3> QED
      BY <1>2, <1>7, <3>1 DEF Waiters
  <2>2. ASSUME NEW w \in Waiters(s), w # r
        PROVE  \E i \in 1..Len(t) : t[i] = w
    <3>1. PICK j \in 1..Len(q) : q[j] = w
      BY DEF Waiters
    <3>2. CASE j < k
      BY <1>1, <1>2, <1>5, <3>1, <3>2
    <3>3. CASE j > k
      <4>1. j - 1 \in 1..Len(t) /\ t[j - 1] = w
        BY <1>1, <1>2, <1>5, <3>1, <3>3
      <4> QED
        BY <4>1
    <3> QED
      BY <1>1, <1>2, <2>2, <3>1, <3>2, <3>3
  <2>3. Waiters(Abandon(s, r)) = {t[i] : i \in 1..Len(t)}
    BY <1>6 DEF Waiters
  <2> QED
    BY <2>1, <2>2, <2>3
<1> QED
  BY <1>6, <1>8, <1>9

\* the handoff either passes the slot to the head of the queue or frees it
LEMMA HandoffFacts ==
  ASSUME NEW s \in Sems, s.active > 0, Distinct(s)
  PROVE  /\ Handoff(s) \in Sems
         /\ Handoff(s).limit = s.limit
         /\ Distinct(Handoff(s))
         /\ HandedTo(s) \subseteq Waiters(s)
         /\ Waiters(Handoff(s)) = Waiters(s) \ HandedTo(s)
         /\ IF HandsOver(s)
            THEN /\ \E w \in Waiters(s) : HandedTo(s) = {w}
                 /\ Handoff(s).active = s.active
            ELSE /\ HandedTo(s) = {}
                 /\ Handoff(s).active = s.active - 1
                 /\ Handoff(s).queue = s.queue
<1> DEFINE q == s.queue
           t == Tail(q)
<1>1. q \in Seq(Reqs) /\ Len(q) \in Nat
  BY DEF Sems
<1>2. CASE HandsOver(s)
  <2>1. q # <<>> /\ Len(q) > 0
    BY <1>1, <1>2 DEF HandsOver
  <2>2. /\ t \in Seq(Reqs)
        /\ Len(t) = Len(q) - 1
        /\ \A i \in 1..(Len(q) - 1) : t[i] = q[i + 1]
        /\ Head(q) = q[1]
    BY <1>1, <2>1
  <2>3. /\ Handoff(s).queue = t
        /\ Handoff(s).active = s.active
        /\ Handoff(s).limit = s.limit
        /\ Handoff(s) \in Sems
    BY <1>2, <2>2 DEF Handoff, Sems
  <2> HIDE DEF t
  <2>4. \A i, j \in 1..Len(q) : q[i] = q[j] => i = j
    BY DEF Distinct
  <2>5. Distinct(Handoff(s))
    BY <1>1, <2>1, <2>2, <2>3, <2>4 DEF Distinct
  <2>6. HandedTo(s) = {q[1]} /\ q[1] \in Waiters(s)
    BY <1>1, <1>2, <2>1, <2>2 DEF HandedTo, Waiters
  <2>7. {t[i] : i \in 1..Len(t)} = {q[i] : i \in 1..Len(q)} \ {q[1]}
    <3>1. \A i \in 1..Len(t) : /\ t[i] \in {q[j] : j \in 1..Len(q)}
                               /\ t[i] # q[1]
      BY <1>1, <2>1, <2>2, <2>4
    <3>2. ASSUME NEW j \in 1..Len(q), q[j] # q[1]
          PROVE  j - 1 \in 1..Len(t) /\ t[j - 1] = q[j]
      BY <1>1, <2>1, <2>2, <3>2
    <3> QED
      BY <3>1, <3>2, SMTT(30)
  <2>8. Waiters(Handoff(s)) = Waiters(s) \ HandedTo(s)
    BY <2>3, <2>6, <2>7 DEF Waiters
  <2> QED
    BY <1>2, <2>3, <2>5, <2>6, <2>8
<1>3. CASE ~HandsOver(s)
  <2>1. /\ Handoff(s).queue = q
        /\ Handoff(s).active = s.active - 1
        /\ Handoff(s).limit = s.limit
        /\ Handoff(s) \in Sems
    BY <1>3 DEF Handoff, Sems
  <2>2. HandedTo(s) = {}
    BY <1>3 DEF HandedTo
  <2> QED
    BY <1>3, <2>1, <2>2 DEF Distinct, Waiters
<1> QED
  BY <1>2, <1>3

\* a new limit admits exactly PumpCount waiters, from the front
LEMMA ResizeFacts ==
  ASSUME NEW s \in Sems, NEW n \in Limits, Distinct(s)
  PROVE  /\ PumpCount(s, n) \in 0..Len(s.queue)
         /\ Resize(s, n) \in Sems
         /\ Resize(s, n).limit = n
         /\ Resize(s, n).active = s.active + PumpCount(s, n)
         /\ Distinct(Resize(s, n))
         /\ PumpedTo(s, n) \subseteq Waiters(s)
         /\ Waiters(Resize(s, n)) = Waiters(s) \ PumpedTo(s, n)
         /\ Len(Resize(s, n).queue) = Len(s.queue) - PumpCount(s, n)
         /\ IsFiniteSet(PumpedTo(s, n))
         /\ Cardinality(PumpedTo(s, n)) = PumpCount(s, n)
<1> DEFINE q == s.queue
           k == PumpCount(s, n)
           t == SubSeq(q, k + 1, Len(q))
<1>0. /\ q \in Seq(Reqs) /\ Len(q) \in Nat /\ \A i \in 1..Len(q) : q[i] \in Reqs
      /\ s.active \in Nat /\ s.limit \in Nat /\ n \in Nat
  BY DEF Sems, Limits
<1>1. k \in 0..Len(q)
  BY <1>0 DEF PumpCount, Room
<1> HIDE DEF k
<1>2. /\ t \in Seq(Reqs)
      /\ Len(t) = Len(q) - k
      /\ \A i \in 1..(Len(q) - k) : t[i] = q[k + i]
  BY <1>0, <1>1
<1>3. /\ Resize(s, n).queue = t
      /\ Resize(s, n).active = s.active + k
      /\ Resize(s, n).limit = n
      /\ Resize(s, n) \in Sems
  <2> DEFINE a == s.active + k
  <2>1. Resize(s, n) = [limit |-> n, active |-> a, queue |-> t]
    BY DEF Resize, k
  <2>2. a \in Nat
    BY <1>0, <1>1
  <2> HIDE DEF t, a
  <2>3. [limit |-> n, active |-> a, queue |-> t] \in Sems
    BY <1>2, <2>2 DEF Sems
  <2>4. /\ Resize(s, n).queue = t
        /\ Resize(s, n).active = a
        /\ Resize(s, n).limit = n
        /\ Resize(s, n) \in Sems
    BY <2>1, <2>3
  <2> QED
    BY <2>4 DEF a
<1> HIDE DEF t
<1>4. \A i, j \in 1..Len(q) : q[i] = q[j] => i = j
  BY DEF Distinct
<1>5. Distinct(Resize(s, n))
  <2>1. \A i \in 1..Len(t) : k + i \in 1..Len(q) /\ t[i] = q[k + i]
    BY <1>0, <1>1, <1>2
  <2>2. \A i, j \in 1..Len(t) : t[i] = t[j] => k + i = k + j
    BY <1>4, <2>1
  <2>3. \A i, j \in 1..Len(t) : k + i = k + j => i = j
    BY <1>0, <1>1, <1>2
  <2> QED
    BY <1>3, <2>2, <2>3 DEF Distinct
<1>6. PumpedTo(s, n) = {q[i] : i \in 1..k}
  BY DEF PumpedTo, k
<1>7. PumpedTo(s, n) \subseteq Waiters(s)
  BY <1>0, <1>1, <1>6 DEF Waiters
<1>8. {t[i] : i \in 1..Len(t)} = {q[i] : i \in 1..Len(q)} \ {q[i] : i \in 1..k}
  <2>1. ASSUME NEW i \in 1..Len(t)
        PROVE  /\ t[i] \in {q[j] : j \in 1..Len(q)}
               /\ t[i] \notin {q[j] : j \in 1..k}
    <3>1. k + i \in 1..Len(q) /\ t[i] = q[k + i]
      BY <1>0, <1>1, <1>2
    <3>2. \A j \in 1..k : j \in 1..Len(q) /\ j # k + i
      BY <1>0, <1>1, <1>2
    <3> QED
      BY <1>4, <3>1, <3>2
  <2>2. ASSUME NEW j \in 1..Len(q), q[j] \notin {q[i] : i \in 1..k}
        PROVE  j - k \in 1..Len(t) /\ t[j - k] = q[j]
    <3>1. j \notin 1..k
      BY <2>2
    <3> QED
      BY <1>0, <1>1, <1>2, <3>1
  <2> QED
    BY <2>1, <2>2
<1>9. Waiters(Resize(s, n)) = Waiters(s) \ PumpedTo(s, n)
  BY <1>3, <1>6, <1>8 DEF Waiters
<1>10. IsFiniteSet(PumpedTo(s, n)) /\ Cardinality(PumpedTo(s, n)) = k
  <2> DEFINE f == [i \in 1..k |-> q[i]]
  <2>1. f \in Bijection(1..k, PumpedTo(s, n))
    <3>1. f \in [1..k -> PumpedTo(s, n)]
      BY <1>6
    <3>2. IsInjective(f)
      BY <1>0, <1>1, <1>4 DEF IsInjective
    <3>3. \A x \in PumpedTo(s, n) : \E i \in 1..k : f[i] = x
      BY <1>6
    <3> QED
      BY <3>1, <3>2, <3>3 DEF Bijection, Injection, Surjection
  <2>2. ExistsBijection(1..k, PumpedTo(s, n))
    BY <2>1 DEF ExistsBijection
  <2>3. IsFiniteSet(1..k) /\ Cardinality(1..k) = k
    BY <1>0, <1>1, FS_Interval
  <2> QED
    BY <2>2, <2>3, FS_Bijection
<1> QED
  BY <1>1, <1>2, <1>3, <1>5, <1>7, <1>9, <1>10 DEF k

-----------------------------------------------------------------------------
(* An object in good order: nobody queues twice, and nobody queues while a *)
(* slot is free.                                                           *)

Sound(s) ==
  /\ s \in Sems
  /\ Distinct(s)
  /\ s.queue # <<>> => s.active >= s.limit

\* constructor
LEMMA NewSound ==
  ASSUME NEW n \in Nat
  PROVE  Sound(NewSem(n)) /\ Waiters(NewSem(n)) = {} /\ NewSem(n).active = 0
<1>1. NewSem(n) \in Sems /\ NewSem(n).queue = <<>> /\ NewSem(n).active = 0
  <2>1. <<>> \in Seq(Reqs)
    OBVIOUS
  <2> QED
    BY <2>1 DEF NewSem, AtLeastOne, Sems, Limits
<1> QED
  BY <1>1 DEF Sound, Distinct, Waiters

\* an acquire() that finds a slot
LEMMA EnterSound ==
  ASSUME NEW s, Sound(s), EntersAtOnce(s)
  PROVE  /\ Sound(Enter(s))
         /\ Waiters(Enter(s)) = Waiters(s)
         /\ Enter(s).active = s.active + 1
BY EnterFacts DEF Sound, EntersAtOnce, Distinct, Waiters

\* an acquire() that has to wait
LEMMA EnqueueSound ==
  ASSUME NEW s, Sound(s), NEW r \in Reqs, r \notin Waiters(s), ~EntersAtOnce(s)
  PROVE  /\ Sound(Enqueue(s, r))
         /\ Waiters(Enqueue(s, r)) = Waiters(s) \cup {r}
         /\ Enqueue(s, r).active = s.active
<1>1. s \in Sems /\ Distinct(s) /\ s.active \in Nat /\ s.limit \in Nat
  BY DEF Sound, Sems, Limits
<1>2. s.active >= s.limit
  BY <1>1 DEF Sound, EntersAtOnce
<1> QED
  BY <1>1, <1>2, EnqueueFacts DEF Sound

\* a queue timer
LEMMA AbandonSound ==
  ASSUME NEW s, Sound(s), NEW r \in Waiters(s)
  PROVE  /\ Sound(Abandon(s, r))
         /\ Waiters(Abandon(s, r)) = Waiters(s) \ {r}
         /\ Abandon(s, r).active = s.active
<1>1. s \in Sems /\ Distinct(s)
  BY DEF Sound
<1>2. s.queue # <<>>
  BY <1>1 DEF Waiters, Sems
<1> QED
  BY <1>1, <1>2, AbandonFacts DEF Sound

\* drain()
LEMMA DrainedSound ==
  ASSUME NEW s, Sound(s)
  PROVE  Sound(Drained(s)) /\ Waiters(Drained(s)) = {} /\ Drained(s).active = s.active
<1>1. <<>> \in Seq(Reqs)
  OBVIOUS
<1>2. Drained(s) \in Sems /\ Drained(s).queue = <<>> /\ Drained(s).active = s.active
  BY <1>1 DEF Sound, Drained, Sems
<1> QED
  BY <1>2 DEF Sound, Distinct, Waiters

\* a release function
LEMMA HandoffSound ==
  ASSUME NEW s, Sound(s), s.active > 0
  PROVE  /\ Sound(Handoff(s))
         /\ HandedTo(s) \subseteq Waiters(s)
         /\ Waiters(Handoff(s)) = Waiters(s) \ HandedTo(s)
         /\ \/ (\E w \in Waiters(s) : HandedTo(s) = {w}) /\ Handoff(s).active = s.active
            \/ HandedTo(s) = {} /\ Handoff(s).active = s.active - 1
<1>1. s \in Sems /\ Distinct(s) /\ s.active \in Nat /\ s.limit \in Nat
  BY DEF Sound, Sems, Limits
<1>2. CASE HandsOver(s)
  <2>1. s.active >= s.limit
    BY <1>2 DEF Sound, HandsOver
  <2>2. Sound(Handoff(s))
    BY <1>1, <1>2, <2>1, HandoffFacts DEF Sound
  <2> QED
    BY <1>1, <1>2, <2>2, HandoffFacts
<1>3. CASE ~HandsOver(s)
  <2>1. Handoff(s).queue # <<>> => s.active - 1 >= s.limit
    BY <1>1, <1>3, HandoffFacts DEF HandsOver
  <2>2. Sound(Handoff(s))
    BY <1>1, <1>3, <2>1, HandoffFacts DEF Sound
  <2> QED
    BY <1>1, <1>3, <2>2, HandoffFacts
<1> QED
  BY <1>2, <1>3

\* setLimit()
LEMMA ResizeSound ==
  ASSUME NEW s, Sound(s), NEW n \in Limits
  PROVE  /\ Sound(Resize(s, n))
         /\ PumpedTo(s, n) \subseteq Waiters(s)
         /\ Waiters(Resize(s, n)) = Waiters(s) \ PumpedTo(s, n)
         /\ IsFiniteSet(PumpedTo(s, n))
         /\ Resize(s, n).active = s.active + Cardinality(PumpedTo(s, n))
<1> DEFINE k == PumpCount(s, n)
<1>1. s \in Sems /\ Distinct(s) /\ s.active \in Nat /\ s.limit \in Nat /\ Len(s.queue) \in Nat
  BY DEF Sound, Sems, Limits
<1>2. /\ k \in 0..Len(s.queue)
      /\ Resize(s, n) \in Sems /\ Distinct(Resize(s, n))
      /\ Resize(s, n).limit = n /\ Resize(s, n).active = s.active + k
      /\ Len(Resize(s, n).queue) = Len(s.queue) - k
  BY <1>1, ResizeFacts
<1>3. Resize(s, n).queue # <<>> => s.active + k >= n
  <2> SUFFICES ASSUME Resize(s, n).queue # <<>> PROVE s.active + k >= n
    OBVIOUS
  <2>1. k < Len(s.queue) /\ s.queue # <<>>
    <3>1. Len(Resize(s, n).queue) > 0
      BY <1>2 DEF Sems
    <3> QED
      BY <1>1, <1>2, <3>1
  <2>2. s.active >= s.limit
    BY <2>1 DEF Sound
  <2> QED
    BY <1>1, <2>1, <2>2 DEF PumpCount, Room, Limits
<1>4. Sound(Resize(s, n))
  BY <1>2, <1>3 DEF Sound
<1> QED
  BY <1>1, <1>2, <1>4, ResizeFacts

\* of some numbers one is the lowest
LEMMA LowestIn ==
  ASSUME NEW S \in SUBSET Nat, S # {}
  PROVE  Lowest(S) \in S
<1>1. S \subseteq Nat
  OBVIOUS
<1> DEFINE R == OpToRel(<, Nat)
<1>2. \A m, n \in Nat : m < n => <<m, n>> \in R
  BY DEF OpToRel
<1> HIDE DEF R
<1>3. PICK i \in S : \A j \in S : ~ (<<j, i>> \in R)
  BY <1>1, NatLessThanWellFounded, WFMin DEF R
<1>4. ASSUME NEW j \in S PROVE i <= j
  <2>1. i \in Nat /\ j \in Nat
    BY <1>1
  <2>2. ~ (j < i)
    BY <1>2, <1>3, <2>1
  <2> QED
    BY <2>1, <2>2
<1> QED
  BY <1>4 DEF Lowest

-----------------------------------------------------------------------------
(* The inductive invariant.                                                *)

Levels == {"agent", "global", "channel"}

\* the semaphore that r asks where it stands
Wanted(r) == Target(at[r], own[r])

Waiting(i) == {r \in Reqs : promise[r] = "pending" /\ Wanted(r) = i}

Occupants(i) == {r \in Reqs : i \in slots[r]}

Typed ==
  /\ conf \in Configurations
  /\ global \in Ids \cup {Nil}
  /\ channels \in [Channels -> Ids \cup {Nil}]
  /\ agents \in [Agents -> Ids \cup {Nil}]
  /\ at \in [Reqs -> Places]
  /\ promise \in [Reqs -> {"none", "pending", "resolved", "timedOut", "drained"}]
  /\ slots \in [Reqs -> SUBSET Ids]
  /\ own \in [Reqs -> [agent : Ids \cup {Nil}, channel : Ids \cup {Nil}]]
  /\ timer \in [Reqs -> 0..Infinity]
  /\ budget \in [Reqs -> 0..Infinity]

(* Every object is in good order, its queue is the calls that wait for it, *)
(* and its count the calls that occupy a slot of it.                       *)
Heap ==
  /\ sems \in [Ids -> Sems]
  /\ \A i \in Ids : /\ Sound(sems[i])
                    /\ Waiters(sems[i]) = Waiting(i)
                    /\ sems[i].active = Cardinality(Occupants(i))

\* what a call may occupy at its place: never the slot it is about to get
Placed(r) ==
  /\ at[r] \in {"idle", "gone"} => slots[r] = {} /\ own[r] = NoSems
  /\ at[r] \in Levels <=> promise[r] # "none"
  /\ promise[r] = "pending" => Wanted(r) # Nil
  /\ at[r] = "agent" => slots[r] \subseteq {own[r].agent}
  /\ at[r] = "agent" /\ promise[r] # "resolved" => slots[r] = {}
  /\ at[r] = "global" /\ promise[r] # "resolved" => slots[r] \subseteq {own[r].agent}
  /\ at[r] \in {"agent", "global"} => own[r].channel \notin slots[r]
  /\ at[r] = "channel" /\ promise[r] # "resolved" => own[r].channel \notin slots[r]

AgentSems   == InAgents \cup ({own[r].agent : r \in Reqs} \ {Nil})
ChannelSems == InChannels \cup ({own[r].channel : r \in Reqs} \ {Nil})

\* an object never serves two levels
Apart ==
  /\ global \notin AgentSems \cup ChannelSems
  /\ AgentSems \cap ChannelSems = {}

\* who uses an agent's quota uses the one that later calls of the agent will meet
Current(r) ==
  own[r].agent # Nil /\ (own[r].agent \in slots[r] \/ (promise[r] = "pending" /\ at[r] = "agent"))
    => own[r].agent \in InAgents

Inv ==
  /\ Typed
  /\ Heap
  /\ \A r \in Reqs : Placed(r) /\ Current(r)
  /\ Apart
  /\ conf.global = 0 <=> global = Nil

\* Nil is no address
LEMMA NilIsNoId == Nil \notin Ids
BY DEF Nil, Ids

\* calls can be counted
LEMMA FiniteCalls ==
  ASSUME NEW S \in SUBSET Reqs
  PROVE  IsFiniteSet(S) /\ Cardinality(S) \in Nat
BY ReqsAssumption, FS_Subset, FS_CardinalityType

\* what a call waits for is an object
LEMMA WantedIds ==
  ASSUME Typed, NEW r \in Reqs
  PROVE  Wanted(r) \in Ids \cup {Nil}
BY DEF Typed, Wanted, Target

\* the levels are asked one after the other, and the next one is on
LEMMA NextStopFacts ==
  ASSUME NEW from \in Levels \cup {"idle"}, NEW mine
  PROVE  LET stop == NextStop(from, mine)
         IN  /\ stop \in Levels \cup {"running"}
             /\ from # "idle" => stop # "agent"
             /\ from \in {"global", "channel"} => stop # "global"
             /\ from = "channel" => stop = "running"
             /\ stop # "running" => Target(stop, mine) # Nil
             /\ stop = "running" => Target(stop, mine) = Nil
<1> DEFINE here == CHOOSE i \in 1..Len(Order) : Order[i] = from
           later == {i \in (here + 1)..Len(Order) :
                       Order[i] = "running" \/ Target(Order[i], mine) # Nil}
           n == Lowest(later)
<1>1. /\ Len(Order) = 5
      /\ Order[1] = "idle" /\ Order[2] = "agent" /\ Order[3] = "global"
      /\ Order[4] = "channel" /\ Order[5] = "running"
  BY DEF Order
<1>2. \A i \in 1..5 : i = 1 \/ i = 2 \/ i = 3 \/ i = 4 \/ i = 5
  OBVIOUS
<1>3. \E i \in 1..Len(Order) : Order[i] = from
  BY <1>1 DEF Levels
<1>4. here \in 1..4 /\ Order[here] = from
  BY <1>1, <1>2, <1>3 DEF Levels
<1> HIDE DEF here
<1>5. later \subseteq 1..5 /\ later # {}
  BY <1>1, <1>4
<1>6. n \in later
  <2> HIDE DEF later
  <2>1. later \in SUBSET Nat
    BY <1>5
  <2> QED
    BY <1>5, <2>1, LowestIn
<1>7. n \in (here + 1)..5 /\ (Order[n] = "running" \/ Target(Order[n], mine) # Nil)
  BY <1>1, <1>6
<1>8. NextStop(from, mine) = Order[n]
  BY DEF NextStop, here
<1> HIDE DEF n, later
<1>9. Target("running", mine) = Nil
  BY DEF Target
<1> QED
  BY <1>1, <1>2, <1>4, <1>7, <1>8, <1>9 DEF Levels

-----------------------------------------------------------------------------
(* What Settle() does to each call.                                        *)

\* the waiters that are admitted or turned away are disjoint sets of waiters
Settles(admitted, rejected, r, mine) ==
  /\ admitted \in [Ids -> SUBSET Reqs]
  /\ \A i \in Ids : admitted[i] \subseteq Waiting(i) /\ admitted[i] \cap rejected = {}
  /\ \A q \in rejected : q \in Reqs /\ promise[q] = "pending"
  /\ r \in Reqs => promise[r] # "pending"
  /\ mine \subseteq Ids

\* the four things that can happen to a call
LEMMA SettleCalls ==
  ASSUME Typed, NEW h, NEW admitted, NEW rejected, NEW r, NEW mine,
         Settles(admitted, rejected, r, mine), Settle(h, admitted, rejected, r, mine),
         NEW q \in Reqs
  PROVE  \/ q = r /\ promise'[q] = "none" /\ slots'[q] = mine
         \/ /\ q # r /\ promise[q] = "pending" /\ promise'[q] = "resolved"
            /\ Wanted(q) \in Ids /\ q \in admitted[Wanted(q)]
            /\ slots'[q] = slots[q] \cup {Wanted(q)}
         \/ /\ q # r /\ promise[q] = "pending" /\ promise'[q] = "drained"
            /\ q \in rejected /\ slots'[q] = slots[q]
         \/ /\ q # r /\ promise'[q] = promise[q] /\ slots'[q] = slots[q]
            /\ q \notin rejected /\ \A i \in Ids : q \notin admitted[i]
<1>1. /\ promise'[q] = IF \E i \in Ids : q \in admitted[i] THEN "resolved"
                        ELSE IF q \in rejected THEN "drained"
                        ELSE IF q = r THEN "none"
                        ELSE promise[q]
      /\ slots'[q] = IF q = r THEN mine ELSE slots[q] \cup {i \in Ids : q \in admitted[i]}
  BY DEF Settle
<1>2. \A i \in Ids : q \in admitted[i] =>
        /\ promise[q] = "pending" /\ Wanted(q) = i /\ q \notin rejected /\ q # r
  BY DEF Settles, Waiting
<1>3. q \in rejected => promise[q] = "pending" /\ q # r
  BY DEF Settles
<1>4. CASE \E i \in Ids : q \in admitted[i]
  <2>1. Wanted(q) \in Ids /\ q \in admitted[Wanted(q)]
    BY <1>2, <1>4
  <2>2. {i \in Ids : q \in admitted[i]} = {Wanted(q)}
    BY <1>2, <2>1
  <2> QED
    BY <1>1, <1>2, <2>1, <2>2
<1>5. CASE ~ \E i \in Ids : q \in admitted[i]
  <2>1. {i \in Ids : q \in admitted[i]} = {}
    BY <1>5
  <2>2. q # r => slots'[q] = slots[q]
    BY <1>1, <2>1
  <2> QED
    BY <1>1, <1>3, <1>5, <2>2
<1> QED
  BY <1>4, <1>5

\* types
LEMMA SettleTyped ==
  ASSUME Typed, NEW h, NEW admitted, NEW rejected, NEW r, NEW mine,
         Settles(admitted, rejected, r, mine), Settle(h, admitted, rejected, r, mine)
  PROVE  /\ promise' \in [Reqs -> {"none", "pending", "resolved", "timedOut", "drained"}]
         /\ slots' \in [Reqs -> SUBSET Ids]
         /\ timer' \in [Reqs -> 0..Infinity]
<1>1. \A q \in Reqs : promise'[q] \in {"none", "pending", "resolved", "timedOut", "drained"}
  BY SettleCalls DEF Typed
<1>2. ASSUME NEW q \in Reqs PROVE slots'[q] \subseteq Ids
  <2>1. slots[q] \subseteq Ids /\ mine \subseteq Ids
    BY DEF Typed, Settles
  <2> QED
    BY <2>1, SettleCalls
<1>3. \A q \in Reqs : (IF promise'[q] = "pending" THEN timer[q] ELSE Infinity) \in 0..Infinity
  BY InfinityAssumption DEF Typed
<1> QED
  BY <1>1, <1>2, <1>3 DEF Settle

\* who still waits, and who occupies what, where the places stay what they were
LEMMA SettleSets ==
  ASSUME Typed, NEW h, NEW admitted, NEW rejected, NEW r, NEW mine,
         Settles(admitted, rejected, r, mine), Settle(h, admitted, rejected, r, mine),
         \A q \in Reqs : promise'[q] = "pending" => Wanted(q)' = Wanted(q),
         NEW i \in Ids
  PROVE  /\ Waiting(i)' = Waiting(i) \ (admitted[i] \cup rejected)
         /\ Occupants(i)' = {q \in Reqs : IF q = r THEN i \in mine ELSE i \in slots[q]}
                              \cup admitted[i]
<1> DEFINE S == {q \in Reqs : IF q = r THEN i \in mine ELSE i \in slots[q]}
<1>0. \A q \in Reqs : q \in S <=> IF q = r THEN i \in mine ELSE i \in slots[q]
  OBVIOUS
<1>a. S \subseteq Reqs
  OBVIOUS
<1> HIDE DEF S
<1>1. ASSUME NEW q \in Reqs
      PROVE  /\ q \in Waiting(i)' <=> q \in Waiting(i) \ (admitted[i] \cup rejected)
             /\ q \in Occupants(i)' <=> q \in S \/ q \in admitted[i]
  <2>1. q \in admitted[i] => promise[q] = "pending" /\ Wanted(q) = i
    BY DEF Settles, Waiting
  <2>2. q = r => promise[q] # "pending"
    BY DEF Settles
  <2>3. q \in Waiting(i)' <=> promise'[q] = "pending" /\ Wanted(q)' = i
    BY DEF Waiting
  <2>4. q \in Occupants(i)' <=> i \in slots'[q]
    BY DEF Occupants
  <2>5. q \in Waiting(i) <=> promise[q] = "pending" /\ Wanted(q) = i
    BY DEF Waiting
  <2>6. \A j \in Ids : q \in admitted[j] => q \notin rejected
    BY DEF Settles
  <2> QED
    BY <1>0, <2>1, <2>2, <2>3, <2>4, <2>5, <2>6, SettleCalls
<1>2. Waiting(i)' \subseteq Reqs /\ Waiting(i) \subseteq Reqs /\ Occupants(i)' \subseteq Reqs
      /\ admitted[i] \subseteq Reqs
  BY DEF Waiting, Occupants, Settles
<1>3. Waiting(i)' = Waiting(i) \ (admitted[i] \cup rejected)
  BY <1>1, <1>2
<1>4. Occupants(i)' = S \cup admitted[i]
  BY <1>1, <1>2, <1>a
<1> QED
  BY <1>3, <1>4 DEF S

\* an object that r asks for is none that it asks for elsewhere
LEMMA OwnApart ==
  ASSUME Apart, NEW q \in Reqs
  PROVE  /\ own[q].agent # Nil => own[q].agent # own[q].channel /\ own[q].agent # global
         /\ own[q].channel # Nil => own[q].channel # global
<1>1. own[q].agent # Nil => own[q].agent \in AgentSems
  BY DEF AgentSems
<1>2. own[q].channel # Nil => own[q].channel \in ChannelSems
  BY DEF ChannelSems
<1> QED
  BY <1>1, <1>2 DEF Apart, AgentSems, ChannelSems

\* a call that another one's release, a reload or a drain touches
LEMMA SettleOthers ==
  ASSUME Inv, NEW h, NEW admitted, NEW rejected, NEW r, NEW mine,
         Settles(admitted, rejected, r, mine), Settle(h, admitted, rejected, r, mine),
         NEW q \in Reqs, q # r, at'[q] = at[q], own'[q] = own[q],
         promise'[q] = "pending" => Wanted(q)' = Wanted(q),
         InAgents \subseteq InAgents'
  PROVE  Placed(q)' /\ Current(q)'
<1> DEFINE a == own[q].agent
           c == own[q].channel
<1>1. Typed /\ Placed(q) /\ Current(q)
  BY DEF Inv
<1>2. /\ a # Nil => a # c /\ a # global
      /\ c # Nil => c # global
  BY OwnApart DEF Inv
<1>3. /\ at[q] \in Levels => Wanted(q) = IF at[q] = "agent" THEN a
                                      ELSE IF at[q] = "global" THEN global ELSE c
  BY DEF Wanted, Target, Levels
<1>4. slots[q] \subseteq Ids /\ Nil \notin Ids
  BY <1>1, NilIsNoId DEF Typed
<1>5. CASE promise[q] = "pending" /\ promise'[q] = "resolved" /\ slots'[q] = slots[q] \cup {Wanted(q)}
  <2>1. at[q] \in Levels /\ Wanted(q) # Nil /\ at[q] \notin {"idle", "gone"}
    BY <1>1, <1>5 DEF Placed, Levels
  <2>2. Placed(q)'
    <3>1. CASE at[q] = "agent"
      <4>1. slots'[q] = {a} /\ a # Nil
        BY <1>1, <1>3, <1>5, <2>1, <3>1 DEF Placed
      <4> QED
        BY <1>2, <1>5, <2>1, <3>1, <4>1 DEF Placed
    <3>2. CASE at[q] = "global"
      <4>1. slots'[q] = slots[q] \cup {global} /\ global # Nil /\ c \notin slots[q]
        BY <1>1, <1>3, <1>5, <2>1, <3>2 DEF Placed
      <4>2. c # global
        BY <1>2, <4>1
      <4> QED
        BY <1>5, <2>1, <3>2, <4>1, <4>2 DEF Placed
    <3>3. CASE at[q] = "channel"
      BY <1>5, <2>1, <3>3 DEF Placed
    <3> QED
      BY <2>1, <3>1, <3>2, <3>3 DEF Levels
  <2>3. Current(q)'
    <3>1. CASE at[q] = "agent"
      BY <1>1, <1>5, <3>1 DEF Current
    <3>2. CASE at[q] # "agent"
      BY <1>1, <1>2, <1>3, <1>5, <2>1, <3>2 DEF Current
    <3> QED
      BY <3>1, <3>2
  <2> QED
    BY <2>2, <2>3
<1>6. CASE promise[q] = "pending" /\ promise'[q] = "drained" /\ slots'[q] = slots[q]
  BY <1>1, <1>6 DEF Placed, Current
<1>7. CASE promise'[q] = promise[q] /\ slots'[q] = slots[q]
  BY <1>1, <1>7 DEF Placed, Current
<1> QED
  BY <1>1, <1>5, <1>6, <1>7, SettleCalls

-----------------------------------------------------------------------------
(* A call that is over gives its slots away.                               *)

\* one object when r gives its slot in it back
LEMMA HandoffCounts ==
  ASSUME Inv, NEW r \in Reqs, NEW i \in slots[r], promise[r] # "pending"
  PROVE  /\ Sound(Handoff(sems[i]))
         /\ HandedTo(sems[i]) \subseteq Waiting(i)
         /\ Waiters(Handoff(sems[i])) = Waiting(i) \ HandedTo(sems[i])
         /\ Handoff(sems[i]).active
               = Cardinality((Occupants(i) \ {r}) \cup HandedTo(sems[i]))
<1> DEFINE s == sems[i]
           O == Occupants(i)
           G == HandedTo(s)
<1>1. i \in Ids
  BY DEF Inv, Typed
<1>2. Sound(s) /\ Waiters(s) = Waiting(i) /\ s.active = Cardinality(O)
  BY <1>1 DEF Inv, Heap
<1>3. r \in O /\ O \subseteq Reqs
  BY DEF Occupants
<1>4. IsFiniteSet(O) /\ Cardinality(O) \in Nat
  BY <1>3, FiniteCalls
<1>5. Cardinality(O \ {r}) = Cardinality(O) - 1 /\ IsFiniteSet(O \ {r}) /\ Cardinality(O \ {r}) \in Nat
  BY <1>3, <1>4, FS_RemoveElement, FS_CardinalityType
<1>6. s.active > 0
  BY <1>2, <1>4, <1>5
<1>7. /\ Sound(Handoff(s)) /\ G \subseteq Waiters(s) /\ Waiters(Handoff(s)) = Waiters(s) \ G
      /\ \/ (\E w \in Waiters(s) : G = {w}) /\ Handoff(s).active = s.active
         \/ G = {} /\ Handoff(s).active = s.active - 1
  BY <1>2, <1>6, HandoffSound
<1>8. CASE (\E w \in Waiters(s) : G = {w}) /\ Handoff(s).active = s.active
  <2>1. PICK w \in Waiters(s) : G = {w}
    BY <1>8
  <2>2. w \in Reqs /\ promise[w] = "pending" /\ Wanted(w) = i
    BY <1>2 DEF Waiting
  <2>3. i \notin slots[w]
    <3>1. Placed(w) /\ slots[w] \subseteq Ids
      BY <2>2 DEF Inv, Typed
    <3>2. own[w].agent # Nil => own[w].agent # global
      BY <2>2, OwnApart DEF Inv
    <3> QED
      BY <1>1, <2>2, <3>1, <3>2, NilIsNoId DEF Placed, Wanted, Target
  <2>4. w \notin O \ {r}
    BY <2>3 DEF Occupants
  <2>5. Cardinality((O \ {r}) \cup {w}) = Cardinality(O \ {r}) + 1
    BY <1>5, <2>4, FS_AddElement
  <2>6. Handoff(s).active = Cardinality((O \ {r}) \cup G)
    <3>1. (O \ {r}) \cup G = (O \ {r}) \cup {w}
      BY <2>1
    <3> HIDE DEF O, G, s
    <3>2. Cardinality((O \ {r}) \cup {w}) = Cardinality(O)
      BY <1>4, <1>5, <2>5
    <3> QED
      BY <1>2, <1>8, <3>1, <3>2
  <2> QED
    BY <1>2, <1>7, <2>6
<1>9. CASE G = {} /\ Handoff(s).active = s.active - 1
  <2>1. (O \ {r}) \cup G = O \ {r}
    BY <1>9
  <2> QED
    BY <1>2, <1>5, <1>7, <1>9, <2>1
<1> QED
  BY <1>7, <1>8, <1>9

\* an error path and a normal end both give back all that the call occupies
LEMMA LeaveInv ==
  ASSUME Inv, NEW r \in Reqs, promise[r] # "pending",
         ReleaseAll(r, slots[r]), Leave(r), UNCHANGED <<conf, global, channels, agents, reloads>>
  PROVE  Inv'
<1> DEFINE h == [i \in Ids |-> IF i \in slots[r] THEN Handoff(sems[i]) ELSE sems[i]]
           admitted == [i \in Ids |-> IF i \in slots[r] THEN HandedTo(sems[i]) ELSE {}]
           mine == slots[r] \ slots[r]
<1>1. Settle(h, admitted, {}, r, mine) /\ sems' = h
  BY DEF ReleaseAll, Settle
<1>2. mine = {} /\ slots[r] \subseteq Ids
  BY DEF Inv, Typed
<1>3. \A i \in Ids : admitted[i] \subseteq Waiting(i)
  BY HandoffCounts
<1>4. Settles(admitted, {}, r, mine)
  BY <1>2, <1>3 DEF Settles, Waiting
<1>5. /\ at'[r] = "gone" /\ own'[r] = NoSems /\ budget'[r] = Infinity
      /\ \A q \in Reqs : q # r => at'[q] = at[q] /\ own'[q] = own[q]
  BY DEF Leave, Inv, Typed
<1>6. promise'[r] = "none" /\ slots'[r] = {}
  BY <1>1, <1>2, <1>4, SettleCalls DEF Inv
<1>7. \A q \in Reqs : promise'[q] = "pending" => Wanted(q)' = Wanted(q)
  BY <1>5, <1>6 DEF Wanted, Target
<1> HIDE DEF h, admitted, mine
<1>8. Typed'
  <2>1. /\ promise' \in [Reqs -> {"none", "pending", "resolved", "timedOut", "drained"}]
        /\ slots' \in [Reqs -> SUBSET Ids]
        /\ timer' \in [Reqs -> 0..Infinity]
    BY <1>1, <1>4, SettleTyped DEF Inv
  <2>2. at' \in [Reqs -> Places]
    BY DEF Leave, Inv, Typed, Places
  <2>3. own' \in [Reqs -> [agent : Ids \cup {Nil}, channel : Ids \cup {Nil}]]
    BY DEF Leave, Inv, Typed, NoSems
  <2>4. budget' \in [Reqs -> 0..Infinity]
    BY InfinityAssumption DEF Leave, Inv, Typed
  <2> QED
    BY <2>1, <2>2, <2>3, <2>4 DEF Inv, Typed
<1>9. Heap'
  <2>1. ASSUME NEW i \in Ids
        PROVE  /\ Sound(h[i]) /\ Waiters(h[i]) = Waiting(i)'
               /\ h[i].active = Cardinality(Occupants(i)')
    <3> DEFINE left == {q \in Reqs : IF q = r THEN i \in mine ELSE i \in slots[q]}
    <3>1. /\ Waiting(i)' = Waiting(i) \ (admitted[i] \cup {})
          /\ Occupants(i)' = left \cup admitted[i]
      BY <1>1, <1>4, <1>7, SettleSets DEF Inv
    <3>2. left = Occupants(i) \ {r}
      BY <1>2 DEF Occupants
    <3>3. CASE i \in slots[r]
      <4>1. h[i] = Handoff(sems[i]) /\ admitted[i] = HandedTo(sems[i])
        BY <3>3 DEF h, admitted
      <4> QED
        BY <3>1, <3>2, <3>3, <4>1, HandoffCounts
    <3>4. CASE i \notin slots[r]
      <4>1. h[i] = sems[i] /\ admitted[i] = {} /\ left = Occupants(i)
        BY <3>2, <3>4 DEF h, admitted, Occupants
      <4>2. Sound(sems[i]) /\ Waiters(sems[i]) = Waiting(i) /\ sems[i].active = Cardinality(Occupants(i))
        BY DEF Inv, Heap
      <4>3. Waiting(i)' = Waiting(i) /\ Occupants(i)' = Occupants(i)
        BY <3>1, <4>1
      <4> QED
        BY <4>1, <4>2, <4>3
    <3> QED
      BY <3>3, <3>4
  <2>2. h \in [Ids -> Sems]
    <3>1. \A i \in Ids : h[i] \in Sems
      BY <2>1 DEF Sound
    <3> QED
      BY <3>1 DEF h
  <2> QED
    BY <1>1, <2>1, <2>2 DEF Heap
<1>10. \A q \in Reqs : Placed(q)' /\ Current(q)'
  <2>1. Placed(r)' /\ Current(r)'
    BY <1>5, <1>6 DEF Placed, Current, NoSems, Levels
  <2>2. InAgents' = InAgents
    BY DEF InAgents
  <2> QED
    BY <1>1, <1>4, <1>5, <1>7, <2>1, <2>2, SettleOthers
<1>11. Apart'
  <2>1. AgentSems' \subseteq AgentSems
    BY <1>5 DEF AgentSems, InAgents, NoSems
  <2>2. ChannelSems' \subseteq ChannelSems
    BY <1>5 DEF ChannelSems, InChannels, NoSems
  <2> QED
    BY <2>1, <2>2 DEF Inv, Apart
<1> QED
  BY <1>8, <1>9, <1>10, <1>11 DEF Inv

-----------------------------------------------------------------------------
(* A call goes on to its next stop.                                        *)

\* r, on the heap h, with the semaphores `mine` as its locals
Ready(r, h, mine) ==
  /\ h \in [Ids -> Sems]
  /\ \A i \in Ids : /\ Sound(h[i])
                    /\ Waiters(h[i]) = Waiting(i)
                    /\ h[i].active = Cardinality(Occupants(i))
  /\ at[r] \in Levels \cup {"idle"} /\ promise[r] # "pending"
  /\ mine \in [agent : Ids \cup {Nil}, channel : Ids \cup {Nil}]
  /\ mine.agent # Nil => mine.agent # mine.channel /\ mine.agent # global
  /\ mine.channel # Nil => mine.channel # global
  /\ at[r] = "idle" => slots[r] = {}
  /\ at[r] = "agent" => slots[r] \subseteq {mine.agent}
  /\ at[r] # "channel" => mine.channel \notin slots[r]

\* the three ways to go on
LEMMA MoveOnCases ==
  ASSUME Typed, NEW r \in Reqs, NEW h, NEW mine, NEW b, Ready(r, h, mine), MoveOn(r, h, mine, b)
  PROVE  LET stop == NextStop(at[r], mine)
             id == Target(stop, mine)
         IN  /\ at' = [at EXCEPT ![r] = stop] /\ stop \in Levels \cup {"running"}
             /\ id \in Ids \cup {Nil} /\ (stop = "running" <=> id = Nil)
             /\ id # Nil => id \notin slots[r]
             /\ stop = "agent" => at[r] = "idle"
             /\ stop = "global" => slots[r] \subseteq {mine.agent}
             /\ stop \in Levels => at[r] # "channel"
             /\ \/ /\ id = Nil /\ sems' = h /\ promise' = [promise EXCEPT ![r] = "none"]
                   /\ UNCHANGED <<slots, timer>>
                \/ /\ id # Nil /\ EntersAtOnce(h[id]) /\ sems' = [h EXCEPT ![id] = Enter(h[id])]
                   /\ promise' = [promise EXCEPT ![r] = "resolved"]
                   /\ slots' = [slots EXCEPT ![r] = slots[r] \cup {id}]
                   /\ timer' = timer
                \/ /\ id # Nil /\ ~EntersAtOnce(h[id]) /\ sems' = [h EXCEPT ![id] = Enqueue(h[id], r)]
                   /\ promise' = [promise EXCEPT ![r] = "pending"]
                   /\ timer' = [timer EXCEPT ![r] = IF Cap(b) > 0 THEN Cap(b) ELSE Infinity]
                   /\ slots' = slots
<1> DEFINE stop == NextStop(at[r], mine)
           id == Target(stop, mine)
<1>1. /\ stop \in Levels \cup {"running"}
      /\ at[r] # "idle" => stop # "agent"
      /\ at[r] \in {"global", "channel"} => stop # "global"
      /\ at[r] = "channel" => stop = "running"
      /\ stop # "running" => id # Nil
      /\ stop = "running" => id = Nil
  BY NextStopFacts DEF Ready
<1>2. at' = [at EXCEPT ![r] = stop]
  BY DEF MoveOn
<1>3. /\ stop = "agent" => id = mine.agent
      /\ stop = "global" => id = global
      /\ stop = "channel" => id = mine.channel
  BY DEF Target
<1>4. id \in Ids \cup {Nil}
  BY <1>1, <1>3 DEF Ready, Typed, Levels
<1>5. \/ /\ id = Nil /\ sems' = h /\ promise' = [promise EXCEPT ![r] = "none"]
         /\ UNCHANGED <<slots, timer>>
      \/ /\ id # Nil /\ EntersAtOnce(h[id]) /\ sems' = [h EXCEPT ![id] = Enter(h[id])]
         /\ promise' = [promise EXCEPT ![r] = "resolved"]
         /\ slots' = [slots EXCEPT ![r] = slots[r] \cup {id}]
         /\ timer' = timer
      \/ /\ id # Nil /\ ~EntersAtOnce(h[id]) /\ sems' = [h EXCEPT ![id] = Enqueue(h[id], r)]
         /\ promise' = [promise EXCEPT ![r] = "pending"]
         /\ timer' = [timer EXCEPT ![r] = IF Cap(b) > 0 THEN Cap(b) ELSE Infinity]
         /\ slots' = slots
  BY DEF MoveOn
<1> HIDE DEF stop, id
<1>6. stop = "global" => slots[r] \subseteq {mine.agent}
  BY <1>1 DEF Ready, Levels
<1>7. id # Nil => id \notin slots[r]
  <2>1. CASE stop = "agent"
    BY <1>1, <2>1 DEF Ready
  <2>2. CASE stop = "global"
    <3>1. id = global
      BY <1>3, <2>2
    <3> QED
      BY <1>6, <2>2, <3>1 DEF Ready
  <2>3. CASE stop = "channel"
    <3>1. id = mine.channel /\ at[r] # "channel"
      BY <1>1, <1>3, <2>3
    <3> QED
      BY <3>1 DEF Ready
  <2> QED
    BY <1>1, <2>1, <2>2, <2>3 DEF Levels
<1>8. stop = "agent" => at[r] = "idle"
  BY <1>1
<1>9. stop \in Levels => at[r] # "channel"
  BY <1>1 DEF Levels
<1>10. stop = "running" <=> id = Nil
  BY <1>1
<1> QED
  BY <1>1, <1>2, <1>4, <1>5, <1>6, <1>7, <1>8, <1>9, <1>10 DEF stop, id

\* a queue timer is armed for a time that passes
LEMMA CapFacts ==
  ASSUME Typed, NEW b \in 0..Infinity
  PROVE  Cap(b) \in 0..Infinity
<1>1. \A n \in QueueTimeouts : n \in 0..Infinity
  BY InfinityAssumption
<1>2. conf.queueTimeout \in QueueTimeouts
  BY DEF Typed, Configurations
<1> QED
  BY <1>1, <1>2 DEF Cap

\* types, and what becomes of the others: nothing
LEMMA MoveOnTyped ==
  ASSUME Typed, NEW r \in Reqs, NEW h, NEW mine, NEW b \in 0..Infinity,
         Ready(r, h, mine), MoveOn(r, h, mine, b)
  PROVE  /\ at' \in [Reqs -> Places]
         /\ promise' \in [Reqs -> {"none", "pending", "resolved", "timedOut", "drained"}]
         /\ slots' \in [Reqs -> SUBSET Ids]
         /\ timer' \in [Reqs -> 0..Infinity]
         /\ \A q \in Reqs : q # r => /\ at'[q] = at[q] /\ promise'[q] = promise[q]
                                     /\ slots'[q] = slots[q]
<1> DEFINE stop == NextStop(at[r], mine)
           id == Target(stop, mine)
<1>1. at' = [at EXCEPT ![r] = stop] /\ stop \in Levels \cup {"running"} /\ id \in Ids \cup {Nil}
  BY MoveOnCases
<1>2. Cap(b) \in 0..Infinity /\ Infinity \in 0..Infinity
  BY CapFacts, InfinityAssumption
<1>3. \/ /\ id = Nil /\ promise' = [promise EXCEPT ![r] = "none"]
         /\ UNCHANGED <<slots, timer>>
      \/ /\ id # Nil /\ promise' = [promise EXCEPT ![r] = "resolved"]
         /\ slots' = [slots EXCEPT ![r] = slots[r] \cup {id}]
         /\ timer' = timer
      \/ /\ id # Nil /\ promise' = [promise EXCEPT ![r] = "pending"]
         /\ timer' = [timer EXCEPT ![r] = IF Cap(b) > 0 THEN Cap(b) ELSE Infinity]
         /\ slots' = slots
  BY MoveOnCases
<1> HIDE DEF stop, id
<1>4. at' \in [Reqs -> Places]
  BY <1>1 DEF Typed, Places, Levels
<1>5. promise' \in [Reqs -> {"none", "pending", "resolved", "timedOut", "drained"}]
  BY <1>3 DEF Typed
<1>6. slots' \in [Reqs -> SUBSET Ids]
  BY <1>1, <1>3 DEF Typed
<1>7. timer' \in [Reqs -> 0..Infinity]
  BY <1>2, <1>3 DEF Typed
<1>8. \A q \in Reqs : q # r => /\ at'[q] = at[q] /\ promise'[q] = promise[q]
                               /\ slots'[q] = slots[q]
  BY <1>1, <1>3 DEF Typed
<1> QED
  BY <1>4, <1>5, <1>6, <1>7, <1>8

\* the objects: at most the one that is asked changes
LEMMA MoveOnHeap ==
  ASSUME Typed, NEW r \in Reqs, NEW h, NEW mine, NEW b \in 0..Infinity,
         Ready(r, h, mine), MoveOn(r, h, mine, b),
         own' = [own EXCEPT ![r] = mine], global' = global
  PROVE  Heap'
<1> DEFINE stop == NextStop(at[r], mine)
           id == Target(stop, mine)
<1>a. id \in Ids \cup {Nil}
  BY MoveOnCases
<1>b. PICK n \in Ids \cup {Nil} : n = id
  BY <1>a
<1>1. at' = [at EXCEPT ![r] = stop] /\ stop \in Levels \cup {"running"}
      /\ (n # Nil => n \notin slots[r])
  BY <1>b, MoveOnCases
<1>2. \A q \in Reqs : q # r => /\ at'[q] = at[q] /\ promise'[q] = promise[q]
                               /\ slots'[q] = slots[q] /\ own'[q] = own[q]
  BY MoveOnTyped DEF Typed
<1>3. \A q \in Reqs : q # r => Wanted(q)' = Wanted(q)
  BY <1>2 DEF Wanted, Target
<1>4. at'[r] = stop /\ own'[r] = mine
  BY <1>1 DEF Typed
<1>5. Wanted(r)' = n
  BY <1>4, <1>b DEF Wanted, Target
<1>6. \A i \in Ids : r \notin Waiting(i)
  BY DEF Waiting, Ready
<1>7. \A i \in Ids : /\ Sound(h[i]) /\ Waiters(h[i]) = Waiting(i)
                     /\ h[i].active = Cardinality(Occupants(i))
  BY DEF Ready
<1>8. h \in [Ids -> Sems]
  BY DEF Ready
<1>9. \/ /\ n = Nil /\ sems' = h /\ promise' = [promise EXCEPT ![r] = "none"] /\ slots' = slots
      \/ /\ n # Nil /\ EntersAtOnce(h[n]) /\ sems' = [h EXCEPT ![n] = Enter(h[n])]
         /\ promise' = [promise EXCEPT ![r] = "resolved"]
         /\ slots' = [slots EXCEPT ![r] = slots[r] \cup {n}]
      \/ /\ n # Nil /\ ~EntersAtOnce(h[n]) /\ sems' = [h EXCEPT ![n] = Enqueue(h[n], r)]
         /\ promise' = [promise EXCEPT ![r] = "pending"] /\ slots' = slots
  BY <1>b, MoveOnCases
<1> HIDE DEF stop
<1>10. CASE n = Nil /\ sems' = h /\ promise' = [promise EXCEPT ![r] = "none"] /\ slots' = slots
  <2>1. promise'[r] = "none"
    BY <1>10 DEF Typed
  <2>2. \A i \in Ids : Waiting(i)' = Waiting(i)
    BY <1>2, <1>3, <1>6, <2>1 DEF Waiting
  <2>3. \A i \in Ids : Occupants(i)' = Occupants(i)
    BY <1>10 DEF Occupants
  <2> QED
    BY <1>7, <1>8, <1>10, <2>2, <2>3 DEF Heap
<1>11. CASE /\ n # Nil /\ EntersAtOnce(h[n]) /\ sems' = [h EXCEPT ![n] = Enter(h[n])]
            /\ promise' = [promise EXCEPT ![r] = "resolved"]
            /\ slots' = [slots EXCEPT ![r] = slots[r] \cup {n}]
  <2>1. promise'[r] = "resolved" /\ slots'[r] = slots[r] \cup {n} /\ n \in Ids /\ n \notin slots[r]
    BY <1>1, <1>11 DEF Typed
  <2>2. \A i \in Ids : Waiting(i)' = Waiting(i)
    BY <1>2, <1>3, <1>6, <2>1 DEF Waiting
  <2>3. \A i \in Ids : i # n => Occupants(i)' = Occupants(i)
    BY <1>2, <2>1 DEF Occupants
  <2>4. Occupants(n)' = Occupants(n) \cup {r} /\ r \notin Occupants(n)
    BY <1>2, <2>1 DEF Occupants
  <2>5. IsFiniteSet(Occupants(n))
    BY FiniteCalls DEF Occupants
  <2>6. Cardinality(Occupants(n) \cup {r}) = Cardinality(Occupants(n)) + 1
    BY <2>4, <2>5, FS_AddElement
  <2>7. /\ Sound(Enter(h[n])) /\ Waiters(Enter(h[n])) = Waiting(n)
        /\ Enter(h[n]).active = Cardinality(Occupants(n)) + 1
    BY <1>7, <1>11, <2>1, EnterSound
  <2>8. sems' \in [Ids -> Sems]
    BY <1>8, <1>11, <2>7 DEF Sound
  <2>9. ASSUME NEW i \in Ids
        PROVE  /\ Sound(sems'[i]) /\ Waiters(sems'[i]) = Waiting(i)'
               /\ sems'[i].active = Cardinality(Occupants(i)')
    <3>1. CASE i = n
      BY <1>8, <1>11, <2>2, <2>4, <2>6, <2>7, <3>1
    <3>2. CASE i # n
      BY <1>7, <1>8, <1>11, <2>2, <2>3, <3>2
    <3> QED
      BY <3>1, <3>2
  <2> QED
    BY <2>8, <2>9 DEF Heap
<1>12. CASE /\ n # Nil /\ ~EntersAtOnce(h[n]) /\ sems' = [h EXCEPT ![n] = Enqueue(h[n], r)]
            /\ promise' = [promise EXCEPT ![r] = "pending"] /\ slots' = slots
  <2>1. promise'[r] = "pending" /\ n \in Ids
    BY <1>1, <1>12 DEF Typed
  <2>2. \A i \in Ids : i # n => Waiting(i)' = Waiting(i)
    BY <1>2, <1>3, <1>5, <1>6, <2>1 DEF Waiting
  <2>3. Waiting(n)' = Waiting(n) \cup {r}
    BY <1>2, <1>3, <1>5, <2>1 DEF Waiting
  <2>4. \A i \in Ids : Occupants(i)' = Occupants(i)
    BY <1>12 DEF Occupants
  <2>5. /\ Sound(Enqueue(h[n], r)) /\ Waiters(Enqueue(h[n], r)) = Waiting(n) \cup {r}
        /\ Enqueue(h[n], r).active = Cardinality(Occupants(n))
    BY <1>6, <1>7, <1>12, <2>1, EnqueueSound
  <2>6. sems' \in [Ids -> Sems]
    BY <1>8, <1>12, <2>5 DEF Sound
  <2>7. ASSUME NEW i \in Ids
        PROVE  /\ Sound(sems'[i]) /\ Waiters(sems'[i]) = Waiting(i)'
               /\ sems'[i].active = Cardinality(Occupants(i)')
    <3>1. CASE i = n
      BY <1>8, <1>12, <2>3, <2>4, <2>5, <3>1
    <3>2. CASE i # n
      BY <1>7, <1>8, <1>12, <2>2, <2>4, <3>2
    <3> QED
      BY <3>1, <3>2
  <2> QED
    BY <2>6, <2>7 DEF Heap
<1> QED
  BY <1>9, <1>10, <1>11, <1>12

\* the places
LEMMA MoveOnPlaced ==
  ASSUME Typed, \A q \in Reqs : Placed(q) /\ Current(q),
         NEW r \in Reqs, NEW h, NEW mine, NEW b \in 0..Infinity,
         Ready(r, h, mine), MoveOn(r, h, mine, b),
         own' = [own EXCEPT ![r] = mine], global' = global, InAgents \subseteq InAgents',
         at[r] = "idle" => mine.agent = Nil \/ mine.agent \in InAgents',
         at[r] # "idle" => mine = own[r]
  PROVE  \A q \in Reqs : Placed(q)' /\ Current(q)'
<1> DEFINE stop == NextStop(at[r], mine)
           id == Target(stop, mine)
<1>1. /\ at' = [at EXCEPT ![r] = stop] /\ stop \in Levels \cup {"running"}
      /\ (stop = "running" <=> id = Nil)
      /\ stop = "agent" => at[r] = "idle"
      /\ stop = "global" => slots[r] \subseteq {mine.agent}
      /\ stop \in Levels => at[r] # "channel"
  BY MoveOnCases
<1>2. /\ stop = "agent" => id = mine.agent
      /\ stop = "global" => id = global
      /\ stop = "channel" => id = mine.channel
  BY DEF Target
<1>3. \/ id = Nil /\ promise' = [promise EXCEPT ![r] = "none"] /\ slots' = slots
      \/ /\ id # Nil /\ promise' = [promise EXCEPT ![r] = "resolved"]
         /\ slots' = [slots EXCEPT ![r] = slots[r] \cup {id}]
      \/ id # Nil /\ promise' = [promise EXCEPT ![r] = "pending"] /\ slots' = slots
  BY MoveOnCases
<1>4. \/ id = Nil /\ promise'[r] = "none" /\ slots'[r] = slots[r]
      \/ id # Nil /\ promise'[r] = "resolved" /\ slots'[r] = slots[r] \cup {id}
      \/ id # Nil /\ promise'[r] = "pending" /\ slots'[r] = slots[r]
  BY <1>3 DEF Typed
<1>5. /\ at'[r] = stop /\ own'[r] = mine
  BY <1>1 DEF Typed
<1>6. Wanted(r)' = id
  BY <1>5 DEF Wanted, Target
<1>7. /\ mine.agent # Nil => mine.agent # mine.channel /\ mine.agent # global
      /\ mine.channel # Nil => mine.channel # global
      /\ at[r] = "idle" => slots[r] = {}
      /\ at[r] # "channel" => mine.channel \notin slots[r]
  BY DEF Ready
<1> HIDE DEF stop, id
<1>8. Placed(r)'
  <2>1. CASE stop = "running"
    BY <1>1, <1>4, <1>5, <2>1 DEF Placed, Levels
  <2>2. CASE stop = "agent"
    <3>1. slots[r] = {} /\ id = mine.agent /\ id # Nil
      BY <1>1, <1>2, <1>7, <2>2
    <3> QED
      BY <1>4, <1>5, <1>6, <1>7, <2>2, <3>1 DEF Placed, Levels
  <2>3. CASE stop = "global"
    <3>1. /\ id = global /\ id # Nil /\ slots[r] \subseteq {mine.agent}
          /\ mine.channel \notin slots[r] /\ mine.channel # id
      BY <1>1, <1>2, <1>7, <2>3 DEF Levels
    <3> QED
      BY <1>4, <1>5, <1>6, <2>3, <3>1 DEF Placed, Levels
  <2>4. CASE stop = "channel"
    <3>1. id = mine.channel /\ id # Nil /\ mine.channel \notin slots[r]
      BY <1>1, <1>2, <1>7, <2>4 DEF Levels
    <3> QED
      BY <1>4, <1>5, <1>6, <2>4, <3>1 DEF Placed, Levels
  <2> QED
    BY <1>1, <2>1, <2>2, <2>3, <2>4 DEF Levels
<1>9. Current(r)'
  <2>1. CASE at[r] = "idle"
    BY <1>5, <2>1 DEF Current
  <2>2. CASE at[r] # "idle"
    <3>1. stop # "agent" /\ mine = own[r] /\ Current(r)
      BY <1>1, <2>2
    <3>2. mine.agent # Nil => mine.agent # id
      BY <1>1, <1>2, <1>7, <3>1 DEF Levels
    <3>3. mine.agent # Nil /\ mine.agent \in slots'[r] => mine.agent \in slots[r]
      BY <1>4, <3>2
    <3> QED
      BY <1>5, <3>1, <3>3 DEF Current
  <2> QED
    BY <2>1, <2>2
<1>10. ASSUME NEW q \in Reqs, q # r
       PROVE  Placed(q)' /\ Current(q)'
  <2>1. at'[q] = at[q] /\ promise'[q] = promise[q] /\ slots'[q] = slots[q] /\ own'[q] = own[q]
    BY <1>10, MoveOnTyped DEF Typed
  <2>2. Wanted(q)' = Wanted(q)
    BY <2>1 DEF Wanted, Target
  <2> QED
    BY <2>1, <2>2 DEF Placed, Current
<1> QED
  BY <1>8, <1>9, <1>10

\* the permit that was awaited is there
LEMMA ProceedInv == ASSUME Inv, NEW r \in Reqs, Proceed(r) PROVE Inv'
<1>1. Typed /\ Placed(r) /\ \A q \in Reqs : Placed(q) /\ Current(q)
  BY DEF Inv
<1>2. promise[r] = "resolved" /\ MoveOn(r, sems, own[r], budget[r])
      /\ UNCHANGED <<conf, global, channels, agents, own, budget>>
  BY DEF Proceed
<1>3. Ready(r, sems, own[r])
  <2>1. at[r] \in Levels
    BY <1>1, <1>2 DEF Placed
  <2>2. /\ own[r].agent # Nil => own[r].agent # own[r].channel /\ own[r].agent # global
        /\ own[r].channel # Nil => own[r].channel # global
    BY OwnApart DEF Inv
  <2>3. own[r] \in [agent : Ids \cup {Nil}, channel : Ids \cup {Nil}]
    BY <1>1 DEF Typed
  <2>4. /\ sems \in [Ids -> Sems]
        /\ \A i \in Ids : /\ Sound(sems[i])
                          /\ Waiters(sems[i]) = Waiting(i)
                          /\ sems[i].active = Cardinality(Occupants(i))
    BY DEF Inv, Heap
  <2> QED
    BY <1>1, <1>2, <2>1, <2>2, <2>3, <2>4 DEF Ready, Placed, Levels
<1>4. budget[r] \in 0..Infinity
  BY <1>1 DEF Typed
<1>5. own' = [own EXCEPT ![r] = own[r]] /\ global' = global /\ InAgents' = InAgents
  BY <1>1, <1>2 DEF InAgents, Typed
<1>6. Heap'
  BY <1>1, <1>2, <1>3, <1>4, <1>5, MoveOnHeap
<1>7. at[r] # "idle"
  BY <1>1, <1>2 DEF Placed, Levels
<1>8. \A q \in Reqs : Placed(q)' /\ Current(q)'
  BY <1>1, <1>2, <1>3, <1>4, <1>5, <1>7, MoveOnPlaced
<1>9. Typed'
  BY <1>1, <1>2, <1>3, <1>4, MoveOnTyped DEF Typed
<1>10. Apart'
  BY <1>2 DEF Inv, Apart, AgentSems, ChannelSems, InAgents, InChannels
<1> QED
  BY <1>2, <1>6, <1>8, <1>9, <1>10 DEF Inv

\* an address that may be used again is in nobody's hands
LEMMA FreeFacts ==
  ASSUME Inv, NEW i \in Free
  PROVE  /\ i \in Ids /\ i # Nil /\ i # global
         /\ i \notin AgentSems \cup ChannelSems
         /\ Waiting(i) = {} /\ Occupants(i) = {}
<1>1. i \in Ids /\ i # Nil
  BY NilIsNoId DEF Free
<1>2. i # global /\ i \notin AgentSems \cup ChannelSems
  BY DEF Free, AgentSems, ChannelSems, InAgents, InChannels
<1>3. Occupants(i) = {}
  BY DEF Free, Occupants
<1>4. Waiters(sems[i]) = {}
  BY DEF Free, Waiters
<1> QED
  BY <1>1, <1>2, <1>3, <1>4 DEF Inv, Heap

\* the call of acquire()
LEMMA AcquireInv ==
  ASSUME Inv, NEW r \in Reqs, NEW c \in Channels, NEW a \in Agents \cup {Nil}, NEW b \in Budgets,
         Acquire(r, c, a, b)
  PROVE  Inv'
<1> DEFINE new1 == Lowest(Free)
           new2 == Lowest(Free \ {new1})
           agentSem == IF conf.agent = 0 \/ a = Nil THEN Nil
                       ELSE IF agents[a] = Nil THEN new1 ELSE agents[a]
           sem == IF conf.channel = 0 THEN Nil
                  ELSE IF channels[c] = Nil THEN new2 ELSE channels[c]
           mine == [agent |-> agentSem, channel |-> sem]
           h == [i \in Ids |-> IF i = new1 /\ i = agentSem THEN NewSem(conf.agent)
                               ELSE IF i = new2 /\ i = sem THEN NewSem(conf.channel)
                               ELSE sems[i]]
<1>1. /\ at[r] = "idle" /\ Cardinality(Free) >= 2
      /\ agents' = IF agentSem = Nil THEN agents ELSE [agents EXCEPT ![a] = agentSem]
      /\ channels' = IF sem = Nil THEN channels ELSE [channels EXCEPT ![c] = sem]
      /\ own' = [own EXCEPT ![r] = mine]
      /\ MoveOn(r, h, mine, b)
      /\ budget' = [budget EXCEPT ![r] = b]
      /\ UNCHANGED <<conf, global, reloads>>
  BY DEF Acquire
<1>2. Typed /\ Heap /\ Apart /\ \A q \in Reqs : Placed(q) /\ Current(q)
  BY DEF Inv
<1>3. new1 \in Free /\ new2 \in Free /\ new1 # new2
  <2>1. Free \in SUBSET Nat
    BY IdsAssumption DEF Free, Ids
  <2>2. Free # {}
    <3> SUFFICES ASSUME Free = {} PROVE FALSE
      OBVIOUS
    <3>1. Cardinality(Free) = 0
      BY FS_EmptySet
    <3>2. Cardinality(Free) >= 2
      BY <1>1
    <3> QED
      BY <3>1, <3>2
  <2>3. new1 \in Free
    BY <2>1, <2>2, LowestIn
  <2>4. Free \ {new1} # {}
    <3> SUFFICES ASSUME Free \ {new1} = {} PROVE FALSE
      OBVIOUS
    <3> HIDE DEF new1
    <3>1. Free = {new1}
      BY <2>3
    <3> QED
      BY <1>1, <3>1, FS_Singleton
  <2>5. Free \ {new1} \in SUBSET Nat
    BY <2>1
  <2>6. new2 \in Free \ {new1}
    <3> HIDE DEF new1
    <3> QED
      BY <2>4, <2>5, LowestIn
  <2> HIDE DEF new1, new2
  <2> QED
    BY <2>3, <2>6
<1> HIDE DEF new1, new2
<1>4. /\ new1 \in Ids /\ new1 # Nil /\ new1 # global /\ new1 \notin AgentSems \cup ChannelSems
      /\ Waiting(new1) = {} /\ Occupants(new1) = {}
      /\ new2 \in Ids /\ new2 # Nil /\ new2 # global /\ new2 \notin AgentSems \cup ChannelSems
      /\ Waiting(new2) = {} /\ Occupants(new2) = {}
  BY <1>3, FreeFacts
<1>5. /\ agentSem \in {Nil, new1} \cup InAgents
      /\ agentSem # Nil => a \in Agents /\ agents[a] \in {Nil, agentSem}
      /\ agentSem \in Ids \cup {Nil}
  <2>1. CASE conf.agent = 0 \/ a = Nil
    BY <2>1
  <2>2. CASE conf.agent # 0 /\ a # Nil
    <3>1. a \in Agents /\ agents[a] \in Ids \cup {Nil} /\ (agents[a] # Nil => agents[a] \in InAgents)
      BY <1>2, <2>2 DEF Typed, InAgents
    <3> QED
      BY <1>4, <2>2, <3>1
  <2> QED
    BY <2>1, <2>2
<1>6. /\ sem \in {Nil, new2} \cup InChannels
      /\ sem # Nil => channels[c] \in {Nil, sem}
      /\ sem \in Ids \cup {Nil}
  <2>1. channels[c] \in Ids \cup {Nil} /\ (channels[c] # Nil => channels[c] \in InChannels)
    BY <1>2 DEF Typed, InChannels
  <2> QED
    BY <1>4, <2>1
<1>7. conf.agent \in Nat /\ conf.channel \in Nat
  BY <1>2, LimitsAssumption DEF Typed, Configurations
<1>8. \A i \in Ids : /\ Sound(h[i]) /\ Waiters(h[i]) = Waiting(i)
                     /\ h[i].active = Cardinality(Occupants(i))
  <2> SUFFICES ASSUME NEW i \in Ids
               PROVE  /\ Sound(h[i]) /\ Waiters(h[i]) = Waiting(i)
                      /\ h[i].active = Cardinality(Occupants(i))
    OBVIOUS
  <2>1. h[i] = sems[i] \/ (/\ Waiting(i) = {} /\ Occupants(i) = {}
                           /\ h[i] = NewSem(conf.agent) \/ h[i] = NewSem(conf.channel))
    BY <1>4
  <2>2. CASE h[i] = sems[i]
    BY <1>2, <2>2 DEF Heap
  <2>3. CASE /\ Waiting(i) = {} /\ Occupants(i) = {}
             /\ h[i] = NewSem(conf.agent) \/ h[i] = NewSem(conf.channel)
    BY <1>7, <2>3, NewSound, FS_EmptySet
  <2> QED
    BY <2>1, <2>2, <2>3
<1>9. h \in [Ids -> Sems]
  <2>1. \A i \in Ids : h[i] \in Sems
    BY <1>8 DEF Sound
  <2> QED
    BY <2>1
<1> HIDE DEF agentSem, sem, h
<1>10. /\ agentSem # Nil => agentSem # sem /\ agentSem # global
       /\ sem # Nil => sem # global
  BY <1>2, <1>3, <1>4, <1>5, <1>6 DEF Apart, AgentSems, ChannelSems
<1>11. slots[r] = {} /\ promise[r] # "pending"
  BY <1>1, <1>2 DEF Placed, Levels
<1>12. mine \in [agent : Ids \cup {Nil}, channel : Ids \cup {Nil}]
       /\ mine.agent = agentSem /\ mine.channel = sem
  BY <1>5, <1>6
<1>13. b \in 0..Infinity
  BY InfinityAssumption
<1> HIDE DEF mine
<1>14. Ready(r, h, mine)
  BY <1>1, <1>8, <1>9, <1>10, <1>11, <1>12 DEF Ready
<1>15. InAgents \subseteq InAgents' /\ InAgents' \subseteq InAgents \cup ({agentSem} \ {Nil})
       /\ (agentSem # Nil => agentSem \in InAgents')
  BY <1>1, <1>2, <1>5 DEF InAgents, Typed
<1>16. InChannels' \subseteq InChannels \cup ({sem} \ {Nil})
  BY <1>1, <1>2, <1>6 DEF InChannels, Typed
<1>17. Heap'
  BY <1>1, <1>2, <1>13, <1>14, MoveOnHeap
<1>18. \A q \in Reqs : Placed(q)' /\ Current(q)'
  BY <1>1, <1>2, <1>12, <1>13, <1>14, <1>15, MoveOnPlaced
<1>19. Typed'
  <2>1. /\ at' \in [Reqs -> Places]
        /\ promise' \in [Reqs -> {"none", "pending", "resolved", "timedOut", "drained"}]
        /\ slots' \in [Reqs -> SUBSET Ids]
        /\ timer' \in [Reqs -> 0..Infinity]
    BY <1>1, <1>2, <1>13, <1>14, MoveOnTyped
  <2>2. /\ agents' \in [Agents -> Ids \cup {Nil}]
        /\ channels' \in [Channels -> Ids \cup {Nil}]
    BY <1>1, <1>2, <1>5, <1>6 DEF Typed
  <2>3. /\ own' \in [Reqs -> [agent : Ids \cup {Nil}, channel : Ids \cup {Nil}]]
        /\ budget' \in [Reqs -> 0..Infinity]
    BY <1>1, <1>2, <1>12, <1>13 DEF Typed
  <2> QED
    BY <1>1, <1>2, <2>1, <2>2, <2>3 DEF Typed
<1>20. Apart'
  <2>1. \A q \in Reqs : own'[q] = IF q = r THEN mine ELSE own[q]
    BY <1>1, <1>2 DEF Typed
  <2>2. AgentSems' \subseteq AgentSems \cup ({agentSem} \ {Nil})
    BY <1>12, <1>15, <2>1 DEF AgentSems
  <2>3. ChannelSems' \subseteq ChannelSems \cup ({sem} \ {Nil})
    BY <1>12, <1>16, <2>1 DEF ChannelSems
  <2>4. agentSem # Nil => agentSem \in AgentSems \cup {new1}
    BY <1>5 DEF AgentSems
  <2>5. sem # Nil => sem \in ChannelSems \cup {new2}
    BY <1>6 DEF ChannelSems
  <2> QED
    BY <1>1, <1>2, <1>3, <1>4, <1>10, <2>2, <2>3, <2>4, <2>5 DEF Apart
<1> QED
  BY <1>1, <1>17, <1>18, <1>19, <1>20 DEF Inv

-----------------------------------------------------------------------------
(* The other steps.                                                        *)

\* the awaited permit was refused
LEMMA FailInv == ASSUME Inv, NEW r \in Reqs, Fail(r) PROVE Inv'
BY LeaveInv DEF Fail, Rollback

\* the attempt is over
LEMMA FinishInv == ASSUME Inv, NEW r \in Reqs, Finish(r) PROVE Inv'
<1>1. promise[r] # "pending"
  BY DEF Finish, Inv, Placed, Levels
<1> QED
  BY <1>1, LeaveInv DEF Finish, Release

\* a queue timer takes one waiter out of one queue, and no slot changes hands
LEMMA TimeoutInv == ASSUME Inv, NEW r \in Reqs, Timeout(r) PROVE Inv'
<1>1. /\ promise[r] = "pending"
      /\ sems' = [i \in Ids |-> IF r \in Waiters(sems[i]) THEN Abandon(sems[i], r) ELSE sems[i]]
      /\ promise' = [promise EXCEPT ![r] = "timedOut"]
      /\ timer' = [timer EXCEPT ![r] = Infinity]
      /\ UNCHANGED <<conf, global, channels, agents, at, slots, own, budget, reloads>>
  BY DEF Timeout
<1>2. Typed /\ Heap /\ \A q \in Reqs : Placed(q) /\ Current(q)
  BY DEF Inv
<1>3. promise'[r] = "timedOut" /\ \A q \in Reqs : q # r => promise'[q] = promise[q]
  BY <1>1, <1>2 DEF Typed
<1>4. \A q \in Reqs : Wanted(q)' = Wanted(q)
  BY <1>1 DEF Wanted, Target
<1>5. ASSUME NEW i \in Ids
      PROVE  /\ Sound(sems'[i]) /\ Waiters(sems'[i]) = Waiting(i)'
             /\ sems'[i].active = Cardinality(Occupants(i)')
  <2>1. Occupants(i)' = Occupants(i)
    BY <1>1 DEF Occupants
  <2>2. Waiting(i)' = Waiting(i) \ {r}
    BY <1>3, <1>4 DEF Waiting
  <2>3. /\ Sound(sems[i]) /\ Waiters(sems[i]) = Waiting(i)
        /\ sems[i].active = Cardinality(Occupants(i))
    BY <1>2 DEF Heap
  <2>4. CASE r \in Waiters(sems[i])
    BY <1>1, <2>1, <2>2, <2>3, <2>4, AbandonSound
  <2>5. CASE r \notin Waiters(sems[i])
    <3>1. sems'[i] = sems[i] /\ Waiting(i)' = Waiting(i)
      BY <1>1, <2>2, <2>3, <2>5
    <3> QED
      BY <2>1, <2>3, <3>1
  <2> QED
    BY <2>4, <2>5
<1>6. sems' \in [Ids -> Sems]
  <2>1. \A i \in Ids : sems'[i] \in Sems
    BY <1>5 DEF Sound
  <2> QED
    BY <1>1, <2>1
<1>7. Heap'
  BY <1>5, <1>6 DEF Heap
<1>8. \A q \in Reqs : Placed(q)' /\ Current(q)'
  <2>1. InAgents' = InAgents
    BY <1>1 DEF InAgents
  <2>2. ASSUME NEW q \in Reqs PROVE Placed(q)' /\ Current(q)'
    <3>1. CASE q = r
      BY <1>1, <1>2, <1>3, <1>4, <2>1, <3>1 DEF Placed, Current
    <3>2. CASE q # r
      BY <1>1, <1>2, <1>3, <1>4, <2>1, <3>2 DEF Placed, Current
    <3> QED
      BY <3>1, <3>2
  <2> QED
    BY <2>2
<1>9. Typed'
  <2>1. promise' \in [Reqs -> {"none", "pending", "resolved", "timedOut", "drained"}]
    BY <1>1, <1>2 DEF Typed
  <2>2. timer' \in [Reqs -> 0..Infinity]
    BY <1>1, <1>2, InfinityAssumption DEF Typed
  <2> QED
    BY <1>1, <1>2, <2>1, <2>2 DEF Typed
<1>10. Apart'
  BY <1>1 DEF Inv, Apart, AgentSems, ChannelSems, InAgents, InChannels
<1> QED
  BY <1>1, <1>7, <1>8, <1>9, <1>10 DEF Inv

\* nothing but the timers changes
LEMMA StillInv ==
  ASSUME Inv, UNCHANGED <<objects, at, promise, slots, own, budget, reloads>>,
         timer' \in [Reqs -> 0..Infinity]
  PROVE  Inv'
<1>1. \A q \in Reqs : Wanted(q)' = Wanted(q)
  BY DEF Wanted, Target, objects
<1>2. \A i \in Ids : Waiting(i)' = Waiting(i) /\ Occupants(i)' = Occupants(i)
  BY <1>1 DEF Waiting, Occupants
<1>3. InAgents' = InAgents /\ AgentSems' = AgentSems /\ ChannelSems' = ChannelSems
  BY DEF InAgents, InChannels, AgentSems, ChannelSems, objects
<1>4. Typed'
  BY DEF Inv, Typed, objects
<1>5. Heap'
  BY <1>2 DEF Inv, Heap, objects
<1>6. \A q \in Reqs : Placed(q)' /\ Current(q)'
  BY <1>1, <1>3 DEF Inv, Placed, Current
<1>7. Apart'
  BY <1>3 DEF Inv, Apart, objects
<1> QED
  BY <1>4, <1>5, <1>6, <1>7 DEF Inv, objects

\* a tick of the clock
LEMMA TickInv == ASSUME Inv, Tick PROVE Inv'
<1>1. ASSUME NEW r \in Reqs
      PROVE  (IF timer[r] = Infinity THEN Infinity ELSE timer[r] - 1) \in 0..Infinity
  <2>1. timer[r] \in 0..Infinity /\ timer[r] # 0
    BY DEF Tick, Inv, Typed
  <2> QED
    BY <2>1, InfinityAssumption
<1>2. timer' \in [Reqs -> 0..Infinity]
  BY <1>1 DEF Tick
<1> QED
  BY <1>2, StillInv DEF Tick

\* an object that somebody occupies or waits for has slots in use
LEMMA InUse ==
  ASSUME Inv, NEW q \in Reqs, NEW i \in Ids, i \in slots[q] \/ (promise[q] = "pending" /\ Wanted(q) = i)
  PROVE  sems[i].active # 0
<1>1. Sound(sems[i]) /\ Waiters(sems[i]) = Waiting(i) /\ sems[i].active = Cardinality(Occupants(i))
  BY DEF Inv, Heap
<1>2. CASE i \in slots[q]
  <2>1. q \in Occupants(i) /\ IsFiniteSet(Occupants(i))
    BY <1>2, FiniteCalls DEF Occupants
  <2> QED
    BY <1>1, <2>1, FS_EmptySet
<1>3. CASE promise[q] = "pending" /\ Wanted(q) = i
  <2>1. q \in Waiters(sems[i])
    BY <1>1, <1>3 DEF Waiting
  <2>2. sems[i].queue # <<>>
    BY <1>1, <2>1 DEF Waiters, Sound, Sems
  <2> QED
    BY <1>1, <2>2 DEF Sound, Sems, Limits
<1> QED
  BY <1>2, <1>3

\* an agent's entry is forgotten only when nobody uses it
LEMMA PruneAgentsInv == ASSUME Inv, NEW old \in SUBSET Agents, PruneAgents(old) PROVE Inv'
<1>1. /\ \A a \in old : agents[a] # Nil /\ sems[agents[a]].active = 0
      /\ agents' = [a \in Agents |-> IF a \in old THEN Nil ELSE agents[a]]
      /\ UNCHANGED <<sems, conf, global, channels, at, promise, slots, own, timer, budget, reloads>>
  BY DEF PruneAgents, Reclaimable, requests
<1>2. \A q \in Reqs : Wanted(q)' = Wanted(q)
  BY <1>1 DEF Wanted, Target
<1>3. \A i \in Ids : Waiting(i)' = Waiting(i) /\ Occupants(i)' = Occupants(i)
  BY <1>1, <1>2 DEF Waiting, Occupants
<1>4. Heap'
  BY <1>1, <1>3 DEF Inv, Heap
<1>5. Typed'
  <2>1. agents' \in [Agents -> Ids \cup {Nil}]
    BY <1>1 DEF Inv, Typed
  <2> QED
    BY <1>1, <2>1 DEF Inv, Typed
<1>6. ASSUME NEW q \in Reqs PROVE Placed(q)' /\ Current(q)'
  <2>1. Placed(q)'
    BY <1>1, <1>2 DEF Inv, Placed
  <2>2. ASSUME own[q].agent # Nil, own[q].agent \in slots[q] \/ (promise[q] = "pending" /\ at[q] = "agent")
        PROVE  own[q].agent \in InAgents'
    <3>1. own[q].agent \in InAgents /\ own[q].agent \in Ids
      BY <2>2 DEF Inv, Current, Typed
    <3>2. sems[own[q].agent].active # 0
      <4>1. at[q] = "agent" => Wanted(q) = own[q].agent
        BY DEF Wanted, Target
      <4> QED
        BY <2>2, <3>1, <4>1, InUse
    <3>3. PICK a \in Agents : agents[a] = own[q].agent
      BY <3>1 DEF InAgents
    <3>4. a \notin old
      BY <1>1, <3>2, <3>3
    <3>5. agents'[a] = own[q].agent
      BY <1>1, <3>3, <3>4
    <3> QED
      BY <2>2, <3>5 DEF InAgents
  <2>3. Current(q)'
    BY <1>1, <2>2 DEF Current
  <2> QED
    BY <2>1, <2>3
<1>7. Apart'
  <2>1. InAgents' \subseteq InAgents /\ InChannels' = InChannels
    BY <1>1 DEF InAgents, InChannels
  <2>2. AgentSems' \subseteq AgentSems /\ ChannelSems' = ChannelSems
    BY <1>1, <2>1 DEF AgentSems, ChannelSems
  <2> QED
    BY <1>1, <2>2 DEF Inv, Apart
<1> QED
  BY <1>1, <1>4, <1>5, <1>6, <1>7 DEF Inv

(* A reload or a drain admits or turns away waiters, and nobody leaves.    *)
LEMMA NobodyLeaves ==
  ASSUME Inv, NEW h, NEW admitted, NEW rejected,
         Settles(admitted, rejected, Nil, {}), Settle(h, admitted, rejected, Nil, {}),
         h \in [Ids -> Sems],
         \A i \in Ids : /\ Sound(h[i])
                        /\ Waiters(h[i]) = Waiting(i) \ (admitted[i] \cup rejected)
                        /\ h[i].active = Cardinality(Occupants(i) \cup admitted[i]),
         UNCHANGED <<agents, at, own, budget>>,
         \A q \in Reqs : promise'[q] = "pending" => Wanted(q)' = Wanted(q)
  PROVE  /\ Heap'
         /\ \A q \in Reqs : Placed(q)' /\ Current(q)'
         /\ promise' \in [Reqs -> {"none", "pending", "resolved", "timedOut", "drained"}]
         /\ slots' \in [Reqs -> SUBSET Ids]
         /\ timer' \in [Reqs -> 0..Infinity]
<1>1. Typed /\ \A q \in Reqs : q # Nil
  BY ReqsAssumption DEF Inv
<1>2. ASSUME NEW i \in Ids
      PROVE  /\ Waiting(i)' = Waiting(i) \ (admitted[i] \cup rejected)
             /\ Occupants(i)' = Occupants(i) \cup admitted[i]
  <2>1. /\ Waiting(i)' = Waiting(i) \ (admitted[i] \cup rejected)
        /\ Occupants(i)' = {q \in Reqs : IF q = Nil THEN i \in {} ELSE i \in slots[q]}
                             \cup admitted[i]
    BY <1>1, SettleSets
  <2>2. {q \in Reqs : IF q = Nil THEN i \in {} ELSE i \in slots[q]} = Occupants(i)
    BY <1>1 DEF Occupants
  <2> QED
    BY <2>1, <2>2
<1>3. sems' = h
  BY DEF Settle
<1>4. Heap'
  <2>1. sems' \in [Ids -> Sems]
    BY <1>3
  <2>2. ASSUME NEW i \in Ids
        PROVE  /\ Sound(sems'[i]) /\ Waiters(sems'[i]) = Waiting(i)'
               /\ sems'[i].active = Cardinality(Occupants(i)')
    BY <1>2, <1>3
  <2> QED
    BY <2>1, <2>2 DEF Heap
<1>5. \A q \in Reqs : Placed(q)' /\ Current(q)'
  <2>1. InAgents' = InAgents
    BY DEF InAgents
  <2> QED
    BY <1>1, <2>1, SettleOthers
<1> QED
  BY <1>1, <1>4, <1>5, SettleTyped

\* the shutdown turns the waiters away and leaves what is running alone
LEMMA DrainInv == ASSUME Inv, Drain PROVE Inv'
<1> DEFINE all == {global} \cup InChannels \cup InAgents
           turnedAway == UNION {Waiters(sems[i]) : i \in all \ {Nil}}
           h == [i \in Ids |-> IF i \in all THEN Drained(sems[i]) ELSE sems[i]]
           admitted == [i \in Ids |-> {}]
<1>1. /\ Settle(h, admitted, turnedAway, Nil, {})
      /\ UNCHANGED <<conf, global, channels, agents, at, own, budget, reloads>>
  BY DEF Drain
<1>2. Typed /\ Heap
  BY DEF Inv
<1>3. \A i \in all \ {Nil} : i \in Ids
  BY <1>2 DEF Typed, InChannels, InAgents
<1>4. \A q : q \in turnedAway <=> \E i \in Ids : i \in all /\ q \in Waiting(i)
  <2>1. \A i \in Ids : Waiters(sems[i]) = Waiting(i) /\ i # Nil
    BY <1>2, NilIsNoId DEF Heap
  <2>2. \A i \in all \ {Nil} : Waiters(sems[i]) = Waiting(i)
    BY <1>3, <2>1
  <2> HIDE DEF all
  <2> QED
    BY <1>3, <2>1, <2>2
<1> HIDE DEF all, turnedAway
<1>5. Settles(admitted, turnedAway, Nil, {})
  BY <1>4, ReqsAssumption DEF Settles, Waiting
<1>6. ASSUME NEW i \in Ids
      PROVE  /\ Sound(h[i])
             /\ Waiters(h[i]) = Waiting(i) \ (admitted[i] \cup turnedAway)
             /\ h[i].active = Cardinality(Occupants(i) \cup admitted[i])
  <2>1. /\ Sound(sems[i]) /\ Waiters(sems[i]) = Waiting(i)
        /\ sems[i].active = Cardinality(Occupants(i))
    BY <1>2 DEF Heap
  <2>2. Occupants(i) \cup admitted[i] = Occupants(i)
    OBVIOUS
  <2>3. CASE i \in all
    <3>1. Waiting(i) \ (admitted[i] \cup turnedAway) = {}
      BY <1>4, <2>3
    <3>2. h[i] = Drained(sems[i])
      BY <2>3
    <3> QED
      BY <2>1, <2>2, <3>1, <3>2, DrainedSound
  <2>4. CASE i \notin all
    <3>1. Waiting(i) \ (admitted[i] \cup turnedAway) = Waiting(i)
      BY <1>4, <2>4 DEF Waiting
    <3>2. h[i] = sems[i]
      BY <2>4
    <3> QED
      BY <2>1, <2>2, <3>1, <3>2
  <2> QED
    BY <2>3, <2>4
<1>7. h \in [Ids -> Sems]
  <2>1. \A i \in Ids : h[i] \in Sems
    BY <1>6 DEF Sound
  <2> QED
    BY <2>1
<1> HIDE DEF h, admitted
<1>8. \A q \in Reqs : Wanted(q)' = Wanted(q)
  BY <1>1 DEF Wanted, Target
<1>9. /\ Heap' /\ \A q \in Reqs : Placed(q)' /\ Current(q)'
      /\ promise' \in [Reqs -> {"none", "pending", "resolved", "timedOut", "drained"}]
      /\ slots' \in [Reqs -> SUBSET Ids]
      /\ timer' \in [Reqs -> 0..Infinity]
  BY <1>1, <1>5, <1>6, <1>7, <1>8, NobodyLeaves
<1>10. Typed'
  BY <1>1, <1>2, <1>9 DEF Typed
<1>11. Apart'
  BY <1>1 DEF Inv, Apart, AgentSems, ChannelSems, InAgents, InChannels
<1> QED
  BY <1>1, <1>9, <1>10, <1>11 DEF Inv

\* what configure() does to an object: one thing at most, and with a limit
LEMMA ReloadFacts ==
  ASSUME Inv, NEW n \in Configurations, NEW i \in Ids
  PROVE  /\ ~ (Resized(n, i) /\ TurnedOff(n, i))
         /\ Resized(n, i) => LimitFor(n, i) \in Limits
         /\ GlobalCreated(n) /\ i \in Free => ~ Resized(n, i) /\ ~ TurnedOff(n, i)
<1>1. n.global \in Nat /\ n.channel \in Nat /\ n.agent \in Nat
  BY LimitsAssumption DEF Configurations
<1>2. /\ i = global => i \notin InChannels /\ i \notin InAgents
      /\ ~ (i \in InChannels /\ i \in InAgents)
  BY DEF Inv, Apart, AgentSems, ChannelSems
<1>3. ~ (Resized(n, i) /\ TurnedOff(n, i))
  BY <1>1, <1>2 DEF Resized, TurnedOff
<1>4. Resized(n, i) => LimitFor(n, i) \in Limits
  <2>1. CASE i = global
    BY <1>1, <2>1 DEF Resized, LimitFor, Limits
  <2>2. CASE i # global /\ i \in InChannels
    BY <1>1, <2>2 DEF Resized, LimitFor, Limits
  <2>3. CASE i # global /\ i \notin InChannels
    BY <1>1, <2>3 DEF Resized, LimitFor, Limits, AtLeastOne
  <2> QED
    BY <2>1, <2>2, <2>3
<1>5. i \in Free => ~ Resized(n, i) /\ ~ TurnedOff(n, i)
  <2>1. i \in Free => i # global /\ i \notin InAgents /\ i \notin InChannels
    BY FreeFacts DEF AgentSems, ChannelSems
  <2> QED
    BY <2>1 DEF Resized, TurnedOff
<1> QED
  BY <1>3, <1>4, <1>5

\* a reload resizes, switches off or creates, and nothing that runs is lost
LEMMA ReloadInv ==
  ASSUME Inv, NEW n \in Configurations, NEW keep \in SUBSET Channels, Reload(n, keep)
  PROVE  Inv'
<1> DEFINE fresh == Lowest(Free)
           off == {j \in Ids : TurnedOff(n, j)}
           h == [i \in Ids |->
                   IF Resized(n, i) THEN Resize(sems[i], LimitFor(n, i))
                   ELSE IF TurnedOff(n, i) THEN Drained(sems[i])
                   ELSE IF GlobalCreated(n) /\ i = fresh THEN NewSem(n.global)
                   ELSE sems[i]]
           admitted == [i \in Ids |-> IF Resized(n, i) THEN PumpedTo(sems[i], LimitFor(n, i)) ELSE {}]
           rejected == UNION {Waiters(sems[i]) : i \in off}
<1>1. /\ conf' = n /\ Free # {}
      /\ Settle(h, admitted, rejected, Nil, {})
      /\ global' = IF GlobalCreated(n) THEN fresh ELSE IF n.global = 0 THEN Nil ELSE global
      /\ channels' = [c \in Channels |-> IF c \in keep THEN channels[c] ELSE Nil]
      /\ UNCHANGED <<agents, at, own, budget>>
  BY DEF Reload
<1>2. Typed /\ Heap /\ Apart /\ \A q \in Reqs : Placed(q)
  BY DEF Inv
<1>3. /\ fresh \in Ids /\ fresh # Nil /\ fresh \notin AgentSems \cup ChannelSems
      /\ Waiting(fresh) = {} /\ Occupants(fresh) = {}
  <2>1. Free \in SUBSET Nat
    BY IdsAssumption DEF Free, Ids
  <2>2. fresh \in Free
    BY <1>1, <2>1, LowestIn
  <2> QED
    BY <2>2, FreeFacts
<1>4. /\ n.global \in Nat
      /\ \A i \in Ids : /\ ~ (Resized(n, i) /\ TurnedOff(n, i))
                        /\ Resized(n, i) => LimitFor(n, i) \in Limits
  BY ReloadFacts, LimitsAssumption DEF Configurations
<1>5. \A i \in Ids : Sound(sems[i]) /\ Waiters(sems[i]) = Waiting(i)
                   /\ sems[i].active = Cardinality(Occupants(i))
  BY <1>2 DEF Heap
<1>6. \A q : q \in rejected <=> \E i \in Ids : TurnedOff(n, i) /\ q \in Waiting(i)
  BY <1>5
<1> HIDE DEF fresh, rejected
<1>7. ASSUME NEW i \in Ids
      PROVE  /\ admitted[i] \subseteq Waiting(i) /\ admitted[i] \cap rejected = {}
             /\ Sound(h[i])
             /\ Waiters(h[i]) = Waiting(i) \ (admitted[i] \cup rejected)
             /\ h[i].active = Cardinality(Occupants(i) \cup admitted[i])
  <2>0. \A q \in Waiting(i) : q \in rejected <=> TurnedOff(n, i)
    BY <1>6 DEF Waiting
  <2>1. CASE Resized(n, i)
    <3> DEFINE s == sems[i]
               m == LimitFor(n, i)
               P == PumpedTo(s, m)
    <3>1. h[i] = Resize(s, m) /\ admitted[i] = P
      BY <2>1
    <3>2. /\ Sound(Resize(s, m)) /\ P \subseteq Waiting(i)
          /\ Waiters(Resize(s, m)) = Waiting(i) \ P
          /\ IsFiniteSet(P)
          /\ Resize(s, m).active = Cardinality(Occupants(i)) + Cardinality(P)
      BY <1>4, <1>5, <2>1, ResizeSound
    <3>3. P \cap rejected = {} /\ Waiting(i) \cap rejected = {}
      BY <1>4, <2>0, <2>1, <3>2
    <3>4. Occupants(i) \cap P = {}
      <4>1. ASSUME NEW w \in P PROVE i \notin slots[w]
        <5>1. w \in Reqs /\ promise[w] = "pending" /\ Wanted(w) = i
          BY <3>2 DEF Waiting
        <5>2. Placed(w) /\ slots[w] \subseteq Ids
          BY <1>2, <5>1 DEF Typed
        <5>3. own[w].agent # Nil => own[w].agent # global
          BY <1>2, <5>1, OwnApart
        <5> QED
          BY <5>1, <5>2, <5>3, NilIsNoId DEF Placed, Wanted, Target
      <4> QED
        BY <4>1 DEF Occupants
    <3>5. IsFiniteSet(Occupants(i))
      BY FiniteCalls DEF Occupants
    <3>6. Cardinality(Occupants(i) \cup P) = Cardinality(Occupants(i)) + Cardinality(P)
      <4> HIDE DEF P
      <4>1. Cardinality(Occupants(i) \cap P) = 0
        BY <3>4, FS_EmptySet
      <4>2. Cardinality(Occupants(i) \cup P)
              = Cardinality(Occupants(i)) + Cardinality(P) - Cardinality(Occupants(i) \cap P)
        BY <3>2, <3>5, FS_Union
      <4>3. Cardinality(Occupants(i)) \in Nat /\ Cardinality(P) \in Nat
        BY <3>2, <3>5, FS_CardinalityType
      <4> QED
        BY <4>1, <4>2, <4>3
    <3> HIDE DEF s, m, P, h, admitted
    <3>7. Waiting(i) \ P = Waiting(i) \ (P \cup rejected)
      BY <3>3
    <3> QED
      BY <3>1, <3>2, <3>3, <3>6, <3>7
  <2>2. CASE ~ Resized(n, i)
    <3>1. admitted[i] = {} /\ Occupants(i) \cup {} = Occupants(i)
      BY <2>2
    <3>2. CASE TurnedOff(n, i)
      <4>1. h[i] = Drained(sems[i])
        BY <2>2, <3>2
      <4>2. Waiting(i) \ ({} \cup rejected) = {}
        BY <2>0, <3>2
      <4> HIDE DEF h, admitted
      <4> QED
        BY <1>5, <3>1, <4>1, <4>2, DrainedSound
    <3>3. CASE ~ TurnedOff(n, i) /\ GlobalCreated(n) /\ i = fresh
      <4>1. h[i] = NewSem(n.global)
        BY <2>2, <3>3
      <4> HIDE DEF h, admitted
      <4> QED
        BY <1>3, <1>4, <3>1, <3>3, <4>1, NewSound, FS_EmptySet
    <3>4. CASE ~ TurnedOff(n, i) /\ ~ (GlobalCreated(n) /\ i = fresh)
      <4>1. h[i] = sems[i]
        BY <2>2, <3>4
      <4>2. Waiting(i) \ ({} \cup rejected) = Waiting(i)
        BY <2>0, <3>4
      <4> HIDE DEF h, admitted
      <4> QED
        BY <1>5, <3>1, <4>1, <4>2
    <3> QED
      BY <3>2, <3>3, <3>4
  <2> QED
    BY <2>1, <2>2
<1>8. h \in [Ids -> Sems]
  <2>1. \A i \in Ids : h[i] \in Sems
    BY <1>7 DEF Sound
  <2> QED
    BY <2>1
<1>9. Settles(admitted, rejected, Nil, {})
  <2>1. admitted \in [Ids -> SUBSET Reqs]
    BY <1>7 DEF Waiting
  <2> HIDE DEF admitted
  <2> QED
    BY <1>6, <1>7, <2>1, ReqsAssumption DEF Settles, Waiting
<1> HIDE DEF h, admitted
<1>10. ASSUME NEW q \in Reqs, promise'[q] = "pending"
       PROVE  Wanted(q)' = Wanted(q)
  <2>1. promise[q] = "pending" /\ q \notin rejected
    BY <1>1, <1>2, <1>9, <1>10, SettleCalls
  <2>2. at'[q] = at[q] /\ own'[q] = own[q]
    BY <1>1
  <2>3. CASE at[q] = "global"
    <3>1. Wanted(q) = global /\ global # Nil /\ global \in Ids
      BY <1>2, <2>1, <2>3 DEF Wanted, Target, Placed, Typed
    <3>2. q \in Waiting(global)
      BY <2>1, <3>1 DEF Waiting
    <3>3. ~ TurnedOff(n, global)
      BY <1>6, <2>1, <3>1, <3>2
    <3>4. n.global # 0 /\ ~ GlobalCreated(n)
      BY <3>1, <3>3 DEF TurnedOff, GlobalCreated
    <3> QED
      BY <1>1, <2>2, <2>3, <3>4 DEF Wanted, Target
  <2>4. CASE at[q] # "global"
    BY <2>2, <2>4 DEF Wanted, Target
  <2> QED
    BY <2>3, <2>4
<1>11. /\ Heap' /\ \A q \in Reqs : Placed(q)' /\ Current(q)'
       /\ promise' \in [Reqs -> {"none", "pending", "resolved", "timedOut", "drained"}]
       /\ slots' \in [Reqs -> SUBSET Ids]
       /\ timer' \in [Reqs -> 0..Infinity]
  BY <1>1, <1>7, <1>8, <1>9, <1>10, NobodyLeaves
<1>12. Typed'
  <2>1. global' \in Ids \cup {Nil}
    BY <1>1, <1>2, <1>3 DEF Typed
  <2>2. channels' \in [Channels -> Ids \cup {Nil}]
    BY <1>1, <1>2 DEF Typed
  <2> QED
    BY <1>1, <1>2, <1>11, <2>1, <2>2 DEF Typed
<1>13. Apart'
  <2>1. InChannels' \subseteq InChannels /\ InAgents' = InAgents
    BY <1>1 DEF InChannels, InAgents
  <2>2. AgentSems' = AgentSems /\ ChannelSems' \subseteq ChannelSems
    BY <1>1, <2>1 DEF AgentSems, ChannelSems
  <2>3. Nil \notin AgentSems \cup ChannelSems
    BY DEF AgentSems, ChannelSems, InAgents, InChannels
  <2>4. global' \in {fresh, Nil, global}
    BY <1>1
  <2> QED
    BY <1>2, <1>3, <2>2, <2>3, <2>4 DEF Apart
<1>14. conf'.global = 0 <=> global' = Nil
  <2>1. conf.global = 0 <=> global = Nil
    BY DEF Inv
  <2> QED
    BY <1>1, <1>3, <1>4, <2>1 DEF GlobalCreated
<1> QED
  BY <1>11, <1>12, <1>13, <1>14 DEF Inv

-----------------------------------------------------------------------------
(* The specification.                                                      *)

\* a gateway that starts
LEMMA InitInv == Init => Inv
<1> SUFFICES ASSUME Init PROVE Inv
  OBVIOUS
<1>1. conf \in Configurations /\ conf.global \in Nat
  BY LimitsAssumption DEF Init, Configurations
<1>2. global \in Ids \cup {Nil} /\ (conf.global = 0 <=> global = Nil)
  BY IdsAssumption DEF Init, Ids, Nil
<1>3. /\ \A q \in Reqs : at[q] = "idle" /\ promise[q] = "none" /\ slots[q] = {} /\ own[q] = NoSems
      /\ channels = [c \in Channels |-> Nil] /\ agents = [a \in Agents |-> Nil]
  BY DEF Init
<1>4. Typed
  BY <1>1, <1>2, InfinityAssumption DEF Init, Typed, NoSems, Places
<1>5. Heap
  <2>1. ASSUME NEW i \in Ids
        PROVE  /\ Sound(sems[i]) /\ Waiters(sems[i]) = Waiting(i)
               /\ sems[i].active = Cardinality(Occupants(i))
    <3>1. \E k \in Nat : sems[i] = NewSem(k)
      BY <1>1 DEF Init
    <3>2. Waiting(i) = {} /\ Occupants(i) = {}
      BY <1>3 DEF Waiting, Occupants
    <3> QED
      BY <3>1, <3>2, NewSound, FS_EmptySet
  <2>2. sems \in [Ids -> Sems]
    <3>1. \A i \in Ids : sems[i] \in Sems
      BY <2>1 DEF Sound
    <3> QED
      BY <3>1 DEF Init
  <2> QED
    BY <2>1, <2>2 DEF Heap
<1>6. \A q \in Reqs : Placed(q) /\ Current(q)
  BY <1>3 DEF Placed, Current, NoSems, Levels
<1>7. Apart
  <2>1. AgentSems = {} /\ ChannelSems = {}
    BY <1>3 DEF AgentSems, ChannelSems, InAgents, InChannels, NoSems
  <2> QED
    BY <2>1 DEF Apart
<1> QED
  BY <1>2, <1>4, <1>5, <1>6, <1>7 DEF Inv

\* every step
LEMMA NextInv == Inv /\ [Next]_vars => Inv'
<1> SUFFICES ASSUME Inv, [Next]_vars PROVE Inv'
  OBVIOUS
<1>1. ASSUME NEW r \in Reqs, NEW c \in Channels, NEW a \in Agents \cup {Nil}, NEW b \in Budgets,
             Acquire(r, c, a, b)
      PROVE  Inv'
  BY <1>1, AcquireInv
<1>2. ASSUME NEW r \in Reqs, Proceed(r) \/ Fail(r) \/ Finish(r) \/ Timeout(r)
      PROVE  Inv'
  BY <1>2, ProceedInv, FailInv, FinishInv, TimeoutInv
<1>3. ASSUME NEW n \in Configurations, NEW keep \in SUBSET Channels, Reload(n, keep)
      PROVE  Inv'
  BY <1>3, ReloadInv
<1>4. ASSUME NEW old \in SUBSET Agents, PruneAgents(old)
      PROVE  Inv'
  BY <1>4, PruneAgentsInv
<1>5. CASE UNCHANGED vars
  <2>1. UNCHANGED <<objects, at, promise, slots, own, budget, reloads>> /\ timer' = timer
    BY <1>5 DEF vars, requests
  <2>2. timer' \in [Reqs -> 0..Infinity]
    BY <2>1 DEF Inv, Typed
  <2> QED
    BY <2>1, <2>2, StillInv
<1> QED
  BY <1>1, <1>2, <1>3, <1>4, <1>5, TickInv, DrainInv DEF Next, Rest

(* The heap of semaphores and the calls agree in every state: each queue   *)
(* is exactly the calls that wait for it, in order and without gaps while  *)
(* a slot is free, and no object ever serves two levels.                   *)
THEOREM LimiterSafe == Spec => []Inv
<1>1. Init => Inv
  BY InitInv
<1>2. Inv /\ [Next]_vars => Inv'
  BY NextInv
<1> QED
  BY <1>1, <1>2, PTL DEF Spec

(* What a semaphore counts as active are the calls that still have to      *)
(* release it, on every path through acquire(), configure() and drain().   *)
THEOREM LimiterKeepsCount == Spec => []NoSlotLeaks
<1>1. Inv => NoSlotLeaks
  <2> SUFFICES ASSUME Inv PROVE NoSlotLeaks
    OBVIOUS
  <2>1. ASSUME NEW i \in Ids
        PROVE  sems[i].active = Cardinality({r \in Reqs : i \in slots[r] /\ at[r] # "gone"})
    <3>1. {r \in Reqs : i \in slots[r] /\ at[r] # "gone"} = Occupants(i)
      BY DEF Inv, Placed, Occupants
    <3> QED
      BY <3>1 DEF Inv, Heap
  <2>2. ASSUME NEW i \in Ids
        PROVE  /\ sems[i].limit \in Nat \ {0} /\ sems[i].active \in Nat
               /\ Waiters(sems[i]) \subseteq Reqs
    BY DEF Inv, Heap, Sems, Limits, Waiting
  <2>3. TypeOK
    BY <2>2 DEF Inv, Typed, TypeOK
  <2> QED
    BY <2>1, <2>3 DEF NoSlotLeaks
<1> QED
  BY <1>1, LimiterSafe, PTL

(* F6: a call that queues for its agent's quota occupies no shared slot.   *)
THEOREM LimiterBacklogIsHarmless == Spec => []BacklogHoldsNothingShared
<1>1. Inv => BacklogHoldsNothingShared
  BY DEF Inv, Placed, BacklogHoldsNothingShared
<1> QED
  BY <1>1, LimiterSafe, PTL

(* pruneAgents() never makes a second semaphore for an agent that has      *)
(* calls running or waiting.                                               *)
THEOREM LimiterOneQuota == Spec => []OneQuotaPerAgent
<1>1. Inv => OneQuotaPerAgent
  <2> SUFFICES ASSUME Inv, NEW r \in Reqs,
                      \/ own[r].agent \in slots[r] \ {Nil}
                      \/ own[r].agent # Nil /\ promise[r] = "pending" /\ at[r] = "agent"
               PROVE  own[r].agent \in InAgents
    BY DEF OneQuotaPerAgent
  <2>1. own[r].agent # Nil
    OBVIOUS
  <2> QED
    BY <2>1 DEF Inv, Current
<1> QED
  BY <1>1, LimiterSafe, PTL

\* only the call that ends gives a slot away
LEMMA SlotsAreKept ==
  ASSUME Inv, Next, NEW q \in Reqs, at'[q] # "gone"
  PROVE  slots[q] \subseteq slots'[q]
<1>0. Typed /\ slots[q] \subseteq Ids /\ q # Nil
  BY ReqsAssumption DEF Inv, Typed
<1>1. ASSUME NEW r \in Reqs, NEW h, NEW mine, NEW b, MoveOn(r, h, mine, b)
      PROVE  slots[q] \subseteq slots'[q]
  <2>1. slots' = slots \/ \E id : slots' = [slots EXCEPT ![r] = slots[r] \cup {id}]
    BY <1>1 DEF MoveOn
  <2> QED
    BY <1>0, <2>1 DEF Typed
<1>2. ASSUME NEW h, NEW admitted, NEW rejected, NEW r, NEW mine,
             Settle(h, admitted, rejected, r, mine), r # q
      PROVE  slots[q] \subseteq slots'[q]
  BY <1>2 DEF Settle
<1>3. ASSUME NEW r \in Reqs, NEW S, ReleaseAll(r, S), Leave(r)
      PROVE  slots[q] \subseteq slots'[q]
  <2>1. r # q
    BY <1>0, <1>3 DEF Leave, Typed
  <2> QED
    BY <1>2, <1>3, <2>1 DEF ReleaseAll
<1>4. ASSUME NEW r \in Reqs, NEW c \in Channels, NEW a \in Agents \cup {Nil}, NEW b \in Budgets,
             Acquire(r, c, a, b)
      PROVE  slots[q] \subseteq slots'[q]
  BY <1>1, <1>4 DEF Acquire
<1>5. ASSUME NEW r \in Reqs, Proceed(r)
      PROVE  slots[q] \subseteq slots'[q]
  BY <1>1, <1>5 DEF Proceed
<1>6. ASSUME NEW r \in Reqs, Fail(r) \/ Finish(r)
      PROVE  slots[q] \subseteq slots'[q]
  BY <1>3, <1>6 DEF Fail, Finish
<1>7. ASSUME NEW r \in Reqs, Timeout(r)
      PROVE  slots[q] \subseteq slots'[q]
  BY <1>7 DEF Timeout
<1>8. ASSUME NEW n \in Configurations, NEW keep \in SUBSET Channels, Reload(n, keep)
      PROVE  slots[q] \subseteq slots'[q]
  BY <1>0, <1>2, <1>8 DEF Reload
<1>9. ASSUME NEW old \in SUBSET Agents, PruneAgents(old)
      PROVE  slots[q] \subseteq slots'[q]
  BY <1>9 DEF PruneAgents, requests
<1>10. CASE Tick \/ Rest
  BY <1>10 DEF Tick, Rest, vars, requests
<1>11. CASE Drain
  BY <1>0, <1>2, <1>11 DEF Drain
<1> QED
  BY <1>4, <1>5, <1>6, <1>7, <1>8, <1>9, <1>10, <1>11 DEF Next

(* F7: while the global limit stays on, configure() keeps the object that  *)
(* counts what is running, and no step takes a running call out of it.     *)
THEOREM LimiterReloadKeepsCount == Spec => ReloadKeepsCount
<1>1. Inv /\ [Next]_vars
        => [(conf.global > 0 /\ conf'.global > 0) =>
              \A r \in Reqs : global \in slots[r] /\ at'[r] # "gone" => global' \in slots'[r]]_vars
  <2> SUFFICES ASSUME Inv, Next, conf.global > 0, conf'.global > 0,
                      NEW r \in Reqs, global \in slots[r], at'[r] # "gone"
               PROVE  global' \in slots'[r]
    OBVIOUS
  <2>1. conf.global \in Nat /\ global # Nil
    BY LimitsAssumption DEF Inv, Typed, Configurations
  <2>2. ASSUME NEW n \in Configurations, NEW keep \in SUBSET Channels, Reload(n, keep)
        PROVE  global' = global
    <3>1. conf' = n /\ n.global # 0 /\ ~ GlobalCreated(n)
      BY <2>1, <2>2, LimitsAssumption DEF Reload, GlobalCreated, Configurations
    <3> QED
      BY <2>2, <3>1 DEF Reload
  <2>3. ASSUME NEW q \in Reqs, NEW c \in Channels, NEW a \in Agents \cup {Nil}, NEW b \in Budgets,
               Acquire(q, c, a, b)
        PROVE  global' = global
    BY <2>3 DEF Acquire
  <2>4. ASSUME NEW q \in Reqs, Proceed(q) \/ Fail(q) \/ Finish(q) \/ Timeout(q)
        PROVE  global' = global
    BY <2>4 DEF Proceed, Fail, Finish, Timeout
  <2>5. ASSUME NEW old \in SUBSET Agents, PruneAgents(old)
        PROVE  global' = global
    BY <2>5 DEF PruneAgents
  <2>6. Tick \/ Drain \/ Rest => global' = global
    <3>1. Tick => global' = global
      BY DEF Tick, objects
    <3>2. Drain => global' = global
      BY DEF Drain
    <3>3. Rest => global' = global
      BY DEF Rest, vars, objects
    <3> QED
      BY <3>1, <3>2, <3>3
  <2>7. global' = global
    BY <2>2, <2>3, <2>4, <2>5, <2>6 DEF Next
  <2> QED
    BY <2>7, SlotsAreKept
<1> QED
  BY <1>1, LimiterSafe, PTL DEF Spec, ReloadKeepsCount

=============================================================================
