-------------------------- MODULE SemaphoreProofs ---------------------------
(***************************************************************************)
(* Proofs about Semaphore.tla, for any finite set of calls and any limits. *)
(***************************************************************************)
EXTENDS Semaphore, FiniteSetTheorems, FunctionTheorems, SequenceTheorems, TLAPS

-----------------------------------------------------------------------------
(* What the methods do to a queue.                                         *)

\* t is what is left of q when some have gone: it keeps their order
IsLeftOf(t, q) ==
  \E f \in [1..Len(t) -> 1..Len(q)] :
     /\ \A i, j \in 1..Len(t) : i < j => f[i] < f[j]
     /\ \A i \in 1..Len(t) : t[i] = q[f[i]]

\* if nobody has gone the whole queue is left
LEMMA WholeIsLeft ==
  ASSUME NEW q \in Seq(Reqs)
  PROVE  IsLeftOf(q, q)
<1> DEFINE f == [i \in 1..Len(q) |-> i]
<1>1. f \in [1..Len(q) -> 1..Len(q)]
  OBVIOUS
<1>2. \A i \in 1..Len(q) : f[i] = i
  OBVIOUS
<1> HIDE DEF f
<1> QED
  BY <1>1, <1>2 DEF IsLeftOf

\* an immediate acquire() keeps the queue as it is
LEMMA EnterFacts ==
  ASSUME NEW s \in Sems
  PROVE  /\ Enter(s) \in Sems
         /\ Enter(s).active = s.active + 1
         /\ Enter(s).limit = s.limit
         /\ Enter(s).queue = s.queue
BY DEF Enter, Sems

\* joining the queue adds one waiter, at its end
LEMMA EnqueueFacts ==
  ASSUME NEW s \in Sems, NEW r \in Reqs, Distinct(s), r \notin Waiters(s)
  PROVE  /\ Enqueue(s, r) \in Sems
         /\ Enqueue(s, r).active = s.active
         /\ Enqueue(s, r).limit = s.limit
         /\ Distinct(Enqueue(s, r))
         /\ Waiters(Enqueue(s, r)) = Waiters(s) \cup {r}
         /\ Len(Enqueue(s, r).queue) = Len(s.queue) + 1
         /\ Enqueue(s, r).queue[Len(s.queue) + 1] = r
         /\ \A i \in 1..Len(s.queue) : Enqueue(s, r).queue[i] = s.queue[i]
<1> DEFINE q == s.queue
           t == Append(q, r)
<1>1. q \in Seq(Reqs) /\ Len(q) \in Nat
  BY DEF Sems
<1>2. /\ t \in Seq(Reqs)
      /\ Len(t) = Len(q) + 1
      /\ \A i \in 1..Len(q) : t[i] = q[i]
      /\ t[Len(q) + 1] = r
  BY <1>1
<1>3. /\ Enqueue(s, r).queue = t
      /\ Enqueue(s, r).active = s.active
      /\ Enqueue(s, r).limit = s.limit
      /\ Enqueue(s, r) \in Sems
  BY <1>2 DEF Enqueue, Sems
<1>4. \A i \in 1..Len(q) : q[i] # r
  BY DEF Waiters
<1> HIDE DEF t
<1>5. Distinct(Enqueue(s, r))
  BY <1>1, <1>2, <1>3, <1>4, SMTT(30) DEF Distinct
<1>6. Waiters(Enqueue(s, r)) = Waiters(s) \cup {r}
  <2>1. {t[i] : i \in 1..Len(t)} = {q[i] : i \in 1..Len(q)} \cup {r}
    BY <1>1, <1>2, SMTT(30)
  <2> QED
    BY <2>1, <1>3 DEF Waiters
<1> QED
  BY <1>2, <1>3, <1>5, <1>6

\* a timed-out waiter leaves the queue, and only it
LEMMA AbandonFacts ==
  ASSUME NEW s \in Sems, NEW r \in Waiters(s), Distinct(s)
  PROVE  /\ Abandon(s, r) \in Sems
         /\ Abandon(s, r).active = s.active
         /\ Abandon(s, r).limit = s.limit
         /\ Distinct(Abandon(s, r))
         /\ Waiters(Abandon(s, r)) = Waiters(s) \ {r}
         /\ IsLeftOf(Abandon(s, r).queue, s.queue)
<1> DEFINE q == s.queue
           k == CHOOSE j \in 1..Len(q) : q[j] = r
           t == SubSeq(q, 1, k - 1) \o SubSeq(q, k + 1, Len(q))
<1>1. q \in Seq(Reqs) /\ Len(q) \in Nat /\ \A i \in 1..Len(q) : q[i] \in Reqs
  BY DEF Sems
<1>2. k \in 1..Len(q) /\ q[k] = r
  BY DEF Waiters
<1> HIDE DEF k
<1>3. /\ SubSeq(q, 1, k - 1) \in Seq(Reqs)
      /\ Len(SubSeq(q, 1, k - 1)) = k - 1
      /\ \A i \in 1..(k - 1) : SubSeq(q, 1, k - 1)[i] = q[i]
  BY <1>1, <1>2
<1>4. /\ SubSeq(q, k + 1, Len(q)) \in Seq(Reqs)
      /\ Len(SubSeq(q, k + 1, Len(q))) = Len(q) - k
      /\ \A i \in 1..(Len(q) - k) : SubSeq(q, k + 1, Len(q))[i] = q[k + i]
  BY <1>1, <1>2
<1>5. /\ t \in Seq(Reqs)
      /\ Len(t) = Len(q) - 1
      /\ \A i \in 1..(Len(q) - 1) : t[i] = IF i < k THEN q[i] ELSE q[i + 1]
  <2> DEFINE a == SubSeq(q, 1, k - 1)
             b == SubSeq(q, k + 1, Len(q))
  <2>1. /\ a \in Seq(Reqs) /\ Len(a) = k - 1 /\ \A i \in 1..(k - 1) : a[i] = q[i]
        /\ b \in Seq(Reqs) /\ Len(b) = Len(q) - k
        /\ \A i \in 1..(Len(q) - k) : b[i] = q[k + i]
    BY <1>3, <1>4
  <2> HIDE DEF a, b
  <2>2. /\ a \o b \in Seq(Reqs)
        /\ Len(a \o b) = Len(a) + Len(b)
        /\ \A i \in 1..(Len(a) + Len(b)) :
              (a \o b)[i] = IF i <= Len(a) THEN a[i] ELSE b[i - Len(a)]
    BY <2>1, ConcatProperties
  <2>5. Len(a) + Len(b) = Len(q) - 1 /\ Len(q) \in Nat /\ k \in 1..Len(q)
    BY <1>1, <1>2, <2>1
  <2>3. ASSUME NEW i \in 1..(Len(q) - 1)
        PROVE  (a \o b)[i] = IF i < k THEN q[i] ELSE q[i + 1]
    <3>1. (a \o b)[i] = IF i <= k - 1 THEN a[i] ELSE b[i - (k - 1)]
      BY <2>1, <2>2, <2>5
    <3>2. CASE i < k
      <4>1. i \in 1..(k - 1) /\ i <= k - 1
        BY <2>5, <3>2
      <4> QED
        BY <2>1, <3>1, <3>2, <4>1
    <3>3. CASE ~(i < k)
      <4>1. i - (k - 1) \in 1..(Len(q) - k) /\ ~(i <= k - 1) /\ k + (i - (k - 1)) = i + 1
        BY <2>5, <3>3
      <4> QED
        BY <2>1, <3>1, <3>3, <4>1
    <3> QED
      BY <3>2, <3>3
  <2>4. t = a \o b
    BY DEF a, b
  <2> HIDE DEF t
  <2> QED
    BY <2>2, <2>3, <2>4, <2>5
<1>6. /\ Abandon(s, r).queue = t
      /\ Abandon(s, r).active = s.active
      /\ Abandon(s, r).limit = s.limit
      /\ Abandon(s, r) \in Sems
  BY <1>5 DEF Abandon, Sems, k
<1> HIDE DEF t
<1>7. \A i, j \in 1..Len(q) : q[i] = q[j] => i = j
  BY DEF Distinct
<1>8. Distinct(Abandon(s, r))
  BY <1>1, <1>2, <1>5, <1>6, <1>7, SMTT(30) DEF Distinct
<1>9. Waiters(Abandon(s, r)) = Waiters(s) \ {r}
  <2>1. ASSUME NEW i \in 1..Len(t)
        PROVE  t[i] \in Waiters(s) /\ t[i] # r
    <3>1. PICK j \in 1..Len(q) : j # k /\ t[i] = q[j]
      BY <1>1, <1>2, <1>5
    <3> QED
      BY <1>2, <1>7, <3>1 DEF Waiters
  <2>2. ASSUME NEW w \in Waiters(s), w # r
        PROVE  \E i \in 1..Len(t) : t[i] = w
    <3>1. PICK j \in 1..Len(q) : q[j] = w
      BY DEF Waiters
    <3>2. CASE j < k
      BY <1>1, <1>2, <1>5, <3>1, <3>2
    <3>3. CASE j > k
      <4>1. j - 1 \in 1..Len(t) /\ t[j - 1] = w
        BY <1>1, <1>2, <1>5, <3>1, <3>3
      <4> QED
        BY <4>1
    <3> QED
      BY <1>1, <1>2, <2>2, <3>1, <3>2, <3>3
  <2>3. Waiters(Abandon(s, r)) = {t[i] : i \in 1..Len(t)}
    BY <1>6 DEF Waiters
  <2> QED
    BY <2>1, <2>2, <2>3
<1>10. IsLeftOf(t, q)
  <2> DEFINE f == [i \in 1..Len(t) |-> IF i < k THEN i ELSE i + 1]
  <2>1. f \in [1..Len(t) -> 1..Len(q)]
    BY <1>1, <1>2, <1>5
  <2>2. \A i, j \in 1..Len(t) : i < j => f[i] < f[j]
    BY <1>1, <1>2, <1>5
  <2>3. \A i \in 1..Len(t) : t[i] = q[f[i]]
    BY <1>1, <1>2, <1>5
  <2> QED
    BY <2>1, <2>2, <2>3 DEF IsLeftOf
<1> QED
  BY <1>6, <1>8, <1>9, <1>10

\* the handoff either passes the slot to the head of the queue or frees it
LEMMA HandoffFacts ==
  ASSUME NEW s \in Sems, s.active > 0, Distinct(s)
  PROVE  /\ Handoff(s) \in Sems
         /\ Handoff(s).limit = s.limit
         /\ Distinct(Handoff(s))
         /\ HandedTo(s) \subseteq Waiters(s)
         /\ Waiters(Handoff(s)) = Waiters(s) \ HandedTo(s)
         /\ IsLeftOf(Handoff(s).queue, s.queue)
         /\ IF HandsOver(s)
            THEN /\ s.queue[1] \in Waiters(s) /\ HandedTo(s) = {s.queue[1]}
                 /\ Handoff(s).active = s.active
            ELSE /\ HandedTo(s) = {}
                 /\ Handoff(s).active = s.active - 1
                 /\ Handoff(s).queue = s.queue
<1> DEFINE q == s.queue
           t == Tail(q)
<1>1. q \in Seq(Reqs) /\ Len(q) \in Nat
  BY DEF Sems
<1>2. CASE HandsOver(s)
  <2>1. q # <<>> /\ Len(q) > 0
    BY <1>1, <1>2 DEF HandsOver
  <2>2. /\ t \in Seq(Reqs)
        /\ Len(t) = Len(q) - 1
        /\ \A i \in 1..(Len(q) - 1) : t[i] = q[i + 1]
        /\ Head(q) = q[1]
    BY <1>1, <2>1
  <2>3. /\ Handoff(s).queue = t
        /\ Handoff(s).active = s.active
        /\ Handoff(s).limit = s.limit
        /\ Handoff(s) \in Sems
    BY <1>2, <2>2 DEF Handoff, Sems
  <2> HIDE DEF t
  <2>4. \A i, j \in 1..Len(q) : q[i] = q[j] => i = j
    BY DEF Distinct
  <2>5. Distinct(Handoff(s))
    BY <1>1, <2>1, <2>2, <2>3, <2>4 DEF Distinct
  <2>6. HandedTo(s) = {q[1]} /\ q[1] \in Waiters(s)
    BY <1>1, <1>2, <2>1, <2>2 DEF HandedTo, Waiters
  <2>7. {t[i] : i \in 1..Len(t)} = {q[i] : i \in 1..Len(q)} \ {q[1]}
    <3>1. \A i \in 1..Len(t) : /\ t[i] \in {q[j] : j \in 1..Len(q)}
                               /\ t[i] # q[1]
      BY <1>1, <2>1, <2>2, <2>4
    <3>2. ASSUME NEW j \in 1..Len(q), q[j] # q[1]
          PROVE  j - 1 \in 1..Len(t) /\ t[j - 1] = q[j]
      BY <1>1, <2>1, <2>2, <3>2
    <3> QED
      BY <3>1, <3>2, SMTT(30)
  <2>8. Waiters(Handoff(s)) = Waiters(s) \ HandedTo(s)
    BY <2>3, <2>6, <2>7 DEF Waiters
  <2>9. IsLeftOf(t, q)
    <3> DEFINE f == [i \in 1..Len(t) |-> i + 1]
    <3>1. f \in [1..Len(t) -> 1..Len(q)]
      BY <1>1, <2>1, <2>2
    <3>2. \A i, j \in 1..Len(t) : i < j => f[i] < f[j]
      BY <1>1, <2>1, <2>2
    <3>3. \A i \in 1..Len(t) : t[i] = q[f[i]]
      BY <1>1, <2>1, <2>2
    <3> QED
      BY <3>1, <3>2, <3>3 DEF IsLeftOf
  <2> QED
    BY <1>2, <2>3, <2>5, <2>6, <2>8, <2>9
<1>3. CASE ~HandsOver(s)
  <2>1. /\ Handoff(s).queue = q
        /\ Handoff(s).active = s.active - 1
        /\ Handoff(s).limit = s.limit
        /\ Handoff(s) \in Sems
    BY <1>3 DEF Handoff, Sems
  <2>2. HandedTo(s) = {}
    BY <1>3 DEF HandedTo
  <2>3. IsLeftOf(q, q)
    BY <1>1, WholeIsLeft
  <2> QED
    BY <1>3, <2>1, <2>2, <2>3 DEF Distinct, Waiters
<1> QED
  BY <1>2, <1>3

\* a new limit admits exactly PumpCount waiters, from the front
LEMMA ResizeFacts ==
  ASSUME NEW s \in Sems, NEW n \in Limits, Distinct(s)
  PROVE  /\ PumpCount(s, n) \in 0..Len(s.queue)
         /\ Resize(s, n) \in Sems
         /\ Resize(s, n).limit = n
         /\ Resize(s, n).active = s.active + PumpCount(s, n)
         /\ Distinct(Resize(s, n))
         /\ PumpedTo(s, n) \subseteq Waiters(s)
         /\ Waiters(Resize(s, n)) = Waiters(s) \ PumpedTo(s, n)
         /\ Len(Resize(s, n).queue) = Len(s.queue) - PumpCount(s, n)
         /\ IsFiniteSet(PumpedTo(s, n))
         /\ Cardinality(PumpedTo(s, n)) = PumpCount(s, n)
         /\ IsLeftOf(Resize(s, n).queue, s.queue)
<1> DEFINE q == s.queue
           k == PumpCount(s, n)
           t == SubSeq(q, k + 1, Len(q))
<1>0. /\ q \in Seq(Reqs) /\ Len(q) \in Nat /\ \A i \in 1..Len(q) : q[i] \in Reqs
      /\ s.active \in Nat /\ s.limit \in Nat /\ n \in Nat
  BY MaxLimitAssumption DEF Sems, Limits
<1>1. k \in 0..Len(q)
  BY <1>0 DEF PumpCount, Room
<1> HIDE DEF k
<1>2. /\ t \in Seq(Reqs)
      /\ Len(t) = Len(q) - k
      /\ \A i \in 1..(Len(q) - k) : t[i] = q[k + i]
  BY <1>0, <1>1
<1>3. /\ Resize(s, n).queue = t
      /\ Resize(s, n).active = s.active + k
      /\ Resize(s, n).limit = n
      /\ Resize(s, n) \in Sems
  <2> DEFINE a == s.active + k
  <2>1. Resize(s, n) = [limit |-> n, active |-> a, queue |-> t]
    BY DEF Resize, k
  <2>2. a \in Nat
    BY <1>0, <1>1
  <2> HIDE DEF t, a
  <2>3. [limit |-> n, active |-> a, queue |-> t] \in Sems
    BY <1>2, <2>2 DEF Sems
  <2>4. /\ Resize(s, n).queue = t
        /\ Resize(s, n).active = a
        /\ Resize(s, n).limit = n
        /\ Resize(s, n) \in Sems
    BY <2>1, <2>3
  <2> QED
    BY <2>4 DEF a
<1> HIDE DEF t
<1>4. \A i, j \in 1..Len(q) : q[i] = q[j] => i = j
  BY DEF Distinct
<1>5. Distinct(Resize(s, n))
  <2>1. ASSUME NEW i \in 1..Len(t), NEW j \in 1..Len(t), t[i] = t[j]
        PROVE  i = j
    <3>1. /\ k + i \in 1..Len(q) /\ t[i] = q[k + i]
          /\ k + j \in 1..Len(q) /\ t[j] = q[k + j]
      BY <1>0, <1>1, <1>2
    <3>2. k + i = k + j
      BY <1>4, <2>1, <3>1
    <3> QED
      BY <1>0, <1>1, <3>2
  <2> QED
    BY <1>3, <2>1 DEF Distinct
<1>6. PumpedTo(s, n) = {q[i] : i \in 1..k}
  BY DEF PumpedTo, k
<1>7. PumpedTo(s, n) \subseteq Waiters(s)
  BY <1>0, <1>1, <1>6 DEF Waiters
<1>8. {t[i] : i \in 1..Len(t)} = {q[i] : i \in 1..Len(q)} \ {q[i] : i \in 1..k}
  <2>1. ASSUME NEW i \in 1..Len(t)
        PROVE  /\ t[i] \in {q[j] : j \in 1..Len(q)}
               /\ t[i] \notin {q[j] : j \in 1..k}
    <3>1. k + i \in 1..Len(q) /\ t[i] = q[k + i]
      BY <1>0, <1>1, <1>2
    <3>2. \A j \in 1..k : j \in 1..Len(q) /\ j # k + i
      BY <1>0, <1>1, <1>2
    <3> QED
      BY <1>4, <3>1, <3>2
  <2>2. ASSUME NEW j \in 1..Len(q), q[j] \notin {q[i] : i \in 1..k}
        PROVE  j - k \in 1..Len(t) /\ t[j - k] = q[j]
    <3>1. j \notin 1..k
      BY <2>2
    <3> QED
      BY <1>0, <1>1, <1>2, <3>1
  <2> QED
    BY <2>1, <2>2
<1>9. Waiters(Resize(s, n)) = Waiters(s) \ PumpedTo(s, n)
  BY <1>3, <1>6, <1>8 DEF Waiters
<1>10. IsFiniteSet(PumpedTo(s, n)) /\ Cardinality(PumpedTo(s, n)) = k
  <2> DEFINE f == [i \in 1..k |-> q[i]]
  <2>1. f \in Bijection(1..k, PumpedTo(s, n))
    <3>1. f \in [1..k -> PumpedTo(s, n)]
      BY <1>6
    <3>2. IsInjective(f)
      BY <1>0, <1>1, <1>4 DEF IsInjective
    <3>3. \A x \in PumpedTo(s, n) : \E i \in 1..k : f[i] = x
      BY <1>6
    <3> QED
      BY <3>1, <3>2, <3>3 DEF Bijection, Injection, Surjection
  <2>2. ExistsBijection(1..k, PumpedTo(s, n))
    BY <2>1 DEF ExistsBijection
  <2>3. IsFiniteSet(1..k) /\ Cardinality(1..k) = k
    BY <1>0, <1>1, FS_Interval
  <2> QED
    BY <2>2, <2>3, FS_Bijection
<1>11. IsLeftOf(t, q)
  <2> DEFINE f == [i \in 1..Len(t) |-> k + i]
  <2>1. f \in [1..Len(t) -> 1..Len(q)]
    BY <1>0, <1>1, <1>2
  <2>2. \A i, j \in 1..Len(t) : i < j => f[i] < f[j]
    BY <1>0, <1>1, <1>2
  <2>3. \A i \in 1..Len(t) : t[i] = q[f[i]]
    BY <1>0, <1>1, <1>2
  <2> QED
    BY <2>1, <2>2, <2>3 DEF IsLeftOf
<1> QED
  BY <1>1, <1>2, <1>3, <1>5, <1>7, <1>9, <1>10, <1>11 DEF k

-----------------------------------------------------------------------------
(* The inductive invariant.                                                *)

\* calls can be counted
LEMMA FiniteCalls ==
  ASSUME NEW S \in SUBSET Reqs
  PROVE  IsFiniteSet(S) /\ Cardinality(S) \in Nat
BY ReqsAssumption, FS_Subset, FS_CardinalityType

\* admitting k waiters keeps the counters natural numbers
LEMMA CountAdmitted ==
  ASSUME NEW t \in Tally, NEW k \in Nat
  PROVE  [t EXCEPT !.acquired = @ + k, !.waited = @ + k] \in Tally
<1>1. [t EXCEPT !.acquired = @ + k] \in Tally
  BY DEF Tally
<1>2. \A u \in Tally : [u EXCEPT !.waited = @ + k] \in Tally
  BY DEF Tally
<1>3. [t EXCEPT !.acquired = @ + k, !.waited = @ + k]
        = [[t EXCEPT !.acquired = @ + k] EXCEPT !.waited = @ + k]
  OBVIOUS
<1> QED
  BY <1>1, <1>2, <1>3

\* a new semaphore has no holders and no waiters
LEMMA InitInv == Init => Inv
<1> SUFFICES ASSUME Init PROVE Inv
  OBVIOUS
<1>1. PICK n \in Limits : sem = NewSem(n)
  BY DEF Init
<1>2. sem = [limit |-> n, active |-> 0, queue |-> <<>>]
  BY <1>1, MaxLimitAssumption DEF NewSem, AtLeastOne, Limits
<1>3. sem \in Sems /\ sem.queue = <<>> /\ sem.active = 0 /\ Len(sem.queue) = 0
  BY <1>2 DEF Sems
<1>4. Waiters(sem) = {} /\ Distinct(sem)
  BY <1>3 DEF Waiters, Distinct
<1>5. Holders = {} /\ Queued = {}
  BY DEF Init, Holders, Queued, In
<1> QED
  BY <1>3, <1>4, <1>5, FS_EmptySet
  DEF Inv, Init, TypeOK, Statuses, Tally, QueueIsTheWaiters, ActiveIsTheHolders,
      NoStrandedWaiter

\* an immediate acquire() adds one slot and one holder
LEMMA AcquireNowInv ==
  ASSUME Inv, NEW r \in Reqs, AcquireNow(r)
  PROVE  Inv'
<1> USE DEF Inv, TypeOK
<1>1. /\ sem' \in Sems /\ sem'.active = sem.active + 1
      /\ sem'.limit = sem.limit /\ sem'.queue = sem.queue
  BY EnterFacts DEF AcquireNow
<1>2. TypeOK'
  BY <1>1 DEF AcquireNow, Statuses, Tally
<1>3. Holders' = Holders \cup {r} /\ r \notin Holders /\ Queued' = Queued
  BY DEF AcquireNow, Holders, Queued, In, Statuses
<1>4. QueueIsTheWaiters'
  BY <1>1, <1>3 DEF QueueIsTheWaiters, Waiters, Distinct, AcquireNow
<1>5. ActiveIsTheHolders'
  <2>1. IsFiniteSet(Holders)
    BY FiniteCalls DEF Holders, In
  <2>2. Cardinality(Holders \cup {r}) = Cardinality(Holders) + 1
    BY <1>3, <2>1, FS_AddElement
  <2> QED
    BY <1>1, <1>3, <2>2 DEF ActiveIsTheHolders
<1>6. NoStrandedWaiter'
  BY <1>1 DEF NoStrandedWaiter, AcquireNow, EntersAtOnce
<1> QED
  BY <1>2, <1>4, <1>5, <1>6

\* a call that queues finds the slots full or others ahead of it
LEMMA AcquireQueuedInv ==
  ASSUME Inv, NEW r \in Reqs, AcquireQueued(r)
  PROVE  Inv'
<1> USE DEF Inv, TypeOK
<1>0. r \notin Waiters(sem)
  BY DEF QueueIsTheWaiters, Queued, In, AcquireQueued
<1>1. /\ sem' \in Sems /\ sem'.active = sem.active /\ sem'.limit = sem.limit
      /\ Distinct(sem') /\ Waiters(sem') = Waiters(sem) \cup {r}
  BY <1>0, EnqueueFacts DEF AcquireQueued, QueueIsTheWaiters
<1>2. TypeOK'
  BY <1>1 DEF AcquireQueued, Statuses, Tally
<1>3. Holders' = Holders /\ Queued' = Queued \cup {r}
  BY DEF AcquireQueued, Holders, Queued, In, Statuses
<1>4. QueueIsTheWaiters'
  <2>1. timers' \subseteq timers \cup {r}
    BY DEF AcquireQueued
  <2>2. Distinct(sem)' /\ Waiters(sem)' = Waiters(sem')
    BY <1>1 DEF Distinct, Waiters
  <2> QED
    BY <1>1, <1>3, <2>1, <2>2 DEF QueueIsTheWaiters
<1>5. ActiveIsTheHolders'
  BY <1>1, <1>3 DEF ActiveIsTheHolders
<1>6. NoStrandedWaiter'
  BY <1>1 DEF NoStrandedWaiter, AcquireQueued, EntersAtOnce, Sems, Limits
<1> QED
  BY <1>2, <1>4, <1>5, <1>6

\* a timeout frees no slot, and the waiters left still see them all taken
LEMMA TimeoutInv ==
  ASSUME Inv, NEW r \in Reqs, Timeout(r)
  PROVE  Inv'
<1> USE DEF Inv, TypeOK
<1>0. r \in Waiters(sem) /\ r \in Queued
  BY DEF QueueIsTheWaiters, Timeout
<1>1. /\ sem' \in Sems /\ sem'.active = sem.active /\ sem'.limit = sem.limit
      /\ Distinct(sem') /\ Waiters(sem') = Waiters(sem) \ {r}
  BY <1>0, AbandonFacts DEF Timeout, QueueIsTheWaiters
<1>2. TypeOK'
  BY <1>1 DEF Timeout, Statuses, Tally
<1>3. Holders' = Holders /\ Queued' = Queued \ {r}
  BY <1>0 DEF Timeout, Holders, Queued, In, Statuses
<1>4. QueueIsTheWaiters'
  BY <1>1, <1>3 DEF QueueIsTheWaiters, Timeout
<1>5. ActiveIsTheHolders'
  BY <1>1, <1>3 DEF ActiveIsTheHolders
<1>6. NoStrandedWaiter'
  <2>1. sem.queue # <<>>
    BY <1>0 DEF Waiters, Sems
  <2> QED
    BY <1>1, <2>1 DEF NoStrandedWaiter
<1> QED
  BY <1>2, <1>4, <1>5, <1>6

\* what a first release does to the object and to the callers
LEMMA ReleaseMoves ==
  ASSUME Inv, NEW r \in Reqs, Release(r), status[r] = "holding"
  PROVE  LET G == HandedTo(sem)
         IN  /\ r \in Holders /\ IsFiniteSet(Holders) /\ sem.active > 0
             /\ sem' = Handoff(sem) /\ Handoff(sem) \in Sems
             /\ sem'.limit = sem.limit
             /\ Distinct(Handoff(sem)) /\ G \subseteq Waiters(sem)
             /\ Waiters(Handoff(sem)) = Waiters(sem) \ G
             /\ status' = [q \in Reqs |-> IF q \in G THEN "holding"
                                          ELSE IF q = r THEN "released" ELSE status[q]]
             /\ timers' = timers \ G
             /\ stats' = [stats EXCEPT !.acquired = @ + Cardinality(G),
                                       !.waited   = @ + Cardinality(G)]
             /\ G \subseteq Queued /\ G \subseteq Reqs /\ r \notin G
             /\ Holders' = (Holders \ {r}) \cup G /\ Queued' = Queued \ G
<1> USE DEF Inv, TypeOK
<1> DEFINE G == HandedTo(sem)
<1>0. r \in Holders /\ IsFiniteSet(Holders) /\ sem.active > 0
  <2>1. r \in Holders
    BY DEF Holders, In
  <2>2. IsFiniteSet(Holders) /\ Cardinality(Holders) \in Nat
    BY FiniteCalls DEF Holders, In
  <2> QED
    BY <2>1, <2>2, FS_EmptySet DEF ActiveIsTheHolders
<1>1. /\ sem' = Handoff(sem) /\ Handoff(sem) \in Sems /\ Handoff(sem).limit = sem.limit
      /\ Distinct(Handoff(sem)) /\ G \subseteq Waiters(sem)
      /\ Waiters(Handoff(sem)) = Waiters(sem) \ G
  BY <1>0, HandoffFacts DEF Release, QueueIsTheWaiters
<1>2. /\ status' = [q \in Reqs |-> IF q \in G THEN "holding"
                                   ELSE IF q = r THEN "released" ELSE status[q]]
      /\ timers' = timers \ G
      /\ stats' = [stats EXCEPT !.acquired = @ + Cardinality(G),
                                !.waited   = @ + Cardinality(G)]
  BY DEF Release, Admit
<1>3. G \subseteq Queued /\ G \subseteq Reqs /\ r \notin G
  BY <1>1 DEF QueueIsTheWaiters, Queued, In
<1>4. Holders' = (Holders \ {r}) \cup G /\ Queued' = Queued \ G
  BY <1>0, <1>2, <1>3 DEF Holders, Queued, In, Statuses
<1> QED
  BY <1>0, <1>1, <1>2, <1>3, <1>4

\* a release moves one slot to a waiter or gives it up
LEMMA ReleaseInv ==
  ASSUME Inv, NEW r \in Reqs, Release(r), status[r] = "holding"
  PROVE  Inv'
<1> USE DEF Inv, TypeOK
<1> DEFINE G == HandedTo(sem)
<1>0. r \in Holders /\ IsFiniteSet(Holders) /\ sem.active > 0
  BY ReleaseMoves
<1>1. /\ sem' = Handoff(sem) /\ Handoff(sem) \in Sems /\ Handoff(sem).limit = sem.limit
      /\ Distinct(Handoff(sem)) /\ G \subseteq Waiters(sem)
      /\ Waiters(Handoff(sem)) = Waiters(sem) \ G
  BY ReleaseMoves
<1>2. /\ status' = [q \in Reqs |-> IF q \in G THEN "holding"
                                   ELSE IF q = r THEN "released" ELSE status[q]]
      /\ timers' = timers \ G
      /\ stats' = [stats EXCEPT !.acquired = @ + Cardinality(G),
                                !.waited   = @ + Cardinality(G)]
  BY ReleaseMoves
<1>3. G \subseteq Queued /\ G \subseteq Reqs /\ r \notin G
  BY ReleaseMoves
<1>4. Holders' = (Holders \ {r}) \cup G /\ Queued' = Queued \ G
  BY ReleaseMoves
<1>5. TypeOK'
  <2>1. Cardinality(G) \in Nat
    BY <1>3, FiniteCalls
  <2> HIDE DEF G
  <2>2. stats' \in Tally
    BY <1>2, <2>1, CountAdmitted
  <2>3. status' \in [Reqs -> Statuses] /\ timers' \in SUBSET Reqs
    BY <1>2 DEF Statuses
  <2>4. queuedAt' = queuedAt
    BY DEF Release, Admit
  <2> QED
    BY <1>1, <2>2, <2>3, <2>4
<1>6. QueueIsTheWaiters'
  BY <1>1, <1>2, <1>4 DEF QueueIsTheWaiters
<1>7. CASE HandsOver(sem)
  <2>1. PICK w \in Waiters(sem) : G = {w}
    BY <1>0, <1>7, HandoffFacts DEF QueueIsTheWaiters
  <2>2. sem'.active = sem.active /\ sem.queue # <<>>
    BY <1>0, <1>1, <1>7, HandoffFacts DEF QueueIsTheWaiters, HandsOver
  <2>3. w \notin Holders \ {r}
    BY <1>3, <2>1 DEF Holders, Queued, In
  <2>4. IsFiniteSet(Holders \ {r}) /\ Cardinality(Holders \ {r}) = Cardinality(Holders) - 1
    BY <1>0, FS_RemoveElement
  <2>5. Cardinality((Holders \ {r}) \cup {w}) = Cardinality(Holders \ {r}) + 1
    BY <2>3, <2>4, FS_AddElement
  <2>6. Cardinality(Holders) \in Nat
    BY <1>0, FS_CardinalityType
  <2>7. ActiveIsTheHolders'
    BY <1>4, <2>1, <2>2, <2>4, <2>5, <2>6 DEF ActiveIsTheHolders
  <2>8. NoStrandedWaiter'
    BY <1>1, <2>2 DEF NoStrandedWaiter
  <2> QED
    BY <1>5, <1>6, <2>7, <2>8
<1>8. CASE ~HandsOver(sem)
  <2>1. G = {} /\ sem'.active = sem.active - 1 /\ sem'.queue = sem.queue
    BY <1>0, <1>1, <1>8, HandoffFacts DEF QueueIsTheWaiters
  <2>2. Cardinality(Holders \ {r}) = Cardinality(Holders) - 1
    BY <1>0, FS_RemoveElement
  <2>3. ActiveIsTheHolders'
    BY <1>4, <2>1, <2>2 DEF ActiveIsTheHolders
  <2>4. NoStrandedWaiter'
    BY <1>1, <1>8, <2>1 DEF NoStrandedWaiter, HandsOver, Sems, Limits
  <2> QED
    BY <1>5, <1>6, <2>3, <2>4
<1> QED
  BY <1>7, <1>8

\* what a change of the limit does to the object and to the callers
LEMMA SetLimitMoves ==
  ASSUME Inv, NEW n \in Limits, SetLimit(n)
  PROVE  LET G == PumpedTo(sem, n)
             k == PumpCount(sem, n)
         IN  /\ Len(sem.queue) \in Nat /\ k \in Nat
             /\ IsFiniteSet(G) /\ Cardinality(G) = k
             /\ sem'.limit = n /\ sem'.active = sem.active + k
             /\ G \subseteq Queued
             /\ Holders' = Holders \cup G /\ Queued' = Queued \ G /\ Holders \cap G = {}
<1> USE DEF Inv, TypeOK
<1> DEFINE G == PumpedTo(sem, n)
           k == PumpCount(sem, n)
<1>0. Distinct(sem) /\ Queued = Waiters(sem)
  BY DEF QueueIsTheWaiters
<1>1. /\ sem' = Resize(sem, n)
      /\ k \in 0..Len(sem.queue)
      /\ Resize(sem, n) \in Sems
      /\ sem'.limit = n /\ sem'.active = sem.active + k
      /\ Distinct(Resize(sem, n))
      /\ G \subseteq Waiters(sem)
      /\ Waiters(Resize(sem, n)) = Waiters(sem) \ G
      /\ Len(Resize(sem, n).queue) = Len(sem.queue) - k
      /\ IsFiniteSet(G) /\ Cardinality(G) = k
  BY <1>0, ResizeFacts DEF SetLimit
<1>2. status' = [q \in Reqs |-> IF q \in G THEN "holding" ELSE status[q]]
  BY DEF SetLimit
<1>3. Len(sem.queue) \in Nat /\ k \in Nat
  BY <1>1 DEF Sems
<1> HIDE DEF G
<1>4. Holders' = Holders \cup G /\ Queued' = Queued \ G /\ Holders \cap G = {}
  BY <1>0, <1>1, <1>2 DEF Holders, Queued, In, Statuses
<1> QED
  BY <1>0, <1>1, <1>3, <1>4 DEF G

\* a new limit admits waiters until the slots or the waiters run out
LEMMA SetLimitInv ==
  ASSUME Inv, NEW n \in Limits, SetLimit(n)
  PROVE  Inv'
<1> USE DEF Inv, TypeOK
<1> DEFINE G == PumpedTo(sem, n)
           k == PumpCount(sem, n)
<1>0. Distinct(sem) /\ Queued = Waiters(sem)
  BY DEF QueueIsTheWaiters
<1>1. /\ sem' = Resize(sem, n)
      /\ k \in 0..Len(sem.queue)
      /\ Resize(sem, n) \in Sems
      /\ sem'.limit = n /\ sem'.active = sem.active + k
      /\ Distinct(Resize(sem, n))
      /\ G \subseteq Waiters(sem)
      /\ Waiters(Resize(sem, n)) = Waiters(sem) \ G
      /\ Len(Resize(sem, n).queue) = Len(sem.queue) - k
      /\ IsFiniteSet(G) /\ Cardinality(G) = k
  BY <1>0, ResizeFacts DEF SetLimit
<1>2. /\ status' = [q \in Reqs |-> IF q \in G THEN "holding" ELSE status[q]]
      /\ timers' = timers \ G
      /\ stats' = [stats EXCEPT !.acquired = @ + k, !.waited = @ + k]
  BY DEF SetLimit
<1>3. Len(sem.queue) \in Nat /\ k \in Nat
  BY SetLimitMoves
<1>4. Holders' = Holders \cup G /\ Queued' = Queued \ G /\ Holders \cap G = {}
  BY SetLimitMoves
<1> HIDE DEF G
<1>5. TypeOK'
  <2> HIDE DEF k
  <2>1. stats' \in Tally
    BY <1>2, <1>3, CountAdmitted
  <2>2. status' \in [Reqs -> Statuses] /\ timers' \in SUBSET Reqs
    BY <1>2 DEF Statuses
  <2>3. queuedAt' = queuedAt
    BY DEF SetLimit
  <2> QED
    BY <1>1, <2>1, <2>2, <2>3
<1>6. QueueIsTheWaiters'
  BY <1>0, <1>1, <1>2, <1>4 DEF QueueIsTheWaiters
<1>7. ActiveIsTheHolders'
  <2>1. IsFiniteSet(Holders) /\ Cardinality(Holders) \in Nat
    BY FiniteCalls DEF Holders, In
  <2>2. Cardinality(Holders \cup G) = Cardinality(Holders) + k - Cardinality({})
    BY <1>1, <1>4, <2>1, FS_Union
  <2>3. sem'.active = Cardinality(Holders) + k
    BY <1>1 DEF ActiveIsTheHolders
  <2>4. Cardinality(Holders \cup G) = Cardinality(Holders) + k
    BY <1>3, <2>1, <2>2, FS_EmptySet
  <2> QED
    BY <1>4, <2>3, <2>4 DEF ActiveIsTheHolders
<1>8. NoStrandedWaiter'
  <2>1. sem.active \in Nat /\ sem.limit \in Nat /\ n \in Nat
    BY DEF Sems, Limits
  <2>2. CASE n <= sem.limit
    <3>1. k = 0 /\ Resize(sem, n).queue = sem.queue
      BY <1>3, <2>1, <2>2 DEF PumpCount, Resize, Sems
    <3> QED
      BY <1>1, <2>1, <2>2, <3>1 DEF NoStrandedWaiter
  <2>3. CASE n > sem.limit
    <3>1. SUFFICES ASSUME Resize(sem, n).queue # <<>>
                   PROVE  sem.active + k >= n
      BY <1>1 DEF NoStrandedWaiter
    <3>2. Len(sem.queue) - k > 0
      BY <1>1, <1>3, <3>1 DEF Sems
    <3> QED
      BY <1>3, <2>1, <2>3, <3>2 DEF PumpCount, Room
  <2> QED
    BY <2>1, <2>2, <2>3
<1> QED
  BY <1>5, <1>6, <1>7, <1>8

\* a drain rejects the waiters and touches no slot
LEMMA DrainInv ==
  ASSUME Inv, Drain
  PROVE  Inv'
<1> USE DEF Inv, TypeOK
<1>1. /\ sem' \in Sems /\ sem'.active = sem.active /\ sem'.queue = <<>>
      /\ Len(sem'.queue) = 0
  <2>1. <<>> \in Seq(Reqs) /\ Len(<<>>) = 0
    BY EmptySeq
  <2>2. sem' = [sem EXCEPT !.queue = <<>>] /\ sem \in Sems
    BY DEF Drain, Drained
  <2>3. sem'.active = sem.active /\ sem'.queue = <<>>
    BY <2>2 DEF Sems
  <2>4. sem' \in Sems
    BY <2>1, <2>2 DEF Sems
  <2> QED
    BY <2>1, <2>3, <2>4
<1>2. Waiters(sem') = {} /\ Distinct(sem')
  BY <1>1 DEF Waiters, Distinct
<1>3. TypeOK'
  BY <1>1 DEF Drain, Statuses
<1>4. Holders' = Holders /\ Queued' = {}
  BY DEF Drain, Holders, Queued, In, Statuses, QueueIsTheWaiters
<1>5. QueueIsTheWaiters'
  BY <1>2, <1>4 DEF QueueIsTheWaiters, Drain
<1>6. ActiveIsTheHolders' /\ NoStrandedWaiter'
  BY <1>1, <1>4 DEF ActiveIsTheHolders, NoStrandedWaiter
<1> QED
  BY <1>3, <1>5, <1>6

\* every step preserves the invariant
LEMMA NextInv == Inv /\ [Next]_vars => Inv'
<1> SUFFICES ASSUME Inv, [Next]_vars PROVE Inv'
  OBVIOUS
<1>1. ASSUME NEW r \in Reqs, AcquireNow(r) PROVE Inv'
  BY <1>1, AcquireNowInv
<1>2. ASSUME NEW r \in Reqs, AcquireQueued(r) PROVE Inv'
  BY <1>2, AcquireQueuedInv
<1>3. ASSUME NEW r \in Reqs, Timeout(r) PROVE Inv'
  BY <1>3, TimeoutInv
<1>4. ASSUME NEW r \in Reqs, Release(r) PROVE Inv'
  <2>1. CASE status[r] = "holding"
    BY <1>4, <2>1, ReleaseInv
  <2>2. CASE UNCHANGED vars
    BY <2>2 DEF vars, Inv, TypeOK, QueueIsTheWaiters, ActiveIsTheHolders,
                NoStrandedWaiter, Holders, Queued, In
  <2> QED
    BY <1>4, <2>1, <2>2 DEF Release
<1>5. ASSUME NEW n \in Limits, SetLimit(n) PROVE Inv'
  BY <1>5, SetLimitInv
<1>6. CASE Drain
  BY <1>6, DrainInv
<1>7. CASE UNCHANGED vars
  BY <1>7 DEF vars, Inv, TypeOK, QueueIsTheWaiters, ActiveIsTheHolders,
              NoStrandedWaiter, Holders, Queued, In
<1> QED
  BY <1>1, <1>2, <1>3, <1>4, <1>5, <1>6, <1>7 DEF Next

(* Type correctness, an exact queue, exact accounting of the slots and no  *)
(* waiter beside a free slot, in every state of every run.                 *)
THEOREM SemaphoreSafe == Spec => []Inv
BY InitInv, NextInv, PTL DEF Spec

\* the queue never holds a settled, a repeated or a missing waiter
THEOREM QueueExact == Spec => []QueueIsTheWaiters
<1>1. Inv => QueueIsTheWaiters
  BY DEF Inv
<1> QED
  BY <1>1, SemaphoreSafe, PTL

\* no slot is leaked and none is counted twice
THEOREM NoLeakedSlot == Spec => []ActiveIsTheHolders
<1>1. Inv => ActiveIsTheHolders
  BY DEF Inv
<1> QED
  BY <1>1, SemaphoreSafe, PTL

\* no wakeup is lost: a waiter exists only while every slot is taken
THEOREM NoLostWakeup == Spec => []NoStrandedWaiter
<1>1. Inv => NoStrandedWaiter
  BY DEF Inv
<1> QED
  BY <1>1, SemaphoreSafe, PTL

-----------------------------------------------------------------------------
(* Action properties.                                                      *)

\* a step admits somebody only up to the limit it leaves in force
LEMMA StepWithinLimit ==
  ASSUME Inv, [Next]_vars, NEW r \in Reqs, Admitted(r)
  PROVE  sem'.active <= sem'.limit
<1> USE DEF Inv, TypeOK
<1>0. sem.active \in Nat /\ sem.limit \in Nat
  BY MaxLimitAssumption DEF Sems, Limits
<1>1. ASSUME NEW q \in Reqs, AcquireNow(q) PROVE sem'.active <= sem'.limit
  <2>1. sem'.active = sem.active + 1 /\ sem'.limit = sem.limit
    BY <1>1, EnterFacts DEF AcquireNow
  <2> QED
    BY <1>0, <1>1, <2>1 DEF AcquireNow, EntersAtOnce
<1>2. ASSUME NEW q \in Reqs, AcquireQueued(q) \/ Timeout(q) PROVE FALSE
  BY <1>2 DEF AcquireQueued, Timeout, Admitted
<1>3. ASSUME NEW q \in Reqs, Release(q) PROVE sem'.active <= sem'.limit
  <2>1. CASE status[q] = "holding"
    <3>1. r \in HandedTo(sem)
      BY <1>3, <2>1, ReleaseMoves DEF Admitted
    <3>2. HandsOver(sem)
      BY <3>1 DEF HandedTo
    <3>3. sem'.active = sem.active /\ sem'.limit = sem.limit
      BY <1>3, <2>1, <3>2, ReleaseMoves, HandoffFacts DEF QueueIsTheWaiters
    <3> QED
      BY <1>0, <3>2, <3>3 DEF HandsOver
  <2>2. CASE UNCHANGED vars
    BY <2>2 DEF vars, Admitted
  <2> QED
    BY <1>3, <2>1, <2>2 DEF Release
<1>4. ASSUME NEW n \in Limits, SetLimit(n) PROVE sem'.active <= sem'.limit
  <2>1. r \in PumpedTo(sem, n)
    BY <1>4 DEF SetLimit, Admitted
  <2>2. PumpCount(sem, n) # 0
    BY <1>4, <2>1, SetLimitMoves, FS_EmptySet
  <2>3. sem'.active = sem.active + PumpCount(sem, n) /\ sem'.limit = n
    BY <1>4, SetLimitMoves
  <2>4. n \in Nat /\ Len(sem.queue) \in Nat
    BY <1>4, SetLimitMoves DEF Limits
  <2> QED
    BY <1>0, <2>2, <2>3, <2>4 DEF PumpCount, Room
<1>5. ASSUME Drain PROVE FALSE
  BY <1>5 DEF Drain, Admitted
<1>6. CASE UNCHANGED vars
  BY <1>6 DEF vars, Admitted
<1> QED
  BY <1>1, <1>2, <1>3, <1>4, <1>5, <1>6 DEF Next

\* F7: nobody is admitted above the limit in force, whenever it was changed
THEOREM WithinLimit == Spec => AdmittedWithinLimit
<1>1. Inv /\ [Next]_vars
        => [\A r \in Reqs : Admitted(r) => sem'.active <= sem'.limit]_vars
  BY StepWithinLimit
<1> QED
  BY <1>1, SemaphoreSafe, PTL DEF Spec, AdmittedWithinLimit

-----------------------------------------------------------------------------
(* The order of arrival.                                                   *)

\* whoever is left in the queue stands in the order it had
LEMMA LeftInOrder ==
  ASSUME Inv, QueueIsInOrder, sem' \in Sems, IsLeftOf(sem'.queue, sem.queue),
         Queued' \subseteq Queued, queuedAt' = queuedAt,
         stats'.queued = stats.queued
  PROVE  QueueIsInOrder'
<1> DEFINE q == sem.queue
           t == sem'.queue
<1>1. PICK f \in [1..Len(t) -> 1..Len(q)] :
             /\ \A i, j \in 1..Len(t) : i < j => f[i] < f[j]
             /\ \A i \in 1..Len(t) : t[i] = q[f[i]]
  BY DEF IsLeftOf
<1>2. \A i, j \in 1..Len(q) : i < j => queuedAt[q[i]] < queuedAt[q[j]]
  BY DEF QueueIsInOrder
<1>3. ASSUME NEW i \in 1..Len(t), NEW j \in 1..Len(t), i < j
      PROVE  queuedAt[t[i]] < queuedAt[t[j]]
  <2>1. f[i] \in 1..Len(q) /\ f[j] \in 1..Len(q) /\ f[i] < f[j]
    BY <1>1, <1>3
  <2> QED
    BY <1>1, <1>2, <2>1
<1>4. \A r \in Queued' : queuedAt'[r] <= stats'.queued
  BY DEF QueueIsInOrder
<1> QED
  BY <1>3, <1>4 DEF QueueIsInOrder

\* a new waiter comes after everybody that stands in the queue
LEMMA NewestIsLast ==
  ASSUME Inv, QueueIsInOrder, NEW r \in Reqs, AcquireQueued(r)
  PROVE  QueueIsInOrder'
<1> USE DEF Inv, TypeOK
<1> DEFINE q == sem.queue
           t == sem'.queue
           n == stats.queued
<1>0. Distinct(sem) /\ Queued = Waiters(sem) /\ n \in Nat
  BY DEF QueueIsTheWaiters, Tally
<1>1. r \notin Queued
  BY DEF AcquireQueued, Queued, In
<1>2. /\ Len(t) = Len(q) + 1 /\ t[Len(q) + 1] = r
      /\ \A i \in 1..Len(q) : t[i] = q[i]
  BY <1>0, <1>1, EnqueueFacts DEF AcquireQueued
<1>3. Len(q) \in Nat /\ \A i \in 1..Len(q) : q[i] \in Queued
  BY <1>0 DEF Sems, Waiters
<1>4. stats'.queued = n + 1 /\ queuedAt' = [queuedAt EXCEPT ![r] = n + 1]
  BY DEF AcquireQueued, Tally
<1>5. \A s \in Queued : queuedAt'[s] = queuedAt[s] /\ queuedAt[s] \in Nat /\ queuedAt[s] <= n
  BY <1>1, <1>4 DEF QueueIsInOrder, Queued, In
<1>6. queuedAt'[r] = n + 1
  BY <1>4
<1>7. Queued' \subseteq Queued \cup {r}
  BY DEF AcquireQueued, Queued, In
<1>8. \A s \in Queued' : queuedAt'[s] <= stats'.queued
  BY <1>0, <1>4, <1>5, <1>6, <1>7
<1>9. ASSUME NEW i \in 1..Len(t), NEW j \in 1..Len(t), i < j
      PROVE  queuedAt'[t[i]] < queuedAt'[t[j]]
  <2>1. i \in 1..Len(q) /\ t[i] = q[i] /\ q[i] \in Queued
    BY <1>2, <1>3, <1>9
  <2>2. CASE j \in 1..Len(q)
    <3>1. t[j] = q[j] /\ q[j] \in Queued /\ queuedAt[q[i]] < queuedAt[q[j]]
      BY <1>2, <1>3, <1>9, <2>1, <2>2 DEF QueueIsInOrder
    <3> QED
      BY <1>5, <2>1, <3>1
  <2>3. CASE j = Len(q) + 1
    <3>1. t[j] = r
      BY <1>2, <2>3
    <3>2. /\ queuedAt'[q[i]] = queuedAt[q[i]]
          /\ queuedAt[q[i]] \in Nat /\ queuedAt[q[i]] <= n
      BY <1>5, <2>1
    <3>3. queuedAt'[q[i]] < queuedAt'[r]
      BY <1>0, <1>6, <3>2
    <3> QED
      BY <2>1, <3>1, <3>3
  <2> QED
    BY <1>2, <1>3, <2>2, <2>3
<1> QED
  BY <1>8, <1>9 DEF QueueIsInOrder

\* every step leaves the queue in the order of arrival
LEMMA NextInOrder == Inv /\ Inv' /\ QueueIsInOrder /\ [Next]_vars => QueueIsInOrder'
<1> SUFFICES ASSUME Inv, Inv', QueueIsInOrder, [Next]_vars PROVE QueueIsInOrder'
  OBVIOUS
<1> USE DEF Inv, TypeOK
<1>0. Distinct(sem) /\ Queued = Waiters(sem) /\ timers \subseteq Queued
  BY DEF QueueIsTheWaiters
<1>1. ASSUME NEW r \in Reqs, AcquireNow(r) PROVE QueueIsInOrder'
  <2>1. sem'.queue = sem.queue /\ IsLeftOf(sem.queue, sem.queue)
    BY <1>1, EnterFacts, WholeIsLeft DEF AcquireNow, Sems
  <2>2. Queued' \subseteq Queued /\ queuedAt' = queuedAt /\ stats'.queued = stats.queued
    BY <1>1 DEF AcquireNow, Queued, In, Tally
  <2> QED
    BY <2>1, <2>2, LeftInOrder
<1>2. ASSUME NEW r \in Reqs, AcquireQueued(r) PROVE QueueIsInOrder'
  BY <1>2, NewestIsLast
<1>3. ASSUME NEW r \in Reqs, Timeout(r) PROVE QueueIsInOrder'
  <2>1. IsLeftOf(sem'.queue, sem.queue)
    BY <1>0, <1>3, AbandonFacts DEF Timeout
  <2>2. Queued' \subseteq Queued /\ queuedAt' = queuedAt /\ stats'.queued = stats.queued
    BY <1>3 DEF Timeout, Queued, In, Tally
  <2> QED
    BY <2>1, <2>2, LeftInOrder
<1>4. ASSUME NEW r \in Reqs, Release(r) PROVE QueueIsInOrder'
  <2>1. CASE status[r] = "holding"
    <3>1. sem.active > 0
      BY <1>4, <2>1, ReleaseMoves
    <3>2. IsLeftOf(sem'.queue, sem.queue)
      BY <1>0, <1>4, <2>1, <3>1, HandoffFacts DEF Release
    <3>3. Queued' \subseteq Queued
      BY <1>4, <2>1, ReleaseMoves
    <3>4. queuedAt' = queuedAt /\ stats'.queued = stats.queued
      BY <1>4, <2>1 DEF Release, Admit, Tally
    <3> QED
      BY <3>2, <3>3, <3>4, LeftInOrder
  <2>2. CASE UNCHANGED vars
    BY <2>2 DEF vars, QueueIsInOrder, Queued, In
  <2> QED
    BY <1>4, <2>1, <2>2 DEF Release
<1>5. ASSUME NEW n \in Limits, SetLimit(n) PROVE QueueIsInOrder'
  <2>1. IsLeftOf(sem'.queue, sem.queue)
    BY <1>0, <1>5, ResizeFacts DEF SetLimit
  <2>2. Queued' \subseteq Queued
    BY <1>5, SetLimitMoves
  <2>3. queuedAt' = queuedAt /\ stats'.queued = stats.queued
    BY <1>5 DEF SetLimit, Tally
  <2> QED
    BY <2>1, <2>2, <2>3, LeftInOrder
<1>6. CASE Drain
  <2>1. sem'.queue = <<>> /\ Len(sem'.queue) = 0
    BY <1>6, EmptySeq DEF Drain, Drained, Sems
  <2>2. Queued' \subseteq Queued /\ queuedAt' = queuedAt /\ stats' = stats
    BY <1>6 DEF Drain, Queued, In
  <2> QED
    BY <2>1, <2>2 DEF QueueIsInOrder
<1>7. CASE UNCHANGED vars
  BY <1>7 DEF vars, QueueIsInOrder, Queued, In
<1> QED
  BY <1>1, <1>2, <1>3, <1>4, <1>5, <1>6, <1>7 DEF Next

(* The queue always stands in the order in which its waiters joined it.    *)
THEOREM QueueOrdered == Spec => []QueueIsInOrder
<1>1. Init => QueueIsInOrder
  <2> SUFFICES ASSUME Init PROVE QueueIsInOrder
    OBVIOUS
  <2>1. sem.queue = <<>> /\ Len(sem.queue) = 0
    BY EmptySeq DEF Init, NewSem
  <2> QED
    BY <2>1 DEF Init, QueueIsInOrder, Queued, In
<1> QED
  BY <1>1, NextInOrder, SemaphoreSafe, PTL DEF Spec

\* a step that admits a call admits everybody who joined the queue before it
LEMMA StepFirstCome ==
  ASSUME Inv, QueueIsInOrder, [Next]_vars, NEW r \in Reqs, Admitted(r),
         NEW w \in Queued, status[r] = "new" \/ queuedAt[w] < queuedAt[r]
  PROVE  status'[w] = "holding"
<1> USE DEF Inv, TypeOK
<1> DEFINE q == sem.queue
<1>0. /\ Queued = Waiters(sem) /\ Distinct(sem) /\ w \in Reqs /\ Len(q) \in Nat
      /\ \A s \in Queued : queuedAt[s] \in Nat
  BY DEF QueueIsTheWaiters, Queued, In, Sems
<1>1. PICK i \in 1..Len(q) : q[i] = w
  BY <1>0 DEF Waiters
<1>2. ASSUME NEW a \in 1..Len(q), q[a] = r PROVE a >= i
  <2>1. r \in Queued /\ status[r] # "new"
    BY <1>0, <1>2 DEF Waiters, Queued, In
  <2>2. queuedAt[w] < queuedAt[r] /\ queuedAt[w] \in Nat /\ queuedAt[r] \in Nat
    BY <1>0, <2>1
  <2>3. a < i => queuedAt[r] < queuedAt[w]
    BY <1>1, <1>2 DEF QueueIsInOrder
  <2> QED
    BY <1>0, <2>2, <2>3
<1>3. ASSUME NEW s \in Reqs, AcquireNow(s) PROVE FALSE
  <2>1. q = <<>>
    BY <1>3 DEF AcquireNow, EntersAtOnce
  <2> QED
    BY <1>1, <2>1, EmptySeq
<1>4. ASSUME NEW s \in Reqs, AcquireQueued(s) \/ Timeout(s) PROVE FALSE
  BY <1>4 DEF AcquireQueued, Timeout, Admitted
<1>5. ASSUME NEW s \in Reqs, Release(s) PROVE status'[w] = "holding"
  <2>1. CASE status[s] = "holding"
    <3>1. r \in HandedTo(sem)
      BY <1>5, <2>1, ReleaseMoves DEF Admitted
    <3>2. HandedTo(sem) = {q[1]} /\ q[1] \in Waiters(sem)
      BY <1>0, <1>5, <2>1, <3>1, ReleaseMoves, HandoffFacts
    <3>3. i = 1
      BY <1>0, <1>2, <3>1, <3>2
    <3>4. w \in HandedTo(sem)
      BY <1>1, <3>2, <3>3
    <3> QED
      BY <1>0, <1>5, <2>1, <3>4 DEF Release, Admit
  <2>2. CASE UNCHANGED vars
    BY <2>2 DEF vars, Admitted
  <2> QED
    BY <1>5, <2>1, <2>2 DEF Release
<1>6. ASSUME NEW n \in Limits, SetLimit(n) PROVE status'[w] = "holding"
  <2>1. r \in PumpedTo(sem, n)
    BY <1>6 DEF SetLimit, Admitted
  <2>2. PumpCount(sem, n) \in 0..Len(q)
    BY <1>0, ResizeFacts
  <2>3. PICK a \in 1..PumpCount(sem, n) : q[a] = r
    BY <2>1 DEF PumpedTo
  <2>4. i \in 1..PumpCount(sem, n)
    BY <1>0, <1>2, <2>2, <2>3
  <2>5. w \in PumpedTo(sem, n)
    BY <1>1, <2>4 DEF PumpedTo
  <2> QED
    BY <1>0, <1>6, <2>5 DEF SetLimit
<1>7. ASSUME Drain PROVE FALSE
  BY <1>7 DEF Drain, Admitted
<1>8. CASE UNCHANGED vars
  BY <1>8 DEF vars, Admitted
<1> QED
  BY <1>3, <1>4, <1>5, <1>6, <1>7, <1>8 DEF Next

\* FIFO: nobody is admitted past a call that has waited longer
THEOREM NobodyJumpsTheQueue == Spec => FirstComeFirstServed
<1> DEFINE A == \A r \in Reqs : Admitted(r) =>
                  \A q \in Queued : (status[r] = "new" \/ queuedAt[q] < queuedAt[r])
                                       => status'[q] = "holding"
<1>1. Inv /\ QueueIsInOrder /\ [Next]_vars => [A]_vars
  BY StepFirstCome
<1> QED
  BY <1>1, SemaphoreSafe, QueueOrdered, PTL DEF Spec, FirstComeFirstServed

-----------------------------------------------------------------------------
(* The semaphore implements the pool of permits of PermitPool.tla.         *)

\* the invariant says of a state that nobody waits beside a free permit
LEMMA InvIsWorkConserving == Inv => Queued = {} \/ Cardinality(Holders) >= sem.limit
<1> SUFFICES ASSUME Inv, Queued # {} PROVE Cardinality(Holders) >= sem.limit
  OBVIOUS
<1>1. sem.queue # <<>>
  <2>1. Len(<<>>) = 0
    BY EmptySeq
  <2>2. Waiters(sem) # {}
    BY DEF Inv, QueueIsTheWaiters
  <2> QED
    BY <2>1, <2>2 DEF Waiters
<1> QED
  BY <1>1 DEF Inv, NoStrandedWaiter, ActiveIsTheHolders

\* so it does of the state a step leads to
LEMMA InvIsWorkConservingNext ==
  Inv' => (Queued = {} \/ Cardinality(Holders) >= sem.limit)'
BY InvIsWorkConserving, PTL

\* both modules count with FiniteSets
LEMMA SameCount == \A S : Pool!Cardinality(S) = Cardinality(S)
BY DEF Pool!Cardinality, Cardinality

\* a step of the semaphore that admits G is a step of the pool that admits G
LEMMA AdmitsRefines ==
  ASSUME Inv, Inv', [Next]_vars, NEW G, Holders' \ Holders = G, G \subseteq Reqs
  PROVE  Pool!Admits(G)
<1>1. G # {} => Cardinality(Holders)' <= sem'.limit
  <2> SUFFICES ASSUME NEW r \in G PROVE Cardinality(Holders)' <= sem'.limit
    OBVIOUS
  <2>1. Admitted(r) /\ r \in Reqs
    BY DEF Admitted, Holders, In, Inv, TypeOK
  <2>2. sem'.active <= sem'.limit
    BY <2>1, StepWithinLimit
  <2> QED
    BY <2>2 DEF Inv, ActiveIsTheHolders
<1>2. Pool!WorkConserving'
  <2>1. Queued' = {} \/ Cardinality(Holders') >= sem'.limit
    BY InvIsWorkConservingNext
  <2> QED
    BY <2>1, SameCount DEF Pool!WorkConserving
<1> QED
  BY <1>1, <1>2, SameCount DEF Pool!Admits

\* every step of the semaphore is a step of the pool, or invisible to it
LEMMA StepRefines ==
  ASSUME Inv, Inv', [Next]_vars
  PROVE  [Pool!Next]_(Pool!vars)
<1> USE DEF Inv, TypeOK
<1>1. ASSUME NEW r \in Reqs, AcquireNow(r) PROVE Pool!Next
  <2>1. /\ Holders' = Holders \cup {r} /\ r \notin Holders
        /\ r \notin Queued /\ Queued' = Queued
    BY <1>1 DEF AcquireNow, Holders, Queued, In, Statuses
  <2>2. sem'.limit = sem.limit
    BY <1>1, EnterFacts DEF AcquireNow
  <2>3. Pool!Admits(Holders' \ Holders)
    BY <2>1, AdmitsRefines
  <2> QED
    BY <2>1, <2>2, <2>3 DEF Pool!Ask, Pool!Next
<1>2. ASSUME NEW r \in Reqs, AcquireQueued(r) PROVE Pool!Next
  <2>1. /\ Holders' = Holders /\ r \notin Holders
        /\ r \notin Queued /\ Queued' = Queued \cup {r}
    BY <1>2 DEF AcquireQueued, Holders, Queued, In, Statuses
  <2>2. sem'.limit = sem.limit
    BY <1>2 DEF AcquireQueued, Enqueue, Sems
  <2>3. Pool!Admits(Holders' \ Holders)
    BY <2>1, AdmitsRefines
  <2> QED
    BY <2>1, <2>2, <2>3 DEF Pool!Ask, Pool!Next
<1>3. ASSUME NEW r \in Reqs, Timeout(r) PROVE Pool!Next
  <2>1. r \in Queued
    BY <1>3 DEF Timeout, QueueIsTheWaiters
  <2>2. Holders' = Holders /\ Queued' = Queued \ {r}
    BY <1>3, <2>1 DEF Timeout, Holders, Queued, In, Statuses
  <2>3. sem'.limit = sem.limit
    BY <1>3 DEF Timeout, Abandon, Sems
  <2>4. Pool!Admits({})
    BY <2>2, AdmitsRefines
  <2>5. Pool!GiveUp({r})
    BY <2>1, <2>2, <2>3, <2>4 DEF Pool!GiveUp
  <2> QED
    BY <2>5 DEF Pool!Next
<1>4. ASSUME NEW r \in Reqs, Release(r) PROVE Pool!Next \/ UNCHANGED vars
  <2> SUFFICES ASSUME status[r] = "holding" PROVE Pool!Next
    BY <1>4 DEF Release
  <2> DEFINE G == HandedTo(sem)
  <2>1. /\ r \in Holders /\ r \notin G /\ G \subseteq Queued /\ G \subseteq Reqs
        /\ sem'.limit = sem.limit
        /\ Holders' = (Holders \ {r}) \cup G /\ Queued' = Queued \ G
    BY <1>4, ReleaseMoves
  <2>2. Holders \cap G = {}
    BY <2>1 DEF Holders, Queued, In
  <2> HIDE DEF G
  <2>3. Pool!Admits(G)
    BY <2>1, <2>2, AdmitsRefines
  <2>4. Pool!Return(r)
    BY <2>1, <2>3 DEF Pool!Return
  <2> QED
    BY <2>4 DEF Pool!Next
<1>5. ASSUME NEW n \in Limits, SetLimit(n) PROVE Pool!Next
  <2> DEFINE G == PumpedTo(sem, n)
  <2>1. /\ G \subseteq Queued /\ sem'.limit = n
        /\ Holders' = Holders \cup G /\ Queued' = Queued \ G /\ Holders \cap G = {}
    BY <1>5, SetLimitMoves
  <2> HIDE DEF G
  <2>2. Pool!Admits(G)
    BY <2>1, AdmitsRefines DEF Queued, In
  <2>3. Pool!Resize(n)
    BY <2>1, <2>2 DEF Pool!Resize
  <2> QED
    BY <2>3 DEF Pool!Next, Pool!Limits, Limits
<1>6. ASSUME Drain PROVE Pool!Next
  <2>1. Queued = Waiters(sem) /\ sem.queue # <<>>
    BY <1>6 DEF Drain, QueueIsTheWaiters
  <2>2. Queued # {} /\ Queued \subseteq Reqs
    <3>1. Len(sem.queue) \in Nat \ {0}
      BY <2>1, EmptySeq DEF Sems
    <3>2. sem.queue[1] \in Waiters(sem)
      BY <3>1 DEF Waiters
    <3> QED
      BY <2>1, <3>2 DEF Queued, In
  <2>3. Holders' = Holders /\ Queued' = {} /\ sem'.limit = sem.limit
    BY <1>6, <2>1 DEF Drain, Drained, Holders, Queued, In, Statuses, Sems
  <2>4. Pool!Admits({})
    BY <2>3, AdmitsRefines
  <2>5. Pool!GiveUp(Queued)
    BY <2>2, <2>3, <2>4 DEF Pool!GiveUp
  <2> QED
    BY <2>2, <2>5 DEF Pool!Next
<1>7. UNCHANGED vars => UNCHANGED Pool!vars
  BY DEF vars, Pool!vars, Holders, Queued, In
<1> QED
  BY <1>1, <1>2, <1>3, <1>4, <1>5, <1>6, <1>7 DEF Next

(* The queue, the timers, the handoff and the pump together behave like a  *)
(* resizable pool that never over-admits and never strands a waiter.       *)
THEOREM SemaphoreImplementsPool == Spec => RefinesPermitPool
<1>1. Init => Pool!Init
  <2> SUFFICES ASSUME Init PROVE Pool!Init
    OBVIOUS
  <2>1. sem.limit \in Limits
    BY InitInv DEF Inv, TypeOK, Sems
  <2>2. Holders = {} /\ Queued = {}
    BY DEF Init, Holders, Queued, In
  <2> QED
    BY <2>1, <2>2 DEF Pool!Init, Pool!Limits, Limits
<1>2. Inv /\ Inv' /\ [Next]_vars => [Pool!Next]_(Pool!vars)
  BY StepRefines
<1> QED
  BY <1>1, <1>2, SemaphoreSafe, PTL DEF Spec, RefinesPermitPool, Pool!Spec

=============================================================================
