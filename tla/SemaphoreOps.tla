---------------------------- MODULE SemaphoreOps ----------------------------
(***************************************************************************)
(* class Semaphore of lib/concurrency.mjs as operators on one object       *)
(*   [limit, active, queue]                                                *)
(* where queue is the FIFO of waiters.  Each operator is the synchronous   *)
(* part of a method: what it leaves in the object.  What the method says   *)
(* to the waiters (which promises it resolves or rejects) is named by a    *)
(* companion operator, so that a module which owns requests can move them. *)
(*                                                                         *)
(* A waiter's `settled` flag is never needed here: the code takes a waiter *)
(* out of the queue in the very step that settles it, which Semaphore.tla  *)
(* checks and proves (QueueIsTheWaiters).                                  *)
(***************************************************************************)
EXTENDS Naturals, Sequences

\* constructor: limit is Math.max(1, Number(limit) || 1), so 0 becomes 1
AtLeastOne(n) == IF n = 0 THEN 1 ELSE n

NewSem(n) == [limit |-> AtLeastOne(n), active |-> 0, queue |-> <<>>]

\* acquire(), first test: a free slot and nobody in line
EntersAtOnce(s) == s.active < s.limit /\ s.queue = <<>>

Enter(s) == [s EXCEPT !.active = @ + 1]

\* mutant: unshift() for push()
EnqueueInFront(s, w) == [s EXCEPT !.queue = <<w>> \o @]

Enqueue(s, w) == [s EXCEPT !.queue = Append(@, w)]

\* the splice in the timer callback of acquire()
Abandon(s, w) ==
  LET i == CHOOSE j \in 1..Len(s.queue) : s.queue[j] = w
  IN  [s EXCEPT !.queue = SubSeq(@, 1, i - 1) \o SubSeq(@, i + 1, Len(@))]

\* drain() empties the queue and keeps the slots that are in use
Drained(s) == [s EXCEPT !.queue = <<>>]

(* _handoff(): the freed slot goes to the head of the queue unless the     *)
(* limit has been lowered below what is still running.                     *)
\* mutant: an off-by-one in the test F7 added
HandsOverBelowLimit(s) == s.queue # <<>> /\ s.active < s.limit

HandsOver(s) == s.queue # <<>> /\ s.active - 1 < s.limit

Handoff(s) ==
  IF HandsOver(s) THEN [s EXCEPT !.queue = Tail(@)]
                  ELSE [s EXCEPT !.active = @ - 1]

\* whom _handoff() admits
HandedTo(s) == IF HandsOver(s) THEN {Head(s.queue)} ELSE {}

(* setLimit(n) followed by _pump(): only a raise wakes waiters, as many    *)
(* from the front as the new limit has room for.                           *)
Room(s, n) == IF n > s.active THEN n - s.active ELSE 0

\* mutant: the pump wakes the whole queue
PumpAll(s, n) == IF n <= s.limit THEN 0 ELSE Len(s.queue)

PumpCount(s, n) ==
  IF n <= s.limit THEN 0
  ELSE IF Room(s, n) < Len(s.queue) THEN Room(s, n) ELSE Len(s.queue)

Resize(s, n) ==
  LET k == PumpCount(s, n)
  IN  [limit  |-> n,
       active |-> s.active + k,
       queue  |-> SubSeq(s.queue, k + 1, Len(s.queue))]

\* whom setLimit(n) admits
PumpedTo(s, n) == {s.queue[i] : i \in 1..PumpCount(s, n)}

Waiters(s) == {s.queue[i] : i \in 1..Len(s.queue)}

\* nobody stands twice in the queue
Distinct(s) == \A i, j \in 1..Len(s.queue) : s.queue[i] = s.queue[j] => i = j
=============================================================================
