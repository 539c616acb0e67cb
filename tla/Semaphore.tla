----------------------------- MODULE Semaphore ------------------------------
(***************************************************************************)
(* One Semaphore of lib/concurrency.mjs and the callers that use it.       *)
(*                                                                         *)
(* JavaScript runs one callback at a time, so a method call is one atomic  *)
(* step; what interleaves is calls: acquire() by any caller, the release   *)
(* function by any holder, the timer of any waiter, setLimit() and drain() *)
(* from a configuration change or a shutdown.  A caller is one call of     *)
(* acquire() and goes                                                      *)
(*                                                                         *)
(*      new -> holding -> released                                         *)
(*      new -> queued  -> holding | timedOut | drained                     *)
(***************************************************************************)
EXTENDS SemaphoreOps, FiniteSets

CONSTANTS Reqs,       \* calls of acquire()
          MaxLimit    \* bound: the largest limit a configuration sets

ASSUME ReqsAssumption == IsFiniteSet(Reqs)
ASSUME MaxLimitAssumption == MaxLimit \in Nat \ {0}

VARIABLES sem,      \* the object: limit, active, queue
          status,   \* what became of each call
          queuedAt, \* when each waiter joined the queue (its place in time)
          timers,   \* waiters whose timeout is armed (timeoutMs > 0)
          stats     \* the counters that stats() reports

vars == <<sem, status, queuedAt, timers, stats>>

Limits == 1..MaxLimit

Statuses == {"new", "queued", "holding", "released", "timedOut", "drained"}

In(s) == {r \in Reqs : status[r] = s}

Holders == In("holding")
Queued  == In("queued")

Sems  == [limit : Limits, active : Nat, queue : Seq(Reqs)]
Tally == [acquired : Nat, queued : Nat, timedOut : Nat, waited : Nat]

Init ==
  /\ \E n \in Limits : sem = NewSem(n)
  /\ status = [r \in Reqs |-> "new"]
  /\ queuedAt = [r \in Reqs |-> 0]
  /\ timers = {}
  /\ stats = [acquired |-> 0, queued |-> 0, timedOut |-> 0, waited |-> 0]

-----------------------------------------------------------------------------
(* Mutants of the definitions below: each is a bug the code could have.    *)

\* the timer forgets to take its waiter out of the queue
TimeoutLeavesWaiter(r) ==
  /\ r \in timers
  /\ status' = [status EXCEPT ![r] = "timedOut"]
  /\ timers' = timers \ {r}
  /\ stats' = [stats EXCEPT !.timedOut = @ + 1]
  /\ UNCHANGED <<sem, queuedAt>>

\* the release function hands its slot back on every call
ReleaseTwice(r) ==
  /\ status[r] \in {"holding", "released"}
  /\ LET admitted == HandedTo(sem)
     IN  /\ sem' = [sem EXCEPT
                     !.queue  = IF HandsOver(sem) THEN Tail(@) ELSE @,
                     !.active = IF HandsOver(sem) \/ @ = 0 THEN @ ELSE @ - 1]
         /\ status' = [q \in Reqs |-> IF q \in admitted THEN "holding"
                                      ELSE IF q = r THEN "released"
                                      ELSE status[q]]
         /\ timers' = timers \ admitted
         /\ stats' = [stats EXCEPT !.acquired = @ + Cardinality(admitted),
                                   !.waited   = @ + Cardinality(admitted)]
  /\ UNCHANGED queuedAt

\* setLimit() as it was before F7: the raise wakes nobody
SetLimitWakesNobody(n) ==
  /\ n # sem.limit
  /\ sem' = [sem EXCEPT !.limit = n]
  /\ UNCHANGED <<status, queuedAt, timers, stats>>

-----------------------------------------------------------------------------
\* waiters G get their permits: promises resolved, timers cleared, counted
Admit(G, r, left) ==
  /\ status' = [q \in Reqs |-> IF q \in G THEN "holding"
                               ELSE IF q = r THEN left
                               ELSE status[q]]
  /\ timers' = timers \ G
  /\ stats' = [stats EXCEPT !.acquired = @ + Cardinality(G),
                            !.waited   = @ + Cardinality(G)]
  /\ UNCHANGED queuedAt

\* acquire(timeoutMs): a waiter with timeoutMs = 0 has no timer
AcquireNow(r) ==
  /\ status[r] = "new"
  /\ EntersAtOnce(sem)
  /\ sem' = Enter(sem)
  /\ status' = [status EXCEPT ![r] = "holding"]
  /\ stats' = [stats EXCEPT !.acquired = @ + 1]
  /\ UNCHANGED <<queuedAt, timers>>

AcquireQueued(r) ==
  /\ status[r] = "new"
  /\ ~EntersAtOnce(sem)
  /\ sem' = Enqueue(sem, r)
  /\ status' = [status EXCEPT ![r] = "queued"]
  /\ stats' = [stats EXCEPT !.queued = @ + 1]
  /\ queuedAt' = [queuedAt EXCEPT ![r] = stats'.queued]
  /\ \E timed \in BOOLEAN : timers' = IF timed THEN timers \cup {r} ELSE timers

\* the timer callback of acquire()
Timeout(r) ==
  /\ r \in timers
  /\ sem' = Abandon(sem, r)
  /\ status' = [status EXCEPT ![r] = "timedOut"]
  /\ timers' = timers \ {r}
  /\ stats' = [stats EXCEPT !.timedOut = @ + 1]
  /\ UNCHANGED queuedAt

\* the release function of _releaseFn(): only its first call does anything
Release(r) ==
  /\ status[r] \in {"holding", "released"}
  /\ IF status[r] = "released"
     THEN UNCHANGED vars
     ELSE /\ sem' = Handoff(sem)
          /\ Admit(HandedTo(sem), r, "released")

SetLimit(n) ==
  /\ n # sem.limit
  /\ sem' = Resize(sem, n)
  /\ status' = [q \in Reqs |-> IF q \in PumpedTo(sem, n) THEN "holding" ELSE status[q]]
  /\ timers' = timers \ PumpedTo(sem, n)
  /\ stats' = [stats EXCEPT !.acquired = @ + PumpCount(sem, n),
                            !.waited   = @ + PumpCount(sem, n)]
  /\ UNCHANGED queuedAt

\* drain(): every waiter is rejected, every holder keeps its slot
Drain ==
  /\ sem.queue # <<>>
  /\ sem' = Drained(sem)
  /\ status' = [r \in Reqs |-> IF r \in Waiters(sem) THEN "drained" ELSE status[r]]
  /\ timers' = timers \ Waiters(sem)
  /\ UNCHANGED <<queuedAt, stats>>

Next ==
  \/ \E r \in Reqs : AcquireNow(r) \/ AcquireQueued(r) \/ Timeout(r) \/ Release(r)
  \/ \E n \in Limits : SetLimit(n)
  \/ Drain

Spec == Init /\ [][Next]_vars

(***************************************************************************)
(* A holder is an upstream attempt, which proxy.mjs bounds by its header,  *)
(* first-byte and idle timers and which calls the release function in a    *)
(* `finally`: every holder releases.  Nothing obliges a timer to be armed, *)
(* the configuration to change or the queue to be drained.                 *)
(***************************************************************************)
Fairness == \A r \in Reqs : WF_vars(status[r] = "holding" /\ Release(r))

FairSpec == Spec /\ Fairness

-----------------------------------------------------------------------------
TypeOK ==
  /\ sem \in Sems
  /\ status \in [Reqs -> Statuses]
  /\ queuedAt \in [Reqs -> Nat]
  /\ timers \in SUBSET Reqs
  /\ stats \in Tally

(* The queue holds each waiting call once and nothing else, and a timer is *)
(* armed only for a call in it: a settled waiter is never found in the     *)
(* queue, so the `if (waiter.settled) continue` branches of _pump() and    *)
(* _handoff() and the settled tests of drain() and the timer skip nobody.  *)
QueueIsTheWaiters ==
  /\ Distinct(sem)
  /\ Queued = Waiters(sem)
  /\ timers \subseteq Queued

(* `active` is the number of calls that hold a slot, through handoffs,     *)
(* limit changes, timeouts and drains: none is leaked or counted twice.    *)
ActiveIsTheHolders == sem.active = Cardinality(Holders)

(* F7 and the FIFO rule: nobody waits while a slot is free, so a waiter    *)
(* is never stranded with no release left to wake it.                      *)
NoStrandedWaiter == sem.queue # <<>> => sem.active >= sem.limit

\* what every step preserves, and all of it is needed to show that it does
Inv ==
  /\ TypeOK
  /\ QueueIsTheWaiters
  /\ ActiveIsTheHolders
  /\ NoStrandedWaiter

(* The queue stands in the order of arrival: what _handoff() and _pump()   *)
(* take from its front are those who joined it first, also after a timer   *)
(* has taken somebody out of the middle.                                   *)
QueueIsInOrder ==
  /\ \A r \in Queued : queuedAt[r] <= stats.queued
  /\ \A i, j \in 1..Len(sem.queue) :
        i < j => queuedAt[sem.queue[i]] < queuedAt[sem.queue[j]]

-----------------------------------------------------------------------------
Admitted(r) == status[r] # "holding" /\ status'[r] = "holding"

(* F7: whoever is admitted is admitted within the limit of that moment; in *)
(* particular a lowered limit admits nobody until enough calls have left.  *)
AdmittedWithinLimit ==
  [][\A r \in Reqs : Admitted(r) => sem'.active <= sem'.limit]_vars

(* FIFO: a step that admits a call leaves behind nobody who has waited     *)
(* longer, and a call that never queued overtakes no waiter at all.        *)
FirstComeFirstServed ==
  [][\A r \in Reqs : Admitted(r) =>
       \A q \in Queued : (status[r] = "new" \/ queuedAt[q] < queuedAt[r])
                            => status'[q] = "holding"]_vars

(* Liveness: with holders that release, a waiter's turn comes even if it   *)
(* has no timer and whatever is done to the limit.                         *)
EveryWaiterIsSettled ==
  \A r \in Reqs : status[r] = "queued" ~> status[r] # "queued"

-----------------------------------------------------------------------------
Pool == INSTANCE PermitPool WITH limit <- sem.limit,
                                 holders <- Holders,
                                 waiting <- Queued

\* the semaphore implements the pool of permits
RefinesPermitPool == Pool!Spec
=============================================================================
