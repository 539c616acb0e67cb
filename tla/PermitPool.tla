----------------------------- MODULE PermitPool -----------------------------
(***************************************************************************)
(* What the gateway's semaphore promises to the rest of the program, with  *)
(* no queue, no order and no counters: a pool of permits whose size may be *)
(* changed while it is in use.                                             *)
(*                                                                         *)
(*   - a step that admits somebody ends with at most `limit` holders;      *)
(*   - no step leaves somebody waiting beside a free permit;               *)
(*   - lowering the limit evicts nobody.                                   *)
(***************************************************************************)
EXTENDS Naturals, FiniteSets

CONSTANTS Reqs,       \* the callers of acquire()
          MaxLimit    \* the largest limit a configuration sets

VARIABLES limit, holders, waiting

vars == <<limit, holders, waiting>>

Limits == 1..MaxLimit

Init ==
  /\ limit \in Limits
  /\ holders = {}
  /\ waiting = {}

\* nobody waits beside a free permit
WorkConserving == waiting = {} \/ Cardinality(holders) >= limit

\* G are the callers this step admits
Admits(G) ==
  /\ holders' \ holders = G
  /\ G # {} => Cardinality(holders') <= limit'
  /\ WorkConserving'

\* a new caller is admitted or told to wait
Ask(r) ==
  /\ r \notin holders \cup waiting
  /\ \/ /\ holders' = holders \cup {r}
        /\ waiting' = waiting
     \/ /\ holders' = holders
        /\ waiting' = waiting \cup {r}
  /\ UNCHANGED limit
  /\ Admits(holders' \ holders)

\* a holder returns its permit, which may pass to waiters
Return(r) ==
  /\ r \in holders
  /\ \E G \in SUBSET waiting :
       /\ holders' = (holders \ {r}) \cup G
       /\ waiting' = waiting \ G
       /\ UNCHANGED limit
       /\ Admits(G)

\* waiters give up or are turned away
GiveUp(G) ==
  /\ G # {}
  /\ G \subseteq waiting
  /\ waiting' = waiting \ G
  /\ UNCHANGED <<limit, holders>>
  /\ Admits({})

\* the limit changes, and waiters may be admitted under the new one
Resize(n) ==
  /\ limit' = n
  /\ \E G \in SUBSET waiting :
       /\ holders' = holders \cup G
       /\ waiting' = waiting \ G
       /\ Admits(G)

Next ==
  \/ \E r \in Reqs : Ask(r) \/ Return(r)
  \/ \E G \in SUBSET Reqs : GiveUp(G)
  \/ \E n \in Limits : Resize(n)

Spec == Init /\ [][Next]_vars
=============================================================================
