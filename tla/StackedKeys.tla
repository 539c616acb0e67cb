---------------------------- MODULE StackedKeys -----------------------------
(***************************************************************************)
(* A channel with several API keys under the strategy rotate-429:          *)
(* rotate429Upstream() of lib/proxy.mjs over the ring cursor of class      *)
(* Channel.  Every request that uses the channel runs a scan of its own,   *)
(* and all scans share the one cursor.                                     *)
(*                                                                         *)
(* A scan stops only at `await sendFetch`: reading an answer, deciding,    *)
(* moving the cursor and sending with the next key are one step.           *)
(***************************************************************************)
EXTENDS Naturals, FiniteSets

CONSTANTS Reqs,      \* requests that scan the keys
          KeyCount   \* plans.length

ASSUME KeyCountAssumption == KeyCount \in Nat /\ KeyCount > 1

Keys == 0 .. KeyCount - 1

VARIABLES cursor,   \* nextKeyIndex of the channel
          scan      \* the scan of each request

vars == <<cursor, scan>>

(* A scan: sent and tried are how many keys, and which, it has sent with   *)
(* in this lap; lap counts the laps, 2 standing for every later one;       *)
(* switchable is sawSwitchable of this lap.                                *)
(* alone: no other scan has moved the cursor since the lap began.          *)
Idle == [waiting |-> FALSE, onlyCandidate |-> FALSE, sent |-> 0, tried |-> {},
         lap |-> 1, switchable |-> FALSE, alone |-> TRUE]

Init ==
  /\ cursor \in Keys
  /\ scan = [r \in Reqs |-> Idle]

-----------------------------------------------------------------------------
(* takeNextRequestKey(): the cursor moves on as soon as a key is taken.    *)
\* mutant: it moves on only after a success
NextStays(k) == k
NextAfter(k) == (k + 1) % KeyCount

\* r, whose scan has become s, takes the key at c and sends with it
SendWith(r, s, c) ==
  /\ cursor' = NextAfter(c)
  /\ scan' = [q \in Reqs |->
       IF q = r THEN [s EXCEPT !.waiting = TRUE, !.sent = @ + 1, !.tried = @ \cup {c}]
       ELSE [scan[q] EXCEPT !.alone = ~scan[q].waiting]]

(* The scan of r is over: it returns a response, the last one where all    *)
(* keys failed, or throws.                                                 *)
Finish(r) ==
  /\ scan' = [scan EXCEPT ![r] = Idle]
  /\ UNCHANGED cursor

LapDone(s) == s.sent = KeyCount

\* resetKeyCursor()
LapStart == 0

-----------------------------------------------------------------------------
\* mutant: a later lap whether or not there is another channel
RetriesLapAlways(s) == s.switchable

\* all keys have failed: only a request without alternatives starts over
RetriesLap(s) == s.onlyCandidate /\ s.switchable

Begin(r) ==
  /\ ~scan[r].waiting
  /\ \E only \in BOOLEAN : SendWith(r, [Idle EXCEPT !.onlyCandidate = only], cursor)

\* the key of s is of no use: the next key, a new lap, or the end of the scan
GoOn(r, s) ==
  \/ /\ ~LapDone(s)
     /\ SendWith(r, s, cursor)
  \/ /\ LapDone(s)
     /\ RetriesLap(s)
     /\ SendWith(r, [Idle EXCEPT !.onlyCandidate = s.onlyCandidate, !.lap = 2], LapStart)
  \/ /\ LapDone(s)
     /\ ~RetriesLap(s)
     /\ Finish(r)

\* 2xx, or an error that classifyStackedKeyResult() does not put on the key
Settled(r) ==
  /\ scan[r].waiting
  /\ Finish(r)

\* 429, 401, 402, 403, 408, 409 or 5xx: "next-key"
Refused(r) ==
  /\ scan[r].waiting
  /\ GoOn(r, [scan[r] EXCEPT !.switchable = TRUE])

\* the fetch failed without a response, and nobody aborted it
Unreachable(r) ==
  /\ scan[r].waiting
  /\ GoOn(r, scan[r])

\* client gone, first-byte time-out or total budget: the fetch is aborted
Abort(r) ==
  /\ scan[r].waiting
  /\ Finish(r)

Answered(r) == Settled(r) \/ Refused(r) \/ Unreachable(r)

Next == \E r \in Reqs : Begin(r) \/ Answered(r) \/ Abort(r)

Spec == Init /\ [][Next]_vars

-----------------------------------------------------------------------------
TypeOK ==
  /\ cursor \in Keys
  /\ scan \in [Reqs -> [waiting : BOOLEAN, onlyCandidate : BOOLEAN, sent : 0..KeyCount,
                        tried : SUBSET Keys, lap : 1..2, switchable : BOOLEAN,
                        alone : BOOLEAN]]

(* Rule E of the README for a lap that no other scan came into: wherever   *)
(* in the ring it begins and whatever the keys answer, the last key it     *)
(* sends with completes the circle, so the pool is reported as failed only *)
(* when every key of it has failed.  Rule G: a later lap begins at the     *)
(* first key even if other scans have moved the cursor meanwhile.          *)
UndisturbedLapIsFull ==
  /\ TypeOK
  /\ \A r \in Reqs : scan[r].alone /\ LapDone(scan[r]) => scan[r].tried = Keys
  /\ \A r \in Reqs : scan[r].lap = 2 => 0 \in scan[r].tried
=============================================================================
