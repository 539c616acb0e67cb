-------------------------- MODULE SelectionProofs ---------------------------
(***************************************************************************)
(* Proofs about what a request is sent to: the keys of a channel           *)
(* (StackedKeys.tla and KeyRace.tla), for any set of requests and number   *)
(* of keys, and the candidates (Routing.tla), for any channels, models,    *)
(* routes, priorities, weights and configurations.                         *)
(***************************************************************************)
EXTENDS KeyRace, Routing, FiniteSetTheorems, FunctionTheorems, SequenceTheorems,
        WellFoundedInduction, TLAPS

-----------------------------------------------------------------------------
(* The scans of the keys.                                                  *)

Scans == [waiting : BOOLEAN, onlyCandidate : BOOLEAN, sent : 0..KeyCount, tried : SUBSET Keys,
          lap : 1..2, switchable : BOOLEAN, alone : BOOLEAN]

\* how many steps back around the ring key k lies from the cursor
Back(k, c) == IF k < c THEN c - k ELSE c - k + KeyCount

(* A scan that is alone has sent with the keys that end at the cursor.     *)
Lapping(s, c) ==
  /\ s.waiting => s.sent > 0
  /\ ~s.waiting => s.sent = 0 /\ s.lap = 1
  /\ s.waiting /\ s.alone => s.tried = {k \in Keys : Back(k, c) <= s.sent}
  /\ s.lap = 2 => 0 \in s.tried

ScansInv ==
  /\ cursor \in Keys
  /\ scan \in [Reqs -> Scans]
  /\ \A r \in Reqs : Lapping(scan[r], cursor)

-----------------------------------------------------------------------------
LEMMA NextKey ==
  ASSUME NEW c \in Keys
  PROVE  NextAfter(c) = IF c = KeyCount - 1 THEN 0 ELSE c + 1
<1>1. c \in Int /\ 0 <= c /\ c < KeyCount /\ KeyCount \in Int /\ KeyCount > 1
  BY KeyCountAssumption DEF Keys
<1>2. CASE c = KeyCount - 1
  <2>1. c + 1 = KeyCount
    BY <1>1, <1>2
  <2>2. KeyCount % KeyCount = 0
    BY <1>1
  <2> QED
    BY <1>2, <2>1, <2>2 DEF NextAfter
<1>3. CASE c # KeyCount - 1
  <2>1. 0 <= c + 1 /\ c + 1 < KeyCount /\ c + 1 \in Int
    BY <1>1, <1>3
  <2>2. (c + 1) % KeyCount = c + 1
    BY <1>1, <2>1
  <2> QED
    BY <1>3, <2>2 DEF NextAfter
<1> QED
  BY <1>2, <1>3

\* the cursor leaves one key behind, and all others one step further back
LEMMA BackNext ==
  ASSUME NEW c \in Keys
  PROVE  /\ NextAfter(c) \in Keys
         /\ \A k \in Keys : /\ Back(k, c) \in 1 .. KeyCount
                            /\ Back(k, NextAfter(c)) = IF k = c THEN 1 ELSE Back(k, c) + 1
BY NextKey, KeyCountAssumption DEF Back, Keys

\* the scan that sends with the key at c
Sent(s, c) == [s EXCEPT !.waiting = TRUE, !.sent = @ + 1, !.tried = @ \cup {c}]

LEMMA SentOK ==
  ASSUME NEW c \in Keys, NEW s \in Scans, s.sent < KeyCount,
         s.sent > 0 /\ s.alone => s.tried = {k \in Keys : Back(k, c) <= s.sent},
         s.sent = 0 => s.tried = {},
         s.lap = 2 => 0 \in s.tried \cup {c}
  PROVE  Sent(s, c) \in Scans /\ Lapping(Sent(s, c), NextAfter(c))
<1>1. s.sent + 1 \in 0 .. KeyCount /\ s.sent + 1 > 0 /\ s.sent \in Nat
  BY KeyCountAssumption DEF Scans
<1>2. s.tried \cup {c} \in SUBSET Keys
  BY DEF Scans
<1> DEFINE t == Sent(s, c)
<1>3. /\ t.waiting = TRUE /\ t.sent = s.sent + 1 /\ t.tried = s.tried \cup {c}
      /\ t.alone = s.alone /\ t.lap = s.lap
  BY DEF Sent, Scans
<1>4. t \in Scans
  BY <1>1, <1>2 DEF Sent, Scans
<1>5. s.alone => s.tried \cup {c} = {k \in Keys : Back(k, NextAfter(c)) <= s.sent + 1}
  <2>1. CASE s.sent > 0
    BY <1>1, <2>1, BackNext
  <2>2. CASE s.sent = 0
    BY <1>1, <2>2, BackNext
  <2> QED
    BY <1>1, <2>1, <2>2
<1> HIDE DEF t
<1>6. Lapping(t, NextAfter(c))
  BY <1>1, <1>3, <1>5 DEF Lapping
<1> QED
  BY <1>4, <1>6 DEF t

\* a request that waits loses its solitude when another one moves the cursor
LEMMA OthersOK ==
  ASSUME NEW s \in Scans, NEW c, Lapping(s, c), NEW d
  PROVE  /\ [s EXCEPT !.alone = ~s.waiting] \in Scans
         /\ Lapping([s EXCEPT !.alone = ~s.waiting], d)
BY DEF Scans, Lapping

LEMMA SendOK ==
  ASSUME ScansInv, NEW r \in Reqs, NEW c \in Keys, NEW s \in Scans, SendWith(r, s, c),
         s.sent < KeyCount,
         s.sent > 0 /\ s.alone => s.tried = {k \in Keys : Back(k, c) <= s.sent},
         s.sent = 0 => s.tried = {},
         s.lap = 2 => 0 \in s.tried \cup {c}
  PROVE  ScansInv'
<1>1. /\ cursor' = NextAfter(c)
      /\ scan' = [q \in Reqs |-> IF q = r THEN Sent(s, c)
                                 ELSE [scan[q] EXCEPT !.alone = ~scan[q].waiting]]
  BY DEF SendWith, Sent
<1>2. Sent(s, c) \in Scans /\ Lapping(Sent(s, c), NextAfter(c))
  BY SentOK
<1>3. \A q \in Reqs : /\ [scan[q] EXCEPT !.alone = ~scan[q].waiting] \in Scans
                      /\ Lapping([scan[q] EXCEPT !.alone = ~scan[q].waiting], NextAfter(c))
  BY OthersOK DEF ScansInv
<1>4. NextAfter(c) \in Keys
  BY BackNext
<1> QED
  BY <1>1, <1>2, <1>3, <1>4 DEF ScansInv

LEMMA IdleOK == Idle \in Scans /\ \A c : Lapping(Idle, c)
BY KeyCountAssumption DEF Idle, Scans, Lapping

LEMMA FinishOK == ASSUME ScansInv, NEW r \in Reqs, Finish(r) PROVE ScansInv'
BY IdleOK DEF Finish, ScansInv

\* a fresh lap, of the first kind or a later one
LEMMA FreshOK ==
  ASSUME NEW only \in BOOLEAN
  PROVE  /\ [Idle EXCEPT !.onlyCandidate = only] \in Scans
         /\ [Idle EXCEPT !.onlyCandidate = only].sent = 0
         /\ [Idle EXCEPT !.onlyCandidate = only].tried = {}
         /\ [Idle EXCEPT !.onlyCandidate = only].lap = 1
         /\ [Idle EXCEPT !.onlyCandidate = only, !.lap = 2] \in Scans
         /\ [Idle EXCEPT !.onlyCandidate = only, !.lap = 2].sent = 0
         /\ [Idle EXCEPT !.onlyCandidate = only, !.lap = 2].tried = {}
<1>1. Idle \in Scans /\ Idle.sent = 0 /\ Idle.tried = {} /\ Idle.lap = 1
  BY IdleOK DEF Idle
<1>2. [Idle EXCEPT !.onlyCandidate = only] \in Scans
  BY <1>1 DEF Scans
<1>3. [Idle EXCEPT !.onlyCandidate = only, !.lap = 2] \in Scans
  <2>1. \A i \in Scans : [i EXCEPT !.onlyCandidate = only, !.lap = 2] \in Scans
    <3>1. 2 \in 1..2
      OBVIOUS
    <3> QED
      BY <3>1 DEF Scans
  <2> QED
    BY <1>1, <2>1
<1> QED
  BY <1>1, <1>2, <1>3 DEF Scans

LEMMA GoOnOK ==
  ASSUME ScansInv, NEW r \in Reqs, NEW s \in Scans, Lapping(s, cursor), s.waiting, GoOn(r, s)
  PROVE  ScansInv'
<1>1. CASE ~LapDone(s) /\ SendWith(r, s, cursor)
  <2>1. s.sent < KeyCount /\ s.sent > 0 /\ s.sent \in Nat
    BY <1>1, KeyCountAssumption DEF LapDone, Lapping, Scans
  <2> QED
    BY <1>1, <2>1, SendOK DEF ScansInv, Lapping
<1>2. CASE SendWith(r, [Idle EXCEPT !.onlyCandidate = s.onlyCandidate, !.lap = 2], LapStart)
  <2> DEFINE fresh == [Idle EXCEPT !.onlyCandidate = s.onlyCandidate, !.lap = 2]
  <2>1. s.onlyCandidate \in BOOLEAN
    BY DEF Scans
  <2>2. fresh \in Scans /\ fresh.sent = 0 /\ fresh.tried = {}
    BY <2>1, FreshOK
  <2>3. LapStart \in Keys /\ LapStart = 0 /\ 0 < KeyCount
    BY KeyCountAssumption DEF LapStart, Keys
  <2>4. SendWith(r, fresh, LapStart)
    BY <1>2
  <2> HIDE DEF fresh
  <2> QED
    BY <2>2, <2>3, <2>4, SendOK
<1>3. CASE Finish(r)
  BY <1>3, FinishOK
<1> QED
  BY <1>1, <1>2, <1>3 DEF GoOn

LEMMA ScansNext == ScansInv /\ [Next]_vars => ScansInv'
<1> SUFFICES ASSUME ScansInv, [Next]_vars PROVE ScansInv'
  OBVIOUS
<1>1. ASSUME NEW r \in Reqs, Begin(r) PROVE ScansInv'
  <2>1. PICK only \in BOOLEAN : SendWith(r, [Idle EXCEPT !.onlyCandidate = only], cursor)
    BY <1>1 DEF Begin
  <2> DEFINE fresh == [Idle EXCEPT !.onlyCandidate = only]
  <2>2. fresh \in Scans /\ fresh.sent = 0 /\ fresh.tried = {} /\ fresh.lap = 1
    BY FreshOK
  <2>3. SendWith(r, fresh, cursor) /\ cursor \in Keys /\ 0 < KeyCount
    BY <2>1, KeyCountAssumption DEF ScansInv
  <2> HIDE DEF fresh
  <2> QED
    BY <2>2, <2>3, SendOK
<1>2. ASSUME NEW r \in Reqs, Settled(r) \/ Abort(r) PROVE ScansInv'
  BY <1>2, FinishOK DEF Settled, Abort
<1>3. ASSUME NEW r \in Reqs, Refused(r) PROVE ScansInv'
  <2> DEFINE s == [scan[r] EXCEPT !.switchable = TRUE]
  <2>1. scan[r] \in Scans /\ Lapping(scan[r], cursor) /\ scan[r].waiting
    BY <1>3 DEF ScansInv, Refused
  <2>2. s \in Scans /\ Lapping(s, cursor) /\ s.waiting
    BY <2>1 DEF Scans, Lapping
  <2>3. GoOn(r, s)
    BY <1>3 DEF Refused
  <2> HIDE DEF s
  <2> QED
    BY <2>2, <2>3, GoOnOK
<1>4. ASSUME NEW r \in Reqs, Unreachable(r) PROVE ScansInv'
  BY <1>4, GoOnOK DEF Unreachable, ScansInv
<1>5. CASE UNCHANGED vars
  BY <1>5 DEF vars, ScansInv
<1> QED
  BY <1>1, <1>2, <1>3, <1>4, <1>5 DEF Next, Answered

-----------------------------------------------------------------------------
(* Races.                                                                  *)
Races == [pc : {"idle", "racing", "given"}, said : [Keys -> Verdicts \cup {"none", "error"}],
          open : SUBSET Keys, stopped : SUBSET Keys, winner : Keys \cup {NoOne}]

HasWinner(s) == s.winner # NoOne

(* While a race runs, the first 2xx is the winner's, and without one every *)
(* response is still open.                                                 *)
Undecided(s) ==
  /\ HasWinner(s) => s.winner \in s.open /\ s.said[s.winner] = "ok"
  /\ ~HasWinner(s) => s.open = {k \in Keys : s.said[k] \in {"auth", "other"}}
  /\ ~HasWinner(s) => \A k \in Keys : s.said[k] # "ok"

(* Afterwards only a winner's race still has fetches under way.            *)
Decided(s) ==
  /\ s.open = {s.winner} \ {NoOne}
  /\ Flying(s) \subseteq s.stopped
  /\ Flying(s) # {} => HasWinner(s) /\ s.said[s.winner] = "ok"
  /\ \A k \in Keys :
       /\ s.said[k] = "ok" => HasWinner(s) /\ s.said[s.winner] = "ok"
       /\ s.said[k] = "other" => HasWinner(s) /\ s.said[s.winner] # "auth"
       /\ s.said[k] = "auth" => HasWinner(s)

Runs(s) ==
  /\ s.pc = "racing" => Undecided(s)
  /\ s.pc = "given" => Decided(s)

RaceInv ==
  /\ strategy \in {"race", "rotate-429"}
  /\ race \in [Reqs -> Races]
  /\ \A r \in Reqs : Runs(race[r])

LEMMA StartOK ==
  /\ NotRacing \in Races /\ Runs(NotRacing)
  /\ [NotRacing EXCEPT !.pc = "racing"] \in Races
  /\ Runs([NotRacing EXCEPT !.pc = "racing"])
<1>1. /\ NotRacing \in Races /\ NotRacing.pc = "idle" /\ NotRacing.winner = NoOne
      /\ NotRacing.open = {} /\ \A k \in Keys : NotRacing.said[k] = "none"
  BY DEF NotRacing, Races, Verdicts
<1> DEFINE t == [NotRacing EXCEPT !.pc = "racing"]
<1>2. /\ t \in Races /\ t.pc = "racing" /\ t.winner = NotRacing.winner
      /\ t.open = NotRacing.open /\ t.said = NotRacing.said
  BY <1>1 DEF Races
<1> HIDE DEF t
<1>3. Undecided(t)
  BY <1>1, <1>2 DEF Undecided, HasWinner
<1>4. Runs(t)
  BY <1>2, <1>3 DEF Runs
<1>5. Runs(NotRacing)
  BY <1>1 DEF Runs
<1> QED
  BY <1>1, <1>2, <1>4, <1>5 DEF t

\* what k said becomes a; a response that nobody waits for is not kept open
LEMMA SaidOK ==
  ASSUME NEW s \in Races, Runs(s), s.pc # "idle", NEW k \in Flying(s),
         NEW a \in Verdicts \cup {"error"}, NEW t,
         t = IF a = "error" THEN [s EXCEPT !.said[k] = a]
             ELSE [s EXCEPT !.said[k] = a, !.open = OpenWith(s, k), !.winner = WinnerWith(s, k, a)]
  PROVE  t \in Races /\ Runs(t)
<1>1. /\ k \in Keys /\ s.said[k] = "none" /\ NoOne \notin Keys /\ s.open \subseteq Keys
      /\ s.winner \in Keys \cup {NoOne} /\ s.said \in [Keys -> Verdicts \cup {"none", "error"}]
  BY NoOneAssumption DEF Flying, Races
<1>2. /\ t.pc = s.pc /\ t.stopped = s.stopped /\ t.said = [s.said EXCEPT ![k] = a]
      /\ t.open = IF a = "error" THEN s.open ELSE OpenWith(s, k)
      /\ t.winner = IF a = "error" THEN s.winner ELSE WinnerWith(s, k, a)
  BY DEF Races
<1>3. t \in Races
  <2>1. OpenWith(s, k) \in SUBSET Keys /\ WinnerWith(s, k, a) \in Keys \cup {NoOne}
    BY <1>1 DEF OpenWith, WinnerWith
  <2>2. [s.said EXCEPT ![k] = a] \in [Keys -> Verdicts \cup {"none", "error"}]
    BY <1>1
  <2> QED
    BY <2>1, <2>2 DEF Races
<1>4. \A j \in Keys : t.said[j] = IF j = k THEN a ELSE s.said[j]
  BY <1>1, <1>2
<1>5. Flying(t) = Flying(s) \ {k}
  BY <1>4 DEF Flying, Verdicts
<1>6. CASE s.pc = "racing"
  <2>1. Undecided(s)
    BY <1>6 DEF Runs
  <2>2. Undecided(t)
    <3>1. CASE HasWinner(s)
      BY <1>1, <1>2, <1>4, <2>1, <3>1 DEF Undecided, HasWinner, OpenWith, WinnerWith, Verdicts
    <3>2. CASE ~HasWinner(s) /\ a = "ok"
      BY <1>1, <1>2, <1>4, <2>1, <3>2 DEF Undecided, HasWinner, OpenWith, WinnerWith, Verdicts
    <3>3. CASE ~HasWinner(s) /\ a # "ok"
      <4>1. t.winner = NoOne
        BY <1>2, <3>3 DEF HasWinner, WinnerWith
      <4>2. t.open = {j \in Keys : t.said[j] \in {"auth", "other"}}
        BY <1>1, <1>2, <1>4, <2>1, <3>3 DEF Undecided, HasWinner, OpenWith, Verdicts
      <4>3. \A j \in Keys : t.said[j] # "ok"
        BY <1>4, <2>1, <3>3 DEF Undecided
      <4> QED
        BY <4>1, <4>2, <4>3 DEF Undecided, HasWinner
    <3> QED
      BY <3>1, <3>2, <3>3
  <2> QED
    BY <1>2, <1>3, <1>6, <2>2 DEF Runs
<1>7. CASE s.pc = "given"
  <2>1. Decided(s)
    BY <1>7 DEF Runs
  <2>2. HasWinner(s) /\ s.said[s.winner] = "ok"
    BY <2>1 DEF Decided
  <2>3. t.winner = s.winner /\ t.open = s.open
    BY <1>2, <2>2 DEF HasWinner, OpenWith, WinnerWith
  <2>4. t.said[t.winner] = "ok"
    BY <1>1, <1>4, <2>2, <2>3 DEF HasWinner
  <2>5. Decided(t)
    BY <1>2, <1>5, <2>1, <2>2, <2>3, <2>4 DEF Decided, HasWinner
  <2> QED
    BY <1>2, <1>3, <1>7, <2>5 DEF Runs
<1> QED
  BY <1>3, <1>6, <1>7 DEF Races

\* the race goes on with the response of k, or with none
LEMMA GivenOK ==
  ASSUME NEW s \in Races, Runs(s), s.pc = "racing", Woken(s)
  PROVE  /\ \A k \in Kept(s) : LET t == [s EXCEPT !.pc = "given", !.winner = k, !.open = {k},
                                                  !.stopped = Keys \ {k}]
                               IN t \in Races /\ Runs(t)
         /\ Kept(s) = {} => [s EXCEPT !.pc = "given"] \in Races /\ Runs([s EXCEPT !.pc = "given"])
<1>1. Undecided(s) /\ NoOne \notin Keys /\ s.open \subseteq Keys
  BY NoOneAssumption DEF Runs, Races
<1>2. ASSUME NEW k \in Kept(s), NEW t,
             t = [s EXCEPT !.pc = "given", !.winner = k, !.open = {k}, !.stopped = Keys \ {k}]
      PROVE  t \in Races /\ Runs(t)
  <2>1. k \in Keys /\ k \in s.open
    BY <1>1 DEF Kept, Undecided, HasWinner
  <2>2. /\ t.pc = "given" /\ t.winner = k /\ t.open = {k} /\ t.stopped = Keys \ {k}
        /\ t.said = s.said /\ t \in Races
    BY <1>2, <2>1 DEF Races
  <2>3. CASE HasWinner(s)
    <3>1. k = s.winner /\ t.said[k] = "ok"
      BY <1>1, <2>2, <2>3 DEF Kept, Undecided, HasWinner
    <3>2. Decided(t)
      BY <1>1, <2>1, <2>2, <3>1 DEF Decided, HasWinner, Flying
    <3> QED
      BY <2>2, <3>2 DEF Runs
  <2>4. CASE ~HasWinner(s)
    <3>1. Flying(t) = {}
      BY <2>2, <2>4 DEF Woken, HasWinner, Flying
    <3>2. \A j \in Keys : t.said[j] # "ok"
      BY <1>1, <2>2, <2>4 DEF Undecided
    <3>3. \A j \in Keys : t.said[j] = "other" => t.said[k] # "auth"
      BY <1>1, <2>2, <2>4 DEF Undecided, Kept, HasWinner
    <3>4. Decided(t)
      BY <1>1, <2>1, <2>2, <3>1, <3>2, <3>3 DEF Decided, HasWinner
    <3> QED
      BY <2>2, <3>4 DEF Runs
  <2> QED
    BY <2>3, <2>4
<1>3. ASSUME NEW t, t = [s EXCEPT !.pc = "given"], Kept(s) = {}
      PROVE  t \in Races /\ Runs(t)
  <2>1. /\ t.pc = "given" /\ t.winner = s.winner /\ t.open = s.open /\ t.said = s.said
        /\ t.stopped = s.stopped /\ t \in Races
    BY <1>3 DEF Races
  <2>2. ~HasWinner(s) /\ s.open = {}
    BY <1>3 DEF Kept, HasWinner
  <2>3. Flying(t) = {} /\ \A j \in Keys : t.said[j] \notin {"ok", "auth", "other"}
    BY <1>1, <2>1, <2>2 DEF Undecided, Woken, HasWinner, Flying
  <2>4. Decided(t)
    BY <2>1, <2>2, <2>3 DEF Decided, HasWinner
  <2> QED
    BY <2>1, <2>4 DEF Runs
<1> QED
  BY <1>2, <1>3

LEMMA BecomesOK ==
  ASSUME RaceInv, NEW r \in Reqs, NEW t \in Races, Runs(t), Becomes(r, t)
  PROVE  RaceInv'
BY DEF RaceInv, Becomes

LEMMA RaceNext == RaceInv /\ [KeysNext]_keysVars => RaceInv'
<1> SUFFICES ASSUME RaceInv, [KeysNext]_keysVars PROVE RaceInv'
  OBVIOUS
<1>1. ASSUME NEW r \in Reqs, RotationStep(r) PROVE RaceInv'
  BY <1>1 DEF RotationStep, RaceInv
<1>2. ASSUME NEW r \in Reqs, RaceStarts(r) \/ RaceIsOver(r) PROVE RaceInv'
  BY <1>2, StartOK, BecomesOK DEF RaceStarts, RaceIsOver
<1>3. ASSUME NEW r \in Reqs, Responds(r) PROVE RaceInv'
  <2>1. PICK k \in Flying(race[r]), a \in Verdicts :
          Becomes(r, [race[r] EXCEPT !.said[k] = a, !.open = OpenWith(race[r], k),
                                     !.winner = WinnerWith(race[r], k, a)])
    BY <1>3 DEF Responds
  <2>2. race[r] \in Races /\ Runs(race[r]) /\ race[r].pc # "idle" /\ a # "error"
    BY <1>3 DEF Responds, RaceInv, Verdicts
  <2> DEFINE t == [race[r] EXCEPT !.said[k] = a, !.open = OpenWith(race[r], k),
                                  !.winner = WinnerWith(race[r], k, a)]
  <2>3. t \in Races /\ Runs(t)
    BY <2>2, SaidOK
  <2> QED
    BY <2>1, <2>3, BecomesOK
<1>4. ASSUME NEW r \in Reqs, FetchFails(r) PROVE RaceInv'
  <2>1. PICK k \in Flying(race[r]) : Becomes(r, [race[r] EXCEPT !.said[k] = "error"])
    BY <1>4 DEF FetchFails
  <2>2. race[r] \in Races /\ Runs(race[r]) /\ race[r].pc # "idle"
    BY <1>4 DEF FetchFails, RaceInv
  <2> DEFINE t == [race[r] EXCEPT !.said[k] = "error"]
  <2>3. t \in Races /\ Runs(t)
    BY <2>2, SaidOK
  <2> QED
    BY <2>1, <2>3, BecomesOK
<1>5. ASSUME NEW r \in Reqs, RaceGoesOn(r) PROVE RaceInv'
  <2>1. race[r] \in Races /\ Runs(race[r]) /\ race[r].pc = "racing" /\ Woken(race[r])
    BY <1>5 DEF RaceGoesOn, RaceInv
  <2>2. CASE Kept(race[r]) = {} /\ Becomes(r, [race[r] EXCEPT !.pc = "given"])
    BY <2>1, <2>2, GivenOK, BecomesOK
  <2>3. ASSUME NEW k \in Kept(race[r]),
               Becomes(r, [race[r] EXCEPT !.pc = "given", !.winner = k, !.open = {k},
                                          !.stopped = Keys \ {k}])
        PROVE  RaceInv'
    <3> DEFINE t == [race[r] EXCEPT !.pc = "given", !.winner = k, !.open = {k},
                                    !.stopped = Keys \ {k}]
    <3>1. t \in Races /\ Runs(t)
      BY <2>1, GivenOK
    <3> QED
      BY <2>3, <3>1, BecomesOK
  <2> QED
    BY <1>5, <2>2, <2>3 DEF RaceGoesOn
<1>6. CASE UNCHANGED keysVars
  BY <1>6 DEF keysVars, RaceInv
<1> QED
  BY <1>1, <1>2, <1>3, <1>4, <1>5, <1>6 DEF KeysNext, Racing

-----------------------------------------------------------------------------
(* The inductive invariant of the scans over the one ring cursor           *)
(* (rotate429Upstream(), lib/proxy.mjs).                                   *)
THEOREM ScansSafe == Spec => []ScansInv
<1>1. Init => ScansInv
  BY IdleOK DEF Init, ScansInv
<1> QED
  BY <1>1, ScansNext, PTL DEF Spec

(* A channel under either strategy moves its cursor and its scans only as  *)
(* rotate-429 does.                                                        *)
THEOREM KeysRotate == KeysSpec => Spec
<1>1. KeysInit => Init
  BY DEF KeysInit
<1>2. [KeysNext]_keysVars => [Next]_vars
  <2> SUFFICES ASSUME [KeysNext]_keysVars PROVE [Next]_vars
    OBVIOUS
  <2>1. ASSUME NEW r \in Reqs, RotationStep(r) PROVE Next
    BY <2>1 DEF RotationStep, Next
  <2>2. ASSUME NEW r \in Reqs, RaceStarts(r) \/ Racing(r) \/ RaceGoesOn(r) \/ RaceIsOver(r)
        PROVE  UNCHANGED vars
    BY <2>2 DEF RaceStarts, Racing, Responds, FetchFails, RaceGoesOn, RaceIsOver, Becomes
  <2>3. CASE UNCHANGED keysVars
    BY <2>3 DEF keysVars
  <2> QED
    BY <2>1, <2>2, <2>3 DEF KeysNext
<1> QED
  BY <1>1, <1>2, PTL DEF KeysSpec, Spec

(* The type invariant, and: a lap that no other scan came into is over     *)
(* only when it has sent with every key; a later lap begins at key 0.      *)
THEOREM LapIsFull == KeysSpec => []UndisturbedLapIsFull
<1>1. ScansInv => UndisturbedLapIsFull
  <2> SUFFICES ASSUME ScansInv PROVE UndisturbedLapIsFull
    OBVIOUS
  <2>1. TypeOK
    BY DEF ScansInv, TypeOK, Scans
  <2>2. ASSUME NEW r \in Reqs, scan[r].alone, LapDone(scan[r]) PROVE scan[r].tried = Keys
    <3>1. scan[r].waiting
      BY <2>2, KeyCountAssumption DEF ScansInv, Lapping, LapDone, Scans
    <3>2. scan[r].tried = {k \in Keys : Back(k, cursor) <= KeyCount}
      BY <2>2, <3>1 DEF ScansInv, Lapping, LapDone
    <3>3. \A k \in Keys : Back(k, cursor) <= KeyCount
      BY BackNext DEF ScansInv
    <3> QED
      BY <3>2, <3>3
  <2> QED
    BY <2>1, <2>2 DEF ScansInv, Lapping, UndisturbedLapIsFull
<1> QED
  BY <1>1, ScansSafe, KeysRotate, PTL

(* Of all the answers to a race the best one is kept, and of all its       *)
(* fetches nothing else, in whatever order they end (raceUpstream(),       *)
(* lib/proxy.mjs).                                                         *)
THEOREM RaceIsClean == KeysSpec => []RaceKeepsTheBest
<1>1. KeysInit => RaceInv
  BY StartOK DEF KeysInit, RaceInv
<1>2. RaceInv => RaceKeepsTheBest
  BY DEF RaceInv, Runs, Races, Decided, HasWinner, RaceKeepsTheBest, RaceTypeOK
<1> QED
  BY <1>1, <1>2, RaceNext, PTL DEF KeysSpec

-----------------------------------------------------------------------------
(* Induction and recursion over the natural numbers, for sets and          *)
(* functions.                                                              *)

\* a set of numbers has a least one
LEMMA Least ==
  ASSUME NEW T, T \subseteq Nat, T # {}
  PROVE  \E n \in T : \A m \in T : n <= m
<1> DEFINE R == OpToRel(<, Nat)
<1>1. IsWellFoundedOn(R, Nat)
  BY NatLessThanWellFounded
<1>2. \A i, j \in Nat : i < j => <<i, j>> \in R
  BY DEF OpToRel
<1> HIDE DEF R
<1>3. PICK n \in T : \A m \in T : ~(<<m, n>> \in R)
  BY <1>1, WFMin
<1>4. ASSUME NEW m \in T PROVE n <= m
  <2>1. m \in Nat /\ n \in Nat /\ ~(m < n)
    BY <1>2, <1>3
  <2> QED
    BY <2>1
<1> QED
  BY <1>4

\* what holds of 0, and of n + 1 if it holds of n, holds of every number
LEMMA Induction ==
  ASSUME NEW T, 0 \in T, \A n \in Nat : n \in T => n + 1 \in T
  PROVE  \A n \in Nat : n \in T
<1> DEFINE U == Nat \ T
<1> SUFFICES ASSUME U # {} PROVE FALSE
  OBVIOUS
<1>1. PICK n \in U : \A m \in U : n <= m
  <2>1. U \subseteq Nat
    OBVIOUS
  <2> HIDE DEF U
  <2> QED
    BY <2>1, Least
<1>2. n # 0 /\ n - 1 \in Nat /\ (n - 1) + 1 = n /\ ~(n <= n - 1)
  OBVIOUS
<1>3. n - 1 \in U
  BY <1>2
<1> QED
  BY <1>1, <1>2, <1>3

\* f is defined step by step, up to k
Defined(f, x0, step, k) == f[0] = x0 /\ \A i \in 1..k : f[i] = step[i][f[i - 1]]

\* the same as a recursive function
Recursive(f, x0, step, n) == f = [i \in 0..n |-> IF i = 0 THEN x0 ELSE step[i][f[i - 1]]]

\* such a function exists
LEMMA Recursion ==
  ASSUME NEW X, NEW x0 \in X, NEW n \in Nat, NEW step \in [1..n -> [X -> X]]
  PROVE  \E f \in [0..n -> X] : Recursive(f, x0, step, n)
<1> DEFINE P(k) == k <= n => \E f \in [0..k -> X] : Defined(f, x0, step, k)
           T == {k \in Nat : P(k)}
<1>1. P(0)
  <2> DEFINE f == [i \in 0..0 |-> x0]
  <2>1. f \in [0..0 -> X] /\ Defined(f, x0, step, 0)
    BY DEF Defined
  <2> QED
    BY <2>1
<1>2. ASSUME NEW k \in Nat, P(k) PROVE P(k + 1)
  <2> SUFFICES ASSUME k + 1 <= n
               PROVE  \E g \in [0..(k + 1) -> X] : Defined(g, x0, step, k + 1)
    OBVIOUS
  <2>1. k \in 0..n /\ k + 1 \in 1..n /\ k <= n
    OBVIOUS
  <2>2. PICK f \in [0..k -> X] : Defined(f, x0, step, k)
    BY <1>2, <2>1
  <2>3. f[k] \in X
    OBVIOUS
  <2>4. PICK y \in X : y = step[k + 1][f[k]]
    BY <2>1, <2>3
  <2> DEFINE g == [i \in 0..(k + 1) |-> IF i <= k THEN f[i] ELSE y]
  <2>5. g \in [0..(k + 1) -> X]
    OBVIOUS
  <2>6. \A i \in 0..k : g[i] = f[i]
    OBVIOUS
  <2>7. g[k + 1] = y
    OBVIOUS
  <2> HIDE DEF g
  <2>8. g[0] = x0
    <3>1. 0 \in 0..k
      OBVIOUS
    <3>2. f[0] = x0
      BY <2>2 DEF Defined
    <3> QED
      BY <2>6, <3>1, <3>2
  <2>9. ASSUME NEW i \in 1..(k + 1) PROVE g[i] = step[i][g[i - 1]]
    <3>1. CASE i = k + 1
      <4>1. i - 1 = k /\ k \in 0..k
        BY <3>1
      <4> QED
        BY <2>4, <2>6, <2>7, <3>1, <4>1
    <3>2. CASE i # k + 1
      <4>1. i \in 1..k /\ i \in 0..k /\ i - 1 \in 0..k
        BY <3>2
      <4> QED
        BY <2>2, <2>6, <4>1 DEF Defined
    <3> QED
      BY <3>1, <3>2
  <2> QED
    BY <2>5, <2>8, <2>9 DEF Defined
<1> HIDE DEF P
<1>3. n \in T
  <2>1. 0 \in T /\ \A k \in Nat : k \in T => k + 1 \in T
    BY <1>1, <1>2
  <2> HIDE DEF T
  <2> QED
    BY <2>1, Induction
<1>4. PICK f \in [0..n -> X] : Defined(f, x0, step, n)
  BY <1>3 DEF P
<1> DEFINE g == [i \in 0..n |-> IF i = 0 THEN x0 ELSE step[i][f[i - 1]]]
<1>5. ASSUME NEW i \in 0..n PROVE f[i] = g[i]
  <2>1. CASE i = 0
    BY <1>4, <2>1 DEF Defined
  <2>2. CASE i # 0
    <3>1. i \in 1..n
      BY <2>2
    <3>2. f[i] = step[i][f[i - 1]]
      BY <1>4, <3>1 DEF Defined
    <3> QED
      BY <2>2, <3>2
  <2> QED
    BY <2>1, <2>2
<1>6. f = [i \in 0..n |-> f[i]] /\ g = [i \in 0..n |-> g[i]]
  OBVIOUS
<1>7. f = g
  <2> HIDE DEF g
  <2>1. [i \in 0..n |-> f[i]] = [i \in 0..n |-> g[i]]
    BY <1>5
  <2> QED
    BY <1>6, <2>1
<1> QED
  BY <1>7 DEF Recursive

-----------------------------------------------------------------------------
(* Sequences and sets of channels.                                         *)

\* what is kept is among what was there
LEMMA AmongFacts ==
  ASSUME NEW X, NEW s \in Seq(X), NEW S
  PROVE  Among(s, S) \in Seq(X \cap S)
<1> DEFINE n == Len(s)
           Y == Seq(X \cap S)
           step == [i \in 1..n |-> [t \in Y |-> IF s[i] \in S THEN Append(t, s[i]) ELSE t]]
           Def(g) == [i \in 0..n |-> IF i = 0 THEN <<>>
                                     ELSE IF s[i] \in S THEN Append(g[i - 1], s[i])
                                     ELSE g[i - 1]]
           kept == CHOOSE g : g = Def(g)
<1>1. n \in Nat /\ \A i \in 1..n : s[i] \in X
  OBVIOUS
<1>2. <<>> \in Y
  OBVIOUS
<1>3. step \in [1..n -> [Y -> Y]]
  <2> SUFFICES ASSUME NEW i \in 1..n, NEW t \in Y
               PROVE  (IF s[i] \in S THEN Append(t, s[i]) ELSE t) \in Y
    OBVIOUS
  <2> QED
    BY <1>1
<1> HIDE DEF n, Y
<1>4. PICK f \in [0..n -> Y] : Recursive(f, <<>>, step, n)
  <2> HIDE DEF step
  <2>1. n \in Nat
    BY <1>1
  <2> QED
    BY <1>2, <1>3, <2>1, Recursion
<1>5. f = Def(f)
  <2>1. \A i \in 1..n : f[i - 1] \in Y
    BY <1>1
  <2>2. \A i \in 0..n : (IF i = 0 THEN <<>> ELSE step[i][f[i - 1]])
                          = IF i = 0 THEN <<>>
                            ELSE IF s[i] \in S THEN Append(f[i - 1], s[i])
                            ELSE f[i - 1]
    BY <1>1, <2>1
  <2> QED
    BY <1>4, <2>2 DEF Recursive
<1>6. kept = Def(kept)
  <2> HIDE DEF Def
  <2> QED
    BY <1>5
<1> HIDE DEF kept
<1>7. \A i \in 0..n : kept[i] = IF i = 0 THEN <<>>
                                ELSE IF s[i] \in S THEN Append(kept[i - 1], s[i])
                                ELSE kept[i - 1]
  BY <1>6
<1> DEFINE T == {i \in Nat : i <= n => kept[i] \in Y}
<1>8. 0 \in T
  BY <1>1, <1>2, <1>7
<1>9. ASSUME NEW i \in Nat, i \in T PROVE i + 1 \in T
  <2> SUFFICES ASSUME i + 1 <= n PROVE kept[i + 1] \in Y
    BY <1>9
  <2>1. /\ i + 1 \in 1..n /\ i + 1 \in 0..n /\ (i + 1) - 1 = i /\ kept[i] \in Y
    BY <1>1, <1>9
  <2>2. kept[i + 1] = IF s[i + 1] \in S THEN Append(kept[i], s[i + 1]) ELSE kept[i]
    BY <1>7, <2>1
  <2> QED
    BY <1>1, <2>1, <2>2 DEF Y
<1>10. n \in T
  <2> HIDE DEF T
  <2> QED
    BY <1>1, <1>8, <1>9, Induction
<1>11. Among(s, S) = kept[n]
  BY DEF Among, kept, n
<1> QED
  BY <1>1, <1>10, <1>11 DEF Y

\* the least of two numbers
LEMMA LeastOfTwo ==
  ASSUME NEW m \in Nat, NEW n \in Nat
  PROVE  Min({m, n}) = IF m <= n THEN m ELSE n
<1> DEFINE k == IF m <= n THEN m ELSE n
<1>1. k \in {m, n} /\ \A y \in {m, n} : k <= y
  OBVIOUS
<1>2. \A x \in {m, n} : (\A y \in {m, n} : x <= y) => x = k
  OBVIOUS
<1> QED
  BY <1>1, <1>2 DEF Min

LEMMA LeastMember ==
  ASSUME NEW T, T \subseteq Nat, T # {}
  PROVE  Min(T) \in T
<1>1. \E n \in T : \A m \in T : n <= m
  BY Least
<1> QED
  BY <1>1 DEF Min

LEMMA ChannelsAreFinite == IsFiniteSet(Channels)
<1> DEFINE n == Len(Listed)
<1>1. n \in Nat /\ Listed \in [1..n -> Channels] /\ DOMAIN Listed = 1..n
  BY ListedAssumption
<1>2. IsFiniteSet(1..n)
  BY <1>1, FS_Interval
<1>3. \A c \in Channels : \E i \in 1..n : Listed[i] = c
  BY <1>1 DEF Channels, ToSet
<1> HIDE DEF n
<1>4. Listed \in Surjection(1..n, Channels)
  BY <1>1, <1>3, Fun_IsSurj
<1> QED
  BY <1>2, <1>4, FS_Surjection

\* s lists the members of S
Lists(s, S) == s \in Seq(S) /\ \A c \in S : \E i \in DOMAIN s : s[i] = c

LEMMA ListsFacts ==
  ASSUME NEW s, NEW S, Lists(s, S)
  PROVE  ToSet(s) = S /\ (s = <<>> <=> S = {})
<1>1. s \in Seq(S) /\ DOMAIN s = 1..Len(s) /\ Len(s) \in Nat
  BY DEF Lists
<1>2. \A i \in DOMAIN s : s[i] \in S
  BY <1>1
<1>3. ToSet(s) = S
  BY <1>2 DEF Lists, ToSet
<1>4. ASSUME s # <<>> PROVE S # {}
  <2>1. Len(s) \in Nat \ {0}
    BY <1>1, <1>4, EmptySeq
  <2>2. 1 \in DOMAIN s
    BY <1>1, <2>1
  <2> QED
    BY <1>2, <2>2
<1>5. ASSUME s = <<>> PROVE S = {}
  <2>1. DOMAIN s = {}
    BY <1>5
  <2> QED
    BY <2>1 DEF Lists
<1> QED
  BY <1>3, <1>4, <1>5

\* SetToSeqs() gives lists of the set, each as long as the set is large
LEMMA SequencesOfASet ==
  ASSUME NEW S, IsFiniteSet(S), NEW s \in SetToSeqs(S)
  PROVE  Lists(s, S) /\ Len(s) = Cardinality(S)
<1> DEFINE n == Cardinality(S)
<1>1. n \in Nat
  BY FS_CardinalityType
<1> HIDE DEF n
<1>2. s \in [1..n -> S] /\ \A i, j \in 1..n : i # j => s[i] # s[j]
  BY DEF SetToSeqs, n
<1>3. s \in Injection(1..n, S)
  BY <1>2, Fun_IsInj
<1>4. IsFiniteSet(1..n) /\ Cardinality(1..n) = n
  BY <1>1, FS_Interval
<1>5. s \in Surjection(1..n, S)
  <2>1. Cardinality(1..n) = Cardinality(S)
    BY <1>4 DEF n
  <2> QED
    BY <1>3, <2>1, FS_Injection
<1>6. \A c \in S : \E i \in 1..n : s[i] = c
  BY <1>5 DEF Surjection
<1>7. s \in Seq(S) /\ Len(s) = n
  BY <1>1, <1>2
<1> QED
  BY <1>2, <1>6, <1>7 DEF Lists, n

LEMMA ConcatenationLists ==
  ASSUME NEW s, NEW S, NEW t, NEW T, Lists(s, S), Lists(t, T)
  PROVE  Lists(s \o t, S \cup T)
<1> DEFINE U == S \cup T
<1>1. s \in Seq(U) /\ t \in Seq(U)
  <2>1. s \in Seq(S) /\ t \in Seq(T) /\ S \subseteq U /\ T \subseteq U
    BY DEF Lists
  <2> HIDE DEF U
  <2> QED
    BY <2>1, SeqMonotonic
<1>2. /\ DOMAIN s = 1..Len(s) /\ Len(s) \in Nat
      /\ DOMAIN t = 1..Len(t) /\ Len(t) \in Nat
  BY <1>1
<1> HIDE DEF U
<1>3. /\ s \o t \in Seq(U) /\ Len(s \o t) = Len(s) + Len(t)
      /\ \A i \in 1..Len(s) + Len(t) : (s \o t)[i] = IF i <= Len(s) THEN s[i] ELSE t[i - Len(s)]
  BY <1>1, ConcatProperties
<1>4. DOMAIN (s \o t) = 1..Len(s) + Len(t)
  BY <1>3
<1>5. ASSUME NEW c \in U PROVE \E i \in DOMAIN (s \o t) : (s \o t)[i] = c
  <2>1. CASE c \in S
    <3>1. PICK i \in 1..Len(s) : s[i] = c
      BY <1>2, <2>1 DEF Lists
    <3>2. i \in 1..Len(s) + Len(t) /\ i <= Len(s)
      BY <1>2
    <3>3. (s \o t)[i] = c
      BY <1>3, <3>1, <3>2
    <3> QED
      BY <1>4, <3>2, <3>3
  <2>2. CASE c \in T
    <3>1. PICK i \in 1..Len(t) : t[i] = c
      BY <1>2, <2>2 DEF Lists
    <3> DEFINE k == Len(s) + i
    <3>2. k \in 1..Len(s) + Len(t) /\ ~(k <= Len(s)) /\ k - Len(s) = i
      BY <1>2
    <3> HIDE DEF k
    <3>3. (s \o t)[k] = c
      BY <1>3, <3>1, <3>2
    <3> QED
      BY <1>4, <3>2, <3>3
  <2> QED
    BY <2>1, <2>2 DEF U
<1> QED
  BY <1>3, <1>5 DEF Lists, U

-----------------------------------------------------------------------------
(* The order of a list.                                                    *)

\* a channel that cools is followed by none that could be tried
Ranked(s) ==
  \A i, j \in DOMAIN s :
    i < j /\ coolingDown(s[i]) => coolingDown(s[j]) \/ halfOpenSaturated(s[j])

LEMMA RowIsRanked ==
  ASSUME NEW S, NEW a, NEW b, NEW c,
         Lists(a, Live(S)), Lists(b, Cooling(S)), Lists(c, Saturated(S))
  PROVE  Lists(a \o b \o c, S) /\ Ranked(a \o b \o c)
<1> DEFINE t == b \o c
           s == a \o t
<1>1. /\ a \in Seq(S) /\ b \in Seq(S) /\ c \in Seq(S)
      /\ Cooling(S) \cup Saturated(S) \subseteq S
      /\ Live(S) \cup (Cooling(S) \cup Saturated(S)) = S
  <2>1. Live(S) \subseteq S /\ Cooling(S) \subseteq S /\ Saturated(S) \subseteq S
    BY DEF Live, Cooling, Saturated
  <2>2. Live(S) \cup (Cooling(S) \cup Saturated(S)) = S
    BY <2>1 DEF Live
  <2> QED
    BY <2>1, <2>2, SeqMonotonic DEF Lists
<1>2. a \o b \o c = s
  BY <1>1, ConcatAssociative
<1>3. Lists(t, Cooling(S) \cup Saturated(S))
  BY ConcatenationLists
<1>4. Lists(s, S)
  <2> HIDE DEF t
  <2> QED
    BY <1>1, <1>3, ConcatenationLists
<1>5. /\ t \in Seq(S) /\ Len(a) \in Nat /\ Len(t) \in Nat
      /\ Len(s) = Len(a) + Len(t) /\ DOMAIN s = 1..Len(a) + Len(t)
      /\ \A i \in 1..Len(a) + Len(t) : s[i] = IF i <= Len(a) THEN a[i] ELSE t[i - Len(a)]
  <2>1. t \in Seq(S)
    BY <1>1, <1>3, SeqMonotonic DEF Lists
  <2> HIDE DEF t
  <2>2. /\ s \in Seq(S) /\ Len(s) = Len(a) + Len(t)
        /\ \A i \in 1..Len(a) + Len(t) : s[i] = IF i <= Len(a) THEN a[i] ELSE t[i - Len(a)]
    BY <1>1, <2>1, ConcatProperties
  <2> HIDE DEF s
  <2>3. DOMAIN s = 1..Len(s) /\ Len(a) \in Nat /\ Len(t) \in Nat
    BY <1>1, <2>1, <2>2
  <2> QED
    BY <2>1, <2>2, <2>3
<1>6. \A i \in 1..Len(a) : ~coolingDown(a[i])
  <2>1. \A i \in 1..Len(a) : a[i] \in Live(S)
    BY DEF Lists
  <2> QED
    BY <2>1 DEF Live, Cooling
<1>7. \A i \in 1..Len(t) : coolingDown(t[i]) \/ halfOpenSaturated(t[i])
  <2>1. \A i \in 1..Len(t) : t[i] \in Cooling(S) \cup Saturated(S)
    BY <1>3 DEF Lists
  <2> QED
    BY <2>1 DEF Cooling, Saturated
<1> HIDE DEF s, t
<1>8. ASSUME NEW i \in DOMAIN s, NEW j \in DOMAIN s, i < j, coolingDown(s[i])
      PROVE  coolingDown(s[j]) \/ halfOpenSaturated(s[j])
  <2>1. i \in 1..Len(a) + Len(t) /\ j \in 1..Len(a) + Len(t)
    BY <1>5
  <2>2. ~(i <= Len(a))
    <3>1. SUFFICES ASSUME i <= Len(a) PROVE FALSE
      OBVIOUS
    <3>2. i \in 1..Len(a) /\ s[i] = a[i]
      BY <1>5, <2>1, <3>1
    <3> QED
      BY <1>6, <1>8, <3>2
  <2>3. ~(j <= Len(a)) /\ j - Len(a) \in 1..Len(t)
    BY <1>5, <1>8, <2>1, <2>2
  <2>4. s[j] = t[j - Len(a)]
    BY <1>5, <2>1, <2>3
  <2> QED
    BY <1>7, <2>3, <2>4
<1> QED
  BY <1>2, <1>4, <1>8 DEF Ranked

\* without an occurrence of c
LEMMA WithoutFacts ==
  ASSUME NEW X, NEW s \in Seq(X), NEW c, Contains(s, c)
  PROVE  /\ Without(s, c) \in Seq(X) /\ Len(Without(s, c)) = Len(s) - 1
         /\ \E k \in 1..Len(s) :
              /\ s[k] = c
              /\ \A i \in 1..Len(s) - 1 : Without(s, c)[i] = IF i < k THEN s[i] ELSE s[i + 1]
<1> DEFINE k == CHOOSE i \in DOMAIN s : s[i] = c
           a == SubSeq(s, 1, k - 1)
           b == SubSeq(s, k + 1, Len(s))
           t == a \o b
<1>1. Len(s) \in Nat /\ DOMAIN s = 1..Len(s) /\ \A i \in 1..Len(s) : s[i] \in X
  OBVIOUS
<1>2. \E i \in DOMAIN s : s[i] = c
  BY <1>1 DEF Contains
<1>3. k \in DOMAIN s /\ s[k] = c
  BY <1>2
<1>4. Without(s, c) = t
  <2>1. c \in ToSet(s)
    BY <1>2 DEF ToSet
  <2> QED
    BY <2>1 DEF Without, RemoveAt
<1> HIDE DEF k
<1>5. k \in 1..Len(s) /\ k \in Int /\ k - 1 \in Int /\ k + 1 \in Int /\ 1 \in Int /\ Len(s) \in Int
  BY <1>1, <1>3
<1>6. a \in Seq(X) /\ Len(a) = k - 1 /\ \A i \in 1..k - 1 : a[i] = s[i]
  <2>1. \A i \in 1..k - 1 : i \in 1..Len(s)
    BY <1>1, <1>5
  <2>2. /\ a \in Seq(X) /\ Len(a) = IF 1 <= k - 1 THEN (k - 1) - 1 + 1 ELSE 0
        /\ \A i \in 1..(k - 1) - 1 + 1 : a[i] = s[1 + i - 1]
    BY <1>1, <1>5, <2>1, SubSeqProperties
  <2> HIDE DEF a
  <2>3. (k - 1) - 1 + 1 = k - 1 /\ \A i \in 1..k - 1 : 1 + i - 1 = i
    BY <1>5
  <2> QED
    BY <1>5, <2>2, <2>3
<1>7. b \in Seq(X) /\ Len(b) = Len(s) - k /\ \A i \in 1..Len(s) - k : b[i] = s[k + i]
  <2>1. \A i \in k + 1..Len(s) : i \in 1..Len(s)
    BY <1>1, <1>5
  <2>2. /\ b \in Seq(X) /\ Len(b) = IF k + 1 <= Len(s) THEN Len(s) - (k + 1) + 1 ELSE 0
        /\ \A i \in 1..Len(s) - (k + 1) + 1 : b[i] = s[(k + 1) + i - 1]
    BY <1>1, <1>5, <2>1, SubSeqProperties
  <2> HIDE DEF b
  <2>3. Len(s) - (k + 1) + 1 = Len(s) - k /\ \A i \in 1..Len(s) - k : (k + 1) + i - 1 = k + i
    BY <1>1, <1>5
  <2>4. Len(b) = Len(s) - k
    <3>1. CASE k + 1 <= Len(s)
      BY <2>2, <2>3, <3>1
    <3>2. CASE ~(k + 1 <= Len(s))
      <4>1. \A n \in Nat : \A i \in 1..n : ~(i + 1 <= n) => n - i = 0
        OBVIOUS
      <4>2. Len(s) - k = 0
        BY <1>1, <1>5, <3>2, <4>1
      <4> QED
        BY <2>2, <3>2, <4>2
    <3> QED
      BY <3>1, <3>2
  <2>5. ASSUME NEW i \in 1..Len(s) - k PROVE b[i] = s[k + i]
    BY <2>2, <2>3
  <2> QED
    BY <2>2, <2>4, <2>5
<1> HIDE DEF a, b
<1>8. /\ t \in Seq(X) /\ Len(t) = Len(s) - 1
      /\ \A i \in 1..Len(s) - 1 : t[i] = IF i <= k - 1 THEN a[i] ELSE b[i - (k - 1)]
  <2>1. /\ t \in Seq(X) /\ Len(t) = Len(a) + Len(b)
        /\ \A i \in 1..Len(a) + Len(b) : t[i] = IF i <= Len(a) THEN a[i] ELSE b[i - Len(a)]
    BY <1>6, <1>7, ConcatProperties
  <2> HIDE DEF t
  <2>2. Len(a) + Len(b) = Len(s) - 1
    BY <1>1, <1>5, <1>6, <1>7
  <2> QED
    BY <1>6, <2>1, <2>2
<1> HIDE DEF t
<1>9. ASSUME NEW i \in 1..Len(s) - 1 PROVE t[i] = IF i < k THEN s[i] ELSE s[i + 1]
  <2>1. CASE i < k
    <3>1. i \in 1..k - 1 /\ i <= k - 1
      BY <1>1, <1>5, <2>1
    <3> QED
      BY <1>6, <1>8, <2>1, <3>1
  <2>2. CASE ~(i < k)
    <3>1. i - (k - 1) \in 1..Len(s) - k /\ ~(i <= k - 1) /\ k + (i - (k - 1)) = i + 1
      BY <1>1, <1>5, <2>2
    <3> QED
      BY <1>7, <1>8, <2>2, <3>1
  <2> QED
    BY <2>1, <2>2
<1> QED
  BY <1>3, <1>4, <1>5, <1>8, <1>9

\* c in front
LEMMA LiftedFacts ==
  ASSUME NEW s, NEW S, NEW c, Lists(s, S), Contains(s, c)
  PROVE  /\ Lists(Lifted(s, c), S) /\ Lifted(s, c) # <<>> /\ Head(Lifted(s, c)) = c
         /\ Ranked(s) /\ ~coolingDown(c) => Ranked(Lifted(s, c))
<1> DEFINE w == Without(s, c)
           one == <<c>>
           t == one \o w
<1>1. s \in Seq(S) /\ Len(s) \in Nat /\ DOMAIN s = 1..Len(s) /\ \A i \in 1..Len(s) : s[i] \in S
  BY DEF Lists
<1>2. c \in S
  BY <1>1 DEF Contains
<1>0. /\ w \in Seq(S) /\ Len(w) = Len(s) - 1
      /\ \E k \in 1..Len(s) :
           /\ s[k] = c
           /\ \A i \in 1..Len(s) - 1 : w[i] = IF i < k THEN s[i] ELSE s[i + 1]
  <2>1. s \in Seq(S)
    BY <1>1
  <2> QED
    BY <2>1, WithoutFacts
<1> HIDE DEF w
<1>3. PICK k \in 1..Len(s) :
        /\ s[k] = c
        /\ \A i \in 1..Len(s) - 1 : w[i] = IF i < k THEN s[i] ELSE s[i + 1]
  BY <1>0
<1>4. w \in Seq(S) /\ Len(w) = Len(s) - 1
  BY <1>0
<1>5. one \in Seq(S) /\ Len(one) = 1 /\ one[1] = c
  BY <1>2
<1> HIDE DEF one
<1>6. /\ t \in Seq(S) /\ Len(t) = Len(s)
      /\ \A i \in 1..Len(s) : t[i] = IF i <= 1 THEN one[i] ELSE w[i - 1]
  <2>1. /\ t \in Seq(S) /\ Len(t) = Len(one) + Len(w)
        /\ \A i \in 1..Len(one) + Len(w) : t[i] = IF i <= Len(one) THEN one[i] ELSE w[i - Len(one)]
    BY <1>4, <1>5, ConcatProperties
  <2> HIDE DEF t
  <2>2. Len(one) + Len(w) = Len(s)
    BY <1>1, <1>4, <1>5
  <2> QED
    BY <1>5, <2>1, <2>2
<1>7. Lifted(s, c) = t
  BY DEF Lifted, t, w, one
<1> HIDE DEF t
<1>8. ASSUME NEW i \in 1..Len(s)
      PROVE  t[i] = IF i = 1 THEN c ELSE IF i <= k THEN s[i - 1] ELSE s[i]
  <2>1. CASE i = 1
    BY <1>5, <1>6, <2>1
  <2>2. CASE i # 1
    <3>1. i - 1 \in 1..Len(s) - 1 /\ ~(i <= 1) /\ (i - 1) + 1 = i /\ (i - 1 < k <=> i <= k)
      BY <1>1, <2>2
    <3> QED
      BY <1>3, <1>6, <2>2, <3>1
  <2> QED
    BY <2>1, <2>2
<1>9. DOMAIN t = 1..Len(s) /\ 1 \in 1..Len(s) /\ t # <<>> /\ Head(t) = c
  <2>1. 1 \in 1..Len(s) /\ DOMAIN t = 1..Len(s)
    BY <1>1, <1>3, <1>6
  <2>2. t[1] = c
    BY <1>8, <2>1
  <2>3. t # <<>>
    BY <1>1, <1>6, <2>1
  <2> QED
    BY <1>6, <2>1, <2>2, <2>3
<1>10. ASSUME NEW d \in S PROVE \E i \in DOMAIN t : t[i] = d
  <2>1. PICK i \in 1..Len(s) : s[i] = d
    BY <1>1 DEF Lists
  <2>2. CASE i = k
    BY <1>3, <1>8, <1>9, <2>1, <2>2
  <2>3. CASE i < k
    <3>1. i + 1 \in 1..Len(s) /\ i + 1 # 1 /\ i + 1 <= k /\ (i + 1) - 1 = i
      BY <1>1, <2>3
    <3> QED
      BY <1>8, <1>9, <2>1, <3>1
  <2>4. CASE i > k
    <3>1. i # 1 /\ ~(i <= k)
      BY <2>4
    <3> QED
      BY <1>8, <1>9, <2>1, <3>1
  <2> QED
    BY <2>2, <2>3, <2>4
<1>11. ASSUME Ranked(s), ~coolingDown(c), NEW i \in DOMAIN t, NEW j \in DOMAIN t,
              i < j, coolingDown(t[i])
       PROVE  coolingDown(t[j]) \/ halfOpenSaturated(t[j])
  <2> DEFINE p == IF i <= k THEN i - 1 ELSE i
             q == IF j <= k THEN j - 1 ELSE j
  <2>1. i \in 1..Len(s) /\ j \in 1..Len(s)
    BY <1>9
  <2>2. i # 1 /\ j # 1
    BY <1>8, <1>11, <2>1
  <2>3. t[i] = s[p] /\ t[j] = s[q]
    BY <1>8, <2>1, <2>2
  <2>4. p \in 1..Len(s) /\ q \in 1..Len(s) /\ p < q
    BY <1>1, <1>11, <2>1, <2>2
  <2> HIDE DEF p, q
  <2> QED
    BY <1>1, <1>11, <2>3, <2>4 DEF Ranked
<1> QED
  BY <1>6, <1>7, <1>9, <1>10, <1>11 DEF Lists, Ranked

-----------------------------------------------------------------------------
(* The weighted round robin.                                               *)

\* what a channel adds to the sum over S
Part(f, S, c) == IF c \in S THEN f[c] ELSE 0

\* the sum is computed step by step
LEMMA SumSteps ==
  ASSUME NEW f \in [Channels -> Int], NEW S
  PROVE  \E p \in [0..Len(Listed) -> Int] :
           /\ p[0] = 0
           /\ \A i \in 1..Len(Listed) : p[i] = p[i - 1] + Part(f, S, Listed[i])
           /\ SumOver(f, S) = p[Len(Listed)]
<1> DEFINE n == Len(Listed)
           gain(i) == IF Listed[i] \in S THEN f[Listed[i]] ELSE 0
           step == [i \in 1..n |-> [x \in Int |-> x + gain(i)]]
           Def(g) == [i \in 0..n |-> IF i = 0 THEN 0 ELSE g[i - 1] + gain(i)]
           sum == CHOOSE g : g = Def(g)
<1>1. n \in Nat /\ \A i \in 1..n : Listed[i] \in Channels
  BY ListedAssumption
<1>2. \A i \in 1..n : gain(i) \in Int
  BY <1>1
<1>3. SumOver(f, S) = sum[n]
  BY DEF SumOver, sum, n, gain
<1>4. \A i \in 1..n : gain(i) = Part(f, S, Listed[i])
  BY DEF Part
<1> HIDE DEF n, gain
<1>5. step \in [1..n -> [Int -> Int]]
  BY <1>2
<1>6. PICK p \in [0..n -> Int] : Recursive(p, 0, step, n)
  <2>1. 0 \in Int /\ n \in Nat
    BY <1>1
  <2> DEFINE X == Int
  <2>2. 0 \in X /\ step \in [1..n -> [X -> X]]
    BY <1>5, <2>1
  <2> HIDE DEF step, X
  <2>3. \E f0 \in [0..n -> X] : Recursive(f0, 0, step, n)
    BY <2>1, <2>2, Recursion
  <2> QED
    BY <2>3 DEF X
<1>7. p = Def(p)
  <2>1. \A i \in 1..n : p[i - 1] \in Int
    BY <1>1
  <2>2. \A i \in 0..n : (IF i = 0 THEN 0 ELSE step[i][p[i - 1]])
                          = IF i = 0 THEN 0 ELSE p[i - 1] + gain(i)
    BY <1>1, <2>1
  <2> QED
    BY <1>6, <2>2 DEF Recursive
<1>8. sum = Def(sum)
  <2> HIDE DEF Def
  <2> QED
    BY <1>7
<1> HIDE DEF sum
<1>9. \A i \in 0..n : sum[i] = IF i = 0 THEN 0 ELSE sum[i - 1] + gain(i)
  BY <1>8
<1>10. \A i \in 0..n : p[i] = IF i = 0 THEN 0 ELSE p[i - 1] + gain(i)
  BY <1>7
<1> DEFINE T == {i \in Nat : i <= n => sum[i] = p[i]}
<1>11. 0 \in T
  BY <1>1, <1>9, <1>10
<1>12. ASSUME NEW i \in Nat, i \in T PROVE i + 1 \in T
  <2> SUFFICES ASSUME i + 1 <= n PROVE sum[i + 1] = p[i + 1]
    OBVIOUS
  <2>1. i + 1 \in 0..n /\ i + 1 # 0 /\ (i + 1) - 1 = i /\ sum[i] = p[i]
    BY <1>1, <1>12
  <2> QED
    BY <1>9, <1>10, <2>1
<1>13. n \in T
  <2> HIDE DEF T
  <2> QED
    BY <1>1, <1>11, <1>12, Induction
<1>14. sum[n] = p[n]
  BY <1>1, <1>13
<1>15. \A i \in 1..n : p[i] = p[i - 1] + Part(f, S, Listed[i])
  BY <1>1, <1>4, <1>10
<1>16. p[0] = 0
  BY <1>1, <1>10
<1> QED
  BY <1>3, <1>14, <1>15, <1>16 DEF n

LEMMA SumIsInt ==
  ASSUME NEW f \in [Channels -> Int], NEW S
  PROVE  SumOver(f, S) \in Int
<1>1. Len(Listed) \in Nat
  BY ListedAssumption
<1> QED
  BY <1>1, SumSteps

\* sums compare as their parts do
LEMMA SumCompare ==
  ASSUME NEW f \in [Channels -> Int], NEW g \in [Channels -> Int], NEW S, NEW U,
         \A c \in Channels : Part(f, S, c) <= Part(g, U, c)
  PROVE  SumOver(f, S) <= SumOver(g, U)
<1> DEFINE n == Len(Listed)
<1>1. n \in Nat /\ \A i \in 1..n : Listed[i] \in Channels
  BY ListedAssumption
<1>2. PICK p \in [0..n -> Int] : /\ p[0] = 0 /\ SumOver(f, S) = p[n]
                                 /\ \A i \in 1..n : p[i] = p[i - 1] + Part(f, S, Listed[i])
  BY SumSteps
<1>3. PICK q \in [0..n -> Int] : /\ q[0] = 0 /\ SumOver(g, U) = q[n]
                                 /\ \A i \in 1..n : q[i] = q[i - 1] + Part(g, U, Listed[i])
  BY SumSteps
<1> HIDE DEF n
<1>4. \A c \in Channels : Part(f, S, c) \in Int /\ Part(g, U, c) \in Int
  BY DEF Part
<1> DEFINE T == {i \in Nat : i <= n => p[i] <= q[i]}
<1>5. 0 \in T
  BY <1>2, <1>3
<1>6. ASSUME NEW i \in Nat, i \in T PROVE i + 1 \in T
  <2> SUFFICES ASSUME i + 1 <= n PROVE p[i + 1] <= q[i + 1]
    OBVIOUS
  <2> DEFINE c == Listed[i + 1]
  <2>1. /\ i + 1 \in 1..n /\ (i + 1) - 1 = i /\ p[i] <= q[i] /\ c \in Channels
        /\ p[i] \in Int /\ q[i] \in Int
    BY <1>1, <1>6
  <2>2. p[i + 1] = p[i] + Part(f, S, c) /\ q[i + 1] = q[i] + Part(g, U, c)
    BY <1>2, <1>3, <2>1
  <2>3. Part(f, S, c) \in Int /\ Part(g, U, c) \in Int /\ Part(f, S, c) <= Part(g, U, c)
    BY <1>4, <2>1
  <2> HIDE DEF c
  <2> QED
    BY <2>1, <2>2, <2>3
<1>7. n \in T
  <2> HIDE DEF T
  <2> QED
    BY <1>1, <1>5, <1>6, Induction
<1> QED
  BY <1>1, <1>2, <1>3, <1>7

LEMMA SumAgrees ==
  ASSUME NEW f \in [Channels -> Int], NEW g \in [Channels -> Int], NEW S, NEW U,
         \A c \in Channels : Part(f, S, c) = Part(g, U, c)
  PROVE  SumOver(f, S) = SumOver(g, U)
<1>1. \A c \in Channels : Part(f, S, c) \in Int /\ Part(g, U, c) \in Int
  BY DEF Part
<1>2. SumOver(f, S) <= SumOver(g, U)
  <2>1. \A c \in Channels : Part(f, S, c) <= Part(g, U, c)
    BY <1>1
  <2> QED
    BY <2>1, SumCompare
<1>3. SumOver(g, U) <= SumOver(f, S)
  <2>1. \A c \in Channels : Part(g, U, c) <= Part(f, S, c)
    BY <1>1
  <2> QED
    BY <2>1, SumCompare
<1>4. SumOver(f, S) \in Int /\ SumOver(g, U) \in Int
  BY SumIsInt
<1> QED
  BY <1>2, <1>3, <1>4

\* a sum of two parts each is the sum of two sums
LEMMA SumAdds ==
  ASSUME NEW f \in [Channels -> Int], NEW g \in [Channels -> Int], NEW h \in [Channels -> Int],
         NEW S, NEW U, NEW V,
         \A c \in Channels : Part(f, S, c) = Part(g, U, c) + Part(h, V, c)
  PROVE  SumOver(f, S) = SumOver(g, U) + SumOver(h, V)
<1> DEFINE n == Len(Listed)
<1>1. n \in Nat /\ \A i \in 1..n : Listed[i] \in Channels
  BY ListedAssumption
<1>2. PICK p \in [0..n -> Int] : /\ p[0] = 0 /\ SumOver(f, S) = p[n]
                                 /\ \A i \in 1..n : p[i] = p[i - 1] + Part(f, S, Listed[i])
  BY SumSteps
<1>3. PICK q \in [0..n -> Int] : /\ q[0] = 0 /\ SumOver(g, U) = q[n]
                                 /\ \A i \in 1..n : q[i] = q[i - 1] + Part(g, U, Listed[i])
  BY SumSteps
<1>4. PICK o \in [0..n -> Int] : /\ o[0] = 0 /\ SumOver(h, V) = o[n]
                                 /\ \A i \in 1..n : o[i] = o[i - 1] + Part(h, V, Listed[i])
  BY SumSteps
<1> HIDE DEF n
<1>5. \A c \in Channels : /\ Part(f, S, c) \in Int /\ Part(g, U, c) \in Int
                          /\ Part(h, V, c) \in Int
  BY DEF Part
<1> DEFINE T == {i \in Nat : i <= n => p[i] = q[i] + o[i]}
<1>6. 0 \in T
  BY <1>2, <1>3, <1>4
<1>7. ASSUME NEW i \in Nat, i \in T PROVE i + 1 \in T
  <2> SUFFICES ASSUME i + 1 <= n PROVE p[i + 1] = q[i + 1] + o[i + 1]
    OBVIOUS
  <2> DEFINE c == Listed[i + 1]
  <2>1. /\ i + 1 \in 1..n /\ (i + 1) - 1 = i /\ p[i] = q[i] + o[i] /\ c \in Channels
        /\ p[i] \in Int /\ q[i] \in Int /\ o[i] \in Int
    BY <1>1, <1>7
  <2>2. /\ p[i + 1] = p[i] + Part(f, S, c) /\ q[i + 1] = q[i] + Part(g, U, c)
        /\ o[i + 1] = o[i] + Part(h, V, c)
    BY <1>2, <1>3, <1>4, <2>1
  <2>3. /\ Part(f, S, c) \in Int /\ Part(g, U, c) \in Int /\ Part(h, V, c) \in Int
        /\ Part(f, S, c) = Part(g, U, c) + Part(h, V, c)
    BY <1>5, <2>1
  <2> HIDE DEF c
  <2> QED
    BY <2>1, <2>2, <2>3
<1>8. n \in T
  <2> HIDE DEF T
  <2> QED
    BY <1>1, <1>6, <1>7, Induction
<1> QED
  BY <1>1, <1>2, <1>3, <1>4, <1>8

\* a channel is listed once
LEMMA SumOfOne ==
  ASSUME NEW f \in [Channels -> Int], NEW x \in Channels
  PROVE  SumOver(f, {x}) = f[x]
<1> DEFINE n == Len(Listed)
<1>1. n \in Nat /\ DOMAIN Listed = 1..n /\ \A i \in 1..n : Listed[i] \in Channels
  BY ListedAssumption
<1>2. PICK p \in [0..n -> Int] : /\ p[0] = 0 /\ SumOver(f, {x}) = p[n]
                                 /\ \A i \in 1..n : p[i] = p[i - 1] + Part(f, {x}, Listed[i])
  BY SumSteps
<1> HIDE DEF n
<1>3. PICK k \in 1..n : Listed[k] = x
  BY <1>1 DEF Channels, ToSet
<1>4. \A i \in 1..n : Part(f, {x}, Listed[i]) = IF i = k THEN f[x] ELSE 0
  BY <1>1, <1>3, ListedAssumption DEF Part, IsInjective
<1> DEFINE T == {i \in Nat : i <= n => p[i] = IF i < k THEN 0 ELSE f[x]}
<1>5. 0 \in T
  BY <1>2
<1>6. ASSUME NEW i \in Nat, i \in T PROVE i + 1 \in T
  <2> SUFFICES ASSUME i + 1 <= n PROVE p[i + 1] = IF i + 1 < k THEN 0 ELSE f[x]
    OBVIOUS
  <2>1. /\ i + 1 \in 1..n /\ (i + 1) - 1 = i /\ f[x] \in Int
        /\ p[i] = IF i < k THEN 0 ELSE f[x]
    BY <1>1, <1>6
  <2>2. p[i + 1] = p[i] + (IF i + 1 = k THEN f[x] ELSE 0)
    BY <1>2, <1>4, <2>1
  <2> QED
    BY <2>1, <2>2
<1>7. n \in T
  <2> HIDE DEF T
  <2> QED
    BY <1>1, <1>5, <1>6, Induction
<1> QED
  BY <1>1, <1>2, <1>7

\* taking one away from a group, or letting one join
LEMMA SumOfMore ==
  ASSUME NEW f \in [Channels -> Int], NEW T \in SUBSET Channels
  PROVE  /\ SumOver(f, T) \in Int
         /\ \A c \in Channels \ T : SumOver(f, T \cup {c}) = SumOver(f, T) + f[c]
         /\ \A c \in T : SumOver(f, T \ {c}) = SumOver(f, T) - f[c]
<1>1. ASSUME NEW U, NEW x \in Channels, x \notin U
      PROVE  SumOver(f, U \cup {x}) = SumOver(f, U) + f[x]
  <2>1. \A c \in Channels : Part(f, U \cup {x}, c) = Part(f, U, c) + Part(f, {x}, c)
    BY <1>1 DEF Part
  <2> DEFINE V == U \cup {x}
             X == {x}
  <2> HIDE DEF V, X
  <2>2. \A c \in Channels : Part(f, V, c) = Part(f, U, c) + Part(f, X, c)
    BY <2>1 DEF V, X
  <2>3. SumOver(f, V) = SumOver(f, U) + SumOver(f, X)
    BY <2>2, SumAdds
  <2> QED
    BY <2>3, SumOfOne DEF V, X
<1>2. ASSUME NEW c \in T PROVE SumOver(f, T \ {c}) = SumOver(f, T) - f[c]
  <2> DEFINE U == T \ {c}
  <2>1. c \in Channels /\ c \notin U /\ U \cup {c} = T
    OBVIOUS
  <2> HIDE DEF U
  <2>2. SumOver(f, T) = SumOver(f, U) + f[c]
    BY <1>1, <2>1
  <2>3. SumOver(f, T) \in Int /\ SumOver(f, U) \in Int /\ f[c] \in Int
    BY <2>1, SumIsInt
  <2> QED
    BY <2>2, <2>3 DEF U
<1>3. SumOver(f, T) \in Int
  BY SumIsInt
<1> QED
  BY <1>1, <1>2, <1>3

LEMMA NothingDoubles == ASSUME NEW x \in Int, x = x + x PROVE x = 0
OBVIOUS

LEMMA SumOfNobody ==
  ASSUME NEW f \in [Channels -> Int]
  PROVE  SumOver(f, {}) = 0
<1> DEFINE S == {}
<1>1. \A c \in Channels : Part(f, S, c) = Part(f, S, c) + Part(f, S, c)
  BY DEF Part
<1> HIDE DEF S
<1>2. SumOver(f, S) = SumOver(f, S) + SumOver(f, S) /\ SumOver(f, S) \in Int
  BY <1>1, SumAdds, SumIsInt
<1>3. SumOver(f, S) = 0
  BY <1>2, NothingDoubles
<1> QED
  BY <1>3 DEF S

\* the weights as a function on the channels
Weights == [c \in Channels |-> Weight[c]]

LEMMA TotalIsSum ==
  /\ Weights \in [Channels -> Int]
  /\ \A S : TotalWeight(S) = SumOver(Weights, S)
  /\ \A S \in SUBSET Channels : TotalWeight(S) <= TotalWeight(Channels)
<1>1. Weights \in [Channels -> Int] /\ \A c \in Channels : Weights[c] \in Nat
  BY NumbersAssumption DEF Weights
<1>2. ASSUME NEW S PROVE TotalWeight(S) = SumOver(Weights, S)
  <2> DEFINE n == Len(Listed)
             one(i) == IF Listed[i] \in S THEN Weight[Listed[i]] ELSE 0
             two(i) == IF Listed[i] \in S THEN Weights[Listed[i]] ELSE 0
             Def(g) == [i \in 0..n |-> IF i = 0 THEN 0 ELSE g[i - 1] + one(i)]
             Def2(g) == [i \in 0..n |-> IF i = 0 THEN 0 ELSE g[i - 1] + two(i)]
  <2>1. n \in Nat /\ \A i \in 1..n : Listed[i] \in Channels
    BY ListedAssumption
  <2>2. \A i \in 1..n : one(i) = two(i)
    BY <2>1 DEF Weights
  <2>3. TotalWeight(S) = (CHOOSE g : g = Def(g))[n]
    BY DEF TotalWeight, SumOver
  <2>4. SumOver(Weights, S) = (CHOOSE g : g = Def2(g))[n]
    BY DEF SumOver
  <2> HIDE DEF n, one, two
  <2>5. ASSUME NEW g PROVE Def(g) = Def2(g)
    <3>1. \A i \in 0..n : i = 0 \/ i \in 1..n
      BY <2>1
    <3>2. \A i \in 0..n : (IF i = 0 THEN 0 ELSE g[i - 1] + one(i))
                             = IF i = 0 THEN 0 ELSE g[i - 1] + two(i)
      BY <2>2, <3>1
    <3> QED
      BY <3>2
  <2> HIDE DEF Def, Def2
  <2>6. (CHOOSE g : g = Def(g)) = CHOOSE g : g = Def2(g)
    BY <2>5
  <2> QED
    BY <2>3, <2>4, <2>6
<1>3. ASSUME NEW S \in SUBSET Channels PROVE TotalWeight(S) <= TotalWeight(Channels)
  <2>1. \A c \in Channels : Part(Weights, S, c) <= Part(Weights, Channels, c)
    BY <1>1 DEF Part
  <2>2. SumOver(Weights, S) <= SumOver(Weights, Channels)
    BY <1>1, <2>1, SumCompare
  <2> QED
    BY <1>2, <2>2
<1> QED
  BY <1>1, <1>2, <1>3

LEMMA TotalFacts ==
  ASSUME NEW S
  PROVE  TotalWeight(S) \in Nat /\ (S = {} => TotalWeight(S) = 0)
<1>1. TotalWeight(S) = SumOver(Weights, S) /\ Weights \in [Channels -> Int]
  BY TotalIsSum
<1>2. SumOver(Weights, S) \in Int /\ SumOver(Weights, {}) = 0
  BY <1>1, SumIsInt, SumOfNobody
<1>3. SumOver(Weights, {}) <= SumOver(Weights, S)
  <2>1. \A c \in Channels : Part(Weights, {}, c) <= Part(Weights, S, c)
    BY NumbersAssumption DEF Part, Weights
  <2> QED
    BY <1>1, <2>1, SumCompare
<1> QED
  BY <1>1, <1>2, <1>3

\* one of S has the most
LEMMA Richest ==
  ASSUME NEW S, S \subseteq Channels, S # {}, NEW w \in [Channels -> Int]
  PROVE  \E i \in DOMAIN Listed : Listed[i] \in S /\ \A c \in S : w[c] <= w[Listed[i]]
<1> DEFINE n == Len(Listed)
           Best(k, i) == Listed[i] \in S /\ \A j \in 1..k : Listed[j] \in S => w[Listed[j]] <= w[Listed[i]]
           P(k) == (\A j \in 1..k : Listed[j] \notin S) \/ \E i \in 1..k : Best(k, i)
           T == {k \in Nat : k <= n => P(k)}
<1>1. n \in Nat /\ DOMAIN Listed = 1..n /\ \A i \in 1..n : Listed[i] \in Channels
  BY ListedAssumption
<1> HIDE DEF n
<1>2. 0 \in T
  OBVIOUS
<1>3. ASSUME NEW k \in Nat, k \in T PROVE k + 1 \in T
  <2> SUFFICES ASSUME k + 1 <= n PROVE P(k + 1)
    OBVIOUS
  <2>1. /\ P(k) /\ k + 1 \in 1..n /\ k + 1 \in 1..k + 1 /\ w[Listed[k + 1]] \in Int
        /\ \A j \in 1..k + 1 : j \in 1..k \/ j = k + 1
        /\ \A j \in 1..k : j \in 1..n /\ j \in 1..k + 1 /\ w[Listed[j]] \in Int
    BY <1>1, <1>3
  <2>2. CASE Listed[k + 1] \notin S
    <3>1. CASE \A j \in 1..k : Listed[j] \notin S
      BY <2>1, <2>2, <3>1
    <3>2. CASE \E i \in 1..k : Best(k, i)
      <4>1. PICK i \in 1..k : Best(k, i)
        BY <3>2
      <4>2. Best(k + 1, i) /\ i \in 1..k + 1
        BY <2>1, <2>2, <4>1
      <4> QED
        BY <4>2
    <3> QED
      BY <2>1, <3>1, <3>2
  <2>3. CASE Listed[k + 1] \in S
    <3>1. CASE \A j \in 1..k : Listed[j] \notin S
      <4>1. Best(k + 1, k + 1)
        BY <2>1, <2>3, <3>1
      <4> QED
        BY <2>1, <4>1
    <3>2. CASE \E i \in 1..k : Best(k, i)
      <4>1. PICK i \in 1..k : Best(k, i)
        BY <3>2
      <4>2. w[Listed[i]] \in Int
        BY <2>1
      <4>3. CASE w[Listed[k + 1]] <= w[Listed[i]]
        <5>1. Best(k + 1, i) /\ i \in 1..k + 1
          BY <2>1, <4>1, <4>3
        <5> QED
          BY <5>1
      <4>4. CASE ~(w[Listed[k + 1]] <= w[Listed[i]])
        <5>1. \A j \in 1..k : Listed[j] \in S => w[Listed[j]] <= w[Listed[k + 1]]
          BY <2>1, <4>1, <4>2, <4>4
        <5>2. Best(k + 1, k + 1)
          BY <2>1, <2>3, <5>1
        <5> QED
          BY <2>1, <5>2
      <4> QED
        BY <4>3, <4>4
    <3> QED
      BY <2>1, <3>1, <3>2
  <2> QED
    BY <2>2, <2>3
<1>4. P(n)
  <2> HIDE DEF P
  <2>1. n \in T
    <3> HIDE DEF T
    <3> QED
      BY <1>1, <1>2, <1>3, Induction
  <2> QED
    BY <1>1, <2>1
<1>5. \A c \in S : \E j \in 1..n : Listed[j] = c
  BY <1>1 DEF Channels, ToSet
<1>6. PICK i \in 1..n : Best(n, i)
  BY <1>4, <1>5
<1>7. ASSUME NEW c \in S PROVE w[c] <= w[Listed[i]]
  BY <1>5, <1>6
<1> QED
  BY <1>1, <1>6, <1>7

\* the winner is one of those who compete, and the richest
LEMMA WinnerCompetes ==
  ASSUME NEW S, S \subseteq Channels, S # {}, weightState \in [Channels -> Int]
  PROVE  /\ Gained(S) \in [Channels -> Int] /\ Winner(S) \in S
         /\ \A c \in S : Gained(S)[c] <= Gained(S)[Winner(S)]
<1> DEFINE T == {i \in DOMAIN Listed : /\ Listed[i] \in S
                                       /\ \A c \in S : Gained(S)[c] <= Gained(S)[Listed[i]]}
<1>1. Gained(S) \in [Channels -> Int]
  BY NumbersAssumption DEF Gained
<1>2. T # {}
  BY <1>1, Richest
<1>3. T \subseteq Nat
  BY ListedAssumption
<1>4. Min(T) \in T
  <2> HIDE DEF T
  <2> QED
    BY <1>2, <1>3, LeastMember
<1>5. Winner(S) = Listed[Min(T)]
  BY DEF Winner
<1> QED
  BY <1>1, <1>4, <1>5

LEMMA WeightsAfterFacts ==
  ASSUME NEW S, S \subseteq Channels, weightState \in [Channels -> Int]
  PROVE  WeightsAfter(S) \in [Channels -> Int]
<1>1. TotalWeight(S) \in Nat /\ (S = {} => TotalWeight(S) = 0)
  BY TotalFacts
<1>2. CASE TotalWeight(S) = 0
  BY <1>2 DEF WeightsAfter
<1>3. CASE TotalWeight(S) # 0
  <2>1. Gained(S) \in [Channels -> Int] /\ Winner(S) \in Channels
    BY <1>1, <1>3, WinnerCompetes
  <2>2. WeightsAfter(S) = [Gained(S) EXCEPT ![Winner(S)] = @ - Price(S)] /\ Price(S) \in Int
    BY <1>1, <1>3 DEF WeightsAfter, Price
  <2> QED
    BY <2>1, <2>2
<1> QED
  BY <1>2, <1>3

-----------------------------------------------------------------------------
(* The lists of a tier.                                                    *)

\* whatever sorts it, a list of channels has each of them
LEMMA ChannelsListed ==
  ASSUME NEW S, S \subseteq Channels, NEW s \in SetToSeqs(S)
  PROVE  Lists(s, S) /\ Len(s) = Cardinality(S)
<1>1. IsFiniteSet(S)
  BY ChannelsAreFinite, FS_Subset
<1> QED
  BY <1>1, SequencesOfASet

LEMMA ConcatenationHead ==
  ASSUME NEW X, NEW s \in Seq(X), NEW t \in Seq(X), s # <<>>
  PROVE  s \o t # <<>> /\ Head(s \o t) = Head(s)
<1>1. Len(s) \in Nat \ {0} /\ Len(t) \in Nat
  BY EmptySeq
<1>2. /\ s \o t \in Seq(X) /\ Len(s \o t) = Len(s) + Len(t)
      /\ \A i \in 1..Len(s) + Len(t) : (s \o t)[i] = IF i <= Len(s) THEN s[i] ELSE t[i - Len(s)]
  BY ConcatProperties
<1>3. 1 \in 1..Len(s) + Len(t) /\ 1 <= Len(s) /\ Len(s \o t) # 0
  BY <1>1, <1>2
<1>4. (s \o t)[1] = s[1] /\ s \o t # <<>>
  BY <1>2, <1>3
<1> QED
  BY <1>2, <1>4

LEMMA RotatedLists ==
  ASSUME NEW s, NEW S, Lists(s, S), NEW n \in 0..Len(s)
  PROVE  Lists(Rotated(s, n), S)
<1> DEFINE a == SubSeq(s, n + 1, Len(s))
           b == SubSeq(s, 1, n)
           t == a \o b
<1>1. s \in Seq(S) /\ Len(s) \in Nat /\ DOMAIN s = 1..Len(s) /\ \A i \in 1..Len(s) : s[i] \in S
  BY DEF Lists
<1>2. /\ n \in Int /\ n + 1 \in Int /\ 1 \in Int /\ Len(s) \in Int
      /\ \A i \in n + 1..Len(s) : i \in 1..Len(s)
      /\ \A i \in 1..n : i \in 1..Len(s)
  BY <1>1
<1>3. a \in Seq(S) /\ Len(a) = Len(s) - n /\ \A i \in 1..Len(s) - n : a[i] = s[n + i]
  <2>1. /\ a \in Seq(S) /\ Len(a) = IF n + 1 <= Len(s) THEN Len(s) - (n + 1) + 1 ELSE 0
        /\ \A i \in 1..Len(s) - (n + 1) + 1 : a[i] = s[(n + 1) + i - 1]
    BY <1>1, <1>2, SubSeqProperties
  <2> HIDE DEF a
  <2>2. Len(s) - (n + 1) + 1 = Len(s) - n /\ \A i \in 1..Len(s) - n : (n + 1) + i - 1 = n + i
    BY <1>1
  <2>3. Len(a) = Len(s) - n
    <3>1. \A m \in Nat : \A i \in 0..m : ~(i + 1 <= m) => m - i = 0
      OBVIOUS
    <3>2. ~(n + 1 <= Len(s)) => Len(s) - n = 0
      BY <1>1, <3>1
    <3> QED
      BY <2>1, <2>2, <3>2
  <2>4. ASSUME NEW i \in 1..Len(s) - n PROVE a[i] = s[n + i]
    BY <2>1, <2>2
  <2> QED
    BY <2>1, <2>3, <2>4
<1>4. b \in Seq(S) /\ Len(b) = n /\ \A i \in 1..n : b[i] = s[i]
  <2>1. /\ b \in Seq(S) /\ Len(b) = IF 1 <= n THEN n - 1 + 1 ELSE 0
        /\ \A i \in 1..n - 1 + 1 : b[i] = s[1 + i - 1]
    BY <1>1, <1>2, SubSeqProperties
  <2> HIDE DEF b
  <2>2. n - 1 + 1 = n /\ \A i \in 1..n : 1 + i - 1 = i
    BY <1>2
  <2>3. ~(1 <= n) => n = 0
    OBVIOUS
  <2> QED
    BY <2>1, <2>2, <2>3
<1> HIDE DEF a, b
<1>5. /\ t \in Seq(S) /\ DOMAIN t = 1..Len(s)
      /\ \A i \in 1..Len(s) : t[i] = IF i <= Len(s) - n THEN a[i] ELSE b[i - (Len(s) - n)]
  <2>1. /\ t \in Seq(S) /\ Len(t) = Len(a) + Len(b)
        /\ \A i \in 1..Len(a) + Len(b) : t[i] = IF i <= Len(a) THEN a[i] ELSE b[i - Len(a)]
    BY <1>3, <1>4, ConcatProperties
  <2> HIDE DEF t
  <2>2. Len(a) + Len(b) = Len(s)
    BY <1>1, <1>3, <1>4
  <2> QED
    BY <1>3, <2>1, <2>2
<1> HIDE DEF t
<1>6. ASSUME NEW c \in S PROVE \E i \in DOMAIN t : t[i] = c
  <2>1. PICK i \in 1..Len(s) : s[i] = c
    BY <1>1 DEF Lists
  <2>2. CASE i <= n
    <3> DEFINE k == i + (Len(s) - n)
    <3>1. k \in 1..Len(s) /\ ~(k <= Len(s) - n) /\ k - (Len(s) - n) = i /\ i \in 1..n
      BY <1>1, <2>2
    <3> HIDE DEF k
    <3> QED
      BY <1>4, <1>5, <2>1, <3>1
  <2>3. CASE ~(i <= n)
    <3> DEFINE k == i - n
    <3>1. k \in 1..Len(s) /\ k \in 1..Len(s) - n /\ k <= Len(s) - n /\ n + k = i
      BY <1>1, <2>3
    <3> HIDE DEF k
    <3> QED
      BY <1>3, <1>5, <2>1, <3>1
  <2> QED
    BY <2>2, <2>3
<1>7. Rotated(s, n) = t
  BY DEF Rotated, t, a, b
<1> QED
  BY <1>5, <1>6, <1>7 DEF Lists

LEMMA WeightedOpenLists ==
  ASSUME NEW S, S \subseteq Channels, weightState \in [Channels -> Int],
         NEW s \in WeightedOpen(S)
  PROVE  Lists(s, S)
<1>1. CASE TotalWeight(S) = 0
  <2>1. s \in SetToSeqs(S)
    BY <1>1 DEF WeightedOpen, SortedBy
  <2> QED
    BY <2>1, ChannelsListed
<1>2. CASE TotalWeight(S) # 0
  <2> DEFINE rest == S \ {Winner(S)}
  <2>1. Winner(S) \in S
    BY <1>2, TotalFacts, WinnerCompetes
  <2>2. PICK t \in SetToSeqs(rest) : s = <<Winner(S)>> \o t
    BY <1>2 DEF WeightedOpen, SortedBy
  <2>3. Lists(t, rest) /\ rest \cup {Winner(S)} = S
    BY <2>1, <2>2, ChannelsListed
  <2>4. Lists(<<Winner(S)>>, {Winner(S)})
    <3>1. \A w : <<w>> \in Seq({w}) /\ DOMAIN <<w>> = {1} /\ <<w>>[1] = w
      OBVIOUS
    <3> QED
      BY <3>1 DEF Lists
  <2> HIDE DEF rest
  <2>5. Lists(s, {Winner(S)} \cup rest)
    BY <2>2, <2>3, <2>4, ConcatenationLists
  <2>6. {Winner(S)} \cup rest = S
    BY <2>3
  <2> QED
    BY <2>5, <2>6
<1> QED
  BY <1>1, <1>2

\* the parts of a set of channels
LEMMA Parts ==
  ASSUME NEW S, S \subseteq Channels
  PROVE  Live(S) \subseteq Channels /\ Cooling(S) \subseteq Channels /\ Saturated(S) \subseteq Channels
BY DEF Live, Cooling, Saturated

\* no live channel is better than the first of s
BestFirst(s, S) == \A c \in Live(S) : s # <<>> /\ Priority[Head(s)] <= Priority[c]

\* what the list of a tier promises
Promises(s, S) == /\ Lists(s, S) /\ Ranked(s)
                  /\ conf.strategy = "priority" => BestFirst(s, S)

LEMMA SortedIsBestFirst ==
  ASSUME NEW S, S \subseteq Channels,
         NEW a \in SortedBy(Live(S), ByPriority), NEW t \in Seq(S)
  PROVE  BestFirst(a \o t, S)
<1>1. a \in SetToSeqs(Live(S)) /\ Live(S) \subseteq Channels /\ Live(S) \subseteq S
  BY DEF SortedBy, Live
<1>2. Lists(a, Live(S))
  BY <1>1, ChannelsListed
<1>3. \A i, j \in DOMAIN a : i < j => Priority[a[i]] <= Priority[a[j]]
  BY DEF SortedBy, ByPriority
<1>4. a \in Seq(S) /\ DOMAIN a = 1..Len(a) /\ Len(a) \in Nat
  BY <1>1, <1>2, SeqMonotonic DEF Lists
<1>5. ASSUME NEW c \in Live(S) PROVE a \o t # <<>> /\ Priority[Head(a \o t)] <= Priority[c]
  <2>1. PICK j \in DOMAIN a : a[j] = c
    BY <1>2 DEF Lists
  <2>2. a # <<>> /\ 1 \in DOMAIN a /\ (j = 1 \/ 1 < j)
    BY <1>4, <2>1
  <2>3. a \o t # <<>> /\ Head(a \o t) = a[1]
    BY <1>4, <2>2, ConcatenationHead
  <2>4. Priority[c] \in Int /\ Priority[c] <= Priority[c]
    BY <1>1, NumbersAssumption
  <2>5. Priority[a[1]] <= Priority[c]
    <3>1. CASE j = 1
      BY <2>1, <2>4, <3>1
    <3>2. CASE 1 < j
      BY <1>3, <2>1, <2>2, <3>2
    <3> QED
      BY <2>2, <3>1, <3>2
  <2> QED
    BY <2>3, <2>5
<1> QED
  BY <1>5 DEF BestFirst

LEMMA ByStrategyFacts ==
  ASSUME NEW S, S \subseteq Channels, RoutingInv, NEW r \in Requests,
         NEW s \in ByStrategy(S, r)
  PROVE  Promises(s, S)
<1> DEFINE rest == SortedBy(Cooling(S), InAnyOrder)
           n == IF Rotates(S) THEN TurnOf(r) % Cardinality(Live(S)) ELSE 0
<1>1. weightState \in [Channels -> Int] /\ conf.strategy \in Strategies
      /\ TurnOf(r) \in Nat
  <2>1. conf \in Configurations
    BY ScenesAssumption DEF RoutingInv, RoutingTypeOK
  <2>2. turn \in Nat /\ turnSeen[r] \in {Unset} \cup Nat
    BY TurnAssumption DEF RoutingInv, RoutingTypeOK
  <2> QED
    BY <2>1, <2>2 DEF RoutingInv, Configurations, TurnOf
<1>2. Live(S) \subseteq Channels /\ Cooling(S) \subseteq Channels /\ Saturated(S) \subseteq Channels
  BY Parts
<1>3. ASSUME NEW a, NEW b, NEW c, Lists(a, Live(S)),
             b \in SetToSeqs(Cooling(S)), c \in SetToSeqs(Saturated(S)), s = a \o b \o c
      PROVE  Lists(s, S) /\ Ranked(s)
  <2>1. Lists(b, Cooling(S)) /\ Lists(c, Saturated(S))
    BY <1>2, <1>3, ChannelsListed
  <2> QED
    BY <1>3, <2>1, RowIsRanked
<1>4. CASE conf.strategy = "round-robin"
  <2>1. PICK l \in SetToSeqs(Live(S)), b \in SetToSeqs(Cooling(S)), c \in SetToSeqs(Saturated(S)) :
          s = Rotated(l, n) \o b \o c
    <3> DEFINE A == {Rotated(l, n) : l \in SortedBy(Live(S), ByPriority)}
    <3>1. s \in Rows(A, rest, SortedBy(Saturated(S), ByPriority))
      BY <1>4 DEF ByStrategy
    <3> HIDE DEF n
    <3>2. A \subseteq {Rotated(l, n) : l \in SetToSeqs(Live(S))}
      BY DEF SortedBy
    <3> HIDE DEF A
    <3>3. PICK a \in A, b \in SetToSeqs(Cooling(S)), c \in SetToSeqs(Saturated(S)) : s = a \o b \o c
      BY <3>1 DEF Rows, SortedBy
    <3> QED
      BY <3>2, <3>3
  <2>2. Lists(l, Live(S)) /\ Len(l) = Cardinality(Live(S)) /\ Len(l) \in Nat
    BY <1>2, ChannelsListed DEF Lists
  <2>3. n \in 0..Len(l)
    <3>1. \A x \in Nat, m \in Nat : m > 1 => x % m \in 0..m
      OBVIOUS
    <3>2. CASE Rotates(S)
      BY <1>1, <2>2, <3>1, <3>2 DEF Rotates
    <3>3. CASE ~Rotates(S)
      BY <2>2, <3>3
    <3> QED
      BY <3>2, <3>3
  <2> HIDE DEF n
  <2>4. Lists(Rotated(l, n), Live(S))
    BY <2>2, <2>3, RotatedLists
  <2> QED
    BY <1>3, <1>4, <2>1, <2>4 DEF Promises
<1>5. CASE conf.strategy = "least-loaded"
  <2>1. PICK a \in SetToSeqs(Live(S)), b \in SetToSeqs(Cooling(S)), c \in SetToSeqs(Saturated(S)) :
          s = a \o b \o c
    BY <1>5 DEF ByStrategy, Rows, SortedBy
  <2>2. Lists(a, Live(S))
    BY <1>2, ChannelsListed
  <2> QED
    BY <1>3, <1>5, <2>1, <2>2 DEF Promises
<1>6. CASE conf.strategy = "weighted"
  <2>1. PICK a \in WeightedOpen(Live(S)), b \in SetToSeqs(Cooling(S)), c \in SetToSeqs(Saturated(S)) :
          s = a \o b \o c
    BY <1>6 DEF ByStrategy, Rows, SortedBy
  <2>2. Lists(a, Live(S))
    BY <1>1, <1>2, WeightedOpenLists
  <2> QED
    BY <1>3, <1>6, <2>1, <2>2 DEF Promises
<1>7. CASE conf.strategy = "priority"
  <2>1. PICK a \in SortedBy(Live(S), ByPriority), b \in SetToSeqs(Cooling(S)), c \in SetToSeqs(Saturated(S)) :
          s = a \o b \o c
    BY <1>7 DEF ByStrategy, Rows, SortedBy
  <2>2. Lists(a, Live(S))
    <3>1. a \in SetToSeqs(Live(S))
      BY DEF SortedBy
    <3> QED
      BY <1>2, <3>1, ChannelsListed
  <2>3. Lists(s, S) /\ Ranked(s)
    BY <1>3, <2>1, <2>2
  <2>4. a \in Seq(S) /\ b \in Seq(S) /\ c \in Seq(S) /\ b \o c \in Seq(S)
    <3>1. /\ a \in Seq(Live(S)) /\ b \in Seq(Cooling(S)) /\ c \in Seq(Saturated(S))
          /\ Live(S) \subseteq S /\ Cooling(S) \subseteq S /\ Saturated(S) \subseteq S
      BY <1>2, <2>2, ChannelsListed DEF Lists, Live, Cooling, Saturated
    <3>2. a \in Seq(S) /\ b \in Seq(S) /\ c \in Seq(S)
      BY <3>1, SeqMonotonic
    <3> QED
      BY <3>2, ConcatProperties
  <2>5. s = a \o (b \o c)
    BY <2>1, <2>4, ConcatAssociative
  <2>6. BestFirst(s, S)
    BY <2>4, <2>5, SortedIsBestFirst
  <2> QED
    BY <2>3, <2>6 DEF Promises
<1> QED
  BY <1>1, <1>4, <1>5, <1>6, <1>7 DEF Strategies

\* a pin or the agent's channel keeps the promises
LEMMA LiftKeepsPromises ==
  ASSUME NEW S, S \subseteq Channels, NEW s, NEW c, Promises(s, S), Contains(s, c),
         ~coolingDown(c),
         conf.strategy = "priority" => Priority[c] <= Priority[Head(s)]
  PROVE  Promises(Lifted(s, c), S)
<1>1. Lists(s, S) /\ Ranked(s)
  BY DEF Promises
<1>2. /\ Lists(Lifted(s, c), S) /\ Lifted(s, c) # <<>> /\ Head(Lifted(s, c)) = c
      /\ Ranked(Lifted(s, c))
  BY <1>1, LiftedFacts
<1>3. ASSUME conf.strategy = "priority", NEW d \in Live(S)
      PROVE  Priority[c] <= Priority[d]
  <2>1. s # <<>> /\ Priority[Head(s)] <= Priority[d] /\ Priority[c] <= Priority[Head(s)]
    BY <1>3 DEF Promises, BestFirst
  <2>2. c \in Channels /\ Head(s) \in Channels /\ d \in Channels
    <3>1. s \in Seq(S)
      BY <1>1 DEF Lists
    <3>2. c \in S
      BY <3>1 DEF Contains
    <3>3. Head(s) \in S
      BY <2>1, <3>1, HeadTailProperties
    <3> QED
      BY <3>2, <3>3 DEF Live
  <2>3. Priority[c] \in Int /\ Priority[Head(s)] \in Int /\ Priority[d] \in Int
    BY <2>2, NumbersAssumption
  <2> QED
    BY <2>1, <2>3
<1> QED
  BY <1>2, <1>3 DEF Promises, BestFirst

LEMMA PoolOrdersFacts ==
  ASSUME NEW S, S \subseteq Channels, RoutingInv, NEW r \in Requests, NEW q,
         NEW s \in PoolOrders(S, r, q)
  PROVE  Promises(s, S)
<1>1. PICK s0 \in ByStrategy(S, r), pinned \in Sticky(q) :
        s = Lifting(Lifting(s0, pinned, Pins), AgentsChannel(q), Affine)
  BY DEF PoolOrders
<1>2. Promises(s0, S)
  BY ByStrategyFacts
<1> DEFINE s1 == Lifting(s0, pinned, Pins)
<1>3. \A x \in S : Priority[x] \in Int
  BY NumbersAssumption
<1>4. Promises(s1, S)
  <2>1. CASE pinned # None /\ Pins(s0, pinned)
    <3>1. Contains(s0, pinned) /\ ~coolingDown(pinned)
      BY <2>1 DEF Pins, Unfailing, coolingDown
    <3>2. conf.strategy = "priority" => Priority[pinned] <= Priority[Head(s0)]
      <4>1. pinned \in S
        BY <1>2, <3>1 DEF Promises, Lists, Contains
      <4>2. conf.strategy = "priority" => Priority[pinned] = Priority[Head(s0)]
        BY <2>1 DEF Pins, Unfailing
      <4>3. Priority[pinned] <= Priority[pinned]
        BY <1>3, <4>1
      <4> QED
        BY <4>2, <4>3
    <3>3. s1 = Lifted(s0, pinned)
      BY <2>1 DEF Lifting
    <3> QED
      BY <1>2, <3>1, <3>2, <3>3, LiftKeepsPromises
  <2>2. CASE ~(pinned # None /\ Pins(s0, pinned))
    BY <1>2, <2>2 DEF Lifting
  <2> QED
    BY <2>1, <2>2
<1> HIDE DEF s1
<1> DEFINE a == AgentsChannel(q)
<1>5. s = Lifting(s1, a, Affine)
  BY <1>1 DEF s1
<1> HIDE DEF a
<1>6. CASE a # None /\ Affine(s1, a)
  <2>1. Contains(s1, a) /\ ~coolingDown(a) /\ Priority[a] <= Priority[Head(s1)]
    BY <1>6 DEF Affine
  <2>2. s = Lifted(s1, a)
    BY <1>5, <1>6 DEF Lifting
  <2> QED
    BY <1>4, <2>1, <2>2, LiftKeepsPromises
<1>7. CASE ~(a # None /\ Affine(s1, a))
  BY <1>4, <1>5, <1>7 DEF Lifting
<1> QED
  BY <1>6, <1>7

\* lifted among the live channels of the second tier
LEMMA LiftingLists ==
  ASSUME NEW s, NEW S, Lists(s, S), NEW c, NEW t, t = s \/ (Contains(s, c) /\ t = Lifted(s, c))
  PROVE  Lists(t, S)
BY LiftedFacts

LEMMA FallbackOrdersFacts ==
  ASSUME NEW S, S \subseteq Channels, RoutingInv, NEW q, NEW s \in FallbackOrders(S, q)
  PROVE  Lists(s, S) /\ Ranked(s)
<1> DEFINE pins == IF conf.strategy \in {"least-loaded", "weighted"} THEN {None} ELSE Sticky(q)
           key(c) == CASE conf.strategy = "least-loaded" -> ByLoad(c) - Priority[c]
                       [] OTHER -> InAnyOrder(c)
           open == IF conf.strategy = "weighted" THEN WeightedOpen(Live(S)) ELSE SortedBy(Live(S), key)
           A == Floated(open, pins, AgentsChannel(q))
<1>1. s \in Rows(A, SortedBy(Cooling(S), InAnyOrder), SortedBy(Saturated(S), InAnyOrder))
  BY DEF FallbackOrders
<1>2. Live(S) \subseteq Channels /\ Cooling(S) \subseteq Channels /\ Saturated(S) \subseteq Channels
  BY Parts
<1>3. ASSUME NEW l \in open PROVE Lists(l, Live(S))
  <2>1. CASE conf.strategy = "weighted"
    <3>1. l \in WeightedOpen(Live(S))
      BY <2>1
    <3> QED
      BY <1>2, <3>1, WeightedOpenLists DEF RoutingInv
  <2>2. CASE conf.strategy # "weighted"
    <3>1. l \in SetToSeqs(Live(S))
      BY <2>2 DEF SortedBy
    <3> QED
      BY <1>2, <3>1, ChannelsListed
  <2> QED
    BY <2>1, <2>2
<1> HIDE DEF open, pins
<1>4. ASSUME NEW a \in A PROVE Lists(a, Live(S))
  <2>1. PICK l \in open, pinned \in pins :
          a = Lifting(Lifting(l, pinned, Unfailing), AgentsChannel(q), Contains)
    BY DEF Floated
  <2> DEFINE l1 == Lifting(l, pinned, Unfailing)
  <2>2. l1 = l \/ (Contains(l, pinned) /\ l1 = Lifted(l, pinned))
    BY DEF Lifting, Unfailing
  <2>3. a = l1 \/ (Contains(l1, AgentsChannel(q)) /\ a = Lifted(l1, AgentsChannel(q)))
    BY <2>1 DEF Lifting
  <2> HIDE DEF l1
  <2>4. Lists(l1, Live(S))
    BY <1>3, <2>2, LiftingLists
  <2> QED
    BY <2>3, <2>4, LiftingLists
<1> HIDE DEF A
<1>5. PICK a \in A, b \in SetToSeqs(Cooling(S)), c \in SetToSeqs(Saturated(S)) : s = a \o b \o c
  BY <1>1 DEF Rows, SortedBy
<1>6. Lists(b, Cooling(S)) /\ Lists(c, Saturated(S))
  BY <1>2, ChannelsListed
<1> QED
  BY <1>4, <1>5, <1>6, RowIsRanked

\* the list is cut, but never to nothing
LEMMA CutFacts ==
  ASSUME NEW X, NEW s \in Seq(X), RoutingInv
  PROVE  /\ Cut(s) \in Seq(X) /\ Len(Cut(s)) <= Len(s)
         /\ \A i \in 1..Len(Cut(s)) : Cut(s)[i] = s[i]
         /\ s # <<>> => Cut(s) # <<>> /\ Head(Cut(s)) = Head(s)
<1> DEFINE m == conf.maxAttempts
           n == IF Len(s) <= m THEN Len(s) ELSE m
           t == SubSeq(s, 1, n)
<1>1. m \in Nat \ {0}
  BY ScenesAssumption DEF RoutingInv, RoutingTypeOK, Configurations
<1>2. Len(s) \in Nat /\ \A i \in 1..Len(s) : s[i] \in X
  OBVIOUS
<1> HIDE DEF m
<1>3. Cut(s) = t
  BY <1>1, <1>2, LeastOfTwo DEF Cut, m
<1>4. /\ n \in Nat /\ n \in Int /\ 1 \in Int /\ n <= Len(s) /\ (Len(s) # 0 => n # 0)
      /\ \A i \in 1..n : i \in 1..Len(s)
  BY <1>1, <1>2
<1> HIDE DEF n
<1>5. t \in Seq(X) /\ Len(t) = n /\ \A i \in 1..n : t[i] = s[i]
  <2>1. /\ t \in Seq(X) /\ Len(t) = IF 1 <= n THEN n - 1 + 1 ELSE 0
        /\ \A i \in 1..n - 1 + 1 : t[i] = s[1 + i - 1]
    BY <1>2, <1>4, SubSeqProperties
  <2> HIDE DEF t
  <2>2. n - 1 + 1 = n /\ (\A i \in 1..n : 1 + i - 1 = i) /\ (~(1 <= n) => n = 0)
    BY <1>4
  <2> QED
    BY <2>1, <2>2
<1> HIDE DEF t
<1>6. ASSUME s # <<>> PROVE t # <<>> /\ Head(t) = Head(s)
  <2>1. Len(s) # 0
    BY <1>6, EmptySeq
  <2>2. Len(t) # 0 /\ 1 \in 1..n
    BY <1>4, <1>5, <2>1
  <2>3. t # <<>> /\ t[1] = s[1]
    BY <1>5, <2>2
  <2> QED
    BY <1>5, <1>6, <2>3
<1> QED
  BY <1>3, <1>4, <1>5, <1>6

LEMMA PoolFacts ==
  ASSUME NEW q
  PROVE  Pool(q) \subseteq Channels /\ FirstTier(Pool(q)) \subseteq Pool(q)
BY DEF Pool, FirstTier

\* what candidatesFor() promises without an explicit route
LEMMA OrdersFacts ==
  ASSUME RoutingInv, NEW r \in Requests, NEW q, ~Explicit(q), NEW s \in Orders(r, q)
  PROVE  /\ s \in Seq(Pool(q))
         /\ \A i, j \in DOMAIN s :
              /\ i < j /\ coolingDown(s[i])
              /\ (s[i] \in FirstTier(Pool(q))) = (s[j] \in FirstTier(Pool(q)))
              => coolingDown(s[j]) \/ halfOpenSaturated(s[j])
         /\ Pool(q) \ FirstTier(Pool(q)) \subseteq ToSet(s)
         /\ conf.strategy = "priority" => BestFirst(s, FirstTier(Pool(q)))
<1> DEFINE S == Pool(q)
           P == FirstTier(S)
           F == S \ P
<1>1. S \subseteq Channels /\ P \subseteq S /\ P \subseteq Channels /\ F \subseteq Channels
      /\ P \cup F = S
  BY PoolFacts
<1>2. PICK p \in PoolOrders(P, r, q), f \in FallbackOrders(F, q) : s = Cut(p) \o f
  <2>1. Orders(r, q) = {Cut(p) \o f : p \in PoolOrders(P, r, q), f \in FallbackOrders(F, q)}
    BY DEF Orders
  <2> HIDE DEF S, P, F
  <2> QED
    BY <2>1
<1> HIDE DEF S, P, F
<1>3. Promises(p, P)
  BY <1>1, PoolOrdersFacts
<1>4. Lists(f, F) /\ Ranked(f)
  BY <1>1, FallbackOrdersFacts
<1>5. Lists(p, P) /\ Ranked(p) /\ p \in Seq(P)
  BY <1>3 DEF Promises, Lists
<1> DEFINE c == Cut(p)
<1>6. /\ c \in Seq(P) /\ Len(c) <= Len(p)
      /\ \A i \in 1..Len(c) : c[i] = p[i]
      /\ p # <<>> => c # <<>> /\ Head(c) = Head(p)
  BY <1>5, CutFacts
<1> HIDE DEF c
<1>7. s = c \o f
  BY <1>2 DEF c
<1>8. c \in Seq(S) /\ f \in Seq(S) /\ f \in Seq(F)
  <2>1. F \subseteq S /\ f \in Seq(F)
    BY <1>4 DEF F, Lists
  <2> QED
    BY <1>1, <1>6, <2>1, SeqMonotonic
<1>9. /\ Len(c) \in Nat /\ Len(f) \in Nat /\ Len(p) \in Nat
      /\ DOMAIN p = 1..Len(p) /\ DOMAIN f = 1..Len(f)
      /\ \A i \in 1..Len(c) : c[i] \in P
      /\ \A i \in 1..Len(f) : f[i] \in F
  BY <1>5, <1>6, <1>8
<1>10. /\ s \in Seq(S) /\ Len(s) = Len(c) + Len(f)
       /\ \A i \in 1..Len(c) + Len(f) : s[i] = IF i <= Len(c) THEN c[i] ELSE f[i - Len(c)]
  BY <1>7, <1>8, ConcatProperties
<1>11. DOMAIN s = 1..Len(c) + Len(f)
  BY <1>10
<1>12. ASSUME NEW i \in DOMAIN s, NEW j \in DOMAIN s, i < j, coolingDown(s[i]),
              (s[i] \in P) = (s[j] \in P)
       PROVE  coolingDown(s[j]) \/ halfOpenSaturated(s[j])
  <2>1. i \in 1..Len(c) + Len(f) /\ j \in 1..Len(c) + Len(f)
    BY <1>11
  <2>2. CASE j <= Len(c)
    <3>1. i \in 1..Len(c) /\ j \in 1..Len(c) /\ i <= Len(c) /\ i \in DOMAIN p /\ j \in DOMAIN p
      BY <1>6, <1>9, <1>12, <2>1, <2>2
    <3>2. s[i] = p[i] /\ s[j] = p[j]
      BY <1>6, <1>10, <2>1, <2>2, <3>1
    <3> QED
      BY <1>5, <1>12, <3>1, <3>2 DEF Ranked
  <2>3. CASE ~(j <= Len(c))
    <3>1. j - Len(c) \in 1..Len(f)
      BY <1>9, <2>1, <2>3
    <3>2. s[j] = f[j - Len(c)] /\ s[j] \in F
      BY <1>9, <1>10, <2>1, <2>3, <3>1
    <3>3. s[i] \notin P
      BY <1>12, <3>2 DEF F
    <3>4. ~(i <= Len(c))
      <4>1. SUFFICES ASSUME i <= Len(c) PROVE FALSE
        OBVIOUS
      <4>2. i \in 1..Len(c)
        BY <1>9, <2>1, <4>1
      <4> QED
        BY <1>9, <1>10, <2>1, <3>3, <4>1, <4>2
    <3>5. i - Len(c) \in DOMAIN f /\ j - Len(c) \in DOMAIN f /\ i - Len(c) < j - Len(c)
      BY <1>9, <1>12, <2>1, <3>1, <3>4
    <3>6. s[i] = f[i - Len(c)]
      BY <1>10, <2>1, <3>4
    <3> QED
      BY <1>4, <1>12, <3>2, <3>5, <3>6 DEF Ranked
  <2> QED
    BY <2>2, <2>3
<1>13. F \subseteq ToSet(s)
  <2> SUFFICES ASSUME NEW d \in F PROVE \E k \in DOMAIN s : s[k] = d
    BY DEF ToSet
  <2>1. PICK i \in 1..Len(f) : f[i] = d
    BY <1>4, <1>9 DEF Lists
  <2> DEFINE k == Len(c) + i
  <2>2. k \in 1..Len(c) + Len(f) /\ ~(k <= Len(c)) /\ k - Len(c) = i
    BY <1>9
  <2> HIDE DEF k
  <2> QED
    BY <1>10, <1>11, <2>1, <2>2
<1>14. ASSUME conf.strategy = "priority" PROVE BestFirst(s, P)
  <2> SUFFICES ASSUME NEW d \in Live(P) PROVE s # <<>> /\ Priority[Head(s)] <= Priority[d]
    BY DEF BestFirst
  <2>1. p # <<>> /\ Priority[Head(p)] <= Priority[d]
    BY <1>3, <1>14 DEF Promises, BestFirst
  <2>2. c # <<>> /\ Head(c) = Head(p)
    BY <1>6, <2>1
  <2>3. s # <<>> /\ Head(s) = Head(c)
    BY <1>7, <1>8, <2>2, ConcatenationHead
  <2> QED
    BY <2>1, <2>2, <2>3
<1> QED
  BY <1>10, <1>12, <1>13, <1>14 DEF S, P, F

-----------------------------------------------------------------------------
(* Every step keeps the invariant.                                         *)

\* an entry of req as the invariant has it
Sound(e) ==
  /\ e \in Entries
  /\ ToSet(e.order) \subseteq e.listed
  /\ e.pc = "using" <=> e.order # <<>>
  /\ e.pc # "idle" => e.q \in Prompts /\ e.listed # {}

RequestsAreSound == req \in [Requests -> Entries] /\ \A r \in Requests : Sound(req[r])

\* the rest of the invariant
Frame ==
  /\ scene \in Scenes /\ conf \in scene.confs
  /\ health \in [Channels -> {"ok", "failing", "cooling", "trial", "full"}]
  /\ unsupported \in [Channels -> Seq(Models)]

Memory ==
  /\ lastGood \in [Models -> Channels \cup {None}]
  /\ affinity \in [Agents -> Channels \cup {None}]
  /\ turn \in 0 .. TurnCycle - 1
  /\ turnSeen \in [Requests -> {Unset} \cup 0 .. TurnCycle - 1]
  /\ weightState \in [Channels -> Int]

LEMMA InvariantInParts == RoutingInv <=> RequestsAreSound /\ Frame /\ Memory
BY DEF RoutingInv, RoutingTypeOK, RequestsAreListed, RequestsAreSound, Sound, Frame, Memory

LEMMA InvariantInPartsNext == RoutingInv' <=> RequestsAreSound' /\ Frame' /\ Memory'
BY DEF RoutingInv, RoutingTypeOK, RequestsAreListed, RequestsAreSound, Sound, Frame, Memory

LEMMA IdleIsSound == Sound(NoRequest)
<1>1. <<>> \in Seq(Channels)
  OBVIOUS
<1>2. ToSet(<<>>) = {}
  BY DEF ToSet
<1> QED
  BY <1>1, <1>2 DEF Sound, NoRequest, Entries

LEMMA EntryReplaced ==
  ASSUME RequestsAreSound, NEW r \in Requests, NEW e, Sound(e), req' = [req EXCEPT ![r] = e]
  PROVE  RequestsAreSound'
<1>1. req' \in [Requests -> Entries]
  BY DEF RequestsAreSound, Sound
<1>2. \A p \in Requests : req'[p] = IF p = r THEN e ELSE req[p]
  BY DEF RequestsAreSound
<1>3. ASSUME NEW p \in Requests PROVE Sound(req'[p])
  BY <1>2 DEF RequestsAreSound
<1>4. RequestsAreSound' <=> req' \in [Requests -> Entries] /\ \A p \in Requests : Sound(req'[p])
  BY DEF RequestsAreSound, Sound
<1> QED
  BY <1>1, <1>3, <1>4

LEMMA RequestsUnchanged == ASSUME RequestsAreSound, req' = req PROVE RequestsAreSound'
<1>1. RequestsAreSound' <=> req' \in [Requests -> Entries] /\ \A p \in Requests : Sound(req'[p])
  BY DEF RequestsAreSound, Sound
<1> QED
  BY <1>1 DEF RequestsAreSound

LEMMA OrdersTyped ==
  ASSUME RoutingInv, NEW r \in Requests, NEW q \in Prompts, NEW s \in Orders(r, q)
  PROVE  s \in Seq(Channels)
<1>1. CASE Explicit(q)
  <2>1. s = Among(Routes[q.model], Pool(q))
    BY <1>1 DEF Orders
  <2> DEFINE X == ToSet(Routes[q.model])
  <2>2. Routes[q.model] \in Seq(X)
    BY RoutesAssumption DEF Prompts
  <2> HIDE DEF X
  <2>3. s \in Seq(X \cap Pool(q))
    BY <2>1, <2>2, AmongFacts
  <2>4. X \cap Pool(q) \subseteq Channels
    BY PoolFacts
  <2> QED
    BY <2>3, <2>4, SeqMonotonic
<1>2. CASE ~Explicit(q)
  <2>1. s \in Seq(Pool(q)) /\ Pool(q) \subseteq Channels
    BY <1>2, OrdersFacts, PoolFacts
  <2> QED
    BY <2>1, SeqMonotonic
<1> QED
  BY <1>1, <1>2

LEMMA SpendKeeps ==
  ASSUME RoutingInv, NEW r \in Requests, NEW q, Spend(r, q)
  PROVE  Frame' /\ Memory'
<1>1. Frame /\ Memory
  BY InvariantInParts
<1>2. turn' \in 0 .. TurnCycle - 1 /\ turnSeen' \in [Requests -> {Unset} \cup 0 .. TurnCycle - 1]
  <2>1. CASE TakesTurn(q)
    <3>1. turn' = CursorAfter(r) /\ turnSeen' = [turnSeen EXCEPT ![r] = TurnOf(r)]
      BY <2>1 DEF Spend
    <3>2. \A x, m \in Nat : m # 0 => (x + 1) % m \in 0 .. m - 1
      OBVIOUS
    <3>3. TurnCycle \in Nat \ {0} /\ turn \in Nat
      BY <1>1, TurnAssumption DEF Memory
    <3>4. CursorAfter(r) \in 0 .. TurnCycle - 1
      BY <1>1, <3>2, <3>3 DEF CursorAfter, Memory
    <3>5. TurnOf(r) \in 0 .. TurnCycle - 1
      BY <1>1 DEF TurnOf, Memory, Unset
    <3> QED
      BY <1>1, <3>1, <3>4, <3>5 DEF Memory
  <2>2. CASE ~TakesTurn(q)
    BY <1>1, <2>2 DEF Spend, Memory
  <2> QED
    BY <2>1, <2>2
<1>3. weightState' \in [Channels -> Int]
  <2>1. weightState \in [Channels -> Int]
    BY <1>1 DEF Memory
  <2> DEFINE S == Pool(q)
             tier(c) == IF c \in FirstTier(S) THEN FirstTier(S) ELSE S \ FirstTier(S)
             account(c) == IF c \notin S THEN weightState[c]
                           ELSE IF c \notin Live(S) THEN 0
                           ELSE WeightsAfter(Live(tier(c)))[c]
  <2>2. CASE conf.strategy # "weighted" \/ Explicit(q)
    BY <2>1, <2>2 DEF Spend, Accounts
  <2>3. CASE ~(conf.strategy # "weighted" \/ Explicit(q))
    <3>1. weightState' = [c \in Channels |-> account(c)]
      BY <2>3 DEF Spend, Accounts
    <3>2. ASSUME NEW c \in Channels PROVE account(c) \in Int
      <4>1. tier(c) \subseteq Channels
        BY PoolFacts
      <4> HIDE DEF tier, S
      <4>2. Live(tier(c)) \subseteq Channels
        BY <4>1, Parts
      <4>3. WeightsAfter(Live(tier(c))) \in [Channels -> Int]
        BY <2>1, <4>2, WeightsAfterFacts
      <4> QED
        BY <2>1, <4>3
    <3> HIDE DEF account
    <3> QED
      BY <3>1, <3>2
  <2> QED
    BY <2>2, <2>3
<1>4. UNCHANGED <<scene, conf, channels, lastGood, affinity, reloads>>
  BY DEF Spend
<1> QED
  BY <1>1, <1>2, <1>3, <1>4 DEF Frame, Memory, channels

LEMMA SelectKeeps ==
  ASSUME RoutingInv, NEW r \in Requests, NEW q \in Prompts, Select(r, q)
  PROVE  RoutingInv'
<1>1. Frame' /\ Memory'
  BY SpendKeeps DEF Select
<1>2. RequestsAreSound
  BY InvariantInParts
<1>3. PICK s \in Orders(r, q) :
        req' = [req EXCEPT ![r] = IF s = <<>> THEN NoRequest
                                  ELSE [pc |-> "using", q |-> q, order |-> s,
                                        listed |-> ToSet(s), injected |-> @.injected]]
  BY DEF Select
<1> DEFINE new == [pc |-> "using", q |-> q, order |-> s, listed |-> ToSet(s),
                   injected |-> req[r].injected]
           e == IF s = <<>> THEN NoRequest ELSE new
<1>4. req' = [req EXCEPT ![r] = e]
  BY <1>2, <1>3 DEF RequestsAreSound
<1>5. Sound(e)
  <2>1. CASE s = <<>>
    BY <2>1, IdleIsSound
  <2>2. CASE s # <<>>
    <3>1. s \in Seq(Channels)
      BY OrdersTyped
    <3>2. ToSet(s) \subseteq Channels /\ ToSet(s) # {}
      <4>1. Len(s) \in Nat \ {0} /\ DOMAIN s = 1..Len(s) /\ \A i \in 1..Len(s) : s[i] \in Channels
        BY <2>2, <3>1, EmptySeq
      <4>2. 1 \in DOMAIN s
        BY <4>1
      <4> QED
        BY <4>1, <4>2 DEF ToSet
    <3>3. req[r].injected \in BOOLEAN
      BY <1>2 DEF RequestsAreSound, Entries
    <3>4. new \in Entries
      BY <3>1, <3>2, <3>3 DEF Entries
    <3> QED
      BY <2>2, <3>2, <3>4 DEF Sound
  <2> QED
    BY <2>1, <2>2
<1> HIDE DEF e
<1>6. RequestsAreSound'
  BY <1>2, <1>4, <1>5, EntryReplaced
<1> QED
  BY <1>1, <1>6, InvariantInPartsNext

LEMMA InjectKeeps ==
  ASSUME RoutingInv, NEW r \in Requests, Inject(r)
  PROVE  RoutingInv'
<1>1. Frame' /\ Memory'
  BY SpendKeeps DEF Inject
<1>2. RequestsAreSound /\ Sound(req[r]) /\ req[r].pc = "again"
  BY InvariantInParts DEF Inject, RequestsAreSound
<1>3. /\ req[r] \in Entries /\ req[r].q \in Prompts
      /\ req[r].listed # {} /\ req[r].listed \subseteq Channels
  BY <1>2 DEF Sound, Entries
<1>4. PICK s \in Orders(r, req[r].q) :
        LET rest == Among(s, Channels \ req[r].listed)
        IN  req' = [req EXCEPT ![r].pc = IF rest = <<>> THEN "again" ELSE "using",
                               ![r].order = rest,
                               ![r].listed = @ \cup ToSet(rest),
                               ![r].injected = TRUE]
  BY DEF Inject
<1> DEFINE rest == Among(s, Channels \ req[r].listed)
           pc == IF rest = <<>> THEN "again" ELSE "using"
<1>5. rest \in Seq(Channels) /\ ToSet(rest) \in SUBSET Channels
  <2>1. s \in Seq(Channels)
    BY <1>3, OrdersTyped
  <2>2. rest \in Seq(Channels \cap (Channels \ req[r].listed))
    BY <2>1, AmongFacts
  <2>3. Channels \cap (Channels \ req[r].listed) \subseteq Channels
    OBVIOUS
  <2>4. rest \in Seq(Channels)
    BY <2>2, <2>3, SeqMonotonic
  <2> HIDE DEF rest
  <2> QED
    BY <2>4 DEF ToSet
<1>6. req' = [req EXCEPT ![r].pc = pc, ![r].order = rest, ![r].listed = @ \cup ToSet(rest),
                         ![r].injected = TRUE]
  BY <1>4
<1>7. pc \in {"idle", "using", "again"} /\ pc # "idle" /\ (pc = "using" <=> rest # <<>>)
  OBVIOUS
<1> HIDE DEF rest, pc
<1>0. PICK e : e = [req[r] EXCEPT !.pc = pc, !.order = rest, !.listed = @ \cup ToSet(rest),
                                  !.injected = TRUE]
  OBVIOUS
<1>8. req' = [req EXCEPT ![r] = e]
  BY <1>2, <1>6, <1>0 DEF RequestsAreSound
<1>9. e \in Entries /\ e.pc = pc /\ e.q = req[r].q /\ e.order = rest
      /\ e.listed = req[r].listed \cup ToSet(rest)
  BY <1>3, <1>5, <1>7, <1>0 DEF Entries
<1>10. Sound(e)
  BY <1>3, <1>7, <1>9 DEF Sound
<1>11. RequestsAreSound'
  BY <1>2, <1>8, <1>10, EntryReplaced
<1> QED
  BY <1>1, <1>11, InvariantInPartsNext

LEMMA EndsKeeps ==
  ASSUME RoutingInv, NEW r \in Requests, Ends(r)
  PROVE  RequestsAreSound' /\ turnSeen' \in [Requests -> {Unset} \cup 0 .. TurnCycle - 1]
<1>1. RequestsAreSound /\ Memory
  BY InvariantInParts
<1>2. RequestsAreSound'
  BY <1>1, IdleIsSound, EntryReplaced DEF Ends
<1> QED
  BY <1>1, <1>2 DEF Ends, Memory

LEMMA MovesOnKeeps ==
  ASSUME RoutingInv, NEW r \in Requests, req[r].pc = "using", MovesOn(r)
  PROVE  RequestsAreSound'
<1>1. RequestsAreSound /\ Sound(req[r])
  BY InvariantInParts DEF RequestsAreSound
<1>2. /\ req[r] \in Entries /\ req[r].order \in Seq(Channels) /\ req[r].order # <<>>
      /\ req[r].q \in Prompts /\ req[r].listed # {} /\ ToSet(req[r].order) \subseteq req[r].listed
  BY <1>1 DEF Sound, Entries
<1> DEFINE o == req[r].order
           rest == Tail(o)
           pc == IF rest = <<>> THEN "again" ELSE "using"
<1>3. rest \in Seq(Channels) /\ ToSet(rest) \subseteq req[r].listed
  <2>1. /\ rest \in Seq(Channels) /\ Len(rest) = Len(o) - 1
        /\ \A i \in 1..Len(rest) : rest[i] = o[i + 1]
    BY <1>2, HeadTailProperties
  <2>2. DOMAIN rest = 1..Len(rest) /\ DOMAIN o = 1..Len(o) /\ Len(o) \in Nat
    BY <1>2, <2>1
  <2> HIDE DEF rest, o
  <2>3. \A i \in DOMAIN rest : rest[i] = o[i + 1] /\ i + 1 \in DOMAIN o
    BY <2>1, <2>2
  <2>4. ToSet(rest) \subseteq ToSet(o)
    BY <2>3 DEF ToSet
  <2> QED
    BY <1>2, <2>1, <2>4 DEF o
<1>4. req' = [req EXCEPT ![r].order = rest, ![r].pc = pc]
  BY DEF MovesOn
<1>5. pc \in {"idle", "using", "again"} /\ pc # "idle" /\ (pc = "using" <=> rest # <<>>)
  OBVIOUS
<1> HIDE DEF rest, pc
<1>0. PICK e : e = [req[r] EXCEPT !.order = rest, !.pc = pc]
  OBVIOUS
<1>6. req' = [req EXCEPT ![r] = e]
  BY <1>1, <1>4, <1>0 DEF RequestsAreSound
<1>7. e \in Entries /\ e.pc = pc /\ e.q = req[r].q /\ e.order = rest /\ e.listed = req[r].listed
  BY <1>2, <1>3, <1>5, <1>0 DEF Entries
<1>8. Sound(e)
  BY <1>2, <1>3, <1>5, <1>7 DEF Sound
<1> QED
  BY <1>1, <1>6, <1>8, EntryReplaced

LEMMA ChannelIsOne ==
  ASSUME RoutingInv, NEW r \in Requests, req[r].pc = "using"
  PROVE  Channel(r) \in Channels /\ req[r].q.model \in Models
<1>1. Sound(req[r])
  BY InvariantInParts DEF RequestsAreSound
<1>2. req[r].order \in Seq(Channels) /\ req[r].order # <<>> /\ req[r].q \in Prompts
  BY <1>1 DEF Sound, Entries
<1> QED
  BY <1>2, HeadTailProperties DEF Channel, Prompts

LEMMA SucceedKeeps ==
  ASSUME RoutingInv, NEW r \in Requests, Succeed(r)
  PROVE  RoutingInv'
<1>1. Frame /\ Memory /\ Channel(r) \in Channels
  BY InvariantInParts, ChannelIsOne DEF Succeed
<1>2. RequestsAreSound' /\ turnSeen' \in [Requests -> {Unset} \cup 0 .. TurnCycle - 1]
  BY EndsKeeps DEF Succeed
<1>3. Frame'
  BY <1>1 DEF Succeed, Frame
<1>4. lastGood' \in [Models -> Channels \cup {None}]
  BY <1>1 DEF Succeed, Memory
<1>5. affinity' \in [Agents -> Channels \cup {None}]
  BY <1>1 DEF Succeed, Memory
<1>6. Memory'
  BY <1>1, <1>2, <1>4, <1>5 DEF Succeed, Memory
<1> QED
  BY <1>2, <1>3, <1>6, InvariantInPartsNext

LEMMA FailOverKeeps ==
  ASSUME RoutingInv, NEW r \in Requests, FailOver(r)
  PROVE  RoutingInv'
<1>1. Frame /\ Memory /\ Channel(r) \in Channels
  BY InvariantInParts, ChannelIsOne DEF FailOver
<1>2. RequestsAreSound'
  BY MovesOnKeeps DEF FailOver
<1>3. Frame'
  <2>1. PICK h \in {health[Channel(r)], "cooling"} \cup (IF health[Channel(r)] = "ok" THEN {"failing"} ELSE {}) :
          health' = [health EXCEPT ![Channel(r)] = h]
    BY DEF FailOver
  <2>2. h \in {"ok", "failing", "cooling", "trial", "full"}
    BY <1>1, <2>1 DEF Frame
  <2> QED
    BY <1>1, <2>1, <2>2 DEF FailOver, Frame
<1>4. Memory'
  BY <1>1 DEF FailOver, Memory, memory
<1> QED
  BY <1>2, <1>3, <1>4, InvariantInPartsNext

LEMMA WithoutTyped ==
  ASSUME NEW X, NEW s \in Seq(X), NEW c
  PROVE  Without(s, c) \in Seq(X)
<1>1. CASE Contains(s, c)
  BY <1>1, WithoutFacts
<1>2. CASE ~Contains(s, c)
  <2>1. c \notin ToSet(s)
    BY <1>2 DEF Contains, ToSet
  <2> QED
    BY <2>1 DEF Without
<1> QED
  BY <1>1, <1>2

LEMMA RejectedKeeps ==
  ASSUME RoutingInv, NEW r \in Requests, Rejected(r)
  PROVE  RoutingInv'
<1>1. Frame /\ Memory /\ Channel(r) \in Channels /\ req[r].q.model \in Models
  BY InvariantInParts, ChannelIsOne DEF Rejected
<1>2. RequestsAreSound'
  BY MovesOnKeeps DEF Rejected
<1>3. ASSUME NEW s \in Seq(Models), NEW m \in Models PROVE markUnsupported(s, m) \in Seq(Models)
  <2> DEFINE entries == Append(Without(s, m), m)
  <2>1. Without(s, m) \in Seq(Models)
    BY WithoutTyped
  <2>2. entries \in Seq(Models) /\ entries # <<>>
    BY <2>1, AppendProperties
  <2> HIDE DEF entries
  <2>3. Tail(entries) \in Seq(Models)
    BY <2>2, HeadTailProperties
  <2>4. markUnsupported(s, m) \in {entries, Tail(entries)}
    BY DEF markUnsupported, entries
  <2> QED
    BY <2>2, <2>3, <2>4
<1>4. Frame'
  <2>1. unsupported[Channel(r)] \in Seq(Models)
    BY <1>1 DEF Frame
  <2>2. markUnsupported(unsupported[Channel(r)], req[r].q.model) \in Seq(Models)
    BY <1>1, <1>3, <2>1
  <2> QED
    BY <1>1, <2>2 DEF Rejected, Frame
<1>5. Memory'
  BY <1>1 DEF Rejected, Memory, memory
<1> QED
  BY <1>2, <1>4, <1>5, InvariantInPartsNext

LEMMA GiveUpKeeps ==
  ASSUME RoutingInv, NEW r \in Requests, GiveUp(r)
  PROVE  RoutingInv'
<1>1. Frame /\ Memory
  BY InvariantInParts
<1>2. RequestsAreSound' /\ turnSeen' \in [Requests -> {Unset} \cup 0 .. TurnCycle - 1]
  BY EndsKeeps DEF GiveUp
<1>3. Frame' /\ Memory'
  BY <1>1, <1>2 DEF GiveUp, Frame, Memory, channels
<1> QED
  BY <1>2, <1>3, InvariantInPartsNext

LEMMA HealthChangesKeeps ==
  ASSUME RoutingInv, NEW c, HealthChanges(c)
  PROVE  RoutingInv'
<1>1. RequestsAreSound /\ Frame /\ Memory
  BY InvariantInParts
<1>2. RequestsAreSound' /\ Memory'
  BY <1>1, RequestsUnchanged DEF HealthChanges, Memory, memory
<1>3. PICK h \in HealthAfter(health[c]) : health' = [health EXCEPT ![c] = h]
  BY DEF HealthChanges
<1>4. health' \in [Channels -> {"ok", "failing", "cooling", "trial", "full"}]
  <2>1. CASE c \in Channels
    <3>1. health[c] \in {"ok", "failing", "cooling", "trial", "full"}
      BY <1>1, <2>1 DEF Frame
    <3>2. h \in {"ok", "failing", "cooling", "trial", "full"}
      BY <1>3, <3>1 DEF HealthAfter
    <3> QED
      BY <1>1, <1>3, <3>2 DEF Frame
  <2>2. CASE c \notin Channels
    BY <1>1, <1>3, <2>2 DEF Frame
  <2> QED
    BY <2>1, <2>2
<1>5. Frame'
  BY <1>1, <1>4 DEF HealthChanges, Frame
<1> QED
  BY <1>2, <1>5, InvariantInPartsNext

LEMMA ExpiresKeeps ==
  ASSUME RoutingInv, NEW c \in Channels, NEW m \in Models, Expires(c, m)
  PROVE  RoutingInv'
<1>1. RequestsAreSound /\ Frame /\ Memory
  BY InvariantInParts
<1>2. RequestsAreSound' /\ Memory'
  BY <1>1, RequestsUnchanged DEF Expires, Memory, memory
<1>3. Without(unsupported[c], m) \in Seq(Models)
  BY <1>1, WithoutTyped DEF Frame
<1>4. Frame'
  BY <1>1, <1>3 DEF Expires, Frame
<1> QED
  BY <1>2, <1>4, InvariantInPartsNext

LEMMA ReloadKeeps ==
  ASSUME RoutingInv, NEW n \in scene.confs, Reload(n)
  PROVE  RoutingInv'
<1>1. RequestsAreSound /\ Frame /\ Memory
  BY InvariantInParts
<1>2. RequestsAreSound'
  BY <1>1, RequestsUnchanged DEF Reload
<1>3. Frame' /\ Memory'
  BY <1>1 DEF Reload, Frame, Memory, channels
<1> QED
  BY <1>2, <1>3, InvariantInPartsNext

LEMMA AffinityExpiresKeeps ==
  ASSUME RoutingInv, NEW a \in Agents, AffinityExpires(a)
  PROVE  RoutingInv'
<1>1. RequestsAreSound /\ Frame /\ Memory
  BY InvariantInParts
<1>2. RequestsAreSound'
  BY <1>1, RequestsUnchanged DEF AffinityExpires
<1>3. Frame' /\ Memory'
  BY <1>1 DEF AffinityExpires, Frame, Memory, channels
<1> QED
  BY <1>2, <1>3, InvariantInPartsNext

LEMMA RoutingInitially == RoutingInit => RoutingInv
<1> SUFFICES ASSUME RoutingInit PROVE RoutingInv
  OBVIOUS
<1>1. RequestsAreSound
  <2>1. Sound(NoRequest)
    BY IdleIsSound
  <2> QED
    BY <2>1 DEF RoutingInit, RequestsAreSound, Sound
<1>2. Frame
  <2>1. <<>> \in Seq(Models)
    OBVIOUS
  <2> QED
    BY <2>1 DEF RoutingInit, Frame
<1>3. Memory
  <2>1. 0 \in 0 .. TurnCycle - 1
    BY TurnAssumption
  <2> QED
    BY <2>1 DEF RoutingInit, Memory
<1> QED
  BY <1>1, <1>2, <1>3, InvariantInParts

\* every step, and none, keeps the invariant
LEMMA RoutingSteps == RoutingInv /\ [RoutingNext]_routingVars => RoutingInv'
<1> SUFFICES ASSUME RoutingInv, [RoutingNext]_routingVars PROVE RoutingInv'
  OBVIOUS
<1>1. RequestsAreSound /\ Frame /\ Memory
  BY InvariantInParts
<1>2. ASSUME NEW r \in Requests, Arrive(r) PROVE RoutingInv'
  <2>1. PICK q \in scene.traffic : Select(r, q)
    BY <1>2 DEF Arrive
  <2>2. q \in Prompts
    BY <1>1, ScenesAssumption DEF Frame
  <2> QED
    BY <2>1, <2>2, SelectKeeps
<1>3. ASSUME NEW r \in Requests, SelectAgain(r) PROVE RoutingInv'
  <2>1. req[r].q \in Prompts
    BY <1>1, <1>3 DEF SelectAgain, RequestsAreSound, Sound
  <2> QED
    BY <1>3, <2>1, SelectKeeps DEF SelectAgain
<1>4. ASSUME NEW r \in Requests, Inject(r) PROVE RoutingInv'
  BY <1>4, InjectKeeps
<1>5. ASSUME NEW r \in Requests, Succeed(r) PROVE RoutingInv'
  BY <1>5, SucceedKeeps
<1>6. ASSUME NEW r \in Requests, FailOver(r) PROVE RoutingInv'
  BY <1>6, FailOverKeeps
<1>7. ASSUME NEW r \in Requests, Rejected(r) PROVE RoutingInv'
  BY <1>7, RejectedKeeps
<1>8. ASSUME NEW r \in Requests, GiveUp(r) PROVE RoutingInv'
  BY <1>8, GiveUpKeeps
<1>9. ASSUME NEW c \in scene.faulty, HealthChanges(c) PROVE RoutingInv'
  BY <1>9, HealthChangesKeeps
<1>10. ASSUME NEW c \in Channels, NEW m \in Models, Expires(c, m) PROVE RoutingInv'
  BY <1>10, ExpiresKeeps
<1>11. ASSUME NEW a \in Agents, AffinityExpires(a) PROVE RoutingInv'
  BY <1>11, AffinityExpiresKeeps
<1>12. ASSUME NEW n \in scene.confs, Reload(n) PROVE RoutingInv'
  BY <1>12, ReloadKeeps
<1>13. CASE UNCHANGED routingVars
  <2>1. Frame' /\ Memory'
    BY <1>1, <1>13 DEF routingVars, channels, memory, Frame, Memory
  <2>2. RequestsAreSound'
    BY <1>1, <1>13, RequestsUnchanged DEF routingVars
  <2> QED
    BY <2>1, <2>2, InvariantInPartsNext
<1> QED
  BY <1>2, <1>3, <1>4, <1>5, <1>6, <1>7, <1>8, <1>9, <1>10, <1>11, <1>12, <1>13 DEF RoutingNext

(* A request that is under way asks for something and has been given a     *)
(* list, whatever reloads, failures and rejections happen to the channels  *)
(* it is on; the turns stay within the cycle and the accounts are numbers. *)
THEOREM RoutingIsSound == RoutingSpec => []RoutingInv
<1>1. RoutingInit => RoutingInv
  BY RoutingInitially
<1>2. RoutingInv /\ [RoutingNext]_routingVars => RoutingInv'
  BY RoutingSteps
<1> QED
  BY <1>1, <1>2, PTL DEF RoutingSpec

(* Type correctness of the routing memory.                                 *)
THEOREM RoutingTypeCorrect == RoutingSpec => []RoutingTypeOK
<1>1. RoutingInv => RoutingTypeOK
  BY DEF RoutingInv
<1> QED
  BY <1>1, RoutingIsSound, PTL

-----------------------------------------------------------------------------
(* What a new list promises.                                               *)

\* only candidatesFor() makes a new list; a request that goes on with the channels it has
\* not been given yet keeps the ones it was given
LEMMA NewListIsAnOrder ==
  ASSUME RoutingInv, [RoutingNext]_routingVars, NEW r \in Requests, Selects(r)
  PROVE  /\ ~Explicit(req'[r].q) /\ req'[r].order \in Orders(r, req'[r].q)
         /\ req'[r].listed = ToSet(req'[r].order)
<1>1. RequestsAreSound /\ Sound(req[r]) /\ req \in [Requests -> Entries]
  BY InvariantInParts DEF RequestsAreSound
<1>2. req[r].pc # "using" /\ req'[r].pc = "using" /\ req'[r].listed = ToSet(req'[r].order)
      /\ ~Explicit(req'[r].q)
  BY DEF Selects
<1>3. ASSUME NEW p \in Requests, NEW q, Select(p, q)
      PROVE  req'[r].order \in Orders(r, req'[r].q)
  <2>1. PICK s \in Orders(p, q) :
          req' = [req EXCEPT ![p] = IF s = <<>> THEN NoRequest
                                    ELSE [pc |-> "using", q |-> q, order |-> s,
                                          listed |-> ToSet(s), injected |-> @.injected]]
    BY <1>3 DEF Select
  <2>2. p = r
    BY <1>1, <1>2, <2>1
  <2>3. req'[r] = IF s = <<>> THEN NoRequest
                  ELSE [pc |-> "using", q |-> q, order |-> s, listed |-> ToSet(s),
                        injected |-> req[r].injected]
    BY <1>1, <2>1, <2>2
  <2>4. s # <<>>
    BY <1>2, <2>3 DEF NoRequest
  <2>5. req'[r].order = s /\ req'[r].q = q
    BY <2>3, <2>4
  <2> QED
    BY <2>1, <2>2, <2>5
<1>4. ASSUME NEW p \in Requests, Inject(p) PROVE FALSE
  <2>1. PICK s \in Orders(p, req[p].q) :
          LET rest == Among(s, Channels \ req[p].listed)
          IN  req' = [req EXCEPT ![p].pc = IF rest = <<>> THEN "again" ELSE "using",
                                 ![p].order = rest,
                                 ![p].listed = @ \cup ToSet(rest),
                                 ![p].injected = TRUE]
    BY <1>4 DEF Inject
  <2> DEFINE rest == Among(s, Channels \ req[p].listed)
             pc == IF rest = <<>> THEN "again" ELSE "using"
  <2>2. req' = [req EXCEPT ![p].pc = pc, ![p].order = rest, ![p].listed = @ \cup ToSet(rest),
                           ![p].injected = TRUE]
    BY <2>1
  <2>3. Sound(req[p]) /\ req[p].pc = "again"
    BY <1>1, <1>4 DEF RequestsAreSound, Inject
  <2>4. req[p] \in Entries /\ req[p].q \in Prompts /\ req[p].listed # {}
    BY <2>3 DEF Sound
  <2>5. rest \in Seq(Channels \cap (Channels \ req[p].listed))
    <3>1. s \in Seq(Channels)
      BY <2>4, OrdersTyped
    <3> QED
      BY <3>1, AmongFacts
  <2> HIDE DEF rest, pc
  <2>6. p = r
    BY <1>1, <1>2, <2>2
  <2>7. req'[r].listed = req[r].listed \cup ToSet(rest) /\ req'[r].order = rest
    BY <1>1, <2>2, <2>4, <2>6 DEF Entries
  <2>8. \A c \in ToSet(rest) : c \notin req[r].listed
    BY <2>5, <2>6 DEF ToSet
  <2> QED
    BY <1>2, <2>4, <2>6, <2>7, <2>8
<1>5. ASSUME NEW p \in Requests, Ends(p) PROVE FALSE
  BY <1>1, <1>2, <1>5 DEF Ends, NoRequest
<1>6. ASSUME NEW p \in Requests, req[p].pc = "using", MovesOn(p) PROVE FALSE
  BY <1>1, <1>2, <1>6 DEF MovesOn
<1>7. ASSUME req' = req PROVE FALSE
  BY <1>2, <1>7
<1>8. \A p \in Requests : ~Succeed(p) /\ ~FailOver(p) /\ ~Rejected(p) /\ ~GiveUp(p) /\ ~Inject(p)
  BY <1>4, <1>5, <1>6 DEF Succeed, FailOver, Rejected, GiveUp
<1>9. /\ \A c : ~HealthChanges(c)
      /\ \A c, m : ~Expires(c, m)
      /\ \A a : ~AffinityExpires(a)
      /\ \A n : ~Reload(n)
      /\ ~UNCHANGED routingVars
  BY <1>7 DEF HealthChanges, Expires, AffinityExpires, Reload, routingVars
<1>10. \E p \in Requests : \E q : Select(p, q)
  BY <1>8, <1>9 DEF RoutingNext, Arrive, SelectAgain
<1> QED
  BY <1>2, <1>3, <1>10

(* The theorem behind the run: whatever the strategy, the pins, the tiers, *)
(* the agent's channel and the blacklists are, and however many channels   *)
(* and models there are, no list tries a channel that cools before a fit   *)
(* one of its tier, and none loses a channel of the second tier.           *)
THEOREM CoolingChannelsComeLast == RoutingSpec => CoolingComesLast
<1> DEFINE A == \A r \in Requests : Selects(r) =>
                  LET S == Pool(req'[r].q)
                      s == req'[r].order
                  IN  /\ \A i, j \in DOMAIN s :
                           /\ i < j /\ coolingDown(s[i])
                           /\ (s[i] \in FirstTier(S)) = (s[j] \in FirstTier(S))
                           => coolingDown(s[j]) \/ halfOpenSaturated(s[j])
                      /\ S \ FirstTier(S) \subseteq req'[r].listed
<1>1. RoutingInv /\ [RoutingNext]_routingVars => A
  <2> SUFFICES ASSUME RoutingInv, [RoutingNext]_routingVars, NEW r \in Requests, Selects(r)
               PROVE  LET S == Pool(req'[r].q)
                          s == req'[r].order
                      IN  /\ \A i, j \in DOMAIN s :
                               /\ i < j /\ coolingDown(s[i])
                               /\ (s[i] \in FirstTier(S)) = (s[j] \in FirstTier(S))
                               => coolingDown(s[j]) \/ halfOpenSaturated(s[j])
                          /\ S \ FirstTier(S) \subseteq req'[r].listed
    OBVIOUS
  <2>1. PICK q : q = req'[r].q
    OBVIOUS
  <2>2. PICK s : s = req'[r].order
    OBVIOUS
  <2>3. ~Explicit(q) /\ s \in Orders(r, q) /\ req'[r].listed = ToSet(s)
    BY <2>1, <2>2, NewListIsAnOrder
  <2>4. /\ \A i, j \in DOMAIN s :
             /\ i < j /\ coolingDown(s[i])
             /\ (s[i] \in FirstTier(Pool(q))) = (s[j] \in FirstTier(Pool(q)))
             => coolingDown(s[j]) \/ halfOpenSaturated(s[j])
        /\ Pool(q) \ FirstTier(Pool(q)) \subseteq ToSet(s)
    BY <2>3, OrdersFacts
  <2> QED
    BY <2>1, <2>2, <2>3, <2>4
<1> HIDE DEF A
<1>2. CoolingComesLast <=> [][A]_routingVars
  BY DEF CoolingComesLast, A
<1> QED
  BY <1>1, <1>2, RoutingIsSound, PTL DEF RoutingSpec

(* Under "priority" no pin costs a request the best live channel: the      *)
(* head of every list is as good as any live channel of the first tier.    *)
THEOREM PinsKeepThePriority == RoutingSpec => PinsKeepPriority
<1> DEFINE A == \A r \in Requests : Selects(r) /\ conf.strategy = "priority" =>
                  \A c \in Live(FirstTier(Pool(req'[r].q))) :
                    Priority[Head(req'[r].order)] <= Priority[c]
<1>1. RoutingInv /\ [RoutingNext]_routingVars => A
  <2> SUFFICES ASSUME RoutingInv, [RoutingNext]_routingVars, NEW r \in Requests, Selects(r),
                      conf.strategy = "priority",
                      NEW c \in Live(FirstTier(Pool(req'[r].q)))
               PROVE  Priority[Head(req'[r].order)] <= Priority[c]
    OBVIOUS
  <2>1. PICK q : q = req'[r].q
    OBVIOUS
  <2>2. PICK s : s = req'[r].order
    OBVIOUS
  <2>3. ~Explicit(q) /\ s \in Orders(r, q)
    BY <2>1, <2>2, NewListIsAnOrder
  <2>4. BestFirst(s, FirstTier(Pool(q)))
    BY <2>3, OrdersFacts
  <2> QED
    BY <2>1, <2>2, <2>4 DEF BestFirst
<1> HIDE DEF A
<1>2. PinsKeepPriority <=> [][A]_routingVars
  BY DEF PinsKeepPriority, A
<1> QED
  BY <1>1, <1>2, RoutingIsSound, PTL DEF RoutingSpec

-----------------------------------------------------------------------------
(* What groups of channels may owe.                                        *)

LEMMA TimesKeepsOrder ==
  ASSUME NEW w \in Nat, NEW a \in Int, NEW b \in Int, a <= b
  PROVE  w * a <= w * b
<1>1. b - a \in Nat
  OBVIOUS
<1>2. \A x, y \in Nat : x * y \in Nat
  OBVIOUS
<1>3. w * (b - a) \in Nat
  BY <1>1, <1>2
<1>4. w * (b - a) = w * b - w * a
  OBVIOUS
<1>5. w * a \in Int /\ w * b \in Int
  OBVIOUS
<1> QED
  BY <1>3, <1>4, <1>5

LEMMA CountFacts ==
  /\ Cardinality(Channels) \in Nat
  /\ \A T \in SUBSET Channels : /\ IsFiniteSet(T) /\ Cardinality(T) \in 0..Cardinality(Channels)
                                /\ \A c \in Channels \ T : Cardinality(T \cup {c}) = Cardinality(T) + 1
                                /\ \A c \in T : Cardinality(T \ {c}) = Cardinality(T) - 1
                                /\ \A U \in SUBSET T : Cardinality(U) <= Cardinality(T)
<1>1. Cardinality(Channels) \in Nat
  BY ChannelsAreFinite, FS_CardinalityType
<1>2. ASSUME NEW T \in SUBSET Channels
      PROVE  /\ IsFiniteSet(T) /\ Cardinality(T) \in 0..Cardinality(Channels)
             /\ \A c \in Channels \ T : Cardinality(T \cup {c}) = Cardinality(T) + 1
             /\ \A c \in T : Cardinality(T \ {c}) = Cardinality(T) - 1
             /\ \A U \in SUBSET T : Cardinality(U) <= Cardinality(T)
  <2>1. IsFiniteSet(T) /\ Cardinality(T) <= Cardinality(Channels)
    BY ChannelsAreFinite, FS_Subset
  <2>2. Cardinality(T) \in Nat
    BY <2>1, FS_CardinalityType
  <2>3. \A c \in Channels \ T : Cardinality(T \cup {c}) = Cardinality(T) + 1
    BY <2>1, FS_AddElement
  <2>4. \A c \in T : Cardinality(T \ {c}) = Cardinality(T) - 1
    BY <2>1, FS_RemoveElement
  <2>5. \A U \in SUBSET T : Cardinality(U) <= Cardinality(T)
    BY <2>1, FS_Subset
  <2> QED
    BY <1>1, <2>1, <2>2, <2>3, <2>4, <2>5
<1> QED
  BY <1>1, <1>2

\* a larger group has more room, by less and less
LEMMA RoomFacts ==
  /\ \A k \in 0..Cardinality(Channels) : Room(k) \in Nat
  /\ \A j, k \in 0..Cardinality(Channels) : j <= k => Room(j) <= Room(k)
  /\ \A k \in 1..Cardinality(Channels) - 1 :
       Room(k - 1) + Room(k + 1) + 2 * TotalWeight(Channels) = 2 * Room(k)
<1> DEFINE W == TotalWeight(Channels)
           n == Cardinality(Channels)
           R(k) == k * (2 * n - k - 1)
<1>1. n \in Nat /\ W \in Nat
  BY CountFacts, TotalFacts
<1>2. \A k : Room(k) = W * R(k)
  BY DEF Room
<1> HIDE DEF W, n
<1>3. \A k \in 0..n : R(k) \in Nat
  <2> SUFFICES ASSUME NEW k \in 0..n PROVE R(k) \in Nat
    OBVIOUS
  <2>1. CASE k = 0
    BY <1>1, <2>1
  <2>2. CASE k # 0
    <3>1. k \in Nat /\ 2 * n - k - 1 \in Nat
      BY <1>1, <2>2
    <3>2. \A x, y \in Nat : x * y \in Nat
      OBVIOUS
    <3> QED
      BY <3>1, <3>2
  <2> QED
    BY <2>1, <2>2
<1>4. ASSUME NEW j \in 0..n, NEW k \in 0..n, j <= k PROVE R(j) <= R(k)
  <2>1. CASE j = k
    BY <1>1, <1>3, <2>1
  <2>2. CASE j # k
    <3>1. k - j \in Nat /\ 2 * n - 1 - k - j \in Nat
      BY <1>1, <1>4, <2>2
    <3>2. \A x, y \in Nat : x * y \in Nat
      OBVIOUS
    <3>3. (k - j) * (2 * n - 1 - k - j) \in Nat
      BY <3>1, <3>2
    <3>4. R(k) - R(j) = (k - j) * (2 * n - 1 - k - j)
      BY <1>1
    <3>5. R(k) \in Int /\ R(j) \in Int
      BY <1>3
    <3> HIDE DEF R
    <3> QED
      BY <3>3, <3>4, <3>5
  <2> QED
    BY <2>1, <2>2
<1>5. ASSUME NEW k \in 1..n - 1 PROVE R(k - 1) + R(k + 1) + 2 = 2 * R(k)
  BY <1>1
<1>6. ASSUME NEW k \in 0..n PROVE Room(k) \in Nat
  <2>1. \A x, y \in Nat : x * y \in Nat
    OBVIOUS
  <2> HIDE DEF R
  <2> QED
    BY <1>1, <1>2, <1>3, <2>1
<1>7. ASSUME NEW j \in 0..n, NEW k \in 0..n, j <= k PROVE Room(j) <= Room(k)
  <2>1. R(j) \in Int /\ R(k) \in Int /\ R(j) <= R(k)
    BY <1>3, <1>4, <1>7
  <2> HIDE DEF R
  <2> QED
    BY <1>1, <1>2, <2>1, TimesKeepsOrder
<1>8. ASSUME NEW k \in 1..n - 1 PROVE Room(k - 1) + Room(k + 1) + 2 * W = 2 * Room(k)
  <2>1. k - 1 \in 0..n /\ k \in 0..n /\ k + 1 \in 0..n
    BY <1>1
  <2>2. R(k - 1) \in Int /\ R(k) \in Int /\ R(k + 1) \in Int
    BY <1>3, <2>1
  <2>3. R(k - 1) + R(k + 1) + 2 = 2 * R(k)
    BY <1>5
  <2> DEFINE a == R(k - 1)
             b == R(k)
             d == R(k + 1)
  <2>4. Room(k - 1) = W * a /\ Room(k) = W * b /\ Room(k + 1) = W * d
    BY <1>2
  <2>5. a \in Int /\ b \in Int /\ d \in Int /\ a = 2 * b - d - 2
    BY <2>2, <2>3
  <2> HIDE DEF a, b, d
  <2>6. W * (2 * b - d - 2) + W * d + 2 * W = 2 * (W * b)
    BY <1>1, <2>5
  <2> QED
    BY <2>4, <2>5, <2>6
<1> QED
  BY <1>6, <1>7, <1>8 DEF W, n

-----------------------------------------------------------------------------
(* The accounts stay balanced.                                             *)

Emptied(f, D) == [c \in Channels |-> IF c \in D THEN 0 ELSE f[c]]

LEMMA EmptyingKeepsBalance ==
  ASSUME NEW f \in [Channels -> Int], Balanced(f), NEW D
  PROVE  Emptied(f, D) \in [Channels -> Int] /\ Balanced(Emptied(f, D))
<1>1. Emptied(f, D) \in [Channels -> Int]
  BY DEF Emptied
<1>2. ASSUME NEW T \in SUBSET Channels
      PROVE  SumOver(Emptied(f, D), T) \in -Room(Cardinality(T)) .. Room(Cardinality(T))
  <2> DEFINE U == T \ D
  <2>1. \A c \in Channels : Part(Emptied(f, D), T, c) = Part(f, U, c)
    BY DEF Part, Emptied
  <2>2. SumOver(Emptied(f, D), T) = SumOver(f, U)
    BY <1>1, <2>1, SumAgrees
  <2>3. U \in SUBSET Channels /\ U \in SUBSET T
    OBVIOUS
  <2> HIDE DEF U
  <2>4. SumOver(f, U) \in -Room(Cardinality(U)) .. Room(Cardinality(U))
    BY <2>3 DEF Balanced
  <2>5. /\ Cardinality(U) \in 0..Cardinality(Channels)
        /\ Cardinality(T) \in 0..Cardinality(Channels)
        /\ Cardinality(U) <= Cardinality(T)
    BY <2>3, CountFacts
  <2>6. /\ Room(Cardinality(U)) \in Nat /\ Room(Cardinality(T)) \in Nat
        /\ Room(Cardinality(U)) <= Room(Cardinality(T))
    BY <2>5, RoomFacts
  <2>7. SumOver(f, U) \in Int
    BY SumIsInt
  <2> QED
    BY <2>2, <2>4, <2>6, <2>7
<1> QED
  BY <1>1, <1>2 DEF Balanced

\* every channel of L gains its weight
Raised(f, L) == [c \in Channels |-> IF c \in L THEN f[c] + Weight[c] ELSE f[c]]

\* v pays for all of them
Drawn(f, L, v) == [Raised(f, L) EXCEPT ![v] = @ - TotalWeight(L)]

LEMMA RaisedSums ==
  ASSUME NEW f \in [Channels -> Int], NEW L \in SUBSET Channels
  PROVE  /\ Raised(f, L) \in [Channels -> Int]
         /\ \A T : /\ SumOver(Raised(f, L), T) = SumOver(f, T) + TotalWeight(T \cap L)
                   /\ TotalWeight(T \cap L) \in 0..TotalWeight(L)
                   /\ L \subseteq T => TotalWeight(T \cap L) = TotalWeight(L)
<1>1. Raised(f, L) \in [Channels -> Int]
  BY NumbersAssumption DEF Raised
<1>2. ASSUME NEW T
      PROVE  SumOver(Raised(f, L), T) = SumOver(f, T) + TotalWeight(T \cap L)
  <2> DEFINE h == Raised(f, L)
             U == T \cap L
  <2>1. \A c \in Channels : Part(h, T, c) = Part(f, T, c) + Part(Weights, U, c)
    BY NumbersAssumption DEF Part, Raised, Weights
  <2>2. Weights \in [Channels -> Int] /\ TotalWeight(U) = SumOver(Weights, U)
    BY TotalIsSum
  <2>3. h \in [Channels -> Int]
    BY <1>1
  <2> HIDE DEF h, U
  <2>4. SumOver(h, T) = SumOver(f, T) + SumOver(Weights, U)
    BY <2>1, <2>2, <2>3, SumAdds
  <2> QED
    BY <2>2, <2>4 DEF h, U
<1>3. ASSUME NEW T
      PROVE  /\ TotalWeight(T \cap L) \in 0..TotalWeight(L)
             /\ L \subseteq T => TotalWeight(T \cap L) = TotalWeight(L)
  <2>1. \A c \in Channels : Part(Weights, T \cap L, c) <= Part(Weights, L, c)
    BY NumbersAssumption DEF Part, Weights
  <2>2. TotalWeight(T \cap L) <= TotalWeight(L)
    BY <2>1, SumCompare, TotalIsSum
  <2>3. TotalWeight(T \cap L) \in Nat /\ TotalWeight(L) \in Nat
    BY TotalFacts
  <2>4. L \subseteq T => T \cap L = L
    OBVIOUS
  <2> QED
    BY <2>2, <2>3, <2>4
<1> QED
  BY <1>1, <1>2, <1>3

\* one draw: whoever leads pays the weight of those who compete
LEMMA DrawKeepsBalance ==
  ASSUME NEW f \in [Channels -> Int], Balanced(f),
         NEW L \in SUBSET Channels, NEW v \in L,
         \A c \in L : Raised(f, L)[c] <= Raised(f, L)[v]
  PROVE  Drawn(f, L, v) \in [Channels -> Int] /\ Balanced(Drawn(f, L, v))
<1> DEFINE lent == [U \in SUBSET Channels |-> TotalWeight(U \cap L)]
           W == TotalWeight(L)
           All == TotalWeight(Channels)
           h == Raised(f, L)
           g == Drawn(f, L, v)
<1>1. /\ v \in Channels /\ W \in Nat /\ All \in Nat /\ W <= All
      /\ h \in [Channels -> Int] /\ \A c \in L : h[c] <= h[v]
  BY TotalFacts, TotalIsSum, RaisedSums
<1>2. /\ g \in [Channels -> Int]
      /\ \A c \in Channels : g[c] = IF c = v THEN h[c] - W ELSE h[c]
  BY <1>1 DEF Drawn
<1>3. ASSUME NEW U \in SUBSET Channels
      PROVE  /\ SumOver(h, U) = SumOver(f, U) + lent[U] /\ lent[U] \in 0..W
             /\ L \subseteq U => lent[U] = W
             /\ U \cap L = {} => lent[U] = 0
  <2>1. /\ SumOver(Raised(f, L), U) = SumOver(f, U) + TotalWeight(U \cap L)
        /\ TotalWeight(U \cap L) \in 0..TotalWeight(L)
        /\ L \subseteq U => TotalWeight(U \cap L) = TotalWeight(L)
    BY RaisedSums
  <2>2. U \cap L = {} => TotalWeight(U \cap L) = 0
    BY TotalFacts
  <2> QED
    BY <2>1, <2>2
<1> HIDE DEF lent, W, All, h, g
<1>4. ASSUME NEW T \in SUBSET Channels
      PROVE  SumOver(g, T) = SumOver(h, T) - (IF v \in T THEN W ELSE 0)
  <2>1. CASE v \in T
    <3> DEFINE U == T \ {v}
    <3>1. SumOver(g, U) = SumOver(g, T) - g[v] /\ SumOver(g, T) \in Int
      BY <1>2, <2>1, SumOfMore
    <3>2. SumOver(h, U) = SumOver(h, T) - h[v] /\ SumOver(h, T) \in Int
      BY <1>1, <2>1, SumOfMore
    <3>3. \A c \in Channels : Part(g, U, c) = Part(h, U, c)
      BY <1>2 DEF Part
    <3> HIDE DEF U
    <3>4. SumOver(g, U) = SumOver(h, U)
      BY <1>1, <1>2, <3>3, SumAgrees
    <3>5. g[v] = h[v] - W /\ h[v] \in Int
      BY <1>1, <1>2
    <3> QED
      BY <1>1, <2>1, <3>1, <3>2, <3>4, <3>5
  <2>2. CASE v \notin T
    <3>1. \A c \in Channels : Part(g, T, c) = Part(h, T, c)
      BY <1>1, <1>2, <2>2 DEF Part
    <3>2. SumOver(g, T) = SumOver(h, T) /\ SumOver(h, T) \in Int
      BY <1>1, <1>2, <3>1, SumAgrees, SumIsInt
    <3> QED
      BY <2>2, <3>2
  <2> QED
    BY <2>1, <2>2
<1>5. \A T \in SUBSET Channels :
        /\ SumOver(f, T) \in Int /\ Room(Cardinality(T)) \in Nat
        /\ -Room(Cardinality(T)) <= SumOver(f, T) /\ SumOver(f, T) <= Room(Cardinality(T))
  BY CountFacts, RoomFacts, SumIsInt DEF Balanced
<1>6. ASSUME NEW T \in SUBSET Channels
      PROVE  -Room(Cardinality(T)) <= SumOver(g, T) /\ SumOver(g, T) <= Room(Cardinality(T))
  <2> DEFINE k == Cardinality(T)
  <2>1. /\ SumOver(f, T) \in Int /\ Room(k) \in Nat
        /\ -Room(k) <= SumOver(f, T) /\ SumOver(f, T) <= Room(k)
    BY <1>5
  <2>2. SumOver(h, T) = SumOver(f, T) + lent[T] /\ lent[T] \in 0..W
    BY <1>3
  <2>3. \A u, t \in L : u \in T /\ t \notin T =>
          LET fewer == T \ {u}
              more == T \cup {t}
          IN  /\ Room(Cardinality(fewer)) + Room(Cardinality(more)) + 2 * All = 2 * Room(k)
              /\ fewer \in SUBSET Channels /\ more \in SUBSET Channels
              /\ SumOver(h, fewer) = SumOver(h, T) - h[u]
              /\ SumOver(h, more) = SumOver(h, T) + h[t]
    <3> SUFFICES ASSUME NEW u \in L, NEW t \in L, u \in T, t \notin T
                 PROVE  LET fewer == T \ {u}
                            more == T \cup {t}
                        IN  /\ Room(Cardinality(fewer)) + Room(Cardinality(more)) + 2 * All = 2 * Room(k)
                            /\ fewer \in SUBSET Channels /\ more \in SUBSET Channels
                            /\ SumOver(h, fewer) = SumOver(h, T) - h[u]
                            /\ SumOver(h, more) = SumOver(h, T) + h[t]
      OBVIOUS
    <3>1. t \in Channels \ T /\ T \ {u} \in SUBSET Channels /\ T \cup {t} \in SUBSET Channels
      OBVIOUS
    <3>2. Cardinality(T \ {u}) = k - 1 /\ Cardinality(T \cup {t}) = k + 1
      BY <3>1, CountFacts
    <3>3. k \in 1..Cardinality(Channels) - 1
      <4>1. /\ Cardinality(T \ {u}) \in 0..Cardinality(Channels)
            /\ Cardinality(T \cup {t}) \in 0..Cardinality(Channels)
            /\ k \in 0..Cardinality(Channels) /\ Cardinality(Channels) \in Nat
        BY <3>1, CountFacts
      <4> QED
        BY <3>2, <4>1
    <3>4. Room(k - 1) + Room(k + 1) + 2 * All = 2 * Room(k)
      BY <3>3, RoomFacts DEF All
    <3>5. SumOver(h, T \ {u}) = SumOver(h, T) - h[u] /\ SumOver(h, T \cup {t}) = SumOver(h, T) + h[t]
      BY <1>1, <3>1, SumOfMore
    <3> QED
      BY <3>1, <3>2, <3>4, <3>5
  <2> HIDE DEF k
  <2>4. CASE v \in T /\ L \subseteq T
    <3>1. SumOver(g, T) = SumOver(f, T)
      BY <1>1, <1>3, <1>4, <2>1, <2>2, <2>4
    <3> QED
      BY <2>1, <3>1 DEF k
  <2>5. CASE v \in T /\ ~(L \subseteq T)
    <3>1. PICK u \in L : u \notin T
      BY <2>5
    <3> DEFINE fewer == T \ {v}
               more == T \cup {u}
    <3>2. /\ Room(Cardinality(fewer)) + Room(Cardinality(more)) + 2 * All = 2 * Room(k)
          /\ fewer \in SUBSET Channels /\ more \in SUBSET Channels
          /\ SumOver(h, fewer) = SumOver(h, T) - h[v]
          /\ SumOver(h, more) = SumOver(h, T) + h[u]
      BY <2>3, <2>5, <3>1
    <3> HIDE DEF fewer, more
    <3>3. h[u] \in Int /\ h[v] \in Int /\ h[u] <= h[v]
      BY <1>1, <3>1
    <3>4. /\ SumOver(f, fewer) \in Int /\ Room(Cardinality(fewer)) \in Nat
          /\ -Room(Cardinality(fewer)) <= SumOver(f, fewer)
          /\ SumOver(f, more) \in Int /\ Room(Cardinality(more)) \in Nat
          /\ -Room(Cardinality(more)) <= SumOver(f, more)
      BY <1>5, <3>2
    <3>5. /\ SumOver(h, fewer) = SumOver(f, fewer) + lent[fewer] /\ lent[fewer] \in 0..W
          /\ SumOver(h, more) = SumOver(f, more) + lent[more] /\ lent[more] \in 0..W
      BY <1>3, <3>2
    <3>6. SumOver(g, T) = SumOver(h, T) - W
      BY <1>4, <2>5
    <3>7. SumOver(g, T) <= Room(k)
      BY <1>1, <2>1, <2>2, <3>6
    <3>8. -Room(k) <= SumOver(g, T)
      BY <1>1, <2>1, <2>2, <3>2, <3>3, <3>4, <3>5, <3>6
    <3> QED
      BY <3>7, <3>8 DEF k
  <2>6. CASE v \notin T /\ T \cap L = {}
    <3>1. lent[T] = 0
      BY <1>3, <2>6
    <3>2. SumOver(g, T) = SumOver(f, T)
      BY <1>4, <2>1, <2>2, <2>6, <3>1
    <3> QED
      BY <2>1, <3>2 DEF k
  <2>7. CASE v \notin T /\ T \cap L # {}
    <3>1. PICK u \in L : u \in T
      BY <2>7
    <3> DEFINE fewer == T \ {u}
               more == T \cup {v}
    <3>2. /\ Room(Cardinality(fewer)) + Room(Cardinality(more)) + 2 * All = 2 * Room(k)
          /\ fewer \in SUBSET Channels /\ more \in SUBSET Channels
          /\ SumOver(h, fewer) = SumOver(h, T) - h[u]
          /\ SumOver(h, more) = SumOver(h, T) + h[v]
      BY <2>3, <2>7, <3>1
    <3> HIDE DEF fewer, more
    <3>3. h[u] \in Int /\ h[v] \in Int /\ h[u] <= h[v]
      BY <1>1, <3>1
    <3>4. /\ SumOver(f, fewer) \in Int /\ Room(Cardinality(fewer)) \in Nat
          /\ SumOver(f, fewer) <= Room(Cardinality(fewer))
          /\ SumOver(f, more) \in Int /\ Room(Cardinality(more)) \in Nat
          /\ SumOver(f, more) <= Room(Cardinality(more))
      BY <1>5, <3>2
    <3>5. /\ SumOver(h, fewer) = SumOver(f, fewer) + lent[fewer] /\ lent[fewer] \in 0..W
          /\ SumOver(h, more) = SumOver(f, more) + lent[more] /\ lent[more] \in 0..W
      BY <1>3, <3>2
    <3>6. SumOver(g, T) = SumOver(h, T) /\ SumOver(h, T) \in Int
      BY <1>1, <1>4, <2>7, SumIsInt
    <3>7. -Room(k) <= SumOver(g, T)
      BY <1>1, <2>1, <2>2, <3>6
    <3>8. SumOver(g, T) <= Room(k)
      BY <1>1, <2>1, <2>2, <3>2, <3>3, <3>4, <3>5, <3>6
    <3> QED
      BY <3>7, <3>8 DEF k
  <2> QED
    BY <2>4, <2>5, <2>6, <2>7
<1>7. ASSUME NEW T \in SUBSET Channels
      PROVE  SumOver(g, T) \in -Room(Cardinality(T)) .. Room(Cardinality(T))
  BY <1>2, <1>5, <1>6, SumIsInt
<1> QED
  BY <1>2, <1>7 DEF Balanced, g

-----------------------------------------------------------------------------
(* A selection draws in each tier, after it has struck off who cannot      *)
(* compete.                                                                *)

\* the accounts f after the live channels L of one tier have drawn
TierDrawn(f, L) == [c \in Channels |-> IF c \in L THEN WeightsAfter(L)[c] ELSE f[c]]

LEMMA TierKeepsBalance ==
  ASSUME weightState \in [Channels -> Int],
         NEW f \in [Channels -> Int], Balanced(f), NEW L \in SUBSET Channels,
         \A c \in L : f[c] = weightState[c]
  PROVE  TierDrawn(f, L) \in [Channels -> Int] /\ Balanced(TierDrawn(f, L))
<1>1. CASE TotalWeight(L) = 0
  <2>1. WeightsAfter(L) = weightState
    BY <1>1 DEF WeightsAfter
  <2>2. TierDrawn(f, L) = [c \in Channels |-> f[c]]
    BY <2>1 DEF TierDrawn
  <2>3. TierDrawn(f, L) = f
    BY <2>2
  <2> QED
    BY <2>3
<1>2. CASE TotalWeight(L) # 0
  <2> DEFINE v == Winner(L)
  <2>1. L # {} /\ TotalWeight(L) \in Nat
    BY <1>2, TotalFacts
  <2>2. v \in L /\ \A c \in L : Gained(L)[c] <= Gained(L)[v]
    BY <2>1, WinnerCompetes
  <2> HIDE DEF v
  <2>3. \A c \in L : Gained(L)[c] = Raised(f, L)[c]
    BY DEF Gained, Raised
  <2>4. \A c \in L : Raised(f, L)[c] <= Raised(f, L)[v]
    BY <2>2, <2>3
  <2>5. Drawn(f, L, v) \in [Channels -> Int] /\ Balanced(Drawn(f, L, v))
    BY <2>2, <2>4, DrawKeepsBalance
  <2>6. WeightsAfter(L) = [Gained(L) EXCEPT ![v] = @ - TotalWeight(L)]
    BY <1>2 DEF WeightsAfter, Price, v
  <2>7. ASSUME NEW c \in Channels PROVE TierDrawn(f, L)[c] = Drawn(f, L, v)[c]
    <3>1. CASE c \notin L
      BY <2>2, <3>1 DEF TierDrawn, Drawn, Raised
    <3>2. CASE c \in L
      <4>1. TierDrawn(f, L)[c] = WeightsAfter(L)[c]
        BY <3>2 DEF TierDrawn
      <4>2. WeightsAfter(L)[c] = IF c = v THEN Gained(L)[c] - TotalWeight(L) ELSE Gained(L)[c]
        BY <2>6 DEF Gained
      <4>3. Drawn(f, L, v)[c] = IF c = v THEN Raised(f, L)[c] - TotalWeight(L) ELSE Raised(f, L)[c]
        BY DEF Drawn, Raised
      <4> QED
        BY <2>3, <3>2, <4>1, <4>2, <4>3
    <3> QED
      BY <3>1, <3>2
  <2>8. TierDrawn(f, L) = Drawn(f, L, v)
    <3>1. TierDrawn(f, L) = [c \in Channels |-> TierDrawn(f, L)[c]]
      BY DEF TierDrawn
    <3>2. Drawn(f, L, v) = [c \in Channels |-> Drawn(f, L, v)[c]]
      BY <2>5
    <3> QED
      BY <2>7, <3>1, <3>2
  <2> QED
    BY <2>5, <2>8
<1> QED
  BY <1>1, <1>2

LEMMA AccountsKeepBalance ==
  ASSUME weightState \in [Channels -> Int], Balanced(weightState), NEW r, NEW q
  PROVE  Balanced(Accounts(r, q))
<1> DEFINE S == Pool(q)
           F == FirstTier(S)
           tier(c) == IF c \in F THEN F ELSE S \ F
<1>1. CASE conf.strategy # "weighted" \/ Explicit(q)
  BY <1>1 DEF Accounts
<1>2. CASE ~(conf.strategy # "weighted" \/ Explicit(q))
  <2> DEFINE f == Emptied(weightState, S \ Live(S))
             g == TierDrawn(f, Live(F))
             h == TierDrawn(g, Live(S \ F))
  <2>1. S \subseteq Channels /\ F \subseteq S
    BY DEF Pool, FirstTier
  <2>2. Accounts(r, q) = [c \in Channels |-> IF c \notin S THEN weightState[c]
                                             ELSE IF c \notin Live(S) THEN 0
                                             ELSE WeightsAfter(Live(tier(c)))[c]]
    BY <1>2 DEF Accounts
  <2> HIDE DEF S, F
  <2>3. \A U : Live(U) = {c \in U : ~coolingDown(c) /\ ~halfOpenSaturated(c)}
    BY DEF Live, Cooling, Saturated
  <2> DEFINE L == Live(F)
             M == Live(S \ F)
  <2>4. /\ L \subseteq Channels /\ M \subseteq Channels /\ L \cap M = {}
        /\ L \subseteq F /\ M \subseteq S \ F /\ Live(S) = L \cup M
    BY <2>1, <2>3
  <2> HIDE DEF L, M
  <2>5. f \in [Channels -> Int] /\ Balanced(f)
    BY EmptyingKeepsBalance
  <2>6. \A c \in L \cup M : f[c] = weightState[c]
    BY <2>4 DEF Emptied
  <2> HIDE DEF f
  <2>7. g \in [Channels -> Int] /\ Balanced(g)
    BY <2>4, <2>5, <2>6, TierKeepsBalance DEF L
  <2>8. \A c \in M : g[c] = weightState[c]
    BY <2>4, <2>6 DEF TierDrawn, L
  <2> HIDE DEF g
  <2>9. h \in [Channels -> Int] /\ Balanced(h)
    BY <2>4, <2>7, <2>8, TierKeepsBalance DEF M
  <2>10. ASSUME NEW c \in Channels
         PROVE  (IF c \notin S THEN weightState[c]
                 ELSE IF c \notin Live(S) THEN 0 ELSE WeightsAfter(Live(tier(c)))[c]) = h[c]
    <3>1. h[c] = IF c \in M THEN WeightsAfter(M)[c] ELSE g[c]
      BY DEF TierDrawn, M
    <3>2. g[c] = IF c \in L THEN WeightsAfter(L)[c] ELSE f[c]
      BY DEF TierDrawn, L, g
    <3>3. f[c] = IF c \in S \ Live(S) THEN 0 ELSE weightState[c]
      BY DEF Emptied, f
    <3>4. c \in L => Live(tier(c)) = L
      BY <2>4 DEF L
    <3>5. c \in M => Live(tier(c)) = M
      BY <2>4 DEF M
    <3> HIDE DEF h
    <3> QED
      BY <2>1, <2>4, <3>1, <3>2, <3>3, <3>4, <3>5
  <2>11. Accounts(r, q) = h
    <3>1. h = [c \in Channels |-> h[c]]
      BY <2>9
    <3> HIDE DEF h, tier
    <3> QED
      BY <2>2, <2>10, <3>1
  <2> QED
    BY <2>9, <2>11
<1> QED
  BY <1>1, <1>2

LEMMA BalancedAtFirst == Balanced([c \in Channels |-> 0])
<1> DEFINE z == [c \in Channels |-> 0]
<1>1. z \in [Channels -> Int]
  OBVIOUS
<1>2. ASSUME NEW T \in SUBSET Channels
      PROVE  SumOver(z, T) \in -Room(Cardinality(T)) .. Room(Cardinality(T))
  <2>1. \A c \in Channels : Part(z, T, c) = Part(z, T, c) + Part(z, T, c)
    BY DEF Part
  <2> HIDE DEF z
  <2>2. SumOver(z, T) = SumOver(z, T) + SumOver(z, T) /\ SumOver(z, T) \in Int
    BY <1>1, <2>1, SumAdds, SumIsInt
  <2>3. SumOver(z, T) = 0
    BY <2>2, NothingDoubles
  <2> DEFINE room == Room(Cardinality(T))
  <2>4. room \in Nat
    BY CountFacts, RoomFacts
  <2> HIDE DEF room
  <2>5. 0 \in -room .. room
    BY <2>4
  <2> QED
    BY <2>3, <2>5 DEF room
<1> QED
  BY <1>2 DEF Balanced

\* only a selection and a reload touch the accounts
LEMMA BalanceNext ==
  RoutingInv /\ Balanced(weightState) /\ [RoutingNext]_routingVars => Balanced(weightState)'
<1> SUFFICES ASSUME RoutingInv, Balanced(weightState), [RoutingNext]_routingVars
             PROVE  Balanced(weightState')
  BY DEF Balanced, SumOver, Room, TotalWeight
<1>1. weightState \in [Channels -> Int]
  BY DEF RoutingInv
<1>2. \/ weightState' = weightState
      \/ \E r \in Requests : \E q : weightState' = Accounts(r, q)
      \/ weightState' = [c \in Channels |-> 0]
  <2>1. CASE \E r \in Requests : Arrive(r) \/ SelectAgain(r) \/ Inject(r)
    BY <2>1 DEF Arrive, SelectAgain, Inject, Select, Spend
  <2>2. CASE \E n \in scene.confs : Reload(n)
    BY <2>2 DEF Reload
  <2>3. CASE UNCHANGED routingVars
    BY <2>3 DEF routingVars, memory
  <2>4. CASE \E r \in Requests : Succeed(r) \/ FailOver(r) \/ Rejected(r) \/ GiveUp(r)
    BY <2>4 DEF Succeed, FailOver, Rejected, GiveUp, memory
  <2>5. CASE \/ \E c \in scene.faulty : HealthChanges(c)
             \/ \E c \in Channels, m \in Models : Expires(c, m)
             \/ \E a \in Agents : AffinityExpires(a)
    BY <2>5 DEF HealthChanges, Expires, AffinityExpires, memory
  <2> QED
    BY <2>1, <2>2, <2>3, <2>4, <2>5 DEF RoutingNext
<1> QED
  BY <1>1, <1>2, AccountsKeepBalance, BalancedAtFirst

(* For any channels, weights, models with any pools and any number of      *)
(* requests that select and reload in any order: the accounts of the       *)
(* weighted round robin stay bounded, of each channel by two rounds for    *)
(* each of the others.                                                     *)
THEOREM AccountsAreBounded == RoutingSpec => []AccountsStayBounded
<1>1. RoutingInit => Balanced(weightState)
  BY BalancedAtFirst DEF RoutingInit
<1>2. RoutingSpec => []Balanced(weightState)
  BY <1>1, RoutingIsSound, BalanceNext, PTL DEF RoutingSpec
<1>3. RoutingInv /\ Balanced(weightState) => AccountsStayBounded
  BY DEF RoutingInv, AccountsStayBounded
<1> QED
  BY <1>2, <1>3, RoutingIsSound, PTL
=============================================================================
