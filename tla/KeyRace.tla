------------------------------ MODULE KeyRace -------------------------------
(***************************************************************************)
(* The keys of a channel under either strategy: rotate-429 as in           *)
(* StackedKeys.tla, or race, raceUpstream() of lib/proxy.mjs, where each   *)
(* request is sent with all keys at once and the first 2xx wins.           *)
(*                                                                         *)
(* A race awaits one promise.  What settles it wakes the race, and answers *)
(* of other keys may come in before the race goes on.                      *)
(***************************************************************************)
EXTENDS StackedKeys

CONSTANTS NoOne,    \* no key
          Racers    \* bound: the requests that race; no race can tell that there are others

ASSUME NoOneAssumption == NoOne \notin Keys
ASSUME RacersAssumption == Racers \subseteq Reqs

VARIABLES strategy,   \* stackedKeyStrategy of the channel
          race        \* the race of each request

keysVars == <<vars, strategy, race>>

(* said is what became of the fetch with each key: "auth" stands for 401,  *)
(* 402 and 403, "other" for every other status that is no 2xx.  open are   *)
(* the keys with a response that nobody has cancelled, stopped those whose *)
(* controller was aborted.                                                 *)
Verdicts == {"auth", "other", "ok"}
Flying(s) == {k \in Keys : s.said[k] = "none"}

NotRacing == [pc |-> "idle", said |-> [k \in Keys |-> "none"], open |-> {}, stopped |-> {},
              winner |-> NoOne]

KeysInit ==
  /\ Init
  /\ strategy \in {"race", "rotate-429"}
  /\ race = [r \in Reqs |-> NotRacing]

Becomes(r, s) ==
  /\ race' = [race EXCEPT ![r] = s]
  /\ UNCHANGED <<vars, strategy>>

RaceStarts(r) ==
  /\ r \in Racers
  /\ strategy = "race"
  /\ race[r].pc = "idle"
  /\ Becomes(r, [NotRacing EXCEPT !.pc = "racing"])

\* mutant: the response that comes after the winner's is not cancelled
OpenAnyway(s, k) == s.open \cup {k}

\* a response after the winner's is cancelled as it comes
OpenWith(s, k) == IF s.winner = NoOne THEN s.open \cup {k} ELSE s.open

WinnerWith(s, k, a) == IF s.winner = NoOne /\ a = "ok" THEN k ELSE s.winner

Responds(r) ==
  /\ race[r].pc # "idle"
  /\ \E k \in Flying(race[r]), a \in Verdicts :
       Becomes(r, [race[r] EXCEPT !.said[k] = a, !.open = OpenWith(race[r], k),
                                  !.winner = WinnerWith(race[r], k, a)])

\* a network error, or the fetch is aborted: with its key or with the attempt
FetchFails(r) ==
  /\ race[r].pc # "idle"
  /\ \E k \in Flying(race[r]) : Becomes(r, [race[r] EXCEPT !.said[k] = "error"])

-----------------------------------------------------------------------------
Woken(s) == s.winner # NoOne \/ Flying(s) = {}

(* The winner's response; else one of a status that does not speak of the  *)
(* key, else any.  Which of them, the order of their arrival decides.      *)
Kept(s) ==
  IF s.winner # NoOne THEN {s.winner}
  ELSE LET better == {k \in s.open : s.said[k] # "auth"} IN
       IF better # {} THEN better ELSE s.open

\* all other keys are aborted, and the responses that have come are cancelled
RaceGoesOn(r) ==
  /\ race[r].pc = "racing"
  /\ Woken(race[r])
  /\ \/ \E k \in Kept(race[r]) :
          Becomes(r, [race[r] EXCEPT !.pc = "given", !.winner = k, !.open = {k},
                                     !.stopped = Keys \ {k}])
     \/ /\ Kept(race[r]) = {}
        /\ Becomes(r, [race[r] EXCEPT !.pc = "given"])

\* the attempt is over, and nothing of its race is under way
RaceIsOver(r) ==
  /\ race[r].pc = "given"
  /\ Flying(race[r]) = {}
  /\ Becomes(r, NotRacing)

Racing(r) == Responds(r) \/ FetchFails(r)

RotationStep(r) ==
  /\ \/ strategy = "rotate-429" /\ Begin(r)
     \/ Answered(r)
     \/ Abort(r)
  /\ UNCHANGED <<strategy, race>>

KeysNext ==
  \E r \in Reqs : \/ RotationStep(r)
                  \/ RaceStarts(r) \/ Racing(r) \/ RaceGoesOn(r) \/ RaceIsOver(r)

KeysSpec == KeysInit /\ [][KeysNext]_keysVars

(***************************************************************************)
(* As in StackedKeys.tla: a fetch is answered or fails.                    *)
(***************************************************************************)
FairKeysSpec ==
  /\ KeysSpec
  /\ \A r \in Reqs : /\ WF_keysVars(Answered(r) /\ UNCHANGED <<strategy, race>>)
                     /\ WF_keysVars(Racing(r))
                     /\ WF_keysVars(RaceGoesOn(r))

-----------------------------------------------------------------------------
RaceTypeOK ==
  /\ strategy \in {"race", "rotate-429"}
  /\ race \in [Reqs -> [pc : {"idle", "racing", "given"},
                        said : [Keys -> Verdicts \cup {"none", "error"}],
                        open : SUBSET Keys, stopped : SUBSET Keys, winner : Keys \cup {NoOne}]]

(* A race that is decided leaves nothing behind: whatever comes in the     *)
(* order of answers, network errors and aborts, every key but the one      *)
(* whose response is given out has been aborted or its response cancelled. *)
(* A 2xx is never thrown away for an error, nor a response that speaks of  *)
(* the whole channel for one that speaks of a single key, nor any response *)
(* for a network error.                                                    *)
RaceKeepsTheBest ==
  /\ RaceTypeOK
  /\ \A r \in Reqs : race[r].pc = "given" =>
       LET s == race[r] IN
       /\ s.open = {s.winner} \ {NoOne}
       /\ Flying(s) \subseteq s.stopped
       /\ \A k \in Keys :
            /\ s.said[k] = "ok" => s.winner # NoOne /\ s.said[s.winner] = "ok"
            /\ s.said[k] = "other" => s.winner # NoOne /\ s.said[s.winner] # "auth"
            /\ s.said[k] = "auth" => s.winner # NoOne

(* A request that has other channels to go to is not kept from them by     *)
(* keys that go on failing: its scan ends, though those of others may go   *)
(* on for as long as their timers let them.  And every race is decided.    *)
KeysAreLeft ==
  \A r \in Reqs : /\ (scan[r].waiting /\ ~scan[r].onlyCandidate) ~> ~scan[r].waiting
                  /\ race[r].pc = "racing" ~> race[r].pc # "racing"

(* README 2.1.8: a single bad key does not bring the whole channel into    *)
(* disgrace: its error is only given out when every key was refused so.    *)
OneBadKeyIsNotTheChannel ==
  \A r \in Reqs : LET s == race[r] IN
     s.pc = "given" /\ s.winner # NoOne /\ s.said[s.winner] = "auth" =>
       \A k \in Keys : s.said[k] = "auth"
=============================================================================
