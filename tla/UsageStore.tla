----------------------------- MODULE UsageStore -----------------------------
(***************************************************************************)
(* UsageStore of lib/usage.mjs: the token counts of each day, in memory    *)
(* and in one file per day.                                                *)
(*                                                                         *)
(* record() appends to writeChain: one record after the other reads its    *)
(* day's file unless the day is loaded, counts itself in memory and        *)
(* appends its line.  query() waits for the part of the chain that is      *)
(* there when it is called, and then reads what it needs by itself.        *)
(*                                                                         *)
(* A day's aggregate is the number of its records.  The file system looks  *)
(* at a file (Look) or adds to it (Written) at any moment before the code  *)
(* goes on.  Left out: the boundary day of a rolling window, which is read *)
(* into a cache of its own, and enabled = false, where nothing is awaited. *)
(***************************************************************************)
EXTENDS Naturals, Sequences, SequencesExt

CONSTANTS LastDay,     \* bound: days are 1..LastDay
          KeepDays,    \* keepDays
          MaxLines,    \* bound: lines of one day
          Queries,     \* calls of query()
          MaxFails     \* bound: lines of a day that cannot be written

ASSUME DaysAssumption == LastDay \in Nat \ {0} /\ KeepDays \in Nat \ {0}
ASSUME BoundsAssumption == MaxLines \in Nat \ {0} /\ MaxFails \in Nat

VARIABLES today,
          file,        \* lines in each day's file
          lru,         \* the days in `cache`, least recently used first
          count,       \* their records; 0 for a day that is not cached
          loadedDays,
          chain,       \* days of the records in writeChain; the first is under way
          writer,      \* what the first one is doing
          query,       \* each call of query()
          pruner,      \* prune()
          made,        \* history: lines at the start, and calls of record() since
          failed,      \* history: lines that could not be written
          torn         \* history: days a query was reading beside records of them
memory == <<lru, count, loadedDays>>
history == <<made, failed, torn>>
usageVars == <<today, file, memory, chain, writer, query, pruner, history>>

Days == 1..LastDay
maxCachedDays == KeepDays + 1

(* A use of #loadDay(): `had` is whether memory had the day at its start,  *)
(* `text` what the file system has found.                                  *)
NotLoading == [pc |-> "idle", had |-> FALSE, text |-> 0]

(* `behind`: records that flush() waits for; `known`: `made` at the call;  *)
(* `todo`: the days still to be counted; `stale`: it counted too few.      *)
NoQuery == [pc |-> "idle", behind |-> 0, known |-> [d \in Days |-> 0], todo |-> <<>>,
            load |-> NotLoading, stale |-> FALSE]

UsageInit ==
  /\ today \in Days
  /\ file \in [Days -> 0..1] /\ \A d \in Days : d > today => file[d] = 0
  /\ lru = <<>> /\ count = [d \in Days |-> 0] /\ loadedDays = {}
  /\ chain = <<>> /\ writer = NotLoading
  /\ query = [q \in Queries |-> NoQuery]
  /\ pruner = [pc |-> "idle", behind |-> 0]
  /\ made = file /\ failed = [d \in Days |-> 0] /\ torn = {}

-----------------------------------------------------------------------------
(* Memory.                                                                 *)

\* Map.delete(): the others keep their order
Without(s, d) ==
  IF d \in ToSet(s) THEN RemoveAt(s, CHOOSE i \in DOMAIN s : s[i] = d) ELSE s

(* #touch(): day d has n records and is the most recently used; `loaded`   *)
(* were loaded before.  The least recently used day may have to go.        *)
Touch(d, n, loaded) ==
  LET days == Append(Without(lru, d), d)
      gone == IF Len(days) > maxCachedDays THEN {Head(days)} ELSE {}
  IN  /\ lru' = IF gone = {} THEN days ELSE Tail(days)
      /\ count' = [e \in Days |-> IF e \in gone THEN 0 ELSE IF e = d THEN n ELSE count[e]]
      /\ loadedDays' = loaded \ gone

StartLoad(d) == [pc |-> "reading", had |-> d \in ToSet(lru), text |-> 0]

\* the object that #loadDay() has filled: the one in memory, or a new one
Filled(d, load) == IF load.had THEN count[d] + load.text ELSE load.text

-----------------------------------------------------------------------------
(* The write chain.                                                        *)

day == Head(chain)

\* record(): nothing but the place in the chain is taken at once
record ==
  /\ made[today] < MaxLines
  /\ chain' = Append(chain, today)
  /\ made' = [made EXCEPT ![today] = @ + 1]
  /\ torn' = torn \cup {d \in {today} : \E q \in Queries :
                          query[q].load.pc # "idle" /\ Head(query[q].todo) = d}
  /\ UNCHANGED <<today, file, memory, writer, query, pruner, failed>>

\* mutant: the record is counted before its day has been read
StartUnloaded ==
  /\ chain # <<>> /\ writer.pc = "idle"
  /\ Touch(day, count[day] + 1, loadedDays)
  /\ writer' = [writer EXCEPT !.pc = "appending"]
  /\ UNCHANGED <<today, file, chain, query, pruner, history>>

\* its turn: a day that is loaded is counted at once
Start ==
  /\ chain # <<>> /\ writer.pc = "idle"
  /\ IF day \in loadedDays
     THEN /\ Touch(day, count[day] + 1, loadedDays)
          /\ writer' = [writer EXCEPT !.pc = "appending"]
     ELSE /\ writer' = StartLoad(day)
          /\ UNCHANGED memory
  /\ UNCHANGED <<today, file, chain, query, pruner, history>>

\* mutant: the file that was read is taken to hold the record
ApplyTrustsFile ==
  /\ writer.pc = "found"
  /\ Touch(day, Filled(day, writer), loadedDays \cup {day})
  /\ writer' = [NotLoading EXCEPT !.pc = "appending"]
  /\ UNCHANGED <<today, file, chain, query, pruner, history>>

\* the day is loaded, and apply() counts the record
Apply ==
  /\ writer.pc = "found"
  /\ Touch(day, Filled(day, writer) + 1, loadedDays \cup {day})
  /\ writer' = [NotLoading EXCEPT !.pc = "appending"]
  /\ UNCHANGED <<today, file, chain, query, pruner, history>>

\* calls of flush() that have one record less to wait for
Advanced(waiting) == IF waiting.behind > 0 THEN [waiting EXCEPT !.behind = @ - 1] ELSE waiting

\* #append() has written the line, or it could not, and the next record follows
Written ==
  /\ writer.pc = "appending"
  /\ \/ /\ file' = [file EXCEPT ![day] = @ + 1]
        /\ UNCHANGED failed
     \/ /\ failed[day] < MaxFails
        /\ failed' = [failed EXCEPT ![day] = @ + 1]
        /\ UNCHANGED file
  /\ writer' = NotLoading
  /\ chain' = Tail(chain)
  /\ query' = [q \in Queries |-> Advanced(query[q])]
  /\ pruner' = Advanced(pruner)
  /\ UNCHANGED <<today, memory, made, torn>>

-----------------------------------------------------------------------------
(* Queries.                                                                *)

\* mutant: the chain is not waited for
ToWaitForNothing == 0

\* flush(): the records that are in the chain now
ToWaitFor == Len(chain)

Ask(q) ==
  /\ query[q].pc \in {"idle", "answered"}
  /\ query' = [query EXCEPT ![q] = [NoQuery EXCEPT !.pc = "flush", !.behind = ToWaitFor,
                                                   !.known = made]]
  /\ UNCHANGED <<today, file, memory, chain, writer, pruner, history>>

\* the chain is written: the range ends today, and begins there or earlier
Flushed(q) ==
  /\ query[q].pc = "flush" /\ query[q].behind = 0
  /\ \E first \in 1..today :
       query' = [query EXCEPT ![q].pc = "load",
                              ![q].todo = [i \in 1..(today - first + 1) |-> first + i - 1]]
  /\ UNCHANGED <<today, file, memory, chain, writer, pruner, history>>

\* lines that are not on disk, in a file that prune() may have removed
Excused(d) == IF d + KeepDays < today THEN made[d] ELSE failed[d]

\* the first day of todo has been counted with n records
Counted(q, n) ==
  LET d == Head(query[q].todo)
  IN  [query[q] EXCEPT !.todo = Tail(@), !.load = NotLoading,
                       !.stale = @ \/ n + Excused(d) < query[q].known[d]]

\* the next day, from memory if it is loaded
Count(q) ==
  /\ query[q].pc = "load" /\ query[q].todo # <<>> /\ query[q].load.pc = "idle"
  /\ LET d == Head(query[q].todo)
     IN  IF d \in loadedDays
         THEN /\ Touch(d, count[d], loadedDays)
              /\ query' = [query EXCEPT ![q] = Counted(q, count[d])]
              /\ UNCHANGED torn
         ELSE /\ query' = [query EXCEPT ![q].load = StartLoad(d)]
              /\ torn' = IF d \in ToSet(chain) THEN torn \cup {d} ELSE torn
              /\ UNCHANGED memory
  /\ UNCHANGED <<today, file, chain, writer, pruner, made, failed>>

\* #loadDay() goes on
Load(q) ==
  /\ query[q].load.pc = "found"
  /\ LET d == Head(query[q].todo)
         n == Filled(d, query[q].load)
     IN  /\ Touch(d, n, loadedDays \cup {d})
         /\ query' = [query EXCEPT ![q] = Counted(q, n)]
  /\ UNCHANGED <<today, file, chain, writer, pruner, history>>

Answer(q) ==
  /\ query[q].pc = "load" /\ query[q].todo = <<>>
  /\ query' = [query EXCEPT ![q] = [NoQuery EXCEPT !.pc = "answered", !.stale = query[q].stale]]
  /\ UNCHANGED <<today, file, memory, chain, writer, pruner, history>>

-----------------------------------------------------------------------------
(* The file system, prune() and the calendar.                              *)

\* the moment a file is looked at
Look ==
  \/ /\ writer.pc = "reading"
     /\ writer' = [writer EXCEPT !.pc = "found", !.text = file[day]]
     /\ UNCHANGED <<today, file, memory, chain, query, pruner, history>>
  \/ \E q \in Queries :
       /\ query[q].load.pc = "reading"
       /\ query' = [query EXCEPT ![q].load.pc = "found",
                                 ![q].load.text = file[Head(query[q].todo)]]
       /\ UNCHANGED <<today, file, memory, chain, writer, pruner, history>>

StartPrune ==
  /\ pruner.pc = "idle"
  /\ pruner' = [pc |-> "flush", behind |-> ToWaitFor]
  /\ UNCHANGED <<today, file, memory, chain, writer, query, history>>

\* the files older than the window go, one at a time, each with its day in memory
Prune ==
  /\ pruner.pc = "flush" /\ pruner.behind = 0
  /\ LET old == {d \in Days : d + KeepDays < today /\ file[d] > 0}
     IN  IF old = {} THEN /\ pruner' = [pruner EXCEPT !.pc = "idle"]
                          /\ UNCHANGED <<file, memory>>
         ELSE \E d \in old :
                /\ file' = [file EXCEPT ![d] = 0]
                /\ lru' = Without(lru, d)
                /\ count' = [count EXCEPT ![d] = 0]
                /\ loadedDays' = loadedDays \ {d}
                /\ UNCHANGED pruner
  /\ UNCHANGED <<today, chain, writer, query, history>>

Midnight ==
  /\ today < LastDay
  /\ today' = today + 1
  /\ UNCHANGED <<file, memory, chain, writer, query, pruner, history>>

(* Promise continuations run before anything else happens.                 *)
Microtask == Start \/ \E q \in Queries : Flushed(q) \/ Count(q) \/ Answer(q)

Quiet ==
  /\ ~(chain # <<>> /\ writer.pc = "idle")
  /\ \A q \in Queries : /\ query[q].pc = "flush" => query[q].behind > 0
                        /\ query[q].pc = "load" => query[q].load.pc # "idle"

UsageNext ==
  \/ Microtask
  \/ /\ Quiet
     /\ \/ record \/ Apply \/ Written \/ Look \/ StartPrune \/ Prune \/ Midnight
        \/ \E q \in Queries : Ask(q) \/ Load(q)

UsageSpec == UsageInit /\ [][UsageNext]_usageVars

-----------------------------------------------------------------------------
Loads == [pc : {"idle", "reading", "found", "appending"}, had : BOOLEAN, text : 0..MaxLines]

Asked == [pc : {"idle", "flush", "load", "answered"}, behind : Nat, known : [Days -> 0..MaxLines],
          todo : Seq(Days), load : Loads, stale : BOOLEAN]

(* Memory has a day if and only if it is loaded, so that #loadDay() never  *)
(* adds a file to records that are in it, and it keeps to its bound.       *)
UsageTypeOK ==
  /\ today \in Days
  /\ file \in [Days -> 0..MaxLines] /\ made \in [Days -> 0..MaxLines]
  /\ count \in [Days -> 0..MaxLines] /\ failed \in [Days -> 0..MaxFails]
  /\ lru \in Seq(Days) /\ ToSet(lru) = loadedDays
  /\ IsInjective(lru) /\ Len(lru) <= maxCachedDays
  /\ chain \in Seq(Days) /\ writer \in Loads
  /\ query \in [Queries -> Asked]
  /\ pruner \in [pc : {"idle", "flush"}, behind : Nat]
  /\ \A q \in Queries : query[q].behind <= Len(chain)
  /\ torn \subseteq Days

(* Comment of record(): history and increments are never counted twice, in *)
(* memory or on disk, whatever is evicted, pruned and read again.          *)
NothingIsCountedTwice ==
  /\ UsageTypeOK
  /\ \A d \in Days : count[d] <= made[d] /\ file[d] <= made[d]

(* Comment of query(): it waits for the records before it, so the file it  *)
(* then looks at holds them all.                                           *)
FlushReachesDisk ==
  [][\A q \in Queries :
       query[q].load.pc = "reading" /\ query'[q].load.pc = "found" =>
         LET d == Head(query[q].todo)
         IN  query'[q].load.text + Excused(d) >= query[q].known[d]]_usageVars

\* how many elements of s are d, after the first b
Behind(s, b, d) == Cardinality({i \in b + 1 .. Len(s) : s[i] = d})

\* records of day d that memory has not counted yet
Uncounted(d) == Behind(chain, IF writer.pc = "appending" THEN 1 ELSE 0, d)

\* prune() has not removed the day's file
InWindow(d) == d + KeepDays >= today

(* Comment of record(): no increment is lost.  It holds for every day that *)
(* no query was reading while a record of it was under way.                *)
ExactUnlessTorn ==
  \A d \in loadedDays \ torn :
    InWindow(d) => count[d] + Uncounted(d) + failed[d] >= made[d]

(* Comment of query(): its answer never lags behind record().              *)
QueryNotBehindRecord == \A q \in Queries : ~query[q].stale

-----------------------------------------------------------------------------
(* What every step preserves, and the two invariants above need.           *)

\* every record is on disk, lost or in the chain, until its file is removed
DiskIsExact ==
  \A d \in Days : /\ file[d] + failed[d] + Behind(chain, 0, d) <= made[d]
                  /\ InWindow(d) => file[d] + failed[d] + Behind(chain, 0, d) >= made[d]

\* no load adds to what is in memory, and each is part of something
LoadsAreUnderWay ==
  /\ ~writer.had /\ (writer.pc # "idle" => chain # <<>>)
  /\ \A q \in Queries :
       /\ ~query[q].load.had
       /\ query[q].load.pc # "idle" => query[q].pc = "load" /\ query[q].todo # <<>>
       /\ query[q].pc = "load" => query[q].behind = 0

\* what record() has found stays what it would find, until its line is written
WriterIsExact ==
  writer.pc = "found" =>
    /\ writer.text + failed[day] + Behind(chain, 0, day) <= made[day]
    /\ InWindow(day) => writer.text + failed[day] + Behind(chain, 0, day) >= made[day]

\* so does what a query has found, unless its day is torn
QueriesAreExact ==
  \A q \in Queries : query[q].load.pc # "idle" =>
    LET d == Head(query[q].todo)
    IN  /\ d \in torn \/ Behind(chain, 0, d) = 0
        /\ query[q].load.pc = "found" =>
             /\ query[q].load.text + Behind(chain, 0, d) <= made[d]
             /\ d \notin torn /\ InWindow(d) => query[q].load.text + failed[d] >= made[d]

\* what a query waits for holds every record before it that is not on disk
FlushesWaitEnough ==
  \A q \in Queries, d \in Days :
    query[q].pc \in {"flush", "load"} =>
      query[q].known[d] + Behind(chain, query[q].behind, d) <= made[d]

\* memory counts no record that it is still to count
MemoryIsNotAhead == \A d \in Days : count[d] + Uncounted(d) <= made[d]

UsageInv ==
  /\ UsageTypeOK
  /\ DiskIsExact
  /\ LoadsAreUnderWay
  /\ WriterIsExact
  /\ QueriesAreExact
  /\ FlushesWaitEnough
  /\ MemoryIsNotAhead
  /\ ExactUnlessTorn
=============================================================================
