------------------------------ MODULE TaskLog -------------------------------
(***************************************************************************)
(* The task log on disk (lib/tasklog.mjs): lines wait in memory, a timer   *)
(* or flushNow() takes them all, and a flush looks at the file, rotates    *)
(* the archives when it is full, and appends.  Every file operation is     *)
(* awaited and flushes do not wait for each other, so two of them meet on  *)
(* the same files.  A change of the configuration puts a new TaskLog in    *)
(* the place of the old one, over the same files, while requests that      *)
(* began with the old one still write to it (proxy.mjs:345).               *)
(*                                                                         *)
(* A line is its number in the order of write().  File 0 is tasks.jsonl,   *)
(* file i its archive tasks.i.jsonl.                                       *)
(***************************************************************************)
EXTENDS Naturals, Sequences, FiniteSets

CONSTANTS MaxLine,      \* bound: lines written
          MaxLogs,      \* bound: TaskLog objects, one more than reloads
          MaxRestarts,  \* bound: restarts of the process
          Flushes,      \* bound: flushes under way at once
          MaxFileBytes, \* in lines
          KeepFiles,
          Absent        \* what stands for a file that is not there

ASSUME FilesAssumption == KeepFiles \in Nat \ {0} /\ MaxFileBytes \in Nat \ {0}
ASSUME AbsentAssumption == Absent \notin Seq(Nat)
ASSUME BoundAssumption == MaxLogs \in Nat \ {0} /\ MaxLine \in Nat /\ MaxRestarts \in Nat

Logs == 1..MaxLogs
Files == 0..(KeepFiles - 1)
Lines == 1..MaxLine
Unlinked == KeepFiles \* the place of an open file that has no name any more

VARIABLES
  written,   \* how many lines there have been
  pending,   \* each object's lines that no flush has taken
  timer,     \* its debounce timer is armed
  current,   \* the object getTaskLog() returns
  flush,     \* each flush: where it stands, its lines, ...
  disk,      \* the lines of each file
  gone,      \* lines that are nowhere any more, by what became of them
  restarts

vars == <<written, pending, timer, current, flush, disk, gone, restarts>>

(* from is the archive that is to be moved next, file the one that is      *)
(* open; alone is history: no other flush ran at the same time and no      *)
(* step of the rotation failed.                                            *)
Idle == [at |-> "idle", lines |-> <<>>, from |-> 0, file |-> 0, alone |-> TRUE]

Init ==
  /\ pending = [l \in Logs |-> <<>>]
  /\ timer = [l \in Logs |-> FALSE]
  /\ current = 1
  /\ flush = [f \in Flushes |-> Idle]
  /\ written = 0
  /\ disk = [i \in Files |-> Absent]
  /\ gone = [aged |-> {}, overwritten |-> {}, failed |-> {}, died |-> {}]
  /\ restarts = 0

LinesOf(s) == {s[k] : k \in DOMAIN s}
Stored(d, i) == IF d[i] = Absent THEN {} ELSE LinesOf(d[i])
Running == {f \in Flushes : flush[f].at # "idle"}

-----------------------------------------------------------------------------
(* write() and the start of a flush.                                       *)

\* mutant: no timer while a flush is under way
SchedulesUnlessFlushing(l) == timer[l] \/ Running = {}

\* #schedule(): with lines pending, the timer is armed
Schedules(l) == TRUE

Write(l) ==
  /\ l <= current
  /\ written < MaxLine
  /\ written' = written + 1
  /\ pending' = [pending EXCEPT ![l] = Append(@, written + 1)]
  /\ timer' = [timer EXCEPT ![l] = Schedules(l)]
  /\ UNCHANGED <<current, flush, disk, gone, restarts>>

\* mutant: the lines are not taken out of the buffer
StillPending(l) == pending[l]

\* splice(): what a flush leaves in the buffer
LeftPending(l) == <<>>

(* #flush() up to its first await, with the timer disarmed.  The flushes   *)
(* that are under way are no longer alone, nor is this one.                *)
Flush(l) ==
  /\ timer' = [timer EXCEPT ![l] = FALSE]
  /\ IF pending[l] = <<>> THEN UNCHANGED <<pending, flush>>
     ELSE \E f \in Flushes \ Running :
            /\ flush' = [g \in Flushes |->
                           IF g = f THEN [Idle EXCEPT !.at = "stat", !.lines = pending[l],
                                                      !.alone = Running = {}]
                           ELSE IF g \in Running THEN [flush[g] EXCEPT !.alone = FALSE]
                           ELSE Idle]
            /\ pending' = [pending EXCEPT ![l] = LeftPending(l)]

FlushTimer(l) ==
  /\ timer[l]
  /\ Flush(l)
  /\ UNCHANGED <<written, current, disk, gone, restarts>>

\* shutdown(): the last flush is started, nobody waits for it
FlushNow ==
  /\ Flush(current)
  /\ UNCHANGED <<written, current, disk, gone, restarts>>

\* applyTaskLog(): the old object is flushed and replaced
Replace ==
  /\ current < MaxLogs
  /\ Flush(current)
  /\ current' = current + 1
  /\ UNCHANGED <<written, disk, gone, restarts>>

-----------------------------------------------------------------------------
(* A flush at work: one action per file operation.                         *)

Size == IF disk[0] = Absent THEN 0 ELSE Len(disk[0])

Go(f, at) == flush' = [flush EXCEPT ![f] = [@ EXCEPT !.at = at]]

\* an empty or missing file is never rotated
Stat(f) ==
  /\ flush[f].at = "stat"
  /\ Go(f, IF Size > 0 /\ Size + Len(flush[f].lines) > MaxFileBytes THEN "drop" ELSE "open")
  /\ UNCHANGED <<written, pending, timer, current, disk, gone, restarts>>

\* mutant: the loop over the archives starts one short
FirstShort == KeepFiles - 3

\* the newest archive that has to be moved out of the way, before file 0
FirstMoved == KeepFiles - 2

\* with one file there is no archive, and the file itself is removed
Oldest == IF KeepFiles = 1 THEN 0 ELSE KeepFiles - 1

AfterDrop(s) == IF KeepFiles = 1 THEN [s EXCEPT !.at = "open"]
                ELSE [s EXCEPT !.at = "move", !.from = FirstMoved]

AfterMove(s) == IF s.from = 0 THEN [s EXCEPT !.at = "open"]
                ELSE [s EXCEPT !.from = @ - 1]

Detached(s, i) == IF s.at = "append" /\ s.file = i THEN [s EXCEPT !.file = Unlinked] ELSE s

\* unlink() of the oldest file
Drop(f) ==
  /\ flush[f].at = "drop"
  /\ disk' = [disk EXCEPT ![Oldest] = Absent]
  /\ gone' = [gone EXCEPT !.aged = @ \cup Stored(disk, Oldest)]
  /\ flush' = [g \in Flushes |-> IF g = f THEN AfterDrop(flush[f])
                                 ELSE Detached(flush[g], Oldest)]
  /\ UNCHANGED <<written, pending, timer, current, restarts>>

\* an open file keeps its lines under its new name
Moved(s, i) ==
  IF s.at = "append" /\ s.file = i THEN [s EXCEPT !.file = i + 1] ELSE Detached(s, i + 1)

(* rename() of a file to the next number: what was there under that number *)
(* is lost.                                                                *)
Move(f) ==
  LET i == flush[f].from
  IN  /\ flush[f].at = "move"
      /\ disk[i] # Absent
      /\ disk' = [disk EXCEPT ![i + 1] = disk[i], ![i] = Absent]
      /\ gone' = [gone EXCEPT !.overwritten = @ \cup Stored(disk, i + 1)]
      /\ flush' = [g \in Flushes |-> IF g = f THEN AfterMove(flush[f]) ELSE Moved(flush[g], i)]
      /\ UNCHANGED <<written, pending, timer, current, restarts>>

\* there is nothing to move, and the error is swallowed
MoveNothing(f) ==
  /\ flush[f].at = "move"
  /\ disk[flush[f].from] = Absent
  /\ flush' = [flush EXCEPT ![f] = AfterMove(@)]
  /\ UNCHANGED <<written, pending, timer, current, disk, gone, restarts>>

\* a step of the rotation fails, and the flush goes on all the same
RotateFails(f) ==
  /\ flush[f].at \in {"drop", "move"}
  /\ LET s == [flush[f] EXCEPT !.alone = FALSE]
     IN  flush' = [flush EXCEPT ![f] = IF s.at = "drop" THEN AfterDrop(s) ELSE AfterMove(s)]
  /\ UNCHANGED <<written, pending, timer, current, disk, gone, restarts>>

\* appendFile() opens the file, which creates it ...
Open(f) ==
  /\ flush[f].at = "open"
  /\ disk' = [disk EXCEPT ![0] = IF @ = Absent THEN <<>> ELSE @]
  /\ flush' = [flush EXCEPT ![f] = [@ EXCEPT !.at = "append", !.file = 0]]
  /\ UNCHANGED <<written, pending, timer, current, gone, restarts>>

\* ... and writes to what it has opened, whatever its name is by now
AppendLines(f) ==
  /\ flush[f].at = "append"
  /\ LET i == flush[f].file
     IN  IF i = Unlinked
         THEN /\ gone' = [gone EXCEPT !.overwritten = @ \cup LinesOf(flush[f].lines)]
              /\ disk' = disk
         ELSE /\ disk' = [disk EXCEPT ![i] = @ \o flush[f].lines]
              /\ gone' = gone
  /\ flush' = [flush EXCEPT ![f] = Idle]
  /\ UNCHANGED <<written, pending, timer, current, restarts>>

\* appendFile() fails: the error is counted and the lines are given up
AppendFails(f) ==
  /\ flush[f].at \in {"open", "append"}
  /\ gone' = [gone EXCEPT !.failed = @ \cup LinesOf(flush[f].lines)]
  /\ flush' = [flush EXCEPT ![f] = Idle]
  /\ UNCHANGED <<written, pending, timer, current, disk, restarts>>

-----------------------------------------------------------------------------
(* The process exits, after shutdown() or without, and starts again.       *)

InMemory == (UNION {LinesOf(pending[l]) : l \in Logs})
            \cup (UNION {LinesOf(flush[f].lines) : f \in Flushes})

Restart ==
  /\ restarts < MaxRestarts
  /\ restarts' = restarts + 1
  /\ gone' = [gone EXCEPT !.died = @ \cup InMemory]
  /\ pending' = [l \in Logs |-> <<>>]
  /\ timer' = [l \in Logs |-> FALSE]
  /\ current' = 1
  /\ flush' = [f \in Flushes |-> Idle]
  /\ UNCHANGED <<written, disk>>

Next ==
  \/ \E l \in Logs : Write(l) \/ FlushTimer(l)
  \/ FlushNow
  \/ Replace
  \/ \E f \in Flushes : \/ Stat(f) \/ Drop(f) \/ Move(f) \/ MoveNothing(f) \/ RotateFails(f)
                        \/ Open(f) \/ AppendLines(f) \/ AppendFails(f)
  \/ Restart

Spec == Init /\ [][Next]_vars

-----------------------------------------------------------------------------
TypeOK ==
  /\ written \in 0..MaxLine
  /\ \A l \in Logs : LinesOf(pending[l]) \subseteq Lines
  /\ timer \in [Logs -> BOOLEAN]
  /\ current \in Logs
  /\ \A f \in Flushes : /\ flush[f].at \in {"idle", "stat", "drop", "move", "open", "append"}
                        /\ LinesOf(flush[f].lines) \subseteq Lines
                        /\ flush[f].at = "move" => flush[f].from + 1 \in Files
                        /\ flush[f].file \in Files \cup {Unlinked}
  /\ DOMAIN disk = Files /\ \A i \in Files : Stored(disk, i) \subseteq Lines
  /\ restarts \in 0..MaxRestarts

Spots(s, n) == {k \in DOMAIN s : s[k] = n}

\* where a line is: in a buffer, in the hands of a flush, in a file or gone
Places(n) ==
       (UNION {{<<"pending", l, k>> : k \in Spots(pending[l], n)} : l \in Logs})
  \cup (UNION {{<<"flush", f, k>> : k \in Spots(flush[f].lines, n)} : f \in Flushes})
  \cup (UNION {{<<"disk", i, k>> : k \in Spots(disk[i], n)} : i \in {j \in Files : disk[j] # Absent}})
  \cup {<<"gone", fate, 1>> : fate \in {x \in DOMAIN gone : n \in gone[x]}}

(* Whatever flushes, rotations, reloads and exits there are and wherever   *)
(* they meet, a line that was written is in exactly one place: it never    *)
(* reaches two files and never vanishes but by the ways the log knows.     *)
EveryLineIsInOnePlace ==
  /\ TypeOK
  /\ \A n \in 1..written : Cardinality(Places(n)) = 1

(* Nobody forgets a line in memory: while an object has lines pending, the *)
(* old object of a reload included, its timer is going to flush them.      *)
PendingIsScheduled == \A l \in Logs : pending[l] # <<>> => timer[l]

(* A rotation that no other flush meets and none of whose steps fails      *)
(* drops nothing but the oldest file; a crash in the middle of an earlier  *)
(* one, which leaves gaps in the numbering, changes nothing about that.    *)
AloneRotationDropsOldest ==
  [][gone'.overwritten # gone.overwritten =>
       \E f \in Running : ~flush[f].alone /\ flush'[f] # flush[f]]_vars
=============================================================================
