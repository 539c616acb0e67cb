--------------------------- MODULE StorageProofs ----------------------------
(***************************************************************************)
(* Proofs about TaskLog.tla, for any number of lines, objects, flushes,    *)
(* restarts and files, and any size of them, and then about UsageStore.tla *)
(* for any number of days, records and queries.                            *)
(***************************************************************************)
EXTENDS TaskLog, UsageStore, FiniteSetTheorems, FunctionTheorems, SequenceTheorems, TLAPS

Buffered ==
  /\ pending \in [Logs -> Seq(Nat)] /\ timer \in [Logs -> BOOLEAN]
  /\ written \in Nat /\ current \in Logs
  /\ PendingIsScheduled

Steps == [at : {"idle", "stat", "drop", "move", "open", "append"}, lines : Seq(Nat),
          from : Nat, file : Nat, alone : BOOLEAN]

(* A flush that is alone finds the number it moves a file to free: what    *)
(* was there it has dropped or moved itself.  And what it has opened is    *)
(* still the current file.                                                 *)
Undisturbed(s, d) ==
  /\ s.at = "move" => s.from + 1 \in Files
  /\ s.at = "move" /\ s.alone => d[s.from + 1] = Absent
  /\ s.at = "append" /\ s.alone => s.file = 0

Rotating ==
  /\ flush \in [Flushes -> Steps]
  /\ DOMAIN disk = Files
  /\ \A f \in Flushes : Undisturbed(flush[f], disk)
  /\ \A f, g \in Running : flush[f].alone => g = f

Fates == {"aged", "overwritten", "failed", "died"}

Inv == Buffered /\ Rotating /\ DOMAIN gone = Fates

LEMMA Sets ==
  /\ 0 \in Files /\ KeepFiles \in Nat /\ KeepFiles \notin Files
  /\ \A l \in Logs : l \in Nat
BY FilesAssumption DEF Files, Logs

LEMMA InitInv == ASSUME Init PROVE Inv
<1>1. Buffered
  BY BoundAssumption DEF Init, Buffered, PendingIsScheduled, Logs
<1>2. Idle \in Steps
  BY DEF Idle, Steps
<1>3. Rotating
  BY <1>2 DEF Init, Rotating, Idle, Running, Undisturbed
<1>4. DOMAIN gone = Fates
  BY DEF Init, Fates
<1> QED
  BY <1>1, <1>3, <1>4 DEF Inv

\* lines that are taken and lines that are put into a buffer
LEMMA FlushBuffers == ASSUME Inv, NEW l \in Logs, Flush(l), written' = written, current' \in Logs PROVE Buffered'
<1>1. pending \in [Logs -> Seq(Nat)] /\ timer \in [Logs -> BOOLEAN] /\ PendingIsScheduled /\ written \in Nat
  BY DEF Inv, Buffered
<1>2. timer' = [timer EXCEPT ![l] = FALSE]
  BY DEF Flush
<1>3. \/ pending' = [pending EXCEPT ![l] = <<>>]
      \/ pending[l] = <<>> /\ pending' = pending
  BY DEF Flush, LeftPending
<1>4. pending' \in [Logs -> Seq(Nat)] /\ timer' \in [Logs -> BOOLEAN]
  <2>1. <<>> \in Seq(Nat)
    OBVIOUS
  <2> QED
    BY <1>1, <1>2, <1>3, <2>1
<1>5. PendingIsScheduled'
  BY <1>1, <1>2, <1>3 DEF PendingIsScheduled
<1> QED
  BY <1>1, <1>4, <1>5 DEF Buffered

\* the flush that begins is alone only if no other is under way
LEMMA FlushRotates == ASSUME Inv, NEW l \in Logs, Flush(l), disk' = disk PROVE Rotating'
<1>1. flush \in [Flushes -> Steps] /\ Rotating /\ pending \in [Logs -> Seq(Nat)]
  BY DEF Inv, Rotating, Buffered
<1>2. CASE pending[l] = <<>>
  BY <1>1, <1>2 DEF Flush, Rotating, Running
<1>3. CASE pending[l] # <<>>
  <2>1. PICK f \in Flushes \ Running :
          flush' = [g \in Flushes |->
                     IF g = f THEN [Idle EXCEPT !.at = "stat", !.lines = pending[l],
                                                !.alone = Running = {}]
                     ELSE IF g \in Running THEN [flush[g] EXCEPT !.alone = FALSE]
                     ELSE Idle]
    BY <1>3 DEF Flush
  <2> DEFINE new == [Idle EXCEPT !.at = "stat", !.lines = pending[l], !.alone = Running = {}]
  <2>2. new \in Steps /\ new.at = "stat" /\ new.alone = (Running = {})
    BY <1>1 DEF Idle, Steps
  <2>3. Idle \in Steps /\ Idle.at = "idle"
    BY DEF Idle, Steps
  <2>4. ASSUME NEW g \in Flushes
        PROVE  /\ [flush[g] EXCEPT !.alone = FALSE] \in Steps
               /\ [flush[g] EXCEPT !.alone = FALSE].alone = FALSE
               /\ [flush[g] EXCEPT !.alone = FALSE].at = flush[g].at
               /\ [flush[g] EXCEPT !.alone = FALSE].from = flush[g].from
    BY <1>1 DEF Steps
  <2> HIDE DEF new
  <2>5. \A g \in Flushes : flush'[g] = IF g = f THEN new
                                      ELSE IF g \in Running THEN [flush[g] EXCEPT !.alone = FALSE]
                                      ELSE Idle
    BY <2>1 DEF new
  <2>6. flush' \in [Flushes -> Steps]
    BY <2>1, <2>2, <2>3, <2>4 DEF new
  <2>7. \A g \in Flushes : Undisturbed(flush[g], disk)'
    BY <1>1, <2>2, <2>3, <2>4, <2>5 DEF Undisturbed, Rotating
  <2>8. \A g, h \in Running' : flush'[g].alone => h = g
    BY <2>2, <2>3, <2>4, <2>5 DEF Running
  <2> QED
    BY <1>1, <2>6, <2>7, <2>8 DEF Rotating
<1> QED
  BY <1>2, <1>3

(* The step of a flush that is under way: it may only lose its solitude,   *)
(* and whoever else is under way has none.                                 *)
LEMMA StepRotates ==
  ASSUME Inv, NEW f \in Running, NEW s \in Steps, s.alone => flush[f].alone,
         flush'[f] = s, flush' \in [Flushes -> Steps],
         \A g \in Flushes \ {f} : /\ flush'[g].at = flush[g].at
                                  /\ flush'[g].alone = flush[g].alone
                                  /\ flush'[g].from = flush[g].from,
         DOMAIN disk' = Files, Undisturbed(s, disk')
  PROVE  Rotating'
<1>1. Rotating /\ f \in Flushes
  BY DEF Inv, Running
<1>2. \A g \in Running \ {f} : ~flush[g].alone /\ ~flush[f].alone
  BY <1>1 DEF Rotating
<1>3. \A g \in Flushes : Undisturbed(flush'[g], disk')
  <2> SUFFICES ASSUME NEW g \in Flushes \ {f} PROVE Undisturbed(flush'[g], disk')
    BY <1>1
  <2>1. CASE g \in Running
    BY <1>1, <1>2, <2>1 DEF Rotating, Undisturbed
  <2>2. CASE g \notin Running
    BY <2>2 DEF Undisturbed, Running
  <2> QED
    BY <2>1, <2>2
<1>4. \A g, h \in Running' : flush'[g].alone => h = g
  <2> SUFFICES ASSUME NEW g \in Running', NEW h \in Running', flush'[g].alone, h # g PROVE FALSE
    OBVIOUS
  <2>1. (g = f \/ g \in Running) /\ (h = f \/ h \in Running)
    BY DEF Running
  <2> QED
    BY <1>1, <1>2, <2>1 DEF Running
<1> QED
  BY <1>1, <1>3, <1>4 DEF Rotating

-----------------------------------------------------------------------------
(* The actions.                                                            *)

LEMMA IdleStep == Idle \in Steps /\ Idle.at = "idle" /\ Idle.alone = TRUE
BY DEF Idle, Steps

\* the file the rotation goes on with, and that its next number is free
LEMMA AfterDropOK ==
  ASSUME NEW s \in Steps, NEW d, d[Oldest] = Absent
  PROVE  /\ AfterDrop(s) \in Steps /\ AfterDrop(s).alone = s.alone
         /\ AfterDrop(s).at # "drop" /\ Undisturbed(AfterDrop(s), d)
<1>1. CASE KeepFiles = 1
  BY <1>1 DEF AfterDrop, Undisturbed, Steps
<1>2. CASE KeepFiles # 1
  <2> DEFINE t == [[s EXCEPT !.at = "move"] EXCEPT !.from = FirstMoved]
  <2>1. FirstMoved \in Nat /\ FirstMoved + 1 = Oldest /\ Oldest \in Files
    BY <1>2, FilesAssumption DEF FirstMoved, Oldest, Files
  <2>2. t \in Steps /\ t.at = "move" /\ t.from = FirstMoved /\ t.alone = s.alone
    BY <2>1 DEF Steps
  <2>3. AfterDrop(s) = t
    BY <1>2 DEF AfterDrop
  <2> HIDE DEF t
  <2> QED
    BY <2>1, <2>2, <2>3 DEF Undisturbed
<1> QED
  BY <1>1, <1>2

LEMMA AfterMoveOK ==
  ASSUME NEW s \in Steps, s.at = "move", s.from + 1 \in Files, NEW d, d[s.from] = Absent
  PROVE  /\ AfterMove(s) \in Steps /\ AfterMove(s).alone = s.alone
         /\ AfterMove(s) # s /\ Undisturbed(AfterMove(s), d)
<1>1. CASE s.from = 0
  BY <1>1 DEF AfterMove, Undisturbed, Steps
<1>2. CASE s.from # 0
  <2> DEFINE t == [s EXCEPT !.from = s.from - 1]
  <2>1. s.from - 1 \in Nat /\ (s.from - 1) + 1 = s.from /\ s.from \in Files /\ s.from - 1 # s.from
    BY <1>2, FilesAssumption DEF Steps, Files
  <2>2. t \in Steps /\ t.at = "move" /\ t.from = s.from - 1 /\ t.alone = s.alone
    BY <2>1 DEF Steps
  <2>3. AfterMove(s) = t
    BY <1>2 DEF AfterMove
  <2> HIDE DEF t
  <2> QED
    BY <2>1, <2>2, <2>3 DEF Undisturbed
<1> QED
  BY <1>1, <1>2

\* files that lose their name under a flush change nothing else of it
LEMMA DetachedOK ==
  ASSUME NEW s \in Steps, NEW i \in Files
  PROVE  /\ Detached(s, i) \in Steps /\ Detached(s, i).at = s.at
         /\ Detached(s, i).alone = s.alone /\ Detached(s, i).from = s.from
<1>1. Unlinked \in Nat
  BY FilesAssumption DEF Unlinked
<1> QED
  BY <1>1 DEF Detached, Steps

LEMMA MovedOK ==
  ASSUME NEW s \in Steps, NEW i \in Files, i + 1 \in Files
  PROVE  /\ Moved(s, i) \in Steps /\ Moved(s, i).at = s.at
         /\ Moved(s, i).alone = s.alone /\ Moved(s, i).from = s.from
<1>1. i + 1 \in Nat
  BY DEF Files
<1> QED
  BY <1>1, DetachedOK DEF Moved, Steps

\* a step that touches only its own flush
LEMMA OwnRotates ==
  ASSUME Inv, NEW f \in Running, NEW s \in Steps, s.alone => flush[f].alone,
         flush' = [flush EXCEPT ![f] = s], DOMAIN disk' = Files, Undisturbed(s, disk')
  PROVE  Rotating'
<1>1. flush \in [Flushes -> Steps] /\ f \in Flushes
  BY DEF Inv, Rotating, Running
<1>2. /\ flush' \in [Flushes -> Steps] /\ flush'[f] = s
      /\ \A g \in Flushes \ {f} : flush'[g] = flush[g]
  BY <1>1
<1> QED
  BY <1>2, StepRotates

LEMMA FlushStepRotates ==
  ASSUME Inv, NEW f \in Flushes,
         \/ Stat(f) \/ Drop(f) \/ Move(f) \/ MoveNothing(f) \/ RotateFails(f)
         \/ Open(f) \/ AppendLines(f) \/ AppendFails(f)
  PROVE  /\ Rotating'
         /\ gone'.overwritten # gone.overwritten => ~flush[f].alone /\ flush'[f] # flush[f]
         /\ DOMAIN gone' = Fates
<1>1. /\ flush \in [Flushes -> Steps] /\ flush[f] \in Steps /\ DOMAIN disk = Files
      /\ Undisturbed(flush[f], disk) /\ DOMAIN gone = Fates
  BY DEF Inv, Rotating
<1>2. f \in Running
  BY DEF Running, Stat, Drop, Move, MoveNothing, RotateFails, Open, AppendLines, AppendFails
<1>3. CASE Stat(f)
  <2>1. PICK at \in {"drop", "open"} : flush' = [flush EXCEPT ![f] = [flush[f] EXCEPT !.at = at]]
    BY <1>3 DEF Stat, Go
  <2> DEFINE s == [flush[f] EXCEPT !.at = at]
  <2>2. s \in Steps /\ s.at = at /\ s.alone = flush[f].alone
    BY <1>1 DEF Steps
  <2>3. flush' = [flush EXCEPT ![f] = s] /\ UNCHANGED <<disk, gone>>
    BY <1>3, <2>1 DEF Stat
  <2> HIDE DEF s
  <2>4. Undisturbed(s, disk')
    BY <2>2 DEF Undisturbed
  <2> QED
    BY <1>1, <1>2, <2>2, <2>3, <2>4, OwnRotates
<1>4. CASE Drop(f)
  <2> DEFINE s == AfterDrop(flush[f])
  <2>1. /\ disk' = [disk EXCEPT ![Oldest] = Absent]
        /\ flush' = [g \in Flushes |-> IF g = f THEN s ELSE Detached(flush[g], Oldest)]
        /\ gone' = [gone EXCEPT !.aged = @ \cup Stored(disk, Oldest)]
    BY <1>4 DEF Drop
  <2>2. Oldest \in Files
    BY FilesAssumption DEF Oldest, Files
  <2>3. disk'[Oldest] = Absent /\ DOMAIN disk' = Files
    BY <1>1, <2>1, <2>2
  <2>4. s \in Steps /\ s.alone = flush[f].alone /\ Undisturbed(s, disk')
    BY <1>1, <2>3, AfterDropOK
  <2> HIDE DEF s
  <2>5. \A g \in Flushes : /\ Detached(flush[g], Oldest) \in Steps
                           /\ Detached(flush[g], Oldest).at = flush[g].at
                           /\ Detached(flush[g], Oldest).alone = flush[g].alone
                           /\ Detached(flush[g], Oldest).from = flush[g].from
    BY <1>1, <2>2, DetachedOK
  <2>6. flush' \in [Flushes -> Steps] /\ flush'[f] = s
    BY <2>1, <2>4, <2>5
  <2>7. \A g \in Flushes \ {f} : flush'[g] = Detached(flush[g], Oldest)
    BY <2>1
  <2>8. Rotating'
    BY <1>2, <2>3, <2>4, <2>5, <2>6, <2>7, StepRotates
  <2>9. DOMAIN gone' = Fates /\ gone'.overwritten = gone.overwritten
    BY <1>1, <2>1 DEF Fates
  <2> QED
    BY <2>8, <2>9
<1>5. CASE Move(f)
  <2> DEFINE i == flush[f].from
             s == AfterMove(flush[f])
  <2>1. /\ disk' = [disk EXCEPT ![i + 1] = disk[i], ![i] = Absent]
        /\ flush' = [g \in Flushes |-> IF g = f THEN s ELSE Moved(flush[g], i)]
        /\ gone' = [gone EXCEPT !.overwritten = @ \cup Stored(disk, i + 1)]
        /\ flush[f].at = "move"
    BY <1>5 DEF Move
  <2>2. i \in Files /\ i + 1 \in Files /\ i \in Nat
    BY <1>1, <2>1, FilesAssumption DEF Undisturbed, Files, Steps
  <2>3. disk'[i] = Absent /\ DOMAIN disk' = Files
    BY <1>1, <2>1, <2>2
  <2>4. s \in Steps /\ s.alone = flush[f].alone /\ Undisturbed(s, disk') /\ s # flush[f]
    BY <1>1, <2>1, <2>2, <2>3, AfterMoveOK
  <2>5. \A g \in Flushes : /\ Moved(flush[g], i) \in Steps
                           /\ Moved(flush[g], i).at = flush[g].at
                           /\ Moved(flush[g], i).alone = flush[g].alone
                           /\ Moved(flush[g], i).from = flush[g].from
    BY <1>1, <2>2, MovedOK
  <2>6. flush[f].alone => Stored(disk, i + 1) = {}
    BY <1>1, <2>1 DEF Undisturbed, Stored
  <2> HIDE DEF s, i
  <2>7. flush' \in [Flushes -> Steps] /\ flush'[f] = s
    BY <2>1, <2>4, <2>5
  <2>8. \A g \in Flushes \ {f} : flush'[g] = Moved(flush[g], i)
    BY <2>1
  <2>9. Rotating'
    BY <1>2, <2>3, <2>4, <2>5, <2>7, <2>8, StepRotates
  <2>10. DOMAIN gone' = Fates /\ gone'.overwritten = gone.overwritten \cup Stored(disk, i + 1)
    BY <1>1, <2>1 DEF Fates
  <2> QED
    BY <2>4, <2>6, <2>7, <2>9, <2>10
<1>6. CASE MoveNothing(f)
  <2>1. /\ flush' = [flush EXCEPT ![f] = AfterMove(flush[f])] /\ UNCHANGED <<disk, gone>>
        /\ flush[f].at = "move" /\ disk[flush[f].from] = Absent
    BY <1>6 DEF MoveNothing
  <2>2. /\ AfterMove(flush[f]) \in Steps /\ AfterMove(flush[f]).alone = flush[f].alone
        /\ Undisturbed(AfterMove(flush[f]), disk')
    BY <1>1, <2>1, AfterMoveOK DEF Undisturbed
  <2> QED
    BY <1>1, <1>2, <2>1, <2>2, OwnRotates
<1>7. CASE RotateFails(f)
  <2> DEFINE s == [flush[f] EXCEPT !.alone = FALSE]
             t == IF s.at = "drop" THEN AfterDrop(s) ELSE AfterMove(s)
  <2>1. flush' = [flush EXCEPT ![f] = t] /\ UNCHANGED <<disk, gone>> /\ flush[f].at \in {"drop", "move"}
    BY <1>7 DEF RotateFails
  <2>2. s \in Steps /\ s.at = flush[f].at /\ s.from = flush[f].from /\ s.alone = FALSE
    BY <1>1 DEF Steps
  <2> HIDE DEF s
  <2>3. t \in Steps /\ t.alone = FALSE /\ (t.at = "move" => t.from + 1 \in Files)
    <3> DEFINE blank == [i \in Files |-> Absent]
    <3>1. Oldest \in Files
      BY FilesAssumption DEF Oldest, Files
    <3>2. CASE s.at = "drop"
      <4>1. blank[Oldest] = Absent
        BY <3>1
      <4>2. /\ AfterDrop(s) \in Steps /\ AfterDrop(s).alone = s.alone
            /\ Undisturbed(AfterDrop(s), blank)
        BY <2>2, <4>1, AfterDropOK
      <4> QED
        BY <2>2, <3>2, <4>2 DEF Undisturbed
    <3>3. CASE s.at # "drop"
      <4>1. s.at = "move" /\ s.from + 1 \in Files
        BY <1>1, <2>1, <2>2, <3>3 DEF Undisturbed
      <4>2. s.from \in Files
        BY <2>2, <4>1, FilesAssumption DEF Files, Steps
      <4>3. blank[s.from] = Absent
        BY <4>2
      <4>4. /\ AfterMove(s) \in Steps /\ AfterMove(s).alone = s.alone
            /\ Undisturbed(AfterMove(s), blank)
        BY <2>2, <4>1, <4>3, AfterMoveOK
      <4> QED
        BY <2>2, <3>3, <4>4 DEF Undisturbed
    <3> QED
      BY <3>2, <3>3
  <2> HIDE DEF t
  <2>4. Undisturbed(t, disk')
    BY <2>3 DEF Undisturbed
  <2> QED
    BY <1>1, <1>2, <2>1, <2>3, <2>4, OwnRotates
<1>8. CASE Open(f)
  <2> DEFINE s == [[flush[f] EXCEPT !.at = "append"] EXCEPT !.file = 0]
  <2>1. /\ flush' = [flush EXCEPT ![f] = s] /\ gone' = gone
        /\ disk' = [disk EXCEPT ![0] = IF @ = Absent THEN <<>> ELSE @]
    BY <1>8 DEF Open
  <2>2. s \in Steps /\ s.at = "append" /\ s.alone = flush[f].alone /\ s.file = 0
    BY <1>1 DEF Steps
  <2> HIDE DEF s
  <2>3. Undisturbed(s, disk') /\ DOMAIN disk' = Files
    BY <1>1, <2>1, <2>2 DEF Undisturbed
  <2> QED
    BY <1>1, <1>2, <2>1, <2>2, <2>3, OwnRotates
<1>9. CASE AppendLines(f) \/ AppendFails(f)
  <2>1. flush' = [flush EXCEPT ![f] = Idle] /\ flush[f].at # "idle"
    BY <1>9 DEF AppendLines, AppendFails
  <2>2. DOMAIN disk' = Files /\ DOMAIN gone' = Fates
    BY <1>1, <1>9 DEF AppendLines, AppendFails
  <2>3. gone'.overwritten # gone.overwritten => flush[f].file = Unlinked /\ flush[f].at = "append"
    <3>1. CASE AppendLines(f)
      BY <3>1 DEF AppendLines
    <3>2. CASE AppendFails(f)
      <4>1. gone' = [gone EXCEPT !.failed = @ \cup LinesOf(flush[f].lines)]
        BY <3>2 DEF AppendFails
      <4>2. gone'.overwritten = gone.overwritten
        BY <1>1, <4>1 DEF Fates
      <4> QED
        BY <4>2
    <3> QED
      BY <1>9, <3>1, <3>2
  <2>4. Unlinked # 0
    BY FilesAssumption DEF Unlinked
  <2>5. gone'.overwritten # gone.overwritten => ~flush[f].alone
    BY <1>1, <2>3, <2>4 DEF Undisturbed
  <2>6. \A g \in Flushes : flush'[g] = IF g = f THEN Idle ELSE flush[g]
    BY <1>1, <2>1
  <2>7. Rotating'
    <3>1. flush' \in [Flushes -> Steps]
      BY <1>1, <2>1, IdleStep
    <3>2. \A g \in Running' : g \in Running /\ g # f /\ flush'[g] = flush[g]
      BY <2>6, IdleStep DEF Running
    <3>3. \A g \in Running' : ~flush[g].alone
      BY <1>2, <3>2 DEF Inv, Rotating
    <3>4. \A g \in Flushes : Undisturbed(flush'[g], disk')
      <4> SUFFICES ASSUME NEW g \in Flushes PROVE Undisturbed(flush'[g], disk')
        OBVIOUS
      <4>1. CASE g \in Running'
        BY <3>2, <3>3, <4>1 DEF Inv, Rotating, Undisturbed
      <4>2. CASE g \notin Running'
        BY <4>2 DEF Running, Undisturbed
      <4> QED
        BY <4>1, <4>2
    <3> QED
      BY <2>2, <3>1, <3>2, <3>3, <3>4 DEF Rotating
  <2>8. flush'[f] # flush[f]
    BY <2>1, <2>6, IdleStep
  <2> QED
    BY <2>2, <2>5, <2>7, <2>8
<1> QED
  BY <1>3, <1>4, <1>5, <1>6, <1>7, <1>8, <1>9

LEMMA NextInv == Inv /\ [Next]_vars => Inv'
<1> SUFFICES ASSUME Inv, [Next]_vars PROVE Inv'
  OBVIOUS
<1>1. /\ pending \in [Logs -> Seq(Nat)] /\ timer \in [Logs -> BOOLEAN] /\ written \in Nat
      /\ current \in Logs /\ PendingIsScheduled /\ Buffered /\ Rotating /\ DOMAIN gone = Fates
  BY DEF Inv, Buffered
<1>2. ASSUME NEW l \in Logs, Write(l) PROVE Inv'
  <2>1. /\ pending' = [pending EXCEPT ![l] = Append(pending[l], written + 1)]
        /\ timer' = [timer EXCEPT ![l] = TRUE] /\ written' = written + 1
        /\ UNCHANGED <<current, flush, disk, gone>>
    BY <1>2 DEF Write, Schedules
  <2>2. Append(pending[l], written + 1) \in Seq(Nat)
    BY <1>1
  <2>3. Buffered'
    BY <1>1, <2>1, <2>2 DEF Buffered, PendingIsScheduled
  <2>4. Rotating'
    BY <1>1, <2>1 DEF Rotating, Running
  <2> QED
    BY <1>1, <2>1, <2>3, <2>4 DEF Inv
<1>3. ASSUME NEW l \in Logs, FlushTimer(l) PROVE Inv'
  BY <1>1, <1>3, FlushBuffers, FlushRotates DEF FlushTimer, Inv
<1>4. CASE FlushNow
  BY <1>1, <1>4, FlushBuffers, FlushRotates DEF FlushNow, Inv
<1>5. CASE Replace
  <2>1. current' \in Logs
    BY <1>1, <1>5, BoundAssumption DEF Replace, Logs
  <2> QED
    BY <1>1, <1>5, <2>1, FlushBuffers, FlushRotates DEF Replace, Inv
<1>6. ASSUME NEW f \in Flushes,
             \/ Stat(f) \/ Drop(f) \/ Move(f) \/ MoveNothing(f) \/ RotateFails(f)
             \/ Open(f) \/ AppendLines(f) \/ AppendFails(f)
      PROVE  Inv'
  <2>1. UNCHANGED <<written, pending, timer, current>>
    BY <1>6 DEF Stat, Drop, Move, MoveNothing, RotateFails, Open, AppendLines, AppendFails
  <2>2. Buffered'
    BY <1>1, <2>1 DEF Buffered, PendingIsScheduled
  <2> QED
    BY <1>6, <2>2, FlushStepRotates DEF Inv
<1>7. CASE Restart
  <2>1. Buffered'
    BY <1>1, <1>7, BoundAssumption DEF Restart, Buffered, PendingIsScheduled, Logs
  <2>2. Rotating'
    BY <1>1, <1>7, IdleStep DEF Restart, Rotating, Running, Undisturbed
  <2>3. DOMAIN gone' = Fates
    BY <1>1, <1>7 DEF Restart
  <2> QED
    BY <2>1, <2>2, <2>3 DEF Inv
<1>8. CASE UNCHANGED vars
  BY <1>1, <1>8 DEF vars, Inv, Buffered, Rotating, PendingIsScheduled, Running
<1> QED
  BY <1>2, <1>3, <1>4, <1>5, <1>6, <1>7, <1>8 DEF Next

-----------------------------------------------------------------------------
(* The inductive invariant of the buffers (lib/tasklog.mjs:#schedule) and  *)
(* of the rotation (#rotateIfNeeded): a flush that no other meets moves    *)
(* every file to a free number and appends to the current file.            *)
THEOREM LogSafe == Spec => []Inv
<1> QED
  BY InitInv, NextInv, PTL DEF Spec

(* No line is forgotten in memory: an object with lines pending, be it the *)
(* one a reload has replaced, has a timer that will flush them.            *)
THEOREM PendingScheduled == Spec => []PendingIsScheduled
<1>1. Inv => PendingIsScheduled
  BY DEF Inv, Buffered
<1> QED
  BY <1>1, LogSafe, PTL

(* A rotation that no other flush meets and none of whose steps fails      *)
(* overwrites no archive, whatever gaps an earlier one has left.           *)
THEOREM AloneDropsOldest == Spec => AloneRotationDropsOldest
<1> DEFINE Overwrites == gone'.overwritten # gone.overwritten
           Meets == \E f \in Running : ~flush[f].alone /\ flush'[f] # flush[f]
<1>1. Inv /\ [Next]_vars => [Overwrites => Meets]_vars
  <2> SUFFICES ASSUME Inv, Next, Overwrites PROVE Meets
    OBVIOUS
  <2>1. gone' # gone
    OBVIOUS
  <2>2. DOMAIN gone = Fates
    BY DEF Inv
  <2>3. ~Restart
    <3> SUFFICES ASSUME Restart PROVE FALSE
      OBVIOUS
    <3>1. gone' = [gone EXCEPT !.died = @ \cup InMemory]
      BY DEF Restart
    <3>2. gone'.overwritten = gone.overwritten
      BY <2>2, <3>1 DEF Fates
    <3> QED
      BY <3>2
  <2>4. PICK f \in Flushes : \/ Stat(f) \/ Drop(f) \/ Move(f) \/ MoveNothing(f) \/ RotateFails(f)
                             \/ Open(f) \/ AppendLines(f) \/ AppendFails(f)
    BY <2>1, <2>3 DEF Next, Write, FlushTimer, FlushNow, Replace
  <2>5. f \in Running
    BY <2>4 DEF Running, Stat, Drop, Move, MoveNothing, RotateFails, Open, AppendLines, AppendFails
  <2> QED
    BY <2>4, <2>5, FlushStepRotates
<1> QED
  BY <1>1, LogSafe, PTL DEF Spec, AloneRotationDropsOldest

-----------------------------------------------------------------------------
(* Where a line is.  A container is a buffer, the hands of a flush, a file *)
(* or a fate, and every action pours some containers into another one.     *)

Containers == {<<"pending", l>> : l \in Logs} \cup {<<"flush", f>> : f \in Flushes}
              \cup {<<"disk", i>> : i \in Files} \cup {<<"gone", x>> : x \in Fates}

Held == [c \in Containers |-> CASE c[1] = "pending" -> LinesOf(pending[c[2]])
                                [] c[1] = "flush" -> LinesOf(flush[c[2]].lines)
                                [] c[1] = "disk" -> Stored(disk, c[2])
                                [] OTHER -> gone[c[2]]]

\* H deals the lines of N out to the containers, each to one
Dealt(H, N) ==
  /\ \A c \in Containers : H[c] \subseteq N
  /\ \A n \in N : \E c \in Containers : n \in H[c]
  /\ \A c, d \in Containers : c # d => H[c] \cap H[d] = {}

\* from H to K the containers of S are emptied into d
Poured(H, K, S, d) ==
  \A c \in Containers : K[c] = IF c \in S THEN {}
                               ELSE IF c = d THEN H[c] \cup UNION {H[b] : b \in S}
                               ELSE H[c]

OneToOne(s) == \A j, k \in DOMAIN s : s[j] = s[k] => j = k

\* a flush holds no line twice, and what it has open is a file or has no name
InOrder(s, d) ==
  /\ OneToOne(s.lines)
  /\ s.at = "idle" => s.lines = <<>>
  /\ s.file \in Files \cup {Unlinked}
  /\ s.at = "append" /\ s.file \in Files => d[s.file] # Absent

(* No container has a line twice, none shares one with another, and an     *)
(* open file is there.                                                     *)
Kept ==
  /\ written \in 0..MaxLine /\ restarts \in 0..MaxRestarts
  /\ \A l \in Logs : OneToOne(pending[l])
  /\ \A f \in Flushes : InOrder(flush[f], disk)
  /\ \A i \in Files : disk[i] # Absent => disk[i] \in Seq(Nat) /\ OneToOne(disk[i])
  /\ Dealt(Held, 1..written)

\* nothing is lost or doubled by pouring
LEMMA Pour ==
  ASSUME NEW H, NEW K, NEW N, Dealt(H, N),
         NEW S \in SUBSET Containers, NEW d \in Containers \ S, Poured(H, K, S, d)
  PROVE  Dealt(K, N)
<1>1. \A c \in Containers : K[c] = IF c \in S THEN {}
                                   ELSE IF c = d THEN H[c] \cup UNION {H[b] : b \in S}
                                   ELSE H[c]
  BY DEF Poured
<1>2. \A c \in Containers : K[c] \subseteq N
  <2>1. \A c \in Containers : \A n \in H[c] : n \in N
    BY DEF Dealt
  <2>2. ASSUME NEW c \in Containers, NEW n \in K[c]
        PROVE  \E b \in Containers : n \in H[b]
    <3>1. K[c] # {} /\ c \notin S
      BY <1>1
    <3>2. CASE c = d
      <4>1. K[c] = H[c] \cup UNION {H[b] : b \in S}
        BY <1>1, <3>1, <3>2
      <4> QED
        BY <4>1
    <3>3. CASE c # d
      BY <1>1, <3>1, <3>3
    <3> QED
      BY <3>2, <3>3
  <2> QED
    BY <2>1, <2>2
<1>3. \A n \in N : \E c \in Containers : n \in K[c]
  <2> SUFFICES ASSUME NEW n \in N PROVE \E c \in Containers : n \in K[c]
    OBVIOUS
  <2>1. PICK c \in Containers : n \in H[c]
    BY DEF Dealt
  <2>2. CASE c \in S
    BY <1>1, <2>1, <2>2
  <2>3. CASE c \notin S
    BY <1>1, <2>1, <2>3
  <2> QED
    BY <2>2, <2>3
<1>4. ASSUME NEW b \in Containers, NEW c \in Containers, b # c, NEW n, n \in K[b], n \in K[c]
      PROVE  FALSE
  <2>0. ASSUME NEW y \in Containers, n \in K[y]
        PROVE  \E x \in Containers : n \in H[x] /\ (x = y \/ (x \in S /\ y = d))
    <3>1. CASE y = d
      <4>1. K[y] = H[y] \cup UNION {H[x] : x \in S}
        BY <1>1, <3>1
      <4> QED
        BY <2>0, <3>1, <4>1
    <3>2. CASE y # d
      BY <1>1, <2>0, <3>2
    <3> QED
      BY <3>1, <3>2
  <2>1. \E x \in Containers : n \in H[x] /\ (x = b \/ (x \in S /\ b = d))
    BY <1>4, <2>0
  <2>2. \E x \in Containers : n \in H[x] /\ (x = c \/ (x \in S /\ c = d))
    BY <1>4, <2>0
  <2>3. b \notin S /\ c \notin S
    BY <1>1, <1>4
  <2> QED
    BY <1>4, <2>1, <2>2, <2>3 DEF Dealt
<1> QED
  BY <1>2, <1>3, <1>4 DEF Dealt

\* the containers by name
LEMMA HeldFacts ==
  /\ \A l \in Logs : <<"pending", l>> \in Containers /\ Held[<<"pending", l>>] = LinesOf(pending[l])
  /\ \A f \in Flushes : /\ <<"flush", f>> \in Containers
                        /\ Held[<<"flush", f>>] = LinesOf(flush[f].lines)
  /\ \A i \in Files : <<"disk", i>> \in Containers /\ Held[<<"disk", i>>] = Stored(disk, i)
  /\ \A x \in Fates : <<"gone", x>> \in Containers /\ Held[<<"gone", x>>] = gone[x]
BY DEF Containers, Held

LEMMA HeldFacts2 ==
  /\ \A l \in Logs : Held'[<<"pending", l>>] = LinesOf(pending'[l])
  /\ \A f \in Flushes : Held'[<<"flush", f>>] = LinesOf(flush'[f].lines)
  /\ \A i \in Files : Held'[<<"disk", i>>] = Stored(disk', i)
  /\ \A x \in Fates : Held'[<<"gone", x>>] = gone'[x]
BY DEF Containers, Held

\* one container emptied into another
LEMMA PourOne ==
  ASSUME NEW H, NEW K, NEW N, Dealt(H, N),
         NEW b \in Containers, NEW d \in Containers, b # d,
         K[b] = {}, K[d] = H[d] \cup H[b],
         \A c \in Containers : c # b /\ c # d => K[c] = H[c]
  PROVE  Dealt(K, N)
<1>1. UNION {H[c] : c \in {b}} = H[b]
  OBVIOUS
<1>2. Poured(H, K, {b}, d)
  BY <1>1 DEF Poured
<1> QED
  BY <1>2, Pour

\* lines of sequences
LEMMA LinesFacts ==
  /\ LinesOf(<<>>) = {} /\ OneToOne(<<>>)
  /\ \A s \in Seq(Nat), n \in Nat :
       /\ LinesOf(Append(s, n)) = LinesOf(s) \cup {n}
       /\ OneToOne(s) /\ n \notin LinesOf(s) => OneToOne(Append(s, n))
<1>1. LinesOf(<<>>) = {} /\ OneToOne(<<>>)
  BY DEF LinesOf, OneToOne
<1>2. ASSUME NEW s \in Seq(Nat), NEW n \in Nat
      PROVE  /\ LinesOf(Append(s, n)) = LinesOf(s) \cup {n}
             /\ OneToOne(s) /\ n \notin LinesOf(s) => OneToOne(Append(s, n))
  <2> DEFINE t == Append(s, n)
  <2>1. /\ DOMAIN s = 1..Len(s) /\ Len(s) \in Nat
        /\ DOMAIN t = 1..(Len(s) + 1)
        /\ \A k \in 1..Len(s) : t[k] = s[k]
        /\ t[Len(s) + 1] = n
    OBVIOUS
  <2> HIDE DEF t
  <2>2. {t[k] : k \in DOMAIN t} = {s[k] : k \in DOMAIN s} \cup {n}
    BY <2>1
  <2>3. ASSUME OneToOne(s), n \notin LinesOf(s) PROVE OneToOne(t)
    <3>1. \A k \in 1..Len(s) : s[k] # n
      BY <2>1, <2>3 DEF LinesOf
    <3> QED
      BY <2>1, <2>3, <3>1 DEF OneToOne
  <2> QED
    BY <2>2, <2>3 DEF LinesOf, t
<1> QED
  BY <1>1, <1>2

LEMMA ConcatFacts ==
  ASSUME NEW s \in Seq(Nat), NEW u \in Seq(Nat)
  PROVE  /\ s \o u \in Seq(Nat) /\ LinesOf(s \o u) = LinesOf(s) \cup LinesOf(u)
         /\ OneToOne(s) /\ OneToOne(u) /\ LinesOf(s) \cap LinesOf(u) = {} => OneToOne(s \o u)
<1> DEFINE t == s \o u
<1>1. /\ t \in Seq(Nat)
      /\ DOMAIN s = 1..Len(s) /\ Len(s) \in Nat /\ DOMAIN u = 1..Len(u) /\ Len(u) \in Nat
      /\ DOMAIN t = 1..(Len(s) + Len(u))
      /\ \A k \in 1..(Len(s) + Len(u)) : t[k] = IF k <= Len(s) THEN s[k] ELSE u[k - Len(s)]
  OBVIOUS
<1> HIDE DEF t
<1>2. \A k \in DOMAIN t : \/ k \in DOMAIN s /\ t[k] = s[k]
                          \/ k - Len(s) \in DOMAIN u /\ t[k] = u[k - Len(s)] /\ k \notin DOMAIN s
  BY <1>1
<1>3. /\ \A k \in DOMAIN s : k \in DOMAIN t /\ t[k] = s[k]
      /\ \A k \in DOMAIN u : k + Len(s) \in DOMAIN t /\ t[k + Len(s)] = u[k]
  <2>1. ASSUME NEW k \in DOMAIN u
        PROVE  k + Len(s) \in 1..(Len(s) + Len(u)) /\ ~ (k + Len(s) <= Len(s)) /\ (k + Len(s)) - Len(s) = k
    BY <1>1
  <2> QED
    BY <1>1, <2>1, SMTT(30)
<1>4. LinesOf(t) = LinesOf(s) \cup LinesOf(u)
  BY <1>2, <1>3 DEF LinesOf
<1>5. ASSUME OneToOne(s), OneToOne(u), LinesOf(s) \cap LinesOf(u) = {},
             NEW j \in DOMAIN t, NEW k \in DOMAIN t, t[j] = t[k]
      PROVE  j = k
  <2>1. CASE j \in DOMAIN s /\ k \in DOMAIN s
    BY <1>2, <1>5, <2>1, <1>3 DEF OneToOne
  <2>2. CASE j \notin DOMAIN s /\ k \notin DOMAIN s
    <3>1. j - Len(s) = k - Len(s)
      BY <1>2, <1>5, <2>2 DEF OneToOne
    <3> QED
      BY <1>1, <3>1
  <2>3. ASSUME NEW x \in DOMAIN s, NEW y \in DOMAIN t \ DOMAIN s, t[x] = t[y]
        PROVE  FALSE
    <3>1. t[x] \in LinesOf(s)
      BY <1>3 DEF LinesOf
    <3>2. t[y] \in LinesOf(u)
      BY <1>2 DEF LinesOf
    <3> QED
      BY <1>5, <2>3, <3>1, <3>2
  <2> QED
    BY <1>5, <2>1, <2>2, <2>3
<1> QED
  BY <1>1, <1>4, <1>5 DEF OneToOne, t

\* a file that is empty is there
LEMMA EmptyFile == <<>> \in Seq(Nat) /\ <<>> # Absent
<1>1. <<>> \in Seq(Nat)
  OBVIOUS
<1> QED
  BY <1>1, AbsentAssumption

\* what the steps of a rotation leave of a flush
LEMMA AfterKeeps ==
  ASSUME NEW s \in Steps
  PROVE  /\ AfterDrop(s).lines = s.lines /\ AfterDrop(s).file = s.file
         /\ AfterDrop(s).at \notin {"idle", "append"}
         /\ AfterMove(s).lines = s.lines /\ AfterMove(s).file = s.file
         /\ s.at = "move" => AfterMove(s).at \notin {"idle", "append"}
BY DEF AfterDrop, AfterMove, Steps

LEMMA OthersKeep ==
  ASSUME NEW s \in Steps, NEW i
  PROVE  /\ Detached(s, i).lines = s.lines /\ Detached(s, i).at = s.at
         /\ Detached(s, i).file = IF s.at = "append" /\ s.file = i THEN Unlinked ELSE s.file
         /\ Moved(s, i).lines = s.lines /\ Moved(s, i).at = s.at
         /\ Moved(s, i).file = IF s.at = "append" /\ s.file = i THEN i + 1
                               ELSE IF s.at = "append" /\ s.file = i + 1 THEN Unlinked ELSE s.file
BY DEF Detached, Moved, Steps

-----------------------------------------------------------------------------
(* The actions once more, for the lines.                                   *)

\* a new line is in the buffer it was written to, and nowhere else
LEMMA WriteKeeps == ASSUME Inv, Kept, NEW l \in Logs, Write(l) PROVE Kept'
<1>1. /\ pending' = [pending EXCEPT ![l] = Append(pending[l], written + 1)]
      /\ written < MaxLine /\ written' = written + 1
      /\ UNCHANGED <<flush, disk, gone, restarts>>
  BY DEF Write
<1>2. pending \in [Logs -> Seq(Nat)] /\ written \in Nat /\ written' \in 0..MaxLine
  BY <1>1, BoundAssumption DEF Inv, Buffered
<1> DEFINE n == written + 1
           c == <<"pending", l>>
<1>3. Dealt(Held, 1..written) /\ n \notin 1..written /\ 1..(written + 1) = (1..written) \cup {n}
  BY <1>2 DEF Kept
<1>4. c \in Containers /\ Held[c] = LinesOf(pending[l])
  BY HeldFacts
<1>5. n \notin LinesOf(pending[l])
  BY <1>3, <1>4 DEF Dealt
<1>6. /\ LinesOf(pending'[l]) = LinesOf(pending[l]) \cup {n} /\ OneToOne(pending'[l])
      /\ \A k \in Logs : k # l => pending'[k] = pending[k]
  BY <1>1, <1>2, <1>5, LinesFacts DEF Kept
<1>7. Held'[c] = Held[c] \cup {n}
  BY <1>4, <1>6, HeldFacts2
<1>8. ASSUME NEW d \in Containers, d # c PROVE Held'[d] = Held[d]
  <2>1. ASSUME NEW k \in Logs, d = <<"pending", k>> PROVE Held'[d] = Held[d]
    <3>1. k # l
      BY <1>8, <2>1
    <3> QED
      BY <1>6, <2>1, <3>1, HeldFacts, HeldFacts2
  <2>2. ASSUME NEW f \in Flushes, d = <<"flush", f>> PROVE Held'[d] = Held[d]
    BY <1>1, <2>2, HeldFacts, HeldFacts2
  <2>3. ASSUME NEW i \in Files, d = <<"disk", i>> PROVE Held'[d] = Held[d]
    BY <1>1, <2>3, HeldFacts, HeldFacts2
  <2>4. ASSUME NEW x \in Fates, d = <<"gone", x>> PROVE Held'[d] = Held[d]
    BY <1>1, <2>4, HeldFacts, HeldFacts2
  <2> QED
    BY <2>1, <2>2, <2>3, <2>4 DEF Containers
<1> HIDE DEF n, c
<1>9. Dealt(Held', 1..written')
  <2>1. \A d \in Containers : Held'[d] \subseteq (1..written) \cup {n}
    BY <1>3, <1>7, <1>8 DEF Dealt
  <2>2. \A m \in (1..written) \cup {n} : \E d \in Containers : m \in Held'[d]
    <3> SUFFICES ASSUME NEW m \in (1..written) \cup {n} PROVE \E d \in Containers : m \in Held'[d]
      OBVIOUS
    <3>1. CASE m = n
      BY <1>4, <1>7, <3>1
    <3>2. CASE m # n
      <4>1. PICK d \in Containers : m \in Held[d]
        BY <1>3, <3>2 DEF Dealt
      <4> QED
        BY <1>7, <1>8, <4>1
    <3> QED
      BY <3>1, <3>2
  <2>3. \A d, e \in Containers : d # e => Held'[d] \cap Held'[e] = {}
    <3> SUFFICES ASSUME NEW d \in Containers, NEW e \in Containers, d # e, d # c \/ e # c
                 PROVE  Held'[d] \cap Held'[e] = {}
      BY <1>4
    <3>1. Held[d] \cap Held[e] = {} /\ n \notin Held[d] /\ n \notin Held[e]
      BY <1>3 DEF Dealt
    <3> QED
      BY <1>7, <1>8, <3>1
  <2> QED
    BY <1>1, <1>3, <2>1, <2>2, <2>3 DEF Dealt, n
<1> QED
  BY <1>1, <1>2, <1>6, <1>9 DEF Kept

\* a flush takes all that its object has pending
LEMMA FlushKeeps ==
  ASSUME Inv, Kept, NEW l \in Logs, Flush(l), UNCHANGED <<written, disk, gone, restarts>>
  PROVE  Kept'
<1>1. flush \in [Flushes -> Steps] /\ pending \in [Logs -> Seq(Nat)] /\ DOMAIN disk = Files
  BY DEF Inv, Buffered, Rotating
<1>2. CASE pending[l] = <<>>
  <2>1. pending' = pending /\ flush' = flush
    BY <1>2 DEF Flush
  <2>2. Held' = Held
    BY <2>1 DEF Held, Stored
  <2> QED
    BY <2>1, <2>2 DEF Kept
<1>3. CASE pending[l] # <<>>
  <2> DEFINE new == [Idle EXCEPT !.at = "stat", !.lines = pending[l], !.alone = Running = {}]
             b == <<"pending", l>>
  <2>1. PICK f \in Flushes \ Running :
          /\ flush' = [g \in Flushes |->
                         IF g = f THEN new
                         ELSE IF g \in Running THEN [flush[g] EXCEPT !.alone = FALSE]
                         ELSE Idle]
          /\ pending' = [pending EXCEPT ![l] = <<>>]
    BY <1>3 DEF Flush, LeftPending
  <2> DEFINE d == <<"flush", f>>
  <2>2. /\ new.at = "stat" /\ new.lines = pending[l] /\ new.file = 0
        /\ Idle.at = "idle" /\ Idle.lines = <<>> /\ Idle.file = 0
    BY DEF Idle
  <2>3. ASSUME NEW g \in Flushes, g # f
        PROVE  /\ flush'[g].at = flush[g].at /\ flush'[g].lines = flush[g].lines
               /\ flush'[g].file = flush[g].file \/ (flush'[g].file = 0 /\ flush'[g].at = "idle")
    <3>1. CASE g \in Running
      BY <1>1, <2>1, <2>3, <3>1 DEF Steps
    <3>2. CASE g \notin Running
      BY <1>1, <2>1, <2>2, <2>3, <3>2 DEF Running, Kept, InOrder
    <3> QED
      BY <3>1, <3>2
  <2>4. flush'[f].lines = pending[l] /\ flush[f].lines = <<>> /\ flush'[f].at = "stat" /\ flush'[f].file = 0
    BY <2>1, <2>2 DEF Running, Kept, InOrder
  <2>5. pending'[l] = <<>> /\ \A k \in Logs : k # l => pending'[k] = pending[k]
    BY <1>1, <2>1
  <2> HIDE DEF new
  <2>6. b \in Containers /\ d \in Containers /\ b # d
    BY DEF Containers
  <2>7. Held'[b] = {} /\ Held'[d] = Held[d] \cup Held[b]
    BY <2>4, <2>5, HeldFacts, HeldFacts2, LinesFacts
  <2>8. ASSUME NEW c \in Containers, c # b, c # d PROVE Held'[c] = Held[c]
    <3>1. ASSUME NEW k \in Logs, c = <<"pending", k>> PROVE Held'[c] = Held[c]
      BY <2>5, <2>8, <3>1, HeldFacts, HeldFacts2
    <3>2. ASSUME NEW g \in Flushes, c = <<"flush", g>> PROVE Held'[c] = Held[c]
      BY <2>3, <2>8, <3>2, HeldFacts, HeldFacts2
    <3>3. ASSUME NEW i \in Files, c = <<"disk", i>> PROVE Held'[c] = Held[c]
      BY <3>3, HeldFacts, HeldFacts2
    <3>4. ASSUME NEW x \in Fates, c = <<"gone", x>> PROVE Held'[c] = Held[c]
      BY <3>4, HeldFacts, HeldFacts2
    <3> QED
      BY <3>1, <3>2, <3>3, <3>4 DEF Containers
  <2>9. Dealt(Held', 1..written)
    BY <2>6, <2>7, <2>8, PourOne DEF Kept
  <2>10. \A g \in Flushes : InOrder(flush'[g], disk)
    BY <2>3, <2>4, Sets DEF Kept, InOrder
  <2>11. \A k \in Logs : OneToOne(pending'[k])
    BY <2>5, LinesFacts DEF Kept
  <2> QED
    BY <2>9, <2>10, <2>11 DEF Kept
<1> QED
  BY <1>2, <1>3

\* steps of a flush after which every line is where it was
LEMMA StayKeeps ==
  ASSUME Inv, Kept, UNCHANGED <<written, pending, gone, restarts>>,
         \A g \in Flushes : flush'[g].lines = flush[g].lines /\ InOrder(flush'[g], disk'),
         \A i \in Files : \/ disk'[i] = disk[i]
                          \/ disk[i] = Absent /\ disk'[i] = <<>>
  PROVE  Kept'
<1>1. ASSUME NEW i \in Files
      PROVE  /\ Stored(disk', i) = Stored(disk, i)
             /\ disk'[i] # Absent => disk'[i] \in Seq(Nat) /\ OneToOne(disk'[i])
  <2>1. <<>> \in Seq(Nat) /\ <<>> # Absent
    BY EmptyFile
  <2>2. CASE disk'[i] = disk[i]
    BY <2>2 DEF Kept, Stored
  <2>3. CASE disk[i] = Absent /\ disk'[i] = <<>>
    BY <2>1, <2>3, LinesFacts DEF Stored
  <2> QED
    BY <2>2, <2>3
<1>2. \A c \in Containers : Held'[c] = Held[c]
  BY <1>1, HeldFacts, HeldFacts2 DEF Containers
<1>3. Dealt(Held', 1..written)
  BY <1>2 DEF Kept, Dealt
<1> QED
  BY <1>1, <1>3 DEF Kept

LEMMA QuietStepKeeps ==
  ASSUME Inv, Kept, NEW f \in Flushes, Stat(f) \/ MoveNothing(f) \/ RotateFails(f) \/ Open(f)
  PROVE  Kept'
<1>1. /\ flush \in [Flushes -> Steps] /\ flush[f] \in Steps /\ DOMAIN disk = Files
      /\ UNCHANGED <<written, pending, gone, restarts>>
      /\ InOrder(flush[f], disk)
  BY DEF Inv, Rotating, Stat, MoveNothing, RotateFails, Open, Kept
<1>2. ASSUME NEW s, flush' = [flush EXCEPT ![f] = s], s.lines = flush[f].lines,
             s.file = flush[f].file, s.at \notin {"idle", "append"}, disk' = disk
      PROVE  Kept'
  <2>1. \A g \in Flushes : flush'[g].lines = flush[g].lines /\ InOrder(flush'[g], disk')
    BY <1>1, <1>2 DEF Kept, InOrder
  <2> QED
    BY <1>1, <1>2, <2>1, StayKeeps
<1>3. CASE Stat(f)
  <2>1. PICK at \in {"drop", "open"} : flush' = [flush EXCEPT ![f] = [flush[f] EXCEPT !.at = at]]
    BY <1>3 DEF Stat, Go
  <2> DEFINE s == [flush[f] EXCEPT !.at = at]
  <2>2. s.at = at /\ s.lines = flush[f].lines /\ s.file = flush[f].file
    BY <1>1 DEF Steps
  <2>3. flush' = [flush EXCEPT ![f] = s] /\ disk' = disk
    BY <1>3, <2>1 DEF Stat
  <2> HIDE DEF s
  <2> QED
    BY <1>2, <2>2, <2>3
<1>4. CASE MoveNothing(f)
  <2>1. flush' = [flush EXCEPT ![f] = AfterMove(flush[f])] /\ disk' = disk /\ flush[f].at = "move"
    BY <1>4 DEF MoveNothing
  <2> QED
    BY <1>1, <1>2, <2>1, AfterKeeps
<1>5. CASE RotateFails(f)
  <2> DEFINE s == [flush[f] EXCEPT !.alone = FALSE]
             u == IF s.at = "drop" THEN AfterDrop(s) ELSE AfterMove(s)
  <2>1. flush' = [flush EXCEPT ![f] = u] /\ disk' = disk /\ flush[f].at \in {"drop", "move"}
    BY <1>5 DEF RotateFails
  <2>2. s \in Steps /\ s.at = flush[f].at /\ s.lines = flush[f].lines /\ s.file = flush[f].file
    BY <1>1 DEF Steps
  <2> HIDE DEF s
  <2>3. u.lines = flush[f].lines /\ u.file = flush[f].file /\ u.at \notin {"idle", "append"}
    BY <2>1, <2>2, AfterKeeps
  <2> HIDE DEF u
  <2> QED
    BY <1>2, <2>1, <2>3
<1>6. CASE Open(f)
  <2> DEFINE s == [[flush[f] EXCEPT !.at = "append"] EXCEPT !.file = 0]
  <2>1. /\ flush' = [flush EXCEPT ![f] = s]
        /\ disk' = [disk EXCEPT ![0] = IF disk[0] = Absent THEN <<>> ELSE disk[0]]
        /\ flush[f].at = "open"
    BY <1>6 DEF Open
  <2>2. s.at = "append" /\ s.lines = flush[f].lines /\ s.file = 0
    BY <1>1 DEF Steps
  <2> HIDE DEF s
  <2>3. \A i \in Files : disk'[i] = disk[i] \/ (disk[i] = Absent /\ disk'[i] = <<>>)
    BY <1>1, <2>1
  <2>4. <<>> # Absent
    BY EmptyFile
  <2>5. \A i \in Files : disk[i] # Absent \/ i = 0 => disk'[i] # Absent
    BY <1>1, <2>1, <2>4
  <2>6. \A g \in Flushes : flush'[g].lines = flush[g].lines /\ InOrder(flush'[g], disk')
    BY <1>1, <2>1, <2>2, <2>5, Sets DEF Kept, InOrder
  <2> QED
    BY <1>1, <2>3, <2>6, StayKeeps
<1> QED
  BY <1>3, <1>4, <1>5, <1>6

\* the oldest file goes, with its lines
LEMMA DropKeeps == ASSUME Inv, Kept, NEW f \in Flushes, Drop(f) PROVE Kept'
<1>1. /\ disk' = [disk EXCEPT ![Oldest] = Absent]
      /\ gone' = [gone EXCEPT !.aged = @ \cup Stored(disk, Oldest)]
      /\ flush' = [g \in Flushes |-> IF g = f THEN AfterDrop(flush[f])
                                     ELSE Detached(flush[g], Oldest)]
      /\ UNCHANGED <<written, pending, restarts>>
  BY DEF Drop
<1>2. /\ flush \in [Flushes -> Steps] /\ DOMAIN disk = Files /\ DOMAIN gone = Fates
      /\ Oldest \in Files /\ "aged" \in Fates
  BY FilesAssumption DEF Inv, Rotating, Oldest, Files, Fates
<1>3. /\ disk'[Oldest] = Absent /\ \A i \in Files : i # Oldest => disk'[i] = disk[i]
      /\ gone'.aged = gone.aged \cup Stored(disk, Oldest)
      /\ \A x \in Fates : x # "aged" => gone'[x] = gone[x]
  BY <1>1, <1>2
<1>4. /\ flush'[f].lines = flush[f].lines /\ flush'[f].file = flush[f].file
      /\ flush'[f].at \notin {"idle", "append"}
  BY <1>1, <1>2, AfterKeeps
<1>5. ASSUME NEW g \in Flushes, g # f
      PROVE  /\ flush'[g].lines = flush[g].lines /\ flush'[g].at = flush[g].at
             /\ flush'[g].file = IF flush[g].at = "append" /\ flush[g].file = Oldest THEN Unlinked
                                 ELSE flush[g].file
  BY <1>1, <1>2, <1>5, OthersKeep
<1> DEFINE b == <<"disk", Oldest>>
           d == <<"gone", "aged">>
<1>6. b \in Containers /\ d \in Containers /\ b # d
  BY <1>2 DEF Containers
<1>7. Held'[b] = {} /\ Held'[d] = Held[d] \cup Held[b]
  BY <1>2, <1>3, HeldFacts, HeldFacts2 DEF Stored
<1>8. ASSUME NEW c \in Containers, c # b, c # d PROVE Held'[c] = Held[c]
  <2>1. ASSUME NEW k \in Logs, c = <<"pending", k>> PROVE Held'[c] = Held[c]
    BY <1>1, <2>1, HeldFacts, HeldFacts2
  <2>2. ASSUME NEW g \in Flushes, c = <<"flush", g>> PROVE Held'[c] = Held[c]
    BY <1>4, <1>5, <2>2, HeldFacts, HeldFacts2
  <2>3. ASSUME NEW i \in Files, c = <<"disk", i>> PROVE Held'[c] = Held[c]
    BY <1>3, <1>8, <2>3, HeldFacts, HeldFacts2 DEF Stored
  <2>4. ASSUME NEW x \in Fates, c = <<"gone", x>> PROVE Held'[c] = Held[c]
    BY <1>3, <1>8, <2>4, HeldFacts, HeldFacts2
  <2> QED
    BY <2>1, <2>2, <2>3, <2>4 DEF Containers
<1>9. Dealt(Held', 1..written)
  BY <1>6, <1>7, <1>8, PourOne DEF Kept
<1>10. \A g \in Flushes : InOrder(flush'[g], disk')
  BY <1>3, <1>4, <1>5, Sets DEF Kept, InOrder, Unlinked
<1>11. \A i \in Files : disk'[i] # Absent => disk'[i] \in Seq(Nat) /\ OneToOne(disk'[i])
  BY <1>3 DEF Kept
<1> QED
  BY <1>1, <1>9, <1>10, <1>11 DEF Kept

\* a file takes the next number, and what was there under it goes
LEMMA MoveKeeps == ASSUME Inv, Kept, NEW f \in Flushes, Move(f) PROVE Kept'
<1> DEFINE i == flush[f].from
<1>1. /\ disk' = [disk EXCEPT ![i + 1] = disk[i], ![i] = Absent]
      /\ gone' = [gone EXCEPT !.overwritten = @ \cup Stored(disk, i + 1)]
      /\ flush' = [g \in Flushes |-> IF g = f THEN AfterMove(flush[f]) ELSE Moved(flush[g], i)]
      /\ UNCHANGED <<written, pending, restarts>>
      /\ flush[f].at = "move" /\ disk[i] # Absent
  BY DEF Move
<1>2. /\ flush \in [Flushes -> Steps] /\ DOMAIN disk = Files /\ DOMAIN gone = Fates
      /\ i \in Files /\ i + 1 \in Files /\ i # i + 1 /\ "overwritten" \in Fates
  <2>1. flush \in [Flushes -> Steps] /\ Undisturbed(flush[f], disk)
    BY DEF Inv, Rotating
  <2>2. i \in Nat /\ i + 1 \in Files
    BY <1>1, <2>1 DEF Undisturbed, Steps
  <2> QED
    BY <2>1, <2>2, FilesAssumption DEF Inv, Rotating, Files, Fates
<1> HIDE DEF i
<1>3. PICK m \in Files : m = i + 1
  BY <1>2
<1>4. /\ disk'[m] = disk[i] /\ disk'[i] = Absent
      /\ \A j \in Files : j # i /\ j # m => disk'[j] = disk[j]
      /\ gone'.overwritten = gone.overwritten \cup Stored(disk, m)
      /\ \A x \in Fates : x # "overwritten" => gone'[x] = gone[x]
  BY <1>1, <1>2, <1>3
<1>5. /\ flush'[f].lines = flush[f].lines /\ flush'[f].file = flush[f].file
      /\ flush'[f].at \notin {"idle", "append"}
  BY <1>1, <1>2, AfterKeeps
<1>6. ASSUME NEW g \in Flushes, g # f
      PROVE  /\ flush'[g].lines = flush[g].lines /\ flush'[g].at = flush[g].at
             /\ flush'[g].file = IF flush[g].at = "append" /\ flush[g].file = i THEN m
                                 ELSE IF flush[g].at = "append" /\ flush[g].file = m THEN Unlinked
                                 ELSE flush[g].file
  BY <1>1, <1>2, <1>3, <1>6, OthersKeep
<1> DEFINE a == <<"disk", i>>
           b == <<"disk", m>>
           d == <<"gone", "overwritten">>
           M == [c \in Containers |-> IF c = b THEN {} ELSE IF c = d THEN Held[d] \cup Held[b]
                                      ELSE Held[c]]
<1>7. a \in Containers /\ b \in Containers /\ d \in Containers /\ b # d /\ a # b /\ a # d
  BY <1>2, <1>3 DEF Containers
<1>8. /\ M[b] = {} /\ M[d] = Held[d] \cup Held[b] /\ M[a] = Held[a]
      /\ \A c \in Containers : c # b /\ c # d => M[c] = Held[c]
  BY <1>7
<1>9. /\ Held'[a] = {} /\ Held'[b] = Held[a] /\ Held'[d] = Held[d] \cup Held[b]
  BY <1>2, <1>4, HeldFacts, HeldFacts2 DEF Stored
<1>10. ASSUME NEW c \in Containers, c # a, c # b, c # d PROVE Held'[c] = Held[c]
  <2>1. ASSUME NEW k \in Logs, c = <<"pending", k>> PROVE Held'[c] = Held[c]
    BY <1>1, <2>1, HeldFacts, HeldFacts2
  <2>2. ASSUME NEW g \in Flushes, c = <<"flush", g>> PROVE Held'[c] = Held[c]
    BY <1>5, <1>6, <2>2, HeldFacts, HeldFacts2
  <2>3. ASSUME NEW j \in Files, c = <<"disk", j>> PROVE Held'[c] = Held[c]
    BY <1>4, <1>10, <2>3, HeldFacts, HeldFacts2 DEF Stored
  <2>4. ASSUME NEW x \in Fates, c = <<"gone", x>> PROVE Held'[c] = Held[c]
    BY <1>4, <1>10, <2>4, HeldFacts, HeldFacts2
  <2> QED
    BY <2>1, <2>2, <2>3, <2>4 DEF Containers
<1> HIDE DEF M, a, b, d
<1>11. Dealt(M, 1..written)
  BY <1>7, <1>8, PourOne DEF Kept
<1>12. Held'[b] = M[b] \cup M[a] /\ \A c \in Containers : c # a /\ c # b => Held'[c] = M[c]
  BY <1>8, <1>9, <1>10
<1>13. Dealt(Held', 1..written)
  BY <1>7, <1>9, <1>11, <1>12, PourOne
<1>14. \A g \in Flushes : InOrder(flush'[g], disk')
  <2>1. Unlinked \notin Files
    BY Sets DEF Unlinked
  <2>2. ASSUME NEW g \in Flushes, g # f PROVE InOrder(flush'[g], disk')
    <3>1. InOrder(flush[g], disk)
      BY DEF Kept
    <3> QED
      BY <1>1, <1>2, <1>4, <1>6, <2>1, <2>2, <3>1 DEF InOrder
  <2>3. InOrder(flush'[f], disk')
    BY <1>5 DEF Kept, InOrder
  <2> QED
    BY <2>2, <2>3
<1>15. \A j \in Files : disk'[j] # Absent => disk'[j] \in Seq(Nat) /\ OneToOne(disk'[j])
  BY <1>2, <1>4 DEF Kept
<1> QED
  BY <1>1, <1>13, <1>14, <1>15 DEF Kept

\* a flush that is over has given its lines to one container
LEMMA HandsOut ==
  ASSUME Inv, Kept, NEW f \in Flushes, flush' = [flush EXCEPT ![f] = Idle],
         UNCHANGED <<written, pending, restarts>>,
         NEW d \in Containers, \A g \in Flushes : d # <<"flush", g>>,
         \A l \in Logs : d # <<"pending", l>>,
         Held'[d] = Held[d] \cup LinesOf(flush[f].lines),
         \A i \in Files : <<"disk", i>> # d => disk'[i] = disk[i],
         \A x \in Fates : <<"gone", x>> # d => gone'[x] = gone[x],
         \A i \in Files : /\ disk[i] # Absent => disk'[i] # Absent
                          /\ disk'[i] # Absent => disk'[i] \in Seq(Nat) /\ OneToOne(disk'[i])
  PROVE  Kept'
<1>1. flush \in [Flushes -> Steps]
  BY DEF Inv, Rotating
<1>2. flush'[f] = Idle /\ \A g \in Flushes : g # f => flush'[g] = flush[g]
  BY <1>1
<1>3. Idle.lines = <<>> /\ Idle.at = "idle" /\ Idle.file = 0
  BY DEF Idle
<1> DEFINE b == <<"flush", f>>
<1>4. b \in Containers /\ b # d /\ Held'[b] = {} /\ Held[b] = LinesOf(flush[f].lines)
  BY <1>2, <1>3, HeldFacts, HeldFacts2, LinesFacts
<1>5. ASSUME NEW c \in Containers, c # b, c # d PROVE Held'[c] = Held[c]
  <2>1. ASSUME NEW k \in Logs, c = <<"pending", k>> PROVE Held'[c] = Held[c]
    BY <2>1, HeldFacts, HeldFacts2
  <2>2. ASSUME NEW g \in Flushes, c = <<"flush", g>> PROVE Held'[c] = Held[c]
    BY <1>2, <1>5, <2>2, HeldFacts, HeldFacts2
  <2>3. ASSUME NEW i \in Files, c = <<"disk", i>> PROVE Held'[c] = Held[c]
    BY <1>5, <2>3, HeldFacts, HeldFacts2 DEF Stored
  <2>4. ASSUME NEW x \in Fates, c = <<"gone", x>> PROVE Held'[c] = Held[c]
    BY <1>5, <2>4, HeldFacts, HeldFacts2
  <2> QED
    BY <2>1, <2>2, <2>3, <2>4 DEF Containers
<1> HIDE DEF b
<1>6. Dealt(Held', 1..written)
  BY <1>4, <1>5, PourOne DEF Kept
<1>7. \A g \in Flushes : InOrder(flush'[g], disk')
  BY <1>2, <1>3, Sets, LinesFacts DEF Kept, InOrder
<1> QED
  BY <1>6, <1>7 DEF Kept

\* the lines go to the file that is open, or nowhere if it has lost its name
LEMMA AppendKeeps == ASSUME Inv, Kept, NEW f \in Flushes, AppendLines(f) PROVE Kept'
<1> DEFINE i == flush[f].file
           s == flush[f].lines
<1>1. /\ flush' = [flush EXCEPT ![f] = Idle] /\ UNCHANGED <<written, pending, restarts>>
      /\ flush[f].at = "append"
      /\ IF i = Unlinked
         THEN gone' = [gone EXCEPT !.overwritten = @ \cup LinesOf(s)] /\ disk' = disk
         ELSE disk' = [disk EXCEPT ![i] = @ \o s] /\ gone' = gone
  BY DEF AppendLines
<1>2. /\ flush \in [Flushes -> Steps] /\ DOMAIN disk = Files /\ DOMAIN gone = Fates
      /\ InOrder(flush[f], disk) /\ s \in Seq(Nat) /\ "overwritten" \in Fates
  BY DEF Inv, Rotating, Kept, Steps, Fates
<1>3. \A j \in Files : disk[j] # Absent => disk[j] \in Seq(Nat) /\ OneToOne(disk[j])
  BY DEF Kept
<1>4. CASE i = Unlinked
  <2> DEFINE d == <<"gone", "overwritten">>
  <2>1. d \in Containers /\ (\A g \in Flushes : d # <<"flush", g>>)
        /\ (\A l \in Logs : d # <<"pending", l>>) /\ \A j \in Files : d # <<"disk", j>>
    BY <1>2 DEF Containers
  <2>2. Held'[d] = Held[d] \cup LinesOf(s)
    BY <1>1, <1>2, <1>4, HeldFacts, HeldFacts2
  <2>3. \A x \in Fates : <<"gone", x>> # d => gone'[x] = gone[x]
    BY <1>1, <1>2, <1>4
  <2>4. disk' = disk
    BY <1>1, <1>4
  <2> HIDE DEF d
  <2> QED
    BY <1>1, <1>3, <2>1, <2>2, <2>3, <2>4, HandsOut
<1>5. CASE i # Unlinked
  <2>1. i \in Files /\ disk[i] # Absent
    BY <1>1, <1>2, <1>5 DEF InOrder
  <2> DEFINE d == <<"disk", i>>
             u == disk[i]
  <2>2. d \in Containers /\ (\A g \in Flushes : d # <<"flush", g>>)
        /\ (\A l \in Logs : d # <<"pending", l>>) /\ \A x \in Fates : d # <<"gone", x>>
    BY <2>1 DEF Containers
  <2>3. LinesOf(u) \cap LinesOf(s) = {}
    <3>1. Held[d] \cap Held[<<"flush", f>>] = {}
      BY <2>2, HeldFacts DEF Kept, Dealt
    <3> QED
      BY <2>1, <3>1, HeldFacts DEF Stored
  <2>4. u \in Seq(Nat) /\ OneToOne(u) /\ OneToOne(s)
    BY <1>2, <1>3, <2>1 DEF InOrder
  <2> HIDE DEF i, s, u
  <2>5. u \o s \in Seq(Nat) /\ LinesOf(u \o s) = LinesOf(u) \cup LinesOf(s) /\ OneToOne(u \o s)
    BY <1>2, <2>3, <2>4, ConcatFacts
  <2>6. disk'[i] = u \o s /\ (\A j \in Files : j # i => disk'[j] = disk[j]) /\ gone' = gone
    BY <1>1, <1>2, <1>5, <2>1 DEF u
  <2>7. disk'[i] # Absent
    BY <2>5, <2>6, AbsentAssumption
  <2>8. Held'[d] = Held[d] \cup LinesOf(s)
    BY <2>1, <2>5, <2>6, <2>7, HeldFacts, HeldFacts2 DEF Stored, u
  <2>9. \A j \in Files : <<"disk", j>> # d => disk'[j] = disk[j]
    BY <2>6
  <2>10. \A j \in Files : /\ disk[j] # Absent => disk'[j] # Absent
                          /\ disk'[j] # Absent => disk'[j] \in Seq(Nat) /\ OneToOne(disk'[j])
    BY <1>3, <2>5, <2>6, <2>7
  <2> HIDE DEF d
  <2> QED
    BY <1>1, <2>2, <2>6, <2>8, <2>9, <2>10, HandsOut DEF s
<1> QED
  BY <1>4, <1>5

\* the lines of an append that fails are given up
LEMMA AppendFailsKeeps == ASSUME Inv, Kept, NEW f \in Flushes, AppendFails(f) PROVE Kept'
<1> DEFINE d == <<"gone", "failed">>
<1>1. /\ flush' = [flush EXCEPT ![f] = Idle] /\ UNCHANGED <<written, pending, disk, restarts>>
      /\ gone' = [gone EXCEPT !.failed = @ \cup LinesOf(flush[f].lines)]
  BY DEF AppendFails
<1>2. DOMAIN gone = Fates /\ "failed" \in Fates
  BY DEF Inv, Fates
<1>3. d \in Containers /\ (\A g \in Flushes : d # <<"flush", g>>)
      /\ (\A l \in Logs : d # <<"pending", l>>) /\ \A j \in Files : d # <<"disk", j>>
  BY <1>2 DEF Containers
<1>4. Held'[d] = Held[d] \cup LinesOf(flush[f].lines)
  BY <1>1, <1>2, HeldFacts, HeldFacts2
<1>5. \A x \in Fates : <<"gone", x>> # d => gone'[x] = gone[x]
  BY <1>1, <1>2
<1>6. \A j \in Files : disk[j] # Absent => disk[j] \in Seq(Nat) /\ OneToOne(disk[j])
  BY DEF Kept
<1> HIDE DEF d
<1> QED
  BY <1>1, <1>3, <1>4, <1>5, <1>6, HandsOut

\* the process dies with what it has in memory
LEMMA RestartKeeps == ASSUME Inv, Kept, Restart PROVE Kept'
<1> DEFINE S == {<<"pending", l>> : l \in Logs} \cup {<<"flush", f>> : f \in Flushes}
           d == <<"gone", "died">>
<1>1. /\ gone' = [gone EXCEPT !.died = @ \cup InMemory]
      /\ pending' = [l \in Logs |-> <<>>]
      /\ flush' = [f \in Flushes |-> Idle]
      /\ restarts < MaxRestarts /\ restarts' = restarts + 1
      /\ UNCHANGED <<written, disk>>
  BY DEF Restart
<1>2. DOMAIN gone = Fates /\ "died" \in Fates
  BY DEF Inv, Fates
<1>3. Idle.lines = <<>> /\ Idle.at = "idle" /\ Idle.file = 0
  BY DEF Idle
<1>4. S \subseteq Containers /\ d \in Containers \ S
  BY <1>2 DEF Containers
<1>5. UNION {Held[b] : b \in S} = InMemory
  <2>1. ASSUME NEW b \in S PROVE Held[b] \subseteq InMemory
    BY HeldFacts DEF InMemory
  <2>2. ASSUME NEW l \in Logs PROVE \E b \in S : LinesOf(pending[l]) = Held[b]
    BY HeldFacts
  <2>3. ASSUME NEW f \in Flushes PROVE \E b \in S : LinesOf(flush[f].lines) = Held[b]
    BY HeldFacts
  <2>4. ASSUME NEW n \in InMemory
        PROVE  \/ \E l \in Logs : n \in LinesOf(pending[l])
               \/ \E f \in Flushes : n \in LinesOf(flush[f].lines)
    BY DEF InMemory
  <2> HIDE DEF S
  <2>5. ASSUME NEW n \in InMemory PROVE \E b \in S : n \in Held[b]
    BY <2>2, <2>3, <2>4
  <2> QED
    BY <2>1, <2>5
<1>6. ASSUME NEW c \in Containers
      PROVE  Held'[c] = IF c \in S THEN {}
                        ELSE IF c = d THEN Held[c] \cup UNION {Held[b] : b \in S}
                        ELSE Held[c]
  <2>1. ASSUME NEW k \in Logs, c = <<"pending", k>> PROVE Held'[c] = {} /\ c \in S
    BY <1>1, <2>1, HeldFacts2, LinesFacts
  <2>2. ASSUME NEW g \in Flushes, c = <<"flush", g>> PROVE Held'[c] = {} /\ c \in S
    BY <1>1, <1>3, <2>2, HeldFacts2, LinesFacts
  <2>3. ASSUME NEW i \in Files, c = <<"disk", i>> PROVE Held'[c] = Held[c] /\ c \notin S /\ c # d
    BY <1>1, <2>3, HeldFacts, HeldFacts2 DEF Stored
  <2>4. ASSUME NEW x \in Fates, c = <<"gone", x>>, c # d PROVE Held'[c] = Held[c] /\ c \notin S
    BY <1>1, <1>2, <2>4, HeldFacts, HeldFacts2
  <2>5. Held'[d] = Held[d] \cup InMemory
    BY <1>1, <1>2, HeldFacts, HeldFacts2
  <2> HIDE DEF S, d
  <2>6. CASE c = d
    BY <1>4, <1>5, <2>5, <2>6
  <2>7. CASE c # d
    BY <2>1, <2>2, <2>3, <2>4, <2>7 DEF Containers
  <2> QED
    BY <2>6, <2>7
<1> HIDE DEF S, d
<1>7. Dealt(Held', 1..written)
  <2>1. Poured(Held, Held', S, d)
    BY <1>6 DEF Poured
  <2> QED
    BY <1>4, <2>1, Pour DEF Kept
<1>8. restarts' \in 0..MaxRestarts
  BY <1>1, BoundAssumption DEF Kept
<1> QED
  BY <1>1, <1>3, <1>7, <1>8, Sets, LinesFacts DEF Kept, InOrder

\* nothing is written yet
LEMMA InitKeeps == Init => Kept
<1> SUFFICES ASSUME Init PROVE Kept
  OBVIOUS
<1>1. /\ Idle.lines = <<>> /\ Idle.at = "idle" /\ Idle.file = 0
      /\ 0 \in 0..MaxLine /\ 0 \in 0..MaxRestarts /\ 1..0 = {}
  BY BoundAssumption DEF Idle
<1>2. \A c \in Containers : Held[c] = {}
  <2>1. \A l \in Logs : Held[<<"pending", l>>] = {}
    BY HeldFacts, LinesFacts DEF Init
  <2>2. \A f \in Flushes : Held[<<"flush", f>>] = {}
    BY <1>1, HeldFacts, LinesFacts DEF Init
  <2>3. \A i \in Files : Held[<<"disk", i>>] = {}
    BY HeldFacts DEF Init, Stored
  <2>4. \A x \in Fates : Held[<<"gone", x>>] = {}
    BY HeldFacts DEF Init, Fates
  <2> QED
    BY <2>1, <2>2, <2>3, <2>4 DEF Containers
<1>3. Dealt(Held, 1..written)
  BY <1>1, <1>2 DEF Init, Dealt
<1> QED
  BY <1>1, <1>3, Sets, LinesFacts DEF Init, Kept, InOrder

LEMMA NextKeeps == Inv /\ Kept /\ [Next]_vars => Kept'
<1> SUFFICES ASSUME Inv, Kept, [Next]_vars PROVE Kept'
  OBVIOUS
<1>1. current \in Logs
  BY DEF Inv, Buffered
<1>2. ASSUME NEW l \in Logs, FlushTimer(l) PROVE Kept'
  BY <1>2, FlushKeeps DEF FlushTimer
<1>3. CASE FlushNow \/ Replace
  BY <1>1, <1>3, FlushKeeps DEF FlushNow, Replace
<1>4. ASSUME NEW f \in Flushes,
             \/ Stat(f) \/ Drop(f) \/ Move(f) \/ MoveNothing(f) \/ RotateFails(f)
             \/ Open(f) \/ AppendLines(f) \/ AppendFails(f)
      PROVE  Kept'
  BY <1>4, QuietStepKeeps, DropKeeps, MoveKeeps, AppendKeeps, AppendFailsKeeps
<1>5. CASE UNCHANGED vars
  <2>1. Held' = Held
    BY <1>5 DEF vars, Held, Stored
  <2> QED
    BY <1>5, <2>1 DEF vars, Kept
<1> QED
  BY <1>2, <1>3, <1>4, <1>5, WriteKeeps, RestartKeeps DEF Next

\* the places by name
LEMMA PlacesFacts ==
  ASSUME NEW n, NEW p
  PROVE  p \in Places(n) <=>
           \/ \E l \in Logs : \E k \in Spots(pending[l], n) : p = <<"pending", l, k>>
           \/ \E f \in Flushes : \E k \in Spots(flush[f].lines, n) : p = <<"flush", f, k>>
           \/ \E i \in Files : disk[i] # Absent /\ \E k \in Spots(disk[i], n) : p = <<"disk", i, k>>
           \/ \E x \in DOMAIN gone : n \in gone[x] /\ p = <<"gone", x, 1>>
<1> DEFINE PA(l) == {<<"pending", l, k>> : k \in Spots(pending[l], n)}
           PB(f) == {<<"flush", f, k>> : k \in Spots(flush[f].lines, n)}
           PC(i) == {<<"disk", i, k>> : k \in Spots(disk[i], n)}
           there == {j \in Files : disk[j] # Absent}
           A == UNION {PA(l) : l \in Logs}
           B == UNION {PB(f) : f \in Flushes}
           C == UNION {PC(i) : i \in there}
           D == {<<"gone", x, 1>> : x \in {y \in DOMAIN gone : n \in gone[y]}}
<1>0. /\ \A l : p \in PA(l) <=> \E k \in Spots(pending[l], n) : p = <<"pending", l, k>>
      /\ \A f : p \in PB(f) <=> \E k \in Spots(flush[f].lines, n) : p = <<"flush", f, k>>
      /\ \A i : p \in PC(i) <=> \E k \in Spots(disk[i], n) : p = <<"disk", i, k>>
      /\ \A i : i \in there <=> i \in Files /\ disk[i] # Absent
  OBVIOUS
<1>a. Places(n) = A \cup B \cup C \cup D
  BY DEF Places
<1> HIDE DEF PA, PB, PC, there
<1>1. p \in A <=> \E l \in Logs : \E k \in Spots(pending[l], n) : p = <<"pending", l, k>>
  BY <1>0
<1>2. p \in B <=> \E f \in Flushes : \E k \in Spots(flush[f].lines, n) : p = <<"flush", f, k>>
  BY <1>0
<1>3. p \in C <=> \E i \in Files : disk[i] # Absent /\ \E k \in Spots(disk[i], n) : p = <<"disk", i, k>>
  BY <1>0
<1>4. p \in D <=> \E x \in DOMAIN gone : n \in gone[x] /\ p = <<"gone", x, 1>>
  OBVIOUS
<1> HIDE DEF A, B, C, D
<1> QED
  BY <1>a, <1>1, <1>2, <1>3, <1>4

\* the only place of a line is its spot in the container that holds it
LEMMA OnePlace ==
  ASSUME Inv, Kept, NEW n \in 1..written
  PROVE  Cardinality(Places(n)) = 1
<1>1. Dealt(Held, 1..written) /\ DOMAIN gone = Fates
  BY DEF Inv, Kept
<1>2. ASSUME NEW p \in Places(n)
      PROVE  \E c \in Containers : n \in Held[c] /\ \E k : /\ p = <<c[1], c[2], k>>
                /\ \/ \E l \in Logs : c = <<"pending", l>> /\ k \in Spots(pending[l], n)
                   \/ \E f \in Flushes : c = <<"flush", f>> /\ k \in Spots(flush[f].lines, n)
                   \/ \E i \in Files : c = <<"disk", i>> /\ disk[i] # Absent /\ k \in Spots(disk[i], n)
                   \/ \E x \in Fates : c = <<"gone", x>> /\ k = 1
  <2>1. ASSUME NEW l \in Logs, NEW k \in Spots(pending[l], n)
        PROVE  <<"pending", l>> \in Containers /\ n \in Held[<<"pending", l>>]
    BY HeldFacts DEF Spots, LinesOf
  <2>2. ASSUME NEW f \in Flushes, NEW k \in Spots(flush[f].lines, n)
        PROVE  <<"flush", f>> \in Containers /\ n \in Held[<<"flush", f>>]
    BY HeldFacts DEF Spots, LinesOf
  <2>3. ASSUME NEW i \in Files, disk[i] # Absent, NEW k \in Spots(disk[i], n)
        PROVE  <<"disk", i>> \in Containers /\ n \in Held[<<"disk", i>>]
    <3>1. n \in LinesOf(disk[i])
      BY DEF Spots, LinesOf
    <3>2. n \in Stored(disk, i)
      BY <2>3, <3>1 DEF Stored
    <3> QED
      BY <3>2, HeldFacts
  <2>4. ASSUME NEW x \in Fates, n \in gone[x]
        PROVE  <<"gone", x>> \in Containers /\ n \in Held[<<"gone", x>>]
    BY <2>4, HeldFacts
  <2>5. \/ \E l \in Logs : \E k \in Spots(pending[l], n) : p = <<"pending", l, k>>
        \/ \E f \in Flushes : \E k \in Spots(flush[f].lines, n) : p = <<"flush", f, k>>
        \/ \E i \in Files : disk[i] # Absent /\ \E k \in Spots(disk[i], n) : p = <<"disk", i, k>>
        \/ \E x \in Fates : n \in gone[x] /\ p = <<"gone", x, 1>>
    BY <1>1, PlacesFacts
  <2>6. CASE \E l \in Logs : \E k \in Spots(pending[l], n) : p = <<"pending", l, k>>
    BY <2>1, <2>6
  <2>7. CASE \E f \in Flushes : \E k \in Spots(flush[f].lines, n) : p = <<"flush", f, k>>
    BY <2>2, <2>7
  <2>8. CASE \E i \in Files : disk[i] # Absent /\ \E k \in Spots(disk[i], n) : p = <<"disk", i, k>>
    BY <2>3, <2>8
  <2>9. CASE \E x \in Fates : n \in gone[x] /\ p = <<"gone", x, 1>>
    BY <2>4, <2>9
  <2> QED
    BY <2>5, <2>6, <2>7, <2>8, <2>9
<1>3. ASSUME NEW p \in Places(n), NEW q \in Places(n) PROVE p = q
  <2>1. PICK c, k :
          /\ c \in Containers
          /\ n \in Held[c] /\ p = <<c[1], c[2], k>>
          /\ \/ \E l \in Logs : c = <<"pending", l>> /\ k \in Spots(pending[l], n)
             \/ \E f \in Flushes : c = <<"flush", f>> /\ k \in Spots(flush[f].lines, n)
             \/ \E i \in Files : c = <<"disk", i>> /\ disk[i] # Absent /\ k \in Spots(disk[i], n)
             \/ \E x \in Fates : c = <<"gone", x>> /\ k = 1
    BY <1>2
  <2>2. PICK b, j :
          /\ b \in Containers
          /\ n \in Held[b] /\ q = <<b[1], b[2], j>>
          /\ \/ \E l \in Logs : b = <<"pending", l>> /\ j \in Spots(pending[l], n)
             \/ \E f \in Flushes : b = <<"flush", f>> /\ j \in Spots(flush[f].lines, n)
             \/ \E i \in Files : b = <<"disk", i>> /\ disk[i] # Absent /\ j \in Spots(disk[i], n)
             \/ \E x \in Fates : b = <<"gone", x>> /\ j = 1
    BY <1>2
  <2>3. b = c
    BY <1>1, <2>1, <2>2 DEF Dealt
  <2>4. j = k
    <3>1. ASSUME NEW s, OneToOne(s), k \in Spots(s, n), j \in Spots(s, n) PROVE j = k
      BY <3>1 DEF Spots, OneToOne
    <3>2. CASE \E l \in Logs : c = <<"pending", l>> /\ k \in Spots(pending[l], n)
      <4>1. PICK l \in Logs : c = <<"pending", l>> /\ k \in Spots(pending[l], n)
        BY <3>2
      <4>2. j \in Spots(pending[l], n) /\ OneToOne(pending[l])
        BY <2>2, <2>3, <4>1 DEF Kept
      <4> QED
        BY <3>1, <4>1, <4>2
    <3>3. CASE \E f \in Flushes : c = <<"flush", f>> /\ k \in Spots(flush[f].lines, n)
      <4>1. PICK f \in Flushes : c = <<"flush", f>> /\ k \in Spots(flush[f].lines, n)
        BY <3>3
      <4>2. j \in Spots(flush[f].lines, n) /\ OneToOne(flush[f].lines)
        BY <2>2, <2>3, <4>1 DEF Kept, InOrder
      <4> QED
        BY <3>1, <4>1, <4>2
    <3>4. CASE \E i \in Files : c = <<"disk", i>> /\ disk[i] # Absent /\ k \in Spots(disk[i], n)
      <4>1. PICK i \in Files : c = <<"disk", i>> /\ disk[i] # Absent /\ k \in Spots(disk[i], n)
        BY <3>4
      <4>2. j \in Spots(disk[i], n) /\ OneToOne(disk[i])
        BY <2>2, <2>3, <4>1 DEF Kept
      <4> QED
        BY <3>1, <4>1, <4>2
    <3>5. CASE \E x \in Fates : c = <<"gone", x>> /\ k = 1
      BY <2>2, <2>3, <3>5
    <3> QED
      BY <2>1, <3>2, <3>3, <3>4, <3>5
  <2> QED
    BY <2>1, <2>2, <2>3, <2>4
<1>4. \E p : p \in Places(n)
  <2>1. PICK c \in Containers : n \in Held[c]
    BY <1>1 DEF Dealt
  <2>2. ASSUME NEW l \in Logs, c = <<"pending", l>> PROVE \E p : p \in Places(n)
    <3>1. PICK k \in Spots(pending[l], n) : TRUE
      BY <2>1, <2>2, HeldFacts DEF LinesOf, Spots
    <3>2. <<"pending", l, k>> \in Places(n)
      BY PlacesFacts
    <3> QED
      BY <3>2
  <2>3. ASSUME NEW f \in Flushes, c = <<"flush", f>> PROVE \E p : p \in Places(n)
    <3>1. PICK k \in Spots(flush[f].lines, n) : TRUE
      BY <2>1, <2>3, HeldFacts DEF LinesOf, Spots
    <3>2. <<"flush", f, k>> \in Places(n)
      BY PlacesFacts
    <3> QED
      BY <3>2
  <2>4. ASSUME NEW i \in Files, c = <<"disk", i>> PROVE \E p : p \in Places(n)
    <3>1. n \in Stored(disk, i)
      BY <2>1, <2>4, HeldFacts
    <3>2. disk[i] # Absent /\ n \in LinesOf(disk[i])
      BY <3>1 DEF Stored
    <3>3. PICK k \in Spots(disk[i], n) : TRUE
      BY <3>2 DEF LinesOf, Spots
    <3>4. <<"disk", i, k>> \in Places(n)
      BY <3>2, PlacesFacts
    <3> QED
      BY <3>4
  <2>5. ASSUME NEW x \in Fates, c = <<"gone", x>> PROVE \E p : p \in Places(n)
    <3>1. n \in gone[x]
      BY <2>1, <2>5, HeldFacts
    <3>2. <<"gone", x, 1>> \in Places(n)
      BY <1>1, <3>1, PlacesFacts
    <3> QED
      BY <3>2
  <2> QED
    BY <2>2, <2>3, <2>4, <2>5 DEF Containers
<1>5. PICK p \in Places(n) : Places(n) = {p}
  BY <1>3, <1>4
<1> QED
  BY <1>5, FS_Singleton

(* Whatever flushes, rotations, reloads and exits there are and wherever   *)
(* they meet, a line that was written is in exactly one place: it never    *)
(* reaches two files and never vanishes but by the ways the log knows.     *)
THEOREM NoLineIsLostOrDoubled == Spec => []EveryLineIsInOnePlace
<1>1. Init => Kept
  BY InitKeeps
<1>2. Inv /\ Kept /\ [Next]_vars => Kept'
  BY NextKeeps
<1>3. Inv /\ Kept => EveryLineIsInOnePlace
  <2> SUFFICES ASSUME Inv, Kept PROVE EveryLineIsInOnePlace
    OBVIOUS
  <2>1. \A c \in Containers : Held[c] \subseteq Lines
    <3>1. 1..written \subseteq Lines
      BY BoundAssumption DEF Kept, Lines
    <3> QED
      BY <3>1 DEF Kept, Dealt
  <2>2. /\ \A l \in Logs : LinesOf(pending[l]) \subseteq Lines
        /\ \A f \in Flushes : LinesOf(flush[f].lines) \subseteq Lines
        /\ \A i \in Files : Stored(disk, i) \subseteq Lines
    BY <2>1, HeldFacts
  <2>3. TypeOK
    BY <2>2 DEF TypeOK, Inv, Buffered, Rotating, Kept, InOrder, Steps, Undisturbed
  <2> QED
    BY <2>3, OnePlace DEF EveryLineIsInOnePlace
<1> QED
  BY <1>1, <1>2, <1>3, LogSafe, PTL DEF Spec

-----------------------------------------------------------------------------
(* The usage store.  Counting the records of a day in the write chain.     *)

\* the places that Behind counts
Marks(s, b, d) == {i \in b + 1 .. Len(s) : s[i] = d}

LEMMA MarksFinite ==
  ASSUME NEW s \in Seq(Days), NEW b \in Nat, NEW d
  PROVE  /\ IsFiniteSet(Marks(s, b, d))
         /\ Behind(s, b, d) = Cardinality(Marks(s, b, d))
         /\ Behind(s, b, d) \in Nat
<1>1. IsFiniteSet(b + 1 .. Len(s))
  BY FS_Interval
<1>2. Marks(s, b, d) \in SUBSET (b + 1 .. Len(s))
  BY DEF Marks
<1>3. IsFiniteSet(Marks(s, b, d))
  BY <1>1, <1>2, FS_Subset
<1> QED
  BY <1>3, FS_CardinalityType DEF Marks, Behind

\* a record that joins the chain is one more
LEMMA BehindAppend ==
  ASSUME NEW s \in Seq(Days), NEW e \in Days, NEW b \in 0..Len(s), NEW d
  PROVE  Behind(Append(s, e), b, d) = Behind(s, b, d) + (IF e = d THEN 1 ELSE 0)
<1> DEFINE t == Append(s, e)
           n == Len(s) + 1
<1>1. /\ t \in Seq(Days) /\ Len(t) = n /\ Len(s) \in Nat
      /\ \A i \in 1..Len(s) : t[i] = s[i]
      /\ t[n] = e
  OBVIOUS
<1>0. b \in Nat /\ b <= Len(s)
  OBVIOUS
<1> HIDE DEF t
<1>4. /\ IsFiniteSet(Marks(s, b, d)) /\ Behind(s, b, d) = Cardinality(Marks(s, b, d))
      /\ Behind(s, b, d) \in Nat /\ Behind(t, b, d) = Cardinality(Marks(t, b, d))
  BY <1>0, <1>1, MarksFinite
<1>2. CASE e = d
  <2>1. Marks(t, b, d) = Marks(s, b, d) \cup {n}
    BY <1>0, <1>1, <1>2 DEF Marks
  <2>2. n \notin Marks(s, b, d)
    BY <1>1 DEF Marks
  <2>3. Cardinality(Marks(t, b, d)) = Cardinality(Marks(s, b, d)) + 1
    BY <1>4, <2>1, <2>2, FS_AddElement
  <2> QED
    BY <1>2, <1>4, <2>3 DEF t
<1>3. CASE e # d
  <2>1. Marks(t, b, d) = Marks(s, b, d)
    BY <1>0, <1>1, <1>3 DEF Marks
  <2> QED
    BY <1>3, <1>4, <2>1 DEF t
<1> QED
  BY <1>2, <1>3

\* once the first one is written, there is one record less before any other
LEMMA BehindTail ==
  ASSUME NEW s \in Seq(Days), s # <<>>, NEW b \in Nat, NEW d
  PROVE  Behind(Tail(s), b, d) = Behind(s, b + 1, d)
<1> DEFINE t == Tail(s)
           M == Marks(s, b + 1, d)
           f == [i \in M |-> i - 1]
<1>1. /\ t \in Seq(Days) /\ Len(s) \in Nat /\ Len(t) = Len(s) - 1
      /\ \A i \in 1..Len(t) : t[i] = s[i + 1]
  OBVIOUS
<1> HIDE DEF t
<1>2. f \in [M -> Marks(t, b, d)]
  <2> SUFFICES ASSUME NEW i \in M PROVE i - 1 \in Marks(t, b, d)
    OBVIOUS
  <2>1. i \in b + 2 .. Len(s) /\ s[i] = d
    BY DEF Marks
  <2>2. i - 1 \in b + 1 .. Len(t) /\ i - 1 \in 1..Len(t) /\ (i - 1) + 1 = i
    BY <1>1, <2>1
  <2> QED
    BY <1>1, <2>1, <2>2 DEF Marks
<1>3. \A i, j \in M : f[i] = f[j] => i = j
  BY DEF Marks
<1>4. ASSUME NEW j \in Marks(t, b, d) PROVE \E i \in M : f[i] = j
  <2>1. j \in b + 1 .. Len(t) /\ t[j] = d /\ j \in 1..Len(t)
    BY DEF Marks
  <2>2. j + 1 \in M
    BY <1>1, <2>1 DEF Marks
  <2>3. f[j + 1] = j
    BY <2>1, <2>2
  <2> QED
    BY <2>2, <2>3
<1> HIDE DEF f, M
<1>5. ExistsBijection(M, Marks(t, b, d))
  <2>1. f \in Injection(M, Marks(t, b, d))
    BY <1>2, <1>3 DEF Injection, IsInjective
  <2>2. f \in Surjection(M, Marks(t, b, d))
    BY <1>2, <1>4 DEF Surjection
  <2> QED
    BY <2>1, <2>2 DEF Bijection, ExistsBijection
<1>6. IsFiniteSet(M) /\ Behind(s, b + 1, d) = Cardinality(M)
  BY MarksFinite DEF M
<1>7. Cardinality(Marks(t, b, d)) = Cardinality(M)
  BY <1>5, <1>6, FS_Bijection
<1> QED
  BY <1>1, <1>6, <1>7, MarksFinite DEF t

\* the first one is counted if it is a record of the day
LEMMA BehindFirst ==
  ASSUME NEW s \in Seq(Days), s # <<>>, NEW d
  PROVE  Behind(s, 0, d) = Behind(s, 1, d) + (IF Head(s) = d THEN 1 ELSE 0)
<1>1. Len(s) \in Nat /\ Len(s) > 0 /\ Head(s) = s[1]
  OBVIOUS
<1>2. CASE Head(s) = d
  <2>1. Marks(s, 0, d) = Marks(s, 1, d) \cup {1} /\ 1 \notin Marks(s, 1, d)
    BY <1>1, <1>2 DEF Marks
  <2>2. Cardinality(Marks(s, 0, d)) = Cardinality(Marks(s, 1, d)) + 1
    BY <2>1, MarksFinite, FS_AddElement
  <2> QED
    BY <1>2, <2>2, MarksFinite
<1>3. CASE Head(s) # d
  <2>1. Marks(s, 0, d) = Marks(s, 1, d)
    BY <1>1, <1>3 DEF Marks
  <2> QED
    BY <1>3, <2>1, MarksFinite
<1> QED
  BY <1>2, <1>3

\* none is counted for a day without records
LEMMA BehindNone ==
  ASSUME NEW s \in Seq(Days), NEW d
  PROVE  Behind(s, 0, d) = 0 <=> d \notin ToSet(s)
<1>1. Marks(s, 0, d) = {} <=> d \notin ToSet(s)
  BY DEF Marks, ToSet
<1> QED
  BY <1>1, MarksFinite, FS_EmptySet

-----------------------------------------------------------------------------
(* The order of use.                                                       *)

\* what follows the k-th element
LEMMA SuffixFacts ==
  ASSUME NEW S, NEW s \in Seq(S), NEW k \in 1..Len(s)
  PROVE  /\ SubSeq(s, k + 1, Len(s)) \in Seq(S)
         /\ Len(SubSeq(s, k + 1, Len(s))) = Len(s) - k
         /\ \A i \in 1..(Len(s) - k) : SubSeq(s, k + 1, Len(s))[i] = s[k + i]
<1>1. Len(s) \in Nat /\ \A i \in 1..Len(s) : s[i] \in S
  OBVIOUS
<1>2. /\ SubSeq(s, k + 1, Len(s)) \in Seq(S)
      /\ Len(SubSeq(s, k + 1, Len(s))) = Len(s) - k
      /\ \A i \in 1..(Len(s) - k) : SubSeq(s, k + 1, Len(s))[i] = s[k + i]
  BY <1>1
<1> QED
  BY <1>2

\* a day that is taken out is gone, and only it
LEMMA WithoutFacts ==
  ASSUME NEW s \in Seq(Days), IsInjective(s), NEW d
  PROVE  /\ Without(s, d) \in Seq(Days)
         /\ IsInjective(Without(s, d))
         /\ ToSet(Without(s, d)) = ToSet(s) \ {d}
         /\ Len(Without(s, d)) <= Len(s)
         /\ d \in ToSet(s) => Len(Without(s, d)) = Len(s) - 1
<1>1. CASE d \notin ToSet(s)
  BY <1>1 DEF Without
<1>2. CASE d \in ToSet(s)
  <2> DEFINE k == CHOOSE i \in DOMAIN s : s[i] = d
             a == SubSeq(s, 1, k - 1)
             b == SubSeq(s, k + 1, Len(s))
             t == a \o b
  <2>1. Len(s) \in Nat /\ DOMAIN s = 1..Len(s) /\ \A i \in 1..Len(s) : s[i] \in Days
    OBVIOUS
  <2>2. k \in 1..Len(s) /\ s[k] = d
    BY <1>2, <2>1 DEF ToSet
  <2>3. Without(s, d) = t
    BY <1>2 DEF Without, RemoveAt
  <2> HIDE DEF k
  <2>4. /\ a \in Seq(Days) /\ Len(a) = k - 1
        /\ \A i \in 1..(k - 1) : a[i] = s[i]
    BY <2>1, <2>2
  <2>5. /\ b \in Seq(Days) /\ Len(b) = Len(s) - k
        /\ \A i \in 1..(Len(s) - k) : b[i] = s[k + i]
    BY <2>2, SuffixFacts
  <2> HIDE DEF a, b
  <2>6. /\ t \in Seq(Days) /\ Len(t) = Len(a) + Len(b)
        /\ \A i \in 1..(Len(a) + Len(b)) : t[i] = IF i <= Len(a) THEN a[i] ELSE b[i - Len(a)]
    BY <2>4, <2>5, ConcatProperties
  <2> HIDE DEF t
  <2>7. /\ Len(t) = Len(s) - 1 /\ DOMAIN t = 1..Len(t)
        /\ \A i \in 1..Len(t) : t[i] = IF i < k THEN s[i] ELSE s[i + 1]
    BY <2>1, <2>2, <2>4, <2>5, <2>6
  <2>8. \A i, j \in 1..Len(s) : s[i] = s[j] => i = j
    BY <2>1 DEF IsInjective
  <2>9. \A i, j \in 1..Len(t) : t[i] = t[j] => i = j
    BY <2>1, <2>2, <2>7, <2>8
  <2>10. ASSUME NEW i \in 1..Len(t) PROVE t[i] \in ToSet(s) \ {d}
    <3>1. PICK j \in 1..Len(s) : j # k /\ t[i] = s[j]
      BY <2>1, <2>2, <2>7
    <3> QED
      BY <2>1, <2>2, <2>8, <3>1 DEF ToSet
  <2>11. ASSUME NEW e \in ToSet(s), e # d PROVE \E i \in 1..Len(t) : t[i] = e
    <3>1. PICK j \in 1..Len(s) : s[j] = e
      BY <2>1 DEF ToSet
    <3>2. CASE j < k
      BY <2>1, <2>2, <2>7, <3>1, <3>2
    <3>3. CASE j > k
      <4>1. j - 1 \in 1..Len(t) /\ t[j - 1] = e
        BY <2>1, <2>2, <2>7, <3>1, <3>3
      <4> QED
        BY <4>1
    <3> QED
      BY <2>1, <2>2, <2>11, <3>1, <3>2, <3>3
  <2>12. ToSet(t) = {t[i] : i \in 1..Len(t)}
    BY <2>7 DEF ToSet
  <2>13. ToSet(t) = ToSet(s) \ {d}
    BY <2>10, <2>11, <2>12
  <2>14. IsInjective(t)
    BY <2>7, <2>9 DEF IsInjective
  <2> QED
    <3>1. Len(t) <= Len(s)
      BY <2>1, <2>7
    <3> QED
      BY <2>3, <2>6, <2>7, <2>13, <2>14, <3>1
<1> QED
  BY <1>1, <1>2

\* a day that is used last is the last one
LEMMA AppendFacts ==
  ASSUME NEW s \in Seq(Days), IsInjective(s), NEW d \in Days, d \notin ToSet(s)
  PROVE  /\ Append(s, d) \in Seq(Days)
         /\ IsInjective(Append(s, d))
         /\ ToSet(Append(s, d)) = ToSet(s) \cup {d}
         /\ Len(Append(s, d)) = Len(s) + 1
<1> DEFINE t == Append(s, d)
<1>1. /\ t \in Seq(Days) /\ Len(t) = Len(s) + 1 /\ Len(s) \in Nat
      /\ DOMAIN t = 1..Len(t) /\ DOMAIN s = 1..Len(s)
      /\ \A i \in 1..Len(s) : t[i] = s[i]
      /\ t[Len(s) + 1] = d
  OBVIOUS
<1>2. \A i, j \in 1..Len(s) : s[i] = s[j] => i = j
  BY <1>1 DEF IsInjective
<1>3. \A i \in 1..Len(s) : s[i] # d
  BY <1>1 DEF ToSet
<1> HIDE DEF t
<1>4. \A i, j \in 1..Len(t) : t[i] = t[j] => i = j
  BY <1>1, <1>2, <1>3
<1>5. IsInjective(t)
  BY <1>1, <1>4 DEF IsInjective
<1>6. ToSet(t) = ToSet(s) \cup {d}
  <2>1. {t[i] : i \in 1..Len(t)} = {s[i] : i \in 1..Len(s)} \cup {d}
    BY <1>1
  <2> QED
    BY <1>1, <2>1 DEF ToSet
<1> QED
  BY <1>1, <1>5, <1>6 DEF t

\* the one used least recently goes
LEMMA TailFacts ==
  ASSUME NEW s \in Seq(Days), IsInjective(s), s # <<>>
  PROVE  /\ Tail(s) \in Seq(Days)
         /\ IsInjective(Tail(s))
         /\ ToSet(Tail(s)) = ToSet(s) \ {Head(s)}
         /\ Len(Tail(s)) = Len(s) - 1
         /\ Head(s) \in ToSet(s)
<1> DEFINE t == Tail(s)
<1>1. /\ t \in Seq(Days) /\ Len(t) = Len(s) - 1 /\ Len(s) \in Nat /\ Len(s) > 0
      /\ DOMAIN t = 1..Len(t) /\ DOMAIN s = 1..Len(s)
      /\ \A i \in 1..Len(t) : t[i] = s[i + 1]
      /\ Head(s) = s[1]
  OBVIOUS
<1>2. \A i, j \in 1..Len(s) : s[i] = s[j] => i = j
  BY <1>1 DEF IsInjective
<1> HIDE DEF t
<1>3. \A i, j \in 1..Len(t) : t[i] = t[j] => i = j
  BY <1>1, <1>2
<1>4. IsInjective(t)
  BY <1>1, <1>3 DEF IsInjective
<1>5. ToSet(t) = ToSet(s) \ {s[1]}
  <2>1. \A i \in 1..Len(t) : t[i] \in ToSet(s) \ {s[1]}
    BY <1>1, <1>2, SMTT(30) DEF ToSet
  <2>2. ASSUME NEW j \in 1..Len(s), s[j] # s[1] PROVE j - 1 \in 1..Len(t) /\ t[j - 1] = s[j]
    BY <1>1, <2>2
  <2>3. ASSUME NEW e \in ToSet(s), e # s[1] PROVE e \in ToSet(t)
    <3>1. PICK j \in 1..Len(s) : s[j] = e
      BY <1>1 DEF ToSet
    <3>2. j - 1 \in 1..Len(t) /\ t[j - 1] = e
      BY <2>2, <2>3, <3>1
    <3> QED
      BY <1>1, <3>2 DEF ToSet
  <2>4. ToSet(t) \subseteq ToSet(s) \ {s[1]}
    BY <1>1, <2>1 DEF ToSet
  <2> QED
    BY <2>3, <2>4
<1> QED
  BY <1>1, <1>4, <1>5 DEF t, ToSet

-----------------------------------------------------------------------------
(* What the memory keeps.                                                  *)

\* after #touch() memory holds day d with n records, if it holds it
LEMMA TouchFacts ==
  ASSUME UsageTypeOK, NEW d \in Days, NEW n \in 0..MaxLines, NEW loaded,
         loaded = loadedDays \cup {d}, Touch(d, n, loaded)
  PROVE  /\ lru' \in Seq(Days) /\ ToSet(lru') = loadedDays'
         /\ IsInjective(lru') /\ Len(lru') <= maxCachedDays
         /\ count' \in [Days -> 0..MaxLines]
         /\ loadedDays' \subseteq loadedDays \cup {d}
         /\ \A e \in Days : count'[e] # 0 => count'[e] = IF e = d THEN n ELSE count[e]
         /\ \A e \in loadedDays' : count'[e] = IF e = d THEN n ELSE count[e]
<1> DEFINE days == Append(Without(lru, d), d)
           out == IF Len(days) > maxCachedDays THEN {Head(days)} ELSE {}
<1>1. /\ lru \in Seq(Days) /\ IsInjective(lru) /\ ToSet(lru) = loadedDays
      /\ Len(lru) <= maxCachedDays /\ maxCachedDays \in Nat
      /\ count \in [Days -> 0..MaxLines] /\ loadedDays \subseteq Days
  <2>1. lru \in Seq(Days) /\ IsInjective(lru) /\ ToSet(lru) = loadedDays
        /\ Len(lru) <= maxCachedDays /\ count \in [Days -> 0..MaxLines]
    BY DEF UsageTypeOK
  <2>2. loadedDays \subseteq Days
    BY <2>1 DEF ToSet
  <2> QED
    BY <2>1, <2>2, DaysAssumption DEF maxCachedDays
<1>2. /\ Without(lru, d) \in Seq(Days) /\ IsInjective(Without(lru, d))
      /\ ToSet(Without(lru, d)) = loadedDays \ {d}
      /\ Len(Without(lru, d)) <= maxCachedDays
  <2>1. Len(lru) \in Nat /\ Len(Without(lru, d)) \in Nat
    BY <1>1, WithoutFacts
  <2> QED
    BY <1>1, <2>1, WithoutFacts, SMTT(30)
<1>3. /\ days \in Seq(Days) /\ IsInjective(days) /\ ToSet(days) = loaded
      /\ Len(days) <= maxCachedDays + 1 /\ Len(days) \in Nat
  <2>1. /\ days \in Seq(Days) /\ IsInjective(days)
        /\ ToSet(days) = ToSet(Without(lru, d)) \cup {d}
        /\ Len(days) = Len(Without(lru, d)) + 1
    BY <1>2, AppendFacts
  <2>2. Len(Without(lru, d)) \in Nat
    BY <1>2
  <2> QED
    BY <1>1, <1>2, <2>1, <2>2
<1>4. /\ lru' = IF out = {} THEN days ELSE Tail(days)
      /\ count' = [e \in Days |-> IF e \in out THEN 0 ELSE IF e = d THEN n ELSE count[e]]
      /\ loadedDays' = loaded \ out
  BY DEF Touch
<1> HIDE DEF days
<1>5. CASE Len(days) > maxCachedDays
  <2>1. days # <<>>
    BY <1>1, <1>3, <1>5, EmptySeq
  <2>2. /\ Tail(days) \in Seq(Days) /\ IsInjective(Tail(days))
        /\ ToSet(Tail(days)) = ToSet(days) \ {Head(days)}
        /\ Len(Tail(days)) = Len(days) - 1
    BY <1>3, <2>1, TailFacts
  <2>3. lru' = Tail(days) /\ out = {Head(days)}
    BY <1>4, <1>5
  <2>4. Len(lru') <= maxCachedDays
    BY <1>1, <1>3, <2>2, <2>3
  <2> QED
    <3>1. loadedDays' = loaded \ {Head(days)} /\ ToSet(lru') = loadedDays'
      BY <1>3, <1>4, <2>2, <2>3
    <3>2. MaxLines \in Nat
      BY BoundsAssumption
    <3>3. count' \in [Days -> 0..MaxLines]
      BY <1>1, <1>4, <3>2
    <3>4. /\ loadedDays' \subseteq loadedDays \cup {d}
          /\ loadedDays' \subseteq Days
      BY <1>1, <3>1
    <3>5. /\ \A e \in Days : count'[e] # 0 => count'[e] = IF e = d THEN n ELSE count[e]
          /\ \A e \in loadedDays' : count'[e] = IF e = d THEN n ELSE count[e]
      BY <1>4, <2>3, <3>1, <3>4
    <3> QED
      BY <2>2, <2>3, <2>4, <3>1, <3>3, <3>4, <3>5
<1>6. CASE ~(Len(days) > maxCachedDays)
  <2>1. lru' = days /\ out = {}
    BY <1>4, <1>6
  <2> QED
    BY <1>1, <1>3, <1>4, <1>6, <2>1
<1> QED
  BY <1>5, <1>6

\* a day that is dropped is dropped altogether
LEMMA DropFacts ==
  ASSUME UsageTypeOK, NEW d \in Days,
         lru' = Without(lru, d), count' = [count EXCEPT ![d] = 0],
         loadedDays' = loadedDays \ {d}
  PROVE  /\ lru' \in Seq(Days) /\ ToSet(lru') = loadedDays'
         /\ IsInjective(lru') /\ Len(lru') <= maxCachedDays
         /\ count' \in [Days -> 0..MaxLines]
         /\ \A e \in Days : count'[e] # 0 => count'[e] = count[e]
         /\ \A e \in loadedDays' : count'[e] = count[e]
<1>1. /\ lru \in Seq(Days) /\ IsInjective(lru) /\ ToSet(lru) = loadedDays
      /\ Len(lru) <= maxCachedDays /\ count \in [Days -> 0..MaxLines]
  BY DEF UsageTypeOK
<1>2. /\ lru' \in Seq(Days) /\ IsInjective(lru') /\ ToSet(lru') = loadedDays \ {d}
      /\ Len(lru') <= Len(lru) /\ Len(lru) \in Nat /\ Len(lru') \in Nat
  BY <1>1, WithoutFacts
<1>3. Len(lru') <= maxCachedDays /\ loadedDays \subseteq Days
  BY <1>1, <1>2, DaysAssumption DEF maxCachedDays, ToSet
<1>4. MaxLines \in Nat
  BY BoundsAssumption
<1> QED
  BY <1>1, <1>2, <1>3, <1>4

-----------------------------------------------------------------------------
(* The invariant of the usage store.                                       *)

\* nothing follows the whole chain
LEMMA BehindAll ==
  ASSUME NEW s \in Seq(Days), NEW d
  PROVE  Behind(s, Len(s), d) = 0
<1>1. Len(s) \in Nat
  OBVIOUS
<1>2. Marks(s, Len(s), d) = {}
  BY <1>1 DEF Marks
<1> QED
  BY <1>1, <1>2, MarksFinite, FS_EmptySet

\* numbers are numbers
LEMMA Numbers ==
  ASSUME UsageInv
  PROVE  /\ chain \in Seq(Days) /\ Len(chain) \in Nat
         /\ today \in Nat /\ KeepDays \in Nat /\ Days \subseteq Nat /\ MaxLines \in Nat
         /\ \A d \in Days, b \in Nat : Behind(chain, b, d) \in Nat
         /\ \A d \in Days : /\ made[d] \in Nat /\ file[d] \in Nat /\ failed[d] \in Nat
                            /\ count[d] \in Nat /\ made[d] <= MaxLines
         /\ \A q \in Queries : /\ query[q].behind \in Nat
                               /\ \A d \in Days : query[q].known[d] \in Nat
         /\ \A d \in Days : Uncounted(d) \in Nat
<1> USE DEF UsageInv, UsageTypeOK
<1>1. chain \in Seq(Days) /\ Len(chain) \in Nat /\ MaxLines \in Nat /\ MaxFails \in Nat
  BY BoundsAssumption
<1>2. today \in Nat /\ KeepDays \in Nat /\ Days \subseteq Nat
  BY DaysAssumption DEF Days
<1>3. \A d \in Days, b \in Nat : Behind(chain, b, d) \in Nat
  BY <1>1, MarksFinite
<1>4. \A d \in Days : /\ made[d] \in Nat /\ file[d] \in Nat /\ failed[d] \in Nat
                      /\ count[d] \in Nat /\ made[d] <= MaxLines
  BY <1>1
<1>5. \A q \in Queries : query[q].behind \in Nat /\ \A d \in Days : query[q].known[d] \in Nat
  BY <1>1 DEF Asked
<1>6. \A d \in Days : Uncounted(d) \in Nat
  BY <1>3 DEF Uncounted
<1> QED
  BY <1>1, <1>2, <1>3, <1>4, <1>5, <1>6

\* the record under way is one of its day
LEMMA FirstRecord ==
  ASSUME UsageInv, chain # <<>>
  PROVE  /\ day \in Days
         /\ \A d \in Days : Behind(chain, 0, d) = Behind(chain, 1, d) + (IF day = d THEN 1 ELSE 0)
         /\ Tail(chain) \in Seq(Days) /\ Len(Tail(chain)) = Len(chain) - 1
<1>1. chain \in Seq(Days)
  BY Numbers
<1>2. day \in Days
  BY <1>1 DEF day
<1>3. \A d \in Days : Behind(chain, 0, d) = Behind(chain, 1, d) + (IF day = d THEN 1 ELSE 0)
  BY <1>1, BehindFirst DEF day
<1> QED
  BY <1>1, <1>2, <1>3

\* memory is still to count no more records than wait to be written
LEMMA UncountedBound ==
  ASSUME UsageInv, NEW d \in Days
  PROVE  Uncounted(d) <= Behind(chain, 0, d)
<1>1. Behind(chain, 0, d) \in Nat /\ Behind(chain, 1, d) \in Nat
  BY Numbers
<1>2. CASE writer.pc = "appending"
  <2>1. chain # <<>>
    BY <1>2 DEF UsageInv, LoadsAreUnderWay
  <2>2. Behind(chain, 0, d) = Behind(chain, 1, d) + (IF day = d THEN 1 ELSE 0)
    BY <2>1, FirstRecord
  <2> QED
    BY <1>1, <1>2, <2>2 DEF Uncounted
<1>3. CASE writer.pc # "appending"
  BY <1>1, <1>3 DEF Uncounted
<1> QED
  BY <1>2, <1>3

\* day d is put to n records, which is all that is counted of it
LEMMA MemoryAfterTouch ==
  ASSUME UsageInv, NEW d \in Days, NEW n \in Nat,
         UNCHANGED <<made, failed, today>>, torn \subseteq torn',
         loadedDays' \subseteq loadedDays \cup {d}, loadedDays' \subseteq Days,
         \A e \in Days : count'[e] # 0 => count'[e] = IF e = d THEN n ELSE count[e],
         \A e \in loadedDays' : count'[e] = IF e = d THEN n ELSE count[e],
         \A e \in Days : e # d => Uncounted(e)' = Uncounted(e),
         Uncounted(d)' \in Nat,
         n + Uncounted(d)' <= made[d],
         d \notin torn' /\ InWindow(d) => n + Uncounted(d)' + failed[d] >= made[d]
  PROVE  MemoryIsNotAhead' /\ ExactUnlessTorn'
<1>1. ASSUME NEW e \in Days PROVE count'[e] + Uncounted(e)' <= made'[e]
  <2>1. /\ count[e] \in Nat /\ Uncounted(e) \in Nat /\ made[e] \in Nat
        /\ count[e] + Uncounted(e) <= made[e]
    BY Numbers DEF UsageInv, MemoryIsNotAhead
  <2>2. made'[e] = made[e]
    OBVIOUS
  <2>3. CASE e = d
    <3>1. count'[e] = 0 \/ count'[e] = n
      BY <2>3
    <3>2. Uncounted(e)' = Uncounted(d)'
      BY <2>3
    <3> QED
      BY <2>1, <2>2, <2>3, <3>1, <3>2
  <2>4. CASE e # d
    <3>1. count'[e] = 0 \/ count'[e] = count[e]
      BY <2>4
    <3>2. Uncounted(e)' = Uncounted(e)
      BY <2>4
    <3> QED
      BY <2>1, <2>2, <3>1, <3>2
  <2> QED
    BY <2>3, <2>4
<1>2. ASSUME NEW e \in loadedDays' \ torn', InWindow(e)'
      PROVE  count'[e] + Uncounted(e)' + failed'[e] >= made'[e]
  <2>1. e \in Days /\ InWindow(e) /\ made'[e] = made[e] /\ failed'[e] = failed[e]
    BY <1>2 DEF InWindow
  <2>2. CASE e = d
    <3>1. Uncounted(e)' = Uncounted(d)'
      BY <2>2
    <3> QED
      BY <2>1, <2>2, <3>1
  <2>3. CASE e # d
    <3>1. count'[e] = count[e] /\ Uncounted(e)' = Uncounted(e) /\ e \in loadedDays \ torn
      BY <2>1, <2>3
    <3>2. count[e] + Uncounted(e) + failed[e] >= made[e]
      BY <2>1, <3>1 DEF UsageInv, ExactUnlessTorn
    <3> QED
      BY <2>1, <3>1, <3>2
  <2> QED
    BY <2>2, <2>3
<1> QED
  BY <1>1, <1>2 DEF MemoryIsNotAhead, ExactUnlessTorn

\* an empty store is exact
LEMMA UsageInitInv == UsageInit => UsageInv
<1> SUFFICES ASSUME UsageInit PROVE UsageInv
  OBVIOUS
<1> USE DEF UsageInit
<1>0. /\ chain = <<>> /\ <<>> \in Seq(Days) /\ Len(<<>>) = 0 /\ lru = <<>>
      /\ MaxLines \in Nat \ {0} /\ MaxFails \in Nat
  BY BoundsAssumption
<1>1. \A d : Behind(chain, 0, d) = 0
  BY <1>0, BehindAll
<1>2. ToSet(lru) = {} /\ IsInjective(lru) /\ Len(lru) <= maxCachedDays
  BY <1>0, DaysAssumption DEF ToSet, IsInjective, maxCachedDays
<1>3. NoQuery \in Asked /\ NotLoading \in Loads
  BY <1>0 DEF NoQuery, NotLoading, Asked, Loads
<1>4. file \in [Days -> Nat] /\ file \in [Days -> 0..MaxLines]
  BY <1>0
<1>5. UsageTypeOK
  BY <1>0, <1>2, <1>3, <1>4 DEF UsageTypeOK, NoQuery
<1>6. DiskIsExact
  BY <1>1, <1>4 DEF DiskIsExact
<1>7. LoadsAreUnderWay /\ WriterIsExact /\ QueriesAreExact /\ FlushesWaitEnough
  BY DEF LoadsAreUnderWay, WriterIsExact, QueriesAreExact, FlushesWaitEnough, NoQuery, NotLoading
<1>8. \A d \in Days : Uncounted(d) = 0
  BY <1>1 DEF Uncounted, NotLoading
<1>9. MemoryIsNotAhead /\ ExactUnlessTorn
  BY <1>4, <1>8 DEF MemoryIsNotAhead, ExactUnlessTorn
<1> QED
  BY <1>5, <1>6, <1>7, <1>9 DEF UsageInv

\* record() adds one to what is made and one to what waits
LEMMA RecordInv ==
  ASSUME UsageInv, record
  PROVE  UsageInv'
<1>i. /\ UsageTypeOK /\ DiskIsExact /\ LoadsAreUnderWay /\ WriterIsExact
      /\ QueriesAreExact /\ FlushesWaitEnough /\ MemoryIsNotAhead /\ ExactUnlessTorn
  BY DEF UsageInv
<1> USE <1>i
<1> DEFINE one(d) == IF today = d THEN 1 ELSE 0
<1>0. /\ chain \in Seq(Days) /\ Len(chain) \in Nat /\ today \in Days /\ torn \subseteq torn'
      /\ made \in [Days -> 0..MaxLines] /\ MaxLines \in Nat /\ made[today] < MaxLines
  BY Numbers DEF UsageTypeOK, record
<1>1. /\ chain' = Append(chain, today)
      /\ made' = [made EXCEPT ![today] = @ + 1]
      /\ UNCHANGED <<today, file, lru, count, loadedDays, writer, query, pruner, failed>>
  BY DEF record, memory
<1>2. /\ chain' \in Seq(Days) /\ Len(chain') = Len(chain) + 1 /\ chain' # <<>>
      /\ chain # <<>> => Head(chain') = Head(chain)
  <2>1. chain' \in Seq(Days) /\ Len(chain') = Len(chain) + 1
    BY <1>0, <1>1
  <2>2. chain' # <<>>
    BY <1>0, <2>1, EmptySeq
  <2>3. ASSUME chain # <<>> PROVE Head(chain') = Head(chain)
    BY <1>0, <1>1, <2>2, <2>3
  <2> QED
    BY <2>1, <2>2, <2>3
<1>3. \A d \in Days : made'[d] = made[d] + one(d)
  BY <1>0, <1>1
<1>4. \A d \in Days, b \in 0..Len(chain) :
        Behind(chain', b, d) = Behind(chain, b, d) + one(d) /\ Behind(chain, b, d) \in Nat
  <2> SUFFICES ASSUME NEW d \in Days, NEW b \in 0..Len(chain)
               PROVE  Behind(chain', b, d) = Behind(chain, b, d) + one(d) /\ Behind(chain, b, d) \in Nat
    OBVIOUS
  <2>1. b \in Nat
    BY <1>0
  <2>2. Behind(chain, b, d) \in Nat
    BY <2>1, Numbers
  <2>3. Behind(Append(chain, today), b, d) = Behind(chain, b, d) + (IF today = d THEN 1 ELSE 0)
    BY <1>0, BehindAppend
  <2> QED
    BY <1>1, <2>2, <2>3
<1>5. \A d \in Days : Uncounted(d)' = Uncounted(d) + one(d)
  <2>1. writer.pc = "appending" => 1 \in 0..Len(chain)
    BY <1>0, EmptySeq DEF LoadsAreUnderWay
  <2> QED
    BY <1>0, <1>1, <1>4, <2>1, SMTT(30) DEF Uncounted
<1> HIDE DEF one
<1>6. \A d \in Days : one(d) \in Nat /\ (one(d) # 0 => d = today)
  BY DEF one
<1>7. UsageTypeOK'
  <2>1. made' \in [Days -> 0..MaxLines]
    BY <1>0, <1>1
  <2>2. torn' \subseteq Days
    BY <1>0 DEF record, UsageTypeOK
  <2>3. \A q \in Queries : query'[q].behind <= Len(chain')
    <3> SUFFICES ASSUME NEW q \in Queries PROVE query'[q].behind <= Len(chain')
      OBVIOUS
    <3>1. query[q].behind \in Nat /\ query[q].behind <= Len(chain)
      BY Numbers DEF UsageTypeOK
    <3> QED
      BY <1>0, <1>1, <1>2, <3>1
  <2> QED
    BY <1>1, <1>2, <2>1, <2>2, <2>3 DEF UsageTypeOK
<1>8. DiskIsExact'
  <2> SUFFICES ASSUME NEW d \in Days
               PROVE  /\ file[d] + failed[d] + Behind(chain', 0, d) <= made'[d]
                      /\ InWindow(d) => file[d] + failed[d] + Behind(chain', 0, d) >= made'[d]
    BY <1>1 DEF DiskIsExact, InWindow
  <2>1. Behind(chain', 0, d) = Behind(chain, 0, d) + one(d) /\ Behind(chain, 0, d) \in Nat
    BY <1>0, <1>4
  <2>2. made'[d] = made[d] + one(d) /\ one(d) \in Nat
    BY <1>3, <1>6
  <2>3. file[d] \in Nat /\ failed[d] \in Nat /\ made[d] \in Nat
    BY Numbers
  <2> QED
    BY <2>1, <2>2, <2>3 DEF DiskIsExact
<1>9. LoadsAreUnderWay'
  BY <1>1, <1>2 DEF LoadsAreUnderWay
<1>10. WriterIsExact'
  <2> SUFFICES ASSUME writer.pc = "found"
               PROVE  /\ writer.text + failed[day'] + Behind(chain', 0, day') <= made'[day']
                      /\ InWindow(day') => writer.text + failed[day'] + Behind(chain', 0, day') >= made'[day']
    BY <1>1 DEF WriterIsExact, InWindow
  <2>1. chain # <<>>
    BY DEF LoadsAreUnderWay
  <2>2. day' = day /\ day \in Days
    BY <1>2, <2>1, FirstRecord DEF day
  <2>3. Behind(chain', 0, day) = Behind(chain, 0, day) + one(day) /\ made'[day] = made[day] + one(day)
    BY <1>0, <1>3, <1>4, <2>2
  <2>4. writer.text \in Nat /\ failed[day] \in Nat /\ made[day] \in Nat /\ Behind(chain, 0, day) \in Nat
    BY <2>2, <1>0, Numbers DEF UsageTypeOK, Loads
  <2> QED
    BY <1>6, <2>2, <2>3, <2>4 DEF WriterIsExact
<1>11. QueriesAreExact'
  <2> SUFFICES ASSUME NEW q \in Queries, query[q].load.pc # "idle"
               PROVE  LET d == Head(query[q].todo)
                      IN  /\ d \in torn' \/ Behind(chain', 0, d) = 0
                          /\ query[q].load.pc = "found" =>
                               /\ query[q].load.text + Behind(chain', 0, d) <= made'[d]
                               /\ d \notin torn' /\ InWindow(d) => query[q].load.text + failed[d] >= made'[d]
    BY <1>1 DEF QueriesAreExact, InWindow
  <2> DEFINE d == Head(query[q].todo)
  <2>1. d \in Days
    BY DEF LoadsAreUnderWay, UsageTypeOK, Asked
  <2>2. d = today => d \in torn'
    BY DEF record
  <2>3. /\ d \in torn \/ Behind(chain, 0, d) = 0
        /\ query[q].load.pc = "found" =>
             /\ query[q].load.text + Behind(chain, 0, d) <= made[d]
             /\ d \notin torn /\ InWindow(d) => query[q].load.text + failed[d] >= made[d]
    BY DEF QueriesAreExact
  <2>4. query[q].load.text \in Nat
    BY <1>0 DEF UsageTypeOK, Asked, Loads
  <2> HIDE DEF d
  <2>5. Behind(chain', 0, d) = Behind(chain, 0, d) + one(d) /\ made'[d] = made[d] + one(d)
    BY <1>0, <1>3, <1>4, <2>1
  <2>6. made[d] \in Nat /\ Behind(chain, 0, d) \in Nat /\ failed[d] \in Nat /\ one(d) \in Nat
    BY <1>6, <2>1, Numbers
  <2>7. d \in torn' \/ one(d) = 0
    BY <1>6, <2>1, <2>2
  <2>8. d \in torn' \/ Behind(chain', 0, d) = 0
    BY <1>0, <2>3, <2>5, <2>7, <2>6
  <2>9. ASSUME query[q].load.pc = "found"
        PROVE  query[q].load.text + Behind(chain', 0, d) <= made'[d]
    BY <2>3, <2>4, <2>5, <2>6, <2>9
  <2>10. ASSUME query[q].load.pc = "found", d \notin torn', InWindow(d)
         PROVE  query[q].load.text + failed[d] >= made'[d]
    <3>1. one(d) = 0 /\ d \notin torn
      BY <1>0, <2>7, <2>10
    <3>2. query[q].load.text + failed[d] >= made[d]
      BY <2>3, <2>10, <3>1
    <3>3. made'[d] = made[d]
      BY <2>5, <2>6, <3>1
    <3> QED
      BY <3>2, <3>3
  <2> QED
    BY <2>8, <2>9, <2>10 DEF d
<1>12. FlushesWaitEnough'
  <2> SUFFICES ASSUME NEW q \in Queries, NEW d \in Days, query[q].pc \in {"flush", "load"}
               PROVE  query[q].known[d] + Behind(chain', query[q].behind, d) <= made'[d]
    BY <1>1 DEF FlushesWaitEnough
  <2>1. query[q].behind \in 0..Len(chain)
    <3>1. query[q].behind \in Nat /\ query[q].behind <= Len(chain)
      BY Numbers DEF UsageTypeOK
    <3> QED
      BY <1>0, <3>1
  <2>2. query[q].known[d] + Behind(chain, query[q].behind, d) <= made[d]
    BY DEF FlushesWaitEnough
  <2>3. Behind(chain', query[q].behind, d) = Behind(chain, query[q].behind, d) + one(d)
        /\ Behind(chain, query[q].behind, d) \in Nat
    BY <1>4, <2>1
  <2> QED
    <3>1. query[q].known[d] \in Nat /\ made[d] \in Nat /\ one(d) \in Nat
      BY <1>6, Numbers
    <3>2. made'[d] = made[d] + one(d)
      BY <1>3
    <3> QED
      BY <2>2, <2>3, <3>1, <3>2
<1>13. MemoryIsNotAhead'
  <2> SUFFICES ASSUME NEW d \in Days PROVE count'[d] + Uncounted(d)' <= made'[d]
    BY DEF MemoryIsNotAhead
  <2>1. count[d] \in Nat /\ Uncounted(d) \in Nat /\ made[d] \in Nat /\ one(d) \in Nat
    BY <1>6, Numbers
  <2>2. count'[d] = count[d] /\ Uncounted(d)' = Uncounted(d) + one(d) /\ made'[d] = made[d] + one(d)
    BY <1>1, <1>3, <1>5
  <2> QED
    BY <2>1, <2>2 DEF MemoryIsNotAhead
<1>14. ExactUnlessTorn'
  <2>1. loadedDays \subseteq Days
    BY DEF UsageTypeOK, ToSet
  <2> QED
    <3> SUFFICES ASSUME NEW d \in loadedDays \ torn, InWindow(d)
                 PROVE  count[d] + Uncounted(d)' + failed[d] >= made'[d]
      BY <1>0, <1>1 DEF ExactUnlessTorn, InWindow
    <3>1. /\ count[d] \in Nat /\ Uncounted(d) \in Nat /\ made[d] \in Nat /\ failed[d] \in Nat
          /\ one(d) \in Nat
      BY <1>6, <2>1, Numbers
    <3>2. Uncounted(d)' = Uncounted(d) + one(d) /\ made'[d] = made[d] + one(d)
      BY <1>3, <1>5, <2>1
    <3> QED
      BY <3>1, <3>2 DEF ExactUnlessTorn
<1> QED
  BY <1>7, <1>8, <1>9, <1>10, <1>11, <1>12, <1>13, <1>14 DEF UsageInv

\* what a step leaves alone stays exact
LEMMA Frame ==
  ASSUME UsageInv, UNCHANGED <<today, chain, made, failed>>, torn \subseteq torn'
  PROVE  /\ file' = file => DiskIsExact'
         /\ writer' = writer => WriterIsExact'
         /\ query' = query => QueriesAreExact' /\ FlushesWaitEnough'
         /\ writer' = writer /\ query' = query => LoadsAreUnderWay'
         /\ UNCHANGED <<count, loadedDays>> /\ (writer'.pc = "appending" <=> writer.pc = "appending")
              => MemoryIsNotAhead' /\ ExactUnlessTorn'
<1>i. /\ UsageTypeOK /\ DiskIsExact /\ LoadsAreUnderWay /\ WriterIsExact
      /\ QueriesAreExact /\ FlushesWaitEnough /\ MemoryIsNotAhead /\ ExactUnlessTorn
  BY DEF UsageInv
<1>1. file' = file => DiskIsExact'
  BY <1>i DEF DiskIsExact, InWindow
<1>2. writer' = writer => WriterIsExact'
  BY <1>i DEF WriterIsExact, InWindow, day
<1>3. query' = query => QueriesAreExact' /\ FlushesWaitEnough'
  BY <1>i DEF QueriesAreExact, FlushesWaitEnough, InWindow
<1>4. writer' = writer /\ query' = query => LoadsAreUnderWay'
  BY <1>i DEF LoadsAreUnderWay
<1>5. ASSUME UNCHANGED <<count, loadedDays>>, writer'.pc = "appending" <=> writer.pc = "appending"
      PROVE  MemoryIsNotAhead' /\ ExactUnlessTorn'
  <2>1. \A d \in Days : Uncounted(d)' = Uncounted(d)
    BY <1>5 DEF Uncounted
  <2>2. MemoryIsNotAhead'
    BY <1>i, <1>5, <2>1 DEF MemoryIsNotAhead
  <2>3. loadedDays \subseteq Days
    BY <1>i DEF UsageTypeOK, ToSet
  <2> QED
    BY <1>i, <1>5, <2>1, <2>2, <2>3 DEF ExactUnlessTorn, InWindow
<1> QED
  BY <1>1, <1>2, <1>3, <1>4, <1>5

\* its turn: a day that is loaded counts the record, another is read
LEMMA StartInv ==
  ASSUME UsageInv, Start
  PROVE  UsageInv'
<1>i. /\ UsageTypeOK /\ DiskIsExact /\ LoadsAreUnderWay /\ WriterIsExact
      /\ QueriesAreExact /\ FlushesWaitEnough /\ MemoryIsNotAhead /\ ExactUnlessTorn
  BY DEF UsageInv
<1>1. /\ UNCHANGED <<today, file, chain, query, pruner, made, failed, torn>>
      /\ chain # <<>> /\ writer.pc = "idle" /\ writer \in Loads /\ ~writer.had
  BY <1>i DEF Start, history, LoadsAreUnderWay, UsageTypeOK
<1>2. DiskIsExact' /\ QueriesAreExact' /\ FlushesWaitEnough'
  BY <1>1, Frame
<1>3. /\ day \in Days /\ Tail(chain) \in Seq(Days) /\ MaxLines \in Nat
      /\ \A d \in Days : Behind(chain, 0, d) = Behind(chain, 1, d) + (IF day = d THEN 1 ELSE 0)
  BY <1>1, FirstRecord, Numbers
<1>4. CASE day \in loadedDays
  <2>1. Touch(day, count[day] + 1, loadedDays) /\ writer' = [writer EXCEPT !.pc = "appending"]
    BY <1>4 DEF Start
  <2>2. /\ writer' \in Loads /\ ~writer'.had /\ writer'.pc = "appending"
    BY <1>1, <2>1 DEF Loads
  <2>0. PICK d \in Days :
               /\ d = day
               /\ \A e \in Days : Behind(chain, 0, e) = Behind(chain, 1, e) + (IF d = e THEN 1 ELSE 0)
    BY <1>3
  <2>3. \A e \in Days : Uncounted(e) = Behind(chain, 0, e) /\ Uncounted(e)' = Behind(chain, 1, e)
    BY <1>1, <2>2 DEF Uncounted
  <2>4. /\ count[d] \in Nat /\ made[d] \in Nat /\ made[d] <= MaxLines /\ failed[d] \in Nat
        /\ Behind(chain, 1, d) \in Nat
    BY <1>3, Numbers
  <2>5. Uncounted(d) = Uncounted(d)' + 1 /\ Uncounted(d)' \in Nat
    BY <2>0, <2>3, <2>4
  <2>6. count[d] + Uncounted(d) <= made[d]
    BY <1>i, <1>3 DEF MemoryIsNotAhead
  <2>7. /\ count[d] + 1 + Uncounted(d)' <= made[d]
        /\ count[d] + 1 \in 0..MaxLines /\ count[d] + 1 \in Nat
    BY <1>3, <2>4, <2>5, <2>6, SMTT(30)
  <2>8. ASSUME d \notin torn', InWindow(d)
        PROVE  count[d] + 1 + Uncounted(d)' + failed[d] >= made[d]
    <3>1. count[d] + Uncounted(d) + failed[d] >= made[d]
      BY <1>i, <1>1, <1>4, <2>0, <2>8 DEF ExactUnlessTorn
    <3> QED
      BY <2>4, <2>5, <3>1
  <2>9. \A e \in Days : e # d => Uncounted(e)' = Uncounted(e)
    <3> SUFFICES ASSUME NEW e \in Days, e # d PROVE Behind(chain, 1, e) = Behind(chain, 0, e)
      BY <2>3
    <3>1. Behind(chain, 1, e) \in Nat
      BY Numbers
    <3> QED
      BY <2>0, <3>1
  <2>10. loadedDays = loadedDays \cup {d} /\ loadedDays \subseteq Days
    <3>1. loadedDays \subseteq Days
      BY <1>i DEF UsageTypeOK, ToSet
    <3> QED
      BY <1>4, <2>0, <3>1
  <2> DEFINE n == count[d] + 1
  <2>11. Touch(d, n, loadedDays) /\ n \in 0..MaxLines /\ n \in Nat
    BY <2>0, <2>1, <2>7
  <2>12. /\ n + Uncounted(d)' <= made[d]
         /\ d \notin torn' /\ InWindow(d) => n + Uncounted(d)' + failed[d] >= made[d]
    BY <2>7, <2>8
  <2> HIDE DEF n
  <2>13. /\ lru' \in Seq(Days) /\ ToSet(lru') = loadedDays'
         /\ IsInjective(lru') /\ Len(lru') <= maxCachedDays
         /\ count' \in [Days -> 0..MaxLines]
         /\ loadedDays' \subseteq loadedDays \cup {d}
         /\ \A e \in Days : count'[e] # 0 => count'[e] = IF e = d THEN n ELSE count[e]
         /\ \A e \in loadedDays' : count'[e] = IF e = d THEN n ELSE count[e]
    BY <1>i, <1>3, <2>10, <2>11, TouchFacts
  <2>14. loadedDays' \subseteq Days
    BY <1>3, <2>10, <2>13
  <2>15. MemoryIsNotAhead' /\ ExactUnlessTorn'
    <3>1. UNCHANGED <<made, failed, today>> /\ torn \subseteq torn'
      BY <1>1
    <3> QED
      BY <1>3, <2>5, <2>9, <2>11, <2>12, <2>13, <2>14, <3>1, MemoryAfterTouch
  <2>16. UsageTypeOK'
    BY <1>i, <1>1, <2>2, <2>13 DEF UsageTypeOK
  <2>17. LoadsAreUnderWay'
    BY <1>i, <1>1, <2>2 DEF LoadsAreUnderWay
  <2>18. WriterIsExact'
    BY <2>2 DEF WriterIsExact
  <2> QED
    BY <1>2, <2>15, <2>16, <2>17, <2>18 DEF UsageInv
<1>5. CASE day \notin loadedDays
  <2>1. writer' = StartLoad(day) /\ UNCHANGED <<lru, count, loadedDays>>
    BY <1>5 DEF Start, memory
  <2>2. writer' \in Loads /\ ~writer'.had /\ writer'.pc = "reading"
    <3>1. writer' = [pc |-> "reading", had |-> FALSE, text |-> 0]
      <4>1. (day \in ToSet(lru)) = FALSE
        BY <1>i, <1>5 DEF UsageTypeOK
      <4> QED
        BY <2>1, <4>1 DEF StartLoad
    <3> QED
      BY <1>3, <3>1 DEF Loads
  <2>3. MemoryIsNotAhead' /\ ExactUnlessTorn'
    BY <1>1, <2>1, <2>2, Frame
  <2>4. UsageTypeOK'
    BY <1>i, <1>1, <2>1, <2>2 DEF UsageTypeOK
  <2>5. LoadsAreUnderWay' /\ WriterIsExact'
    BY <1>i, <1>1, <2>2 DEF LoadsAreUnderWay, WriterIsExact
  <2> QED
    BY <1>2, <2>3, <2>4, <2>5 DEF UsageInv
<1> QED
  BY <1>4, <1>5

\* the day has been read as it was before the record
LEMMA ApplyInv ==
  ASSUME UsageInv, Apply
  PROVE  UsageInv'
<1>i. /\ UsageTypeOK /\ DiskIsExact /\ LoadsAreUnderWay /\ WriterIsExact
      /\ QueriesAreExact /\ FlushesWaitEnough /\ MemoryIsNotAhead /\ ExactUnlessTorn
  BY DEF UsageInv
<1>1. /\ UNCHANGED <<today, file, chain, query, pruner, made, failed, torn>>
      /\ chain # <<>> /\ writer.pc = "found" /\ writer \in Loads /\ ~writer.had
      /\ writer' = [NotLoading EXCEPT !.pc = "appending"]
  BY <1>i DEF Apply, history, LoadsAreUnderWay, UsageTypeOK
<1>2. DiskIsExact' /\ QueriesAreExact' /\ FlushesWaitEnough'
  BY <1>1, Frame
<1>3. /\ day \in Days /\ MaxLines \in Nat
      /\ \A d \in Days : Behind(chain, 0, d) = Behind(chain, 1, d) + (IF day = d THEN 1 ELSE 0)
  BY <1>1, FirstRecord, Numbers
<1>4. writer' \in Loads /\ ~writer'.had /\ writer'.pc = "appending"
  <2>1. writer' = [pc |-> "appending", had |-> FALSE, text |-> 0]
    BY <1>1 DEF NotLoading
  <2> QED
    BY <1>3, <2>1 DEF Loads
<1>0. PICK d \in Days :
             /\ d = day
             /\ \A e \in Days : Behind(chain, 0, e) = Behind(chain, 1, e) + (IF d = e THEN 1 ELSE 0)
  BY <1>3
<1>5. \A e \in Days : Uncounted(e) = Behind(chain, 0, e) /\ Uncounted(e)' = Behind(chain, 1, e)
  BY <1>1, <1>4 DEF Uncounted
<1>6. /\ made[d] \in Nat /\ made[d] <= MaxLines /\ failed[d] \in Nat
      /\ Behind(chain, 1, d) \in Nat /\ writer.text \in Nat
  <2>1. writer.text \in Nat
    BY <1>1, <1>3 DEF Loads
  <2> QED
    BY <2>1, Numbers
<1>7. Behind(chain, 0, d) = Uncounted(d)' + 1 /\ Uncounted(d)' \in Nat
  BY <1>0, <1>5, <1>6
<1>8. /\ writer.text + failed[d] + Behind(chain, 0, d) <= made[d]
      /\ InWindow(d) => writer.text + failed[d] + Behind(chain, 0, d) >= made[d]
  BY <1>i, <1>0, <1>1 DEF WriterIsExact
<1> DEFINE n == writer.text + 1
<1>9. /\ n \in 0..MaxLines /\ n \in Nat
      /\ n + Uncounted(d)' <= made[d]
      /\ d \notin torn' /\ InWindow(d) => n + Uncounted(d)' + failed[d] >= made[d]
  BY <1>3, <1>6, <1>7, <1>8
<1>10. \A e \in Days : e # d => Uncounted(e)' = Uncounted(e)
  <2> SUFFICES ASSUME NEW e \in Days, e # d PROVE Behind(chain, 1, e) = Behind(chain, 0, e)
    BY <1>5
  <2>1. Behind(chain, 1, e) \in Nat
    BY Numbers
  <2> QED
    BY <1>0, <2>1
<1>11. Touch(d, n, loadedDays \cup {d})
  BY <1>0, <1>1 DEF Apply, Filled
<1> HIDE DEF n
<1>12. /\ lru' \in Seq(Days) /\ ToSet(lru') = loadedDays'
       /\ IsInjective(lru') /\ Len(lru') <= maxCachedDays
       /\ count' \in [Days -> 0..MaxLines]
       /\ loadedDays' \subseteq loadedDays \cup {d}
       /\ \A e \in Days : count'[e] # 0 => count'[e] = IF e = d THEN n ELSE count[e]
       /\ \A e \in loadedDays' : count'[e] = IF e = d THEN n ELSE count[e]
  BY <1>i, <1>3, <1>9, <1>11, TouchFacts
<1>13. MemoryIsNotAhead' /\ ExactUnlessTorn'
  <2>1. UNCHANGED <<made, failed, today>> /\ torn \subseteq torn'
    BY <1>1
  <2>2. loadedDays' \subseteq Days
    <3>1. loadedDays \subseteq Days
      BY <1>i DEF UsageTypeOK, ToSet
    <3> QED
      BY <1>12, <3>1
  <2> QED
    BY <1>3, <1>7, <1>9, <1>10, <1>12, <2>1, <2>2, MemoryAfterTouch
<1>14. UsageTypeOK'
  BY <1>i, <1>1, <1>4, <1>12 DEF UsageTypeOK
<1>15. LoadsAreUnderWay' /\ WriterIsExact'
  BY <1>i, <1>1, <1>4 DEF LoadsAreUnderWay, WriterIsExact
<1> QED
  BY <1>2, <1>13, <1>14, <1>15 DEF UsageInv

\* what a query must be to be exact, when the days in `exempt` may be torn
ExactQuery(x, exempt) ==
  /\ x \in Asked /\ x.behind <= Len(chain) /\ ~x.load.had
  /\ x.load.pc # "idle" => x.pc = "load" /\ x.todo # <<>>
  /\ x.pc = "load" => x.behind = 0
  /\ x.load.pc # "idle" =>
       LET d == Head(x.todo)
       IN  /\ d \in exempt \/ Behind(chain, 0, d) = 0
           /\ x.load.pc = "found" =>
                /\ x.load.text + Behind(chain, 0, d) <= made[d]
                /\ d \notin exempt /\ InWindow(d) => x.load.text + failed[d] >= made[d]
  /\ \A d \in Days : x.pc \in {"flush", "load"} => x.known[d] + Behind(chain, x.behind, d) <= made[d]

LEMMA EveryQueryIsExact ==
  ASSUME UsageInv, NEW q \in Queries
  PROVE  ExactQuery(query[q], torn)
BY DEF UsageInv, UsageTypeOK, LoadsAreUnderWay, QueriesAreExact, FlushesWaitEnough, ExactQuery

\* a query that goes on and is exact leaves the others so
LEMMA OneQuery ==
  ASSUME UsageInv, NEW q \in Queries, NEW x, query' = [query EXCEPT ![q] = x],
         UNCHANGED <<today, chain, made, failed, writer>>, torn \subseteq torn',
         ExactQuery(x, torn')
  PROVE  /\ query' \in [Queries -> Asked]
         /\ \A p \in Queries : query'[p].behind <= Len(chain')
         /\ LoadsAreUnderWay' /\ QueriesAreExact' /\ FlushesWaitEnough'
<1>0. query \in [Queries -> Asked] /\ ~writer.had /\ (writer.pc # "idle" => chain # <<>>)
  BY DEF UsageInv, UsageTypeOK, LoadsAreUnderWay
<1>1. ASSUME NEW p \in Queries PROVE ExactQuery(query'[p], torn')
  <2>1. CASE p = q
    BY <1>0, <2>1
  <2>2. CASE p # q
    <3>1. query'[p] = query[p] /\ ExactQuery(query[p], torn)
      BY <1>0, <2>2, EveryQueryIsExact
    <3> QED
      BY <3>1 DEF ExactQuery
  <2> QED
    BY <2>1, <2>2
<1>2. query' \in [Queries -> Asked]
  BY <1>0 DEF ExactQuery
<1>3. \A p \in Queries : query'[p].behind <= Len(chain')
  BY <1>1 DEF ExactQuery
<1>4. LoadsAreUnderWay'
  BY <1>0, <1>1 DEF ExactQuery, LoadsAreUnderWay
<1>5. QueriesAreExact'
  BY <1>1 DEF ExactQuery, QueriesAreExact, InWindow
<1>6. FlushesWaitEnough'
  BY <1>1 DEF ExactQuery, FlushesWaitEnough
<1> QED
  BY <1>2, <1>3, <1>4, <1>5, <1>6

\* query() is called, flush() has ended, or the range is counted
LEMMA AskInv ==
  ASSUME UsageInv, NEW q \in Queries, Ask(q) \/ Flushed(q) \/ Answer(q)
  PROVE  UsageInv'
<1>i. UsageTypeOK
  BY DEF UsageInv
<1> DEFINE x == query[q]
<1>1. /\ UNCHANGED <<today, file, lru, count, loadedDays, chain, writer, pruner, made, failed, torn>>
      /\ query \in [Queries -> Asked] /\ x \in Asked /\ ExactQuery(x, torn)
      /\ chain \in Seq(Days) /\ Len(chain) \in Nat /\ MaxLines \in Nat /\ today \in Nat
  BY <1>i, EveryQueryIsExact, Numbers DEF Ask, Flushed, Answer, memory, history, UsageTypeOK
<1>2. /\ NotLoading \in Loads /\ NotLoading.pc = "idle" /\ ~NotLoading.had
      /\ NoQuery \in Asked /\ NoQuery.behind = 0 /\ NoQuery.load = NotLoading
  <2>1. NotLoading \in Loads /\ NotLoading.pc = "idle" /\ ~NotLoading.had
    BY <1>1 DEF NotLoading, Loads
  <2>2. [d \in Days |-> 0] \in [Days -> 0..MaxLines] /\ <<>> \in Seq(Days)
    BY <1>1
  <2> QED
    BY <2>1, <2>2 DEF NoQuery, Asked
<1>3. ASSUME Ask(q) PROVE \E y : query' = [query EXCEPT ![q] = y] /\ ExactQuery(y, torn')
  <2> DEFINE y == [NoQuery EXCEPT !.pc = "flush", !.behind = ToWaitFor, !.known = made]
  <2>1. /\ y.pc = "flush" /\ y.behind = Len(chain) /\ y.known = made /\ y.load = NotLoading
        /\ y \in Asked
    BY <1>i, <1>1, <1>2 DEF Asked, UsageTypeOK, ToWaitFor
  <2>2. y \in Asked
    BY <2>1
  <2>3. query' = [query EXCEPT ![q] = y]
    BY <1>3 DEF Ask
  <2> HIDE DEF y
  <2>4. ASSUME NEW d \in Days PROVE y.known[d] + Behind(chain, y.behind, d) <= made[d]
    <3>1. y.known[d] = made[d] /\ Behind(chain, y.behind, d) = 0 /\ made[d] \in Nat
      BY <1>1, <2>1, BehindAll, Numbers
    <3> QED
      BY <3>1
  <2>5. y.behind <= Len(chain) /\ ~y.load.had /\ y.load.pc = "idle" /\ y.pc = "flush"
    BY <1>1, <1>2, <2>1
  <2>6. ExactQuery(y, torn')
    BY <2>2, <2>4, <2>5 DEF ExactQuery
  <2> QED
    BY <2>3, <2>6
<1>4. ASSUME Flushed(q) PROVE \E y : query' = [query EXCEPT ![q] = y] /\ ExactQuery(y, torn')
  <2>1. PICK first \in 1..today :
          query' = [query EXCEPT ![q].pc = "load",
                                 ![q].todo = [i \in 1..(today - first + 1) |-> first + i - 1]]
    BY <1>4 DEF Flushed
  <2> DEFINE days == [i \in 1..(today - first + 1) |-> first + i - 1]
             y == [x EXCEPT !.pc = "load", !.todo = days]
  <2>2. days \in Seq(Days)
    <3>1. today - first + 1 \in Nat /\ today \in Days
      BY <1>i, <1>1 DEF UsageTypeOK
    <3>2. \A i \in 1..(today - first + 1) : first + i - 1 \in Days
      <4> SUFFICES ASSUME NEW i \in 1..(today - first + 1)
                   PROVE  first + i - 1 \in 1..LastDay
        BY DEF Days
      <4>1. /\ today \in Nat /\ LastDay \in Nat /\ today <= LastDay
            /\ first \in Nat /\ first >= 1 /\ i \in Nat /\ i >= 1 /\ i <= today - first + 1
        BY <1>1, <3>1, DaysAssumption DEF Days
      <4> QED
        BY <4>1
    <3> QED
      BY <3>1, <3>2
  <2> HIDE DEF days
  <2>3. query' = [query EXCEPT ![q] = y]
    BY <1>1, <2>1 DEF days
  <2>4. /\ y \in Asked /\ y.behind = x.behind /\ y.load = x.load /\ y.known = x.known
        /\ y.pc = "load"
    BY <1>1, <2>2 DEF Asked
  <2>5. x.pc = "flush" /\ x.behind = 0 /\ x.load.pc = "idle"
    BY <1>1, <1>4 DEF Flushed, ExactQuery
  <2> HIDE DEF y
  <2>6. ExactQuery(y, torn')
    BY <1>1, <2>4, <2>5 DEF ExactQuery
  <2> QED
    BY <2>3, <2>6
<1>5. ASSUME Answer(q) PROVE \E y : query' = [query EXCEPT ![q] = y] /\ ExactQuery(y, torn')
  <2> DEFINE y == [NoQuery EXCEPT !.pc = "answered", !.stale = x.stale]
  <2>1. /\ y.pc = "answered" /\ y.behind = 0 /\ y.load = NotLoading
        /\ y \in Asked
    BY <1>1, <1>2 DEF Asked
  <2>2. y \in Asked
    BY <2>1
  <2>3. query' = [query EXCEPT ![q] = y]
    BY <1>5 DEF Answer
  <2> HIDE DEF y
  <2>4. y.behind <= Len(chain) /\ ~y.load.had /\ y.load.pc = "idle" /\ y.pc = "answered"
    BY <1>1, <1>2, <2>1
  <2>5. ExactQuery(y, torn')
    BY <2>2, <2>4 DEF ExactQuery
  <2> QED
    BY <2>3, <2>5
<1>6. PICK y : query' = [query EXCEPT ![q] = y] /\ ExactQuery(y, torn')
  BY <1>3, <1>4, <1>5
<1>7. /\ query' \in [Queries -> Asked] /\ \A p \in Queries : query'[p].behind <= Len(chain')
      /\ LoadsAreUnderWay' /\ QueriesAreExact' /\ FlushesWaitEnough'
  BY <1>1, <1>6, OneQuery
<1>8. UsageTypeOK'
  BY <1>i, <1>1, <1>7 DEF UsageTypeOK
<1>9. DiskIsExact' /\ WriterIsExact' /\ MemoryIsNotAhead' /\ ExactUnlessTorn'
  BY <1>1, Frame
<1> QED
  BY <1>7, <1>8, <1>9 DEF UsageInv

\* one record less waits: its line is on disk, or it could not be written
LEMMA WrittenInv ==
  ASSUME UsageInv, Written
  PROVE  UsageInv'
<1>i. /\ UsageTypeOK /\ DiskIsExact /\ LoadsAreUnderWay /\ WriterIsExact
      /\ QueriesAreExact /\ FlushesWaitEnough /\ MemoryIsNotAhead /\ ExactUnlessTorn
  BY DEF UsageInv
<1>1. /\ UNCHANGED <<today, lru, count, loadedDays, made, torn>>
      /\ writer.pc = "appending" /\ chain # <<>> /\ chain' = Tail(chain) /\ writer' = NotLoading
      /\ query' = [q \in Queries |-> Advanced(query[q])] /\ pruner' = Advanced(pruner)
  BY <1>i DEF Written, memory, LoadsAreUnderWay
<1>2. /\ day \in Days /\ chain \in Seq(Days) /\ Len(chain) \in Nat /\ Len(chain) > 0
      /\ chain' \in Seq(Days) /\ Len(chain') = Len(chain) - 1
      /\ \A e \in Days : Behind(chain, 0, e) = Behind(chain, 1, e) + (IF day = e THEN 1 ELSE 0)
  BY <1>1, FirstRecord, Numbers, EmptySeq
<1>3. PICK d \in Days :
             /\ d = day
             /\ \A e \in Days : Behind(chain, 0, e) = Behind(chain, 1, e) + (IF d = e THEN 1 ELSE 0)
  BY <1>2
<1>4. \A e \in Days, b \in Nat : Behind(chain', b, e) = Behind(chain, b + 1, e)
  BY <1>1, <1>2, BehindTail
<1>0. /\ MaxLines \in Nat /\ MaxFails \in Nat
      /\ file \in [Days -> Nat] /\ failed \in [Days -> Nat] /\ failed \in [Days -> 0..MaxFails]
      /\ query \in [Queries -> Asked] /\ pruner \in [pc : {"idle", "flush"}, behind : Nat]
  BY <1>i, Numbers, BoundsAssumption DEF UsageTypeOK
<1>5. /\ file' \in [Days -> Nat] /\ failed' \in [Days -> 0..MaxFails]
      /\ \A e \in Days : /\ file'[e] + failed'[e] = file[e] + failed[e] + (IF d = e THEN 1 ELSE 0)
                         /\ failed'[e] \in Nat /\ failed'[e] >= failed[e]
  <2>1. CASE file' = [file EXCEPT ![d] = @ + 1] /\ failed' = failed
    BY <1>0, <2>1
  <2>2. CASE failed[d] < MaxFails /\ failed' = [failed EXCEPT ![d] = @ + 1] /\ file' = file
    BY <1>0, <2>2
  <2> QED
    BY <1>3, <2>1, <2>2 DEF Written
<1>6. \A e \in Days : /\ Behind(chain', 0, e) = Behind(chain, 1, e)
                      /\ Behind(chain, 0, e) = Behind(chain', 0, e) + (IF d = e THEN 1 ELSE 0)
                      /\ Behind(chain', 0, e) \in Nat
  <2> SUFFICES ASSUME NEW e \in Days
               PROVE  /\ Behind(chain', 0, e) = Behind(chain, 1, e)
                      /\ Behind(chain, 0, e) = Behind(chain', 0, e) + (IF d = e THEN 1 ELSE 0)
                      /\ Behind(chain', 0, e) \in Nat
    OBVIOUS
  <2>1. Behind(chain', 0, e) = Behind(chain, 0 + 1, e)
    BY <1>4
  <2>2. Behind(chain, 1, e) \in Nat
    BY Numbers
  <2> QED
    BY <1>3, <2>1, <2>2
<1>7. DiskIsExact'
  <2> SUFFICES ASSUME NEW e \in Days
               PROVE  /\ file'[e] + failed'[e] + Behind(chain', 0, e) <= made[e]
                      /\ InWindow(e) => file'[e] + failed'[e] + Behind(chain', 0, e) >= made[e]
    BY <1>1 DEF DiskIsExact, InWindow
  <2>1. /\ file[e] \in Nat /\ failed[e] \in Nat /\ made[e] \in Nat
        /\ file'[e] \in Nat /\ failed'[e] \in Nat
    BY <1>5, Numbers
  <2>2. /\ file[e] + failed[e] + Behind(chain, 0, e) <= made[e]
        /\ InWindow(e) => file[e] + failed[e] + Behind(chain, 0, e) >= made[e]
    BY <1>i DEF DiskIsExact
  <2>3. /\ file'[e] + failed'[e] = file[e] + failed[e] + (IF d = e THEN 1 ELSE 0)
        /\ Behind(chain, 0, e) = Behind(chain', 0, e) + (IF d = e THEN 1 ELSE 0)
        /\ Behind(chain', 0, e) \in Nat
    BY <1>5, <1>6
  <2> QED
    BY <2>1, <2>2, <2>3
<1>8. file' \in [Days -> 0..MaxLines]
  <2> SUFFICES ASSUME NEW e \in Days PROVE file'[e] \in 0..MaxLines
    BY <1>5
  <2>1. /\ file'[e] + failed'[e] + Behind(chain', 0, e) <= made[e]
        /\ Behind(chain', 0, e) \in Nat /\ file'[e] \in Nat /\ failed'[e] \in Nat
        /\ made[e] \in Nat /\ made[e] <= MaxLines
    BY <1>1, <1>5, <1>6, <1>7, Numbers DEF DiskIsExact
  <2> QED
    BY <1>0, <2>1
<1>9. ASSUME NEW q \in Queries
      PROVE  /\ query'[q] \in Asked /\ query'[q].pc = query[q].pc /\ query'[q].known = query[q].known
             /\ query'[q].todo = query[q].todo /\ query'[q].load = query[q].load
             /\ query[q].behind \in Nat /\ query[q].behind <= Len(chain)
             /\ query'[q].behind = IF query[q].behind > 0 THEN query[q].behind - 1 ELSE 0
  <2>1. query[q] \in Asked /\ query'[q] = Advanced(query[q])
    BY <1>0, <1>1
  <2>2. query[q].behind \in Nat /\ query[q].behind <= Len(chain)
    BY <1>i, Numbers DEF UsageTypeOK
  <2>3. CASE query[q].behind > 0
    <3>1. query'[q] = [query[q] EXCEPT !.behind = query[q].behind - 1]
      BY <2>1, <2>3 DEF Advanced
    <3>2. query[q].behind - 1 \in Nat
      BY <2>2, <2>3
    <3> QED
      BY <2>1, <2>2, <2>3, <3>1, <3>2 DEF Asked
  <2>4. CASE ~(query[q].behind > 0)
    <3>1. query'[q] = query[q] /\ query[q].behind = 0
      BY <2>1, <2>2, <2>4 DEF Advanced
    <3> QED
      BY <2>1, <2>2, <3>1
  <2> QED
    BY <2>3, <2>4
<1>10. UsageTypeOK'
  <2>1. query' \in [Queries -> Asked]
    BY <1>1, <1>9
  <2>2. \A q \in Queries : query'[q].behind <= Len(chain')
    <3> SUFFICES ASSUME NEW q \in Queries PROVE query'[q].behind <= Len(chain')
      OBVIOUS
    <3> QED
      BY <1>2, <1>9
  <2>3. pruner' \in [pc : {"idle", "flush"}, behind : Nat]
    <3>1. CASE pruner.behind > 0
      <4>1. pruner' = [pruner EXCEPT !.behind = pruner.behind - 1] /\ pruner.behind - 1 \in Nat
        BY <1>0, <1>1, <3>1 DEF Advanced
      <4> QED
        BY <1>0, <4>1
    <3>2. CASE ~(pruner.behind > 0)
      BY <1>0, <1>1, <3>2 DEF Advanced
    <3> QED
      BY <3>1, <3>2
  <2>4. writer' \in Loads
    BY <1>0, <1>1 DEF NotLoading, Loads
  <2> QED
    BY <1>i, <1>1, <1>2, <1>5, <1>8, <2>1, <2>2, <2>3, <2>4 DEF UsageTypeOK
<1>11. LoadsAreUnderWay'
  <2>1. ~writer'.had /\ writer'.pc = "idle"
    BY <1>1 DEF NotLoading
  <2>2. ASSUME NEW q \in Queries
        PROVE  /\ ~query'[q].load.had
               /\ query'[q].load.pc # "idle" => query'[q].pc = "load" /\ query'[q].todo # <<>>
               /\ query'[q].pc = "load" => query'[q].behind = 0
    BY <1>i, <1>9 DEF LoadsAreUnderWay
  <2> QED
    BY <2>1, <2>2 DEF LoadsAreUnderWay
<1>12. WriterIsExact'
  BY <1>1 DEF WriterIsExact, NotLoading
<1>13. QueriesAreExact'
  <2> SUFFICES ASSUME NEW q \in Queries, query[q].load.pc # "idle"
               PROVE  LET e == Head(query[q].todo)
                      IN  /\ e \in torn \/ Behind(chain', 0, e) = 0
                          /\ query[q].load.pc = "found" =>
                               /\ query[q].load.text + Behind(chain', 0, e) <= made[e]
                               /\ e \notin torn /\ InWindow(e)
                                    => query[q].load.text + failed'[e] >= made[e]
    BY <1>1, <1>9 DEF QueriesAreExact, InWindow
  <2> DEFINE e == Head(query[q].todo)
  <2>1. e \in Days
    BY <1>i DEF LoadsAreUnderWay, UsageTypeOK, Asked
  <2>2. /\ e \in torn \/ Behind(chain, 0, e) = 0
        /\ query[q].load.pc = "found" =>
             /\ query[q].load.text + Behind(chain, 0, e) <= made[e]
             /\ e \notin torn /\ InWindow(e) => query[q].load.text + failed[e] >= made[e]
    BY <1>i DEF QueriesAreExact
  <2>3. query[q].load.text \in Nat
    BY <1>0 DEF Asked, Loads
  <2> HIDE DEF e
  <2>4. /\ made[e] \in Nat /\ failed[e] \in Nat /\ failed'[e] \in Nat /\ failed'[e] >= failed[e]
        /\ Behind(chain, 0, e) \in Nat /\ Behind(chain', 0, e) \in Nat
        /\ Behind(chain', 0, e) <= Behind(chain, 0, e)
    <3>1. /\ made[e] \in Nat /\ failed[e] \in Nat /\ failed'[e] \in Nat /\ failed'[e] >= failed[e]
          /\ Behind(chain, 0, e) \in Nat /\ Behind(chain', 0, e) \in Nat
          /\ Behind(chain, 0, e) = Behind(chain', 0, e) + (IF d = e THEN 1 ELSE 0)
      BY <1>5, <1>6, <2>1, Numbers
    <3> QED
      BY <3>1
  <2>5. e \in torn \/ Behind(chain', 0, e) = 0
    BY <2>2, <2>4
  <2>6. ASSUME query[q].load.pc = "found"
        PROVE  query[q].load.text + Behind(chain', 0, e) <= made[e]
    BY <2>2, <2>3, <2>4, <2>6
  <2>7. ASSUME query[q].load.pc = "found", e \notin torn, InWindow(e)
        PROVE  query[q].load.text + failed'[e] >= made[e]
    BY <2>2, <2>3, <2>4, <2>7
  <2> QED
    BY <2>5, <2>6, <2>7 DEF e
<1>14. FlushesWaitEnough'
  <2> SUFFICES ASSUME NEW q \in Queries, NEW e \in Days, query[q].pc \in {"flush", "load"}
               PROVE  query[q].known[e] + Behind(chain', query'[q].behind, e) <= made[e]
    BY <1>1, <1>9 DEF FlushesWaitEnough
  <2> DEFINE b == query[q].behind
  <2>1. /\ b \in Nat /\ query'[q].behind = IF b > 0 THEN b - 1 ELSE 0
        /\ query[q].known[e] \in Nat /\ made[e] \in Nat
        /\ query[q].known[e] + Behind(chain, b, e) <= made[e]
    BY <1>i, <1>9, Numbers DEF FlushesWaitEnough
  <2> HIDE DEF b
  <2>2. CASE b > 0
    <3>1. b - 1 \in Nat /\ (b - 1) + 1 = b
      BY <2>1, <2>2
    <3>2. Behind(chain', b - 1, e) = Behind(chain, b, e)
      BY <1>4, <3>1
    <3> QED
      BY <2>1, <2>2, <3>2
  <2>3. CASE ~(b > 0)
    <3>1. b = 0
      BY <2>1, <2>3
    <3>2. /\ Behind(chain, 0, e) = Behind(chain', 0, e) + (IF d = e THEN 1 ELSE 0)
          /\ Behind(chain', 0, e) \in Nat
      BY <1>6
    <3> QED
      BY <2>1, <3>1, <3>2
  <2> QED
    BY <2>2, <2>3
<1>15. \A e \in Days : Uncounted(e)' = Uncounted(e) /\ Uncounted(e) \in Nat
  <2>1. \A e \in Days : Uncounted(e)' = Behind(chain', 0, e)
    BY <1>1 DEF Uncounted, NotLoading
  <2>2. \A e \in Days : Uncounted(e) = Behind(chain, 1, e)
    BY <1>1 DEF Uncounted
  <2> QED
    BY <1>6, <2>1, <2>2, Numbers
<1>16. MemoryIsNotAhead'
  BY <1>i, <1>1, <1>15 DEF MemoryIsNotAhead
<1>17. ExactUnlessTorn'
  <2>1. loadedDays \subseteq Days
    BY <1>i DEF UsageTypeOK, ToSet
  <2> SUFFICES ASSUME NEW e \in loadedDays \ torn, InWindow(e)
               PROVE  count[e] + Uncounted(e)' + failed'[e] >= made[e]
    BY <1>1 DEF ExactUnlessTorn, InWindow
  <2>2. /\ Uncounted(e)' = Uncounted(e) /\ Uncounted(e) \in Nat /\ count[e] \in Nat
        /\ failed[e] \in Nat /\ failed'[e] \in Nat /\ failed'[e] >= failed[e] /\ made[e] \in Nat
    BY <1>5, <1>15, <2>1, Numbers
  <2>3. count[e] + Uncounted(e) + failed[e] >= made[e]
    BY <1>i DEF ExactUnlessTorn
  <2> QED
    BY <2>2, <2>3
<1> QED
  BY <1>7, <1>10, <1>11, <1>12, <1>13, <1>14, <1>16, <1>17 DEF UsageInv

\* a day of the range is counted with what memory then has of it
LEMMA CountedInv ==
  ASSUME UsageInv, NEW q \in Queries, query[q].pc = "load", query[q].todo # <<>>,
         NEW d \in Days, d = Head(query[q].todo), NEW n \in 0..MaxLines,
         Touch(d, n, loadedDays \cup {d}), query' = [query EXCEPT ![q] = Counted(q, n)],
         UNCHANGED <<today, file, chain, writer, pruner, made, failed, torn>>,
         n + Uncounted(d) <= made[d],
         d \notin torn /\ InWindow(d) => n + Uncounted(d) + failed[d] >= made[d]
  PROVE  UsageInv'
<1>i. UsageTypeOK
  BY DEF UsageInv
<1> DEFINE x == query[q]
           y == Counted(q, n)
<1>1. /\ query \in [Queries -> Asked] /\ x \in Asked /\ ExactQuery(x, torn)
      /\ n \in Nat /\ MaxLines \in Nat /\ x.pc = "load" /\ x.todo # <<>>
  BY <1>i, EveryQueryIsExact, Numbers DEF UsageTypeOK
<1>2. NotLoading \in Loads /\ NotLoading.pc = "idle" /\ ~NotLoading.had
  BY <1>1 DEF NotLoading, Loads
<1>3. /\ y \in Asked /\ y.pc = "load" /\ y.behind = x.behind /\ y.known = x.known
      /\ y.load = NotLoading
  <2> DEFINE late == x.stale \/ n + Excused(d) < x.known[d]
  <2>1. y = [x EXCEPT !.todo = Tail(x.todo), !.load = NotLoading, !.stale = late]
    BY <1>1 DEF Counted, Asked
  <2>2. late \in BOOLEAN
    BY <1>1 DEF Asked
  <2>3. Tail(x.todo) \in Seq(Days)
    BY <1>1 DEF Asked
  <2> HIDE DEF late
  <2> QED
    BY <1>1, <1>2, <2>1, <2>2, <2>3 DEF Asked
<1>4. ExactQuery(y, torn')
  <2> HIDE DEF y
  <2> QED
    BY <1>1, <1>2, <1>3 DEF ExactQuery
<1>5. /\ query' \in [Queries -> Asked] /\ \A p \in Queries : query'[p].behind <= Len(chain')
      /\ LoadsAreUnderWay' /\ QueriesAreExact' /\ FlushesWaitEnough'
  <2> HIDE DEF y
  <2>1. query' = [query EXCEPT ![q] = y]
    BY DEF y
  <2> QED
    BY <1>4, <2>1, OneQuery
<1>6. /\ lru' \in Seq(Days) /\ ToSet(lru') = loadedDays'
      /\ IsInjective(lru') /\ Len(lru') <= maxCachedDays
      /\ count' \in [Days -> 0..MaxLines]
      /\ loadedDays' \subseteq loadedDays \cup {d}
      /\ \A e \in Days : count'[e] # 0 => count'[e] = IF e = d THEN n ELSE count[e]
      /\ \A e \in loadedDays' : count'[e] = IF e = d THEN n ELSE count[e]
  BY <1>i, TouchFacts
<1>7. \A e \in Days : Uncounted(e)' = Uncounted(e) /\ Uncounted(e)' \in Nat
  <2>1. \A e \in Days : Uncounted(e)' = Uncounted(e)
    BY DEF Uncounted
  <2> QED
    BY <2>1, Numbers
<1>8. loadedDays' \subseteq Days
  <2>1. loadedDays \subseteq Days
    BY <1>i DEF UsageTypeOK, ToSet
  <2> QED
    BY <1>6, <2>1
<1>9. MemoryIsNotAhead' /\ ExactUnlessTorn'
  <2>1. n + Uncounted(d)' <= made[d]
    BY <1>7
  <2>2. d \notin torn' /\ InWindow(d) => n + Uncounted(d)' + failed[d] >= made[d]
    BY <1>7
  <2> QED
    BY <1>1, <1>6, <1>7, <1>8, <2>1, <2>2, MemoryAfterTouch
<1>10. UsageTypeOK'
  BY <1>i, <1>5, <1>6 DEF UsageTypeOK
<1>11. DiskIsExact' /\ WriterIsExact'
  BY Frame
<1> QED
  BY <1>5, <1>9, <1>10, <1>11 DEF UsageInv

\* the next day: memory has it, or its file is looked at
LEMMA CountInv ==
  ASSUME UsageInv, NEW q \in Queries, Count(q)
  PROVE  UsageInv'
<1>i. UsageTypeOK /\ MemoryIsNotAhead /\ ExactUnlessTorn
  BY DEF UsageInv
<1> DEFINE x == query[q]
<1>1. /\ query \in [Queries -> Asked] /\ x \in Asked /\ ExactQuery(x, torn) /\ MaxLines \in Nat
      /\ x.pc = "load" /\ x.todo # <<>> /\ chain \in Seq(Days)
      /\ UNCHANGED <<today, file, chain, writer, pruner, made, failed>>
  BY <1>i, EveryQueryIsExact, Numbers DEF Count, UsageTypeOK
<1>2. PICK d \in Days : d = Head(x.todo)
  BY <1>1 DEF Asked
<1>3. CASE d \in loadedDays
  <2>1. /\ Touch(d, count[d], loadedDays) /\ torn' = torn
        /\ query' = [query EXCEPT ![q] = Counted(q, count[d])]
    BY <1>2, <1>3 DEF Count
  <2>2. PICK n \in 0..MaxLines : n = count[d]
    BY <1>i DEF UsageTypeOK
  <2>3. loadedDays = loadedDays \cup {d}
    BY <1>3
  <2>4. n + Uncounted(d) <= made[d]
    BY <1>i, <2>2 DEF MemoryIsNotAhead
  <2>5. ASSUME d \notin torn, InWindow(d)
        PROVE  n + Uncounted(d) + failed[d] >= made[d]
    <3>1. count[d] + Uncounted(d) + failed[d] >= made[d]
      BY <1>i, <1>3, <2>5 DEF ExactUnlessTorn
    <3> QED
      BY <2>2, <3>1
  <2>6. Touch(d, n, loadedDays \cup {d}) /\ query' = [query EXCEPT ![q] = Counted(q, n)]
    BY <2>1, <2>2, <2>3
  <2> QED
    BY <1>1, <1>2, <2>1, <2>4, <2>5, <2>6, CountedInv
<1>4. CASE d \notin loadedDays
  <2>1. /\ query' = [query EXCEPT ![q].load = StartLoad(d)]
        /\ torn' = IF d \in ToSet(chain) THEN torn \cup {d} ELSE torn
        /\ UNCHANGED <<lru, count, loadedDays>>
    BY <1>2, <1>4 DEF Count, memory
  <2> DEFINE l == [pc |-> "reading", had |-> FALSE, text |-> 0]
             y == [x EXCEPT !.load = l]
  <2>2. StartLoad(d) = l
    <3>1. (d \in ToSet(lru)) = FALSE
      BY <1>i, <1>4 DEF UsageTypeOK
    <3> QED
      BY <3>1 DEF StartLoad
  <2>3. query' = [query EXCEPT ![q] = y]
    BY <1>1, <2>1, <2>2
  <2>4. l \in Loads
    BY <1>1 DEF Loads
  <2>5. /\ y \in Asked /\ y.pc = "load" /\ y.behind = x.behind /\ y.known = x.known
        /\ y.load = l /\ y.todo = x.todo
    BY <1>1, <2>4 DEF Asked
  <2>6. d \in torn' \/ Behind(chain, 0, d) = 0
    BY <1>1, <2>1, BehindNone
  <2> HIDE DEF y
  <2>7. ExactQuery(y, torn')
    BY <1>1, <1>2, <2>5, <2>6 DEF ExactQuery
  <2>8. /\ query' \in [Queries -> Asked] /\ \A p \in Queries : query'[p].behind <= Len(chain')
        /\ LoadsAreUnderWay' /\ QueriesAreExact' /\ FlushesWaitEnough'
    BY <1>1, <2>1, <2>3, <2>7, OneQuery
  <2>9. UsageTypeOK'
    BY <1>i, <1>1, <2>1, <2>8 DEF UsageTypeOK
  <2>10. DiskIsExact' /\ WriterIsExact' /\ MemoryIsNotAhead' /\ ExactUnlessTorn'
    BY <1>1, <2>1, Frame
  <2> QED
    BY <2>8, <2>9, <2>10 DEF UsageInv
<1> QED
  BY <1>3, <1>4

\* #loadDay() goes on with what the file had
LEMMA LoadInv ==
  ASSUME UsageInv, NEW q \in Queries, Load(q)
  PROVE  UsageInv'
<1>i. UsageTypeOK
  BY DEF UsageInv
<1> DEFINE x == query[q]
<1>1. /\ query \in [Queries -> Asked] /\ x \in Asked /\ ExactQuery(x, torn) /\ MaxLines \in Nat
      /\ x.load.pc = "found"
      /\ UNCHANGED <<today, file, chain, writer, pruner, made, failed, torn>>
  BY <1>i, EveryQueryIsExact, Numbers DEF Load, UsageTypeOK, history
<1>2. x.pc = "load" /\ x.todo # <<>> /\ ~x.load.had /\ x.load.text \in Nat
  BY <1>1 DEF ExactQuery, Asked, Loads
<1>3. PICK d \in Days : d = Head(x.todo)
  BY <1>1, <1>2 DEF Asked
<1>4. PICK n \in Nat : n = x.load.text
  BY <1>2
<1>5. /\ n + Behind(chain, 0, d) <= made[d]
      /\ d \notin torn /\ InWindow(d) => n + failed[d] >= made[d]
  BY <1>1, <1>3, <1>4 DEF ExactQuery
<1>6. /\ Uncounted(d) \in Nat /\ Behind(chain, 0, d) \in Nat /\ failed[d] \in Nat
      /\ made[d] \in Nat /\ made[d] <= MaxLines /\ Uncounted(d) <= Behind(chain, 0, d)
  BY Numbers, UncountedBound
<1>7. /\ n \in 0..MaxLines /\ n + Uncounted(d) <= made[d]
      /\ d \notin torn /\ InWindow(d) => n + Uncounted(d) + failed[d] >= made[d]
  BY <1>1, <1>5, <1>6
<1>8. Filled(d, x.load) = n
  BY <1>2, <1>4 DEF Filled
<1>9. /\ Touch(d, n, loadedDays \cup {d})
      /\ query' = [query EXCEPT ![q] = Counted(q, n)]
  BY <1>3, <1>8 DEF Load
<1> QED
  BY <1>1, <1>2, <1>3, <1>7, <1>9, CountedInv

\* what is found is what the file has at that moment
LEMMA LookInv ==
  ASSUME UsageInv, Look
  PROVE  UsageInv'
<1>i. /\ UsageTypeOK /\ DiskIsExact /\ LoadsAreUnderWay
  BY DEF UsageInv
<1>0. /\ UNCHANGED <<today, file, lru, count, loadedDays, chain, pruner, made, failed, torn>>
      /\ MaxLines \in Nat /\ file \in [Days -> 0..MaxLines]
  BY <1>i, Numbers DEF Look, memory, history, UsageTypeOK
<1>1. ASSUME writer.pc = "reading", writer' = [writer EXCEPT !.pc = "found", !.text = file[day]],
             query' = query
      PROVE  UsageInv'
  <2>1. chain # <<>> /\ writer \in Loads /\ ~writer.had
    BY <1>i, <1>1 DEF LoadsAreUnderWay, UsageTypeOK
  <2>2. PICK d \in Days : d = day
    BY <2>1, FirstRecord
  <2>3. writer' \in Loads /\ ~writer'.had /\ writer'.pc = "found" /\ writer'.text = file[d]
    BY <1>0, <1>1, <2>1, <2>2 DEF Loads
  <2>4. WriterIsExact'
    <3>1. day' = d
      BY <1>0, <2>2 DEF day
    <3> QED
      BY <1>i, <1>0, <2>3, <3>1 DEF WriterIsExact, DiskIsExact, InWindow
  <2>5. UsageTypeOK'
    BY <1>i, <1>0, <1>1, <2>3 DEF UsageTypeOK
  <2>6. LoadsAreUnderWay'
    BY <1>i, <1>0, <1>1, <2>1, <2>3 DEF LoadsAreUnderWay
  <2>7. DiskIsExact' /\ QueriesAreExact' /\ FlushesWaitEnough' /\ MemoryIsNotAhead' /\ ExactUnlessTorn'
    BY <1>0, <1>1, <2>3, Frame
  <2> QED
    BY <2>4, <2>5, <2>6, <2>7 DEF UsageInv
<1>2. ASSUME NEW q \in Queries, query[q].load.pc = "reading", writer' = writer,
             query' = [query EXCEPT ![q].load.pc = "found",
                                    ![q].load.text = file[Head(query[q].todo)]]
      PROVE  UsageInv'
  <2> DEFINE x == query[q]
  <2>1. query \in [Queries -> Asked] /\ x \in Asked /\ ExactQuery(x, torn)
    BY <1>i, EveryQueryIsExact DEF UsageTypeOK
  <2>2. x.pc = "load" /\ x.todo # <<>> /\ ~x.load.had /\ x.load \in Loads
    BY <1>2, <2>1 DEF ExactQuery, Asked
  <2>3. PICK d \in Days : d = Head(x.todo)
    BY <2>1, <2>2 DEF Asked
  <2> DEFINE l == [x.load EXCEPT !.pc = "found", !.text = file[d]]
             y == [x EXCEPT !.load = l]
  <2>4. l \in Loads /\ l.pc = "found" /\ ~l.had /\ l.text = file[d]
    BY <1>0, <2>2 DEF Loads
  <2>5. query' = [query EXCEPT ![q] = y]
    BY <1>2, <2>1, <2>2, <2>3 DEF Asked, Loads
  <2> HIDE DEF l
  <2>6. /\ y \in Asked /\ y.pc = "load" /\ y.behind = x.behind /\ y.known = x.known
        /\ y.load = l /\ y.todo = x.todo
    BY <2>1, <2>2, <2>4 DEF Asked
  <2> HIDE DEF y
  <2>7. /\ file[d] + failed[d] + Behind(chain, 0, d) <= made[d]
        /\ InWindow(d) => file[d] + failed[d] + Behind(chain, 0, d) >= made[d]
        /\ file[d] \in Nat /\ failed[d] \in Nat /\ Behind(chain, 0, d) \in Nat /\ made[d] \in Nat
        /\ d \in torn \/ Behind(chain, 0, d) = 0
    BY <1>i, <1>2, <2>1, <2>3, Numbers DEF DiskIsExact, ExactQuery
  <2>8. /\ file[d] + Behind(chain, 0, d) <= made[d]
        /\ d \notin torn /\ InWindow(d) => file[d] + failed[d] >= made[d]
    BY <2>7
  <2>9. ExactQuery(y, torn')
    BY <1>0, <2>1, <2>2, <2>3, <2>4, <2>6, <2>7, <2>8 DEF ExactQuery
  <2>10. /\ query' \in [Queries -> Asked] /\ \A p \in Queries : query'[p].behind <= Len(chain')
         /\ LoadsAreUnderWay' /\ QueriesAreExact' /\ FlushesWaitEnough'
    BY <1>0, <1>2, <2>5, <2>9, OneQuery
  <2>11. UsageTypeOK'
    BY <1>i, <1>0, <1>2, <2>10 DEF UsageTypeOK
  <2>12. DiskIsExact' /\ WriterIsExact' /\ MemoryIsNotAhead' /\ ExactUnlessTorn'
    BY <1>0, <1>2, Frame
  <2> QED
    BY <2>10, <2>11, <2>12 DEF UsageInv
<1> QED
  BY <1>1, <1>2 DEF Look

\* prune() waits, too
LEMMA StartPruneInv ==
  ASSUME UsageInv, StartPrune
  PROVE  UsageInv'
<1>1. /\ UNCHANGED <<today, file, lru, count, loadedDays, chain, writer, query, made, failed, torn>>
      /\ pruner' = [pc |-> "flush", behind |-> Len(chain)] /\ Len(chain) \in Nat
  BY Numbers DEF StartPrune, memory, history, ToWaitFor
<1>2. UsageTypeOK'
  BY <1>1 DEF UsageInv, UsageTypeOK
<1> QED
  BY <1>1, <1>2, Frame DEF UsageInv

\* a file that goes is older than the window, and its day goes with it
LEMMA PruneInv ==
  ASSUME UsageInv, Prune
  PROVE  UsageInv'
<1>i. UsageTypeOK /\ DiskIsExact /\ MemoryIsNotAhead /\ ExactUnlessTorn
  BY DEF UsageInv
<1>1. UNCHANGED <<today, chain, writer, query, made, failed, torn>> /\ MaxLines \in Nat
  BY Numbers DEF Prune, history
<1>2. WriterIsExact' /\ QueriesAreExact' /\ FlushesWaitEnough' /\ LoadsAreUnderWay'
  BY <1>1, Frame
<1>3. ASSUME UNCHANGED <<file, lru, count, loadedDays>>, pruner' = [pruner EXCEPT !.pc = "idle"]
      PROVE  UsageInv'
  <2>1. UsageTypeOK'
    BY <1>i, <1>1, <1>3 DEF UsageTypeOK
  <2>2. DiskIsExact' /\ MemoryIsNotAhead' /\ ExactUnlessTorn'
    BY <1>1, <1>3, Frame
  <2> QED
    BY <1>2, <2>1, <2>2 DEF UsageInv
<1>4. ASSUME NEW d \in Days, d + KeepDays < today, file' = [file EXCEPT ![d] = 0],
             lru' = Without(lru, d), count' = [count EXCEPT ![d] = 0],
             loadedDays' = loadedDays \ {d}, pruner' = pruner
      PROVE  UsageInv'
  <2>1. /\ lru' \in Seq(Days) /\ ToSet(lru') = loadedDays'
        /\ IsInjective(lru') /\ Len(lru') <= maxCachedDays
        /\ count' \in [Days -> 0..MaxLines]
        /\ \A e \in Days : count'[e] # 0 => count'[e] = count[e]
        /\ \A e \in loadedDays' : count'[e] = count[e]
    BY <1>i, <1>4, DropFacts
  <2>2. file \in [Days -> 0..MaxLines] /\ file' \in [Days -> 0..MaxLines]
    BY <1>i, <1>1, <1>4 DEF UsageTypeOK
  <2>3. UsageTypeOK'
    BY <1>i, <1>1, <1>4, <2>1, <2>2 DEF UsageTypeOK
  <2>4. ~InWindow(d)
    <3>1. d \in Nat /\ KeepDays \in Nat /\ today \in Nat
      BY Numbers
    <3> QED
      BY <1>4, <3>1 DEF InWindow
  <2>5. DiskIsExact'
    <3> SUFFICES ASSUME NEW e \in Days
                 PROVE  /\ file'[e] + failed[e] + Behind(chain, 0, e) <= made[e]
                        /\ InWindow(e) => file'[e] + failed[e] + Behind(chain, 0, e) >= made[e]
      BY <1>1 DEF DiskIsExact, InWindow
    <3>1. /\ file[e] + failed[e] + Behind(chain, 0, e) <= made[e]
          /\ InWindow(e) => file[e] + failed[e] + Behind(chain, 0, e) >= made[e]
          /\ file[e] \in Nat /\ failed[e] \in Nat /\ Behind(chain, 0, e) \in Nat /\ made[e] \in Nat
      BY <1>i, Numbers DEF DiskIsExact
    <3>2. CASE e = d
      <4>1. file'[e] = 0
        BY <1>4, <2>2, <3>2
      <4> QED
        BY <2>4, <3>1, <3>2, <4>1
    <3>3. CASE e # d
      <4>1. file'[e] = file[e]
        BY <1>4, <2>2, <3>3
      <4> QED
        BY <3>1, <4>1
    <3> QED
      BY <3>2, <3>3
  <2>6. \A e \in Days : Uncounted(e)' = Uncounted(e)
    BY <1>1 DEF Uncounted
  <2>7. MemoryIsNotAhead'
    <3> SUFFICES ASSUME NEW e \in Days PROVE count'[e] + Uncounted(e) <= made[e]
      BY <1>1, <2>6 DEF MemoryIsNotAhead
    <3>1. /\ count[e] + Uncounted(e) <= made[e]
          /\ count[e] \in Nat /\ Uncounted(e) \in Nat /\ made[e] \in Nat
      BY <1>i, Numbers DEF MemoryIsNotAhead
    <3>2. count'[e] = 0 \/ count'[e] = count[e]
      BY <2>1
    <3> QED
      BY <3>1, <3>2
  <2>8. ExactUnlessTorn'
    <3>1. loadedDays \subseteq Days /\ loadedDays' \subseteq loadedDays
      BY <1>i, <1>4 DEF UsageTypeOK, ToSet
    <3> SUFFICES ASSUME NEW e \in loadedDays' \ torn, InWindow(e)
                 PROVE  count'[e] + Uncounted(e)' + failed[e] >= made[e]
      BY <1>1 DEF ExactUnlessTorn, InWindow
    <3>2. /\ count'[e] = count[e] /\ Uncounted(e)' = Uncounted(e)
          /\ count[e] + Uncounted(e) + failed[e] >= made[e]
      BY <1>i, <2>1, <2>6, <3>1 DEF ExactUnlessTorn
    <3> QED
      BY <3>2
  <2> QED
    BY <1>2, <2>3, <2>5, <2>7, <2>8 DEF UsageInv
<1> QED
  BY <1>3, <1>4 DEF Prune, memory

\* at midnight a day may leave the window, and none enters it
LEMMA MidnightInv ==
  ASSUME UsageInv, Midnight
  PROVE  UsageInv'
<1>i. /\ UsageTypeOK /\ DiskIsExact /\ LoadsAreUnderWay /\ WriterIsExact
      /\ QueriesAreExact /\ FlushesWaitEnough /\ MemoryIsNotAhead /\ ExactUnlessTorn
  BY DEF UsageInv
<1>1. /\ UNCHANGED <<file, lru, count, loadedDays, chain, writer, query, pruner, made, failed, torn>>
      /\ today \in Nat /\ KeepDays \in Nat /\ LastDay \in Nat /\ today >= 1
      /\ today < LastDay /\ today' = today + 1
  BY <1>i, Numbers, DaysAssumption DEF Midnight, memory, history, UsageTypeOK, Days
<1>2. \A d \in Days : InWindow(d)' => InWindow(d)
  <2> SUFFICES ASSUME NEW d \in Days, d + KeepDays >= today + 1 PROVE d + KeepDays >= today
    BY <1>1 DEF InWindow
  <2>1. d \in Nat
    BY Numbers
  <2> QED
    BY <1>1, <2>1
<1>3. UsageTypeOK'
  <2>1. today' \in Days
    BY <1>1 DEF Days
  <2> QED
    BY <1>i, <1>1, <2>1 DEF UsageTypeOK
<1>4. DiskIsExact'
  BY <1>i, <1>1, <1>2 DEF DiskIsExact
<1>5. LoadsAreUnderWay' /\ FlushesWaitEnough'
  BY <1>i, <1>1 DEF LoadsAreUnderWay, FlushesWaitEnough
<1>6. WriterIsExact'
  <2> SUFFICES ASSUME writer.pc = "found"
               PROVE  /\ writer.text + failed[day] + Behind(chain, 0, day) <= made[day]
                      /\ InWindow(day)' =>
                           writer.text + failed[day] + Behind(chain, 0, day) >= made[day]
    BY <1>1 DEF WriterIsExact, InWindow, day
  <2>1. day \in Days
    BY <1>i, FirstRecord DEF LoadsAreUnderWay
  <2>2. InWindow(day)' => InWindow(day)
    <3>1. PICK d \in Days : d = day
      BY <2>1
    <3>2. day' = d
      BY <1>1, <3>1 DEF day
    <3> QED
      BY <1>2, <3>1, <3>2 DEF InWindow
  <2> QED
    BY <1>i, <2>2 DEF WriterIsExact
<1>7. QueriesAreExact'
  <2> SUFFICES ASSUME NEW q \in Queries, query[q].load.pc # "idle", NEW d \in Days,
                      d = Head(query[q].todo)
               PROVE  /\ d \in torn \/ Behind(chain, 0, d) = 0
                      /\ query[q].load.pc = "found" =>
                           /\ query[q].load.text + Behind(chain, 0, d) <= made[d]
                           /\ d \notin torn /\ InWindow(d)' =>
                                query[q].load.text + failed[d] >= made[d]
    <3>1. \A q \in Queries : query[q].load.pc # "idle" => Head(query[q].todo) \in Days
      BY <1>i DEF LoadsAreUnderWay, UsageTypeOK, Asked
    <3> QED
      BY <1>1, <3>1 DEF QueriesAreExact, InWindow
  <2> QED
    BY <1>i, <1>2 DEF QueriesAreExact
<1>8. \A d \in Days : Uncounted(d)' = Uncounted(d)
  BY <1>1 DEF Uncounted
<1>9. MemoryIsNotAhead'
  BY <1>i, <1>1, <1>8 DEF MemoryIsNotAhead
<1>10. ExactUnlessTorn'
  <2>1. loadedDays \subseteq Days
    BY <1>i DEF UsageTypeOK, ToSet
  <2> QED
    BY <1>i, <1>1, <1>2, <1>8, <2>1 DEF ExactUnlessTorn
<1> QED
  BY <1>3, <1>4, <1>5, <1>6, <1>7, <1>9, <1>10 DEF UsageInv

LEMMA UsageNextInv ==
  ASSUME UsageInv, [UsageNext]_usageVars
  PROVE  UsageInv'
<1>1. CASE Microtask
  <2>1. CASE Start
    BY <2>1, StartInv
  <2>2. CASE \E q \in Queries : Flushed(q) \/ Count(q) \/ Answer(q)
    BY <2>2, AskInv, CountInv
  <2> QED
    BY <1>1, <2>1, <2>2 DEF Microtask
<1>2. CASE record
  BY <1>2, RecordInv
<1>3. CASE Apply
  BY <1>3, ApplyInv
<1>4. CASE Written
  BY <1>4, WrittenInv
<1>5. CASE Look
  BY <1>5, LookInv
<1>6. CASE StartPrune
  BY <1>6, StartPruneInv
<1>7. CASE Prune
  BY <1>7, PruneInv
<1>8. CASE Midnight
  BY <1>8, MidnightInv
<1>9. CASE \E q \in Queries : Ask(q) \/ Load(q)
  BY <1>9, AskInv, LoadInv
<1>10. CASE UNCHANGED usageVars
  <2>1. /\ UNCHANGED <<today, file, lru, count, loadedDays, chain, writer, query, pruner>>
        /\ UNCHANGED <<made, failed, torn>>
    BY <1>10 DEF usageVars, memory, history
  <2>2. UsageTypeOK'
    BY <2>1 DEF UsageInv, UsageTypeOK
  <2> QED
    BY <2>1, <2>2, Frame DEF UsageInv
<1> QED
  BY <1>1, <1>2, <1>3, <1>4, <1>5, <1>6, <1>7, <1>8, <1>9, <1>10 DEF UsageNext

-----------------------------------------------------------------------------
(* The theorems.                                                           *)

(* Every record is on disk, lost or in the write chain until prune()       *)
(* removes its file; a load in progress agrees with what it will be added  *)
(* to; and memory lags behind record() by what waits in the chain.         *)
THEOREM UsageSafe == UsageSpec => []UsageInv
<1>1. UsageInit => UsageInv
  BY UsageInitInv
<1>2. UsageInv /\ [UsageNext]_usageVars => UsageInv'
  BY UsageNextInv
<1> QED
  BY <1>1, <1>2, PTL DEF UsageSpec

(* No record is counted twice, in memory or on disk, however days are      *)
(* evicted, pruned and loaded again by record() and query() side by side.  *)
THEOREM UsageCountsOnce == UsageSpec => []NothingIsCountedTwice
<1>1. UsageInv => NothingIsCountedTwice
  <2> SUFFICES ASSUME UsageInv, NEW d \in Days PROVE count[d] <= made[d] /\ file[d] <= made[d]
    BY DEF UsageInv, NothingIsCountedTwice
  <2>1. /\ count[d] \in Nat /\ file[d] \in Nat /\ failed[d] \in Nat /\ made[d] \in Nat
        /\ Uncounted(d) \in Nat /\ Behind(chain, 0, d) \in Nat
    BY Numbers
  <2> QED
    BY <2>1 DEF UsageInv, MemoryIsNotAhead, DiskIsExact
<1> QED
  BY <1>1, UsageSafe, PTL

(* A day that is loaded lacks no record but those still to come in the     *)
(* chain and those whose line could not be written, unless a query read    *)
(* its file beside a record of it.                                         *)
THEOREM UsageIsExactUnlessTorn == UsageSpec => []ExactUnlessTorn
<1>1. UsageInv => ExactUnlessTorn
  BY DEF UsageInv
<1> QED
  BY <1>1, UsageSafe, PTL

\* a step that looks at a query's file finds what the query waited for
LEMMA LookFindsThem ==
  ASSUME UsageInv, Look, NEW q \in Queries,
         query[q].load.pc = "reading", query'[q].load.pc = "found",
         NEW d \in Days, d = Head(query[q].todo)
  PROVE  query'[q].load.text + Excused(d) >= query[q].known[d]
<1>1. query \in [Queries -> Asked] /\ query[q] \in Asked
  BY DEF UsageInv, UsageTypeOK
<1>2. query'[q].load.text = file[d]
  <2>1. PICK p \in Queries :
          query' = [query EXCEPT ![p].load.pc = "found",
                                 ![p].load.text = file[Head(query[p].todo)]]
    BY DEF Look
  <2>2. p = q
    BY <1>1, <2>1
  <2> QED
    BY <1>1, <2>1, <2>2 DEF Asked, Loads
<1>3. /\ file[d] + failed[d] + Behind(chain, 0, d) <= made[d]
      /\ InWindow(d) => file[d] + failed[d] + Behind(chain, 0, d) >= made[d]
      /\ query[q].known[d] + Behind(chain, 0, d) <= made[d]
  <2>1. query[q].pc = "load" /\ query[q].behind = 0
    BY DEF UsageInv, LoadsAreUnderWay
  <2> QED
    BY <2>1 DEF UsageInv, DiskIsExact, FlushesWaitEnough
<1>4. /\ file[d] \in Nat /\ failed[d] \in Nat /\ made[d] \in Nat /\ query[q].known[d] \in Nat
      /\ Behind(chain, 0, d) \in Nat /\ d \in Nat /\ KeepDays \in Nat /\ today \in Nat
  BY Numbers
<1>5. CASE d + KeepDays < today
  BY <1>2, <1>3, <1>4, <1>5 DEF Excused
<1>6. CASE ~(d + KeepDays < today)
  BY <1>2, <1>3, <1>4, <1>6 DEF Excused, InWindow
<1> QED
  BY <1>5, <1>6

(* query() reads a file only when the records made before it was called    *)
(* are in it, have failed, or have been pruned away.                       *)
THEOREM QueriesSeeTheirRecords == UsageSpec => FlushReachesDisk
<1> DEFINE A == \A q \in Queries :
                  query[q].load.pc = "reading" /\ query'[q].load.pc = "found" =>
                    LET d == Head(query[q].todo)
                    IN  query'[q].load.text + Excused(d) >= query[q].known[d]
<1>1. ASSUME UsageInv, [UsageNext]_usageVars PROVE A
  <2> SUFFICES ASSUME NEW q \in Queries,
                      query[q].load.pc = "reading", query'[q].load.pc = "found"
               PROVE  LET d == Head(query[q].todo)
                      IN  query'[q].load.text + Excused(d) >= query[q].known[d]
    OBVIOUS
  <2>0. PICK d \in Days : d = Head(query[q].todo)
    <3>1. query[q].todo \in Seq(Days) /\ query[q].todo # <<>>
      BY <1>1 DEF UsageInv, UsageTypeOK, LoadsAreUnderWay, Asked
    <3> QED
      BY <3>1
  <2>1. query \in [Queries -> Asked]
    BY <1>1 DEF UsageInv, UsageTypeOK
  <2>2. ASSUME NEW p \in Queries, NEW y, query' = [query EXCEPT ![p] = y],
               y.load.pc # "found"
        PROVE  FALSE
    BY <2>1, <2>2
  <2>3. query' # query
    OBVIOUS
  <2>4. Look
    <3>1. CASE Written
      <4>1. query'[q] = Advanced(query[q])
        BY <3>1 DEF Written
      <4>2. Advanced(query[q]).load = query[q].load
        BY <2>1 DEF Advanced, Asked
      <4> QED
        BY <4>1, <4>2
    <3>2. ASSUME NEW p \in Queries, Ask(p) PROVE FALSE
      <4>1. PICK y : /\ y = [NoQuery EXCEPT !.pc = "flush", !.behind = ToWaitFor, !.known = made]
                     /\ query' = [query EXCEPT ![p] = y]
        BY <3>2 DEF Ask
      <4>2. y.load.pc = "idle"
        BY <4>1 DEF NoQuery, NotLoading
      <4> QED
        BY <2>2, <4>1, <4>2
    <3>3. ASSUME NEW p \in Queries, Answer(p) PROVE FALSE
      <4>1. PICK y : /\ y = [NoQuery EXCEPT !.pc = "answered", !.stale = query[p].stale]
                     /\ query' = [query EXCEPT ![p] = y]
        BY <3>3 DEF Answer
      <4>2. y.load.pc = "idle"
        BY <4>1 DEF NoQuery, NotLoading
      <4> QED
        BY <2>2, <4>1, <4>2
    <3>4. ASSUME NEW p \in Queries, Flushed(p) PROVE FALSE
      <4>1. query'[q].load = query[q].load
        BY <2>1, <3>4 DEF Flushed, Asked
      <4> QED
        BY <4>1
    <3>5. ASSUME NEW p \in Queries, NEW n, query' = [query EXCEPT ![p] = Counted(p, n)]
          PROVE  FALSE
      <4>1. PICK y : y = Counted(p, n)
        OBVIOUS
      <4>2. y.load.pc = "idle"
        BY <2>1, <4>1 DEF Counted, NotLoading, Asked
      <4> QED
        BY <2>2, <3>5, <4>1, <4>2
    <3>6. ASSUME NEW p \in Queries, Count(p) PROVE FALSE
      <4>1. \/ query' = [query EXCEPT ![p] = Counted(p, count[Head(query[p].todo)])]
            \/ query' = [query EXCEPT ![p].load = StartLoad(Head(query[p].todo))]
        BY <3>6 DEF Count
      <4>2. ASSUME query' = [query EXCEPT ![p].load = StartLoad(Head(query[p].todo))] PROVE FALSE
        <5>1. query'[q].load = query[q].load \/ query'[q].load.pc = "reading"
          BY <2>1, <4>2 DEF StartLoad, Asked
        <5> QED
          BY <5>1
      <4> QED
        BY <3>5, <4>1, <4>2
    <3>7. ASSUME NEW p \in Queries, Load(p) PROVE FALSE
      BY <3>5, <3>7 DEF Load
    <3>8. ~(Start \/ record \/ Apply \/ StartPrune \/ Prune \/ Midnight \/ UNCHANGED usageVars)
      BY <2>3 DEF Start, record, Apply, StartPrune, Prune, Midnight, usageVars
    <3> QED
      BY <1>1, <3>1, <3>2, <3>3, <3>4, <3>6, <3>7, <3>8 DEF UsageNext, Microtask
  <2> QED
    BY <1>1, <2>0, <2>4, LookFindsThem
<1>2. UsageInv /\ [UsageNext]_usageVars => [A]_usageVars
  BY <1>1
<1> QED
  BY <1>2, UsageSafe, PTL DEF UsageSpec, FlushReachesDisk

=============================================================================
