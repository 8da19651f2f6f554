--------------------------- MODULE SchedulerProofs ---------------------------
(***************************************************************************)
(* What holds of Scheduler for every clock, every bound and every build.   *)
(***************************************************************************)
EXTENDS SchedulerInvariant, FiniteSums, TLAPS

USE DEF Counter, Key, Counters, Reading

-----------------------------------------------------------------------------
(* Facts about windows and readings. *)

LEMMA TimeIsNat == Time \subseteq Nat
  BY BoundsAssumption DEF Time

LEMMA BoundaryIsWindow == \A t \in Time : WindowBoundary(t) \in Windows
  BY DEF Windows

LEMMA ReadingAtType ==
  ASSUME NEW t \in Time, NEW counters \in Counters
  PROVE  ReadingAt(t, counters) \in Stamped
  BY TimeIsNat DEF ReadingAt, Stamped

LEMMA OrphanReadings ==
  ASSUME NEW w \in Orphans, w /= None
  PROVE  /\ w \in Windows /\ w \in Time
         /\ w + WindowSecs \in Time
  <1>1. w \in Windows /\ w + WindowSecs \in Time
    BY OrphanAssumption
  <1>2. PICK t \in Time : w = (t \div WindowSecs) * WindowSecs
    BY <1>1 DEF Windows, WindowBoundary
  <1>3. t \in Nat /\ WindowSecs \in Nat /\ WindowSecs > 0
    BY <1>2, TimeIsNat, WindowSecsAssumption
  <1>4. w \in Nat
    <2>1. t \div WindowSecs \in Nat
      BY <1>3
    <2> QED BY <1>2, <1>3, <2>1
  <1>5. w + WindowSecs <= MaxTime
    BY <1>1, <1>3, <1>4, BoundsAssumption DEF Time
  <1> QED
    BY <1>1, <1>3, <1>4, <1>5, BoundsAssumption DEF Time

LEMMA NoneIsNothing == /\ None \notin Nat /\ None \notin Windows
                       /\ None \notin Stamped /\ None \notin Row
  <1>1. Stamped \subseteq Reading
    BY DEF Stamped
  <1>2. Row \subseteq [lo : Reading, hi : Reading, version : Nat]
    BY <1>1, BoundsAssumption DEF Row
  <1> QED BY <1>1, <1>2, NoneAssumption

-----------------------------------------------------------------------------
(* Types. *)

LEMMA TypeInit == Init => TypeOK
  <1> SUFFICES ASSUME NEW w \in Orphans, InitFrom(w) PROVE TypeOK
    BY DEF Init
  <1>1. Zero \in Counters
    BY DEF Zero
  <1>2. 0 \in Time
    BY BoundsAssumption DEF Time
  <1>3. CASE w = None
    BY <1>1, <1>2, <1>3, NoneIsNothing DEF InitFrom, TypeOK, InCrossing, Faults
  <1>4. CASE w /= None
    <2>1. ReadingAt(w, Zero) \in Stamped
      BY <1>1, <1>4, OrphanReadings, ReadingAtType
    <2>2. ReadingAt(w + WindowSecs, Zero) \in Stamped
      BY <1>1, <1>4, OrphanReadings, ReadingAtType
    <2> QED
      BY <1>1, <1>2, <1>4, <2>1, <2>2, OrphanReadings, NoneIsNothing
      DEF InitFrom, TypeOK, InCrossing, Faults, Stamped
  <1> QED BY <1>3, <1>4

LEMMA CurrentReadingType == TypeOK => CurrentReading \in Stamped
  BY ReadingAtType DEF TypeOK, CurrentReading

LEMMA AnswerType == TypeOK => Answers \subseteq Stamped
  <1> SUFFICES ASSUME TypeOK, NEW absent \in Absences
               PROVE  ReadingAt(clock, [ c \in Counter |-> IF c \in absent THEN 0 ELSE meter[c] ])
                        \in Stamped
    BY DEF Answers
  <1>1. [ c \in Counter |-> IF c \in absent THEN 0 ELSE meter[c] ] \in Counters
    BY DEF TypeOK
  <1> QED BY <1>1, ReadingAtType DEF TypeOK

LEMMA ClosedWindowType ==
  ASSUME TypeOK, last /= None
  PROVE  ClosedWindow \in Windows
  BY BoundaryIsWindow DEF TypeOK, ClosedWindow, Stamped

LEMMA ClosedRowType ==
  ASSUME TypeOK, last /= None, curr /= None, NEW v \in 0 .. MaxVersion
  PROVE  ClosedRow(v) \in Row
  BY DEF TypeOK, ClosedRow, Row

LEMMA TypeNext == TypeOK /\ [Next]_vars => TypeOK'
  <1> SUFFICES ASSUME TypeOK, [Next]_vars PROVE TypeOK'
    OBVIOUS
  <1> USE DEF TypeOK, environment, history, config, process, InCrossing, Faults
  <1>1. ASSUME NEW inc \in Increments, Elapse(inc) PROVE TypeOK'
    <2>1. inc \in Counters
      BY IncrementsAssumption
    <2>2. clock + 1 \in Time
      BY <1>1, BoundsAssumption DEF Elapse, Time
    <2> QED BY <1>1, <2>1, <2>2 DEF Elapse
  <1>2. ASSUME NEW t \in Time, ClockStep(t) PROVE TypeOK'
    BY <1>2 DEF ClockStep
  <1>3. CASE MeterReplaced
    BY <1>3 DEF MeterReplaced, Zero
  <1>4. ASSUME NEW v \in Versions, Deploy(v) PROVE TypeOK'
    BY <1>4 DEF Deploy
  <1>5. CASE Crash
    BY <1>5 DEF Crash, CutOff, ProcessEnds
  <1>6. CASE Start
    BY <1>6 DEF Start
  <1>7. CASE BootFails
    BY <1>7 DEF BootFails, ProcessEnds
  <1>8. ASSUME NEW ok \in BOOLEAN, BootOk(ok) PROVE TypeOK'
    BY <1>8 DEF BootOk, StaleRows, Stored
  <1>9. ASSUME NEW w \in stale, NEW ok \in BOOLEAN, RecomputeRow(w, ok) PROVE TypeOK'
    <2>1. CASE ok /\ HasPair(w)
      <3>1. Recomputed(w) \in Row
        BY <2>1 DEF Recomputed, HasPair, Captured, Row, Versions
      <3> QED BY <1>9, <2>1, <3>1 DEF RecomputeRow, Remaining
    <2>2. CASE ~(ok /\ HasPair(w))
      BY <1>9, <2>2 DEF RecomputeRow, Remaining
    <2> QED BY <2>1, <2>2
  <1>10. ASSUME NEW ok \in BOOLEAN, LoadPersistedReading(ok) PROVE TypeOK'
    <2>1. CASE ok /\ \A x \in Key : store[x] /= None
      <3>1. store \in Stamped
        BY <2>1 DEF Stamped
      <3> QED BY <1>10, <2>1, <3>1 DEF LoadPersistedReading
    <2>2. CASE ~(ok /\ \A x \in Key : store[x] /= None)
      BY <1>10, <2>2 DEF LoadPersistedReading
    <2> QED BY <2>1, <2>2
  <1>11. ASSUME NEW reading \in Answers, PollFirst(reading) PROVE TypeOK'
    BY <1>11, AnswerType DEF PollFirst, Judge
  <1>12. CASE PollNothing \/ UNCHANGED vars
    BY <1>12 DEF PollNothing, vars
  <1>13. ASSUME NEW reading \in Answers, PollCrossing(reading) PROVE TypeOK'
    <2>1. reading \in Stamped /\ reading /= None
      BY AnswerType, NoneIsNothing
    <2> QED BY <1>13, <2>1 DEF PollCrossing, Judge
  <1>14. CASE CloseBare
    <2>1. 0 \in 0 .. MaxVersion
      BY BoundsAssumption
    <2> QED BY <1>14, <2>1, ClosedRowType, ClosedWindowType DEF CloseBare, InsertOrIgnore
  <1>15. ASSUME CloseWindow \/ CloseRepair PROVE TypeOK'
    <2>1. build \in 0 .. MaxVersion
      BY DEF Versions
    <2>2. CASE CloseWindow
      BY <2>1, <2>2, ClosedRowType, ClosedWindowType DEF CloseWindow, InsertOrIgnore
    <2>3. CASE CloseRepair
      BY <2>1, <2>3, ClosedRowType, ClosedWindowType DEF CloseRepair
    <2> QED BY <1>15, <2>2, <2>3
  <1>16. CASE CloseDuplicate
    BY <1>16 DEF CloseDuplicate
  <1>17. CASE CloseFails
    BY <1>17 DEF CloseFails
  <1>18. ASSUME NEW ok \in BOOLEAN, MarkWindow(ok) PROVE TypeOK'
    BY <1>18, ClosedWindowType DEF MarkWindow
  <1>19. CASE Telemetry
    BY <1>19 DEF Telemetry
  <1>20. ASSUME NEW x \in Key, NEW ok \in BOOLEAN, PersistKey(x, ok) PROVE TypeOK'
    <2>1. curr \in Stamped /\ last \in Stamped
      BY <1>20 DEF PersistKey
    <2>2. store' \in [Key -> Nat \cup {None}] /\ store'.ts \in Time \cup {None}
      BY <1>20, <2>1 DEF PersistKey, Stamped
    <2>3. CASE x = "exp"
      BY <1>20, <2>1, <2>2, <2>3, NoneIsNothing DEF PersistKey
    <2>4. CASE x /= "exp"
      BY <1>20, <2>1, <2>2, <2>4, NoneIsNothing DEF PersistKey
    <2> QED BY <2>3, <2>4
  <1> QED
    BY <1>1, <1>2, <1>3, <1>4, <1>5, <1>6, <1>7, <1>8, <1>9, <1>10, <1>11, <1>12,
       <1>13, <1>14, <1>15, <1>16, <1>17, <1>18, <1>19, <1>20
    DEF Next, Poll, Environment, Progress, Boot, Recompute, Load, Close, Mark, Persist

\* The tables, the stored anchor and the process hold what their types say, in
\* particular every row, snapshot and mark is at a window boundary.
THEOREM TypeCorrect == Spec => []TypeOK
  BY TypeInit, TypeNext, PTL DEF Spec

-----------------------------------------------------------------------------
(* Rows and snapshots. *)

\* The faults only ever accumulate.
LEMMA FaultsGrow == [Next]_vars => faults \subseteq faults'
  <1> SUFFICES ASSUME [Next]_vars PROVE faults \subseteq faults'
    OBVIOUS
  <1>1. CASE Environment
    BY <1>1 DEF Environment, Elapse, ClockStep, MeterReplaced, Deploy, Crash
  <1>2. CASE Progress
    BY <1>2 DEF Progress, Boot, Recompute, Load, Close, Mark, Persist, BootFails, BootOk,
                RecomputeRow, LoadPersistedReading, CloseBare, CloseWindow, CloseDuplicate,
                CloseRepair, CloseFails, MarkWindow, Telemetry, PersistKey
  <1>3. CASE Start \/ Poll \/ PollNothing \/ UNCHANGED vars
    BY <1>3 DEF Start, Poll, PollFirst, PollCrossing, Judge, PollNothing, vars
  <1> QED BY <1>1, <1>2, <1>3 DEF Next

\* The steps that write neither of the two tables.
LEMMA TablesKept ==
  ASSUME [Next]_vars, ~Recompute, ~CloseBare, ~CloseWindow, ~CloseRepair
  PROVE  energyWindow' = energyWindow /\ boundarySnapshot' = boundarySnapshot
  <1> USE DEF history
  <1>1. CASE Environment
    BY <1>1 DEF Environment, Elapse, ClockStep, MeterReplaced, Deploy, Crash
  <1>2. CASE Progress
    BY <1>2 DEF Progress, Boot, Load, Close, Mark, Persist, BootFails, BootOk,
                LoadPersistedReading, CloseDuplicate, CloseFails, MarkWindow,
                Telemetry, PersistKey
  <1>3. CASE Start \/ Poll \/ PollNothing \/ UNCHANGED vars
    BY <1>3 DEF Start, Poll, PollFirst, PollCrossing, Judge, PollNothing, vars
  <1> QED BY <1>1, <1>2, <1>3 DEF Next

LEMMA AgreeInit == Init => RowsAndSnapshotsAgree
  <1> SUFFICES ASSUME NEW u \in Orphans, InitFrom(u), "orphan" \notin faults
               PROVE  Captured = {} /\ Stored = {}
    BY DEF Init, RowsAndSnapshotsAgree
  <1>1. u = None
    BY DEF InitFrom
  <1>2. \A w \in Windows : boundarySnapshot[w] = None /\ energyWindow[w] = None
    BY <1>1, NoneIsNothing DEF InitFrom
  <1> QED BY <1>2 DEF Captured, Stored

LEMMA AgreeNext ==
  TypeOK /\ RowsAndSnapshotsAgree /\ [Next]_vars => RowsAndSnapshotsAgree'
  <1> SUFFICES ASSUME TypeOK, RowsAndSnapshotsAgree, [Next]_vars, "orphan" \notin faults'
               PROVE  /\ Captured' \subseteq Stored'
                      /\ \A w \in Stored' : energyWindow'[w].version > 0 =>
                           w \in Captured' /\ energyWindow'[w].hi = boundarySnapshot'[w]
    BY DEF RowsAndSnapshotsAgree
  <1>a. /\ Captured \subseteq Stored
        /\ \A w \in Stored : energyWindow[w].version > 0 =>
             w \in Captured /\ energyWindow[w].hi = boundarySnapshot[w]
    BY FaultsGrow DEF RowsAndSnapshotsAgree
  <1>b. None \notin Stamped /\ None \notin Row
    BY NoneIsNothing
  <1>c. energyWindow \in [Windows -> Row \cup {None}] /\ boundarySnapshot \in [Windows -> Stamped \cup {None}]
    BY DEF TypeOK
  <1>1. ASSUME NEW w \in stale, NEW ok \in BOOLEAN, RecomputeRow(w, ok)
        PROVE  /\ Captured' \subseteq Stored'
               /\ \A v \in Stored' : energyWindow'[v].version > 0 =>
                    v \in Captured' /\ energyWindow'[v].hi = boundarySnapshot'[v]
    <2>1. boundarySnapshot' = boundarySnapshot
      BY <1>1 DEF RecomputeRow
    <2>2. CASE ok /\ HasPair(w)
      <3>1. w \in Windows /\ w \in Captured
        BY <2>2 DEF HasPair, Captured
      <3>2. energyWindow' = [energyWindow EXCEPT ![w] = Recomputed(w)]
        BY <1>1, <2>2 DEF RecomputeRow
      <3>3. Recomputed(w).hi = boundarySnapshot[w] /\ Recomputed(w) /= None
        <4>1. Recomputed(w) \in Row
          BY <2>2, <1>c DEF Recomputed, HasPair, Captured, Row, Versions, TypeOK
        <4> QED BY <4>1, <1>b DEF Recomputed
      <3> QED BY <1>a, <1>c, <2>1, <3>1, <3>2, <3>3 DEF Captured, Stored
    <2>3. CASE ~(ok /\ HasPair(w))
      BY <1>1, <1>a, <2>3 DEF RecomputeRow, Captured, Stored
    <2> QED BY <2>2, <2>3
  <1>2. ASSUME CloseBare \/ CloseWindow \/ CloseRepair
        PROVE  /\ Captured' \subseteq Stored'
               /\ \A v \in Stored' : energyWindow'[v].version > 0 =>
                    v \in Captured' /\ energyWindow'[v].hi = boundarySnapshot'[v]
    <2> DEFINE W == ClosedWindow
    <2>1. last /= None /\ curr /= None /\ curr \in Stamped /\ W \in Windows
      BY <1>2, ClosedWindowType DEF CloseBare, CloseWindow, CloseRepair, TypeOK, InCrossing
    <2>2. ClosedRow(0) \in Row /\ ClosedRow(build) \in Row
      <3>1. 0 \in 0 .. MaxVersion /\ build \in 0 .. MaxVersion
        BY BoundsAssumption DEF TypeOK, Versions
      <3> QED BY <2>1, <3>1, ClosedRowType
    <2>3. CASE CloseBare
      <3>1. energyWindow' = InsertOrIgnore(energyWindow, W, ClosedRow(0))
            /\ boundarySnapshot' = boundarySnapshot
        BY <2>3 DEF CloseBare
      <3>2. ClosedRow(0).version = 0
        BY DEF ClosedRow
      <3> QED BY <1>a, <1>b, <1>c, <2>1, <2>2, <3>1, <3>2 DEF InsertOrIgnore, Captured, Stored
    <2>4. CASE CloseWindow
      <3>1. /\ boundarySnapshot[W] = None
            /\ boundarySnapshot' = [boundarySnapshot EXCEPT ![W] = curr]
            /\ energyWindow' = InsertOrIgnore(energyWindow, W, ClosedRow(build))
        BY <2>4 DEF CloseWindow
      <3>2. ClosedRow(build).hi = curr
        BY DEF ClosedRow
      <3> QED BY <1>a, <1>b, <1>c, <2>1, <2>2, <3>1, <3>2 DEF InsertOrIgnore, Captured, Stored
    <2>5. CASE CloseRepair
      BY <1>a, <2>1, <2>5 DEF CloseRepair, Captured, Stored
    <2> QED BY <1>2, <2>3, <2>4, <2>5
  <1>3. ASSUME ~Recompute, ~CloseBare, ~CloseWindow, ~CloseRepair
        PROVE  /\ Captured' \subseteq Stored'
               /\ \A v \in Stored' : energyWindow'[v].version > 0 =>
                    v \in Captured' /\ energyWindow'[v].hi = boundarySnapshot'[v]
    BY <1>3, <1>a, TablesKept DEF Captured, Stored
  <1> QED BY <1>1, <1>2, <1>3 DEF Recompute

\* The repair path is never needed on a database this collector alone has
\* written, and a recomputable row always ends with its window's snapshot.
THEOREM TablesAgree == Spec => []RowsAndSnapshotsAgree
  BY TypeInit, TypeNext, AgreeInit, AgreeNext, PTL DEF Spec

-----------------------------------------------------------------------------
(* The history is append-only. *)

LEMMA WorklistNext ==
  TypeOK /\ WorklistIsStale /\ [Next]_vars => WorklistIsStale'
  <1> SUFFICES ASSUME TypeOK, WorklistIsStale, [Next]_vars PROVE WorklistIsStale'
    OBVIOUS
  <1> USE DEF WorklistIsStale, StaleRows, IsStale, Stored, environment, history, config, process
  <1>1. CASE Environment
    BY <1>1 DEF Environment, Elapse, ClockStep, MeterReplaced, Deploy, Crash, ProcessEnds
  <1>2. CASE Boot
    BY <1>2 DEF Boot, BootFails, BootOk, ProcessEnds
  <1>3. ASSUME NEW w \in stale, NEW ok \in BOOLEAN, RecomputeRow(w, ok) PROVE WorklistIsStale'
    <2>1. \A v \in Windows \ {w} : energyWindow'[v] = energyWindow[v]
      BY <1>3 DEF RecomputeRow, TypeOK
    <2> QED BY <1>3, <2>1 DEF RecomputeRow, Remaining
  <1>4. CASE Load
    BY <1>4 DEF Load, LoadPersistedReading
  <1>5. CASE Close \/ Mark \/ Telemetry \/ Persist
    <2>1. stale = {} /\ stale' = {}
      BY <1>5 DEF Close, CloseBare, CloseWindow, CloseDuplicate, CloseRepair, CloseFails,
                  Mark, MarkWindow, Telemetry, Persist, PersistKey
    <2> QED BY <2>1
  <1>6. CASE Start \/ Poll \/ PollNothing \/ UNCHANGED vars
    BY <1>6 DEF Start, Poll, PollFirst, PollCrossing, Judge, PollNothing, vars
  <1> QED BY <1>1, <1>2, <1>3, <1>4, <1>5, <1>6 DEF Next, Progress, Recompute

AppendOnlyStep ==
  \A w \in Windows :
    /\ w \in Captured => boundarySnapshot'[w] = boundarySnapshot[w]
    /\ w \in Stored /\ energyWindow'[w] /= energyWindow[w] =>
         /\ pc = "recompute"
         /\ energyWindow'[w] /= None
         /\ 0 < energyWindow[w].version
         /\ energyWindow[w].version < energyWindow'[w].version

LEMMA AppendOnlyNext == TypeOK /\ WorklistIsStale /\ [Next]_vars => AppendOnlyStep
  <1> SUFFICES ASSUME TypeOK, WorklistIsStale, [Next]_vars PROVE AppendOnlyStep
    OBVIOUS
  <1>1. ASSUME NEW w \in stale, NEW ok \in BOOLEAN, RecomputeRow(w, ok) PROVE AppendOnlyStep
    <2>1. \A v \in Windows \ {w} : energyWindow'[v] = energyWindow[v]
      BY <1>1 DEF RecomputeRow, TypeOK
    <2>2. boundarySnapshot' = boundarySnapshot /\ pc = "recompute"
      BY <1>1 DEF RecomputeRow
    <2>3. CASE ok /\ HasPair(w)
      <3>1. w \in Stored /\ IsStale(w)
        BY DEF WorklistIsStale, StaleRows
      <3>2. energyWindow'[w] = Recomputed(w) /\ Recomputed(w).version = build
        BY <1>1, <2>3, <3>1 DEF RecomputeRow, Recomputed, Stored, TypeOK
      <3>3. Recomputed(w) /= None
        <4>1. Recomputed(w) \in Row
          BY <2>3 DEF Recomputed, HasPair, Captured, Row, Versions, TypeOK
        <4> QED BY <4>1, NoneIsNothing
      <3> QED BY <2>1, <2>2, <3>1, <3>2, <3>3 DEF AppendOnlyStep, IsStale
    <2>4. CASE ~(ok /\ HasPair(w))
      BY <1>1, <2>4 DEF RecomputeRow, AppendOnlyStep
    <2> QED BY <2>3, <2>4
  <1>2. ASSUME CloseBare \/ CloseWindow \/ CloseRepair PROVE AppendOnlyStep
    <2>1. ClosedWindow \in Windows
      BY <1>2, ClosedWindowType DEF CloseBare, CloseWindow, CloseRepair, TypeOK, InCrossing
    <2>2. \A w \in Captured : boundarySnapshot'[w] = boundarySnapshot[w]
      BY <1>2, <2>1 DEF CloseBare, CloseWindow, CloseRepair, Captured, TypeOK
    <2>3. \A w \in Stored : energyWindow'[w] = energyWindow[w]
      BY <1>2, <2>1 DEF CloseBare, CloseWindow, CloseRepair, InsertOrIgnore, Stored, TypeOK
    <2> QED BY <2>2, <2>3 DEF AppendOnlyStep
  <1>3. ASSUME ~Recompute, ~CloseBare, ~CloseWindow, ~CloseRepair PROVE AppendOnlyStep
    BY <1>3, TablesKept DEF AppendOnlyStep
  <1> QED BY <1>1, <1>2, <1>3 DEF Recompute

\* No row disappears, version 0 is permanent, a row changes only at startup and
\* only to a newer version, and a snapshot never changes: for readers that keep
\* copies, and for any sequence of builds installed and rolled back.
THEOREM HistoryIsAppendOnly == Spec => HistoryAppendOnly
  <1>1. Init => WorklistIsStale
    BY DEF Init, InitFrom, WorklistIsStale
  <1>2. TypeOK /\ WorklistIsStale /\ [Next]_vars =>
          [ \A w \in Windows :
              /\ w \in Captured => boundarySnapshot'[w] = boundarySnapshot[w]
              /\ w \in Stored /\ energyWindow'[w] /= energyWindow[w] =>
                   /\ pc = "recompute"
                   /\ energyWindow'[w] /= None
                   /\ 0 < energyWindow[w].version
                   /\ energyWindow[w].version < energyWindow'[w].version ]_vars
    BY AppendOnlyNext DEF AppendOnlyStep
  <1> QED
    BY <1>1, <1>2, TypeInit, TypeNext, WorklistNext, PTL DEF Spec, HistoryAppendOnly

-----------------------------------------------------------------------------
(* The ledger stays ordered. *)

LEMMA WindowsAreNat == Windows \subseteq Nat
  <1> SUFFICES ASSUME NEW w \in Windows PROVE w \in Nat
    OBVIOUS
  <1>1. PICK t \in Time : w = (t \div WindowSecs) * WindowSecs
    BY DEF Windows, WindowBoundary
  <1>2. t \in Nat /\ WindowSecs \in Nat /\ WindowSecs > 0
    BY TimeIsNat, WindowSecsAssumption
  <1>3. t \div WindowSecs \in Nat
    BY <1>2
  <1> QED BY <1>1, <1>2, <1>3

\* Between two windows there is room for the window before the later one.
LEMMA WindowsApart == \A v, w \in Windows : v < w => v <= PreviousWindow(w)
  <1> SUFFICES ASSUME NEW v \in Windows, NEW w \in Windows, v < w
               PROVE  v <= w - WindowSecs
    BY DEF PreviousWindow
  <1>1. PICK s \in Time : v = (s \div WindowSecs) * WindowSecs
    BY DEF Windows, WindowBoundary
  <1>2. PICK t \in Time : w = (t \div WindowSecs) * WindowSecs
    BY DEF Windows, WindowBoundary
  <1> DEFINE i == s \div WindowSecs
             j == t \div WindowSecs
  <1>3. i \in Int /\ j \in Int /\ WindowSecs \in Nat /\ WindowSecs > 0
    BY TimeIsNat, WindowSecsAssumption
  <1>4. i * WindowSecs < j * WindowSecs
    BY <1>1, <1>2
  <1> HIDE DEF i, j
  <1>5. i < j
    <2> SUFFICES ASSUME j <= i PROVE FALSE
      BY <1>3
    <2>1. (i - j) * WindowSecs >= 0
      BY <1>3
    <2>2. (i - j) * WindowSecs = i * WindowSecs - j * WindowSecs
      BY <1>3
    <2> QED BY <1>3, <1>4, <2>1, <2>2
  <1>6. (j - i - 1) * WindowSecs >= 0
    BY <1>3, <1>5
  <1>7. (j - i - 1) * WindowSecs = j * WindowSecs - i * WindowSecs - WindowSecs
    BY <1>3
  <1>8. i * WindowSecs + WindowSecs <= j * WindowSecs
    BY <1>3, <1>6, <1>7
  <1> QED BY <1>1, <1>2, <1>3, <1>8 DEF i, j

Measure == Reading \cup Counters

LEMMA LeqTransitive ==
  \A a, b, c \in Measure : Leq(a, b) /\ Leq(b, c) => Leq(a, c)
  <1> SUFFICES ASSUME NEW a \in Measure, NEW b \in Measure, NEW c \in Measure,
                      Leq(a, b), Leq(b, c), NEW x \in Counter
               PROVE  a[x] <= c[x]
    BY DEF Leq
  <1>1. a[x] \in Nat /\ b[x] \in Nat /\ c[x] \in Nat
    BY DEF Measure
  <1> QED BY <1>1 DEF Leq

LEMMA LeqReflexive == \A a \in Measure : Leq(a, a)
  <1> SUFFICES ASSUME NEW a \in Measure, NEW x \in Counter PROVE a[x] <= a[x]
    BY DEF Leq
  <1>1. a[x] \in Nat
    BY DEF Measure
  <1> QED BY <1>1

\* What TypeOK says of the readings in the state, for use with Leq.
LEMMA Measures ==
  ASSUME TypeOK
  PROVE  /\ \A w \in Stored : /\ energyWindow[w] \in Row
                              /\ energyWindow[w].lo \in Measure
                              /\ energyWindow[w].hi \in Measure
         /\ \A w \in Captured : boundarySnapshot[w] \in Measure
         /\ last /= None => last \in Measure /\ last \in Stamped
         /\ curr /= None => curr \in Measure /\ curr \in Stamped
         /\ meter \in Measure
         /\ \A w \in Stored : w \in Windows
         /\ \A w \in Captured : w \in Windows
  BY DEF TypeOK, Stored, Captured, Row, Stamped, Measure

\* Steps that move pc and nothing the ledger depends on.
LEMMA LedgerPcOnly ==
  ASSUME LedgerParts, UNCHANGED << meter, history, store, last, curr, saved >>,
         pc' \in {"down", "boot", "recompute"} => pc \in {"down", "boot", "recompute"},
         pc' = "idle" => pc = "idle",
         pc' /= "persist" => pc /= "persist",
         InCrossing' => InCrossing
  PROVE  LedgerParts'
  <1> USE DEF LedgerParts, history, Stored, Captured
  <1>1. RowsOrdered' /\ SnapshotsBetweenRows'
    BY DEF RowsOrdered, SnapshotsBetweenRows
  <1>2. NothingAboveMeter'
    BY DEF NothingAboveMeter, StoreComplete
  <1>3. AnchorsMayOpen'
    BY DEF AnchorsMayOpen, StoreComplete, StoreEmpty, MayOpen, Fresh
  <1>4. CrossingAhead'
    BY DEF CrossingAhead
  <1> QED BY <1>1, <1>2, <1>3, <1>4

\* The process ends, in a crossing before or after the four writes.
LEMMA LedgerProcessEnds ==
  ASSUME TypeOK, LedgerParts, ProcessEnds, saved = {}, UNCHANGED << meter, history, store >>
  PROVE  LedgerParts'
  <1> USE DEF LedgerParts, history, ProcessEnds, Stored, Captured
  <1>1. RowsOrdered' /\ SnapshotsBetweenRows'
    BY DEF RowsOrdered, SnapshotsBetweenRows
  <1>2. NothingAboveMeter'
    BY DEF NothingAboveMeter, StoreComplete
  <1>3. AnchorsMayOpen'
    <2>1. StoreComplete => MayOpen(store)
      <3>1. CASE last = None
        BY <3>1 DEF AnchorsMayOpen
      <3>2. CASE last /= None /\ store = last
        BY <3>2 DEF AnchorsMayOpen
      <3>3. CASE StoreEmpty
        BY <3>3 DEF StoreEmpty, StoreComplete
      <3> QED BY <3>1, <3>2, <3>3 DEF AnchorsMayOpen
    <2> QED BY <2>1 DEF AnchorsMayOpen, StoreComplete, StoreEmpty, MayOpen
  <1>4. CrossingAhead'
    BY DEF CrossingAhead, InCrossing
  <1> QED BY <1>1, <1>2, <1>3, <1>4

\* A row recomputed from its pair of snapshots stays between its neighbours.
LEMMA LedgerRecompute ==
  ASSUME TypeOK, RowsAndSnapshotsAgree, WorklistIsStale, Intact, LedgerParts,
         NEW w \in stale, NEW ok \in BOOLEAN, RecomputeRow(w, ok)
  PROVE  /\ LedgerParts'
         /\ \A v \in Stored : /\ energyWindow'[v].hi = energyWindow[v].hi
                              /\ Leq(energyWindow'[v].lo, energyWindow[v].lo)
  <1> USE DEF history, config, environment
  <1>1. /\ boundarySnapshot' = boundarySnapshot /\ meter' = meter /\ store' = store
        /\ UNCHANGED << pc, last, curr, saved >>
    BY DEF RecomputeRow
  <1>2. CASE ~(ok /\ HasPair(w))
    <2>1. energyWindow' = energyWindow
      BY <1>2 DEF RecomputeRow
    <2>2. LedgerParts'
      BY <1>1, <2>1, LedgerPcOnly DEF InCrossing
    <2>3. \A v \in Stored : Leq(energyWindow[v].lo, energyWindow[v].lo)
      BY Measures, LeqReflexive
    <2> QED BY <2>1, <2>2, <2>3
  <1>3. CASE ok /\ HasPair(w)
    <2> DEFINE u == PreviousWindow(w)
               lo == boundarySnapshot[u]
               hi == boundarySnapshot[w]
    <2>1. /\ w \in Stored /\ w \in Captured /\ u \in Captured
          /\ energyWindow[w].version > 0
      BY <1>3 DEF WorklistIsStale, StaleRows, IsStale, HasPair
    <2>2. w \in Nat /\ u < w
      BY <2>1, WindowsAreNat, WindowSecsAssumption DEF PreviousWindow, Captured
    <2>3. energyWindow[w].hi = hi
      BY <2>1 DEF RowsAndSnapshotsAgree, Intact
    <2>4. energyWindow' = [energyWindow EXCEPT ![w] = Recomputed(w)]
      BY <1>3 DEF RecomputeRow
    <2>5. Recomputed(w).lo = lo /\ Recomputed(w).hi = hi /\ Recomputed(w) /= None
      <3>1. Recomputed(w) \in Row
        BY <1>3 DEF Recomputed, HasPair, Captured, Row, Versions, TypeOK
      <3> QED BY <3>1, NoneIsNothing DEF Recomputed
    <2>6. Stored' = Stored /\ Captured' = Captured
      BY <1>1, <2>1, <2>4, <2>5 DEF Stored, Captured, TypeOK
    <2>7. /\ \A v \in Stored : energyWindow'[v].hi = energyWindow[v].hi
          /\ \A v \in Stored \ {w} : energyWindow'[v].lo = energyWindow[v].lo
          /\ energyWindow'[w].lo = lo
      BY <2>1, <2>3, <2>4, <2>5 DEF Stored, TypeOK
    <2>8. Leq(lo, energyWindow[w].lo)
      BY <2>1, <2>2 DEF LedgerParts, SnapshotsBetweenRows
    <2>9. \A v \in Stored : Leq(energyWindow'[v].lo, energyWindow[v].lo)
      BY <2>7, <2>8, Measures, LeqReflexive
    <2>10. \A v \in Windows : v < w => v <= u
      BY <2>1, WindowsApart DEF Captured
    <2>11. RowsOrdered'
      <3>1. Leq(lo, hi)
        BY <2>1, <2>2 DEF LedgerParts, SnapshotsBetweenRows
      <3>2. \A v \in Stored : v < w => Leq(energyWindow[v].hi, lo)
        BY <2>1, <2>10, Measures DEF LedgerParts, SnapshotsBetweenRows
      <3> QED BY <2>1, <2>3, <2>6, <2>7, <3>1, <3>2 DEF LedgerParts, RowsOrdered
    <2>12. SnapshotsBetweenRows'
      <3>1. \A v \in Captured : v < w => Leq(boundarySnapshot[v], lo)
        <4>1. \A v \in Captured : v < w => v < u \/ v = u
          BY <2>2, <2>10, WindowsAreNat, WindowSecsAssumption DEF PreviousWindow, Captured
        <4> QED BY <2>1, <4>1, Measures, LeqReflexive DEF LedgerParts, SnapshotsBetweenRows
      <3> QED BY <1>1, <2>1, <2>6, <2>7, <3>1 DEF LedgerParts, SnapshotsBetweenRows
    <2>13. NothingAboveMeter'
      BY <1>1, <2>6, <2>7 DEF LedgerParts, NothingAboveMeter, StoreComplete
    <2>14. AnchorsMayOpen'
      BY <1>1, <2>6, <2>7
      DEF LedgerParts, AnchorsMayOpen, StoreComplete, StoreEmpty, MayOpen, Fresh
    <2>15. CrossingAhead'
      BY <1>1, <2>6, <2>7 DEF LedgerParts, CrossingAhead, InCrossing
    <2> QED BY <2>7, <2>9, <2>11, <2>12, <2>13, <2>14, <2>15 DEF LedgerParts
  <1> QED BY <1>2, <1>3

\* The anchor read back at startup, or the first reading of a fresh database.
LEMMA LedgerAnchor ==
  ASSUME TypeOK, RowsAndSnapshotsAgree, LedgerParts, Intact, Intact',
         Load \/ PollFirst(CurrentReading)
  PROVE  LedgerParts'
  <1> USE DEF history, config, environment
  <1>1. /\ UNCHANGED << energyWindow, boundarySnapshot, meter, store, curr, saved >>
        /\ pc' = "idle" /\ Stored' = Stored /\ Captured' = Captured
        /\ pc \in {"idle", "recompute"} /\ saved = {}
    BY DEF Load, LoadPersistedReading, PollFirst, Stored, Captured, Intact, LedgerParts,
           AnchorsMayOpen
  <1>2. RowsOrdered' /\ SnapshotsBetweenRows'
    BY <1>1 DEF LedgerParts, RowsOrdered, SnapshotsBetweenRows
  <1>3. CrossingAhead'
    BY <1>1 DEF CrossingAhead, InCrossing
  <1>4. CASE last' = None
    <2>1. StoreComplete => store /= None
      <3>1. StoreComplete => store \in Stamped
        BY DEF StoreComplete, TypeOK, Stamped
      <3> QED BY <3>1, NoneIsNothing
    <2>2. Fresh
      BY <1>1, <1>4, <2>1, CurrentReadingType, NoneIsNothing
      DEF Load, LoadPersistedReading, PollFirst, Intact, StoreComplete
    <2> QED
      BY <1>1, <1>2, <1>3, <1>4, <2>2
      DEF LedgerParts, NothingAboveMeter, AnchorsMayOpen, StoreComplete, StoreEmpty, MayOpen, Fresh
  <1>5. CASE Load /\ last' /= None
    <2>1. last' = store /\ StoreComplete /\ last = None
      BY <1>1, <1>5 DEF Load, LoadPersistedReading, StoreComplete, LedgerParts, AnchorsMayOpen
    <2>2. MayOpen(store)'
      BY <1>1, <2>1 DEF LedgerParts, AnchorsMayOpen, MayOpen
    <2> QED
      BY <1>1, <1>2, <1>3, <1>5, <2>1, <2>2
      DEF LedgerParts, NothingAboveMeter, AnchorsMayOpen, StoreComplete, StoreEmpty, MayOpen
  <1>6. CASE PollFirst(CurrentReading)
    <2>1. last' = CurrentReading /\ Fresh
      BY <1>6 DEF PollFirst, LedgerParts, AnchorsMayOpen
    <2>2. Stored = {} /\ Captured = {} /\ StoreEmpty
      BY <1>1, <2>1 DEF Fresh, RowsAndSnapshotsAgree, Intact, StoreEmpty
    <2>3. Leq(CurrentReading, meter)
      <3>1. \A c \in Counter : CurrentReading[c] = meter[c] /\ meter[c] \in Nat
        BY DEF CurrentReading, ReadingAt, TypeOK
      <3> QED BY <3>1 DEF Leq
    <2>4. CurrentReading /= None
      BY CurrentReadingType, NoneIsNothing
    <2> QED
      BY <1>1, <1>2, <1>3, <2>1, <2>2, <2>3, <2>4
      DEF LedgerParts, NothingAboveMeter, AnchorsMayOpen, StoreComplete, StoreEmpty, MayOpen
  <1> QED BY <1>4, <1>5, <1>6 DEF Load

\* A reading that begins a crossing is at or above everything read before it.
LEMMA LedgerPollCrossing ==
  ASSUME TypeOK, LedgerParts, PollCrossing(CurrentReading)
  PROVE  LedgerParts'
  <1> USE DEF history, config, environment
  <1>1. /\ UNCHANGED << energyWindow, boundarySnapshot, meter, store, last, saved >>
        /\ pc = "idle" /\ pc' = "window" /\ curr' = CurrentReading /\ last /= None
        /\ WindowBoundary(clock) > WindowBoundary(last.ts)
    BY DEF PollCrossing, CrossesBoundary
  <1>2. CurrentReading \in Stamped /\ CurrentReading.ts = clock
    BY CurrentReadingType DEF CurrentReading, ReadingAt
  <1>3. \A a : Leq(a, meter) <=> Leq(a, CurrentReading)
    BY DEF Leq, CurrentReading, ReadingAt
  <1>4. Leq(CurrentReading, meter)
    BY <1>2, <1>3, LeqReflexive DEF Measure, Stamped
  <1>5. RowsOrdered' /\ SnapshotsBetweenRows'
    BY <1>1 DEF LedgerParts, RowsOrdered, SnapshotsBetweenRows, Stored, Captured
  <1>6. NothingAboveMeter'
    BY <1>1, <1>4 DEF LedgerParts, NothingAboveMeter, StoreComplete, Stored, Captured
  <1>7. AnchorsMayOpen'
    BY <1>1 DEF LedgerParts, AnchorsMayOpen, StoreComplete, StoreEmpty, MayOpen, Stored, Captured
  <1>8. CrossingAhead'
    <2>1. WindowBoundary(last.ts) < WindowBoundary(CurrentReading.ts)
      <3>1. WindowBoundary(clock) \in Nat /\ WindowBoundary(last.ts) \in Nat
        BY <1>1, BoundaryIsWindow, WindowsAreNat DEF TypeOK, Stamped
      <3> QED BY <1>1, <1>2, <3>1
    <2> QED
      BY <1>1, <1>3, <2>1 DEF LedgerParts, NothingAboveMeter, CrossingAhead, Stored, Captured
  <1> QED BY <1>5, <1>6, <1>7, <1>8 DEF LedgerParts

\* The row, and in the transaction the snapshot, of the window a crossing
\* closes come after everything stored for the windows before.
LEMMA LedgerClose ==
  ASSUME TypeOK, RowsAndSnapshotsAgree, LedgerParts, Intact, CloseBare \/ CloseWindow
  PROVE  LedgerParts'
  <1> USE DEF history, config, environment
  <1> DEFINE W == ClosedWindow
  <1>1. /\ UNCHANGED << meter, store, last, curr, saved >>
        /\ pc = "window" /\ pc' = "mark"
    BY DEF CloseBare, CloseWindow
  <1>2. /\ last /= None /\ curr /= None /\ W \in Windows /\ W = WindowBoundary(last.ts)
        /\ last \in Measure /\ curr \in Measure /\ curr \in Stamped
    BY <1>1, ClosedWindowType, Measures DEF TypeOK, InCrossing, ClosedWindow
  <1>3. /\ MayOpen(last) /\ Leq(last, curr)
        /\ \A w \in Stored : Leq(energyWindow[w].hi, curr)
        /\ \A w \in Captured : Leq(boundarySnapshot[w], curr)
    BY <1>1, <1>2 DEF LedgerParts, AnchorsMayOpen, CrossingAhead, InCrossing
  <1>4. PICK r \in Row : /\ r.lo = last /\ r.hi = curr
                         /\ energyWindow' = InsertOrIgnore(energyWindow, W, r)
    <2>1. 0 \in 0 .. MaxVersion /\ build \in 0 .. MaxVersion
      BY BoundsAssumption DEF TypeOK, Versions
    <2>2. ClosedRow(0) \in Row /\ ClosedRow(build) \in Row
      BY <1>2, <2>1, ClosedRowType
    <2>3. \A v : ClosedRow(v).lo = last /\ ClosedRow(v).hi = curr
      BY DEF ClosedRow
    <2> QED BY <2>2, <2>3 DEF CloseBare, CloseWindow
  <1>5. /\ Stored' = Stored \cup {W}
        /\ \A w \in Stored : energyWindow'[w] = energyWindow[w]
        /\ W \notin Stored => energyWindow'[W] = r
    BY <1>2, <1>4, NoneIsNothing DEF InsertOrIgnore, Stored, TypeOK
  <1>6. /\ Captured' \subseteq Captured \cup {W}
        /\ \A w \in Captured : w \in Captured' /\ boundarySnapshot'[w] = boundarySnapshot[w]
        /\ W \in Captured' /\ W \notin Captured => boundarySnapshot'[W] = curr
    BY <1>2, NoneIsNothing DEF CloseBare, CloseWindow, Captured, TypeOK
  <1>7. Captured \subseteq Stored /\ \A w \in Stored : w <= W
    BY <1>2, <1>3 DEF RowsAndSnapshotsAgree, Intact, MayOpen
  <1>8. /\ \A w \in Stored : w < W => Leq(energyWindow[w].hi, last)
        /\ \A w \in Captured : w < W => Leq(boundarySnapshot[w], last)
    BY <1>2, <1>3 DEF MayOpen
  <1>9. W \in Nat /\ \A w \in Stored \cup Captured : w \in Nat
    BY <1>2, WindowsAreNat, Measures
  <1>10. RowsOrdered'
    BY <1>3, <1>4, <1>5, <1>7, <1>8, <1>9 DEF LedgerParts, RowsOrdered
  <1>11. SnapshotsBetweenRows'
    <2>1. \A v, w \in Captured' : v < w => Leq(boundarySnapshot'[v], boundarySnapshot'[w])
      BY <1>3, <1>6, <1>7, <1>9 DEF LedgerParts, SnapshotsBetweenRows
    <2>2. \A v \in Captured', w \in Stored' :
            v < w => Leq(boundarySnapshot'[v], energyWindow'[w].lo)
      BY <1>4, <1>5, <1>6, <1>7, <1>8, <1>9 DEF LedgerParts, SnapshotsBetweenRows
    <2>3. Leq(curr, curr)
      BY <1>2, LeqReflexive
    <2>4. \A v \in Stored', w \in Captured' :
            v <= w => Leq(energyWindow'[v].hi, boundarySnapshot'[w])
      BY <1>3, <1>4, <1>5, <1>6, <1>7, <1>9, <2>3 DEF LedgerParts, SnapshotsBetweenRows
    <2> QED BY <2>1, <2>2, <2>4 DEF SnapshotsBetweenRows
  <1>12. NothingAboveMeter'
    BY <1>1, <1>2, <1>4, <1>5, <1>6 DEF LedgerParts, NothingAboveMeter, StoreComplete
  <1>13. AnchorsMayOpen'
    <2>1. MayOpen(last)'
      BY <1>1, <1>2, <1>5, <1>6, <1>7, <1>8, <1>9 DEF MayOpen
    <2> QED
      BY <1>1, <1>2, <2>1 DEF LedgerParts, AnchorsMayOpen, StoreComplete, StoreEmpty
  <1>14. CrossingAhead'
    <2>1. Leq(curr, curr)
      BY <1>2, LeqReflexive
    <2> QED
      BY <1>1, <1>3, <1>4, <1>5, <1>6, <2>1 DEF LedgerParts, CrossingAhead, InCrossing
  <1> QED BY <1>10, <1>11, <1>12, <1>13, <1>14 DEF LedgerParts

\* The four writes replace the stored anchor by the crossing's reading, and
\* when the last is done both anchors are that reading.
LEMMA LedgerPersist ==
  ASSUME TypeOK, LedgerParts, Intact', NEW x \in Key, NEW ok \in BOOLEAN, PersistKey(x, ok)
  PROVE  LedgerParts'
  <1> USE DEF history, config, environment
  <1>1. /\ UNCHANGED << energyWindow, boundarySnapshot, meter >>
        /\ pc = "persist" /\ NextKey(x) /\ ok
        /\ Stored' = Stored /\ Captured' = Captured
    BY DEF PersistKey, Intact, Stored, Captured
  <1>2. store' = [store EXCEPT ![x] = curr[x]]
    BY <1>1 DEF PersistKey
  <1>3. /\ last /= None /\ curr /= None /\ curr \in Stamped /\ last \in Stamped
    BY <1>1 DEF TypeOK, InCrossing
  <1>4. RowsOrdered' /\ SnapshotsBetweenRows'
    BY <1>1 DEF LedgerParts, RowsOrdered, SnapshotsBetweenRows
  <1>5. CASE x /= "exp"
    <2>1. UNCHANGED << pc, last, curr >> /\ saved' = saved \cup {x}
      BY <1>5 DEF PersistKey
    <2>2. NothingAboveMeter'
      BY <1>1, <2>1 DEF LedgerParts, NothingAboveMeter
    <2>3. AnchorsMayOpen'
      <3>1. \A y \in saved' : store'[y] = curr[y]
        BY <1>2, <2>1 DEF LedgerParts, AnchorsMayOpen, TypeOK
      <3> QED
        BY <1>1, <1>3, <2>1, <3>1 DEF LedgerParts, AnchorsMayOpen, MayOpen
    <2>4. CrossingAhead'
      BY <1>1, <2>1 DEF LedgerParts, CrossingAhead, InCrossing
    <2> QED BY <1>4, <2>2, <2>3, <2>4 DEF LedgerParts
  <1>6. CASE x = "exp"
    <2>1. pc' = "idle" /\ last' = curr /\ curr' = None /\ saved' = {}
      BY <1>6 DEF PersistKey
    <2>2. saved = {"ts", "prod", "imp"}
      BY <1>1, <1>6 DEF NextKey
    <2>3. store' = curr
      <3>1. store' \in [Key -> Nat \cup {None}] /\ curr \in [Key -> Nat \cup {None}]
        BY <1>2, <1>3 DEF TypeOK, Stamped
      <3>2. \A y \in Key : store'[y] = curr[y]
        BY <1>2, <1>6, <2>2 DEF LedgerParts, AnchorsMayOpen, TypeOK
      <3> QED BY <3>1, <3>2
    <2>4. NothingAboveMeter'
      BY <1>1, <1>3, <2>1, <2>3 DEF LedgerParts, NothingAboveMeter
    <2>5. MayOpen(curr)
      <3>1. WindowBoundary(last.ts) \in Nat /\ WindowBoundary(curr.ts) \in Nat
        BY <1>3, BoundaryIsWindow, WindowsAreNat DEF Stamped
      <3>2. \A w \in Stored : w \in Nat
        BY WindowsAreNat, Measures
      <3> QED
        BY <1>1, <1>3, <3>1, <3>2
        DEF LedgerParts, AnchorsMayOpen, CrossingAhead, InCrossing, MayOpen
    <2>6. AnchorsMayOpen'
      <3>1. MayOpen(last)'
        BY <1>1, <2>1, <2>5 DEF MayOpen
      <3>2. StoreComplete'
        BY <1>3, <2>3, NoneIsNothing DEF StoreComplete, Stamped
      <3> QED BY <1>3, <2>1, <2>3, <3>1, <3>2 DEF AnchorsMayOpen
    <2>7. CrossingAhead'
      BY <2>1 DEF CrossingAhead, InCrossing
    <2> QED BY <1>4, <2>4, <2>6, <2>7 DEF LedgerParts
  <1> QED BY <1>5, <1>6

LEMMA LedgerInit == Init => LedgerInv
  <1> SUFFICES ASSUME NEW u \in Orphans, InitFrom(u), Intact PROVE LedgerParts
    BY DEF Init, LedgerInv
  <1>1. u = None
    BY DEF InitFrom, Intact
  <1>2. Stored = {} /\ Captured = {}
    BY <1>1, NoneIsNothing DEF InitFrom, Stored, Captured
  <1>3. StoreEmpty /\ ~StoreComplete
    BY <1>1 DEF InitFrom, StoreEmpty, StoreComplete
  <1> QED
    BY <1>2, <1>3
    DEF InitFrom, LedgerParts, RowsOrdered, SnapshotsBetweenRows, NothingAboveMeter,
        AnchorsMayOpen, CrossingAhead, InCrossing

LEMMA LedgerNext ==
  TypeOK /\ RowsAndSnapshotsAgree /\ WorklistIsStale /\ LedgerInv /\ [Next]_vars => LedgerInv'
  <1> SUFFICES ASSUME TypeOK, RowsAndSnapshotsAgree, WorklistIsStale, LedgerInv,
                      [Next]_vars, Intact'
               PROVE  LedgerParts'
    BY DEF LedgerInv
  <1>a. Intact /\ LedgerParts
    BY FaultsGrow DEF Intact, LedgerInv
  <1> USE DEF history, config, environment, process
  <1>1. ASSUME NEW inc \in Increments, Elapse(inc) PROVE LedgerParts'
    <2>1. inc \in Counters /\ meter \in Counters /\ meter' \in Counters
      BY <1>1, TypeNext, IncrementsAssumption DEF TypeOK
    <2>2. Leq(meter, meter')
      BY <1>1, <2>1 DEF Elapse, Leq
    <2>3. NothingAboveMeter'
      <3>1. meter' \in Measure /\ (StoreComplete => store \in Measure)
        BY <2>1 DEF Measure, StoreComplete, TypeOK
      <3>2. UNCHANGED << energyWindow, boundarySnapshot, store, last, curr, saved >>
        BY <1>1 DEF Elapse
      <3>3. \A a \in Measure : Leq(a, meter) => Leq(a, meter')
        BY <2>2, <3>1, Measures, LeqTransitive
      <3>4. /\ \A w \in Stored' : Leq(energyWindow'[w].hi, meter')
            /\ \A w \in Captured' : Leq(boundarySnapshot'[w], meter')
            /\ last' /= None => Leq(last', meter')
            /\ curr' /= None => Leq(curr', meter')
            /\ saved' = {} /\ StoreComplete' => Leq(store', meter')
        BY <1>a, <3>1, <3>2, <3>3, Measures
        DEF LedgerParts, NothingAboveMeter, StoreComplete, Stored, Captured
      <3> QED
        BY <1>a, <3>3, <3>4 DEF LedgerParts, NothingAboveMeter
    <2>4. UNCHANGED << history, store, pc, last, curr, saved >>
      BY <1>1 DEF Elapse
    <2> QED
      BY <1>a, <2>3, <2>4
      DEF LedgerParts, RowsOrdered, SnapshotsBetweenRows, AnchorsMayOpen, CrossingAhead,
          StoreComplete, StoreEmpty, MayOpen, Fresh, InCrossing, Stored, Captured
  <1>2. ASSUME NEW t \in Time, ClockStep(t) PROVE LedgerParts'
    BY <1>2, <1>a, LedgerPcOnly DEF ClockStep, InCrossing
  <1>3. CASE MeterReplaced
    BY <1>3 DEF MeterReplaced, Intact
  <1>4. ASSUME NEW v \in Versions, Deploy(v) PROVE LedgerParts'
    BY <1>4, <1>a, LedgerPcOnly DEF Deploy, InCrossing
  <1>5. CASE Crash
    <2>1. saved = {}
      BY <1>5 DEF Crash, CutOff, Intact
    <2> QED BY <1>5, <1>a, <2>1, LedgerProcessEnds DEF Crash
  <1>6. CASE Start
    BY <1>6, <1>a, LedgerPcOnly DEF Start, InCrossing
  <1>7. CASE BootFails
    BY <1>7, <1>a, LedgerProcessEnds DEF BootFails, LedgerParts, AnchorsMayOpen
  <1>8. ASSUME NEW ok \in BOOLEAN, BootOk(ok) PROVE LedgerParts'
    BY <1>8, <1>a, LedgerPcOnly DEF BootOk, InCrossing
  <1>9. ASSUME NEW w \in stale, NEW ok \in BOOLEAN, RecomputeRow(w, ok) PROVE LedgerParts'
    BY <1>9, <1>a, LedgerRecompute
  <1>b. ASSUME NEW reading \in Answers, Judge(reading) PROVE reading = CurrentReading
    BY <1>b DEF Judge, Intact
  <1>10. CASE Load \/ \E reading \in Answers : PollFirst(reading)
    <2>1. Load \/ PollFirst(CurrentReading)
      BY <1>10, <1>b DEF PollFirst
    <2> QED BY <2>1, <1>a, LedgerAnchor
  <1>11. CASE PollNothing \/ UNCHANGED vars
    BY <1>11, <1>a, LedgerPcOnly DEF PollNothing, vars, InCrossing
  <1>12. ASSUME NEW reading \in Answers, PollCrossing(reading) PROVE LedgerParts'
    <2>1. PollCrossing(CurrentReading)
      BY <1>12, <1>b DEF PollCrossing
    <2> QED BY <2>1, <1>a, LedgerPollCrossing
  <1>13. CASE CloseBare \/ CloseWindow
    BY <1>13, <1>a, LedgerClose
  <1>14. CASE CloseRepair
    <2>1. ClosedWindow \in Captured /\ ClosedWindow \notin Stored
      BY <1>14, ClosedWindowType DEF CloseRepair, TypeOK, InCrossing, Captured, Stored
    <2> QED BY <1>a, <2>1 DEF RowsAndSnapshotsAgree, Intact
  <1>15. CASE CloseDuplicate \/ CloseFails \/ Telemetry
    BY <1>15, <1>a, LedgerPcOnly DEF CloseDuplicate, CloseFails, Telemetry, InCrossing
  <1>16. ASSUME NEW ok \in BOOLEAN, MarkWindow(ok) PROVE LedgerParts'
    BY <1>16, <1>a, LedgerPcOnly DEF MarkWindow, InCrossing
  <1>17. ASSUME NEW x \in Key, NEW ok \in BOOLEAN, PersistKey(x, ok) PROVE LedgerParts'
    BY <1>17, <1>a, LedgerPersist
  <1> QED
    BY <1>1, <1>2, <1>3, <1>4, <1>5, <1>6, <1>7, <1>8, <1>9, <1>10, <1>11, <1>12,
       <1>13, <1>14, <1>15, <1>16, <1>17
    DEF Next, Poll, Environment, Progress, Boot, Recompute, Load, Close, Mark, Persist

\* The invariant the ledger's order rests on.
THEOREM LedgerInvariant == Spec => []LedgerInv
  <1>1. Init => WorklistIsStale
    BY DEF Init, InitFrom, WorklistIsStale
  <1> QED
    BY <1>1, TypeInit, TypeNext, AgreeInit, AgreeNext, WorklistNext, LedgerInit, LedgerNext,
       PTL DEF Spec

\* No two stored windows account for the same energy, whatever crashes, failed
\* writes, clock steps and recomputation by other builds have happened, as long
\* as persist_reading was not cut off between two of its writes.
THEOREM LedgerIsOrdered == Spec => []OrderedLedger
  <1>1. LedgerInv => OrderedLedger
    BY DEF LedgerInv, LedgerParts, RowsOrdered, OrderedLedger
  <1> QED BY <1>1, LedgerInvariant, PTL

LEMMA NeverShrinksNext ==
  ASSUME TypeOK, RowsAndSnapshotsAgree, WorklistIsStale, LedgerInv, [Next]_vars, Intact
  PROVE  \A w \in Stored : /\ energyWindow'[w].hi = energyWindow[w].hi
                           /\ Leq(energyWindow'[w].lo, energyWindow[w].lo)
  <1>1. LedgerParts
    BY DEF LedgerInv
  <1>2. CASE Recompute
    BY <1>1, <1>2, LedgerRecompute DEF Recompute
  <1>3. CASE ~Recompute
    <2>1. \A w \in Stored : energyWindow'[w] = energyWindow[w]
      <3>1. CASE CloseBare \/ CloseWindow \/ CloseRepair
        <4>1. ClosedWindow \in Windows
          BY <3>1, ClosedWindowType DEF CloseBare, CloseWindow, CloseRepair, TypeOK, InCrossing
        <4> QED
          BY <3>1, <4>1
          DEF CloseBare, CloseWindow, CloseRepair, InsertOrIgnore, Stored, TypeOK
      <3> QED BY <1>3, <3>1, TablesKept
    <2> QED BY <2>1, Measures, LeqReflexive
  <1> QED BY <1>2, <1>3

\* Recomputation by a later build never makes a row account for less.
THEOREM RecomputeOnlyWidens == Spec => RecomputeNeverShrinks
  <1>1. Init => WorklistIsStale
    BY DEF Init, InitFrom, WorklistIsStale
  <1>2. TypeOK /\ RowsAndSnapshotsAgree /\ WorklistIsStale /\ LedgerInv /\ [Next]_vars =>
          [ Intact => \A w \in Stored :
              /\ energyWindow'[w].hi = energyWindow[w].hi
              /\ Leq(energyWindow'[w].lo, energyWindow[w].lo) ]_vars
    BY NeverShrinksNext
  <1> QED
    BY <1>1, <1>2, TypeInit, TypeNext, AgreeInit, AgreeNext, WorklistNext, LedgerInit,
       LedgerNext, PTL DEF Spec, RecomputeNeverShrinks

-----------------------------------------------------------------------------
(* The collector implements EnergyLedger. *)

LEMMA LedgerDefs ==
  /\ Ledger!Present = Stored
  /\ Ledger!LedgerRow = [lo : Stamped, hi : Stamped, version : Versions \cup {0}]
  /\ Row = Ledger!LedgerRow
  /\ \A a, b : Ledger!Leq(a, b) <=> Leq(a, b)
  <1>1. 0 .. MaxVersion = Versions \cup {0}
    BY BoundsAssumption DEF Versions
  <1> QED BY <1>1 DEF Ledger!Present, Ledger!LedgerRow, Stored, Row, Ledger!Leq, Ledger!Counter, Leq

\* A step that keeps the rows either keeps the chain of anchors or breaks it.
LEMMA LedgerKept ==
  ASSUME [Next]_vars, energyWindow' = energyWindow
  PROVE  [Ledger!Next]_(Ledger!ledger)
  <1>1. Intact' => Intact
    BY FaultsGrow DEF Intact
  <1>2. CASE Intact' = Intact
    BY <1>2 DEF Ledger!ledger
  <1>3. CASE Intact' /= Intact
    <2>1. Intact' = FALSE
      BY <1>1, <1>3 DEF Intact
    <2> QED BY <2>1 DEF Ledger!Next, Ledger!Break
  <1> QED BY <1>2, <1>3

LEMMA LedgerAppends ==
  ASSUME TypeOK, LedgerInv, CloseBare \/ CloseWindow \/ CloseRepair,
         energyWindow' /= energyWindow
  PROVE  Ledger!Next
  <1> DEFINE W == ClosedWindow
  <1>1. /\ last /= None /\ curr /= None /\ last \in Stamped /\ curr \in Stamped
        /\ W \in Windows /\ W = WindowBoundary(last.ts) /\ pc = "window"
    BY ClosedWindowType
    DEF CloseBare, CloseWindow, CloseRepair, TypeOK, InCrossing, ClosedWindow
  <1>2. PICK r \in Row : /\ r.lo = last /\ r.hi = curr
                         /\ energyWindow' = [energyWindow EXCEPT ![W] = r]
                         /\ energyWindow[W] = None
    <2>1. 0 \in 0 .. MaxVersion /\ build \in 0 .. MaxVersion
      BY BoundsAssumption DEF TypeOK, Versions
    <2>2. ClosedRow(0) \in Row /\ ClosedRow(build) \in Row
      BY <1>1, <2>1, ClosedRowType
    <2>3. \A v : ClosedRow(v).lo = last /\ ClosedRow(v).hi = curr
      BY DEF ClosedRow
    <2> QED BY <2>2, <2>3 DEF CloseBare, CloseWindow, CloseRepair, InsertOrIgnore
  <1>3. energyWindow'[W] = r /\ W \notin Stored /\ r \in Ledger!LedgerRow
    BY <1>1, <1>2, LedgerDefs DEF TypeOK, Stored
  <1>4. Intact => /\ \A v \in Stored : v < W
                  /\ \A v \in Stored : v < W => Leq(energyWindow[v].hi, last)
                  /\ Leq(last, curr)
    <2> SUFFICES ASSUME Intact
                 PROVE  /\ \A v \in Stored : v < W
                        /\ \A v \in Stored : v < W => Leq(energyWindow[v].hi, last)
                        /\ Leq(last, curr)
      OBVIOUS
    <2>1. MayOpen(last) /\ Leq(last, curr)
      BY <1>1 DEF LedgerInv, LedgerParts, AnchorsMayOpen, CrossingAhead, InCrossing
    <2>2. \A v \in Stored : v \in Nat /\ v /= W
      BY <1>3, Measures, WindowsAreNat
    <2>3. W \in Nat
      BY <1>1, WindowsAreNat
    <2> QED BY <1>1, <2>1, <2>2, <2>3 DEF MayOpen
  <1>5. Intact' = Intact
    BY DEF CloseBare, CloseWindow, CloseRepair, Intact
  <1>6. Ledger!Append(W, energyWindow'[W])
    <2>1. W \notin Ledger!Present /\ energyWindow'[W] \in Ledger!LedgerRow
      BY <1>3, LedgerDefs
    <2>2. energyWindow'[W].lo = last /\ energyWindow'[W].hi = curr
      BY <1>2, <1>3
    <2>3. Intact => /\ \A v \in Ledger!Present : v < W
                    /\ Ledger!EndsBelow(W, energyWindow'[W].lo)
                    /\ Ledger!Leq(energyWindow'[W].lo, energyWindow'[W].hi)
      BY <1>4, <2>2, LedgerDefs DEF Ledger!EndsBelow
    <2>4. energyWindow' = [energyWindow EXCEPT ![W] = energyWindow'[W]]
      BY <1>2, <1>3
    <2> QED BY <1>5, <2>1, <2>3, <2>4, Zenon DEF Ledger!Append
  <1> QED BY <1>1, <1>6 DEF Ledger!Next

LEMMA LedgerRecomputes ==
  ASSUME TypeOK, RowsAndSnapshotsAgree, WorklistIsStale, LedgerInv, [Next]_vars,
         NEW w \in stale, NEW ok \in BOOLEAN, RecomputeRow(w, ok),
         energyWindow' /= energyWindow
  PROVE  Ledger!Next
  <1>1. ok /\ HasPair(w)
    BY DEF RecomputeRow
  <1>2. w \in Stored /\ w \in Windows /\ IsStale(w)
    BY DEF WorklistIsStale, StaleRows, Stored
  <1>3. energyWindow' = [energyWindow EXCEPT ![w] = Recomputed(w)] /\ faults' = faults
    BY <1>1 DEF RecomputeRow
  <1>4. Recomputed(w) \in Row /\ Recomputed(w).version = build
    BY <1>1 DEF Recomputed, HasPair, Captured, Row, Versions, TypeOK
  <1>5. energyWindow'[w] = Recomputed(w)
    BY <1>2, <1>3 DEF TypeOK
  <1>6. Intact => /\ energyWindow'[w].hi = energyWindow[w].hi
                  /\ Leq(energyWindow'[w].lo, energyWindow[w].lo)
                  /\ \A v \in Stored : v < w => Leq(energyWindow[v].hi, energyWindow'[w].lo)
    <2> SUFFICES ASSUME Intact
                 PROVE  /\ energyWindow'[w].hi = energyWindow[w].hi
                        /\ Leq(energyWindow'[w].lo, energyWindow[w].lo)
                        /\ \A v \in Stored : v < w => Leq(energyWindow[v].hi, energyWindow'[w].lo)
      OBVIOUS
    <2>1. /\ LedgerParts'
          /\ \A v \in Stored : /\ energyWindow'[v].hi = energyWindow[v].hi
                               /\ Leq(energyWindow'[v].lo, energyWindow[v].lo)
      BY LedgerRecompute DEF LedgerInv
    <2>2. Stored' = Stored
      BY <1>2, <1>3, <1>4, NoneIsNothing DEF Stored, TypeOK
    <2> QED BY <1>2, <2>1, <2>2 DEF LedgerParts, RowsOrdered
  <1>7. Intact' = Intact
    BY <1>3 DEF Intact
  <1>8. Ledger!Recompute(w, energyWindow'[w])
    <2>1. w \in Ledger!Present /\ energyWindow'[w] \in Ledger!LedgerRow
      BY <1>2, <1>4, <1>5, LedgerDefs
    <2>2. 0 < energyWindow[w].version /\ energyWindow[w].version < energyWindow'[w].version
      BY <1>2, <1>4, <1>5 DEF IsStale
    <2>3. Intact => /\ energyWindow'[w].hi = energyWindow[w].hi
                    /\ Ledger!Leq(energyWindow'[w].lo, energyWindow[w].lo)
                    /\ Ledger!EndsBelow(w, energyWindow'[w].lo)
      BY <1>6, LedgerDefs DEF Ledger!EndsBelow
    <2>4. energyWindow' = [energyWindow EXCEPT ![w] = energyWindow'[w]]
      BY <1>3, <1>5
    <2> QED BY <1>7, <2>1, <2>2, <2>3, <2>4, Zenon DEF Ledger!Recompute
  <1> QED BY <1>2, <1>8 DEF Ledger!Next

LEMMA LedgerStep ==
  ASSUME TypeOK, RowsAndSnapshotsAgree, WorklistIsStale, LedgerInv, [Next]_vars
  PROVE  [Ledger!Next]_(Ledger!ledger)
  <1>1. CASE energyWindow' = energyWindow
    BY <1>1, LedgerKept
  <1>2. CASE energyWindow' /= energyWindow
    <2>1. Recompute \/ CloseBare \/ CloseWindow \/ CloseRepair
      BY <1>2, TablesKept
    <2> QED BY <1>2, <2>1, LedgerAppends, LedgerRecomputes DEF Recompute
  <1> QED BY <1>1, <1>2

\* For readers of energy_window the whole collector, with its restarts, torn
\* writes and recomputation, is the ledger of EnergyLedger.
THEOREM CollectorImplementsLedger == Spec => ImplementsLedger
  <1>1. Init => WorklistIsStale
    BY DEF Init, InitFrom, WorklistIsStale
  <1>2. Init => Ledger!Init
    BY DEF Init, InitFrom, Ledger!Init, Intact
  <1> QED
    BY <1>1, <1>2, TypeInit, TypeNext, AgreeInit, AgreeNext, WorklistNext, LedgerInit,
       LedgerNext, LedgerStep, PTL DEF Spec, ImplementsLedger, Ledger!Spec

\* What a reader who knows EnergyLedger alone can say of the rows.
ReadersInv ==
  /\ energyWindow \in [Windows -> Row \cup {None}]
  /\ Intact => RowsOrdered

LEMMA ReadersStep == ReadersInv /\ [Ledger!Next]_(Ledger!ledger) => ReadersInv'
  <1> SUFFICES ASSUME ReadersInv, [Ledger!Next]_(Ledger!ledger) PROVE ReadersInv'
    OBVIOUS
  <1>a. None \notin Row
    BY NoneIsNothing
  <1>b. \A r \in Row : r.lo \in Measure /\ r.hi \in Measure
    BY DEF Row, Stamped, Measure
  <1>1. ASSUME NEW w \in Windows, Ledger!Append(w, energyWindow'[w]) PROVE ReadersInv'
    <2> DEFINE row == energyWindow'[w]
    <2>1. /\ w \notin Stored /\ row \in Row
          /\ energyWindow' = [energyWindow EXCEPT ![w] = row]
          /\ Intact' = Intact
      BY <1>1, LedgerDefs DEF Ledger!Append
    <2>2. Intact => /\ \A v \in Stored : v < w /\ Leq(energyWindow[v].hi, row.lo)
                    /\ Leq(row.lo, row.hi)
      BY <1>1, LedgerDefs DEF Ledger!Append, Ledger!EndsBelow
    <2>3. /\ Stored' = Stored \cup {w}
          /\ \A v \in Stored : energyWindow'[v] = energyWindow[v]
          /\ energyWindow' \in [Windows -> Row \cup {None}]
      BY <1>a, <2>1 DEF Stored, ReadersInv
    <2>4. \A v \in Stored : v \in Nat /\ w \in Nat
      BY WindowsAreNat DEF Stored
    <2> HIDE DEF row
    <2>5. Intact' => RowsOrdered'
      <3> SUFFICES ASSUME Intact PROVE RowsOrdered'
        BY <2>1
      <3>1. \A v \in Stored : ~ (w < v)
        BY <2>2, <2>4
      <3>2. ~ (w < w)
        BY WindowsAreNat
      <3> QED BY <2>2, <2>3, <3>1, <3>2 DEF ReadersInv, RowsOrdered, row
    <2> QED BY <2>3, <2>5 DEF ReadersInv
  <1>2. ASSUME NEW w \in Windows, Ledger!Recompute(w, energyWindow'[w]) PROVE ReadersInv'
    <2> DEFINE row == energyWindow'[w]
    <2>1. /\ w \in Stored /\ row \in Row
          /\ energyWindow' = [energyWindow EXCEPT ![w] = row]
          /\ Intact' = Intact
      BY <1>2, LedgerDefs DEF Ledger!Recompute
    <2>2. Intact => /\ row.hi = energyWindow[w].hi
                    /\ Leq(row.lo, energyWindow[w].lo)
                    /\ \A v \in Stored : v < w => Leq(energyWindow[v].hi, row.lo)
      BY <1>2, LedgerDefs DEF Ledger!Recompute, Ledger!EndsBelow
    <2>3. /\ Stored' = Stored
          /\ \A v \in Stored \ {w} : energyWindow'[v] = energyWindow[v]
          /\ energyWindow' \in [Windows -> Row \cup {None}]
      BY <1>a, <2>1 DEF Stored, ReadersInv
    <2> HIDE DEF row
    <2>4. Intact' => RowsOrdered'
      <3> SUFFICES ASSUME Intact PROVE RowsOrdered'
        BY <2>1
      <3>1. Leq(row.lo, row.hi)
        <4>1. energyWindow[w] \in Row
          BY <2>1 DEF ReadersInv, Stored
        <4> QED BY <1>b, <2>1, <2>2, <4>1, LeqTransitive DEF ReadersInv, RowsOrdered
      <3>2. ~ (w < w)
        BY <2>1, WindowsAreNat DEF Stored
      <3> QED BY <2>1, <2>2, <2>3, <3>1, <3>2 DEF ReadersInv, RowsOrdered, row
    <2> QED BY <2>3, <2>4 DEF ReadersInv
  <1>3. CASE Ledger!Break
    BY <1>3 DEF Ledger!Break, ReadersInv
  <1>4. CASE UNCHANGED Ledger!ledger
    BY <1>4 DEF Ledger!ledger, ReadersInv, RowsOrdered, Stored
  <1> QED BY <1>1, <1>2, <1>3, <1>4 DEF Ledger!Next

\* The promise is worth keeping: whatever implements it, collector or not, has
\* no two rows that account for the same energy while the anchors are unbroken.
THEOREM LedgerPromisesOrder == ImplementsLedger => []OrderedLedger
  <1>1. Ledger!Init => ReadersInv
    BY NoneIsNothing DEF Ledger!Init, ReadersInv, RowsOrdered, Stored
  <1>2. ReadersInv => OrderedLedger
    BY DEF ReadersInv, RowsOrdered, OrderedLedger
  <1> QED BY <1>1, <1>2, ReadersStep, PTL DEF ImplementsLedger, Ledger!Spec

-----------------------------------------------------------------------------
(* The anchor's place in time. *)

LEMMA BoundaryOfWindow == \A w \in Windows : WindowBoundary(w) = w
  <1> SUFFICES ASSUME NEW w \in Windows PROVE (w \div WindowSecs) * WindowSecs = w
    BY DEF WindowBoundary
  <1>1. PICK t \in Time : w = (t \div WindowSecs) * WindowSecs
    BY DEF Windows, WindowBoundary
  <1> DEFINE k == t \div WindowSecs
             q == w \div WindowSecs
  <1>2. WindowSecs \in Nat /\ WindowSecs > 0 /\ w \in Nat
    BY WindowSecsAssumption, WindowsAreNat
  <1>3. k \in Int /\ q \in Int
    BY <1>2, TimeIsNat
  <1>4. q * WindowSecs <= w /\ w < q * WindowSecs + WindowSecs
    BY <1>2
  <1>5. w = k * WindowSecs
    BY <1>1
  <1> HIDE DEF k, q
  <1>6. ~ k < q
    <2> SUFFICES ASSUME k < q PROVE FALSE
      OBVIOUS
    <2>1. (q - k - 1) * WindowSecs >= 0
      BY <1>2, <1>3
    <2>2. (q - k - 1) * WindowSecs = q * WindowSecs - k * WindowSecs - WindowSecs
      BY <1>2, <1>3
    <2> QED BY <1>2, <1>3, <1>4, <1>5, <2>1, <2>2
  <1>7. ~ q < k
    <2> SUFFICES ASSUME q < k PROVE FALSE
      OBVIOUS
    <2>1. (k - q - 1) * WindowSecs >= 0
      BY <1>2, <1>3
    <2>2. (k - q - 1) * WindowSecs = k * WindowSecs - q * WindowSecs - WindowSecs
      BY <1>2, <1>3
    <2> QED BY <1>2, <1>3, <1>4, <1>5, <2>1, <2>2
  <1>8. q = k
    BY <1>3, <1>6, <1>7
  <1> QED BY <1>5, <1>8 DEF q

LEMMA StampedBoundary ==
  \A a \in Stamped : WindowBoundary(a.ts) \in Windows /\ WindowBoundary(a.ts) \in Nat
  BY BoundaryIsWindow, WindowsAreNat DEF Stamped

\* Steps that move pc and nothing the anchor's place depends on.
LEMMA AnchorPcOnly ==
  ASSUME AnchorParts, UNCHANGED << history, store, last, curr, saved >>,
         pc' \in {"down", "boot", "recompute"} => pc \in {"down", "boot", "recompute"},
         pc' = "idle" => pc = "idle",
         pc' /= "persist" => pc /= "persist",
         InCrossing' => InCrossing
  PROVE  AnchorParts'
  BY DEF AnchorParts, history, Stored, Captured, StoreComplete, StoreEmpty, Latest, Fresh

\* The process ends before the first or after the last of the four writes.
LEMMA AnchorProcessEnds ==
  ASSUME AnchorParts, ProcessEnds, saved = {}, UNCHANGED << history, store >>
  PROVE  AnchorParts'
  <1>1. Stored' = Stored /\ Captured' = Captured
    BY DEF history, Stored, Captured
  <1>2. StoreComplete => Latest(store)
    <2>1. CASE last = None
      BY <2>1 DEF AnchorParts
    <2>2. CASE last /= None /\ store = last
      BY <2>2 DEF AnchorParts
    <2>3. CASE StoreEmpty
      BY <2>3 DEF StoreEmpty, StoreComplete
    <2> QED BY <2>1, <2>2, <2>3 DEF AnchorParts
  <1> QED
    BY <1>1, <1>2
    DEF ProcessEnds, AnchorParts, StoreComplete, StoreEmpty, Latest, InCrossing

\* Recomputation adds and removes no row.
LEMMA RecomputeKeepsRows ==
  ASSUME TypeOK, WorklistIsStale, NEW w \in stale, NEW ok \in BOOLEAN, RecomputeRow(w, ok)
  PROVE  Stored' = Stored /\ Captured' = Captured /\ boundarySnapshot' = boundarySnapshot
  <1>1. w \in Stored
    BY DEF WorklistIsStale, StaleRows
  <1>2. CASE ok /\ HasPair(w)
    <2>1. Recomputed(w) \in Row
      BY <1>2 DEF Recomputed, HasPair, Captured, Row, Versions, TypeOK
    <2> QED BY <1>1, <1>2, <2>1, NoneIsNothing DEF RecomputeRow, Stored, Captured, TypeOK
  <1>3. CASE ~(ok /\ HasPair(w))
    BY <1>3 DEF RecomputeRow, Stored, Captured
  <1> QED BY <1>2, <1>3

\* What the closing of a window writes: the row, if there is none, and perhaps
\* the snapshot, both of the anchor's window.
LEMMA ClosingStores ==
  ASSUME TypeOK, CloseBare \/ CloseWindow \/ CloseRepair
  PROVE  /\ UNCHANGED << config, last, curr, saved, stale, build, faults >>
         /\ pc = "window" /\ pc' = "mark"
         /\ last \in Stamped /\ curr \in Stamped /\ last /= None /\ curr /= None
         /\ ClosedWindow \in Windows /\ ClosedWindow = WindowBoundary(last.ts)
         /\ Stored' = Stored \cup {ClosedWindow}
         /\ \A w \in Stored : energyWindow'[w] = energyWindow[w]
         /\ Captured \subseteq Captured' /\ Captured' \subseteq Captured \cup {ClosedWindow}
         /\ \A w \in Captured : boundarySnapshot'[w] = boundarySnapshot[w]
         /\ \A w \in Captured' \ Captured : boundarySnapshot'[w] = curr
         /\ ClosedWindow \notin Stored =>
              \E version \in {0, build} : energyWindow'[ClosedWindow] = ClosedRow(version)
  <1> DEFINE W == ClosedWindow
  <1>1. /\ UNCHANGED << config, last, curr, saved, stale, build, faults >>
        /\ pc = "window" /\ pc' = "mark"
    BY DEF CloseBare, CloseWindow, CloseRepair
  <1>2. /\ last \in Stamped /\ curr \in Stamped /\ last /= None /\ curr /= None
        /\ W \in Windows /\ W = WindowBoundary(last.ts)
    BY <1>1, ClosedWindowType DEF TypeOK, InCrossing, ClosedWindow
  <1>3. ClosedRow(0) \in Row /\ ClosedRow(build) \in Row
    <2>1. 0 \in 0 .. MaxVersion /\ build \in 0 .. MaxVersion
      BY BoundsAssumption DEF TypeOK, Versions
    <2> QED BY <1>2, <2>1, ClosedRowType
  <1>4. PICK v \in {0, build} : energyWindow' = InsertOrIgnore(energyWindow, W, ClosedRow(v))
    BY DEF CloseBare, CloseWindow, CloseRepair, InsertOrIgnore
  <1>5. ClosedRow(v) \in Row /\ ClosedRow(v) /= None
    BY <1>3, <1>4, NoneIsNothing
  <1>6. /\ Stored' = Stored \cup {W}
        /\ \A w \in Stored : energyWindow'[w] = energyWindow[w]
        /\ W \notin Stored => energyWindow'[W] = ClosedRow(v)
    BY <1>2, <1>4, <1>5 DEF InsertOrIgnore, Stored, TypeOK
  <1>7. /\ Captured \subseteq Captured' /\ Captured' \subseteq Captured \cup {W}
        /\ \A w \in Captured : boundarySnapshot'[w] = boundarySnapshot[w]
        /\ \A w \in Captured' \ Captured : boundarySnapshot'[w] = curr
    BY <1>2, NoneIsNothing DEF CloseBare, CloseWindow, CloseRepair, Captured, TypeOK
  <1> QED BY <1>1, <1>2, <1>4, <1>6, <1>7

\* An anchor is read back, or a first reading becomes one, or a crossing begins.
LEMMA AnchorReads ==
  ASSUME TypeOK, AnchorParts, "anchor" \notin faults',
         Load \/ Poll
  PROVE  AnchorParts'
  <1>1. /\ UNCHANGED << energyWindow, boundarySnapshot, store, saved >>
        /\ Stored' = Stored /\ Captured' = Captured /\ saved = {}
    BY DEF Load, LoadPersistedReading, Poll, PollFirst, PollCrossing, history, config, Stored,
           Captured, AnchorParts
  <1>2. StoreComplete => store \in Stamped /\ store /= None
    <2>1. StoreComplete => store \in Stamped
      BY DEF StoreComplete, TypeOK, Stamped
    <2> QED BY <2>1, NoneIsNothing
  <1>3. CASE Load
    <2>1. pc = "recompute" /\ pc' = "idle" /\ last = None
      BY <1>3 DEF Load, LoadPersistedReading, AnchorParts
    <2>2. (last' = store /\ StoreComplete) \/ (last' = None /\ Fresh)
      BY <1>3 DEF Load, LoadPersistedReading, StoreComplete
    <2> QED
      BY <1>1, <1>2, <2>1, <2>2
      DEF AnchorParts, StoreComplete, StoreEmpty, Latest, InCrossing, Fresh
  <1>4. ASSUME NEW reading \in Answers, PollFirst(reading) PROVE AnchorParts'
    <2>1. pc = "idle" /\ pc' = "idle" /\ last = None /\ last' = reading /\ Fresh
      BY <1>4 DEF PollFirst, AnchorParts, process
    <2>2. reading /= None
      BY AnswerType, NoneIsNothing
    <2>3. Stored = {} /\ StoreEmpty /\ Captured = {}
      BY <2>1 DEF Fresh, StoreEmpty, AnchorParts
    <2> QED
      BY <1>1, <2>1, <2>2, <2>3
      DEF AnchorParts, StoreComplete, StoreEmpty, Latest, InCrossing, Fresh
  <1>5. ASSUME NEW reading \in Answers, PollCrossing(reading) PROVE AnchorParts'
    <2>1. pc = "idle" /\ pc' = "window" /\ last /= None /\ last' = last /\ curr' = reading
      BY <1>5 DEF PollCrossing, process
    <2>2. reading.ts = clock /\ reading \in Stamped
      BY AnswerType DEF Answers, ReadingAt
    <2>3. WindowBoundary(last.ts) < WindowBoundary(reading.ts)
      <3>1. WindowBoundary(clock) > WindowBoundary(last.ts)
        BY <1>5 DEF PollCrossing, CrossesBoundary
      <3>2. last \in Stamped
        BY <2>1 DEF TypeOK
      <3> QED BY <2>2, <3>1, <3>2, StampedBoundary
    <2> QED
      BY <1>1, <2>1, <2>3
      DEF AnchorParts, StoreComplete, StoreEmpty, Latest, InCrossing, Fresh
  <1> QED BY <1>3, <1>4, <1>5 DEF Poll

LEMMA AnchorPersist ==
  ASSUME TypeOK, AnchorParts, "anchor" \notin faults',
         NEW x \in Key, NEW ok \in BOOLEAN, PersistKey(x, ok)
  PROVE  AnchorParts'
  <1>1. /\ UNCHANGED << energyWindow, boundarySnapshot >>
        /\ pc = "persist" /\ NextKey(x) /\ ok
        /\ Stored' = Stored /\ Captured' = Captured
        /\ store' = [store EXCEPT ![x] = curr[x]]
    BY DEF PersistKey, Stored, Captured, history
  <1>2. last /= None /\ curr /= None /\ curr \in Stamped /\ last \in Stamped
    BY <1>1 DEF TypeOK, InCrossing
  <1>3. store'[x] = curr[x] /\ curr[x] /= None
    BY <1>1, <1>2, NoneIsNothing DEF TypeOK, Stamped
  <1>4. ~StoreEmpty'
    BY <1>3 DEF StoreEmpty
  <1>5. CASE x /= "exp"
    <2>1. UNCHANGED << pc, last, curr >> /\ saved' = saved \cup {x}
      BY <1>5 DEF PersistKey
    <2>2. \A y \in saved' : store'[y] = curr[y]
      BY <1>1, <2>1 DEF AnchorParts, TypeOK
    <2> QED
      BY <1>1, <1>2, <1>4, <2>1, <2>2 DEF AnchorParts, Latest, InCrossing
  <1>6. CASE x = "exp"
    <2>1. pc' = "idle" /\ last' = curr /\ curr' = None /\ saved' = {}
      BY <1>6 DEF PersistKey
    <2>2. saved = {"ts", "prod", "imp"}
      BY <1>1, <1>6 DEF NextKey
    <2>3. store' = curr
      <3>1. store' \in [Key -> Nat \cup {None}] /\ curr \in [Key -> Nat \cup {None}]
        BY <1>1, <1>2 DEF TypeOK, Stamped
      <3>2. \A y \in Key : store'[y] = curr[y]
        BY <1>1, <1>6, <2>2 DEF AnchorParts, TypeOK
      <3> QED BY <3>1, <3>2
    <2>4. Latest(curr)
      <3>1. WindowBoundary(last.ts) \in Nat /\ WindowBoundary(curr.ts) \in Nat
        BY <1>2, StampedBoundary
      <3>2. \A w \in Stored \cup Captured : w \in Nat
        BY WindowsAreNat, Measures
      <3> QED BY <1>1, <1>2, <3>1, <3>2 DEF AnchorParts, InCrossing, Latest
    <2>5. StoreComplete'
      BY <1>2, <2>3, NoneIsNothing DEF StoreComplete, Stamped
    <2> QED
      BY <1>1, <1>2, <1>4, <2>1, <2>3, <2>4, <2>5
      DEF AnchorParts, InCrossing, Latest
  <1> QED BY <1>5, <1>6

LEMMA AnchorNext ==
  TypeOK /\ WorklistIsStale /\ AnchorIsLatest /\ [Next]_vars => AnchorIsLatest'
  <1> SUFFICES ASSUME TypeOK, WorklistIsStale, AnchorIsLatest, [Next]_vars,
                      "anchor" \notin faults'
               PROVE  AnchorParts'
    BY DEF AnchorIsLatest
  <1>a. AnchorParts
    BY FaultsGrow DEF AnchorIsLatest
  <1> USE DEF history, config, environment, process
  <1>1. ASSUME Environment, ~Crash PROVE AnchorParts'
    BY <1>1, <1>a, AnchorPcOnly
    DEF Environment, Elapse, ClockStep, MeterReplaced, Deploy, InCrossing
  <1>2. CASE Crash
    <2>1. saved = {}
      BY <1>2 DEF Crash, CutOff
    <2> QED BY <1>2, <1>a, <2>1, AnchorProcessEnds DEF Crash
  <1>3. CASE Start
    BY <1>3, <1>a, AnchorPcOnly DEF Start, InCrossing
  <1>4. CASE Boot
    <2>1. CASE BootFails
      BY <1>a, <2>1, AnchorProcessEnds DEF BootFails, AnchorParts
    <2>2. ASSUME NEW ok \in BOOLEAN, BootOk(ok) PROVE AnchorParts'
      BY <1>a, <2>2, AnchorPcOnly DEF BootOk, InCrossing
    <2> QED BY <1>4, <2>1, <2>2 DEF Boot
  <1>5. ASSUME NEW w \in stale, NEW ok \in BOOLEAN, RecomputeRow(w, ok) PROVE AnchorParts'
    <2>1. Stored' = Stored /\ Captured' = Captured
      BY <1>5, RecomputeKeepsRows
    <2>2. UNCHANGED << store, pc, last, curr, saved >>
      BY <1>5 DEF RecomputeRow
    <2> QED
      BY <1>a, <2>1, <2>2
      DEF AnchorParts, StoreComplete, StoreEmpty, Latest, Fresh, InCrossing
  <1>6. CASE Load \/ Poll
    BY <1>6, <1>a, AnchorReads
  <1>7. CASE PollNothing \/ UNCHANGED vars
    BY <1>7, <1>a, AnchorPcOnly DEF PollNothing, vars, InCrossing
  <1>8. CASE CloseBare \/ CloseWindow \/ CloseRepair
    <2> HIDE DEF history, environment, process
    <2>1. Latest(last) /\ WindowBoundary(last.ts) < WindowBoundary(curr.ts)
      BY <1>8, <1>a, ClosingStores DEF AnchorParts, InCrossing
    <2>2. Latest(last)'
      <3>1. WindowBoundary(last.ts) \in Nat
        BY <1>8, ClosingStores, StampedBoundary
      <3> QED BY <1>8, <2>1, <3>1, ClosingStores DEF Latest
    <2>3. saved = {}
      BY <1>8, <1>a, ClosingStores DEF AnchorParts
    <2> QED
      BY <1>8, <1>a, <2>1, <2>2, <2>3, ClosingStores
      DEF AnchorParts, StoreComplete, StoreEmpty, InCrossing
  <1>9. CASE CloseDuplicate \/ CloseFails \/ Mark \/ Telemetry
    BY <1>9, <1>a, AnchorPcOnly
    DEF CloseDuplicate, CloseFails, Mark, MarkWindow, Telemetry, InCrossing
  <1>10. CASE Persist
    BY <1>10, <1>a, AnchorPersist DEF Persist
  <1> QED
    BY <1>1, <1>2, <1>3, <1>4, <1>5, <1>6, <1>7, <1>8, <1>9, <1>10
    DEF Next, Progress, Close, Recompute

\* The anchor an orphan snapshot comes with opened the snapshot's window.
LEMMA OrphanAnchor ==
  ASSUME NEW u \in Orphans, InitFrom(u), u /= None
  PROVE  u \in Nat /\ store \in Stamped /\ WindowBoundary(store.ts) = u
  <1>1. u \in Windows /\ u \in Time /\ u \in Nat
    BY OrphanReadings, TimeIsNat
  <1>2. store = ReadingAt(u, Zero)
    <2>1. ReadingAt(u, Zero) = [x \in Key |-> ReadingAt(u, Zero)[x]]
      BY DEF ReadingAt
    <2> QED BY <2>1 DEF InitFrom
  <1>3. store.ts = u /\ store \in Stamped
    BY <1>1, <1>2, ReadingAtType DEF ReadingAt, Zero
  <1> QED BY <1>1, <1>3, BoundaryOfWindow

LEMMA AnchorInit == Init => AnchorIsLatest
  <1> SUFFICES ASSUME NEW u \in Orphans, InitFrom(u) PROVE AnchorParts
    BY DEF Init, AnchorIsLatest
  <1>1. Stored = {} /\ Captured \subseteq {u}
    BY DEF InitFrom, Stored, Captured
  <1>2. CASE u = None
    <2>1. Captured = {} /\ StoreEmpty /\ ~StoreComplete
      BY <1>2, NoneIsNothing DEF InitFrom, Captured, StoreEmpty, StoreComplete
    <2> QED BY <1>1, <2>1 DEF InitFrom, AnchorParts, InCrossing
  <1>3. CASE u /= None
    <2>1. u \in Nat /\ store \in Stamped /\ WindowBoundary(store.ts) = u
      BY <1>3, OrphanAnchor
    <2>2. StoreComplete /\ ~StoreEmpty
      BY <2>1, NoneIsNothing DEF StoreComplete, StoreEmpty, Stamped
    <2>3. Latest(store)
      <3>1. \A w \in Stored \cup Captured : w = u
        BY <1>1
      <3>2. WindowBoundary(store.ts) = u /\ u <= u
        BY <2>1
      <3> QED BY <3>1, <3>2, Zenon DEF Latest
    <2> QED BY <1>1, <2>2, <2>3 DEF InitFrom, AnchorParts, InCrossing
  <1> QED BY <1>2, <1>3

-----------------------------------------------------------------------------
(* The marker. *)

\* Only the marking of a closed window writes last_window_start.
LEMMA MarkerKept ==
  ASSUME [Next]_vars, ~Mark
  PROVE  lastWindowStart' = lastWindowStart
  <1> USE DEF config
  <1>1. CASE Environment
    BY <1>1 DEF Environment, Elapse, ClockStep, MeterReplaced, Deploy, Crash
  <1>2. CASE Progress
    BY <1>2 DEF Progress, Boot, Recompute, Load, Close, Persist, BootFails, BootOk,
                RecomputeRow, LoadPersistedReading, CloseBare, CloseWindow, CloseDuplicate,
                CloseRepair, CloseFails, Telemetry, PersistKey
  <1>3. CASE Start \/ Poll \/ PollNothing \/ UNCHANGED vars
    BY <1>3 DEF Start, Poll, PollFirst, PollCrossing, PollNothing, vars
  <1> QED BY <1>1, <1>2, <1>3 DEF Next

\* No step but the closing of a window makes a row or goes to the marker.
LEMMA RowsKept ==
  ASSUME TypeOK, WorklistIsStale, [Next]_vars, ~CloseBare, ~CloseWindow, ~CloseRepair
  PROVE  /\ Stored' = Stored /\ Captured' = Captured
         /\ boundarySnapshot' = boundarySnapshot
         /\ pc' = "mark" => pc = "mark" /\ last' = last
  <1>1. /\ Stored' = Stored /\ Captured' = Captured
        /\ boundarySnapshot' = boundarySnapshot
    <2>1. CASE Recompute
      BY <2>1, RecomputeKeepsRows DEF Recompute
    <2>2. CASE ~Recompute
      BY <2>2, TablesKept DEF Stored, Captured
    <2> QED BY <2>1, <2>2
  <1>2. pc' = "mark" => pc = "mark" /\ last' = last
    <2> USE DEF process
    <2>1. CASE Environment
      BY <2>1 DEF Environment, Elapse, ClockStep, MeterReplaced, Deploy, Crash, ProcessEnds
    <2>2. CASE Progress
      BY <2>2 DEF Progress, Boot, Recompute, Load, Close, Mark, Persist, BootFails, BootOk,
                  RecomputeRow, LoadPersistedReading, CloseDuplicate, ProcessEnds,
                  CloseFails, MarkWindow, Telemetry, PersistKey
    <2>3. CASE Start \/ Poll \/ PollNothing \/ UNCHANGED vars
      BY <2>3 DEF Start, Poll, PollFirst, PollCrossing, PollNothing, vars
    <2> QED BY <2>1, <2>2, <2>3 DEF Next
  <1> QED BY <1>1, <1>2

LEMMA MarkerInit == Init => MarkerInv
  <1> SUFFICES ASSUME NEW u \in Orphans, InitFrom(u) PROVE MarkerInv
    BY DEF Init
  <1>1. Stored = {}
    BY DEF InitFrom, Stored
  <1> QED BY <1>1 DEF InitFrom, MarkerInv, MarkerNamesLatestRow

LEMMA MarkerNext ==
  TypeOK /\ WorklistIsStale /\ AnchorIsLatest /\ MarkerInv /\ [Next]_vars => MarkerInv'
  <1> SUFFICES ASSUME TypeOK, WorklistIsStale, AnchorIsLatest, MarkerInv, [Next]_vars
               PROVE  MarkerInv'
    OBVIOUS
  <1>1. CASE CloseBare \/ CloseWindow \/ CloseRepair
    <2>1. /\ pc' = "mark" /\ Stored' = Stored \cup {ClosedWindow}
          /\ lastWindowStart' = lastWindowStart /\ ClosedWindow' = ClosedWindow
      BY <1>1, ClosingStores DEF config, ClosedWindow
    <2> QED BY <2>1 DEF MarkerInv, MarkerNamesLatestRow
  <1>2. CASE Mark
    <2>1. PICK ok \in BOOLEAN : MarkWindow(ok)
      BY <1>2 DEF Mark
    <2>2. pc = "mark" /\ pc' = "telemetry" /\ Stored' = Stored
      BY <2>1 DEF MarkWindow, history, Stored
    <2>3. ClosedWindow \in Stored
      BY <2>2 DEF MarkerInv
    <2>4. CASE ok
      <3>1. lastWindowStart' = ClosedWindow /\ faults' = faults
        BY <2>1, <2>4 DEF MarkWindow
      <3>2. faults \subseteq {"recompute", "meter"} => \A w \in Stored : w <= ClosedWindow
        <4>1. "anchor" \notin faults => Latest(last)
          BY <2>2 DEF AnchorIsLatest, AnchorParts, TypeOK, InCrossing
        <4> QED BY <4>1 DEF Latest, ClosedWindow
      <3>3. ClosedWindow /= None
        BY <2>3, NoneIsNothing DEF Stored
      <3> QED BY <2>2, <2>3, <3>1, <3>2, <3>3 DEF MarkerInv, MarkerNamesLatestRow
    <2>5. CASE ~ok
      <3>1. lastWindowStart' = lastWindowStart /\ "mark" \in faults'
        BY <2>1, <2>5 DEF MarkWindow
      <3> QED BY <2>2, <3>1 DEF MarkerInv, MarkerNamesLatestRow
    <2> QED BY <2>4, <2>5
  <1>3. ASSUME ~CloseBare, ~CloseWindow, ~CloseRepair, ~Mark PROVE MarkerInv'
    <2>1. /\ lastWindowStart' = lastWindowStart /\ Stored' = Stored
          /\ pc' = "mark" => pc = "mark" /\ ClosedWindow' = ClosedWindow
      BY <1>3, MarkerKept, RowsKept DEF ClosedWindow
    <2>2. faults' \subseteq {"recompute", "meter"} /\ pc' /= "mark" => pc /= "mark"
      <3> SUFFICES ASSUME pc = "mark", pc' /= "mark" PROVE {"close", "anchor"} \cap faults' /= {}
        OBVIOUS
      <3>1. Crash
        BY <1>3
        DEF Next, Environment, Elapse, ClockStep, MeterReplaced, Deploy, Start, Progress,
            Boot, BootFails, BootOk, Recompute, RecomputeRow, Load, LoadPersistedReading,
            Close, CloseDuplicate, CloseFails, Telemetry, Persist, PersistKey, Poll,
            PollFirst, PollCrossing, PollNothing, vars, process
      <3>2. CASE saved = {}
        BY <3>1, <3>2 DEF Crash, CutOff
      <3>3. CASE saved /= {}
        <4>1. "anchor" \in faults
          BY <3>3 DEF AnchorIsLatest, AnchorParts
        <4> QED BY <4>1, FaultsGrow
      <3> QED BY <3>2, <3>3
    <2>3. faults \subseteq faults'
      BY FaultsGrow
    <2> QED BY <2>1, <2>2, <2>3 DEF MarkerInv, MarkerNamesLatestRow
  <1> QED BY <1>1, <1>2, <1>3

\* The health endpoint's last_window_start never names a window without a row,
\* and no crash, replaced meter or recomputation leaves it behind the latest
\* row, however many builds and windows there are.
THEOREM MarkerIsLatest == Spec => []MarkerNamesLatestRow
  <1>1. MarkerInv => MarkerNamesLatestRow
    BY DEF MarkerInv
  <1>2. Init => WorklistIsStale
    BY DEF Init, InitFrom, WorklistIsStale
  <1> QED
    BY <1>1, <1>2, TypeInit, TypeNext, WorklistNext, AnchorInit, AnchorNext, MarkerInit,
       MarkerNext, PTL DEF Spec

-----------------------------------------------------------------------------
(* The repair. *)

LEMMA RepairInit == Init => RepairInv
  <1> SUFFICES ASSUME NEW u \in Orphans, InitFrom(u) PROVE RepairParts
    BY DEF Init, RepairInv, RepairParts
  <1>1. last = None /\ ~Closed
    BY DEF InitFrom, Closed
  <1>2. StoreComplete => FilledBefore(store)
    <2>1. CASE u = None
      BY <2>1 DEF InitFrom, StoreComplete
    <2>2. CASE u /= None
      <3>1. \A w \in Captured : w = u
        BY DEF InitFrom, Captured
      <3>2. u \in Nat /\ WindowBoundary(store.ts) = u /\ ~(u < u)
        BY <2>2, OrphanAnchor
      <3> QED BY <3>1, <3>2, Zenon DEF FilledBefore
    <2> QED BY <2>1, <2>2
  <1> QED BY <1>1, <1>2 DEF RepairParts

LEMMA RepairNext ==
  TypeOK /\ WorklistIsStale /\ AnchorIsLatest /\ RepairInv /\ [Next]_vars => RepairInv'
  <1> SUFFICES ASSUME TypeOK, WorklistIsStale, AnchorIsLatest, RepairInv, [Next]_vars,
                      faults' \cap {"anchor", "write"} = {}
               PROVE  RepairParts'
    BY DEF RepairInv, RepairParts
  <1>a. AnchorParts /\ RepairParts
    BY FaultsGrow DEF AnchorIsLatest, RepairInv, RepairParts
  <1> USE DEF RepairParts, FilledBefore
  <1>1. ASSUME UNCHANGED << store, last >>, Stored' = Stored, Captured' = Captured,
               Closed' => Closed
        PROVE  RepairParts'
    BY <1>1, <1>a DEF StoreComplete
  <1>2. ASSUME BootFails \/ Crash PROVE RepairParts'
    <2>1. saved = {} /\ UNCHANGED << store, history >> /\ ProcessEnds
      BY <1>2, <1>a DEF BootFails, Crash, CutOff, AnchorParts, config
    <2>2. StoreComplete => FilledBefore(store)
      BY <1>a, <2>1 DEF AnchorParts, StoreComplete, StoreEmpty
    <2> QED
      BY <2>1, <2>2 DEF ProcessEnds, Closed, history, Stored, Captured, StoreComplete
  <1>3. ASSUME NEW w \in stale, NEW ok \in BOOLEAN, RecomputeRow(w, ok) PROVE RepairParts'
    <2>1. UNCHANGED << store, last, pc >>
      BY <1>3 DEF RecomputeRow, config
    <2> QED BY <1>1, <1>3, <2>1, RecomputeKeepsRows DEF Closed
  <1>4. CASE Load
    <2>1. /\ pc' = "idle" /\ last = None /\ UNCHANGED << store, history >>
          /\ (last' = store /\ StoreComplete) \/ last' = None
      BY <1>4, <1>a DEF Load, LoadPersistedReading, StoreComplete, config, AnchorParts
    <2> QED BY <1>a, <2>1 DEF Closed, history, Stored, Captured, StoreComplete
  <1>5. ASSUME NEW reading \in Answers, PollFirst(reading) PROVE RepairParts'
    <2>1. Fresh /\ pc' = "idle" /\ UNCHANGED history /\ last' = reading
      BY <1>5, <1>a DEF PollFirst, AnchorParts, process
    <2>2. Captured = {} /\ reading /= None
      BY <1>a, <2>1, AnswerType, NoneIsNothing DEF Fresh, AnchorParts, StoreEmpty
    <2> QED BY <2>1, <2>2 DEF Closed, history, Captured
  <1>6. CASE CloseBare \/ CloseWindow \/ CloseRepair
    <2>1. Latest(last)
      BY <1>6, <1>a, ClosingStores DEF AnchorParts
    <2>2. \A w \in Captured : w \in Stored \/ w = ClosedWindow
      <3>1. ClosedWindow \in Nat /\ \A w \in Captured : w \in Nat
        BY <1>6, ClosingStores, WindowsAreNat, Measures
      <3>2. \A w \in Captured : w < ClosedWindow \/ w = ClosedWindow
        BY <1>6, <2>1, <3>1, ClosingStores DEF Latest
      <3> QED BY <1>6, <1>a, <3>2, ClosingStores
    <2>3. Captured' \subseteq Stored'
      BY <1>6, <2>2, ClosingStores
    <2> QED BY <1>6, <2>3, ClosingStores
  <1>7. CASE CloseDuplicate
    <2>1. /\ last \in Stamped /\ last /= None /\ pc = "window" /\ ClosedWindow \in Stored
          /\ UNCHANGED << store, last, history >>
      BY <1>7, ClosedWindowType DEF CloseDuplicate, TypeOK, InCrossing, Stored, config
    <2>2. \A w \in Captured : w \in Stored
      <3>1. ClosedWindow \in Nat /\ \A w \in Captured : w \in Nat
        BY <2>1, WindowsAreNat, Measures
      <3>2. \A w \in Captured : w < ClosedWindow \/ w = ClosedWindow
        BY <1>a, <2>1, <3>1 DEF AnchorParts, Latest, ClosedWindow
      <3> QED BY <1>a, <2>1, <3>2 DEF ClosedWindow
    <2> QED BY <2>1, <2>2 DEF history, Captured, Stored
  <1>8. CASE CloseFails
    BY <1>8 DEF CloseFails
  <1>9. ASSUME NEW x \in Key, NEW ok \in BOOLEAN, PersistKey(x, ok) PROVE RepairParts'
    <2>1. pc = "persist" /\ UNCHANGED history /\ last /= None
      BY <1>9 DEF PersistKey, TypeOK, InCrossing
    <2>2. Captured \subseteq Stored /\ Captured' = Captured /\ Stored' = Stored
      BY <1>a, <2>1 DEF Closed, history, Captured, Stored
    <2> QED BY <2>2
  <1>10. CASE \/ Environment /\ ~Crash
              \/ Start \/ Mark \/ Telemetry \/ PollNothing \/ UNCHANGED vars
              \/ \E ok \in BOOLEAN : BootOk(ok)
              \/ \E reading \in Answers : PollCrossing(reading)
    <2>1. UNCHANGED << store, last, history >> /\ (Closed' => Closed)
      BY <1>10
      DEF Environment, Elapse, ClockStep, MeterReplaced, Deploy, Start, Mark, MarkWindow,
          Telemetry, PollNothing, vars, BootOk, PollCrossing, config, process, history, Closed
    <2> QED BY <1>1, <2>1 DEF history, Stored, Captured
  <1> QED
    BY <1>2, <1>3, <1>4, <1>5, <1>6, <1>7, <1>8, <1>9, <1>10
    DEF Next, Progress, Boot, Recompute, Load, Close, Persist, Poll

\* However many windows pass before the anchor's crossing comes, and whatever
\* is recomputed or left unmarked meanwhile, a snapshot without its row is
\* filled by the crossing that leaves its window: once the anchor is beyond a
\* snapshot, the row is there.
THEOREM HolesAreFilled == Spec => []RepairFillsTheHole
  <1>1. RepairInv => RepairFillsTheHole
    BY DEF RepairInv, RepairParts, RepairFillsTheHole, FilledBefore
  <1>2. Init => WorklistIsStale
    BY DEF Init, InitFrom, WorklistIsStale
  <1> QED
    BY <1>1, <1>2, TypeInit, TypeNext, WorklistNext, AnchorInit, AnchorNext, RepairInit,
       RepairNext, PTL DEF Spec

-----------------------------------------------------------------------------
(* The startup. *)

\* A row is new when its window is closed, and the snapshot stored with it
\* gives no other row the pair it lacked.
LEMMA ClosingMakesNoneStale ==
  ASSUME TypeOK, RowsAndSnapshotsAgree, "orphan" \notin faults, AnchorParts,
         CloseBare \/ CloseWindow \/ CloseRepair,
         NEW w \in StaleRows', HasPair(w)'
  PROVE  w \in StaleRows /\ HasPair(w)
  <1> DEFINE W == ClosedWindow
  <1>1. /\ w \in Stored' /\ energyWindow'[w].version > 0 /\ energyWindow'[w].version < build
        /\ build \in Nat /\ w \in Captured' /\ PreviousWindow(w) \in Captured'
    BY ClosingStores DEF StaleRows, IsStale, HasPair, PreviousWindow, TypeOK, Versions
  <1>2. w \in Stored
    <2> SUFFICES ASSUME w \notin Stored PROVE FALSE
      OBVIOUS
    <2>1. w = W /\ W \notin Stored
      BY <1>1, ClosingStores
    <2>2. PICK version \in {0, build} : energyWindow'[W] = ClosedRow(version)
      BY <2>1, ClosingStores
    <2>3. energyWindow'[w].version \in {0, build}
      BY <2>1, <2>2 DEF ClosedRow
    <2> QED BY <1>1, <2>3
  <1>3. energyWindow'[w] = energyWindow[w]
    BY <1>2, ClosingStores
  <1>4. w \in StaleRows /\ w \in Captured
    BY <1>1, <1>2, <1>3 DEF StaleRows, IsStale, RowsAndSnapshotsAgree
  <1>5. PreviousWindow(w) /= W
    <2>1. w <= W
      <3>1. Latest(last) /\ W = WindowBoundary(last.ts)
        BY ClosingStores DEF AnchorParts
      <3> QED BY <1>2, <3>1 DEF Latest
    <2>2. w \in Nat /\ WindowSecs \in Nat /\ WindowSecs > 0
      BY <1>2, WindowsAreNat, WindowSecsAssumption DEF Stored
    <2>3. W \in Nat
      BY ClosingStores, WindowsAreNat
    <2> QED BY <2>1, <2>2, <2>3 DEF PreviousWindow
  <1>6. PreviousWindow(w) \in Captured
    BY <1>1, <1>5, ClosingStores
  <1> QED BY <1>4, <1>6 DEF HasPair

LEMMA RecomputeInit == Init => RecomputeInv
  BY DEF Init, InitFrom, RecomputeInv

LEMMA RecomputeNext ==
  /\ TypeOK /\ WorklistIsStale /\ RowsAndSnapshotsAgree /\ AnchorIsLatest
  /\ RecomputeInv /\ [Next]_vars
  => RecomputeInv'
  <1> SUFFICES ASSUME TypeOK, WorklistIsStale, RowsAndSnapshotsAgree, AnchorIsLatest,
                      RecomputeInv, [Next]_vars, pc' \notin {"down", "boot"},
                      faults' \cap {"recompute", "anchor", "orphan"} = {},
                      NEW w \in (StaleRows \ stale)', HasPair(w)'
               PROVE  FALSE
    BY DEF RecomputeInv
  <1>a. /\ AnchorParts /\ "orphan" \notin faults
        /\ pc \notin {"down", "boot"} => \A v \in StaleRows \ stale : ~HasPair(v)
    BY FaultsGrow DEF AnchorIsLatest, RecomputeInv
  <1>1. ASSUME NEW v \in stale, NEW ok \in BOOLEAN, RecomputeRow(v, ok) PROVE FALSE
    <2>1. /\ pc = "recompute" /\ stale' = stale \ {v} /\ build' = build /\ ok
          /\ boundarySnapshot' = boundarySnapshot /\ Captured' = Captured /\ Stored' = Stored
      BY <1>1, RecomputeKeepsRows DEF RecomputeRow, Remaining
    <2>2. HasPair(w) /\ w \in Stored /\ w \in Windows
      BY <2>1 DEF HasPair, StaleRows, PreviousWindow, Stored
    <2>3. CASE w = v
      <3>1. energyWindow'[w] = Recomputed(w)
        BY <1>1, <2>1, <2>2, <2>3 DEF RecomputeRow, TypeOK
      <3>2. energyWindow'[w].version = build /\ build \in Nat
        BY <3>1 DEF Recomputed, TypeOK, Versions
      <3> QED BY <2>1, <3>2 DEF StaleRows, IsStale
    <2>4. CASE w /= v
      <3>1. energyWindow'[w] = energyWindow[w]
        BY <1>1, <2>2, <2>4 DEF RecomputeRow, TypeOK
      <3>2. w \in StaleRows \ stale
        BY <2>1, <2>2, <2>4, <3>1 DEF StaleRows, IsStale
      <3> QED BY <1>a, <2>1, <2>2, <3>2
    <2> QED BY <2>3, <2>4
  <1>2. ASSUME NEW ok \in BOOLEAN, BootOk(ok) PROVE FALSE
    <2>1. stale' = StaleRows /\ StaleRows' = StaleRows
      BY <1>2 DEF BootOk, StaleRows, IsStale, Stored, history
    <2> QED BY <2>1
  <1>3. CASE CloseBare \/ CloseWindow \/ CloseRepair
    <2>1. pc = "window" /\ stale' = stale
      BY <1>3, ClosingStores
    <2> QED BY <1>3, <1>a, <2>1, ClosingMakesNoneStale
  <1>4. ASSUME ~Recompute, ~CloseBare, ~CloseWindow, ~CloseRepair,
               ~(\E ok \in BOOLEAN : BootOk(ok))
        PROVE  FALSE
    <2>1. energyWindow' = energyWindow /\ boundarySnapshot' = boundarySnapshot
      BY <1>4, TablesKept
    <2>2. pc \notin {"down", "boot"} /\ stale' = stale /\ build' = build
      BY <1>4
      DEF Next, Environment, Elapse, ClockStep, MeterReplaced, Deploy, Crash, ProcessEnds,
          Start, Progress, Boot, BootFails, Load, LoadPersistedReading, Close,
          CloseDuplicate, CloseFails, Mark, MarkWindow, Telemetry, Persist, PersistKey,
          Poll, PollFirst, PollCrossing, PollNothing, vars, process
    <2>3. w \in StaleRows \ stale /\ HasPair(w)
      BY <2>1, <2>2 DEF StaleRows, IsStale, HasPair, PreviousWindow, Stored, Captured
    <2> QED BY <1>a, <2>2, <2>3
  <1> QED BY <1>1, <1>2, <1>3, <1>4 DEF Recompute

\* Past startup no row that its pair of snapshots could bring to the running
\* build's version is left behind, and the windows closed since add none: for
\* every number of stored rows, builds and rollbacks.
THEOREM StartupLeavesNothing == Spec => []NothingLeftToRecompute
  <1>1. WorklistIsStale /\ RecomputeInv => NothingLeftToRecompute
    BY DEF WorklistIsStale, RecomputeInv, NothingLeftToRecompute
  <1>2. Init => WorklistIsStale
    BY DEF Init, InitFrom, WorklistIsStale
  <1> QED
    BY <1>1, <1>2, TypeInit, TypeNext, AgreeInit, AgreeNext, WorklistNext, AnchorInit,
       AnchorNext, RecomputeInit, RecomputeNext, PTL DEF Spec

-----------------------------------------------------------------------------
(* The ledger has no gaps. *)

LEMMA ContiguousInit == Init => ContiguousInv
  <1> SUFFICES ASSUME NEW u \in Orphans, InitFrom(u), faults \subseteq {"mark", "recompute"}
               PROVE  ContiguousParts
    BY DEF Init, ContiguousInv, ContiguousParts
  <1>1. u = None
    BY DEF InitFrom
  <1>2. Stored = {} /\ Captured = {}
    BY <1>1, NoneIsNothing DEF InitFrom, Stored, Captured
  <1> QED BY <1>2 DEF InitFrom, ContiguousParts, EndsAt, Closed

\* The steps that leave the rows and move the reading the next one starts with
\* from one anchor to the other.
LEMMA ContiguousKept ==
  ASSUME ContiguousParts, UNCHANGED history,
         ~Closed' => Stored = {} \/ StoreComplete',
         ~Closed' /\ last' /= None /\ Stored /= {} => EndsAt(last'),
         ~Closed' /\ last' = None /\ StoreComplete' /\ Stored /= {} => EndsAt(store'),
         Closed' => Closed /\ curr' = curr
  PROVE  ContiguousParts'
  <1>1. Stored' = Stored /\ Captured' = Captured
    BY DEF history, Stored, Captured
  <1>2. Stored = {} => EndsAt(last)' /\ EndsAt(store)'
    BY <1>1 DEF EndsAt
  <1>3. ~Closed' /\ last' /= None => EndsAt(last)'
    BY <1>1, <1>2 DEF EndsAt, history
  <1>4. ~Closed' /\ last' = None /\ StoreComplete' => EndsAt(store)'
    BY <1>1, <1>2 DEF EndsAt, history
  <1>5. Closed' => EndsAt(curr)'
    BY <1>1 DEF EndsAt, history, ContiguousParts
  <1> QED
    BY <1>1, <1>3, <1>4, <1>5 DEF ContiguousParts, history, Adjacent

\* Recomputation reads the start of a row from the snapshot its neighbour ends
\* with.
LEMMA ContiguousRecompute ==
  ASSUME TypeOK, WorklistIsStale, ContiguousParts,
         NEW w \in stale, NEW ok \in BOOLEAN, RecomputeRow(w, ok)
  PROVE  ContiguousParts'
  <1>1. /\ UNCHANGED << pc, store, last, curr >> /\ ~Closed /\ ~Closed'
        /\ StoreComplete' = StoreComplete
        /\ Stored' = Stored /\ Captured' = Captured /\ boundarySnapshot' = boundarySnapshot
    BY RecomputeKeepsRows DEF RecomputeRow, config, Closed, StoreComplete
  <1>2. \A v \in Stored : energyWindow'[v].hi = energyWindow[v].hi
    <2>1. CASE ok /\ HasPair(w)
      <3>1. energyWindow[w].hi = boundarySnapshot[w] /\ w \in Stored
        BY <2>1 DEF HasPair, ContiguousParts
      <3> QED BY <2>1, <3>1 DEF RecomputeRow, Recomputed, TypeOK, Stored
    <2>2. CASE ~(ok /\ HasPair(w))
      BY <2>2 DEF RecomputeRow
    <2> QED BY <2>1, <2>2
  <1>3. ASSUME NEW v \in Stored, NEW x \in Stored, Adjacent(v, x)
        PROVE  energyWindow'[x].lo = energyWindow'[v].hi
    <2>1. CASE ok /\ HasPair(w) /\ x = w
      <3> DEFINE u == PreviousWindow(w)
      <3>1. u \in Captured /\ u \in Stored /\ energyWindow[u].hi = boundarySnapshot[u]
        BY <2>1 DEF HasPair, ContiguousParts
      <3>2. energyWindow'[w].lo = boundarySnapshot[u]
        BY <2>1 DEF RecomputeRow, Recomputed, TypeOK, Stored
      <3>3. v = u
        <4>1. v \in Windows /\ w \in Windows /\ v < w /\ ~(v < u /\ u < w)
          BY <2>1, <1>3, <3>1 DEF Adjacent, Stored
        <4>2. v \in Nat /\ w \in Nat /\ u < w /\ u \in Nat
          BY <3>1, <4>1, WindowsAreNat, WindowSecsAssumption DEF PreviousWindow, Stored
        <4>3. v <= u
          BY <4>1, WindowsApart
        <4> HIDE DEF u
        <4> QED BY <4>1, <4>2, <4>3
      <3> QED BY <1>2, <2>1, <3>1, <3>2, <3>3
    <2>2. CASE ~(ok /\ HasPair(w) /\ x = w)
      <3>1. energyWindow'[x] = energyWindow[x]
        BY <2>2 DEF RecomputeRow, TypeOK, Stored
      <3> QED BY <1>2, <1>3, <3>1 DEF ContiguousParts
    <2> QED BY <2>1, <2>2
  <1>4. \A a : EndsAt(a) <=> /\ \A v \in Stored : v < WindowBoundary(a.ts)
                             /\ \A v \in Stored : (\A x \in Stored : x <= v) =>
                                  energyWindow'[v].hi = a
    BY <1>2 DEF EndsAt
  <1>5. (last /= None => EndsAt(last)') /\ (last = None /\ StoreComplete => EndsAt(store)')
    <2>1. last' = last /\ store' = store
      BY <1>1
    <2> QED BY <1>1, <1>4, <2>1 DEF ContiguousParts, EndsAt
  <1>6. \A v, x \in Stored' : Adjacent(v, x)' => energyWindow'[x].lo = energyWindow'[v].hi
    BY <1>1, <1>3 DEF Adjacent
  <1>7. \A v \in Captured' : v \in Stored' /\ energyWindow'[v].hi = boundarySnapshot'[v]
    BY <1>1, <1>2 DEF ContiguousParts
  <1> QED BY <1>1, <1>5, <1>6, <1>7 DEF ContiguousParts

\* The row a crossing stores starts with the reading the latest row ended with.
LEMMA ContiguousClose ==
  ASSUME TypeOK, AnchorParts, ContiguousParts, CloseBare \/ CloseWindow \/ CloseRepair
  PROVE  ContiguousParts'
  <1> DEFINE W == ClosedWindow
  <1>1. /\ W = WindowBoundary(last.ts) /\ W \in Nat /\ WindowBoundary(curr.ts) \in Nat
        /\ W < WindowBoundary(curr.ts)
    BY ClosingStores, StampedBoundary DEF AnchorParts, InCrossing
  <1>2. /\ \A w \in Stored : w \in Nat /\ w < W
        /\ \A w \in Stored : (\A v \in Stored : v <= w) => energyWindow[w].hi = last
    <2>1. EndsAt(last)
      BY ClosingStores DEF ContiguousParts, Closed
    <2> QED BY <1>1, <2>1, WindowsAreNat DEF EndsAt, Stored
  <1>3. W \notin Stored
    BY <1>1, <1>2
  <1>4. energyWindow'[W].lo = last /\ energyWindow'[W].hi = curr
    BY <1>3, ClosingStores DEF ClosedRow
  <1>5. /\ Stored' = Stored \cup {W}
        /\ \A w \in Stored : energyWindow'[w] = energyWindow[w]
    BY ClosingStores
  <1> HIDE DEF W
  <1>6. \A v, w \in Stored' : Adjacent(v, w)' => energyWindow'[w].lo = energyWindow'[v].hi
    <2> SUFFICES ASSUME NEW v \in Stored', NEW w \in Stored', v < w,
                        \A x \in Stored' : ~(v < x /\ x < w)
                 PROVE  energyWindow'[w].lo = energyWindow'[v].hi
      BY DEF Adjacent
    <2>1. CASE w = W
      <3>1. v \in Stored
        BY <1>1, <1>5, <2>1
      <3>2. \A x \in Stored : x <= v
        BY <1>2, <1>5, <2>1, <3>1
      <3> QED BY <1>2, <1>4, <1>5, <2>1, <3>1, <3>2
    <2>2. CASE w /= W
      <3>1. w \in Stored /\ w \in Nat /\ w < W
        BY <1>2, <1>5, <2>2
      <3>2. v \in Stored
        BY <1>1, <1>5, <3>1
      <3>3. Adjacent(v, w)
        BY <1>5 DEF Adjacent
      <3> QED BY <1>5, <3>1, <3>2, <3>3 DEF ContiguousParts
    <2> QED BY <2>1, <2>2
  <1>7. \A w \in Captured' : w \in Stored' /\ energyWindow'[w].hi = boundarySnapshot'[w]
    <2> SUFFICES ASSUME NEW w \in Captured'
                 PROVE  w \in Stored' /\ energyWindow'[w].hi = boundarySnapshot'[w]
      OBVIOUS
    <2>1. CASE w \in Captured
      BY <1>5, <2>1, ClosingStores DEF ContiguousParts
    <2>2. CASE w \notin Captured
      BY <1>4, <1>5, <2>2, ClosingStores DEF W
    <2> QED BY <2>1, <2>2
  <1>8. EndsAt(curr)'
    <2>1. curr' = curr
      BY ClosingStores
    <2>2. \A w \in Stored' : w < WindowBoundary(curr.ts)
      BY <1>1, <1>2, <1>5
    <2>3. \A w \in Stored' : (\A v \in Stored' : v <= w) => w = W
      BY <1>1, <1>2, <1>5
    <2> QED BY <1>4, <2>1, <2>2, <2>3 DEF EndsAt
  <1>9. Closed'
    BY ClosingStores DEF Closed
  <1> QED BY <1>6, <1>7, <1>8, <1>9 DEF ContiguousParts

LEMMA ContiguousNext ==
  TypeOK /\ WorklistIsStale /\ AnchorIsLatest /\ ContiguousInv /\ [Next]_vars => ContiguousInv'
  <1> SUFFICES ASSUME TypeOK, WorklistIsStale, AnchorIsLatest, ContiguousInv, [Next]_vars,
                      faults' \subseteq {"mark", "recompute"}
               PROVE  ContiguousParts'
    BY DEF ContiguousInv, ContiguousParts
  <1>a. AnchorParts /\ ContiguousParts
    BY FaultsGrow DEF AnchorIsLatest, ContiguousInv, ContiguousParts
  <1>1. CASE Crash \/ BootFails
    <2>1. saved = {} /\ UNCHANGED << store, history >> /\ ProcessEnds /\ ~Closed
      BY <1>1, <1>a DEF BootFails, Crash, CutOff, AnchorParts, config, Closed
    <2>2. StoreComplete => EndsAt(store)
      BY <1>a, <2>1 DEF AnchorParts, ContiguousParts, StoreComplete, StoreEmpty
    <2>3. last' = None /\ ~Closed' /\ store' = store /\ StoreComplete' = StoreComplete
      BY <2>1 DEF ProcessEnds, Closed, StoreComplete
    <2>4. Stored = {} \/ StoreComplete
      BY <1>a, <2>1 DEF ContiguousParts
    <2> QED BY <1>a, <2>1, <2>2, <2>3, <2>4, ContiguousKept
  <1>2. ASSUME NEW w \in stale, NEW ok \in BOOLEAN, RecomputeRow(w, ok) PROVE ContiguousParts'
    BY <1>2, <1>a, ContiguousRecompute
  <1>3. CASE Load
    <2>1. /\ ~Closed /\ ~Closed' /\ last = None /\ UNCHANGED << store, history >>
          /\ StoreComplete' = StoreComplete
          /\ (last' = store /\ StoreComplete) \/ (last' = None /\ Fresh)
      BY <1>3, <1>a
      DEF Load, LoadPersistedReading, StoreComplete, config, AnchorParts, Closed
    <2>2. StoreComplete => EndsAt(store)
      BY <1>a, <2>1 DEF ContiguousParts
    <2>3. last' = None => Stored = {}
      BY <2>1, NoneIsNothing DEF Fresh, StoreComplete, TypeOK, Stamped
    <2> QED BY <1>a, <2>1, <2>2, <2>3, ContiguousKept DEF ContiguousParts
  <1>4. ASSUME NEW reading \in Answers, PollFirst(reading) PROVE ContiguousParts'
    <2>1. /\ Fresh /\ ~Closed' /\ UNCHANGED << store, history >>
      BY <1>4, <1>a DEF PollFirst, AnchorParts, process, config, Closed
    <2>2. Stored = {}
      BY <2>1 DEF Fresh
    <2> QED BY <1>a, <2>1, <2>2, ContiguousKept
  <1>5. CASE CloseBare \/ CloseWindow \/ CloseRepair
    BY <1>5, <1>a, ContiguousClose
  <1>6. CASE CloseDuplicate
    <2>1. /\ last \in Stamped /\ last /= None /\ ~Closed /\ ClosedWindow \in Stored
      BY <1>6, ClosedWindowType DEF CloseDuplicate, TypeOK, InCrossing, Stored, Closed
    <2>2. WindowBoundary(last.ts) < WindowBoundary(last.ts)
      BY <1>a, <2>1 DEF ContiguousParts, EndsAt, ClosedWindow
    <2> QED BY <2>1, <2>2, StampedBoundary
  <1>7. CASE CloseFails
    BY <1>7 DEF CloseFails
  <1>8. ASSUME NEW x \in Key, NEW ok \in BOOLEAN, PersistKey(x, ok) PROVE ContiguousParts'
    <2>1. Closed /\ UNCHANGED history
      BY <1>8 DEF PersistKey, Closed
    <2>2. EndsAt(curr)
      BY <1>a, <2>1 DEF ContiguousParts
    <2>3. CASE x /= "exp"
      <3>1. Closed' /\ curr' = curr
        BY <1>8, <2>1, <2>3 DEF PersistKey, Closed
      <3> QED BY <1>a, <2>1, <3>1, ContiguousKept
    <2>4. CASE x = "exp"
      <3>1. pc' = "idle" /\ last' = curr /\ saved' = {}
        BY <1>8, <2>4 DEF PersistKey
      <3>2. last' /= None
        BY <1>8, <3>1 DEF PersistKey, TypeOK, InCrossing
      <3>3. AnchorParts'
        BY AnchorNext DEF AnchorIsLatest
      <3>4. store'[x] = curr[x] /\ curr[x] /= None
        <4>1. ok /\ curr \in Stamped
          BY <1>8 DEF PersistKey, TypeOK, InCrossing
        <4> QED BY <1>8, <4>1, NoneIsNothing DEF PersistKey, TypeOK, Stamped
      <3>5. StoreComplete'
        BY <3>1, <3>3, <3>4 DEF AnchorParts, StoreComplete, StoreEmpty
      <3>6. ~Closed'
        BY <3>1 DEF Closed
      <3> QED BY <1>a, <2>1, <2>2, <3>1, <3>2, <3>5, <3>6, ContiguousKept
    <2> QED BY <2>3, <2>4
  <1>9. CASE \/ Environment /\ ~Crash
             \/ Start \/ Mark \/ Telemetry \/ PollNothing \/ UNCHANGED vars
             \/ \E ok \in BOOLEAN : BootOk(ok)
             \/ \E reading \in Answers : PollCrossing(reading)
    <2>1. /\ UNCHANGED << store, last, history >> /\ (Closed' <=> Closed)
          /\ Closed' => curr' = curr
      BY <1>9
      DEF Environment, Elapse, ClockStep, MeterReplaced, Deploy, Start, Mark, MarkWindow,
          Telemetry, PollNothing, vars, BootOk, PollCrossing, config, process, history, Closed
    <2>2. StoreComplete' = StoreComplete
      BY <2>1 DEF StoreComplete
    <2> QED BY <1>a, <2>1, <2>2, ContiguousKept DEF ContiguousParts
  <1> QED
    BY <1>1, <1>2, <1>3, <1>4, <1>5, <1>6, <1>7, <1>8, <1>9
    DEF Next, Progress, Boot, Recompute, Load, Close, Persist, Poll

\* As long as every crossing stores its row and moves the anchor, each row
\* starts with the very reading the one before it ended with, through any
\* number of windows without a poll, restarts and recomputations: no energy
\* falls between two rows.
THEOREM LedgerHasNoGaps == Spec => []ContiguousLedger
  <1>1. ContiguousInv => ContiguousLedger
    BY DEF ContiguousInv, ContiguousParts, ContiguousLedger
  <1>2. Init => WorklistIsStale
    BY DEF Init, InitFrom, WorklistIsStale
  <1> QED
    BY <1>1, <1>2, TypeInit, TypeNext, WorklistNext, AnchorInit, AnchorNext, ContiguousInit,
       ContiguousNext, PTL DEF Spec

-----------------------------------------------------------------------------
(* No energy is invented, one meter or two. *)

LEMMA WindowsWithinTime == \A w \in Windows : w <= MaxTime
  <1> SUFFICES ASSUME NEW t \in Time PROVE (t \div WindowSecs) * WindowSecs <= MaxTime
    BY DEF Windows, WindowBoundary
  <1>1. t \in Nat /\ t <= MaxTime /\ WindowSecs \in Nat /\ WindowSecs > 0
    BY WindowSecsAssumption, BoundsAssumption DEF Time
  <1>2. (t \div WindowSecs) * WindowSecs <= t /\ (t \div WindowSecs) * WindowSecs \in Int
    BY <1>1
  <1> QED BY <1>1, <1>2, BoundsAssumption

LEMMA FlowInit == Init => FlowInv
  BY DEF Init, InitFrom, FlowInv, Zero

LEMMA FlowNext == TypeOK /\ FlowInv /\ [Next]_vars => FlowInv'
  <1> SUFFICES ASSUME TypeOK, FlowInv, [Next]_vars PROVE FlowInv'
    OBVIOUS
  <1> USE DEF environment
  <1>1. ASSUME NEW inc \in Increments, Elapse(inc) PROVE FlowInv'
    <2>1. \A c \in Counter : meter[c] \in Nat /\ flow[c] \in Nat /\ inc[c] \in Nat
      BY IncrementsAssumption DEF TypeOK
    <2>2. \A c \in Counter : meter'[c] = meter[c] + inc[c] /\ flow'[c] = flow[c] + inc[c]
      BY <1>1 DEF Elapse
    <2>3. faults' = faults
      BY <1>1 DEF Elapse
    <2> QED BY <2>1, <2>2, <2>3 DEF FlowInv
  <1>2. CASE MeterReplaced
    BY <1>2 DEF MeterReplaced, Zero, FlowInv, TypeOK
  <1>3. ASSUME UNCHANGED << meter, flow >> PROVE FlowInv'
    BY <1>3, FaultsGrow DEF FlowInv
  <1>4. CASE Environment
    BY <1>1, <1>2, <1>3, <1>4 DEF Environment, ClockStep, Deploy, Crash
  <1>5. CASE Progress
    BY <1>3, <1>5
    DEF Progress, Boot, Recompute, Load, Close, Mark, Persist, BootFails, BootOk, RecomputeRow,
        LoadPersistedReading, CloseBare, CloseWindow, CloseDuplicate, CloseRepair, CloseFails,
        MarkWindow, Telemetry, PersistKey
  <1>6. CASE Start \/ Poll \/ PollNothing \/ UNCHANGED vars
    BY <1>3, <1>6 DEF Start, Poll, PollFirst, PollCrossing, PollNothing, vars
  <1> QED BY <1>4, <1>5, <1>6 DEF Next

LEMMA OldMeterType ==
  ASSUME TypeOK, FlowInv
  PROVE  OldMeter \in Counters /\ OldMeter \in Measure
  <1>1. \A c \in Counter : flow[c] - meter[c] \in Nat
    BY DEF TypeOK, FlowInv
  <1> QED BY <1>1 DEF OldMeter, Measure

\* Steps that read and write nothing the two meters' parts depend on.
LEMMA MeterKept ==
  ASSUME NEW K, NEW L, NEW old, MeterParts(K, L, old),
         UNCHANGED << history, meter, flow, store, last, curr >>, InCrossing' => InCrossing
  PROVE  MeterParts(K, L, old)'
  <1>1. /\ Stored' = Stored /\ Captured' = Captured /\ OldMeter' = OldMeter
        /\ energyWindow' = energyWindow /\ boundarySnapshot' = boundarySnapshot
        /\ meter' = meter /\ store' = store /\ last' = last /\ curr' = curr
    BY DEF history, Stored, Captured, OldMeter
  <1>2. RowsOfMeters(K)'
    BY <1>1 DEF MeterParts, RowsOfMeters
  <1>3. SnapshotsOfMeters(K, L)'
    BY <1>1 DEF MeterParts, SnapshotsOfMeters
  <1>4. last' /= None => MayOpenOn(K, L, old, last)'
    BY <1>1 DEF MeterParts, MayOpenOn
  <1>5. last' = None /\ StoreComplete' => MayOpenOn(K, L, old, store)'
    BY <1>1 DEF MeterParts, MayOpenOn, StoreComplete
  <1> QED BY <1>1, <1>2, <1>3, <1>4, <1>5 DEF MeterParts

\* Energy flows: the meter in place counts on, the old one does not.
LEMMA MeterElapse ==
  ASSUME TypeOK, NEW K, NEW L, NEW old, MeterParts(K, L, old),
         NEW inc \in Increments, Elapse(inc)
  PROVE  MeterParts(K, L, old)'
  <1>1. \A c \in Counter : meter[c] \in Nat /\ flow[c] \in Nat /\ inc[c] \in Nat
    BY IncrementsAssumption DEF TypeOK
  <1>2. \A c \in Counter : meter'[c] = meter[c] + inc[c] /\ flow'[c] = flow[c] + inc[c]
    BY DEF Elapse
  <1>3. meter' \in Measure /\ Leq(meter, meter')
    <2>1. meter' = [ c \in Counter |-> meter[c] + inc[c] ]
      BY DEF Elapse
    <2>2. meter' \in Counters
      BY <1>1, <2>1
    <2> QED BY <1>1, <1>2, <2>2 DEF Measure, Leq
  <1>4. OldMeter' = OldMeter
    <2>1. \A c \in Counter : flow'[c] - meter'[c] = flow[c] - meter[c]
      BY <1>1, <1>2
    <2> QED BY <2>1 DEF OldMeter
  <1>5. /\ UNCHANGED << energyWindow, boundarySnapshot, store, last, curr >>
        /\ Stored' = Stored /\ Captured' = Captured /\ ~InCrossing'
    BY DEF Elapse, history, config, process, Stored, Captured, Unread, InCrossing
  <1>6. \A a \in Measure : Leq(a, meter) => Leq(a, meter')
    BY <1>3, Measures, LeqTransitive
  <1>7. /\ \A w \in Stored : energyWindow[w].hi \in Measure
        /\ \A w \in Captured : boundarySnapshot[w] \in Measure
        /\ last /= None => last \in Measure
        /\ StoreComplete => store \in Measure
    BY Measures DEF StoreComplete, TypeOK, Measure
  <1>8. RowsOfMeters(K)'
    <2>1. \A w \in Stored : Leq(energyWindow[w].hi, IF w < K THEN OldMeter ELSE meter')
      BY <1>6, <1>7 DEF MeterParts, RowsOfMeters
    <2> QED BY <1>4, <1>5, <2>1 DEF MeterParts, RowsOfMeters
  <1>9. SnapshotsOfMeters(K, L)'
    <2>1. \A w \in Captured : Leq(boundarySnapshot[w], IF w < L THEN OldMeter ELSE meter')
      BY <1>6, <1>7 DEF MeterParts, SnapshotsOfMeters
    <2> QED BY <1>4, <1>5, <2>1 DEF MeterParts, SnapshotsOfMeters
  <1>10. last' /= None => MayOpenOn(K, L, old, last)'
    <2>1. last /= None => Leq(last, IF old THEN OldMeter ELSE meter')
      BY <1>6, <1>7 DEF MeterParts, MayOpenOn
    <2> QED BY <1>4, <1>5, <2>1 DEF MeterParts, MayOpenOn
  <1>11. last' = None /\ StoreComplete' => MayOpenOn(K, L, old, store)'
    <2>1. last = None /\ StoreComplete => Leq(store, IF old THEN OldMeter ELSE meter')
      BY <1>6, <1>7 DEF MeterParts, MayOpenOn
    <2> QED BY <1>4, <1>5, <2>1 DEF MeterParts, MayOpenOn, StoreComplete
  <1> QED BY <1>5, <1>8, <1>9, <1>10, <1>11 DEF MeterParts

\* The meter is replaced: all that is stored, and the anchor, is the old one's.
LEMMA MeterIsReplaced ==
  ASSUME TypeOK, FlowInv, LedgerParts, "meter" \notin faults, MeterReplaced
  PROVE  MeterParts(MaxTime + 1, MaxTime + 1, TRUE)'
  <1> DEFINE K == MaxTime + 1
  <1>1. /\ UNCHANGED << energyWindow, boundarySnapshot, store, last, curr, saved, pc >>
        /\ Stored' = Stored /\ Captured' = Captured /\ ~InCrossing' /\ saved = {}
    BY DEF MeterReplaced, history, config, process, Stored, Captured, Unread, InCrossing,
           LedgerParts, AnchorsMayOpen
  <1>2. OldMeter' = meter
    <2>1. \A c \in Counter : flow'[c] - meter'[c] = meter[c]
      BY DEF MeterReplaced, Zero, FlowInv, TypeOK
    <2> QED BY <2>1 DEF OldMeter, TypeOK
  <1>3. \A w \in Windows : w < K /\ ~ (K <= w)
    BY WindowsWithinTime, WindowsAreNat, BoundsAssumption
  <1>4. Stored \subseteq Windows /\ Captured \subseteq Windows
    BY DEF Stored, Captured
  <1> HIDE DEF K
  <1>5. RowsOfMeters(K)'
    BY <1>1, <1>2, <1>3, <1>4 DEF LedgerParts, RowsOrdered, NothingAboveMeter, RowsOfMeters
  <1>6. SnapshotsOfMeters(K, K)'
    BY <1>1, <1>2, <1>3, <1>4
    DEF LedgerParts, SnapshotsBetweenRows, NothingAboveMeter, SnapshotsOfMeters
  <1>7. last' /= None => MayOpenOn(K, K, TRUE, last)'
    BY <1>1, <1>2, <1>3, <1>4
    DEF LedgerParts, AnchorsMayOpen, MayOpen, NothingAboveMeter, MayOpenOn
  <1>8. last' = None /\ StoreComplete' => MayOpenOn(K, K, TRUE, store)'
    BY <1>1, <1>2, <1>3, <1>4
    DEF LedgerParts, AnchorsMayOpen, MayOpen, NothingAboveMeter, MayOpenOn, StoreComplete
  <1> QED BY <1>1, <1>5, <1>6, <1>7, <1>8 DEF MeterParts, K

\* A row recomputed from its pair of snapshots stays among those of its meter;
\* the row of K starts with a reading of either.
LEMMA MeterRecompute ==
  ASSUME TypeOK, RowsAndSnapshotsAgree, WorklistIsStale, "orphan" \notin faults,
         NEW K \in Int, NEW L \in Int, NEW old, MeterParts(K, L, old),
         NEW w \in stale, NEW ok \in BOOLEAN, RecomputeRow(w, ok)
  PROVE  MeterParts(K, L, old)'
  <1>1. /\ UNCHANGED << boundarySnapshot, meter, flow, store, last, curr, pc >>
        /\ OldMeter' = OldMeter
    BY DEF RecomputeRow, environment, config, OldMeter
  <1>2. CASE ~(ok /\ HasPair(w))
    <2>1. energyWindow' = energyWindow
      BY <1>2 DEF RecomputeRow
    <2> QED BY <1>1, <2>1, MeterKept DEF history, InCrossing
  <1>3. CASE ok /\ HasPair(w)
    <2> DEFINE u == PreviousWindow(w)
               lo == boundarySnapshot[u]
    <2>1. /\ w \in Stored /\ w \in Captured /\ u \in Captured /\ u \in Stored
          /\ energyWindow[w].version > 0
      BY <1>3 DEF WorklistIsStale, StaleRows, IsStale, HasPair, RowsAndSnapshotsAgree
    <2>2. /\ \A v \in Stored \cup Captured : v \in Nat /\ v \in Windows
          /\ u < w
      BY <2>1, WindowsAreNat, WindowSecsAssumption DEF PreviousWindow, Captured, Stored
    <2>3. energyWindow[w].hi = boundarySnapshot[w]
      BY <2>1 DEF RowsAndSnapshotsAgree
    <2>4. Stored' = Stored /\ Captured' = Captured
      BY RecomputeKeepsRows
    <2>5. /\ \A v \in Stored : energyWindow'[v].hi = energyWindow[v].hi
          /\ \A v \in Stored \ {w} : energyWindow'[v].lo = energyWindow[v].lo
          /\ energyWindow'[w].lo = lo
      <3>1. energyWindow' = [energyWindow EXCEPT ![w] = Recomputed(w)]
        BY <1>3 DEF RecomputeRow
      <3>2. Recomputed(w).lo = lo /\ Recomputed(w).hi = boundarySnapshot[w]
        BY DEF Recomputed
      <3> QED BY <2>1, <2>3, <3>1, <3>2 DEF Stored, TypeOK
    <2>6. \A v \in Stored \cup Captured : v < w => v <= u
      BY <2>1, <2>2, WindowsApart
    <2>7. u \in Nat /\ w \in Nat
      BY <2>1, <2>2
    <2> HIDE DEF u
    <2>8. w < K => u < L
      BY <2>1, <2>2 DEF MeterParts, SnapshotsOfMeters
    <2>9. w /= K /\ ~ (w < K) => K <= u /\ L <= u
      <3> SUFFICES ASSUME w /= K, ~ (w < K) PROVE K <= u /\ L <= u
        OBVIOUS
      <3>1. K \in Stored /\ K < w
        BY <2>1, <2>2 DEF MeterParts, RowsOfMeters
      <3>2. K <= u
        BY <2>6, <3>1
      <3> QED BY <2>1, <2>7, <3>2 DEF MeterParts, SnapshotsOfMeters
    <2>10. w /= K => Leq(lo, energyWindow[w].lo)
      BY <2>1, <2>2, <2>8, <2>9 DEF MeterParts, SnapshotsOfMeters
    <2>11. \A v \in Stored : v < w /\ (w < K \/ K <= v) => Leq(energyWindow[v].hi, lo)
      <3> SUFFICES ASSUME NEW v \in Stored, v < w, w < K \/ K <= v
                   PROVE  Leq(energyWindow[v].hi, lo)
        OBVIOUS
      <3>1. v <= u /\ (u < L \/ K <= v)
        BY <2>6, <2>8
      <3> QED BY <2>1, <3>1 DEF MeterParts, SnapshotsOfMeters
    <2>12. \A v \in Captured : v < w /\ (w < K \/ L <= v) => Leq(boundarySnapshot[v], lo)
      <3> SUFFICES ASSUME NEW v \in Captured, v < w, w < K \/ L <= v
                   PROVE  Leq(boundarySnapshot[v], lo)
        OBVIOUS
      <3>1. v <= u /\ (u < L \/ L <= v) /\ v \in Nat
        BY <2>2, <2>6, <2>8
      <3>2. CASE v = u
        BY <2>1, <3>2, Measures, LeqReflexive
      <3>3. CASE v < u
        BY <2>1, <3>1, <3>3 DEF MeterParts, SnapshotsOfMeters
      <3> QED BY <2>7, <3>1, <3>2, <3>3
    <2>13. RowsOfMeters(K)'
      <3>1. \A v \in Stored \ {K} : Leq(energyWindow'[v].lo, energyWindow'[v].hi)
        <4>1. w /= K => Leq(lo, energyWindow[w].hi)
          BY <2>1, <2>10, Measures, LeqTransitive DEF MeterParts, RowsOfMeters
        <4> QED BY <2>5, <4>1 DEF MeterParts, RowsOfMeters
      <3>2. \A v, x \in Stored : v < x /\ (x < K \/ K <= v) =>
              Leq(energyWindow'[v].hi, energyWindow'[x].lo)
        BY <2>5, <2>11 DEF MeterParts, RowsOfMeters
      <3> QED BY <1>1, <2>4, <2>5, <3>1, <3>2 DEF MeterParts, RowsOfMeters
    <2>14. SnapshotsOfMeters(K, L)'
      <3>1. \A v \in Captured, x \in Stored : v < x =>
              /\ x < K => v < L
              /\ x < K \/ L <= v => Leq(boundarySnapshot[v], energyWindow'[x].lo)
        BY <2>5, <2>12 DEF MeterParts, SnapshotsOfMeters
      <3> QED BY <1>1, <2>4, <2>5, <3>1 DEF MeterParts, SnapshotsOfMeters
    <2>15. last' /= None => MayOpenOn(K, L, old, last)'
      BY <1>1, <2>4, <2>5 DEF MeterParts, MayOpenOn
    <2>16. last' = None /\ StoreComplete' => MayOpenOn(K, L, old, store)'
      BY <1>1, <2>4, <2>5 DEF MeterParts, MayOpenOn, StoreComplete
    <2> QED
      BY <1>1, <2>13, <2>14, <2>15, <2>16 DEF MeterParts, InCrossing
  <1> QED BY <1>2, <1>3

\* The current reading carries the counters of the meter in place.
LEMMA ReadingOfMeter ==
  ASSUME TypeOK, NEW a \in Measure, \A c \in Counter : a[c] = meter[c]
  PROVE  Leq(a, meter) /\ \A b : Leq(b, meter) => Leq(b, a)
  <1>1. Leq(a, meter)
    BY LeqReflexive DEF Leq, Measure
  <1> QED BY <1>1 DEF Leq

\* The anchor is read back, or a first reading becomes one, or a crossing begins.
LEMMA MeterReads ==
  ASSUME TypeOK, RowsAndSnapshotsAgree, AnchorParts, "orphan" \notin faults,
         "anchor" \notin faults',
         NEW K, NEW L, NEW old \in BOOLEAN, MeterParts(K, L, old),
         Load \/ PollFirst(CurrentReading) \/ PollCrossing(CurrentReading)
  PROVE  \E now \in BOOLEAN : MeterParts(K, L, now)'
  <1>1. /\ UNCHANGED << energyWindow, boundarySnapshot, meter, flow, store >>
        /\ Stored' = Stored /\ Captured' = Captured /\ OldMeter' = OldMeter
    BY DEF Load, LoadPersistedReading, PollFirst, PollCrossing, history, config, environment,
           Stored, Captured, OldMeter
  <1>2. RowsOfMeters(K)' /\ SnapshotsOfMeters(K, L)'
    BY <1>1 DEF MeterParts, RowsOfMeters, SnapshotsOfMeters
  <1>3. CurrentReading \in Measure /\ CurrentReading /= None
    BY CurrentReadingType, NoneIsNothing DEF Measure, Stamped
  <1>4. \A c \in Counter : CurrentReading[c] = meter[c]
    BY DEF CurrentReading, ReadingAt
  <1>5. CASE Load
    <2>1. pc = "recompute" /\ pc' = "idle" /\ last = None
      BY <1>5 DEF Load, LoadPersistedReading, AnchorParts
    <2>2. (last' = store /\ StoreComplete) \/ (last' = None /\ Fresh)
      BY <1>5 DEF Load, LoadPersistedReading, StoreComplete
    <2>3. StoreComplete => MayOpenOn(K, L, old, store)'
      BY <1>1, <2>1 DEF MeterParts, MayOpenOn
    <2>4. MeterParts(K, L, old)'
      BY <1>1, <1>2, <2>1, <2>2, <2>3 DEF MeterParts, MayOpenOn, StoreComplete, InCrossing
    <2> QED BY <2>4
  <1>6. CASE PollFirst(CurrentReading)
    <2>1. pc' = "idle" /\ last' = CurrentReading /\ Fresh
      BY <1>6 DEF PollFirst, AnchorParts, process
    <2>2. Stored = {} /\ Captured = {}
      BY <2>1 DEF Fresh, RowsAndSnapshotsAgree
    <2>3. Leq(CurrentReading, meter)
      BY <1>3, <1>4, ReadingOfMeter
    <2>4. MayOpenOn(K, L, FALSE, last)'
      BY <1>1, <2>1, <2>2, <2>3 DEF MayOpenOn
    <2>5. MeterParts(K, L, FALSE)'
      BY <1>2, <1>3, <2>1, <2>4 DEF MeterParts, InCrossing
    <2> QED BY <2>5
  <1>7. CASE PollCrossing(CurrentReading)
    <2>1. last /= None /\ last' = last /\ curr' = CurrentReading
      BY <1>7 DEF PollCrossing
    <2>2. MayOpenOn(K, L, old, last)'
      BY <1>1, <2>1 DEF MeterParts, MayOpenOn
    <2>3. \A c \in Counter : curr'[c] = meter'[c]
      BY <1>1, <1>4, <2>1
    <2>4. MeterParts(K, L, old)'
      BY <1>2, <2>1, <2>2, <2>3 DEF MeterParts
    <2> QED BY <2>4
  <1> QED BY <1>5, <1>6, <1>7

\* When the anchor has moved it is a reading of the meter in place.
LEMMA MeterPersist ==
  ASSUME TypeOK, NEW K \in Int, NEW L \in Int, NEW old \in BOOLEAN, MeterParts(K, L, old),
         NEW x \in Key, NEW ok \in BOOLEAN, PersistKey(x, ok)
  PROVE  \E now \in BOOLEAN : MeterParts(K, L, now)'
  <1>1. /\ UNCHANGED << energyWindow, boundarySnapshot, meter, flow >>
        /\ Stored' = Stored /\ Captured' = Captured /\ OldMeter' = OldMeter
        /\ pc = "persist" /\ InCrossing
    BY DEF PersistKey, history, environment, Stored, Captured, OldMeter, InCrossing
  <1>2. RowsOfMeters(K)' /\ SnapshotsOfMeters(K, L)'
    BY <1>1 DEF MeterParts, RowsOfMeters, SnapshotsOfMeters
  <1>3. last /= None /\ curr /= None /\ curr \in Measure
    BY <1>1, Measures DEF TypeOK
  <1>4. CASE x /= "exp"
    <2>1. UNCHANGED << pc, last, curr >>
      BY <1>4 DEF PersistKey
    <2>2. MayOpenOn(K, L, old, last)'
      BY <1>1, <1>3, <2>1 DEF MeterParts, MayOpenOn
    <2>3. MeterParts(K, L, old)'
      BY <1>1, <1>2, <1>3, <2>1, <2>2 DEF MeterParts
    <2> QED BY <2>3
  <1>5. CASE x = "exp"
    <2>1. pc' = "idle" /\ last' = curr
      BY <1>5 DEF PersistKey
    <2>2. Leq(curr, meter) /\ \A b : Leq(b, meter) => Leq(b, curr)
      BY <1>1, <1>3, ReadingOfMeter DEF MeterParts
    <2>3. MayOpenOn(K, L, FALSE, curr)
      <3>1. \A w \in Stored : K <= w => Leq(energyWindow[w].hi, curr)
        <4>1. \A w \in Stored : K <= w => ~ (w < K)
          BY WindowsAreNat DEF Stored
        <4> QED BY <2>2, <4>1 DEF MeterParts, RowsOfMeters
      <3>2. \A w \in Captured : L <= w => Leq(boundarySnapshot[w], curr)
        <4>1. \A w \in Captured : L <= w => ~ (w < L)
          BY WindowsAreNat DEF Captured
        <4> QED BY <2>2, <4>1 DEF MeterParts, SnapshotsOfMeters
      <3> QED BY <2>2, <3>1, <3>2 DEF MayOpenOn
    <2>4. MayOpenOn(K, L, FALSE, last)'
      BY <1>1, <2>1, <2>3 DEF MayOpenOn
    <2>5. MeterParts(K, L, FALSE)'
      BY <1>2, <1>3, <2>1, <2>4 DEF MeterParts, InCrossing
    <2> QED BY <2>5
  <1> QED BY <1>4, <1>5

\* The process ends before the first or after the last of the four writes.
LEMMA MeterProcessEnds ==
  ASSUME AnchorParts, saved = {}, NEW K, NEW L, NEW old, MeterParts(K, L, old),
         ProcessEnds, UNCHANGED << history, meter, flow, store >>
  PROVE  MeterParts(K, L, old)'
  <1>1. /\ Stored' = Stored /\ Captured' = Captured /\ OldMeter' = OldMeter
        /\ energyWindow' = energyWindow /\ boundarySnapshot' = boundarySnapshot
        /\ meter' = meter /\ store' = store
    BY DEF history, Stored, Captured, OldMeter
  <1>2. RowsOfMeters(K)' /\ SnapshotsOfMeters(K, L)'
    BY <1>1 DEF MeterParts, RowsOfMeters, SnapshotsOfMeters
  <1>3. StoreComplete => MayOpenOn(K, L, old, store)
    <2>1. CASE last = None
      BY <2>1 DEF MeterParts
    <2>2. CASE last /= None /\ store = last
      BY <2>2 DEF MeterParts
    <2>3. CASE StoreEmpty
      BY <2>3 DEF StoreEmpty, StoreComplete
    <2> QED BY <2>1, <2>2, <2>3 DEF AnchorParts
  <1>4. StoreComplete' => MayOpenOn(K, L, old, store)'
    BY <1>1, <1>3 DEF MayOpenOn, StoreComplete
  <1> QED BY <1>2, <1>4 DEF MeterParts, ProcessEnds, InCrossing

\* A crossing stores its row and its snapshot as those of the meter in place,
\* beginning with the old meter's reading perhaps: they are the first of the
\* new one unless there are some already.
LEMMA MeterClose ==
  ASSUME TypeOK, RowsAndSnapshotsAgree, AnchorParts, "orphan" \notin faults,
         NEW K \in 0 .. MaxTime + 1, NEW L \in 0 .. MaxTime + 1, NEW old \in BOOLEAN,
         MeterParts(K, L, old), CloseBare \/ CloseWindow
  PROVE  \E M, N \in 0 .. MaxTime + 1 : MeterParts(M, N, old)'
  <1> DEFINE W == ClosedWindow
             row == W \notin Stored
             snapshot == W \in Captured' \ Captured
  <1>1. /\ UNCHANGED << meter, flow, store, last, curr >>
        /\ pc = "window" /\ pc' = "mark" /\ InCrossing /\ OldMeter' = OldMeter
    BY DEF CloseBare, CloseWindow, environment, config, InCrossing, OldMeter
  <1>2. /\ last \in Stamped /\ curr \in Stamped /\ last /= None /\ curr /= None
        /\ W \in Windows /\ W = WindowBoundary(last.ts)
        /\ last \in Measure /\ curr \in Measure
    BY ClosingStores, Measures
  <1>3. /\ Stored' = Stored \cup {W}
        /\ \A w \in Stored : energyWindow'[w] = energyWindow[w]
        /\ Captured \subseteq Captured' /\ Captured' \subseteq Captured \cup {W}
        /\ \A w \in Captured : boundarySnapshot'[w] = boundarySnapshot[w]
        /\ snapshot => boundarySnapshot'[W] = curr
    BY ClosingStores
  <1>4. row => energyWindow'[W].lo = last /\ energyWindow'[W].hi = curr
    BY ClosingStores DEF ClosedRow
  <1>5. Captured \subseteq Stored /\ \A w \in Stored : w <= W
    BY <1>1, <1>2 DEF RowsAndSnapshotsAgree, AnchorParts, Latest
  <1>6. W \in Nat /\ W <= MaxTime /\ \A w \in Stored \cup Captured : w \in Nat
    BY <1>2, WindowsAreNat, WindowsWithinTime, Measures
  <1>7. Leq(curr, meter) /\ \A b : Leq(b, meter) => Leq(b, curr)
    BY <1>1, <1>2, ReadingOfMeter DEF MeterParts
  <1>8. MayOpenOn(K, L, old, last)
    BY <1>2 DEF MeterParts
  <1>9. PICK M \in 0 .. MaxTime + 1, N \in 0 .. MaxTime + 1 :
           /\ M = IF row /\ W < K THEN W ELSE K
           /\ N = IF snapshot /\ W < L THEN W ELSE L
           /\ M \in Int /\ N \in Int /\ K \in Int /\ L \in Int
    <2>1. \A x \in {W, K, L} : x \in 0 .. MaxTime + 1
      BY <1>6, BoundsAssumption
    <2>2. 0 .. MaxTime + 1 \subseteq Int
      BY BoundsAssumption
    <2> QED BY <2>1, <2>2
  \* Of the rows and snapshots that were there, those at or after the new cuts
  \* are at or after the old ones.
  <1>10. /\ \A w \in Stored : w < M <=> w < K
         /\ \A w \in Captured : w < N <=> w < L
         /\ row => M <= W
         /\ snapshot => N <= W
    BY <1>5, <1>6, <1>9
  <1>11. /\ row => \A w \in Stored : w < W
         /\ \A w \in Captured : snapshot => w < W
         /\ row => W \notin Captured
    BY <1>5, <1>6
  <1> HIDE DEF W, row, snapshot
  <1>12. RowsOfMeters(M)'
    <2>1. M \in Stored' \/ \A w \in Windows : w < M
      BY <1>3, <1>5, <1>6, <1>9 DEF MeterParts, RowsOfMeters, row
    <2>2. \A w \in Stored' : Leq(energyWindow'[w].hi, IF w < M THEN OldMeter ELSE meter)
      <3>1. \A w \in Stored : Leq(energyWindow[w].hi, IF w < M THEN OldMeter ELSE meter)
        BY <1>10 DEF MeterParts, RowsOfMeters
      <3>2. row => ~ (W < M)
        BY <1>6, <1>9, <1>10
      <3> QED BY <1>3, <1>4, <1>7, <3>1, <3>2 DEF row
    <2>3. \A w \in Stored' \ {M} : Leq(energyWindow'[w].lo, energyWindow'[w].hi)
      <3>1. \A w \in Stored \ {M} : Leq(energyWindow[w].lo, energyWindow[w].hi)
        <4>1. ASSUME K \in Stored, M /= K PROVE FALSE
          BY <1>5, <1>6, <1>9, <4>1 DEF row
        <4> QED BY <4>1 DEF MeterParts, RowsOfMeters
      <3>2. ASSUME row, W /= M PROVE Leq(last, curr)
        <4>1. M = K /\ K < W
          BY <1>6, <1>9, <3>2
        <4>2. K \in Stored
          BY <1>2, <1>6, <1>9, <4>1 DEF MeterParts, RowsOfMeters
        <4>3. ~old
          BY <1>2, <1>8, <1>9, <4>1, <4>2 DEF MayOpenOn
        <4> QED BY <1>7, <1>8, <4>3 DEF MayOpenOn
      <3> QED BY <1>3, <1>4, <3>1, <3>2 DEF row
    <2>4. \A v, w \in Stored' : v < w /\ (w < M \/ M <= v) =>
            Leq(energyWindow'[v].hi, energyWindow'[w].lo)
      <3>1. \A v, w \in Stored : v < w /\ (w < M \/ M <= v) =>
              Leq(energyWindow[v].hi, energyWindow[w].lo)
        BY <1>6, <1>9, <1>10 DEF MeterParts, RowsOfMeters
      <3>2. ASSUME row, NEW v \in Stored, W < M \/ M <= v PROVE Leq(energyWindow[v].hi, last)
        <4>1. K <= v /\ v < W
          BY <1>6, <1>9, <1>10, <1>11, <3>2
        <4> QED BY <1>2, <1>8, <4>1 DEF MayOpenOn
      <3>3. row => \A w \in Stored' : ~ (W < w)
        BY <1>3, <1>6, <1>11
      <3> QED BY <1>3, <1>4, <3>1, <3>2, <3>3 DEF row
    <2> QED BY <1>1, <2>1, <2>2, <2>3, <2>4 DEF RowsOfMeters
  <1>13. SnapshotsOfMeters(M, N)'
    <2>1. \A w \in Captured' : Leq(boundarySnapshot'[w], IF w < N THEN OldMeter ELSE meter)
      <3>1. \A w \in Captured : Leq(boundarySnapshot[w], IF w < N THEN OldMeter ELSE meter)
        BY <1>10 DEF MeterParts, SnapshotsOfMeters
      <3>2. snapshot => ~ (W < N)
        BY <1>6, <1>9, <1>10
      <3> QED BY <1>3, <1>7, <3>1, <3>2 DEF snapshot
    <2>2. \A v, w \in Captured' : v < w /\ (w < N \/ N <= v) =>
            Leq(boundarySnapshot'[v], boundarySnapshot'[w])
      <3>1. \A v, w \in Captured : v < w /\ (w < N \/ N <= v) =>
              Leq(boundarySnapshot[v], boundarySnapshot[w])
        BY <1>6, <1>9, <1>10 DEF MeterParts, SnapshotsOfMeters
      <3>2. ASSUME snapshot, NEW v \in Captured, W < N \/ N <= v
            PROVE  Leq(boundarySnapshot[v], curr)
        <4>1. ~ (v < L)
          BY <1>6, <1>9, <1>10, <3>2
        <4> QED BY <1>7, <4>1 DEF MeterParts, SnapshotsOfMeters
      <3>3. snapshot => \A w \in Captured' : ~ (W < w)
        BY <1>3, <1>6, <1>11
      <3> QED BY <1>3, <3>1, <3>2, <3>3 DEF snapshot
    <2>3. \A v \in Captured', w \in Stored' : v < w =>
            /\ w < M => v < N
            /\ w < M \/ N <= v => Leq(boundarySnapshot'[v], energyWindow'[w].lo)
      <3> SUFFICES ASSUME NEW v \in Captured', NEW w \in Stored', v < w
                   PROVE  /\ w < M => v < N
                          /\ w < M \/ N <= v => Leq(boundarySnapshot'[v], energyWindow'[w].lo)
        OBVIOUS
      <3>1. v \in Captured /\ v < W
        BY <1>3, <1>5, <1>6
      <3>2. CASE w \in Stored
        <4>1. w < K => v < L
          BY <3>1, <3>2 DEF MeterParts, SnapshotsOfMeters
        <4>2. w < K \/ L <= v => Leq(boundarySnapshot[v], energyWindow[w].lo)
          BY <3>1, <3>2 DEF MeterParts, SnapshotsOfMeters
        <4> QED BY <1>3, <1>6, <1>9, <1>10, <3>1, <3>2, <4>1, <4>2
      <3>3. CASE w \notin Stored
        <4>1. w = W /\ row /\ ~ (w < M)
          BY <1>3, <1>6, <1>9, <1>10, <3>3 DEF row
        <4>2. N <= v => Leq(boundarySnapshot[v], last)
          BY <1>2, <1>6, <1>8, <1>9, <1>10, <3>1 DEF MayOpenOn
        <4> QED BY <1>3, <1>4, <3>1, <4>1, <4>2
      <3> QED BY <3>2, <3>3
    <2>4. \A v \in Stored', w \in Captured' : v <= w =>
            /\ M <= v => N <= w
            /\ w < N \/ M <= v => Leq(energyWindow'[v].hi, boundarySnapshot'[w])
      <3> SUFFICES ASSUME NEW v \in Stored', NEW w \in Captured', v <= w
                   PROVE  /\ M <= v => N <= w
                          /\ w < N \/ M <= v => Leq(energyWindow'[v].hi, boundarySnapshot'[w])
        OBVIOUS
      <3>1. CASE v \in Stored /\ w \in Captured
        <4>1. K <= v => L <= w
          BY <3>1 DEF MeterParts, SnapshotsOfMeters
        <4>2. w < L \/ K <= v => Leq(energyWindow[v].hi, boundarySnapshot[w])
          BY <3>1 DEF MeterParts, SnapshotsOfMeters
        <4> QED BY <1>3, <1>6, <1>9, <1>10, <3>1, <4>1, <4>2
      <3>2. CASE v \in Stored /\ w \notin Captured
        <4>1. w = W /\ snapshot /\ ~ (w < N) /\ N <= w
          BY <1>3, <1>6, <1>9, <1>10, <3>2 DEF snapshot
        <4>2. M <= v => ~ (v < K)
          BY <1>6, <1>9, <1>10, <3>2
        <4>3. M <= v => Leq(energyWindow[v].hi, curr)
          BY <1>7, <3>2, <4>2 DEF MeterParts, RowsOfMeters
        <4> QED BY <1>3, <3>2, <4>1, <4>3
      <3>3. CASE v \notin Stored
        <4>1. v = W /\ row
          BY <1>3, <3>3 DEF row
        <4>2. w = W /\ snapshot
          BY <1>3, <1>5, <1>6, <1>11, <4>1 DEF snapshot
        <4>3. N <= w /\ ~ (w < N)
          BY <1>6, <1>9, <1>10, <4>2
        <4> QED BY <1>2, <1>3, <1>4, <4>1, <4>2, <4>3, LeqReflexive
      <3> QED BY <3>1, <3>2, <3>3
    <2> QED BY <1>1, <2>1, <2>2, <2>3, <2>4 DEF SnapshotsOfMeters
  <1>14. MayOpenOn(M, N, old, last)'
    <2>1. \A w \in Stored' : w < W =>
            /\ old => w < M
            /\ old \/ M <= w => Leq(energyWindow'[w].hi, last)
      <3> SUFFICES ASSUME NEW w \in Stored', w < W
                   PROVE  /\ old => w < M
                          /\ old \/ M <= w => Leq(energyWindow'[w].hi, last)
        OBVIOUS
      <3>1. w \in Stored
        BY <1>3, <1>6
      <3>2. (old => w < K) /\ (old \/ K <= w => Leq(energyWindow[w].hi, last))
        BY <1>2, <1>8, <3>1 DEF MayOpenOn
      <3> QED BY <1>3, <1>6, <1>9, <1>10, <3>1, <3>2
    <2>2. \A w \in Captured' : w < W =>
            /\ old => w < N
            /\ old \/ N <= w => Leq(boundarySnapshot'[w], last)
      <3> SUFFICES ASSUME NEW w \in Captured', w < W
                   PROVE  /\ old => w < N
                          /\ old \/ N <= w => Leq(boundarySnapshot'[w], last)
        OBVIOUS
      <3>1. w \in Captured
        BY <1>3, <1>6
      <3>2. (old => w < L) /\ (old \/ L <= w => Leq(boundarySnapshot[w], last))
        BY <1>2, <1>8, <3>1 DEF MayOpenOn
      <3> QED BY <1>3, <1>6, <1>9, <1>10, <3>1, <3>2
    <2> QED BY <1>1, <1>2, <1>8, <2>1, <2>2 DEF MayOpenOn
  <1>15. MeterParts(M, N, old)'
    BY <1>1, <1>2, <1>12, <1>13, <1>14 DEF MeterParts
  <1> QED BY <1>9, <1>15

LEMMA MeterNext ==
  TypeOK /\ RowsAndSnapshotsAgree /\ WorklistIsStale /\ AnchorIsLatest /\ LedgerInv
    /\ FlowInv /\ MeterInv /\ [Next]_vars => MeterInv'
  <1> SUFFICES ASSUME TypeOK, RowsAndSnapshotsAgree, WorklistIsStale, AnchorIsLatest,
                      LedgerInv, FlowInv, MeterInv, [Next]_vars, "meter" \in faults',
                      faults' \cap {"anchor", "reading", "orphan"} = {}
               PROVE  (\E K, L \in 0 .. MaxTime + 1, old \in BOOLEAN : MeterParts(K, L, old))'
    BY DEF MeterInv
  <1> DEFINE Told == \E K, L \in 0 .. MaxTime + 1, old \in BOOLEAN : MeterParts(K, L, old)
  <1>a. faults \cap {"anchor", "reading", "orphan"} = {} /\ AnchorParts
    BY FaultsGrow DEF AnchorIsLatest
  <1>b. CASE "meter" \notin faults
    <2>1. LedgerParts
      BY <1>a, <1>b DEF LedgerInv, Intact
    <2>2. MeterReplaced
      <3>1. CASE Environment
        BY <1>b, <3>1 DEF Environment, Elapse, ClockStep, Deploy, Crash, CutOff
      <3>2. CASE Progress
        BY <1>b, <3>2
        DEF Progress, Boot, Recompute, Load, Close, Mark, Persist, BootFails, BootOk,
            RecomputeRow, LoadPersistedReading, CloseBare, CloseWindow, CloseDuplicate,
            CloseRepair, CloseFails, MarkWindow, Telemetry, PersistKey
      <3>3. CASE Start \/ Poll \/ PollNothing \/ UNCHANGED vars
        BY <1>b, <3>3 DEF Start, Poll, PollFirst, PollCrossing, Judge, PollNothing, vars
      <3> QED BY <3>1, <3>2, <3>3 DEF Next
    <2>3. MeterParts(MaxTime + 1, MaxTime + 1, TRUE)'
      BY <1>b, <2>1, <2>2, MeterIsReplaced
    <2>4. MaxTime + 1 \in 0 .. MaxTime + 1
      BY BoundsAssumption
    <2> QED BY <2>3, <2>4
  <1>c. CASE "meter" \in faults
    <2>1. PICK K \in 0 .. MaxTime + 1, L \in 0 .. MaxTime + 1, old \in BOOLEAN :
            MeterParts(K, L, old)
      BY <1>a, <1>c DEF MeterInv
    <2>2. K \in Int /\ L \in Int
      BY BoundsAssumption
    <2>3. ASSUME UNCHANGED << history, meter, flow, store, last, curr >>,
                 InCrossing' => InCrossing
          PROVE  Told'
      BY <2>1, <2>3, MeterKept
    <2>4. ASSUME saved = {}, ProcessEnds, UNCHANGED << history, meter, flow, store >>
          PROVE  Told'
      BY <1>a, <2>1, <2>4, MeterProcessEnds
    <2>5. CASE Environment
      <3>1. ASSUME NEW inc \in Increments, Elapse(inc) PROVE Told'
        BY <2>1, <3>1, MeterElapse
      <3>2. CASE Crash
        <4>1. saved = {}
          BY <3>2 DEF Crash, CutOff
        <4> QED BY <2>4, <3>2, <4>1 DEF Crash, environment, config
      <3>3. ASSUME ~Crash, \A inc \in Increments : ~Elapse(inc) PROVE Told'
        BY <1>c, <2>3, <2>5, <3>3
        DEF Environment, ClockStep, MeterReplaced, Deploy, environment, config, process,
            InCrossing
      <3> QED BY <3>1, <3>2, <3>3
    <2>6. CASE Boot
      <3>1. CASE BootFails
        <4>1. saved = {}
          BY <1>a, <3>1 DEF BootFails, AnchorParts
        <4> QED BY <2>4, <3>1, <4>1 DEF BootFails, environment, config
      <3>2. ASSUME NEW ok \in BOOLEAN, BootOk(ok) PROVE Told'
        BY <2>3, <3>2 DEF BootOk, environment, config, InCrossing
      <3> QED BY <2>6, <3>1, <3>2 DEF Boot
    <2>7. CASE Recompute
      BY <1>a, <2>1, <2>2, <2>7, MeterRecompute DEF Recompute
    <2>8. CASE Load \/ Poll
      <3>1. ASSUME NEW reading \in Answers, Judge(reading) PROVE reading = CurrentReading
        BY <3>1 DEF Judge
      <3>2. Load \/ PollFirst(CurrentReading) \/ PollCrossing(CurrentReading)
        BY <2>8, <3>1 DEF Poll, PollFirst, PollCrossing
      <3>3. \E now \in BOOLEAN : MeterParts(K, L, now)'
        BY <1>a, <2>1, <3>2, MeterReads
      <3> QED BY <3>3
    <2>9. CASE CloseBare \/ CloseWindow
      <3>1. \E M, N \in 0 .. MaxTime + 1 : MeterParts(M, N, old)'
        BY <1>a, <2>1, <2>9, MeterClose
      <3> QED BY <3>1
    <2>10. CASE CloseRepair
      <3>1. ClosedWindow \in Captured /\ ClosedWindow \notin Stored
        BY <2>10, ClosedWindowType DEF CloseRepair, TypeOK, InCrossing, Captured, Stored
      <3> QED BY <1>a, <3>1 DEF RowsAndSnapshotsAgree
    <2>11. CASE CloseDuplicate \/ CloseFails \/ Mark \/ Telemetry
      BY <2>3, <2>11
      DEF CloseDuplicate, CloseFails, Mark, MarkWindow, Telemetry, environment, config,
          InCrossing
    <2>12. ASSUME NEW x \in Key, NEW ok \in BOOLEAN, PersistKey(x, ok) PROVE Told'
      <3>1. \E now \in BOOLEAN : MeterParts(K, L, now)'
        BY <2>1, <2>2, <2>12, MeterPersist
      <3> QED BY <3>1
    <2>13. CASE Start \/ PollNothing \/ UNCHANGED vars
      BY <2>3, <2>13
      DEF Start, PollNothing, vars, environment, config, process, InCrossing
    <2> QED
      BY <2>5, <2>6, <2>7, <2>8, <2>9, <2>10, <2>11, <2>12, <2>13
      DEF Next, Progress, Close, Persist
  <1> QED BY <1>b, <1>c

LEMMA MeterInit == Init => MeterInv
  BY DEF Init, InitFrom, MeterInv

\* After the replacement of a meter, whatever crashes, failed writes, clock
\* steps and recomputations come with it, the windows tell the readings of the
\* old meter from those of the new one, and only one row can start with the one
\* and end with the other.
THEOREM MetersAreToldApart == Spec => [](FlowInv /\ MeterInv)
  <1>1. Init => WorklistIsStale
    BY DEF Init, InitFrom, WorklistIsStale
  <1> QED
    BY <1>1, TypeInit, TypeNext, AgreeInit, AgreeNext, WorklistNext, LedgerInit, LedgerNext,
       AnchorInit, AnchorNext, FlowInit, FlowNext, MeterInit, MeterNext, PTL DEF Spec

-----------------------------------------------------------------------------
(* The sum of the rows. *)

LEMMA AccountedIsSum ==
  ASSUME NEW c
  PROVE  Accounted(c) =
           Sum([ w \in Stored |-> Delta(energyWindow[w].lo, energyWindow[w].hi, c) ], Stored)
  <1> DEFINE f == [ w \in Stored |-> Delta(energyWindow[w].lo, energyWindow[w].hi, c) ]
  <1>1. DOMAIN f = Stored /\ Accounted(c) = SumFunction(f)
    BY DEF Accounted
  <1> HIDE DEF f
  <1>2. Accounted(c) = Sum(f, Stored)
    BY <1>1 DEF SumFunction, Sum
  <1> QED BY <1>2 DEF f

LEMMA StoredIsFinite == Stored \in SUBSET Nat /\ IsFiniteSet(Stored)
  <1>1. \A w \in Stored : w \in Nat /\ w <= MaxTime
    BY WindowsAreNat, WindowsWithinTime DEF Stored
  <1>2. Stored \subseteq 0 .. MaxTime
    BY <1>1, BoundsAssumption
  <1>3. IsFiniteSet(0 .. MaxTime)
    BY BoundsAssumption, FS_Interval
  <1> QED BY <1>1, <1>2, <1>3, FS_Subset

\* Rows that run forward and do not overlap account for no more than the counter
\* they stop at has counted, the first of them, k, whatever it starts with.
LEMMA RowsFit ==
  ASSUME TypeOK, NEW c \in Counter, NEW S \in SUBSET Stored,
         NEW f, \A w \in S : f[w] = Delta(energyWindow[w].lo, energyWindow[w].hi, c),
         NEW k, k \in S => \A w \in S : k <= w,
         \A w \in S \ {k} : Leq(energyWindow[w].lo, energyWindow[w].hi),
         \A v \in S, w \in S \ {k} : v < w => Leq(energyWindow[v].hi, energyWindow[w].lo),
         NEW top \in Counters, \A w \in S : Leq(energyWindow[w].hi, top)
  PROVE  IsFiniteSet(S) /\ Whole(f, S) /\ Sum(f, S) <= top[c]
  <1> DEFINE hi == [ w \in S |-> energyWindow[w].hi[c] ]
             lo == [ w \in S |-> IF w = k THEN AtLeastZero(energyWindow[w].hi[c] - f[w])
                                          ELSE energyWindow[w].lo[c] ]
  <1>1. S \in SUBSET Nat
    BY StoredIsFinite
  <1>2. IsFiniteSet(S)
    BY StoredIsFinite, FS_Subset
  <1>3. \A w \in S : energyWindow[w].lo[c] \in Nat /\ energyWindow[w].hi[c] \in Nat
    BY DEF TypeOK, Stored, Row, Stamped
  <1>4. \A w \in S : /\ f[w] \in Nat
                     /\ f[w] <= energyWindow[w].hi[c]
                     /\ energyWindow[w].lo[c] <= energyWindow[w].hi[c]
                          => f[w] = energyWindow[w].hi[c] - energyWindow[w].lo[c]
    BY <1>3 DEF Delta, AtLeastZero
  <1>5. \A w \in S \ {k} : energyWindow[w].lo[c] <= energyWindow[w].hi[c]
    BY DEF Leq
  <1>6. /\ \A w \in S : lo[w] \in Nat /\ hi[w] \in Nat /\ lo[w] <= hi[w]
        /\ \A w \in S : f[w] <= hi[w] - lo[w]
    BY <1>3, <1>4, <1>5 DEF AtLeastZero
  <1>7. \A v, w \in S : v < w => hi[v] <= lo[w]
    <2> SUFFICES ASSUME NEW v \in S, NEW w \in S, v < w PROVE hi[v] <= lo[w]
      OBVIOUS
    <2>1. w /= k
      BY <1>1
    <2>2. Leq(energyWindow[v].hi, energyWindow[w].lo)
      BY <2>1
    <2> QED BY <2>1, <2>2 DEF Leq
  <1>8. Stretches(S, lo, hi)
    <2> HIDE DEF lo, hi
    <2> QED BY <1>6, <1>7 DEF Stretches
  <1>9. Whole(f, S)
    BY <1>4 DEF Whole
  <1>10. top[c] \in Nat /\ \A w \in S : hi[w] <= top[c]
    BY DEF Leq
  <1> HIDE DEF lo, hi
  <1>11. Sum(f, S) <= top[c]
    BY <1>1, <1>2, <1>6, <1>8, <1>9, <1>10, StretchesFit
  <1> QED BY <1>2, <1>9, <1>11

LEMMA RowsOfBothMetersFit ==
  ASSUME TypeOK, LedgerInv, FlowInv, MeterInv,
         faults \cap {"anchor", "reading", "orphan"} = {}, NEW c \in Counter
  PROVE  Accounted(c) <= flow[c]
  <1> DEFINE f == [ w \in Stored |-> Delta(energyWindow[w].lo, energyWindow[w].hi, c) ]
  <1>1. Accounted(c) = Sum(f, Stored)
    BY AccountedIsSum
  <1>2. \A w \in Stored : f[w] = Delta(energyWindow[w].lo, energyWindow[w].hi, c)
    OBVIOUS
  <1> HIDE DEF f
  <1>3. meter \in Counters /\ meter[c] \in Nat /\ flow[c] \in Nat
    BY DEF TypeOK
  <1>4. CASE "meter" \notin faults
    <2>1. LedgerParts
      BY <1>4 DEF LedgerInv, Intact
    <2>2. None \notin Stored
      BY NoneIsNothing DEF Stored
    <2>3. /\ \A w \in Stored : Leq(energyWindow[w].lo, energyWindow[w].hi)
          /\ \A v, w \in Stored : v < w => Leq(energyWindow[v].hi, energyWindow[w].lo)
          /\ \A w \in Stored : Leq(energyWindow[w].hi, meter)
      BY <2>1 DEF LedgerParts, RowsOrdered, NothingAboveMeter
    <2>4. Sum(f, Stored) <= meter[c]
      BY <1>2, <1>3, <2>2, <2>3, RowsFit
    <2> QED BY <1>1, <1>4, <2>4 DEF FlowInv
  <1>5. CASE "meter" \in faults
    <2>1. PICK K \in 0 .. MaxTime + 1 : RowsOfMeters(K)
      BY <1>5 DEF MeterInv, MeterParts
    <2> DEFINE before == { w \in Stored : w < K }
               after == { w \in Stored : ~ (w < K) }
    <2>2. K \in Int /\ \A w \in Stored : w \in Nat
      BY WindowsAreNat, BoundsAssumption DEF Stored
    <2>3. IsFiniteSet(before) /\ Whole(f, before) /\ Sum(f, before) <= OldMeter[c]
      <3>1. /\ \A w \in before : Leq(energyWindow[w].hi, OldMeter)
            /\ \A w \in before : Leq(energyWindow[w].lo, energyWindow[w].hi)
            /\ \A v, w \in before : v < w => Leq(energyWindow[v].hi, energyWindow[w].lo)
        BY <2>1, <2>2 DEF RowsOfMeters
      <3>2. K \notin before /\ before \in SUBSET Stored
        BY <2>2
      <3>3. \A w \in before : f[w] = Delta(energyWindow[w].lo, energyWindow[w].hi, c)
        BY <1>2
      <3>4. OldMeter \in Counters
        BY OldMeterType
      <3> HIDE DEF before
      <3> QED BY <3>1, <3>2, <3>3, <3>4, RowsFit
    <2>4. IsFiniteSet(after) /\ Whole(f, after) /\ Sum(f, after) <= meter[c]
      <3>1. /\ \A w \in after : Leq(energyWindow[w].hi, meter)
            /\ \A w \in after \ {K} : Leq(energyWindow[w].lo, energyWindow[w].hi)
            /\ \A v, w \in after : v < w => Leq(energyWindow[v].hi, energyWindow[w].lo)
        BY <2>1, <2>2 DEF RowsOfMeters
      <3>2. (\A w \in after : K <= w) /\ after \in SUBSET Stored
        BY <2>2
      <3>3. \A w \in after : f[w] = Delta(energyWindow[w].lo, energyWindow[w].hi, c)
        BY <1>2
      <3> HIDE DEF after
      <3> QED BY <1>3, <3>1, <3>2, <3>3, RowsFit
    <2>5. Sum(f, Stored) = Sum(f, before) + Sum(f, after)
      <3>1. before \cup after = Stored /\ before \cap after = {}
        OBVIOUS
      <3> HIDE DEF before, after
      <3>2. Whole(f, before \cup after)
        BY <2>3, <2>4 DEF Whole
      <3> QED BY <2>3, <2>4, <3>1, <3>2, SumOfUnion
    <2>6. Sum(f, before) \in Int /\ Sum(f, after) \in Int
      BY <2>3, <2>4, SumIsWhole
    <2>7. OldMeter[c] = flow[c] - meter[c]
      BY DEF OldMeter
    <2> HIDE DEF before, after
    <2> QED BY <1>1, <1>3, <2>3, <2>4, <2>5, <2>6, <2>7
  <1> QED BY <1>4, <1>5

\* The rows together never account for more than ever passed the meters, for any
\* number of windows and increments, before and after a meter is replaced, as
\* long as no anchor was torn or lost and every response had all its counters.
THEOREM NoEnergyIsInvented == Spec => []NoEnergyInvented
  <1>1. TypeOK /\ LedgerInv /\ FlowInv /\ MeterInv => NoEnergyInvented
    BY RowsOfBothMetersFit DEF NoEnergyInvented
  <1> QED BY <1>1, TypeCorrect, LedgerInvariant, MetersAreToldApart, PTL

\* The rows of an undisturbed ledger are a chain from the first one's beginning
\* to the anchor.
LEMMA ChainOfRows ==
  ASSUME TypeOK, LedgerInv, ContiguousInv, faults \subseteq {"mark", "recompute"},
         pc = "idle", last /= None, NEW c \in Counter,
         NEW first \in Stored, \A w \in Stored : first <= w
  PROVE  Accounted(c) = last[c] - energyWindow[first].lo[c]
  <1> DEFINE f == [ w \in Stored |-> Delta(energyWindow[w].lo, energyWindow[w].hi, c) ]
             lo == [ w \in Stored |-> energyWindow[w].lo[c] ]
             hi == [ w \in Stored |-> energyWindow[w].hi[c] ]
  <1>1. RowsOrdered /\ ContiguousParts
    BY DEF LedgerInv, LedgerParts, Intact, ContiguousInv
  <1>2. EndsAt(last)
    BY <1>1 DEF ContiguousParts, Closed
  <1>3. PICK b \in Stored : \A w \in Stored : w <= b
    BY StoredIsFinite, FiniteHasGreatest
  <1>4. hi[b] = last[c]
    BY <1>2, <1>3 DEF EndsAt
  <1>5. \A w \in Stored : lo[w] \in Int /\ hi[w] \in Int /\ lo[w] <= hi[w]
    <2>1. \A w \in Stored : energyWindow[w].lo[c] \in Nat /\ energyWindow[w].hi[c] \in Nat
      BY DEF TypeOK, Stored, Row, Stamped
    <2>2. \A w \in Stored : energyWindow[w].lo[c] <= energyWindow[w].hi[c]
      BY <1>1 DEF RowsOrdered, Leq
    <2> QED BY <2>1, <2>2
  <1>6. \A w \in Stored : f[w] = hi[w] - lo[w]
    BY <1>5 DEF Delta, AtLeastZero
  <1>7. \A v, w \in Stored : NextIn(Stored, v, w) => lo[w] = hi[v]
    BY <1>1 DEF NextIn, Adjacent, ContiguousParts
  <1>8. Accounted(c) = Sum(f, Stored)
    BY AccountedIsSum
  <1>9. lo[first] = energyWindow[first].lo[c]
    OBVIOUS
  <1> HIDE DEF f, lo, hi
  <1>10. Sum(f, Stored) = hi[b] - lo[first]
    BY <1>3, <1>5, <1>6, <1>7, StoredIsFinite, ChainAddsUp DEF Whole
  <1> QED BY <1>4, <1>8, <1>9, <1>10

\* As long as every crossing stores its row and moves the anchor, the rows add
\* up to exactly what passed the meters between the first row's beginning and
\* the anchor, whatever gaps, restarts and recomputations lie between.
THEOREM NothingIsLost == Spec => []NothingLost
  <1>1. TypeOK /\ LedgerInv /\ ContiguousInv => NothingLost
    BY ChainOfRows DEF NothingLost
  <1>2. Init => WorklistIsStale
    BY DEF Init, InitFrom, WorklistIsStale
  <1> QED
    BY <1>1, <1>2, TypeInit, TypeNext, AgreeInit, AgreeNext, WorklistNext, LedgerInit,
       LedgerNext, AnchorInit, AnchorNext, ContiguousInit, ContiguousNext, PTL DEF Spec

-----------------------------------------------------------------------------
(* Crossings and startups run out of steps. *)

LEMMA RoomForTheNext ==
  WrittenInOrder /\ pc = "persist" => \E x \in Key : NextKey(x)
  <1> SUFFICES ASSUME WrittenInOrder PROVE \E x \in Key : NextKey(x)
    OBVIOUS
  <1>1. CASE saved = {}
    <2>1. NextKey("ts")
      BY <1>1 DEF NextKey
    <2> QED BY <2>1
  <1>2. CASE saved = {"ts"}
    <2>1. NextKey("prod")
      BY <1>2 DEF NextKey
    <2> QED BY <2>1
  <1>3. CASE saved = {"ts", "prod"}
    <2>1. NextKey("imp")
      BY <1>3 DEF NextKey
    <2> QED BY <2>1
  <1>4. CASE saved = {"ts", "prod", "imp"}
    <2>1. NextKey("exp")
      BY <1>4 DEF NextKey
    <2> QED BY <2>1
  <1> QED BY <1>1, <1>2, <1>3, <1>4 DEF WrittenInOrder

LEMMA OrderNext == WrittenInOrder /\ [Next]_vars => WrittenInOrder'
  <1> SUFFICES ASSUME WrittenInOrder, [Next]_vars PROVE WrittenInOrder'
    OBVIOUS
  <1> USE DEF WrittenInOrder
  <1>1. ASSUME NEW x \in Key, NEW ok \in BOOLEAN, PersistKey(x, ok) PROVE WrittenInOrder'
    <2>1. CASE x = "exp"
      BY <1>1, <2>1 DEF PersistKey
    <2>2. CASE x /= "exp"
      BY <1>1, <2>2 DEF PersistKey, NextKey
    <2> QED BY <2>1, <2>2
  <1>2. CASE Environment
    BY <1>2 DEF Environment, Elapse, ClockStep, MeterReplaced, Deploy, Crash, ProcessEnds, process
  <1>3. CASE Boot \/ Recompute \/ Load \/ Close \/ Mark \/ Telemetry
    BY <1>3
    DEF Boot, BootFails, BootOk, ProcessEnds, Recompute, RecomputeRow, Load,
        LoadPersistedReading, Close, CloseBare, CloseWindow, CloseDuplicate, CloseRepair,
        CloseFails, Mark, MarkWindow, Telemetry
  <1>4. CASE Start \/ Poll \/ PollNothing \/ UNCHANGED vars
    BY <1>4 DEF Start, Poll, PollFirst, PollCrossing, PollNothing, vars, process
  <1> QED BY <1>1, <1>2, <1>3, <1>4 DEF Next, Progress, Persist

LEMMA ForwardNext == TypeOK /\ CrossesForward /\ [Next]_vars => CrossesForward'
  <1> SUFFICES ASSUME TypeOK, CrossesForward, [Next]_vars PROVE CrossesForward'
    OBVIOUS
  <1>1. ASSUME NEW reading \in Answers, PollCrossing(reading) PROVE CrossesForward'
    <2>1. last \in Stamped /\ last' = last /\ curr' = reading
      BY <1>1 DEF PollCrossing, TypeOK
    <2>2. reading.ts = clock /\ reading \in Stamped
      BY AnswerType DEF Answers, ReadingAt
    <2>3. WindowBoundary(last.ts) < WindowBoundary(reading.ts)
      BY <1>1, <2>1, <2>2, StampedBoundary DEF PollCrossing, CrossesBoundary
    <2> QED BY <2>1, <2>3 DEF CrossesForward
  <1>2. ASSUME UNCHANGED << last, curr >>, InCrossing' => InCrossing PROVE CrossesForward'
    BY <1>2 DEF CrossesForward
  <1>3. ASSUME ~InCrossing' PROVE CrossesForward'
    BY <1>3 DEF CrossesForward
  <1>4. CASE Environment
    BY <1>2, <1>3, <1>4
    DEF Environment, Elapse, ClockStep, MeterReplaced, Deploy, Crash, ProcessEnds, process,
        InCrossing
  <1>5. CASE Boot \/ Recompute \/ Load
    BY <1>3, <1>5
    DEF Boot, BootFails, BootOk, ProcessEnds, Recompute, RecomputeRow, Load,
        LoadPersistedReading, InCrossing
  <1>6. CASE Close \/ Mark \/ Telemetry
    BY <1>2, <1>6
    DEF Close, CloseBare, CloseWindow, CloseDuplicate, CloseRepair, CloseFails, Mark,
        MarkWindow, Telemetry, InCrossing
  <1>7. CASE Persist
    BY <1>2, <1>3, <1>7 DEF Persist, PersistKey, InCrossing
  <1>8. CASE Start \/ PollNothing \/ (\E reading \in Answers : PollFirst(reading)) \/ UNCHANGED vars
    BY <1>2, <1>3, <1>8 DEF Start, PollNothing, PollFirst, vars, process, InCrossing
  <1> QED BY <1>1, <1>4, <1>5, <1>6, <1>7, <1>8 DEF Next, Progress, Poll

\* The two loops can always take their next turn: the worklist is finite and has
\* a first row, and of the four writes the next one is still to be done.
THEOREM TurnsAreDue == Spec => [](TurnIsDue /\ IsFiniteSet(stale))
  <1>1. Init => WrittenInOrder
    BY DEF Init, InitFrom, WrittenInOrder
  <1>2. TypeOK /\ WrittenInOrder => TurnIsDue
    <2> SUFFICES ASSUME TypeOK, WrittenInOrder, stale /= {} PROVE \E w \in stale : NextStale(w)
      BY RoomForTheNext DEF TurnIsDue
    <2>1. stale \in SUBSET Nat
      BY WindowsAreNat DEF TypeOK
    <2>2. \E w \in stale : \A v \in stale : w <= v
      BY <2>1, LeastNatural
    <2> QED BY <2>2 DEF NextStale
  <1>3. TypeOK => IsFiniteSet(stale)
    <2> SUFFICES ASSUME TypeOK PROVE IsFiniteSet(stale)
      OBVIOUS
    <2>1. stale \subseteq 0 .. MaxTime
      BY WindowsAreNat, WindowsWithinTime, BoundsAssumption DEF TypeOK
    <2>2. IsFiniteSet(0 .. MaxTime)
      BY BoundsAssumption, FS_Interval
    <2> QED BY <2>1, <2>2, FS_Subset
  <1> QED BY <1>1, <1>2, <1>3, TypeInit, TypeNext, OrderNext, PTL DEF Spec

LEMMA CrossingStep ==
  ASSUME TypeOK, WrittenInOrder, CrossesForward, InCrossing, Next
  PROVE  \/ pc' = "down"
         \/ pc' = "idle" /\ last' /= None /\ ClosedWindow < WindowBoundary(last'.ts)
         \/ InCrossing' /\ ClosedWindow' = ClosedWindow /\ StepsLeft' < StepsLeft
         \/ UNCHANGED vars
  <1> USE DEF InCrossing
  <1>1. CASE Environment
    BY <1>1 DEF Environment, Elapse, ClockStep, MeterReplaced, Deploy, Crash, ProcessEnds, Unread
  <1>2. ASSUME Close \/ Mark \/ Telemetry
        PROVE  InCrossing' /\ ClosedWindow' = ClosedWindow /\ StepsLeft' < StepsLeft
    <2>1. last' = last
      BY <1>2
      DEF Close, CloseBare, CloseWindow, CloseDuplicate, CloseRepair, CloseFails, Mark,
          MarkWindow, Telemetry
    <2>2. \/ pc = "window" /\ pc' \in {"mark", "telemetry"}
          \/ pc = "mark" /\ pc' = "telemetry"
          \/ pc = "telemetry" /\ pc' = "persist" /\ saved' = saved
      BY <1>2
      DEF Close, CloseBare, CloseWindow, CloseDuplicate, CloseRepair, CloseFails, Mark,
          MarkWindow, Telemetry
    <2>3. pc' = "persist" => saved' = {}
      BY <2>2 DEF WrittenInOrder
    <2> QED BY <2>1, <2>2, <2>3 DEF StepsLeft, ClosedWindow
  <1>3. ASSUME NEW x \in Key, NEW ok \in BOOLEAN, PersistKey(x, ok)
        PROVE  \/ pc' = "idle" /\ last' /= None /\ ClosedWindow < WindowBoundary(last'.ts)
               \/ InCrossing' /\ ClosedWindow' = ClosedWindow /\ StepsLeft' < StepsLeft
    <2>1. pc = "persist" /\ NextKey(x)
      BY <1>3 DEF PersistKey
    <2>2. CASE x = "exp"
      BY <1>3, <2>1, <2>2 DEF PersistKey, CrossesForward, ClosedWindow, TypeOK
    <2>3. CASE x /= "exp"
      <3>1. UNCHANGED << pc, last >> /\ saved' = saved \cup {x}
        BY <1>3, <2>3 DEF PersistKey
      <3>2. \/ saved = {} /\ saved' = {"ts"}
            \/ saved = {"ts"} /\ saved' = {"ts", "prod"}
            \/ saved = {"ts", "prod"} /\ saved' = {"ts", "prod", "imp"}
        BY <2>1, <2>3, <3>1 DEF NextKey, WrittenInOrder
      <3>3. StepsLeft' < StepsLeft
        BY <2>1, <3>1, <3>2 DEF StepsLeft
      <3> QED BY <2>1, <3>1, <3>3 DEF ClosedWindow
    <2> QED BY <2>2, <2>3
  <1>4. CASE Boot \/ Recompute \/ Load \/ Start \/ Poll \/ PollNothing
    BY <1>4
    DEF Boot, BootFails, BootOk, Recompute, RecomputeRow, Load, LoadPersistedReading, Start,
        Poll, PollFirst, PollCrossing, PollNothing
  <1> QED BY <1>1, <1>2, <1>3, <1>4 DEF Next, Progress, Persist

\* What CrossingMovesAnchor needs besides fairness: a crossing has at most seven
\* steps, whatever fails in them, and the last leaves the anchor beyond its
\* window, unless the process ends.
THEOREM CrossingsRunOut == Spec => CrossingRunsOut
  <1>1. Init => WrittenInOrder /\ CrossesForward
    BY DEF Init, InitFrom, WrittenInOrder, CrossesForward, InCrossing
  <1>2. TypeOK /\ WrittenInOrder /\ CrossesForward /\ [Next]_vars =>
          [ InCrossing =>
              \/ pc' = "down"
              \/ pc' = "idle" /\ last' /= None /\ ClosedWindow < WindowBoundary(last'.ts)
              \/ InCrossing' /\ ClosedWindow' = ClosedWindow /\ StepsLeft' < StepsLeft ]_vars
    BY CrossingStep
  <1> QED
    BY <1>1, <1>2, TypeInit, TypeNext, OrderNext, ForwardNext, PTL DEF Spec, CrossingRunsOut

LEMMA StartupStep ==
  ASSUME StartingUp, Next
  PROVE  \/ pc' = "down"
         \/ pc = "boot" /\ pc' = "recompute"
         \/ pc = "recompute" /\ pc' = "recompute" /\ stale' \subseteq stale /\ stale' /= stale
         \/ pc = "recompute" /\ stale = {} /\ pc' = "idle"
         \/ UNCHANGED vars
  <1> USE DEF StartingUp
  <1>1. CASE Environment
    BY <1>1 DEF Environment, Elapse, ClockStep, MeterReplaced, Deploy, Crash, ProcessEnds, Unread
  <1>2. CASE Boot \/ Load
    BY <1>2 DEF Boot, BootFails, BootOk, ProcessEnds, Load, LoadPersistedReading
  <1>3. CASE Recompute
    BY <1>3 DEF Recompute, RecomputeRow, Remaining
  <1>4. CASE Close \/ Mark \/ Telemetry \/ Persist \/ Start \/ Poll \/ PollNothing
    BY <1>4
    DEF Close, CloseBare, CloseWindow, CloseDuplicate, CloseRepair, CloseFails, Mark,
        MarkWindow, Telemetry, Persist, PersistKey, Start, Poll, PollFirst, PollCrossing,
        PollNothing
  <1> QED BY <1>1, <1>2, <1>3, <1>4 DEF Next, Progress

\* What StartupEnds needs besides fairness: every step of the startup ends the
\* process, begins the next stage or takes a row off a worklist that is finite,
\* and no failing query or update puts a row back.
THEOREM StartupsRunOut == Spec => StartupRunsOut
  <1>1. [Next]_vars =>
          [ StartingUp =>
              \/ pc' = "down"
              \/ pc = "boot" /\ pc' = "recompute"
              \/ pc = "recompute" /\ pc' = "recompute" /\ stale' \subseteq stale /\ stale' /= stale
              \/ pc = "recompute" /\ stale = {} /\ pc' = "idle" ]_vars
    BY StartupStep
  <1> QED BY <1>1, PTL DEF Spec, StartupRunsOut
=============================================================================
