------------------------------ MODULE Scheduler ------------------------------
(***************************************************************************)
(* The collector of enphase-bridge: src/src/collector/scheduler.rs and the *)
(* tables it keeps (energy_window, boundary_snapshot, config_store).       *)
(*                                                                         *)
(* The daemon polls two cumulative meters.  It keeps an anchor, the        *)
(* reading that opened the current window, in memory (last) and in four    *)
(* separate rows of config_store (store).  The first poll stamped in a     *)
(* later window closes the anchor's window: it stores the row and the      *)
(* boundary snapshot in one transaction, marks last_window_start, collects *)
(* the telemetry of the crossing and moves the anchor.  At startup rows of *)
(* an older formula version are recomputed from pairs of snapshots.        *)
(*                                                                         *)
(* A row is represented by the two readings its columns are computed from, *)
(* columns being Columns(row); raw JSON, averages and is_complete (always  *)
(* true) are left out.  The power_sample, phase_reading and                *)
(* microinverter_snapshot tables are written by the same loop but read by  *)
(* none of it: the step Telemetry keeps their place in the order of a      *)
(* crossing and nothing else.  The pool has a single connection and the    *)
(* window transaction ends before it is returned, so that transaction is   *)
(* one step here, with failure at any of its statements one outcome.       *)
(*                                                                         *)
(* A loss of power that undoes commits not yet synced (WAL, synchronous =  *)
(* NORMAL) leaves the state of a crash at an earlier step, and is covered. *)
(***************************************************************************)
EXTENDS WindowAggregator, Functions

CONSTANTS
  MaxTime,        \* bound on the wall clock
  MaxWh,          \* bound on the energy that flows through each counter
  Increments,     \* what the counters may gain in one unit of time
  MaxVersion,     \* bound on CURRENT_FORMULA_VERSION over the builds deployed
  Disturbances,   \* which of "clock", "meter", "build" the environment changes
  Absences,       \* the sets of counters a response of the gateway may lack
  Orphans,        \* which window has a snapshot and no row in the initial
                  \* database; None: a new database
  None            \* an absent row, snapshot, key or reading

Time == 0 .. MaxTime
Windows == { WindowBoundary(t) : t \in Time }
Versions == 1 .. MaxVersion

ASSUME BoundsAssumption == MaxTime \in Nat /\ MaxWh \in Nat /\ MaxVersion \in Nat \ {0}
ASSUME IncrementsAssumption == Increments \subseteq Counters
ASSUME OrphanAssumption ==
         \A w \in Orphans \ {None} : w \in Windows /\ w + WindowSecs \in Time
ASSUME NoneAssumption == None \notin Nat /\ None \notin Windows
                         /\ None \notin Reading
                         /\ None \notin [lo : Reading, hi : Reading, version : Nat]

VARIABLES
  clock,            \* the host's wall clock, util::unix_now()
  meter,            \* the counters of the gateway's two meters
  flow,             \* history: the energy that passed each counter, ever
  energyWindow,     \* table energy_window
  boundarySnapshot, \* table boundary_snapshot
  store,            \* the four anchor keys of config_store
  lastWindowStart,  \* key last_window_start of config_store
  build,            \* CURRENT_FORMULA_VERSION of the installed binary
  pc,               \* where Scheduler::run is; "down": no process
  last,             \* last_reading
  curr,             \* the reading of the crossing in progress
  saved,            \* the anchor keys persist_reading has been through
  stale,            \* the rows startup_recompute has still to go through
  faults            \* history: what went wrong so far

environment == << clock, meter, flow >>
history == << energyWindow, boundarySnapshot >>
config == << store, lastWindowStart >>
process == << pc, last, curr, saved, stale >>
vars == << environment, history, config, process, build, faults >>

Stamped == { r \in Reading : r.ts \in Time }
Row == [lo : Stamped, hi : Stamped, version : 0 .. MaxVersion]
InCrossing == pc \in {"window", "mark", "telemetry", "persist"}
Faults == { "anchor",     \* the stored anchor is torn or was not found
            "meter",      \* a meter was replaced: its counter fell to zero
            "reading",    \* a response left out a counter, which reads as zero
            "orphan",     \* the database came with an orphan snapshot
            "write",      \* a crossing did not store its row
            "mark",       \* last_window_start could not be written
            "close",      \* the process ended between the row and the anchor
            "recompute" } \* startup_recompute could not read or update

Stored == { w \in Windows : energyWindow[w] /= None }
Captured == { w \in Windows : boundarySnapshot[w] /= None }
Columns(row) == ComputeDelta(row.lo, row.hi)

Zero == [ c \in Counter |-> 0 ]
ReadingAt(t, counters) == [ x \in Key |-> IF x = "ts" THEN t ELSE counters[x] ]
CurrentReading == ReadingAt(clock, meter)

\* What the gateway may answer: the serde default of a field that is absent
\* from a meter's JSON is zero.  A meter that is absent is an error instead.
Answers ==
  { ReadingAt(clock, [ c \in Counter |-> IF c \in absent THEN 0 ELSE meter[c] ]) :
      absent \in Absences }

Judge(reading) ==
  faults' = IF reading = CurrentReading THEN faults ELSE faults \cup {"reading"}

\* The state a process starts from: nothing of the previous one survives.
ProcessEnds ==
  /\ pc' = "down"
  /\ last' = None /\ curr' = None /\ saved' = {} /\ stale' = {}

-----------------------------------------------------------------------------
\* A new database, or one whose writer, as the functions
\* boundary_snapshot::insert and energy_window::insert allow, stopped between
\* the snapshot and the row of a window whose anchor is still in config_store.
InitFrom(w) ==
  /\ clock = IF w = None THEN 0 ELSE w + WindowSecs
  /\ meter = Zero
  /\ flow = Zero
  /\ energyWindow = [ v \in Windows |-> None ]
  /\ boundarySnapshot = [ v \in Windows |->
                            IF v = w THEN ReadingAt(w + WindowSecs, Zero) ELSE None ]
  /\ store = [ x \in Key |-> IF w = None THEN None ELSE ReadingAt(w, Zero)[x] ]
  /\ lastWindowStart = None
  /\ build \in Versions
  /\ pc = "down"
  /\ last = None
  /\ curr = None
  /\ saved = {}
  /\ stale = {}
  /\ faults = IF w = None THEN {} ELSE {"orphan"}

Init == \E w \in Orphans : InitFrom(w)

-----------------------------------------------------------------------------
(* The environment.  The process reads the clock and the meters only at a    *)
(* poll, so a change of them during startup or a crossing is the same change *)
(* made after it: they change while pc is Unread and nowhere else.           *)

Unread == pc \in {"down", "idle"}

\* Time passes and energy flows, while the daemon runs and while it does not.
Elapse(inc) ==
  /\ Unread
  /\ clock < MaxTime
  /\ \A c \in Counter : flow[c] + inc[c] <= MaxWh
  /\ clock' = clock + 1
  /\ meter' = [ c \in Counter |-> meter[c] + inc[c] ]
  /\ flow' = [ c \in Counter |-> flow[c] + inc[c] ]
  /\ UNCHANGED << history, config, process, build, faults >>

\* The wall clock is set back: unix_now() is SystemTime, not a monotonic clock.
ClockStep(t) ==
  /\ "clock" \in Disturbances
  /\ Unread
  /\ t < clock
  /\ clock' = t
  /\ UNCHANGED << meter, flow, history, config, process, build, faults >>

\* compute_delta's max(0.0) is for this: a new meter counts from zero.
MeterReplaced ==
  /\ "meter" \in Disturbances
  /\ Unread
  /\ "meter" \notin faults
  /\ meter' = Zero
  /\ faults' = faults \cup {"meter"}
  /\ UNCHANGED << clock, flow, history, config, process, build >>

\* Another build is installed while the daemon is stopped: upgrade or rollback.
Deploy(v) ==
  /\ "build" \in Disturbances
  /\ pc = "down"
  /\ v /= build
  /\ build' = v
  /\ UNCHANGED << environment, history, config, process, faults >>

\* What an end of the process at this point leaves behind: a torn anchor, or a
\* row whose energy the old anchor still stands for.
CutOff ==
  IF saved /= {} THEN {"anchor"}
  ELSE IF pc \in {"mark", "telemetry", "persist"} THEN {"close"} ELSE {}

\* The process ends: a kill, a power cut, or any branch of main's select!
\* ending (the API server failing to bind, the scheduler returning).
Crash ==
  /\ pc /= "down"
  /\ ProcessEnds
  /\ faults' = faults \cup CutOff
  /\ UNCHANGED << environment, history, config, build >>

-----------------------------------------------------------------------------
(* Scheduler::run up to its loop. *)

Start ==
  /\ pc = "down"
  /\ pc' = "boot"
  /\ UNCHANGED << environment, history, config, last, curr, saved, stale, build, faults >>

\* check_jwt or probe_meters fails: run returns, and main's select! with it.
BootFails ==
  /\ pc = "boot"
  /\ ProcessEnds
  /\ UNCHANGED << environment, history, config, build, faults >>

\* Slip: version 0 taken for an old version.
IsOlder(w) == energyWindow[w].version < build

\* Formula version 0 is "permanently unrecomputable", and a row of a newer
\* build, met after a rollback, is left alone.
IsStale(w) == energyWindow[w].version > 0 /\ energyWindow[w].version < build

StaleRows == { w \in Stored : IsStale(w) }

BootOk(queryOk) ==
  /\ pc = "boot"
  /\ pc' = "recompute"
  /\ stale' = IF queryOk THEN StaleRows ELSE {}
  /\ faults' = IF queryOk THEN faults ELSE faults \cup {"recompute"}
  /\ UNCHANGED << environment, history, config, last, curr, saved, build >>

\* Slip: one window too far back.
WindowBeforePrevious(w) == w - 2 * WindowSecs

PreviousWindow(w) == w - WindowSecs

\* Only the snapshot of the window just before will do: "a multi-window gap
\* would corrupt recomputed values".
HasPair(w) == w \in Captured /\ PreviousWindow(w) \in Captured

\* Slip: the pair comes back in the other order.
RecomputedSwapped(w) ==
  [ lo      |-> boundarySnapshot[w],
    hi      |-> boundarySnapshot[PreviousWindow(w)],
    version |-> build ]

Recomputed(w) ==
  [ lo      |-> boundarySnapshot[PreviousWindow(w)],
    hi      |-> boundarySnapshot[w],
    version |-> build ]

\* Slip: the loop waits for a row it can recompute.
NextWithPair(w) == w \in stale /\ HasPair(w)

\* The rows come ordered by window_start.
NextStale(w) == w \in stale /\ \A v \in stale : w <= v

\* Slip: a row without a pair ends the loop instead of being skipped.
StopAtFirstGap(w, ok) == IF HasPair(w) THEN stale \ {w} ELSE {}

\* The rows the loop has still to visit after w, whatever became of w.
Remaining(w, ok) == stale \ {w}

\* One turn of startup_recompute's loop.  A query or an update that fails
\* leaves the row stale, and the loop goes on.
RecomputeRow(w, ok) ==
  /\ pc = "recompute"
  /\ NextStale(w)
  /\ energyWindow' = IF ok /\ HasPair(w)
                     THEN [energyWindow EXCEPT ![w] = Recomputed(w)]
                     ELSE energyWindow
  /\ faults' = IF ok THEN faults ELSE faults \cup {"recompute"}
  /\ stale' = Remaining(w, ok)
  /\ UNCHANGED << environment, boundarySnapshot, config, pc, last, curr, saved, build >>

\* No crossing has stored a row or begun to move the anchor yet.
Fresh == Stored = {} /\ \A x \in Key : store[x] = None

\* load_persisted_reading: all four keys or nothing.  Starting without an
\* anchor on a database that is not fresh is what the fault stands for.
LoadPersistedReading(readOk) ==
  /\ pc = "recompute" /\ stale = {}
  /\ pc' = "idle"
  /\ IF readOk /\ \A x \in Key : store[x] /= None
     THEN last' = store /\ UNCHANGED faults
     ELSE /\ last' = None
          /\ faults' = IF Fresh THEN faults ELSE faults \cup {"anchor"}
  /\ UNCHANGED << environment, history, config, curr, saved, stale, build >>

-----------------------------------------------------------------------------
(* One turn of the loop. *)

\* Without an anchor the reading becomes one, in memory only.
PollFirst(reading) ==
  /\ pc = "idle" /\ last = None
  /\ last' = reading
  /\ Judge(reading)
  /\ UNCHANGED << environment, history, config, pc, curr, saved, stale, build >>

\* Slip: the anchor follows every poll instead of staying at its boundary.
PollMovesAnchor ==
  /\ pc = "idle" /\ last /= None
  /\ last' = CurrentReading
  /\ UNCHANGED << environment, history, config, pc, curr, saved, stale, build, faults >>

\* The gateway does not answer, or the reading falls in the anchor's window or
\* before it: the anchor stays where it is.
PollNothing ==
  /\ pc = "idle"
  /\ UNCHANGED vars

\* Slip: any other window counts, an earlier one too.
LeavesWindow == WindowBoundary(clock) /= WindowBoundary(last.ts)

CrossesBoundary == WindowBoundary(clock) > WindowBoundary(last.ts)

PollCrossing(reading) ==
  /\ pc = "idle" /\ last /= None
  /\ CrossesBoundary
  /\ curr' = reading
  /\ pc' = "window"
  /\ Judge(reading)
  /\ UNCHANGED << environment, history, config, last, saved, stale, build >>

\* The window the crossing in progress closes: the anchor's, however many
\* windows lie between it and the reading.
ClosedWindow == WindowBoundary(last.ts)

ClosedRow(version) == [ lo |-> last, hi |-> curr, version |-> version ]

\* INSERT OR IGNORE: the unique window_start keeps the row already there.
InsertOrIgnore(table, w, row) ==
  IF table[w] = None THEN [table EXCEPT ![w] = row] ELSE table

\* Slip: the oversized path returns before last_window_start is written.
CloseBareUnmarked ==
  /\ pc = "window"
  /\ energyWindow' = InsertOrIgnore(energyWindow, ClosedWindow, ClosedRow(0))
  /\ pc' = "telemetry"
  /\ UNCHANGED << environment, boundarySnapshot, config, last, curr, saved, stale, build, faults >>

\* The meters' JSON is too large for a snapshot: the row alone, version 0.
CloseBare ==
  /\ pc = "window"
  /\ energyWindow' = InsertOrIgnore(energyWindow, ClosedWindow, ClosedRow(0))
  /\ pc' = "mark"
  /\ UNCHANGED << environment, boundarySnapshot, config, last, curr, saved, stale, build, faults >>

\* Snapshot and row in one transaction.
CloseWindow ==
  /\ pc = "window"
  /\ boundarySnapshot[ClosedWindow] = None
  /\ boundarySnapshot' = [boundarySnapshot EXCEPT ![ClosedWindow] = curr]
  /\ energyWindow' = InsertOrIgnore(energyWindow, ClosedWindow, ClosedRow(build))
  /\ pc' = "mark"
  /\ UNCHANGED << environment, config, last, curr, saved, stale, build, faults >>

\* Slip: INSERT OR REPLACE of the snapshot in a duplicate crossing.
CloseDuplicateReplacing ==
  /\ pc = "window"
  /\ boundarySnapshot[ClosedWindow] /= None
  /\ energyWindow[ClosedWindow] /= None
  /\ boundarySnapshot' = [boundarySnapshot EXCEPT ![ClosedWindow] = curr]
  /\ pc' = "telemetry"
  /\ UNCHANGED << environment, energyWindow, config, last, curr, saved, stale, build, faults >>

\* boundary_already_complete: nothing stored, nothing marked.
CloseDuplicate ==
  /\ pc = "window"
  /\ boundarySnapshot[ClosedWindow] /= None
  /\ energyWindow[ClosedWindow] /= None
  /\ pc' = "telemetry"
  /\ UNCHANGED << environment, history, config, last, curr, saved, stale, build, faults >>

\* Slip: an existing snapshot is taken to mean that the row exists.
CloseRepairSkipped ==
  /\ pc = "window"
  /\ boundarySnapshot[ClosedWindow] /= None
  /\ energyWindow[ClosedWindow] = None
  /\ pc' = "telemetry"
  /\ UNCHANGED << environment, history, config, last, curr, saved, stale, build, faults >>

\* window_repaired: the row is computed from the anchor and this reading, and
\* the snapshot that was there before stays.
CloseRepair ==
  /\ pc = "window"
  /\ boundarySnapshot[ClosedWindow] /= None
  /\ energyWindow[ClosedWindow] = None
  /\ energyWindow' = [energyWindow EXCEPT ![ClosedWindow] = ClosedRow(build)]
  /\ pc' = "mark"
  /\ UNCHANGED << environment, boundarySnapshot, config, last, curr, saved, stale, build, faults >>

\* Any statement of the transaction or the bare insert fails: rolled back,
\* logged, and the crossing goes on.
CloseFails ==
  /\ pc = "window"
  /\ pc' = "telemetry"
  /\ faults' = faults \cup {"write"}
  /\ UNCHANGED << environment, history, config, last, curr, saved, stale, build >>

\* Slip: the anchor's timestamp instead of its window.
MarkTimestamp(ok) ==
  /\ pc = "mark"
  /\ lastWindowStart' = IF ok THEN last.ts ELSE lastWindowStart
  /\ faults' = IF ok THEN faults ELSE faults \cup {"mark"}
  /\ pc' = "telemetry"
  /\ UNCHANGED << environment, history, store, last, curr, saved, stale, build >>

MarkWindow(ok) ==
  /\ pc = "mark"
  /\ lastWindowStart' = IF ok THEN ClosedWindow ELSE lastWindowStart
  /\ faults' = IF ok THEN faults ELSE faults \cup {"mark"}
  /\ pc' = "telemetry"
  /\ UNCHANGED << environment, history, store, last, curr, saved, stale, build >>

\* Inverter snapshots and phase readings: attempted whatever happened above,
\* and whatever happens here the crossing goes on.
Telemetry ==
  /\ pc = "telemetry"
  /\ pc' = "persist"
  /\ UNCHANGED << environment, history, config, last, curr, saved, stale, build, faults >>

\* The order of persist_reading's four writes.
NextKey(x) ==
  /\ x \in Key \ saved
  /\ \/ x = "ts"
     \/ x = "prod" /\ saved = {"ts"}
     \/ x = "imp" /\ saved = {"ts", "prod"}
     \/ x = "exp"  /\ saved = {"ts", "prod", "imp"}

\* Slip: the first error returns from persist_reading with the old anchor.
PersistKeyOrStop(x, ok) ==
  /\ pc = "persist"
  /\ NextKey(x)
  /\ store' = IF ok THEN [store EXCEPT ![x] = curr[x]] ELSE store
  /\ faults' = IF ok THEN faults ELSE faults \cup {"anchor"}
  /\ IF x = "exp" \/ ~ok
     THEN pc' = "idle" /\ last' = (IF ok THEN curr ELSE last) /\ curr' = None /\ saved' = {}
     ELSE saved' = saved \cup {x} /\ UNCHANGED << pc, last, curr >>
  /\ UNCHANGED << environment, history, lastWindowStart, stale, build >>

\* One config_store::set whose error is dropped; after the fourth the anchor
\* in memory moves too.
PersistKey(x, ok) ==
  /\ pc = "persist"
  /\ NextKey(x)
  /\ store' = IF ok THEN [store EXCEPT ![x] = curr[x]] ELSE store
  /\ faults' = IF ok THEN faults ELSE faults \cup {"anchor"}
  /\ IF x = "exp"
     THEN pc' = "idle" /\ last' = curr /\ curr' = None /\ saved' = {}
     ELSE saved' = saved \cup {x} /\ UNCHANGED << pc, last, curr >>
  /\ UNCHANGED << environment, history, lastWindowStart, stale, build >>

-----------------------------------------------------------------------------
Boot == BootFails \/ \E ok \in BOOLEAN : BootOk(ok)
Recompute == \E w \in stale, ok \in BOOLEAN : RecomputeRow(w, ok)
Load == \E ok \in BOOLEAN : LoadPersistedReading(ok)
Poll == \E reading \in Answers : PollFirst(reading) \/ PollCrossing(reading)
Close == CloseBare \/ CloseWindow \/ CloseDuplicate \/ CloseRepair \/ CloseFails
Mark == \E ok \in BOOLEAN : MarkWindow(ok)
Persist == \E x \in Key, ok \in BOOLEAN : PersistKey(x, ok)

\* The steps the process takes by itself once started, the poll timer's aside.
Progress == Boot \/ Recompute \/ Load \/ Close \/ Mark \/ Telemetry \/ Persist

Environment ==
  \/ \E inc \in Increments : Elapse(inc)
  \/ \E t \in Time : ClockStep(t)
  \/ MeterReplaced
  \/ \E v \in Versions : Deploy(v)
  \/ Crash

Next == Environment \/ Start \/ Poll \/ PollNothing \/ Progress

Spec == Init /\ [][Next]_vars

\* The future of Scheduler::run is polled by the runtime as long as the process
\* lives, and every await in it is a local SQLite statement or an HTTP request
\* with a timeout: between two polls it never stops half way.
FairSpec == Spec /\ WF_vars(Progress)

-----------------------------------------------------------------------------
(* What the collector promises. *)

\* The variables range over what the tables and the process can hold.
TypeOK ==
  /\ clock \in Time
  /\ meter \in Counters
  /\ flow \in Counters
  /\ energyWindow \in [Windows -> Row \cup {None}]
  /\ boundarySnapshot \in [Windows -> Stamped \cup {None}]
  /\ store \in [Key -> Nat \cup {None}] /\ store.ts \in Time \cup {None}
  /\ lastWindowStart \in Windows \cup {None}
  /\ build \in Versions
  /\ pc \in {"down", "boot", "recompute", "idle", "window", "mark", "telemetry", "persist"}
  /\ last \in Stamped \cup {None}
  /\ curr \in Stamped \cup {None}
  /\ InCrossing => last /= None /\ curr /= None
  /\ saved \subseteq Key
  /\ stale \subseteq Windows
  /\ faults \subseteq Faults

\* Nothing has touched the chain of anchors or the counters they are read from.
Intact == faults \cap {"anchor", "meter", "reading", "orphan"} = {}

\* Two stored windows never account for the same energy: the later row starts
\* at or after the reading the earlier one ended with.  Crashes anywhere but
\* between two of persist_reading's writes, failed writes, duplicate crossings,
\* clock steps and recomputation by other builds all keep this.
OrderedLedger ==
  Intact => \A v, w \in Stored :
              v < w => Leq(energyWindow[v].hi, energyWindow[w].lo)

Adjacent(v, w) == v < w /\ \A u \in Stored : ~(v < u /\ u < w)

\* No energy is lost between rows either, as long as every crossing stored its
\* row and moved the anchor: each row starts with the very reading the one
\* before it ended with, through restarts, gaps and recomputation.
ContiguousLedger ==
  faults \subseteq {"mark", "recompute"} =>
    \A v, w \in Stored :
      Adjacent(v, w) => energyWindow[w].lo = energyWindow[v].hi

\* What all rows together say went through the counter c.
Accounted(c) ==
  SumFunction([ w \in Stored |-> Delta(energyWindow[w].lo, energyWindow[w].hi, c) ])

\* What has passed the meters since the first row began is accounted for, all of
\* it and once, up to the anchor the next row will start with: as long as every
\* crossing stored its row and moved the anchor, through restarts, gaps of many
\* windows and recomputation by other builds.
NothingLost ==
  faults \subseteq {"mark", "recompute"} /\ pc = "idle" /\ last /= None =>
    \A c \in Counter, first \in Stored :
      (\A w \in Stored : first <= w) =>
        Accounted(c) = last[c] - energyWindow[first].lo[c]

\* The rows together never account for more energy than ever passed the
\* meters, even when a meter was replaced and its counter fell to zero, as long
\* as no anchor was torn or lost and no reading left out a counter.
NoEnergyInvented ==
  faults \cap {"anchor", "reading", "orphan"} = {} =>
    \A c \in Counter : Accounted(c) <= flow[c]

\* The transaction's promise: a snapshot never stands without its row, and a
\* recomputable row ends with the snapshot of its window, which is what makes
\* recomputation from a pair of snapshots reproduce it.
RowsAndSnapshotsAgree ==
  "orphan" \notin faults =>
    /\ Captured \subseteq Stored
    /\ \A w \in Stored : energyWindow[w].version > 0 =>
         w \in Captured /\ energyWindow[w].hi = boundarySnapshot[w]

\* Once past startup no row is left stale that its snapshots could bring up to
\* date, and none becomes so while the daemon runs.
NothingLeftToRecompute ==
  /\ pc \notin {"down", "boot", "recompute"}
  /\ faults \cap {"recompute", "anchor", "orphan"} = {}
  => \A w \in StaleRows : ~HasPair(w)

\* GET /health's last_window_start names a stored row, and, unless a step of
\* some crossing failed or was cut off, the latest one.
MarkerNamesLatestRow ==
  /\ lastWindowStart /= None => lastWindowStart \in Stored
  /\ faults \subseteq {"recompute", "meter"} /\ pc /= "mark" =>
       \A w \in Stored : lastWindowStart /= None /\ w <= lastWindowStart

\* A snapshot found without its row is repaired when the anchor's crossing
\* reaches its window: once the anchor is beyond it, the row is there.
RepairFillsTheHole ==
  faults \subseteq {"orphan", "mark", "close", "recompute"} /\ pc = "idle" /\ last /= None =>
    \A w \in Captured : w < WindowBoundary(last.ts) => w \in Stored

\* Readers of the windows may rely on history: no row disappears, version 0 is
\* permanent, a row changes only through startup_recompute and towards a newer
\* version, and a snapshot never changes.
HistoryAppendOnly ==
  [][ \A w \in Windows :
        /\ w \in Captured => boundarySnapshot'[w] = boundarySnapshot[w]
        /\ w \in Stored /\ energyWindow'[w] /= energyWindow[w] =>
             /\ pc = "recompute"
             /\ energyWindow'[w] /= None
             /\ 0 < energyWindow[w].version
             /\ energyWindow[w].version < energyWindow'[w].version ]_vars

\* Recomputation never makes a row account for less: it keeps the reading the
\* row ended with and moves its start back at most, which recovers the energy
\* a crossing cut off between row and anchor left out.
RecomputeNeverShrinks ==
  [][ Intact => \A w \in Stored :
        /\ energyWindow'[w].hi = energyWindow[w].hi
        /\ Leq(energyWindow'[w].lo, energyWindow[w].lo) ]_vars

Ledger == INSTANCE EnergyLedger
            WITH Readings <- Stamped, rows <- energyWindow, intact <- Intact

\* The collector keeps the promise of EnergyLedger to whoever reads the rows.
ImplementsLedger == Ledger!Spec

\* A started process reaches its loop or ends: no failing query or update
\* keeps startup_recompute going.
StartupEnds == pc = "boot" ~> pc \in {"idle", "down"}

Closing(w) == pc = "window" /\ ClosedWindow = w
AnchorBeyond(w) == pc = "idle" /\ last /= None /\ WindowBoundary(last.ts) > w

\* Whatever fails in a crossing, the process ends or goes on with an anchor
\* beyond the window it was closing, and never tries that window again.
CrossingMovesAnchor ==
  \A w \in Windows : Closing(w) ~> (pc = "down" \/ AnchorBeyond(w))
=============================================================================
