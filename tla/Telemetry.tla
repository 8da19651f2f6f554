------------------------------ MODULE Telemetry ------------------------------
(***************************************************************************)
(* What the poll loop records beside the energy ledger: power samples and  *)
(* the averages made of them, the inverters and phases of a crossing, and  *)
(* their retention (src/src/collector/scheduler.rs, src/src/storage), and  *)
(* what GET /api/inverters/arrays may make of the inverters.               *)
(*                                                                         *)
(* A poll is its place in the history polls, which holds the time it was   *)
(* stamped with; a sample, an average and a row name the polls they come   *)
(* from and leave out the watts.  The anchor is reduced to its timestamp,  *)
(* and the paths by which Scheduler stores a window to whether it did.     *)
(* Every table is written statement by statement, without a transaction.   *)
(***************************************************************************)
EXTENDS WindowAggregator, FiniteSets, Sequences

CONSTANTS
  MaxTime,            \* bound on the wall clock
  MaxPolls,           \* bound on the polls of all processes together
  Serials,            \* the inverters, all of them in the configured arrays
  Channels,           \* the channels of both meters
  DaySecs,            \* 86 400
  RetentionDays,      \* power_sample_retention_days
  PhaseRetentionDays, \* phase_reading_retention_days
  Nothing             \* an absent row, key or anchor

Time == 0 .. MaxTime
Windows == { WindowBoundary(t) : t \in Time }
PollIds == 1 .. MaxPolls

ASSUME TelemetryBounds ==
  /\ MaxTime \in Nat /\ MaxPolls \in Nat \ {0} /\ DaySecs \in Nat \ {0}
  /\ RetentionDays \in Nat /\ PhaseRetentionDays \in Nat
ASSUME SomethingToRecord == Serials /= {} /\ Channels /= {}
ASSUME NothingAssumption == Nothing \notin Nat

VARIABLES
  clock,     \* the host's wall clock
  polls,     \* history: the times of all polls
  sample,    \* table power_sample: the polls it holds
  window,    \* table energy_window: the readings and the polls of the averages
  inverter,  \* table microinverter_snapshot
  phase,     \* table phase_reading
  stamp,     \* key last_poll_timestamp of config_store
  counters,  \* the three other anchor keys exist
  pc,        \* where Scheduler::run is; "down": no process
  last,      \* the timestamp of last_reading
  acc,       \* accumulator
  avg,       \* the polls the averages of the crossing in progress are from
  todo,      \* what the batch in progress has still to insert
  checked,   \* last_retention_check; Nothing: 0, long before any clock
  reported,  \* history: the inverters the gateway answered with, by window
  cut,       \* history: the windows a batch of inverters stopped half way
  sampled,   \* history: every poll whose sample was stored
  measured,  \* history: every phase row that was stored
  faults     \* history: what went wrong so far

tables == << sample, window, inverter, phase >>
anchor == << stamp, counters >>
process == << pc, last, acc, avg, todo, checked >>
history == << reported, cut, sampled, measured >>
vars == << clock, polls, tables, anchor, process, history, faults >>

Faults == { "clock",    \* the wall clock was set back
            "sample",   \* a power sample was not stored
            "anchor",   \* an anchor key was not written, or not read
            "close",    \* the process ended before the anchor's timestamp moved
            "delete" }  \* a retention delete failed

\* A new database, or one whose last crossing was at time 0; what it holds of
\* the windows before is left out.
Init ==
  /\ clock = 0 /\ polls = << >>
  /\ sample = {} /\ inverter = {} /\ phase = {}
  /\ window = [ w \in Windows |-> Nothing ]
  /\ stamp \in {Nothing, 0} /\ counters = (stamp /= Nothing)
  /\ pc = "down" /\ last = Nothing /\ acc = {} /\ avg = {} /\ todo = {} /\ checked = Nothing
  /\ reported = [ w \in Windows |-> {} ] /\ cut = {}
  /\ sampled = {} /\ measured = {} /\ faults = {}

-----------------------------------------------------------------------------
(* The environment, as in Scheduler: the clock is read at a poll only. *)

Unread == pc \in {"down", "idle"}

Elapse ==
  /\ Unread /\ clock < MaxTime
  /\ clock' = clock + 1
  /\ UNCHANGED << polls, tables, anchor, process, history, faults >>

ClockStep(t) ==
  /\ Unread /\ t < clock
  /\ clock' = t
  /\ faults' = faults \cup {"clock"}
  /\ UNCHANGED << polls, tables, anchor, process, history >>

\* The process ends and takes the accumulator and the retention timer with it.
Crash ==
  /\ pc /= "down"
  /\ pc' = "down" /\ last' = Nothing /\ acc' = {} /\ avg' = {} /\ todo' = {}
  /\ checked' = Nothing
  /\ cut' = IF pc = "inverters" THEN cut \cup {WindowBoundary(last)} ELSE cut
  /\ faults' = faults \cup
       (IF pc \in {"fetch", "inverters", "phases", "stamp"} THEN {"close"}
        ELSE IF pc = "counters" THEN {"anchor"} ELSE {})
  /\ UNCHANGED << clock, polls, tables, anchor, reported, sampled, measured >>

\* load_persisted_reading: all keys or nothing.
Start(readOk) ==
  /\ pc = "down"
  /\ pc' = "idle"
  /\ last' = IF readOk /\ counters THEN stamp ELSE Nothing
  /\ faults' = IF readOk \/ stamp = Nothing THEN faults ELSE faults \cup {"anchor"}
  /\ UNCHANGED << clock, polls, tables, anchor, acc, avg, todo, checked, history >>

-----------------------------------------------------------------------------
(* A poll: the sample, the accumulator, and the crossing it may begin. *)

RetentionDue == checked = Nothing \/ clock - checked >= DaySecs

\* Where the turn of the loop goes once nothing is left to record.
TurnEnds == IF RetentionDue THEN "expire" ELSE "idle"

\* Slip: any other window counts, an earlier one too.
LeavesWindow == last /= Nothing /\ WindowBoundary(clock) /= WindowBoundary(last)

CrossesBoundary == last /= Nothing /\ WindowBoundary(clock) > WindowBoundary(last)

\* The averages of a crossing are over everything polled since the last one.
Average == acc \cup {Len(polls) + 1}

\* Slip: the accumulator goes on after a crossing.
LeftToAverage == Average

\* The accumulator after a poll: cleared by a crossing, stored or not.
Accumulated == IF CrossesBoundary THEN {} ELSE Average

\* The sample of a poll; an insert that fails is logged.
Sampled(ok) == IF ok THEN {Len(polls) + 1} ELSE {}

Poll(sampleOk) ==
  /\ pc = "idle"
  /\ Len(polls) < MaxPolls
  /\ polls' = Append(polls, clock)
  /\ sample' = sample \cup Sampled(sampleOk)
  /\ sampled' = sampled \cup Sampled(sampleOk)
  /\ faults' = IF sampleOk THEN faults ELSE faults \cup {"sample"}
  /\ acc' = Accumulated
  /\ avg' = IF CrossesBoundary THEN Average ELSE {}
  /\ last' = IF last = Nothing THEN clock ELSE last
  /\ pc' = IF CrossesBoundary THEN "window" ELSE TurnEnds
  /\ UNCHANGED << clock, window, inverter, phase, anchor, todo, checked, reported, cut,
                  measured >>

-----------------------------------------------------------------------------
(* The crossing. *)

ClosedWindow == WindowBoundary(last)

\* The row and its averages; a window that has one keeps it.
StoreWindow(ok) ==
  /\ pc = "window"
  /\ window' = IF ok /\ window[ClosedWindow] = Nothing
               THEN [window EXCEPT ![ClosedWindow] =
                       [opened |-> last, closed |-> clock, polls |-> avg]]
               ELSE window
  /\ avg' = {}
  /\ pc' = "fetch"
  /\ UNCHANGED << clock, polls, sample, inverter, phase, anchor, last, acc, todo,
                  checked, history, faults >>

\* get_inverter_snapshots: whatever inverters the gateway lists, each once.  After
\* an error the loop goes on as after an empty list.
FetchInverters(answered) ==
  /\ pc = "fetch"
  /\ todo' = answered
  /\ reported' = [reported EXCEPT ![ClosedWindow] = @ \cup answered]
  /\ pc' = IF answered = {} THEN "phases" ELSE "inverters"
  /\ UNCHANGED << clock, polls, tables, anchor, last, acc, avg, checked, cut, sampled,
                  measured, faults >>

\* Slip: the loop returns from inside.
OnlyFirst(x) == {}

\* What a loop over the batch has still to insert after x.
Remaining(x) == todo \ {x}

\* One insert.  Nothing makes window_start and serial_number unique.
InsertInverter(s) ==
  /\ pc = "inverters" /\ s \in todo
  /\ inverter' = inverter \cup
                   {[window |-> ClosedWindow, serial |-> s, poll |-> Len(polls)]}
  /\ todo' = Remaining(s)
  /\ pc' = IF todo' = {} THEN "phases" ELSE "inverters"
  /\ UNCHANGED << clock, polls, sample, window, phase, anchor, last, acc, avg, checked,
                  history, faults >>

\* Slip: the rest of the batch is not forgotten.
InverterFailsLater ==
  /\ pc = "inverters"
  /\ pc' = "phases"
  /\ cut' = cut \cup {ClosedWindow}
  /\ UNCHANGED << clock, polls, tables, anchor, last, acc, avg, todo, checked, reported,
                  sampled, measured, faults >>

\* An insert fails: the batch stops there, with what it has stored.
InverterFails ==
  /\ pc = "inverters"
  /\ todo' = {}
  /\ pc' = "phases"
  /\ cut' = cut \cup {ClosedWindow}
  /\ UNCHANGED << clock, polls, tables, anchor, last, acc, avg, checked, reported,
                  sampled, measured, faults >>

\* INSERT OR IGNORE, unique by the time of the poll, the meter and the channel,
\* one by one until an error.  Nothing else reads or writes the table meanwhile,
\* so the batch is one step; a response of an older firmware has no channels.
InsertPhases(channels) ==
  /\ pc = "phases"
  /\ phase' = phase \cup [at : {clock}, channel : channels]
  /\ measured' = measured \cup [at : {clock}, channel : channels]
  /\ pc' = "stamp"
  /\ UNCHANGED << clock, polls, sample, window, inverter, anchor, last, acc, avg, todo,
                  checked, reported, cut, sampled, faults >>

\* persist_reading's first write.
PersistStamp(ok) ==
  /\ pc = "stamp"
  /\ stamp' = IF ok THEN clock ELSE stamp
  /\ faults' = IF ok THEN faults ELSE faults \cup {"anchor"}
  /\ pc' = "counters"
  /\ UNCHANGED << clock, polls, tables, counters, last, acc, avg, todo, checked, history >>

\* Its three others, and the anchor in memory.
PersistCounters(ok) ==
  /\ pc = "counters"
  /\ counters' = (counters \/ ok)
  /\ faults' = IF ok THEN faults ELSE faults \cup {"anchor"}
  /\ last' = clock
  /\ pc' = TurnEnds
  /\ UNCHANGED << clock, polls, tables, stamp, acc, avg, todo, checked, history >>

-----------------------------------------------------------------------------
(* Retention, at most once a day of the clock and at every process's first  *)
(* poll.  Inverter rows and windows are kept for ever.                       *)

\* Slip: the two retention periods are swapped.
SwappedCutoff(days) == clock - (RetentionDays + PhaseRetentionDays - days) * DaySecs

Cutoff(days) == clock - days * DaySecs

SamplesKept == { n \in sample : polls[n] >= Cutoff(RetentionDays) }

\* Slip: the readings of earlier crossings go at once.
OnlyTheLatestPhases == { r \in phase : r.at >= clock }

PhasesKept == { r \in phase : r.at >= Cutoff(PhaseRetentionDays) }

ExpireSamples(ok) ==
  /\ pc = "expire"
  /\ sample' = IF ok THEN SamplesKept ELSE sample
  /\ faults' = IF ok THEN faults ELSE faults \cup {"delete"}
  /\ pc' = "expirePhases"
  /\ UNCHANGED << clock, polls, window, inverter, phase, anchor, last, acc, avg, todo,
                  checked, history >>

\* last_retention_check moves whether the deletes succeeded or not.
ExpirePhases(ok) ==
  /\ pc = "expirePhases"
  /\ phase' = IF ok THEN PhasesKept ELSE phase
  /\ faults' = IF ok THEN faults ELSE faults \cup {"delete"}
  /\ checked' = clock
  /\ pc' = "idle"
  /\ UNCHANGED << clock, polls, sample, window, inverter, anchor, last, acc, avg, todo,
                  history >>

-----------------------------------------------------------------------------
(* GET /api/inverters/arrays reads the latest window and then its rows, in   *)
(* two statements.  A window keeps its rows, so whatever happens between the *)
(* two, a request is answered with rows of a window as they are at the       *)
(* second: the requests need no steps of their own.                          *)

Readable == { r.window : r \in inverter }

\* What a response on w may be made of: one row per inverter; of several rows
\* of a serial, which SQLite returns in no stated order, the map keeps the last.
Responses(w) ==
  LET rows == { r \in inverter : r.window = w }
  IN  { response \in SUBSET rows :
          \A r \in rows : Cardinality({ q \in response : q.serial = r.serial }) = 1 }

-----------------------------------------------------------------------------
Environment ==
  \/ Elapse
  \/ \E t \in Time : ClockStep(t)
  \/ Crash

Crossing ==
  \/ \E ok \in BOOLEAN : StoreWindow(ok) \/ PersistStamp(ok) \/ PersistCounters(ok)
  \/ \E answered \in SUBSET Serials : FetchInverters(answered)
  \/ \E s \in Serials : InsertInverter(s)
  \/ \E channels \in SUBSET Channels : InsertPhases(channels)
  \/ InverterFails

Retention == \E ok \in BOOLEAN : ExpireSamples(ok) \/ ExpirePhases(ok)

Next ==
  \/ Environment
  \/ \E ok \in BOOLEAN : Start(ok) \/ Poll(ok)
  \/ Crossing
  \/ Retention

Spec == Init /\ [][Next]_vars

-----------------------------------------------------------------------------
Closed == { w \in Windows : window[w] /= Nothing }

InverterRow == [window : Windows, serial : Serials, poll : PollIds]

\* The variables range over what the tables and the process can hold.
TypeOK ==
  /\ clock \in Time
  /\ polls \in Seq(Time) /\ Len(polls) <= MaxPolls
  /\ sample \subseteq PollIds /\ acc \subseteq PollIds /\ avg \subseteq PollIds
  /\ window \in [Windows -> [opened : Time, closed : Time, polls : SUBSET PollIds] \cup {Nothing}]
  /\ inverter \subseteq InverterRow
  /\ phase \subseteq [at : Time, channel : Channels]
  /\ stamp \in Time \cup {Nothing} /\ counters \in BOOLEAN
  /\ pc \in {"down", "idle", "window", "fetch", "inverters", "phases",
             "stamp", "counters", "expire", "expirePhases"}
  /\ last \in Time \cup {Nothing}
  /\ todo \subseteq Serials /\ (todo /= {} => pc = "inverters")
  /\ avg /= {} => pc = "window"
  /\ checked \in Time \cup {Nothing}
  /\ reported \in [Windows -> SUBSET Serials] /\ cut \subseteq Windows
  /\ sampled \subseteq PollIds /\ measured \subseteq [at : Time, channel : Channels]
  /\ faults \subseteq Faults

\* The averages of a row are over at least one poll, no poll enters the averages
\* of two rows, and, the clock not being set back, all of them were polled
\* between the two readings the row's energy is the difference of: crashes,
\* lost windows and repeated crossings notwithstanding.
AveragesTellTheirWindow ==
  /\ \A w \in Closed : window[w].polls /= {}
  /\ \A v, w \in Closed : v /= w => window[v].polls \cap window[w].polls = {}
  /\ "clock" \notin faults => \A w \in Closed : \A n \in window[w].polls :
                                polls[n] \in window[w].opened .. window[w].closed

\* The accumulator holds no poll of a window after the anchor's, and is empty
\* without an anchor: the first poll of a later window clears it, however the
\* crossing ends.  A clock set back leaves the anchor in the future and the
\* accumulator growing until the clock is there again; while it is not, all of it
\* was polled in the anchor's window, so that a window's polls bound it.
AccumulatorStaysInWindow ==
  pc = "idle" =>
    /\ acc /= {} => last /= Nothing
    /\ \A n \in acc : WindowBoundary(polls[n]) <= ClosedWindow
    /\ "clock" \notin faults =>
         \A n \in acc : last <= polls[n] /\ WindowBoundary(polls[n]) = ClosedWindow

\* An inverter has one row per window, although no constraint says so: a window
\* is crossed once, unless the process ended during the crossing or the anchor
\* could not be written or read.
OneRowPerInverter ==
  faults \cap {"close", "anchor"} = {} =>
    \A r, q \in inverter : r.window = q.window /\ r.serial = q.serial => r = q

\* The arrays are reported whole and of one moment, although they are read in
\* two statements while a crossing may be inserting them: a response shows the
\* inverters the gateway reported for its window, no others, and lacks one of
\* them only while that batch is being inserted or if a batch of the window
\* stopped half way; it mixes crossings only if a window was crossed twice.  An
\* inverter the gateway left out is missing, and offline in the answer.
ArraysWhole ==
  \A w \in Readable : \A response \in Responses(w) :
    LET shown == { r.serial : r \in response }
    IN  /\ shown \subseteq reported[w]
        /\ \/ shown = reported[w]
           \/ pc = "inverters" /\ w = ClosedWindow
           \/ w \in cut
        /\ faults \cap {"close", "anchor"} = {} => \A r, q \in response : r.poll = q.poll

\* Of the samples and phase rows that were stored, retention has removed none
\* younger than its own period by the latest clock the loop has ever read,
\* whatever failed and however the clock was set; and, the clock not being set
\* back and no delete failing, it leaves none older than its period and a day
\* behind a completed poll, restarts included.
RetentionKeepsItsPeriods ==
  LET Kept(at, days) == \A n \in DOMAIN polls : polls[n] - at < (days + 1) * DaySecs
      Old(at, days) == \E n \in DOMAIN polls : at < polls[n] - days * DaySecs
  IN  /\ \A n \in sampled \ sample : Old(polls[n], RetentionDays)
      /\ \A r \in measured \ phase : Old(r.at, PhaseRetentionDays)
      /\ pc = "idle" /\ checked /= Nothing /\ faults \cap {"clock", "delete"} = {} =>
           /\ \A n \in sample : Kept(polls[n], RetentionDays)
           /\ \A r \in phase : Kept(r.at, PhaseRetentionDays)
=============================================================================
