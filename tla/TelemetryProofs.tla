--------------------------- MODULE TelemetryProofs ---------------------------
(***************************************************************************)
(* What holds of the recorded telemetry for every retention period, every  *)
(* set of inverters, every clock and whatever fails.                       *)
(***************************************************************************)
EXTENDS Telemetry, FiniteSetTheorems, TLAPS

-----------------------------------------------------------------------------
(* The inductive invariant, in parts beside the types. *)

InCrossing == pc \in {"window", "fetch", "inverters", "phases", "stamp", "counters"}

\* Where the loop is says what it holds: a turn that has polled is at the
\* clock of its poll, and a crossing has left the accumulator empty.
TurnInv ==
  /\ pc \notin {"down", "idle"} => polls /= << >> /\ polls[Len(polls)] = clock
  /\ pc = "down" => last = Nothing /\ checked = Nothing
  /\ InCrossing => /\ last /= Nothing /\ acc = {}
                   /\ WindowBoundary(last) < WindowBoundary(clock)
  /\ pc = "window" => avg /= {}
  /\ last = Nothing => acc = {}

\* While the clock is not set back, nothing is ahead of it, and what is
\* accumulated was polled in the anchor's window and not before the anchor.
PastInv ==
  "clock" \notin faults =>
    /\ \A n \in DOMAIN polls : polls[n] <= clock
    /\ last /= Nothing => last <= clock
    /\ stamp /= Nothing => stamp <= clock
    /\ \A n \in acc \cup avg : last <= polls[n]
    /\ \A n \in acc : WindowBoundary(polls[n]) = WindowBoundary(last)

\* Whatever the clock does, no poll of a window after the anchor's is accumulated.
AheadInv == \A n \in acc : WindowBoundary(polls[n]) <= WindowBoundary(last)

\* A poll is in the accumulator, in the averages of the crossing in progress,
\* or in those of one row.
AveragesInv ==
  /\ acc \cup avg \cup sample \subseteq DOMAIN polls
  /\ \A w \in Closed : /\ window[w].polls \subseteq DOMAIN polls
                       /\ window[w].polls \cap (acc \cup avg) = {}
  /\ AveragesTellTheirWindow

\* While no crossing was cut short and the anchor is intact, the anchor is
\* beyond every window that has rows, in memory and in config_store; a window
\* being crossed has the rows of this crossing only.
RowsInv ==
  faults \cap {"close", "anchor"} = {} =>
    /\ pc /= "counters" => (counters <=> stamp /= Nothing)
    /\ pc = "counters" => stamp = clock
    /\ pc \notin {"down", "counters"} /\ stamp /= Nothing => last = stamp
    /\ pc \notin {"inverters", "phases", "stamp"} =>
         /\ stamp = Nothing => inverter = {}
         /\ \A r \in inverter : r.window < WindowBoundary(stamp)
    /\ pc \in {"inverters", "phases", "stamp"} =>
         \A r \in inverter : r.window <= WindowBoundary(last)
    /\ pc = "inverters" =>
         \A r \in inverter : r.window = WindowBoundary(last) =>
           r.serial \notin todo /\ r.poll = Len(polls)
    /\ \A r, q \in inverter : r.window = q.window =>
         r.poll = q.poll /\ (r.serial = q.serial => r = q)

SerialsOf(w) == { r.serial : r \in { q \in inverter : q.window = w } }

\* The rows of a window are of inverters that were reported for it, and of those
\* none is missing but what is still to do, unless a batch stopped half way.
BatchInv ==
  /\ \A r \in inverter : r.serial \in reported[r.window]
  /\ \A s \in todo : s \in reported[ClosedWindow]
  /\ \A w \in Windows \ cut : \A s \in reported[w] :
       s \in SerialsOf(w) \/ (s \in todo /\ w = ClosedWindow)

\* What was stored and is no longer is older than its period was at some poll.
GoneInv ==
  /\ sampled \subseteq DOMAIN polls
  /\ \A n \in sampled \ sample :
       \E m \in DOMAIN polls : polls[n] < polls[m] - RetentionDays * DaySecs
  /\ \A r \in measured \ phase :
       \E m \in DOMAIN polls : r.at < polls[m] - PhaseRetentionDays * DaySecs

\* What is kept is younger than its period was at the last check, and the next
\* check is due before a day has passed at a poll.
RetentionInv ==
  faults \cap {"clock", "delete"} = {} =>
    /\ checked /= Nothing =>
         /\ \A n \in sample : polls[n] >= checked - RetentionDays * DaySecs
         /\ \A r \in phase : r.at >= checked - PhaseRetentionDays * DaySecs
         /\ checked <= clock
         /\ pc = "idle" => \A m \in DOMAIN polls : polls[m] - checked < DaySecs
    /\ pc = "expirePhases" =>
         \A n \in sample : polls[n] >= clock - RetentionDays * DaySecs

TelemetryInv ==
  /\ TypeOK /\ TurnInv /\ PastInv /\ AheadInv /\ AveragesInv
  /\ RowsInv /\ BatchInv /\ GoneInv /\ RetentionInv

-----------------------------------------------------------------------------
(* Facts about windows and the history of polls. *)

LEMMA BoundaryFacts ==
  /\ Time \subseteq Nat /\ Nothing \notin Time
  /\ \A t \in Time : WindowBoundary(t) \in Windows /\ WindowBoundary(t) \in Int
  /\ \A s, t \in Time : s <= t => WindowBoundary(s) <= WindowBoundary(t)
  <1>1. Time \subseteq Nat /\ Nothing \notin Time
    BY TelemetryBounds, NothingAssumption DEF Time
  <1>2. \A t \in Time : WindowBoundary(t) \in Windows
    BY DEF Windows
  <1> DEFINE q(t) == t \div WindowSecs
  <1>3. \A t \in Time : /\ q(t) \in Int /\ q(t) * WindowSecs \in Int
                        /\ q(t) * WindowSecs <= t /\ t < q(t) * WindowSecs + WindowSecs
    BY <1>1, WindowSecsAssumption
  <1>4. \A t \in Time : WindowBoundary(t) \in Int
    BY <1>3 DEF WindowBoundary
  <1>5. ASSUME NEW s \in Time, NEW t \in Time, s <= t
        PROVE  q(s) * WindowSecs <= q(t) * WindowSecs
    <2> DEFINE a == q(s)
               b == q(t)
    <2>1. a \in Int /\ b \in Int /\ WindowSecs \in Nat /\ WindowSecs > 0
      BY <1>3, WindowSecsAssumption
    <2>2. a * WindowSecs < b * WindowSecs + WindowSecs
      BY <1>1, <1>3, <1>5, <2>1
    <2> HIDE DEF a, b
    <2>3. b * WindowSecs + WindowSecs = (b + 1) * WindowSecs
      BY <2>1
    <2>4. a <= b
      BY <2>1, <2>2, <2>3
    <2>5. a * WindowSecs <= b * WindowSecs
      BY <2>1, <2>4
    <2> QED BY <2>5 DEF a, b
  <1>6. \A s, t \in Time : s <= t => WindowBoundary(s) <= WindowBoundary(t)
    BY <1>5 DEF WindowBoundary
  <1> QED BY <1>1, <1>2, <1>4, <1>6

\* What a poll does to the history and what is made of it.
LEMMA PollAppends ==
  ASSUME TypeOK, NEW ok \in BOOLEAN, Poll(ok)
  PROVE  LET now == Len(polls) + 1
         IN  /\ now \in PollIds /\ now \notin DOMAIN polls
             /\ Len(polls') = now /\ polls' /= << >> /\ polls' \in Seq(Time)
             /\ DOMAIN polls' = DOMAIN polls \cup {now}
             /\ \A n \in DOMAIN polls : polls'[n] = polls[n]
             /\ polls'[now] = clock
  BY TelemetryBounds DEF TypeOK, Poll, PollIds

LEMMA PollsAreTimes ==
  ASSUME TypeOK
  PROVE  /\ \A n \in DOMAIN polls : polls[n] \in Time
         /\ Len(polls) \in Nat /\ DOMAIN polls = 1 .. Len(polls)
         /\ DOMAIN polls \subseteq PollIds
  BY TelemetryBounds DEF TypeOK, PollIds

-----------------------------------------------------------------------------
(* Types, and where the loop is. *)

LEMMA TelemetryInit == Init => TelemetryInv
  <1> SUFFICES ASSUME Init PROVE TelemetryInv
    OBVIOUS
  <1> USE DEF Init
  <1>1. TypeOK
    <2>1. 0 \in Time /\ 0 <= MaxPolls
      BY TelemetryBounds DEF Time
    <2>2. counters \in BOOLEAN
      BY Zenon
    <2> QED BY <2>1, <2>2 DEF TypeOK
  <1>2. Closed = {}
    BY DEF Closed
  <1>3. counters <=> stamp /= Nothing
    BY Zenon
  <1>4. TurnInv /\ PastInv /\ AheadInv /\ GoneInv /\ RetentionInv
    BY BoundaryFacts, TelemetryBounds
    DEF TurnInv, InCrossing, PastInv, AheadInv, GoneInv, RetentionInv, Time
  <1>5. AveragesInv
    BY <1>2 DEF AveragesInv, AveragesTellTheirWindow
  <1>6. BatchInv
    <2>1. \A w \in Windows : reported[w] = {}
      OBVIOUS
    <2>2. \A s \in todo : s \in reported[ClosedWindow]
      OBVIOUS
    <2> QED BY <2>1, <2>2 DEF BatchInv
  <1>7. RowsInv
    BY <1>3, NothingAssumption DEF RowsInv
  <1> QED BY <1>1, <1>4, <1>5, <1>6, <1>7 DEF TelemetryInv

LEMMA TypeNext == TypeOK /\ TurnInv /\ [Next]_vars => TypeOK'
  <1> SUFFICES ASSUME TypeOK, TurnInv, [Next]_vars PROVE TypeOK'
    OBVIOUS
  <1> USE BoundaryFacts
      DEF TypeOK, TurnInv, InCrossing, tables, anchor, process, history, Faults
  <1>1. CASE Elapse
    <2>1. clock' \in Time
      <3> HIDE DEF TurnInv
      <3>1. clock \in Nat /\ clock < MaxTime /\ clock' = clock + 1
        BY <1>1, TelemetryBounds DEF Elapse, Time
      <3> QED BY <3>1, TelemetryBounds DEF Time
    <2>2. UNCHANGED << polls, tables, anchor, process, history, faults >>
      BY <1>1 DEF Elapse
    <2> QED BY <2>1, <2>2
  <1>2. ASSUME NEW t \in Time, ClockStep(t) PROVE TypeOK'
    BY <1>2 DEF ClockStep
  <1>3. CASE Crash
    BY <1>3 DEF Crash
  <1>4. ASSUME NEW ok \in BOOLEAN, Start(ok) PROVE TypeOK'
    BY <1>4 DEF Start
  <1>5. ASSUME NEW ok \in BOOLEAN, Poll(ok) PROVE TypeOK'
    <2>1. Len(polls) + 1 \in PollIds /\ polls' \in Seq(Time) /\ Len(polls') <= MaxPolls
      BY <1>5, PollAppends, TelemetryBounds DEF Poll, PollIds
    <2>2. /\ sample' \subseteq PollIds /\ sampled' \subseteq PollIds
          /\ acc' \subseteq PollIds /\ avg' \subseteq PollIds
      BY <1>5, <2>1 DEF Poll, Sampled, Accumulated, Average
    <2> QED BY <1>5, <2>1, <2>2 DEF Poll, TurnEnds
  <1>6. ASSUME NEW ok \in BOOLEAN, StoreWindow(ok) PROVE TypeOK'
    <2>1. [opened |-> last, closed |-> clock, polls |-> avg]
             \in [opened : Time, closed : Time, polls : SUBSET PollIds]
      BY <1>6 DEF StoreWindow
    <2>2. window' \in [Windows -> [opened : Time, closed : Time, polls : SUBSET PollIds]
                                    \cup {Nothing}]
      BY <1>6, <2>1 DEF StoreWindow
    <2> QED BY <1>6, <2>2 DEF StoreWindow
  <1>7. ASSUME NEW answered \in SUBSET Serials, FetchInverters(answered) PROVE TypeOK'
    <2>1. reported' \in [Windows -> SUBSET Serials]
      BY <1>7 DEF FetchInverters
    <2> QED BY <1>7, <2>1 DEF FetchInverters
  <1>8. ASSUME NEW s \in Serials, InsertInverter(s) PROVE TypeOK'
    <2>1. Len(polls) \in PollIds
      BY <1>8, PollsAreTimes DEF InsertInverter, PollIds
    <2>2. inverter' \subseteq InverterRow
      BY <1>8, <2>1 DEF InsertInverter, InverterRow, ClosedWindow
    <2> QED BY <1>8, <2>2 DEF InsertInverter, Remaining
  <1>9. CASE InverterFails
    BY <1>9 DEF InverterFails, ClosedWindow
  <1>10. ASSUME NEW channels \in SUBSET Channels, InsertPhases(channels) PROVE TypeOK'
    BY <1>10 DEF InsertPhases
  <1>11. ASSUME NEW ok \in BOOLEAN, PersistStamp(ok) PROVE TypeOK'
    BY <1>11 DEF PersistStamp
  <1>12. ASSUME NEW ok \in BOOLEAN, PersistCounters(ok) PROVE TypeOK'
    BY <1>12 DEF PersistCounters, TurnEnds
  <1>13. ASSUME NEW ok \in BOOLEAN, ExpireSamples(ok) PROVE TypeOK'
    BY <1>13 DEF ExpireSamples, SamplesKept
  <1>14. ASSUME NEW ok \in BOOLEAN, ExpirePhases(ok) PROVE TypeOK'
    BY <1>14 DEF ExpirePhases, PhasesKept
  <1>15. CASE UNCHANGED vars
    BY <1>15 DEF vars
  <1> QED
    BY <1>1, <1>2, <1>3, <1>4, <1>5, <1>6, <1>7, <1>8, <1>9, <1>10, <1>11, <1>12, <1>13,
       <1>14, <1>15 DEF Next, Environment, Crossing, Retention

LEMMA TurnNext == TypeOK /\ TurnInv /\ [Next]_vars => TurnInv'
  <1> SUFFICES ASSUME TypeOK, TurnInv, [Next]_vars PROVE TurnInv'
    OBVIOUS
  <1> USE BoundaryFacts DEF TypeOK, TurnInv, InCrossing, tables, anchor, process
  <1>1. ASSUME NEW ok \in BOOLEAN, Poll(ok) PROVE TurnInv'
    BY <1>1, PollAppends DEF Poll, TurnEnds, CrossesBoundary, Accumulated, Average
  <1>2. CASE Elapse \/ \E t \in Time : ClockStep(t)
    BY <1>2 DEF Elapse, ClockStep, Unread
  <1>3. CASE Crash
    BY <1>3 DEF Crash
  <1>4. ASSUME NEW ok \in BOOLEAN, Start(ok) PROVE TurnInv'
    BY <1>4 DEF Start
  <1>5. ASSUME NEW ok \in BOOLEAN, NEW answered \in SUBSET Serials,
               \/ StoreWindow(ok) \/ FetchInverters(answered) \/ PersistStamp(ok)
               \/ PersistCounters(ok) \/ ExpireSamples(ok) \/ ExpirePhases(ok)
        PROVE  TurnInv'
    BY <1>5 DEF StoreWindow, FetchInverters, PersistStamp, PersistCounters, ExpireSamples,
                ExpirePhases, TurnEnds
  <1>6. ASSUME NEW s \in Serials, InsertInverter(s) PROVE TurnInv'
    BY <1>6 DEF InsertInverter
  <1>7. CASE InverterFails
    BY <1>7 DEF InverterFails
  <1>8. ASSUME NEW channels \in SUBSET Channels, InsertPhases(channels) PROVE TurnInv'
    BY <1>8 DEF InsertPhases
  <1>9. CASE UNCHANGED vars
    BY <1>9 DEF vars
  <1> QED
    BY <1>1, <1>2, <1>3, <1>4, <1>5, <1>6, <1>7, <1>8, <1>9
    DEF Next, Environment, Crossing, Retention

-----------------------------------------------------------------------------
(* What is accumulated, and what the averages are of. *)

LEMMA PastNext == TypeOK /\ TurnInv /\ PastInv /\ AveragesInv /\ [Next]_vars => PastInv'
  <1> SUFFICES ASSUME TypeOK, TurnInv, PastInv, AveragesInv, [Next]_vars,
                      "clock" \notin faults'
               PROVE  PastInv'
    BY DEF PastInv
  <1>0. \A t \in Time : t <= clock => t <= clock + 1
    <2>1. Time \subseteq Nat /\ clock \in Nat
      BY BoundaryFacts DEF TypeOK
    <2> QED BY <2>1
  <1> USE BoundaryFacts DEF TypeOK, TurnInv, PastInv, InCrossing, tables, anchor, process
  <1>1. ASSUME NEW ok \in BOOLEAN, Poll(ok) PROVE PastInv'
    <2> DEFINE now == Len(polls) + 1
    <2>1. /\ DOMAIN polls' = DOMAIN polls \cup {now} /\ polls'[now] = clock
          /\ now \notin DOMAIN polls
          /\ \A n \in DOMAIN polls : polls'[n] = polls[n]
      BY <1>1, PollAppends
    <2> HIDE DEF now
    <2>2. "clock" \notin faults /\ avg = {} /\ clock' = clock /\ stamp' = stamp
      BY <1>1 DEF Poll
    <2>3. \A n \in DOMAIN polls' : polls'[n] <= clock'
      BY <2>1, <2>2
    <2>4. last' \in Time /\ last' <= clock'
      BY <1>1, <2>2 DEF Poll
    <2>5. acc \cup {now} \subseteq DOMAIN polls' /\ acc \subseteq DOMAIN polls
      <3>1. acc \subseteq DOMAIN polls
        BY DEF AveragesInv
      <3> QED BY <2>1, <3>1
    <2>6. acc' \cup avg' \subseteq acc \cup {now}
      BY <1>1 DEF Poll, Accumulated, Average, now
    <2>7. \A n \in acc \cup {now} : last' <= polls'[n]
      BY <1>1, <2>1, <2>2, <2>4, <2>5 DEF Poll
    <2>8. \A n \in acc' : WindowBoundary(polls'[n]) = WindowBoundary(last')
      <3>1. CASE last = Nothing
        <4>1. acc' = {now} /\ last' = clock
          BY <1>1, <3>1 DEF Poll, Accumulated, Average, CrossesBoundary, now
        <4> QED BY <2>1, <4>1
      <3>2. CASE last /= Nothing /\ ~ CrossesBoundary
        <4>1. WindowBoundary(clock) = WindowBoundary(last) /\ last' = last
          BY <1>1, <2>2, <3>2 DEF Poll, CrossesBoundary
        <4>2. acc' = acc \cup {now}
          BY <1>1, <3>2 DEF Poll, Accumulated, Average, now
        <4> QED BY <2>1, <2>2, <2>5, <4>1, <4>2
      <3>3. CASE CrossesBoundary
        BY <1>1, <3>3 DEF Poll, Accumulated
      <3> QED BY <3>1, <3>2, <3>3
    <2> QED BY <1>1, <2>2, <2>3, <2>4, <2>6, <2>7, <2>8 DEF Poll
  <1>2. CASE Elapse
    <2>1. UNCHANGED << polls, last, stamp, acc, avg, faults >> /\ clock' = clock + 1
      BY <1>2 DEF Elapse
    <2>2. \A n \in DOMAIN polls : polls[n] \in Time
      BY PollsAreTimes
    <2>3. "clock" \notin faults
      BY <2>1
    <2> QED BY <1>0, <2>1, <2>2, <2>3
  <1>3. CASE \E t \in Time : ClockStep(t)
    BY <1>3 DEF ClockStep
  <1>4. CASE Crash
    BY <1>4 DEF Crash
  <1>5. ASSUME NEW ok \in BOOLEAN, Start(ok) PROVE PastInv'
    BY <1>5 DEF Start
  <1>6. ASSUME NEW ok \in BOOLEAN, NEW answered \in SUBSET Serials,
               \/ StoreWindow(ok) \/ FetchInverters(answered) \/ PersistStamp(ok)
               \/ PersistCounters(ok) \/ ExpireSamples(ok) \/ ExpirePhases(ok)
        PROVE  PastInv'
    <2>1. CASE StoreWindow(ok) \/ FetchInverters(answered) \/ ExpireSamples(ok) \/ ExpirePhases(ok)
      BY <2>1 DEF StoreWindow, FetchInverters, ExpireSamples, ExpirePhases
    <2>2. CASE PersistStamp(ok)
      BY <2>2 DEF PersistStamp
    <2>3. CASE PersistCounters(ok)
      BY <2>3 DEF PersistCounters
    <2> QED BY <1>6, <2>1, <2>2, <2>3
  <1>7. ASSUME NEW s \in Serials, InsertInverter(s) PROVE PastInv'
    BY <1>7 DEF InsertInverter
  <1>8. CASE InverterFails
    BY <1>8 DEF InverterFails
  <1>9. ASSUME NEW channels \in SUBSET Channels, InsertPhases(channels) PROVE PastInv'
    BY <1>9 DEF InsertPhases
  <1>10. CASE UNCHANGED vars
    BY <1>10 DEF vars
  <1> QED
    BY <1>1, <1>2, <1>3, <1>4, <1>5, <1>6, <1>7, <1>8, <1>9, <1>10
    DEF Next, Environment, Crossing, Retention

LEMMA AheadNext ==
  TypeOK /\ TurnInv /\ AheadInv /\ AveragesInv /\ [Next]_vars => AheadInv'
  <1> SUFFICES ASSUME TypeOK, TurnInv, AheadInv, AveragesInv, [Next]_vars PROVE AheadInv'
    OBVIOUS
  <1>1. ASSUME NEW ok \in BOOLEAN, Poll(ok) PROVE AheadInv'
    <2> DEFINE now == Len(polls) + 1
    <2>1. /\ now \notin DOMAIN polls /\ polls'[now] = clock
          /\ \A n \in DOMAIN polls : polls'[n] = polls[n]
      BY <1>1, PollAppends
    <2>2. acc \subseteq DOMAIN polls
      BY DEF AveragesInv
    <2>3. clock \in Time /\ last \in Time \cup {Nothing}
      BY DEF TypeOK
    <2>4. CASE last = Nothing
      <3>1. acc' = {now} /\ last' = clock
        BY <1>1, <2>4 DEF Poll, Accumulated, Average, CrossesBoundary, TurnInv
      <3> QED BY <2>1, <2>3, <3>1, BoundaryFacts DEF AheadInv
    <2>5. CASE last /= Nothing /\ ~ CrossesBoundary
      <3>1. acc' = acc \cup {now} /\ last' = last
        BY <1>1, <2>5 DEF Poll, Accumulated, Average
      <3>2. WindowBoundary(clock) <= WindowBoundary(last)
        BY <2>3, <2>5, BoundaryFacts DEF CrossesBoundary
      <3> HIDE DEF now
      <3> QED BY <2>1, <2>2, <3>1, <3>2 DEF AheadInv
    <2>6. CASE CrossesBoundary
      BY <1>1, <2>6 DEF Poll, Accumulated, AheadInv
    <2> QED BY <2>4, <2>5, <2>6
  <1>2. CASE (\E ok \in BOOLEAN : PersistCounters(ok)) \/ Crash
    <2>1. acc' = {}
      BY <1>2 DEF PersistCounters, Crash, TurnInv, InCrossing
    <2> QED BY <2>1 DEF AheadInv
  <1>3. ASSUME NEW ok \in BOOLEAN, Start(ok) PROVE AheadInv'
    <2>1. acc' = {}
      BY <1>3 DEF Start, TurnInv
    <2> QED BY <2>1 DEF AheadInv
  <1>4. ASSUME UNCHANGED << acc, polls, last >> PROVE AheadInv'
    BY <1>4 DEF AheadInv
  <1>5. ASSUME NEW ok \in BOOLEAN, NEW answered \in SUBSET Serials,
               NEW channels \in SUBSET Channels, NEW s \in Serials,
               \/ StoreWindow(ok) \/ FetchInverters(answered) \/ InsertInverter(s)
               \/ InverterFails \/ InsertPhases(channels) \/ PersistStamp(ok)
               \/ ExpireSamples(ok) \/ ExpirePhases(ok)
        PROVE  AheadInv'
    BY <1>4, <1>5
    DEF StoreWindow, FetchInverters, InsertInverter, InverterFails, InsertPhases,
        PersistStamp, ExpireSamples, ExpirePhases
  <1>6. CASE Elapse \/ (\E t \in Time : ClockStep(t)) \/ UNCHANGED vars
    BY <1>4, <1>6 DEF Elapse, ClockStep, vars, process
  <1> QED
    BY <1>1, <1>2, <1>3, <1>5, <1>6, SomethingToRecord
    DEF Next, Environment, Crossing, Retention

LEMMA AveragesNext ==
  TypeOK /\ TurnInv /\ PastInv /\ AveragesInv /\ [Next]_vars => AveragesInv'
  <1> SUFFICES ASSUME TypeOK, TurnInv, PastInv, AveragesInv, [Next]_vars
               PROVE  AveragesInv'
    OBVIOUS
  <1> USE DEF TypeOK, AveragesInv, Closed, AveragesTellTheirWindow
  <1>1. ASSUME NEW ok \in BOOLEAN, Poll(ok) PROVE AveragesInv'
    <2> DEFINE now == Len(polls) + 1
    <2>1. /\ DOMAIN polls' = DOMAIN polls \cup {now} /\ now \notin DOMAIN polls
          /\ \A n \in DOMAIN polls : polls'[n] = polls[n]
      BY <1>1, PollAppends
    <2>2. /\ acc' \cup avg' \subseteq acc \cup avg \cup {now}
          /\ sample' \subseteq sample \cup {now} /\ window' = window
      BY <1>1 DEF Poll, Accumulated, Average, Sampled
    <2>3. "clock" \notin faults' => "clock" \notin faults
      BY <1>1 DEF Poll
    <2> HIDE DEF now
    <2>4. acc' \cup avg' \cup sample' \subseteq DOMAIN polls'
      BY <2>1, <2>2
    <2>5. \A w \in Closed' : /\ window'[w].polls \subseteq DOMAIN polls
                             /\ window'[w].polls \subseteq DOMAIN polls'
                             /\ window'[w].polls \cap (acc' \cup avg') = {}
      BY <2>1, <2>2
    <2>6. AveragesTellTheirWindow'
      BY <2>1, <2>2, <2>3, <2>5
    <2> QED BY <2>4, <2>5, <2>6
  <1>2. ASSUME NEW ok \in BOOLEAN, StoreWindow(ok) PROVE AveragesInv'
    <2> DEFINE row == [opened |-> last, closed |-> clock, polls |-> avg]
    <2>1. CASE ok /\ window[ClosedWindow] = Nothing
      <3>1. ClosedWindow \in Windows /\ last /= Nothing /\ acc = {} /\ avg /= {}
        BY <1>2, BoundaryFacts DEF StoreWindow, ClosedWindow, TurnInv, InCrossing
      <3>2. /\ window' = [window EXCEPT ![ClosedWindow] = row] /\ avg' = {}
            /\ UNCHANGED << polls, sample, acc, faults >>
        BY <1>2, <2>1 DEF StoreWindow
      <3>3. row.polls = avg /\ row.opened = last /\ row.closed = clock
        OBVIOUS
      <3>4. /\ window'[ClosedWindow] = row
            /\ Closed' \subseteq Closed \cup {ClosedWindow}
            /\ \A w \in Closed : w /= ClosedWindow /\ window'[w] = window[w]
        BY <2>1, <3>1, <3>2, <3>3
      <3>5. "clock" \notin faults => \A n \in avg : polls[n] \in last .. clock
        <4>1. avg \subseteq DOMAIN polls
          OBVIOUS
        <4>2. \A n \in avg : polls[n] \in Int /\ last \in Int /\ clock \in Int
          <5>1. last \in Time /\ clock \in Time
            BY <3>1
          <5>2. \A n \in avg : polls[n] \in Time
            BY <4>1, PollsAreTimes
          <5>3. Time \subseteq Int
            BY BoundaryFacts
          <5> HIDE DEF TypeOK, AveragesInv, Closed, AveragesTellTheirWindow
          <5> QED BY <5>1, <5>2, <5>3
        <4>3. "clock" \notin faults => \A n \in avg : last <= polls[n] /\ polls[n] <= clock
          BY <3>1, <4>1 DEF PastInv
        <4> QED BY <4>2, <4>3
      <3> HIDE DEF row
      <3>6. AveragesTellTheirWindow'
        BY <3>1, <3>2, <3>3, <3>4, <3>5 DEF AveragesTellTheirWindow
      <3> QED BY <3>1, <3>2, <3>3, <3>4, <3>6
    <2>2. CASE ~ (ok /\ window[ClosedWindow] = Nothing)
      BY <1>2, <2>2 DEF StoreWindow
    <2> QED BY <2>1, <2>2
  <1>3. CASE Elapse
    BY <1>3 DEF Elapse, tables, process
  <1>4. CASE \E t \in Time : ClockStep(t)
    BY <1>4 DEF ClockStep, tables, process
  <1>5. CASE Crash
    BY <1>5 DEF Crash, tables
  <1>6. ASSUME NEW ok \in BOOLEAN, Start(ok) PROVE AveragesInv'
    BY <1>6 DEF Start, tables
  <1>7. ASSUME NEW ok \in BOOLEAN, NEW answered \in SUBSET Serials,
               \/ FetchInverters(answered) \/ PersistStamp(ok)
               \/ PersistCounters(ok) \/ ExpireSamples(ok) \/ ExpirePhases(ok)
        PROVE  AveragesInv'
    BY <1>7 DEF FetchInverters, PersistStamp, PersistCounters, ExpireSamples, SamplesKept,
                ExpirePhases, tables
  <1>8. ASSUME NEW s \in Serials, InsertInverter(s) PROVE AveragesInv'
    BY <1>8 DEF InsertInverter
  <1>9. CASE InverterFails
    BY <1>9 DEF InverterFails, tables
  <1>10. ASSUME NEW channels \in SUBSET Channels, InsertPhases(channels) PROVE AveragesInv'
    BY <1>10 DEF InsertPhases
  <1>11. CASE UNCHANGED vars
    BY <1>11 DEF vars, tables, process
  <1> QED
    BY <1>1, <1>2, <1>3, <1>4, <1>5, <1>6, <1>7, <1>8, <1>9, <1>10, <1>11
    DEF Next, Environment, Crossing, Retention

-----------------------------------------------------------------------------
(* The inverters of a window. *)

LEMMA RowsNext == TypeOK /\ TurnInv /\ RowsInv /\ [Next]_vars => RowsInv'
  <1> SUFFICES ASSUME TypeOK, TurnInv, RowsInv, [Next]_vars,
                      faults' \cap {"close", "anchor"} = {}
               PROVE  RowsInv'
    BY DEF RowsInv
  <1>0. /\ \A r \in inverter : r.window \in Int
        /\ WindowBoundary(clock) \in Int
        /\ last /= Nothing => WindowBoundary(last) \in Int
        /\ stamp /= Nothing => WindowBoundary(stamp) \in Int
    <2>1. \A w \in Windows : w \in Int
      BY BoundaryFacts DEF Windows
    <2>2. \A r \in inverter : r.window \in Int
      BY <2>1 DEF TypeOK, InverterRow
    <2>3. clock \in Time /\ last \in Time \cup {Nothing} /\ stamp \in Time \cup {Nothing}
      BY DEF TypeOK
    <2> QED BY <2>2, <2>3, BoundaryFacts
  <1> USE DEF TurnInv, RowsInv, InCrossing, anchor, process
  <1>1. CASE Elapse
    BY <1>1 DEF Elapse, Unread, tables
  <1>2. CASE \E t \in Time : ClockStep(t)
    BY <1>2 DEF ClockStep, Unread, tables
  <1>3. CASE Crash
    BY <1>3 DEF Crash, tables
  <1>4. ASSUME NEW ok \in BOOLEAN, Start(ok) PROVE RowsInv'
    BY <1>4 DEF Start, tables
  <1>5. ASSUME NEW ok \in BOOLEAN, Poll(ok) PROVE RowsInv'
    BY <1>5 DEF Poll, TurnEnds, CrossesBoundary
  <1>6. ASSUME NEW ok \in BOOLEAN, StoreWindow(ok) PROVE RowsInv'
    BY <1>6 DEF StoreWindow
  <1>7. ASSUME NEW answered \in SUBSET Serials, FetchInverters(answered) PROVE RowsInv'
    <2>1. /\ faults' = faults /\ inverter' = inverter /\ last' = last /\ stamp' = stamp
          /\ counters' = counters /\ pc = "fetch" /\ pc' \in {"inverters", "phases"}
          /\ last /= Nothing
      BY <1>7 DEF FetchInverters, tables
    <2>2. /\ \A r \in inverter : r.window < WindowBoundary(last)
          /\ WindowBoundary(last) \in Int
      <3>1. CASE stamp = Nothing
        BY <1>0, <2>1, <3>1
      <3>2. CASE stamp /= Nothing
        <4>1. last = stamp
          BY <2>1, <3>2
        <4> QED BY <1>0, <2>1, <3>2, <4>1
      <3> QED BY <3>1, <3>2
    <2>3. \A r \in inverter : /\ r.window <= WindowBoundary(last)
                              /\ r.window /= WindowBoundary(last)
      <3> HIDE DEF TurnInv, RowsInv
      <3> QED BY <1>0, <2>2
    <2> QED BY <2>1, <2>3
  <1>8. ASSUME NEW s \in Serials, InsertInverter(s) PROVE RowsInv'
    <2> DEFINE row == [window |-> ClosedWindow, serial |-> s, poll |-> Len(polls)]
    <2>1. /\ pc = "inverters" /\ inverter' = inverter \cup {row}
          /\ s \in todo /\ todo' = todo \ {s} /\ pc' \in {"inverters", "phases"}
          /\ UNCHANGED << clock, polls, last, stamp, counters, faults >>
          /\ last /= Nothing /\ WindowBoundary(last) \in Int
      BY <1>8, <1>0 DEF InsertInverter, Remaining
    <2>2. row.window = WindowBoundary(last) /\ row.serial = s /\ row.poll = Len(polls)
      BY DEF ClosedWindow
    <2> HIDE DEF row
    <2>3. \A r \in inverter : r.window = row.window => r.serial /= s /\ r.poll = row.poll
      BY <2>1, <2>2
    <2>4. \A r, q \in inverter' : r.window = q.window =>
            r.poll = q.poll /\ (r.serial = q.serial => r = q)
      BY <2>1, <2>2, <2>3
    <2>5. \A r \in inverter' : r.window <= WindowBoundary(last)
      BY <2>1, <2>2
    <2>6. \A r \in inverter' : r.window = WindowBoundary(last) =>
            r.serial \notin todo' /\ r.poll = Len(polls)
      BY <2>1, <2>2
    <2> QED BY <2>1, <2>4, <2>5, <2>6
  <1>9. CASE InverterFails
    BY <1>9 DEF InverterFails, tables
  <1>10. ASSUME NEW channels \in SUBSET Channels, InsertPhases(channels) PROVE RowsInv'
    BY <1>10 DEF InsertPhases
  <1>11. ASSUME NEW ok \in BOOLEAN, PersistStamp(ok) PROVE RowsInv'
    <2>1. /\ inverter' = inverter /\ stamp' = clock /\ last' = last /\ clock' = clock
          /\ pc = "stamp" /\ pc' = "counters" /\ faults' = faults
      BY <1>11 DEF PersistStamp, tables
    <2>2. clock /= Nothing
      BY BoundaryFacts DEF TypeOK
    <2>3. /\ \A r \in inverter : r.window <= WindowBoundary(last)
          /\ WindowBoundary(last) < WindowBoundary(clock) /\ last /= Nothing
      BY <2>1
    <2>4. \A r \in inverter : r.window < WindowBoundary(clock)
      <3> HIDE DEF TurnInv, RowsInv
      <3> SUFFICES ASSUME NEW r \in inverter PROVE r.window < WindowBoundary(clock)
        OBVIOUS
      <3>1. r.window \in Int /\ WindowBoundary(last) \in Int /\ WindowBoundary(clock) \in Int
        BY <1>0, <2>3
      <3>2. r.window <= WindowBoundary(last) /\ WindowBoundary(last) < WindowBoundary(clock)
        BY <2>3
      <3> QED BY <3>1, <3>2
    <2> QED BY <2>1, <2>2, <2>4
  <1>12. ASSUME NEW ok \in BOOLEAN, PersistCounters(ok) PROVE RowsInv'
    <2>1. /\ inverter' = inverter /\ stamp' = stamp /\ last' = clock /\ clock' = clock
          /\ counters' /\ pc = "counters" /\ pc' \in {"idle", "expire"} /\ faults' = faults
      BY <1>12 DEF PersistCounters, TurnEnds, tables
    <2>2. stamp = clock /\ clock /= Nothing
      BY <2>1, BoundaryFacts DEF TypeOK
    <2> QED BY <2>1, <2>2
  <1>13. ASSUME NEW ok \in BOOLEAN, ExpireSamples(ok) PROVE RowsInv'
    BY <1>13 DEF ExpireSamples
  <1>14. ASSUME NEW ok \in BOOLEAN, ExpirePhases(ok) PROVE RowsInv'
    BY <1>14 DEF ExpirePhases
  <1>15. CASE UNCHANGED vars
    BY <1>15 DEF vars, tables
  <1> QED
    BY <1>1, <1>2, <1>3, <1>4, <1>5, <1>6, <1>7, <1>8, <1>9, <1>10, <1>11, <1>12, <1>13,
       <1>14, <1>15 DEF Next, Environment, Crossing, Retention

LEMMA BatchNext == TypeOK /\ TurnInv /\ BatchInv /\ [Next]_vars => BatchInv'
  <1> SUFFICES ASSUME TypeOK, TurnInv, BatchInv, [Next]_vars PROVE BatchInv'
    OBVIOUS
  <1>0. /\ \A w : last' = last => ClosedWindow' = ClosedWindow
        /\ pc /= "inverters" => todo = {}
        /\ InCrossing => ClosedWindow \in Windows
    BY BoundaryFacts DEF ClosedWindow, TypeOK, InCrossing, TurnInv
  \* Nothing is still to do, and nothing is inserted or reported.
  <1>1. ASSUME todo = {}, todo' = {}, UNCHANGED << inverter, reported, cut >>
        PROVE  BatchInv'
    <2>1. \A w : SerialsOf(w)' = SerialsOf(w)
      BY <1>1 DEF SerialsOf
    <2>2. \A w \in Windows \ cut : \A s \in reported[w] : s \in SerialsOf(w)
      BY <1>1 DEF BatchInv
    <2>3. \A w \in Windows \ cut' : \A s \in reported'[w] : s \in SerialsOf(w)'
      BY <1>1, <2>1, <2>2
    <2>4. \A r \in inverter' : r.serial \in reported'[r.window]
      BY <1>1 DEF BatchInv
    <2>5. \A s \in todo' : s \in reported'[ClosedWindow']
      BY <1>1
    <2>6. \A w \in Windows \ cut' : \A s \in reported'[w] :
            s \in SerialsOf(w)' \/ (s \in todo' /\ w = ClosedWindow')
      BY <2>3
    <2> QED BY <2>4, <2>5, <2>6 DEF BatchInv
  \* The batch ends without what is still to do, and its window is known for it.
  <1>2. ASSUME todo' = {}, UNCHANGED << inverter, reported >>,
               cut' = IF pc = "inverters" THEN cut \cup {ClosedWindow} ELSE cut
        PROVE  BatchInv'
    <2>1. \A w : SerialsOf(w)' = SerialsOf(w)
      BY <1>2 DEF SerialsOf
    <2>2. \A w \in Windows \ cut' : \A s \in reported[w] : s \in SerialsOf(w)
      BY <1>0, <1>2 DEF BatchInv
    <2>3. \A w \in Windows \ cut' : \A s \in reported'[w] : s \in SerialsOf(w)'
      BY <1>2, <2>1, <2>2
    <2>4. \A r \in inverter' : r.serial \in reported'[r.window]
      BY <1>2 DEF BatchInv
    <2>5. \A s \in todo' : s \in reported'[ClosedWindow']
      BY <1>2
    <2>6. \A w \in Windows \ cut' : \A s \in reported'[w] :
            s \in SerialsOf(w)' \/ (s \in todo' /\ w = ClosedWindow')
      BY <2>3
    <2> QED BY <2>4, <2>5, <2>6 DEF BatchInv
  <1>3. CASE Elapse \/ \E t \in Time : ClockStep(t)
    BY <1>0, <1>1, <1>3 DEF Elapse, ClockStep, Unread, tables, process, history
  <1>4. CASE Crash \/ InverterFails
    BY <1>2, <1>4 DEF Crash, InverterFails, ClosedWindow, tables
  <1>5. ASSUME NEW ok \in BOOLEAN,
               \/ Start(ok) \/ Poll(ok) \/ StoreWindow(ok) \/ PersistStamp(ok)
               \/ PersistCounters(ok) \/ ExpireSamples(ok) \/ ExpirePhases(ok)
        PROVE  BatchInv'
    BY <1>0, <1>1, <1>5
    DEF Start, Poll, StoreWindow, PersistStamp, PersistCounters, ExpireSamples, ExpirePhases,
        tables, history
  <1>6. ASSUME NEW answered \in SUBSET Serials, FetchInverters(answered) PROVE BatchInv'
    <2>1. /\ todo = {} /\ todo' = answered /\ ClosedWindow' = ClosedWindow
          /\ ClosedWindow \in Windows /\ inverter' = inverter /\ cut' = cut
          /\ reported' = [reported EXCEPT ![ClosedWindow] = @ \cup answered]
      BY <1>0, <1>6 DEF FetchInverters, InCrossing, tables
    <2>2. /\ DOMAIN reported = Windows
          /\ \A r \in inverter : r.window \in Windows
      BY DEF TypeOK, InverterRow
    <2>3. /\ reported'[ClosedWindow] = reported[ClosedWindow] \cup answered
          /\ \A w \in Windows : w /= ClosedWindow => reported'[w] = reported[w]
      BY <2>1, <2>2
    <2>4. \A w : SerialsOf(w)' = SerialsOf(w)
      BY <2>1 DEF SerialsOf
    <2>5. \A r \in inverter' : r.serial \in reported'[r.window]
      BY <2>1, <2>2, <2>3 DEF BatchInv
    <2>6. \A s \in todo' : s \in reported'[ClosedWindow']
      BY <2>1, <2>3
    <2>7. \A w \in Windows \ cut' : \A s \in reported'[w] :
            s \in SerialsOf(w)' \/ (s \in todo' /\ w = ClosedWindow')
      BY <2>1, <2>3, <2>4 DEF BatchInv
    <2> QED BY <2>5, <2>6, <2>7 DEF BatchInv
  <1>7. ASSUME NEW s \in Serials, InsertInverter(s) PROVE BatchInv'
    <2> DEFINE row == [window |-> ClosedWindow, serial |-> s, poll |-> Len(polls)]
    <2>1. /\ inverter' = inverter \cup {row} /\ todo' = todo \ {s} /\ s \in todo
          /\ ClosedWindow' = ClosedWindow /\ UNCHANGED << reported, cut >>
          /\ row.window = ClosedWindow /\ row.serial = s
      BY <1>0, <1>7 DEF InsertInverter, Remaining, history
    <2> HIDE DEF row
    <2>2. \A w : SerialsOf(w) \subseteq SerialsOf(w)'
      BY <2>1 DEF SerialsOf
    <2>3. s \in SerialsOf(ClosedWindow)'
      BY <2>1 DEF SerialsOf
    <2>4. \A r \in inverter' : r.serial \in reported'[r.window]
      BY <2>1 DEF BatchInv
    <2>5. \A t \in todo' : t \in reported'[ClosedWindow']
      BY <2>1 DEF BatchInv
    <2>6. \A w \in Windows \ cut' : \A t \in reported'[w] :
            t \in SerialsOf(w)' \/ (t \in todo' /\ w = ClosedWindow')
      BY <2>1, <2>2, <2>3 DEF BatchInv
    <2> QED BY <2>4, <2>5, <2>6 DEF BatchInv
  <1>8. ASSUME NEW channels \in SUBSET Channels, InsertPhases(channels) PROVE BatchInv'
    BY <1>0, <1>1, <1>8 DEF InsertPhases
  <1>9. CASE UNCHANGED vars
    BY <1>0, <1>9 DEF vars, tables, process, history, BatchInv, SerialsOf
  <1> QED
    BY <1>3, <1>4, <1>5, <1>6, <1>7, <1>8, <1>9 DEF Next, Environment, Crossing, Retention

-----------------------------------------------------------------------------
(* Retention. *)

LEMMA InstantsAreInts ==
  ASSUME TypeOK, AveragesInv
  PROVE  /\ clock \in Int /\ (checked /= Nothing => checked \in Int)
         /\ \A n \in DOMAIN polls : polls[n] \in Int
         /\ \A row \in phase : row.at \in Int
         /\ sample \subseteq DOMAIN polls
  <1>1. Time \subseteq Int
    BY BoundaryFacts
  <1>2. /\ clock \in Time /\ checked \in Time \cup {Nothing}
        /\ \A row \in phase : row.at \in Time
    BY DEF TypeOK
  <1>3. sample \subseteq DOMAIN polls
    BY DEF AveragesInv
  <1> QED BY <1>1, <1>2, <1>3, PollsAreTimes

\* What is gone stays gone for a reason: the poll that expired it, and its clock,
\* remain in the history.
LEMMA GoneNext == TypeOK /\ TurnInv /\ AveragesInv /\ GoneInv /\ [Next]_vars => GoneInv'
  <1> SUFFICES ASSUME TypeOK, TurnInv, AveragesInv, GoneInv, [Next]_vars PROVE GoneInv'
    OBVIOUS
  <1> DEFINE r == RetentionDays * DaySecs
             p == PhaseRetentionDays * DaySecs
  <1>1. /\ r \in Nat /\ p \in Nat
        /\ Cutoff(RetentionDays) = clock - r /\ Cutoff(PhaseRetentionDays) = clock - p
    BY TelemetryBounds DEF Cutoff
  <1>2. /\ clock \in Int /\ (\A n \in DOMAIN polls : polls[n] \in Int)
        /\ (\A row \in phase : row.at \in Int) /\ sample \subseteq DOMAIN polls
    BY InstantsAreInts
  <1>3. /\ GoneInv <=> /\ sampled \subseteq DOMAIN polls
                       /\ \A n \in sampled \ sample : \E m \in DOMAIN polls : polls[n] < polls[m] - r
                       /\ \A row \in measured \ phase : \E m \in DOMAIN polls : row.at < polls[m] - p
        /\ GoneInv' <=> /\ sampled' \subseteq DOMAIN polls'
                        /\ \A n \in sampled' \ sample' :
                             \E m \in DOMAIN polls' : polls'[n] < polls'[m] - r
                        /\ \A row \in measured' \ phase' :
                             \E m \in DOMAIN polls' : row.at < polls'[m] - p
    BY DEF GoneInv
  <1> HIDE DEF r, p
  <1>4. ASSUME UNCHANGED << polls, sampled >>, sample' = sample,
               measured' \ phase' \subseteq measured \ phase
        PROVE  GoneInv'
    BY <1>3, <1>4
  <1>5. ASSUME NEW ok \in BOOLEAN, Poll(ok) PROVE GoneInv'
    <2> DEFINE now == Len(polls) + 1
    <2>1. /\ DOMAIN polls' = DOMAIN polls \cup {now}
          /\ \A n \in DOMAIN polls : polls'[n] = polls[n]
      BY <1>5, PollAppends
    <2>2. /\ \E new \in SUBSET {now} : sample' = sample \cup new /\ sampled' = sampled \cup new
          /\ UNCHANGED << phase, measured >>
      BY <1>5 DEF Poll, Sampled
    <2> HIDE DEF now
    <2>3. sampled' \ sample' \subseteq sampled \ sample /\ sampled' \subseteq DOMAIN polls'
      BY <1>3, <2>1, <2>2
    <2> QED BY <1>3, <2>1, <2>2, <2>3
  <1>6. ASSUME pc \in {"expire", "expirePhases"}
        PROVE  Len(polls) \in DOMAIN polls /\ polls[Len(polls)] = clock
    BY <1>6, PollsAreTimes DEF TurnInv
  <1>7. ASSUME NEW ok \in BOOLEAN, ExpireSamples(ok) PROVE GoneInv'
    <2>1. /\ pc = "expire" /\ UNCHANGED << polls, phase, sampled, measured >>
          /\ \A n \in sample \ sample' : ~ (polls[n] >= clock - r)
      BY <1>1, <1>7 DEF ExpireSamples, SamplesKept, history
    <2>2. \A n \in sample \ sample' : polls[n] < polls[Len(polls)] - r
      BY <1>1, <1>2, <1>6, <2>1
    <2> QED BY <1>3, <1>6, <2>1, <2>2
  <1>8. ASSUME NEW ok \in BOOLEAN, ExpirePhases(ok) PROVE GoneInv'
    <2>1. /\ pc = "expirePhases" /\ UNCHANGED << polls, sample, sampled, measured >>
          /\ \A row \in phase \ phase' : ~ (row.at >= clock - p)
      BY <1>1, <1>8 DEF ExpirePhases, PhasesKept, history
    <2>2. \A row \in phase \ phase' : row.at < polls[Len(polls)] - p
      BY <1>1, <1>2, <1>6, <2>1
    <2> QED BY <1>3, <1>6, <2>1, <2>2
  <1>9. ASSUME NEW channels \in SUBSET Channels, InsertPhases(channels) PROVE GoneInv'
    <2>1. /\ phase' = phase \cup [at : {clock}, channel : channels]
          /\ measured' = measured \cup [at : {clock}, channel : channels]
          /\ UNCHANGED << polls, sample, sampled >>
      BY <1>9 DEF InsertPhases
    <2> QED BY <1>4, <2>1
  <1>10. ASSUME NEW ok \in BOOLEAN, NEW answered \in SUBSET Serials, NEW s \in Serials,
                \/ StoreWindow(ok) \/ FetchInverters(answered) \/ InsertInverter(s)
                \/ InverterFails \/ PersistStamp(ok) \/ PersistCounters(ok) \/ Start(ok)
         PROVE  GoneInv'
    BY <1>4, <1>10
    DEF StoreWindow, FetchInverters, InsertInverter, InverterFails, PersistStamp,
        PersistCounters, Start, tables, history
  <1>11. CASE Elapse \/ (\E t \in Time : ClockStep(t)) \/ Crash \/ UNCHANGED vars
    BY <1>4, <1>11 DEF Elapse, ClockStep, Crash, vars, tables, history
  <1> QED
    BY <1>5, <1>7, <1>8, <1>9, <1>10, <1>11, SomethingToRecord
    DEF Next, Environment, Crossing, Retention

LEMMA RetentionNext ==
  TypeOK /\ TurnInv /\ PastInv /\ AveragesInv /\ RetentionInv /\ [Next]_vars => RetentionInv'
  <1> SUFFICES ASSUME TypeOK, TurnInv, PastInv, AveragesInv, RetentionInv, [Next]_vars
               PROVE  RetentionInv'
    OBVIOUS
  <1> DEFINE r == RetentionDays * DaySecs
             p == PhaseRetentionDays * DaySecs
  <1>1. /\ r \in Nat /\ p \in Nat /\ DaySecs \in Nat /\ DaySecs > 0
        /\ Cutoff(RetentionDays) = clock - r /\ Cutoff(PhaseRetentionDays) = clock - p
    BY TelemetryBounds DEF Cutoff
  <1>2. /\ clock \in Int /\ (checked /= Nothing => checked \in Int)
        /\ \A n \in DOMAIN polls : polls[n] \in Int
        /\ \A row \in phase : row.at \in Int
        /\ sample \subseteq DOMAIN polls
    BY InstantsAreInts
  <1> DEFINE Young == /\ checked /= Nothing =>
                           /\ \A n \in sample : polls[n] >= checked - r
                           /\ \A row \in phase : row.at >= checked - p
                           /\ checked <= clock
                           /\ pc = "idle" => \A m \in DOMAIN polls : polls[m] - checked < DaySecs
                      /\ pc = "expirePhases" => \A n \in sample : polls[n] >= clock - r
  <1>3. /\ RetentionInv <=> (faults \cap {"clock", "delete"} = {} => Young)
        /\ RetentionInv' <=> (faults' \cap {"clock", "delete"} = {} => Young')
    BY DEF RetentionInv
  <1>4. faults \subseteq faults'
    BY DEF Next, Environment, Crossing, Retention, Elapse, ClockStep, Crash, Start, Poll,
           StoreWindow, FetchInverters, InsertInverter, InverterFails, InsertPhases,
           PersistStamp, PersistCounters, ExpireSamples, ExpirePhases, vars
  <1> HIDE DEF r, p
  \* The turn of the loop ends: the last check is less than a day ago.
  <1>5. ASSUME "clock" \notin faults, ~ RetentionDue
        PROVE  checked /= Nothing /\ \A m \in DOMAIN polls : polls[m] - checked < DaySecs
    <2>1. checked /= Nothing /\ clock - checked < DaySecs
      BY <1>1, <1>2, <1>5 DEF RetentionDue
    <2>2. \A m \in DOMAIN polls : polls[m] <= clock
      BY <1>5 DEF PastInv
    <2> QED BY <1>1, <1>2, <2>1, <2>2
  <1>6. ASSUME UNCHANGED << clock, polls, sample, phase, checked >>,
               pc' \notin {"idle", "expirePhases"}
        PROVE  RetentionInv'
    BY <1>3, <1>4, <1>6
  <1>7. ASSUME NEW ok \in BOOLEAN, Poll(ok) PROVE RetentionInv'
    <2> DEFINE now == Len(polls) + 1
    <2>1. /\ DOMAIN polls' = DOMAIN polls \cup {now} /\ polls'[now] = clock
          /\ now \notin DOMAIN polls
          /\ \A n \in DOMAIN polls : polls'[n] = polls[n]
      BY <1>7, PollAppends
    <2>2. /\ pc = "idle" /\ pc' /= "expirePhases"
          /\ pc' = "idle" => ~ RetentionDue
          /\ sample' \subseteq sample \cup {now}
          /\ UNCHANGED << clock, phase, checked >>
      BY <1>7 DEF Poll, TurnEnds, Sampled
    <2> HIDE DEF now
    <2>3. ASSUME faults' \cap {"clock", "delete"} = {} PROVE Young'
      <3>1. Young /\ "clock" \notin faults
        BY <1>3, <1>4, <2>3
      <3>2. ASSUME checked /= Nothing, NEW n \in sample' PROVE polls'[n] >= checked - r
        <4>1. CASE n = now
          BY <1>1, <1>2, <2>1, <3>1, <3>2, <4>1
        <4>2. CASE n /= now
          BY <1>2, <2>1, <2>2, <3>1, <3>2, <4>2
        <4> QED BY <4>1, <4>2
      <3>3. ASSUME checked /= Nothing, pc' = "idle", NEW m \in DOMAIN polls'
            PROVE  polls'[m] - checked < DaySecs
        <4>1. CASE m = now
          BY <1>1, <1>2, <2>1, <2>2, <3>3, <4>1 DEF RetentionDue
        <4>2. CASE m /= now
          BY <1>5, <2>1, <2>2, <3>1, <3>3, <4>2
        <4> QED BY <4>1, <4>2
      <3> QED BY <2>2, <3>1, <3>2, <3>3
    <2> QED BY <1>3, <2>3
  <1>8. CASE Elapse
    <2>1. /\ UNCHANGED << polls, sample, phase, checked, pc, faults >> /\ clock' = clock + 1
          /\ pc /= "expirePhases"
      BY <1>8 DEF Elapse, Unread, tables, process
    <2>2. Young => Young'
      BY <1>2, <2>1
    <2> HIDE DEF Young
    <2> QED BY <1>3, <2>1, <2>2
  <1>9. CASE \E t \in Time : ClockStep(t)
    <2>1. UNCHANGED << polls, sample >> /\ "clock" \in faults'
      BY <1>9 DEF ClockStep, tables
    <2> QED BY <1>3, <1>4, <2>1
  <1>10. CASE Crash
    <2>1. UNCHANGED << polls, sample >> /\ checked' = Nothing /\ pc' = "down"
      BY <1>10 DEF Crash, tables
    <2> QED BY <1>3, <1>4, <2>1
  <1>11. ASSUME NEW ok \in BOOLEAN, Start(ok) PROVE RetentionInv'
    <2>1. UNCHANGED << polls, sample, checked >> /\ checked = Nothing /\ pc' = "idle"
      BY <1>11 DEF Start, tables, TurnInv
    <2> QED BY <1>3, <1>4, <2>1
  <1>12. ASSUME NEW ok \in BOOLEAN, NEW answered \in SUBSET Serials,
                StoreWindow(ok) \/ FetchInverters(answered) \/ PersistStamp(ok)
         PROVE  RetentionInv'
    BY <1>6, <1>12 DEF StoreWindow, FetchInverters, PersistStamp, tables
  <1>13. ASSUME NEW s \in Serials, InsertInverter(s) PROVE RetentionInv'
    BY <1>6, <1>13 DEF InsertInverter
  <1>14. CASE InverterFails
    BY <1>6, <1>14 DEF InverterFails, tables
  <1>15. ASSUME NEW channels \in SUBSET Channels, InsertPhases(channels) PROVE RetentionInv'
    <2>1. /\ UNCHANGED << clock, polls, sample, checked, faults >>
          /\ pc' = "stamp" /\ \A row \in phase' : row \in phase \/ row.at = clock
      BY <1>15 DEF InsertPhases
    <2>2. Young => Young'
      BY <1>1, <1>2, <2>1
    <2> HIDE DEF Young
    <2> QED BY <1>3, <2>1, <2>2
  <1>16. ASSUME NEW ok \in BOOLEAN, PersistCounters(ok) PROVE RetentionInv'
    <2>1. /\ UNCHANGED << clock, polls, sample, phase, checked >>
          /\ pc' /= "expirePhases" /\ (pc' = "idle" => ~ RetentionDue)
      BY <1>16 DEF PersistCounters, TurnEnds, tables
    <2>2. Young /\ "clock" \notin faults => Young'
      BY <1>5, <2>1
    <2> HIDE DEF Young
    <2> QED BY <1>3, <1>4, <2>1, <2>2
  <1>17. ASSUME NEW ok \in BOOLEAN, ExpireSamples(ok) PROVE RetentionInv'
    <2>1. /\ UNCHANGED << clock, polls, phase, checked >> /\ pc = "expire" /\ pc' = "expirePhases"
          /\ sample' = IF ok THEN { n \in sample : polls[n] >= Cutoff(RetentionDays) } ELSE sample
          /\ ok \/ "delete" \in faults'
      BY <1>17 DEF ExpireSamples, SamplesKept
    <2>2. Young /\ ok => Young'
      BY <1>1, <2>1
    <2> HIDE DEF Young
    <2> QED BY <1>3, <1>4, <2>1, <2>2
  <1>18. ASSUME NEW ok \in BOOLEAN, ExpirePhases(ok) PROVE RetentionInv'
    <2>1. /\ UNCHANGED << clock, polls, sample >> /\ pc = "expirePhases" /\ pc' = "idle"
          /\ checked' = clock
          /\ phase' = IF ok THEN { row \in phase : row.at >= Cutoff(PhaseRetentionDays) } ELSE phase
          /\ ok \/ "delete" \in faults'
      BY <1>18 DEF ExpirePhases, PhasesKept
    <2>2. ASSUME Young, ok, "clock" \notin faults PROVE Young'
      <3>1. \A m \in DOMAIN polls : polls[m] <= clock
        BY <2>2 DEF PastInv
      <3>2. \A m \in DOMAIN polls : polls[m] - clock < DaySecs
        BY <1>1, <1>2, <3>1
      <3> QED BY <1>1, <1>2, <2>1, <2>2, <3>2
    <2> HIDE DEF Young
    <2> QED BY <1>3, <1>4, <2>1, <2>2
  <1>19. CASE UNCHANGED vars
    BY <1>19 DEF vars, tables, process, RetentionInv
  <1> QED
    BY <1>7, <1>8, <1>9, <1>10, <1>11, <1>12, <1>13, <1>14, <1>15, <1>16, <1>17, <1>18,
       <1>19 DEF Next, Environment, Crossing, Retention

LEMMA TelemetryInvariant == Spec => []TelemetryInv
  <1>1. TelemetryInv /\ [Next]_vars => TelemetryInv'
    BY TypeNext, TurnNext, PastNext, AheadNext, AveragesNext, RowsNext, BatchNext, GoneNext,
       RetentionNext DEF TelemetryInv
  <1> QED BY <1>1, TelemetryInit, PTL DEF Spec

-----------------------------------------------------------------------------
(* The properties. *)

\* The tables and the process hold what the code's columns and fields can.
THEOREM TelemetryTypes == Spec => []TypeOK
  <1>1. TelemetryInv => TypeOK
    BY DEF TelemetryInv
  <1> QED BY <1>1, TelemetryInvariant, PTL

\* A poll enters the averages of at most one window, and, the clock not being
\* set back, of the window whose energy was measured around it.
THEOREM AveragesAreTheirWindows == Spec => []AveragesTellTheirWindow
  <1>1. TelemetryInv => AveragesTellTheirWindow
    BY DEF TelemetryInv, AveragesInv
  <1> QED BY <1>1, TelemetryInvariant, PTL

\* The accumulator never outlives the window of its anchor: the first poll of a
\* later window clears it, and only a clock set back lets in earlier ones.
THEOREM AccumulatorIsBounded == Spec => []AccumulatorStaysInWindow
  <1>1. TelemetryInv => AccumulatorStaysInWindow
    BY DEF TelemetryInv, TurnInv, PastInv, AheadInv, AccumulatorStaysInWindow, ClosedWindow
  <1> QED BY <1>1, TelemetryInvariant, PTL

\* An inverter has one row per window although no constraint says so.
THEOREM InvertersOncePerWindow == Spec => []OneRowPerInverter
  <1>1. TelemetryInv => OneRowPerInverter
    BY DEF TelemetryInv, RowsInv, OneRowPerInverter
  <1> QED BY <1>1, TelemetryInvariant, PTL

\* A response holds every inverter of the window it is about: it takes one row
\* of every serial, so that none is dropped with the duplicates.
LEMMA ResponsesNameAll ==
  ASSUME NEW w, NEW response \in Responses(w)
  PROVE  { r.serial : r \in response } = SerialsOf(w)
  <1>1. /\ response \subseteq { r \in inverter : r.window = w }
        /\ \A r \in { q \in inverter : q.window = w } :
             Cardinality({ q \in response : q.serial = r.serial }) = 1
    BY DEF Responses
  <1>2. \A r \in { q \in inverter : q.window = w } : \E q \in response : q.serial = r.serial
    <2> SUFFICES ASSUME NEW r \in { q \in inverter : q.window = w },
                        { q \in response : q.serial = r.serial } = {}
                 PROVE  FALSE
      OBVIOUS
    <2> QED BY <1>1, FS_EmptySet
  <1> QED BY <1>1, <1>2 DEF SerialsOf

\* The arrays show the inverters the gateway reported for their window, whole
\* unless the batch is in progress or stopped half way, and of one crossing
\* unless the window was crossed twice.
THEOREM ArraysAreWhole == Spec => []ArraysWhole
  <1>1. TelemetryInv => ArraysWhole
    <2> SUFFICES ASSUME TelemetryInv, NEW w \in Readable, NEW response \in Responses(w)
                 PROVE  LET shown == { r.serial : r \in response }
                        IN  /\ shown \subseteq reported[w]
                            /\ \/ shown = reported[w]
                               \/ pc = "inverters" /\ w = ClosedWindow
                               \/ w \in cut
                            /\ faults \cap {"close", "anchor"} = {} =>
                                 \A r, q \in response : r.poll = q.poll
      BY DEF ArraysWhole
    <2>1. { r.serial : r \in response } = SerialsOf(w)
      BY ResponsesNameAll
    <2>2. SerialsOf(w) \subseteq reported[w]
      BY DEF TelemetryInv, BatchInv, SerialsOf
    <2>3. w \in Windows
      BY DEF TelemetryInv, TypeOK, InverterRow, Readable
    <2>4. \/ SerialsOf(w) = reported[w]
          \/ pc = "inverters" /\ w = ClosedWindow
          \/ w \in cut
      BY <2>2, <2>3 DEF TelemetryInv, BatchInv, TypeOK
    <2>5. \A r \in response : r \in inverter /\ r.window = w
      BY DEF Responses
    <2>6. faults \cap {"close", "anchor"} = {} => \A r, q \in response : r.poll = q.poll
      BY <2>5 DEF TelemetryInv, RowsInv
    <2> QED BY <2>1, <2>2, <2>4, <2>6
  <1> QED BY <1>1, TelemetryInvariant, PTL

\* Retention keeps the samples and phase rows that are younger than their periods
\* by the latest clock polled, whatever fails and however the clock is set, and
\* leaves none older by a day behind unless the clock is set back or a delete fails.
THEOREM RetentionIsExact == Spec => []RetentionKeepsItsPeriods
  <1>1. TelemetryInv => RetentionKeepsItsPeriods
    <2> SUFFICES ASSUME TelemetryInv PROVE RetentionKeepsItsPeriods
      OBVIOUS
    <2> DEFINE r == RetentionDays * DaySecs
               p == PhaseRetentionDays * DaySecs
    <2>1. /\ r \in Nat /\ p \in Nat /\ DaySecs \in Nat
          /\ (RetentionDays + 1) * DaySecs = r + DaySecs
          /\ (PhaseRetentionDays + 1) * DaySecs = p + DaySecs
      BY TelemetryBounds
    <2>2. /\ (checked /= Nothing => checked \in Int)
          /\ \A n \in DOMAIN polls : polls[n] \in Int
          /\ \A row \in phase : row.at \in Int
          /\ sample \subseteq DOMAIN polls
      BY InstantsAreInts DEF TelemetryInv
    <2>3. /\ \A n \in sampled \ sample : \E m \in DOMAIN polls : polls[n] < polls[m] - r
          /\ \A row \in measured \ phase : \E m \in DOMAIN polls : row.at < polls[m] - p
      BY DEF TelemetryInv, GoneInv
    <2>4. ASSUME pc = "idle", checked /= Nothing, faults \cap {"clock", "delete"} = {}
          PROVE  /\ \A n \in sample : polls[n] >= checked - r
                 /\ \A row \in phase : row.at >= checked - p
                 /\ \A m \in DOMAIN polls : polls[m] - checked < DaySecs
      BY <2>4 DEF TelemetryInv, RetentionInv
    <2> HIDE DEF r, p
    <2>5. ASSUME pc = "idle", checked /= Nothing, faults \cap {"clock", "delete"} = {},
                 NEW m \in DOMAIN polls
          PROVE  /\ \A n \in sample : polls[m] - polls[n] < r + DaySecs
                 /\ \A row \in phase : polls[m] - row.at < p + DaySecs
      <3>1. checked \in Int /\ polls[m] \in Int /\ polls[m] - checked < DaySecs
        BY <2>2, <2>4, <2>5
      <3>2. \A n \in sample : polls[n] \in Int /\ polls[n] >= checked - r
        BY <2>2, <2>4, <2>5
      <3>3. \A row \in phase : row.at \in Int /\ row.at >= checked - p
        BY <2>2, <2>4, <2>5
      <3> QED BY <2>1, <3>1, <3>2, <3>3
    <2>6. RetentionDays * DaySecs = r /\ PhaseRetentionDays * DaySecs = p
      BY DEF r, p
    <2> QED BY <2>1, <2>3, <2>5, <2>6 DEF RetentionKeepsItsPeriods
  <1> QED BY <1>1, TelemetryInvariant, PTL

=============================================================================
