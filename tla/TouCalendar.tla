---------------------------- MODULE TouCalendar ----------------------------
(***************************************************************************)
(* The calendar half of src/src/tou/history.rs: the instants between start *)
(* and end at which a schedule, which is a table by local date and hour,   *)
(* may change its bracket.  chrono's time zone database is external: a     *)
(* zone is the instants at which its offset changes and the offsets in     *)
(* force before, between and after them.                                   *)
(***************************************************************************)
EXTENDS Integers, FiniteSets

CONSTANTS
  Hour,         \* the seconds of an hour (3600 in the code), scaled down
  HoursPerDay   \* 24, scaled down

ASSUME CalendarAssumption == Hour \in Nat \ {0} /\ HoursPerDay \in Nat \ {0}

\* What zones are: their offsets change an hour apart at least, and differ by
\* at most a day.
RealZone(zone) ==
  LET parts == 0 .. Cardinality(zone.cuts) IN
  /\ zone.cuts \subseteq Int /\ IsFiniteSet(zone.cuts)
  /\ \A c, d \in zone.cuts : c < d => c + Hour <= d
  /\ \A i \in parts : zone.shift[i] \in Int
  /\ \A i, j \in parts : zone.shift[i] <= zone.shift[j] + Hour * HoursPerDay

Offset(zone, t) == zone.shift[Cardinality({ c \in zone.cuts : c <= t })]
LocalTime(zone, t) == t + Offset(zone, t)

\* Hours counted through, so that one number stands for a date and an hour.
LocalHour(zone, t) == LocalTime(zone, t) \div Hour
LocalDate(zone, t) == LocalHour(zone, t) \div HoursPerDay
HourOfDay(zone, t) == LocalHour(zone, t) % HoursPerDay

Earlier(a, b) == IF a <= b THEN a ELSE b

-----------------------------------------------------------------------------
\* The whole local hours of the dates from the day before start's to the day
\* after end's: none for an hour the clocks skip, two for one they repeat.
WholeHours(zone, start, end) ==
  { t \in start + 1 .. end - 1 :
      /\ LocalTime(zone, t) % Hour = 0
      /\ LocalDate(zone, start) - 1 <= LocalDate(zone, t)
      /\ LocalDate(zone, t) <= LocalDate(zone, end) + 1 }

\* Slip: the search stops with two candidates left.
OffsetChangeEarly(zone, left, right) ==
  LET narrow[b \in Int \X Int] ==
        LET lo == b[1]
            hi == b[2]
            mid == lo + (hi - lo) \div 2
        IN  IF hi - lo <= 2 THEN hi
            ELSE IF Offset(zone, mid) = Offset(zone, left) THEN narrow[<< mid, hi >>]
            ELSE narrow[<< lo, mid >>]
  IN  narrow[<< left, right >>]

\* The binary search for the first instant with another offset than left's.
OffsetChange(zone, left, right) ==
  LET narrow[b \in Int \X Int] ==
        LET lo == b[1]
            hi == b[2]
            mid == lo + (hi - lo) \div 2
        IN  IF hi - lo <= 1 THEN hi
            ELSE IF Offset(zone, mid) = Offset(zone, left) THEN narrow[<< mid, hi >>]
            ELSE narrow[<< lo, mid >>]
  IN  narrow[<< left, right >>]

\* start, start + 1h, start + 2h ... below end, whatever the local hour.
ScanFrom(start, end) == { t \in start .. end - 1 : (t - start) % Hour = 0 }

OffsetChanges(zone, start, end) ==
  { OffsetChange(zone, left, Earlier(left + Hour, end)) :
      left \in { t \in ScanFrom(start, end) :
                   Offset(zone, t) /= Offset(zone, Earlier(t + Hour, end)) } } \ {end}

CalendarBoundaries(zone, start, end) ==
  WholeHours(zone, start, end) \cup OffsetChanges(zone, start, end)
=============================================================================
