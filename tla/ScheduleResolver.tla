-------------------------- MODULE ScheduleResolver --------------------------
(***************************************************************************)
(* The schedule resolver of src/src/trueup/calculator.rs: from the JSON of *)
(* a rate to the bracket and the prices of an hour, and the sums of an     *)
(* estimate.                                                               *)
(*                                                                         *)
(* A tariff has two tables, weekday and weekend, that name a period for    *)
(* each hour of each month, and the periods with their rates, counted from *)
(* zero.  Rates are whole numbers; a rate or a sell rate may be missing.   *)
(* An hour is a slot: its month, its hour and whether it is of a weekend;  *)
(* TouCalendar has the step from an instant to its local hour.             *)
(***************************************************************************)
EXTENDS Integers, Sequences, FiniteSets, FiniteSetsExt

CONSTANTS
  Months,       \* 12, scaled down
  HoursPerDay,  \* 24, scaled down
  IndexRange,   \* the values of a usize, 2^64, scaled down
  Missing       \* a rate that is not in the JSON

ASSUME TableAssumption == {Months, HoursPerDay, IndexRange} \subseteq Nat \ {0}
ASSUME MissingAssumption == Missing \notin Int

Slots == [month : 1 .. Months, hour : 1 .. HoursPerDay, weekend : BOOLEAN]

\* Expensive first: the order of the brackets.
Brackets == <<"peak", "off_peak", "super_off_peak">>

-----------------------------------------------------------------------------
\* A period of the JSON is an i64 that is cast to an index.
Index(n) == n % IndexRange

WellFormedTable(table) ==
  /\ Len(table) = Months
  /\ \A m \in 1 .. Months : Len(table[m]) = HoursPerDay

PeriodIn(table, slot) == Index(table[slot.month][slot.hour])

PeriodAt(tariff, slot) ==
  PeriodIn(IF slot.weekend THEN tariff.weekend ELSE tariff.weekday, slot)

\* Slip: weekends are left out.
ActiveWeekdays(tariff, m) ==
  { PeriodAt(tariff, s) : s \in { x \in Slots : x.month = m /\ ~x.weekend } }

\* The periods of a month, weekdays and weekends together.
Active(tariff, m) == { PeriodAt(tariff, s) : s \in { x \in Slots : x.month = m } }

Indices(tariff) == 0 .. Len(tariff.periods) - 1
Rate(tariff, i) == tariff.periods[i + 1].rate

\* A missing sell rate is the rate.
Sell(tariff, i) ==
  LET period == tariff.periods[i + 1]
  IN  IF period.sell = Missing THEN period.rate ELSE period.sell

\* ScheduleResolver::new without an error.
Resolves(tariff) ==
  /\ WellFormedTable(tariff.weekday) /\ WellFormedTable(tariff.weekend)
  /\ \A i \in Indices(tariff) : Rate(tariff, i) /= Missing
  /\ \A m \in 1 .. Months : Active(tariff, m) \subseteq Indices(tariff)

\* Slip: cheap before dear.
CheapestFirst(tariff, m, i) ==
  Cardinality({ j \in Active(tariff, m) : Rate(tariff, j) < Rate(tariff, i) })

\* The place of a period in its month: dear before cheap, and of equal ones
\* the lower index first.
Rank(tariff, m, i) ==
  Cardinality({ j \in Active(tariff, m) :
                  \/ Rate(tariff, j) > Rate(tariff, i)
                  \/ Rate(tariff, j) = Rate(tariff, i) /\ j < i })

\* The first is the peak and, of three or more, the last is super off-peak.
BracketOf(tariff, m, i) ==
  LET n == Cardinality(Active(tariff, m))
  IN  IF Rank(tariff, m, i) = 0 THEN "peak"
      ELSE IF n >= 3 /\ Rank(tariff, m, i) = n - 1 THEN "super_off_peak"
      ELSE "off_peak"

BracketAt(tariff, slot) == BracketOf(tariff, slot.month, PeriodAt(tariff, slot))

-----------------------------------------------------------------------------
(* calculate.  A window has the slot it begins in and what was imported and *)
(* exported in it.                                                          *)

\* Slip: one price for a bracket, that of its dearest period.
SummaryAtOneRate(tariff, windows, bracket) ==
  LET own == { w \in windows : BracketAt(tariff, w.slot) = bracket }
      period(w) == PeriodAt(tariff, w.slot)
      dearest == Max({ Rate(tariff, period(w)) : w \in own })
  IN  [ cost   |-> SumFunction([ w \in own |-> w.import * dearest ]),
        credit |-> SumFunction([ w \in own |-> w.export * Sell(tariff, period(w)) ]) ]

\* PeriodSummary: each window at the rates of its own period.
Summary(tariff, windows, bracket) ==
  LET own == { w \in windows : BracketAt(tariff, w.slot) = bracket }
      period(w) == PeriodAt(tariff, w.slot)
  IN  [ cost   |-> SumFunction([ w \in own |-> w.import * Rate(tariff, period(w)) ]),
        credit |-> SumFunction([ w \in own |-> w.export * Sell(tariff, period(w)) ]) ]

NetCost(tariff, windows) ==
  LET net(bracket) == LET sum == Summary(tariff, windows, bracket)
                      IN  sum.cost - sum.credit
  IN  SumFunction([ b \in DOMAIN Brackets |-> net(Brackets[b]) ])
=============================================================================
