-------------------------- MODULE WindowAggregator --------------------------
(***************************************************************************)
(* The pure arithmetic of src/src/collector/window_aggregator.rs: flooring *)
(* a timestamp to its window and turning two cumulative meter readings     *)
(* into the energy columns of one window.                                  *)
(*                                                                         *)
(* A reading is the code's CumulativeReading: a wall-clock timestamp and   *)
(* the lifetime counters of the two meters.  Counters are whole watt-hours *)
(* here; the code holds them as f64, whose rounding no property is about.  *)
(***************************************************************************)
EXTENDS Integers

CONSTANT WindowSecs      \* WINDOW_SECS (900 in the code), scaled down

ASSUME WindowSecsAssumption == WindowSecs \in Nat \ {0}

Counter == {"prod", "imp", "exp"}
Key == Counter \cup {"ts"}

Counters == [Counter -> Nat]
Reading == [Key -> Nat]

\* Rust's i64 division truncates; unix_now() is never negative, so that is \div.
WindowBoundary(ts) == (ts \div WindowSecs) * WindowSecs

-----------------------------------------------------------------------------
\* Slip: the magnitude of a difference instead of its positive part.
Magnitude(x) == IF x < 0 THEN -x ELSE x

AtLeastZero(x) == IF x < 0 THEN 0 ELSE x

Delta(prev, curr, c) == AtLeastZero(curr[c] - prev[c])

\* produced + imported - exported, the energy balance consumption comes from.
Balance(prev, curr) ==
  Delta(prev, curr, "prod") + Delta(prev, curr, "imp") - Delta(prev, curr, "exp")

ComputeDelta(prev, curr) ==
  [ wh_produced    |-> Delta(prev, curr, "prod"),
    wh_grid_import |-> Delta(prev, curr, "imp"),
    wh_grid_export |-> Delta(prev, curr, "exp"),
    wh_consumed    |-> AtLeastZero(Balance(prev, curr)),
    was_clamped    |-> Balance(prev, curr) < 0 ]

\* Reading a was taken no later than b on the same, never replaced, meters.
Leq(a, b) == \A c \in Counter : a[c] <= b[c]
=============================================================================
