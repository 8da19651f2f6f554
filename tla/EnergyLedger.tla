---------------------------- MODULE EnergyLedger ----------------------------
(***************************************************************************)
(* What the collector promises to the readers of energy_window: a ledger   *)
(* that grows at its end, whose rows are disjoint stretches of the meters' *)
(* counters and where recomputation lets a row grow back to the end of the *)
(* row before it at most.  The promise lasts until the chain of anchors    *)
(* is broken; after that rows are still only added or recomputed.          *)
(***************************************************************************)
EXTENDS WindowAggregator

CONSTANTS Windows, Readings, Versions, None

VARIABLES
  rows,    \* what a reader sees
  intact   \* the chain of anchors is unbroken

ledger == << rows, intact >>

Present == { w \in Windows : rows[w] /= None }
LedgerRow == [lo : Readings, hi : Readings, version : Versions \cup {0}]

\* Both actions take the row from the next state: any row of the right type may
\* appear, as long as it meets the conditions.

\* Everything present before w ends at or below a.
EndsBelow(w, a) == \A v \in Present : v < w => Leq(rows[v].hi, a)

Init ==
  /\ rows = [ w \in Windows |-> None ]
  /\ intact \in BOOLEAN

\* A window is added after all others, where the last of them ended or later.
Append(w, row) ==
  /\ w \notin Present /\ row \in LedgerRow
  /\ intact => /\ \A v \in Present : v < w
               /\ EndsBelow(w, row.lo)
               /\ Leq(row.lo, row.hi)
  /\ rows' = [rows EXCEPT ![w] = row]
  /\ UNCHANGED intact

\* A window of an older, not permanent, version is computed anew.
Recompute(w, row) ==
  /\ w \in Present /\ row \in LedgerRow
  /\ 0 < rows[w].version /\ rows[w].version < row.version
  /\ intact => /\ row.hi = rows[w].hi
               /\ Leq(row.lo, rows[w].lo)
               /\ EndsBelow(w, row.lo)
  /\ rows' = [rows EXCEPT ![w] = row]
  /\ UNCHANGED intact

Break ==
  /\ intact' = FALSE
  /\ UNCHANGED rows

Next ==
  \/ \E w \in Windows : Append(w, rows'[w]) \/ Recompute(w, rows'[w])
  \/ Break

Spec == Init /\ [][Next]_ledger
=============================================================================
