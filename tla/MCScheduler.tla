----------------------------- MODULE MCScheduler -----------------------------
(***************************************************************************)
(* Scheduler for TLC: the values of its constants, and the statement of    *)
(* the documentation that the code does not keep.                          *)
(***************************************************************************)
EXTENDS SchedulerInvariant, FiniteSets

Counted(x) == [ c \in Counter |-> x ]

\* Energy flows or does not; the three counters move together, as no ledger
\* property relates one to another.
MCIncrements == { Counted(0), Counted(1) }

\* Complete responses, and the import counter left out now and then.
MCComplete == { {} }
MCImportAbsent == { {}, {"imp"} }

\* A new database, and one with a snapshot of the first window and no row.
MCNew == { None }
MCNewOrOrphan == { None, 0 }

CONSTANTS
  FollowedFaults,  \* bound: the kinds of fault a behaviour is followed past
  MaxFaults        \* bound: how many kinds together

FewFaults == faults \subseteq FollowedFaults /\ Cardinality(faults) <= MaxFaults

\* DATA_CONTRACT.md: each wh_ column is the delta of the meter's counter over
\* its window, so rows of different windows add up to what passed the meter.
RowsAddUp == \A c \in Counter : Accounted(c) <= flow[c]
=============================================================================
