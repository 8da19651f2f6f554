---------------------------- MODULE MCTouRefresh ----------------------------
(***************************************************************************)
(* TouRefresh for TLC: hours of two units, days of two hours, so that half *)
(* an hour and a date are within a few units; a zone whose clocks go back  *)
(* by an hour, and one that goes forward by half an hour (Lord Howe)       *)
(* at a whole hour.                                                        *)
(***************************************************************************)
EXTENDS TouRefresh

CONSTANT FollowedFaults  \* bound: the faults a behaviour is followed past

FewFaults == faults \subseteq FollowedFaults

ByHour == [ h \in 0 .. HoursPerDay - 1 |-> h ]

Revision(start, end) == [start |-> start, end |-> end, plan |-> ByHour]

\* An open end, ends before and after the next start, and one before its own.
MCRevisions == { Revision(1, Open), Revision(1, 2), Revision(3, 5), Revision(3, 2) }

\* One open, one invalid.
MCFewRevisions == { Revision(1, Open), Revision(1, 0) }

MCZones == { [ cuts |-> {4}, shift |-> [ i \in 0 .. 1 |-> IF i = 0 THEN 2 ELSE 0 ] ],
             [ cuts |-> {4}, shift |-> [ i \in 0 .. 1 |-> IF i = 0 THEN 0 ELSE 1 ] ] }
MCUtc == { [ cuts |-> {}, shift |-> [ i \in 0 .. 0 |-> 0 ] ] }
MCInstants == {0, 1, 3, 4, 6}
MCNoInstants == {}
=============================================================================
