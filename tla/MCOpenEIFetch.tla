--------------------------- MODULE MCOpenEIFetch ---------------------------
(***************************************************************************)
(* OpenEIFetch for TLC: the tariffs, the items and the lists to begin      *)
(* with.                                                                   *)
(***************************************************************************)
EXTENDS OpenEIFetch

\* Tables of two months with two hours.  The weekends bring one period more,
\* an index below zero, or a month that is too short.
Weekdays == { << <<a, b>>, <<c, 0>> >> : a \in 0 .. 2, b \in 1 .. 2, c \in 0 .. 1 }
Weekends == { << <<0, 0>>, <<3, 1>> >>, << <<2, 1>>, <<-1, 0>> >>, << <<0, 3>>, <<1>> >>,
              << <<3, 2>>, <<1, 2>> >> }

Period(r, s) == [rate |-> r, sell |-> s]

\* All rates different, some equal, one missing, and a structure with three
\* periods.
Structures == { << Period(3, Missing), Period(1, 1), Period(2, 1), Period(4, 2) >>,
                << Period(2, 1), Period(1, Missing), Period(2, 2), Period(1, 0) >>,
                << Period(1, 1), Period(Missing, 1), Period(3, 1), Period(2, 1) >>,
                << Period(1, 1), Period(2, 2), Period(3, 3) >> }

Tariffs == [weekday : Weekdays, weekend : Weekends, periods : Structures]

Flat == [ weekday |-> << <<0, 0>>, <<0, 0>> >>, weekend |-> << <<0, 0>>, <<0, 0>> >>,
          periods |-> << Period(1, Missing) >> ]

Item(ours, start, tariff, sound) ==
  [ours |-> ours, start |-> start, tariff |-> tariff, sound |-> sound]

\* Revisions with two starts, one that does not parse, and another plan's that
\* does not either.
MCItems == { Item(TRUE, 0, Flat, TRUE), Item(TRUE, 1, Flat, TRUE),
             Item(TRUE, 0, Flat, FALSE), Item(FALSE, 0, Flat, FALSE) }

\* Any list of those items, and one item with any tariff.
MCUpstreams ==
  [Labels -> MCItems \cup {None}]
    \cup { [ l \in Labels |-> IF l = 2 THEN Item(TRUE, 0, tariff, TRUE) ELSE None ] :
             tariff \in Tariffs }
=============================================================================
