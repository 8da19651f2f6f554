----------------------------- MODULE TouHistory -----------------------------
(***************************************************************************)
(* The historical tariff lookup of src/src/tou/history.rs: which upstream  *)
(* revision is in force at an instant, what the intervals endpoint answers *)
(* and what a true-up estimate is calculated from.                         *)
(*                                                                         *)
(* A row of tou_rate_schedule has its id, the upstream revision it is a    *)
(* copy of (source), when it was fetched, its bounds and its plan, the     *)
(* bracket of each hour of the day; months, weekends and rates, which the  *)
(* plan stands for, are left to the schedule resolver.  Only rows of the   *)
(* configured utility and plan with an upstream identity are rows here:    *)
(* query_history selects no others.                                        *)
(***************************************************************************)
EXTENDS TouCalendar

CONSTANT Open      \* the end of a revision that is still in force

ASSUME OpenAssumption == Open \notin Int

-----------------------------------------------------------------------------
(* History::load. *)

Newer(a, b) == a.fetched > b.fetched \/ (a.fetched = b.fetched /\ a.id > b.id)

\* A later fetch of one upstream revision supersedes its stored copies.
LatestCopies(rows) ==
  { r \in rows : ~ \E o \in rows : o.source = r.source /\ Newer(o, r) }

Usable(v) == v.end /= Open => v.start < v.end

\* Slip: revisions with invalid bounds are dropped before the copies are.
LoadReviving(rows) == LatestCopies({ r \in rows : Usable(r) })

Load(rows) == { r \in LatestCopies(rows) : Usable(r) }

\* The order the versions are sorted in.
Before(a, b) ==
  \/ a.start < b.start
  \/ a.start = b.start /\ (a.fetched < b.fetched \/ (a.fetched = b.fetched /\ a.id < b.id))

-----------------------------------------------------------------------------
(* version_at: the last version, in that order, that has started. *)

Started(V, t) == { v \in V : v.start <= t }
Selected(V, t, v) == v \in Started(V, t) /\ \A u \in Started(V, t) : ~ Before(v, u)
Ended(v, t) == v.end /= Open /\ v.end <= t

\* version_at's two errors.
NoVersionAt(V, t) ==
  \/ Started(V, t) = {}
  \/ \E v \in V : Selected(V, t, v) /\ Ended(v, t)

VersionAt(V, t) == CHOOSE v \in V : Selected(V, t, v)

\* Slip: the metadata's end ignores the revision that replaces this one.
OwnEnd(V, v) == v.end

\* meta: until the version's own end or the next version, whichever is first.
EffectiveEnd(V, v) ==
  LET after == { u \in V : Before(v, u) }
      next == CHOOSE u \in after : \A w \in after : ~ Before(w, u)
  IN  IF after = {} THEN v.end
      ELSE IF v.end = Open THEN next.start
      ELSE Earlier(v.end, next.start)

Meta(V, v) == [ id |-> v.id, from |-> v.start, until |-> EffectiveEnd(V, v) ]

\* Slip: only where revisions start, not where they end.
StartBoundaries(V, start, end) ==
  {start, end} \cup { v.start : v \in { u \in V : start < u.start /\ u.start < end } }

RevisionBoundaries(V, start, end) ==
  {start, end} \cup
  { t \in { v.start : v \in V } \cup ({ v.end : v \in V } \ {Open}) : start < t /\ t < end }

EnsureCoverage(V, start, end) ==
  \A t \in RevisionBoundaries(V, start, end) : t < end => ~ NoVersionAt(V, t)

-----------------------------------------------------------------------------
(* GET /api/tou/intervals and GET /api/trueup/estimate over loaded versions. *)

Bracket(v, zone, t) == v.plan[HourOfDay(zone, t)]

Boundaries(V, start, end, zone) ==
  RevisionBoundaries(V, start, end) \cup CalendarBoundaries(zone, start, end)

\* The intervals endpoint fails on the first boundary without a version.
IntervalsUnavailable(V, start, end, zone) ==
  \E t \in Boundaries(V, start, end, zone) \ {end} : NoVersionAt(V, t)

\* Between two boundaries the bracket and the schedule are those of the first;
\* neighbours with the same of both are merged.
Intervals(V, start, end, zone) ==
  LET cuts == Boundaries(V, start, end, zone) \ {end}
      Label(t) == << Bracket(VersionAt(V, t), zone, t), VersionAt(V, t).id >>
      Follows(a, b) == a < b /\ \A t \in cuts : ~(a < t /\ t < b)
      heads == { b \in cuts : \A a \in cuts : Follows(a, b) => Label(a) /= Label(b) }
      Until(h) == CHOOSE t \in heads \cup {end} :
                    h < t /\ \A g \in heads : h < g => t <= g
  IN  { [ start |-> h, end |-> Until(h), bracket |-> Label(h)[1], id |-> Label(h)[2] ] :
          h \in heads }

\* The estimate fails on its coverage, or half way on a window.
EstimateUnavailable(V, start, end, windows) ==
  ~ EnsureCoverage(V, start, end) \/ \E w \in windows : NoVersionAt(V, w)

\* Which schedule and bracket each stored window is costed with; the sums over
\* the windows of a schedule and bracket are left out.
Calculate(V, zone, windows) ==
  { [ window |-> w, bracket |-> Bracket(VersionAt(V, w), zone, w),
      schedule |-> Meta(V, VersionAt(V, w)) ] : w \in windows }
=============================================================================
