----------------------------- MODULE TouRefresh -----------------------------
(***************************************************************************)
(* Who writes tou_rate_schedule: the background loop of                    *)
(* src/src/tou/refresh.rs and any number of POST /api/tou/refresh          *)
(* handlers, each fetching the whole upstream history, stamping it with    *)
(* the time after the fetch and storing it in one transaction.  Nothing    *)
(* keeps them apart, and readers load the table whenever they like.        *)
(*                                                                         *)
(* A fetch reads its pages as one step: a change of the upstream between   *)
(* two pages of 500 is left out.  OpenEI itself is external.  The loop     *)
(* calls with no timeout (Client::new()): a tick of the clock during its   *)
(* refresh is recorded as the fault "hang".                                *)
(***************************************************************************)
EXTENDS TouHistory

CONSTANTS
  Sources,        \* the upstream's revision labels, numbers in label order
  Revisions,      \* what a revision may say: its bounds and plan
  Posts,          \* refresh requests that may be under way at once
  RefreshSecs,    \* REFRESH_TRIGGER_SECS and the loop's sleep: seven days
  MaxClock,       \* bound on the wall clock
  MaxEditions,    \* bound on how often the upstream changes
  MaxRows,        \* bound on the rows stored
  Distrust,       \* whether the wall clock may be set back
  Instants,       \* the bounds queries ask for
  Zones,          \* the time zones configured
  Nothing         \* no revision of that label, nothing fetched

ASSUME RevisionsAssumption ==
  \A rev \in Revisions : rev.start \in Int /\ rev.end \in Int \cup {Open}
ASSUME InstantsAssumption == Instants \subseteq Int
ASSUME ZonesAssumption == \A zone \in Zones : RealZone(zone)
ASSUME RefreshAssumption ==
  /\ Sources \subseteq Nat /\ IsFiniteSet(Sources) /\ RefreshSecs \in Nat \ {0}
  /\ MaxClock \in Nat /\ MaxEditions \in Nat /\ MaxRows \in Nat /\ Distrust \in BOOLEAN
  /\ "loop" \notin Posts

\* What a fetch brings back, with the edition it is of.
Answer == [Sources -> Revisions \cup {Nothing}]
Fetched == [revisions : Answer, edition : Int]

ASSUME NothingAssumption == Nothing \notin Revisions \cup Fetched

Loop == "loop"
Refresher == {Loop} \cup Posts

VARIABLES
  clock,      \* the wall clock
  upstream,   \* OpenEI's revisions of the configured plan
  edition,    \* history: how often they have changed
  archive,    \* the rows of tou_rate_schedule
  pc,         \* where each refresher is
  wake,       \* when the loop's sleep ends
  got,        \* the revisions a refresher has fetched, and their edition
  stamp,      \* the fetched_at a refresher is about to store
  faults      \* history: what went wrong so far

vars == << clock, upstream, edition, archive, pc, wake, got, stamp, faults >>

Under == {"fetch", "stamp", "insert"}
Places == {"down", "boot", "sleep", "idle", "fetch", "stamp", "insert"}
UnderWay(r) == pc[r] \in Under
Asleep == pc[Loop] = "sleep"

Init ==
  /\ clock = 0
  /\ upstream = [ s \in Sources |-> Nothing ]
  /\ edition = 0
  /\ archive = {}
  /\ pc = [ r \in Refresher |-> "down" ]
  /\ wake = 0
  /\ got = [ r \in Refresher |-> Nothing ]
  /\ stamp = [ r \in Refresher |-> 0 ]
  /\ faults = {}

-----------------------------------------------------------------------------
(* The environment. *)

\* OpenEI publishes a revision, or changes one it has published before.
Publish(s, rev) ==
  /\ edition < MaxEditions
  /\ upstream[s] /= rev
  /\ upstream' = [upstream EXCEPT ![s] = rev]
  /\ edition' = edition + 1
  /\ UNCHANGED << clock, archive, pc, wake, got, stamp, faults >>

\* The loop is up and has something to do before the clock moves on.
LoopDue == pc[Loop] = "boot" \/ UnderWay(Loop) \/ (Asleep /\ wake <= clock)

Tick ==
  /\ clock < MaxClock
  /\ clock' = clock + 1
  /\ faults' = IF LoopDue THEN faults \cup {"hang"} ELSE faults
  /\ UNCHANGED << upstream, edition, archive, pc, wake, got, stamp >>

ClockStep(t) ==
  /\ Distrust /\ t < clock
  /\ clock' = t
  /\ faults' = faults \cup {"clock"}
  /\ UNCHANGED << upstream, edition, archive, pc, wake, got, stamp >>

Crash ==
  /\ pc[Loop] /= "down"
  /\ pc' = [ r \in Refresher |-> "down" ]
  /\ wake' = 0
  /\ got' = [ r \in Refresher |-> Nothing ]
  /\ stamp' = [ r \in Refresher |-> 0 ]
  /\ UNCHANGED << clock, upstream, edition, archive, faults >>

-----------------------------------------------------------------------------
(* The refreshers. *)

Start ==
  /\ pc[Loop] = "down"
  /\ pc' = [ r \in Refresher |-> IF r = Loop THEN "boot" ELSE "idle" ]
  /\ UNCHANGED << clock, upstream, edition, archive, wake, got, stamp, faults >>

\* Two refreshes under way at once are recorded: nothing prevents them.
Overlap(r) == \E o \in Refresher \ {r} : UnderWay(o)

BeginFetch(r) ==
  /\ pc' = [pc EXCEPT ![r] = "fetch"]
  /\ faults' = IF Overlap(r) THEN faults \cup {"overlap"} ELSE faults

\* query_latest: the row fetched last.
LatestFetch(t) == \E r \in archive : r.fetched = t /\ \A o \in archive : o.fetched <= t

\* Slip: a schedule counts as stale a week later than it should.
NeedsRefreshLate == ~ \E t \in 0 .. MaxClock : LatestFetch(t) /\ clock - t <= 2 * RefreshSecs

NeedsRefresh == ~ \E t \in 0 .. MaxClock : LatestFetch(t) /\ clock - t <= RefreshSecs

Sleep == wake' = clock + RefreshSecs

\* A failing storage check attempts the refresh.
BootRefresh(ok) ==
  /\ pc[Loop] = "boot"
  /\ ~ok \/ NeedsRefresh
  /\ BeginFetch(Loop)
  /\ UNCHANGED << clock, upstream, edition, archive, wake, got, stamp >>

BootSkip ==
  /\ pc[Loop] = "boot"
  /\ ~NeedsRefresh
  /\ pc' = [pc EXCEPT ![Loop] = "sleep"]
  /\ Sleep
  /\ UNCHANGED << clock, upstream, edition, archive, got, stamp, faults >>

Wake ==
  /\ Asleep /\ wake <= clock
  /\ BeginFetch(Loop)
  /\ UNCHANGED << clock, upstream, edition, archive, wake, got, stamp >>

Request(p) ==
  /\ pc[p] = "idle"
  /\ BeginFetch(p)
  /\ UNCHANGED << clock, upstream, edition, archive, wake, got, stamp >>

Published == { s \in Sources : upstream[s] /= Nothing }

\* The response reflects the upstream of this moment.  An empty result for the
\* plan is an error.
Fetch(r) ==
  /\ pc[r] = "fetch"
  /\ Published /= {}
  /\ pc' = [pc EXCEPT ![r] = "stamp"]
  /\ got' = [got EXCEPT ![r] = [revisions |-> upstream, edition |-> edition]]
  /\ UNCHANGED << clock, upstream, edition, archive, wake, stamp, faults >>

\* The refresh is over: the loop sleeps a full period, failed or not.
Return(r) ==
  /\ pc' = [pc EXCEPT ![r] = IF r = Loop THEN "sleep" ELSE "idle"]
  /\ IF r = Loop THEN Sleep ELSE UNCHANGED wake
  /\ got' = [got EXCEPT ![r] = Nothing]
  /\ stamp' = [stamp EXCEPT ![r] = 0]

\* Slip: an error of the upstream passes for an answer.
FetchFailsOn(r) ==
  /\ pc[r] = "fetch"
  /\ pc' = [pc EXCEPT ![r] = "stamp"]
  /\ faults' = faults \cup {"upstream"}
  /\ UNCHANGED << clock, upstream, edition, archive, wake, got, stamp >>

\* Connection, status, JSON, a repeated page, a malformed item or no item.
FetchFails(r) ==
  /\ pc[r] = "fetch"
  /\ Return(r)
  /\ faults' = faults \cup {"upstream"}
  /\ UNCHANGED << clock, upstream, edition, archive >>

Stamp(r) ==
  /\ pc[r] = "stamp"
  /\ pc' = [pc EXCEPT ![r] = "insert"]
  /\ stamp' = [stamp EXCEPT ![r] = clock]
  /\ UNCHANGED << clock, upstream, edition, archive, wake, got, faults >>

\* Rows are numbered in the order fetch_history sorts them in.
FetchedRow(r, s) ==
  LET revisions == got[r].revisions
      fetched == { o \in Sources : revisions[o] /= Nothing }
      ahead == { o \in fetched : \/ revisions[o].start < revisions[s].start
                                 \/ revisions[o].start = revisions[s].start /\ o < s }
  IN  [ id |-> Cardinality(archive) + Cardinality(ahead) + 1,
        source |-> s, fetched |-> stamp[r],
        start |-> revisions[s].start, end |-> revisions[s].end,
        plan |-> revisions[s].plan, edition |-> got[r].edition ]

\* insert_history: every revision fetched, in one transaction.
Insert(r) ==
  LET rows == { FetchedRow(r, s) : s \in { o \in Sources : got[r].revisions[o] /= Nothing } }
  IN  /\ pc[r] = "insert"
      /\ Cardinality(archive) + Cardinality(rows) <= MaxRows
      /\ archive' = archive \cup rows
      /\ Return(r)
      /\ UNCHANGED << clock, upstream, edition, faults >>

InsertFails(r) ==
  /\ pc[r] = "insert"
  /\ Return(r)
  /\ faults' = faults \cup {"insert"}
  /\ UNCHANGED << clock, upstream, edition, archive >>

Refresh(r) == Fetch(r) \/ FetchFails(r) \/ Stamp(r) \/ Insert(r) \/ InsertFails(r)

Next ==
  \/ \E s \in Sources, rev \in Revisions \cup {Nothing} : Publish(s, rev)
  \/ Tick \/ (\E t \in 0 .. MaxClock : ClockStep(t)) \/ Crash
  \/ Start \/ (\E ok \in BOOLEAN : BootRefresh(ok)) \/ BootSkip \/ Wake
  \/ \E p \in Posts : Request(p)
  \/ \E r \in Refresher : Refresh(r)

Spec == Init /\ [][Next]_vars

-----------------------------------------------------------------------------
(* What holds of the archive. *)

\* The variables range over what the table and the refreshers can hold; ids
\* are unique, and only a refresher between its answer and its insert holds
\* revisions.
TypeOK ==
  /\ clock \in 0 .. MaxClock
  /\ upstream \in [Sources -> Revisions \cup {Nothing}]
  /\ edition \in 0 .. MaxEditions
  /\ \A r \in archive : /\ r.id \in 1 .. MaxRows /\ r.source \in Sources
                        /\ r.fetched \in 0 .. MaxClock /\ r.edition \in 1 .. MaxEditions
                        /\ \E rev \in Revisions : /\ r.start = rev.start /\ r.end = rev.end
                                                 /\ r.plan = rev.plan
  /\ \A a, b \in archive : a.id = b.id => a = b
  /\ pc \in [Refresher -> Places]
  /\ wake \in 0 .. MaxClock + RefreshSecs
  /\ \A r \in Refresher : (got[r] /= Nothing) = (pc[r] \in {"stamp", "insert"})
  /\ stamp \in [Refresher -> 0 .. MaxClock]
  /\ faults \subseteq {"hang", "clock", "overlap", "upstream", "insert"}

\* A version in force is what the upstream said last of that revision, among
\* all answers stored: an older answer is not revived, whatever the newer says.
LatestAnswerWins ==
  \A v \in Load(archive), o \in archive : o.source = v.source => o.edition <= v.edition

\* That holds as long as refreshes do not overlap and the clock is not set
\* back: fetched_at orders the answers then, and ids those of one second.
LatestAnswerWinsAlone == faults \cap {"overlap", "clock"} = {} => LatestAnswerWins

\* While the loop sleeps and nothing failed, the archive is never older than
\* two periods: restarts postpone a refresh, by one period at most.
FreshEnough ==
  Asleep /\ faults \subseteq {"overlap"} =>
    \E r \in archive : clock - r.fetched <= 2 * RefreshSecs

-----------------------------------------------------------------------------
(* What holds of the answers read from it, for every range and zone. *)

Ranges == { q \in Instants \X Instants : q[1] < q[2] }
InForce == Load(archive)

\* A stored window at every instant of the range.
WindowsOf(q) == q[1] .. q[2] - 1

\* ensure_coverage looks at the boundaries of the revisions only, and that is
\* enough: an estimate that passes it finds a version for every window, so it
\* does not fail half way and leaves no window out.
CoverageIsEnough ==
  \A q \in Ranges :
    EnsureCoverage(InForce, q[1], q[2]) =>
      \A t \in WindowsOf(q) : ~ NoVersionAt(InForce, t)

Within(t, i) == i.start <= t /\ t < i.end

\* Every instant of the range lies in exactly one interval, and the bracket and
\* schedule of that interval are the ones in force at that very instant, across
\* revisions, offset changes and repeated or skipped hours.
IntervalsTellTheTariff ==
  LET V == InForce IN
  \A q \in Ranges, zone \in Zones :
    ~ IntervalsUnavailable(V, q[1], q[2], zone) =>
      LET answer == Intervals(V, q[1], q[2], zone) IN
      \A t \in WindowsOf(q) :
        \E i \in answer :
          /\ Within(t, i)
          /\ \A j \in answer : Within(t, j) => j = i
          /\ i.id = VersionAt(V, t).id
          /\ i.bracket = Bracket(VersionAt(V, t), zone, t)

\* The endpoints look for coverage at different instants and agree: one answers
\* a range exactly when the other does.
EndpointsAgree ==
  LET V == InForce IN
  \A q \in Ranges, zone \in Zones :
    IntervalsUnavailable(V, q[1], q[2], zone) <=>
      EstimateUnavailable(V, q[1], q[2], WindowsOf(q))

\* Of the schedules an estimate lists, exactly one bounds each window it costs:
\* the one the window is costed with.
ListedSchedulesHold ==
  LET V == InForce IN
  \A q \in Ranges, zone \in Zones :
    ~ EstimateUnavailable(V, q[1], q[2], WindowsOf(q)) =>
      LET costs == Calculate(V, zone, WindowsOf(q)) IN
      \A c, d \in costs :
        c.schedule = d.schedule <=>
          /\ d.schedule.from <= c.window
          /\ d.schedule.until = Open \/ c.window < d.schedule.until
=============================================================================
