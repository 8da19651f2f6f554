-------------------------- MODULE TouRefreshProofs --------------------------
(***************************************************************************)
(* What the archive holds whoever writes it, for every number of request   *)
(* handlers, every upstream history and every bound; and what the          *)
(* endpoints that read it agree on, for every range and time zone.         *)
(***************************************************************************)
EXTENDS TouRefresh, TouCalendarProofs

-----------------------------------------------------------------------------
(* Checking coverage at the revision boundaries is enough. *)

\* What a version's bounds may be.
Bounded(v) == v.start \in Int /\ v.end \in Int \cup {Open}

\* The heart of it: if no version is found at t, then none is found at one of
\* the boundaries ensure_coverage looks at.  Either nothing has started yet at
\* t, nor then at start; or the version selected at t has ended, and it ended
\* after start, so its end is a boundary, or at start or before.
LEMMA BoundariesAreEnough ==
  ASSUME NEW V, \A v \in V : Bounded(v) /\ Usable(v),
         NEW start \in Int, NEW end \in Int, start < end,
         EnsureCoverage(V, start, end),
         NEW t \in Int, start <= t, t < end
  PROVE  ~ NoVersionAt(V, t)
  <1> SUFFICES ASSUME NoVersionAt(V, t) PROVE FALSE
    OBVIOUS
  <1>1. \A b \in RevisionBoundaries(V, start, end) : b < end => ~ NoVersionAt(V, b)
    BY DEF EnsureCoverage
  <1>2. ~ NoVersionAt(V, start)
    BY <1>1 DEF RevisionBoundaries
  <1>3. CASE Started(V, t) = {}
    <2>1. Started(V, start) = {}
      BY <1>3 DEF Started, Bounded
    <2> QED BY <1>2, <2>1 DEF NoVersionAt
  <1>4. CASE Started(V, t) /= {}
    <2>1. PICK v \in V : Selected(V, t, v) /\ Ended(v, t)
      BY <1>4 DEF NoVersionAt
    <2>2. /\ v.start \in Int /\ v.end \in Int /\ v.end /= Open
          /\ v.start < v.end /\ v.start <= t /\ v.end <= t
      BY <2>1, OpenAssumption DEF Selected, Started, Ended, Bounded, Usable
    \* Selected later, v is selected as soon as it has started.
    <2>3. ASSUME NEW b \in Int, v.start <= b, b <= t
          PROVE  Selected(V, b, v)
      <3>1. Started(V, b) \subseteq Started(V, t)
        BY <2>3 DEF Started, Bounded
      <3>2. v \in Started(V, b)
        BY <2>3 DEF Started
      <3> QED BY <2>1, <3>1, <3>2 DEF Selected
    <2>4. CASE start < v.end
      <3>1. v.end \in RevisionBoundaries(V, start, end)
        BY <2>2, <2>4 DEF RevisionBoundaries
      <3>2. ~ NoVersionAt(V, v.end)
        BY <1>1, <2>2, <3>1
      <3>3. Selected(V, v.end, v)
        BY <2>2, <2>3
      <3>4. Ended(v, v.end)
        BY <2>2 DEF Ended
      <3> QED BY <3>2, <3>3, <3>4 DEF NoVersionAt
    <2>5. CASE v.end <= start
      <3>1. Selected(V, start, v)
        BY <2>2, <2>3, <2>5
      <3>2. Ended(v, start)
        BY <2>2, <2>5 DEF Ended
      <3> QED BY <1>2, <3>1, <3>2 DEF NoVersionAt
    <2> QED BY <2>2, <2>4, <2>5
  <1> QED BY <1>3, <1>4

-----------------------------------------------------------------------------
(* The bounds of what is stored are the bounds OpenEI gave. *)

BoundsInv ==
  /\ upstream \in Answer
  /\ edition \in Int
  /\ pc \in [Refresher -> Places]
  /\ got \in [Refresher -> {Nothing} \cup Fetched]
  /\ \A r \in Refresher : pc[r] \in {"stamp", "insert"} => got[r] /= Nothing
  /\ \A row \in archive : Bounded(row)

USE DEF Places

LEMMA BoundsInit == Init => BoundsInv
  BY DEF Init, BoundsInv, Answer, Refresher

LEMMA FetchedRowsAreBounded ==
  ASSUME BoundsInv, NEW r \in Refresher, pc[r] = "insert",
         NEW s \in Sources, got[r].revisions[s] /= Nothing
  PROVE  Bounded(FetchedRow(r, s))
  <1>1. got[r] \in Fetched
    BY DEF BoundsInv
  <1>2. got[r].revisions[s] \in Revisions
    BY <1>1 DEF Fetched, Answer
  <1> QED BY <1>2, RevisionsAssumption DEF FetchedRow, Bounded

\* Of the refreshers only r moves, to a state without revisions.
LEMMA ReturnKeepsBounds ==
  ASSUME BoundsInv, NEW r \in Refresher, Return(r), UNCHANGED << upstream, edition >>,
         \A row \in archive' : Bounded(row)
  PROVE  BoundsInv'
  <1>1. pc' \in [Refresher -> Places]
    BY DEF Return, BoundsInv
  <1>2. got' \in [Refresher -> {Nothing} \cup Fetched]
    BY DEF Return, BoundsInv
  <1>3. ASSUME NEW o \in Refresher, pc'[o] \in {"stamp", "insert"}
        PROVE  got'[o] /= Nothing
    <2>1. o /= r
      BY <1>3 DEF Return, BoundsInv
    <2> QED BY <1>3, <2>1 DEF Return, BoundsInv
  <1> QED BY <1>1, <1>2, <1>3 DEF BoundsInv

LEMMA BoundsNext == BoundsInv /\ [Next]_vars => BoundsInv'
  <1> SUFFICES ASSUME BoundsInv, [Next]_vars PROVE BoundsInv'
    OBVIOUS
  <1>1. CASE UNCHANGED vars
    BY <1>1 DEF vars, BoundsInv
  <1>2. ASSUME NEW s \in Sources, NEW rev \in Revisions \cup {Nothing}, Publish(s, rev)
        PROVE  BoundsInv'
    BY <1>2 DEF Publish, BoundsInv, Answer
  <1>3. CASE Tick \/ \E t \in 0 .. MaxClock : ClockStep(t)
    BY <1>3 DEF Tick, ClockStep, BoundsInv
  <1>4. CASE Crash
    BY <1>4 DEF Crash, BoundsInv
  <1>5. CASE Start
    BY <1>5 DEF Start, BoundsInv
  <1>6. ASSUME NEW r \in Refresher, BeginFetch(r),
               UNCHANGED << upstream, edition, archive, got >>
        PROVE  BoundsInv'
    BY <1>6 DEF BeginFetch, BoundsInv
  <1>7. CASE BootSkip
    BY <1>7 DEF BootSkip, BoundsInv, Refresher
  <1>8. ASSUME NEW r \in Refresher, Fetch(r)
        PROVE  BoundsInv'
    <2>1. [revisions |-> upstream, edition |-> edition] \in Fetched
      BY DEF BoundsInv, Fetched
    <2>2. [revisions |-> upstream, edition |-> edition] /= Nothing
      BY <2>1, NothingAssumption
    <2> QED BY <1>8, <2>1, <2>2 DEF Fetch, BoundsInv
  <1>9. ASSUME NEW r \in Refresher, FetchFails(r) \/ InsertFails(r)
        PROVE  BoundsInv'
    <2>1. Return(r) /\ UNCHANGED << upstream, edition, archive >>
      BY <1>9 DEF FetchFails, InsertFails
    <2>2. \A row \in archive' : Bounded(row)
      BY <2>1 DEF BoundsInv
    <2> QED BY <2>1, <2>2, ReturnKeepsBounds
  <1>10. ASSUME NEW r \in Refresher, Stamp(r)
         PROVE  BoundsInv'
    BY <1>10 DEF Stamp, BoundsInv
  <1>11. ASSUME NEW r \in Refresher, Insert(r)
         PROVE  BoundsInv'
    <2>1. Return(r) /\ UNCHANGED << upstream, edition >> /\ pc[r] = "insert"
      BY <1>11 DEF Insert
    <2>2. \A row \in archive' : Bounded(row)
      <3>1. \A row \in archive : Bounded(row)
        BY DEF BoundsInv
      <3>2. \A s \in Sources : got[r].revisions[s] /= Nothing => Bounded(FetchedRow(r, s))
        BY <2>1, FetchedRowsAreBounded
      <3>3. archive' = archive \cup { FetchedRow(r, s) :
                         s \in { o \in Sources : got[r].revisions[o] /= Nothing } }
        BY <1>11 DEF Insert
      <3> QED BY <3>1, <3>2, <3>3
    <2> QED BY <2>1, <2>2, ReturnKeepsBounds
  <1>12. CASE Next
    <2>1. Loop \in Refresher /\ Posts \subseteq Refresher
      BY DEF Refresher
    <2>2. ASSUME NEW ok \in BOOLEAN, BootRefresh(ok) PROVE BoundsInv'
      BY <1>6, <2>1, <2>2 DEF BootRefresh
    <2>3. CASE Wake
      BY <1>6, <2>1, <2>3 DEF Wake
    <2>4. ASSUME NEW p \in Posts, Request(p) PROVE BoundsInv'
      BY <1>6, <2>1, <2>4 DEF Request
    <2> QED BY <1>12, <1>2, <1>3, <1>4, <1>5, <1>7, <1>8, <1>9, <1>10, <1>11,
               <2>2, <2>3, <2>4 DEF Next, Refresh
  <1> QED BY <1>1, <1>12

-----------------------------------------------------------------------------
LEMMA BoundsGiveCoverage == BoundsInv => CoverageIsEnough
  <1> SUFFICES ASSUME BoundsInv, NEW q \in Ranges,
                      EnsureCoverage(InForce, q[1], q[2]),
                      NEW t \in WindowsOf(q)
               PROVE  ~ NoVersionAt(InForce, t)
    BY DEF CoverageIsEnough
  <1>1. \A v \in InForce : Bounded(v) /\ Usable(v)
    BY DEF BoundsInv, InForce, Load, LatestCopies
  <1>2. q[1] \in Int /\ q[2] \in Int /\ q[1] < q[2]
    BY InstantsAssumption DEF Ranges
  <1>3. t \in Int /\ q[1] <= t /\ t < q[2]
    BY <1>2 DEF WindowsOf
  <1> QED BY <1>1, <1>2, <1>3, BoundariesAreEnough

\* Whatever OpenEI publishes and however refreshes interleave, fail or repeat:
\* an estimate that passes ensure_coverage finds a version for every window.
THEOREM CoverageSuffices == Spec => []CoverageIsEnough
  <1>1. Spec => []BoundsInv
    BY BoundsInit, BoundsNext, PTL DEF Spec
  <1> QED BY <1>1, BoundsGiveCoverage, PTL

-----------------------------------------------------------------------------
(* The inductive invariant. *)

\* Ids count the rows: AUTOINCREMENT on a table nothing is deleted from.
IdsInv ==
  /\ IsFiniteSet(archive)
  /\ Cardinality(archive) <= MaxRows
  /\ \A a \in archive : a.id \in 1 .. Cardinality(archive)
  /\ \A a, b \in archive : a.id = b.id => a = b

\* An answer that is not empty has an edition, and so has what came of it.
EditionsInv ==
  /\ edition \in 0 .. MaxEditions
  /\ \A s \in Sources : upstream[s] /= Nothing => edition >= 1
  /\ \A r \in Refresher : got[r] /= Nothing =>
       /\ got[r].edition \in 1 .. edition
       /\ \E s \in Sources : got[r].revisions[s] /= Nothing
  /\ \A row \in archive : row.edition \in 1 .. edition

\* Without overlap and with a clock that is not set back, answers are stored in
\* the order they were given in, and so is the answer under way.
OrderInv ==
  faults \cap {"overlap", "clock"} = {} =>
    /\ \A a, b \in Refresher : UnderWay(a) /\ UnderWay(b) => a = b
    /\ \A row \in archive : row.fetched <= clock
    /\ \A a, b \in archive : Newer(a, b) => b.edition <= a.edition
    /\ \A r \in Refresher, row \in archive :
         /\ pc[r] \in {"stamp", "insert"} => row.edition <= got[r].edition
         /\ pc[r] = "insert" => row.fetched <= stamp[r]
    /\ \A r \in Refresher : pc[r] = "insert" => stamp[r] <= clock

\* While nothing fails, the loop sleeps no longer than a row may be old.
FreshInv ==
  faults \subseteq {"overlap"} =>
    /\ pc[Loop] = "insert" => stamp[Loop] = clock
    /\ Asleep => /\ clock <= wake
                 /\ \E row \in archive : wake <= row.fetched + 2 * RefreshSecs

\* The daemon is down with all of its tasks.
DownInv == pc[Loop] = "down" => \A r \in Refresher : pc[r] = "down"

ArchiveInv ==
  BoundsInv /\ DownInv /\ TypeOK /\ IdsInv /\ EditionsInv /\ OrderInv /\ FreshInv

-----------------------------------------------------------------------------
(* How fetch_history numbers what it brings. *)

\* The revisions of R sorted before s: by start, then by label.
Ahead(F, R, s) ==
  { o \in F : \/ R[o].start < R[s].start
              \/ R[o].start = R[s].start /\ o < s }

\* Counting the revisions ahead numbers them from zero without a gap or a
\* repetition.
LEMMA AheadNumbers ==
  ASSUME NEW F, IsFiniteSet(F), F \subseteq Nat,
         NEW R, \A s \in F : R[s].start \in Int
  PROVE  /\ \A s \in F : Cardinality(Ahead(F, R, s)) \in 0 .. Cardinality(F) - 1
         /\ \A s, u \in F : Cardinality(Ahead(F, R, s)) = Cardinality(Ahead(F, R, u)) => s = u
  <1>1. ASSUME NEW s \in F
        PROVE  /\ Ahead(F, R, s) \in SUBSET F /\ s \notin Ahead(F, R, s)
               /\ IsFiniteSet(Ahead(F, R, s)) /\ Cardinality(Ahead(F, R, s)) \in Nat
    <2>1. Ahead(F, R, s) \in SUBSET F /\ s \notin Ahead(F, R, s)
      <3>1. Ahead(F, R, s) \in SUBSET F
        BY DEF Ahead
      <3>2. s \in Nat /\ R[s].start \in Int
        OBVIOUS
      <3>3. ~ (R[s].start < R[s].start) /\ ~ (s < s)
        BY <3>2
      <3> QED BY <3>1, <3>3 DEF Ahead
    <2>2. IsFiniteSet(Ahead(F, R, s))
      BY <2>1, FS_Subset
    <2> QED BY <2>1, <2>2, FS_CardinalityType
  <1>2. ASSUME NEW s \in F
        PROVE  Cardinality(Ahead(F, R, s)) < Cardinality(F)
    <2>1. Ahead(F, R, s) /= F
      BY <1>1
    <2> QED BY <1>1, <2>1, FS_Subset, FS_CardinalityType
  <1>3. ASSUME NEW s \in F, NEW u \in F, s \in Ahead(F, R, u)
        PROVE  Cardinality(Ahead(F, R, s)) < Cardinality(Ahead(F, R, u))
    <2>1. ASSUME NEW o \in Ahead(F, R, s) PROVE o \in Ahead(F, R, u)
      <3>1. /\ o \in F /\ o \in Nat /\ s \in Nat /\ u \in Nat
            /\ R[o].start \in Int /\ R[s].start \in Int /\ R[u].start \in Int
        BY DEF Ahead
      <3> QED BY <3>1, <1>3, <2>1 DEF Ahead
    <2>2. Ahead(F, R, s) /= Ahead(F, R, u)
      BY <1>1, <1>3
    <2> QED BY <1>1, <2>1, <2>2, FS_Subset
  <1>4. \A s, u \in F : s = u \/ s \in Ahead(F, R, u) \/ u \in Ahead(F, R, s)
    BY DEF Ahead
  <1>5. Cardinality(F) \in Nat
    BY FS_CardinalityType
  <1> QED BY <1>1, <1>2, <1>3, <1>4, <1>5

\* The labels of what a refresher has fetched, and the rows it will store.
Labels(r) == { o \in Sources : got[r].revisions[o] /= Nothing }
NewRows(r) == { FetchedRow(r, s) : s \in Labels(r) }

LEMMA FetchedRowFields ==
  ASSUME NEW r, NEW s
  PROVE  /\ FetchedRow(r, s).id =
              Cardinality(archive) + Cardinality(Ahead(Labels(r), got[r].revisions, s)) + 1
         /\ FetchedRow(r, s).source = s
         /\ FetchedRow(r, s).fetched = stamp[r]
         /\ FetchedRow(r, s).start = got[r].revisions[s].start
         /\ FetchedRow(r, s).end = got[r].revisions[s].end
         /\ FetchedRow(r, s).plan = got[r].revisions[s].plan
         /\ FetchedRow(r, s).edition = got[r].edition
  BY DEF FetchedRow, Labels, Ahead

LEMMA FetchedTypes ==
  ASSUME BoundsInv, NEW r \in Refresher, pc[r] = "insert"
  PROVE  /\ \A s \in Labels(r) : /\ got[r].revisions[s] \in Revisions
                                 /\ got[r].revisions[s].start \in Int
         /\ Labels(r) \subseteq Sources /\ Labels(r) \subseteq Nat /\ IsFiniteSet(Labels(r))
         /\ Cardinality(Labels(r)) \in Nat
  <1>1. got[r] \in Fetched
    BY DEF BoundsInv
  <1>2. \A s \in Labels(r) : got[r].revisions[s] \in Revisions
    BY <1>1 DEF Fetched, Answer, Labels
  <1>3. \A s \in Labels(r) : got[r].revisions[s].start \in Int
    BY <1>2, RevisionsAssumption
  <1>4. Labels(r) \in SUBSET Sources
    BY DEF Labels
  <1>5. IsFiniteSet(Labels(r)) /\ Cardinality(Labels(r)) \in Nat
    BY <1>4, RefreshAssumption, FS_Subset, FS_CardinalityType
  <1> QED BY <1>2, <1>3, <1>4, <1>5, RefreshAssumption

\* One insert numbers its rows after all others, each once.
LEMMA NewRowsAreNumbered ==
  ASSUME BoundsInv, IdsInv, NEW r \in Refresher, pc[r] = "insert"
  PROVE  LET before == Cardinality(archive)
             all == Cardinality(archive) + Cardinality(NewRows(r))
         IN  /\ IsFiniteSet(NewRows(r))
             /\ before \in Nat /\ Cardinality(NewRows(r)) \in Nat
             /\ \A row \in NewRows(r) : row.id \in before + 1 .. all
             /\ \A a, b \in NewRows(r) : a.id = b.id => a = b
             /\ Cardinality(archive \cup NewRows(r)) = all
  <1> DEFINE F == Labels(r)
             R == got[r].revisions
             row(s) == FetchedRow(r, s)
             f == [ s \in F |-> row(s) ]
  <1>1. /\ IsFiniteSet(F) /\ F \subseteq Nat /\ \A s \in F : R[s].start \in Int
        /\ Cardinality(F) \in Nat
    BY FetchedTypes
  <1>2. /\ \A s \in F : Cardinality(Ahead(F, R, s)) \in 0 .. Cardinality(F) - 1
        /\ \A s, u \in F : Cardinality(Ahead(F, R, s)) = Cardinality(Ahead(F, R, u)) => s = u
    <2> HIDE DEF F, R
    <2> QED BY <1>1, AheadNumbers
  <1>3. \A s \in F : /\ row(s).id = Cardinality(archive) + Cardinality(Ahead(F, R, s)) + 1
                    /\ row(s).source = s
    BY FetchedRowFields
  <1>4. IsFiniteSet(archive) /\ Cardinality(archive) \in Nat
    BY FS_CardinalityType DEF IdsInv
  <1>5. NewRows(r) = { row(s) : s \in F }
    BY DEF NewRows
  <1> HIDE DEF F, R, row
  <1>6. f \in Surjection(F, NewRows(r)) /\ f \in Injection(F, NewRows(r))
    <2>1. f \in [F -> NewRows(r)]
      BY <1>5
    <2>2. \A t \in NewRows(r) : \E s \in F : f[s] = t
      BY <1>5
    <2>3. \A s, u \in F : f[s] = f[u] => s = u
      BY <1>3
    <2> QED BY <2>1, <2>2, <2>3 DEF Surjection, Injection, IsInjective
  <1>7. IsFiniteSet(NewRows(r)) /\ Cardinality(NewRows(r)) = Cardinality(F)
    BY <1>1, <1>6, FS_Surjection
  <1>8. \A t \in NewRows(r) : t.id \in Cardinality(archive) + 1 .. Cardinality(archive) + Cardinality(F)
    BY <1>1, <1>2, <1>3, <1>4, <1>5
  <1>9. \A a, b \in NewRows(r) : a.id = b.id => a = b
    <2> SUFFICES ASSUME NEW s \in F, NEW u \in F, row(s).id = row(u).id
                 PROVE  s = u
      BY <1>5
    <2> QED BY <1>1, <1>2, <1>3, <1>4
  <1>10. archive \cap NewRows(r) = {}
    BY <1>1, <1>4, <1>8 DEF IdsInv
  <1>11. Cardinality(archive \cup NewRows(r)) = Cardinality(archive) + Cardinality(NewRows(r))
    BY <1>4, <1>7, <1>10, <1>1, FS_Union, FS_EmptySet
  <1> QED BY <1>1, <1>4, <1>7, <1>8, <1>9, <1>11

-----------------------------------------------------------------------------
(* The steps, as the proofs tell them apart. *)

\* The loop at boot, the loop when it wakes, and a request start alike.
Begin(r) ==
  /\ pc[r] \in {"boot", "sleep", "idle"}
  /\ BeginFetch(r)
  /\ UNCHANGED << clock, upstream, edition, archive, wake, got, stamp >>

LEMMA Steps ==
  ASSUME [Next]_vars
  PROVE  \/ UNCHANGED vars
         \/ \E s \in Sources, rev \in Revisions \cup {Nothing} : Publish(s, rev)
         \/ Tick \/ (\E t \in 0 .. MaxClock : ClockStep(t)) \/ Crash
         \/ Start \/ BootSkip
         \/ \E r \in Refresher : Begin(r) \/ Refresh(r)
  <1>1. Loop \in Refresher /\ Posts \subseteq Refresher
    BY DEF Refresher
  <1>2. ASSUME NEW ok \in BOOLEAN, BootRefresh(ok) PROVE Begin(Loop)
    BY <1>2 DEF BootRefresh, Begin
  <1>3. ASSUME Wake PROVE Begin(Loop)
    BY <1>3 DEF Wake, Asleep, Begin
  <1>4. ASSUME NEW p \in Posts, Request(p) PROVE Begin(p)
    BY <1>4 DEF Request, Begin
  <1> QED BY <1>1, <1>2, <1>3, <1>4 DEF Next

\* Only an insert changes the archive, by the rows it brings.
LEMMA ArchiveSteps ==
  ASSUME [Next]_vars
  PROVE  \/ UNCHANGED archive
         \/ \E r \in Refresher : Insert(r)
  BY Steps DEF vars, Publish, Tick, ClockStep, Crash, Start, BootSkip, Begin, Refresh,
               Fetch, FetchFails, Stamp, InsertFails

LEMMA InsertAdds ==
  ASSUME NEW r, Insert(r)
  PROVE  /\ archive' = archive \cup NewRows(r) /\ pc[r] = "insert"
         /\ Cardinality(archive) + Cardinality(NewRows(r)) <= MaxRows
         /\ Return(r) /\ UNCHANGED << clock, upstream, edition, faults >>
  BY DEF Insert, NewRows, Labels

LEMMA IdsNext ==
  ASSUME BoundsInv, IdsInv, [Next]_vars
  PROVE  IdsInv'
  <1>1. CASE UNCHANGED archive
    BY <1>1 DEF IdsInv
  <1>2. ASSUME NEW r \in Refresher, Insert(r) PROVE IdsInv'
    <2> DEFINE before == Cardinality(archive)
               all == Cardinality(archive) + Cardinality(NewRows(r))
    <2>1. archive' = archive \cup NewRows(r) /\ pc[r] = "insert" /\ all <= MaxRows
      BY <1>2, InsertAdds
    <2>2. /\ IsFiniteSet(NewRows(r))
          /\ before \in Nat /\ Cardinality(NewRows(r)) \in Nat
          /\ \A row \in NewRows(r) : row.id \in before + 1 .. all
          /\ \A a, b \in NewRows(r) : a.id = b.id => a = b
          /\ Cardinality(archive \cup NewRows(r)) = all
      BY <2>1, NewRowsAreNumbered
    <2>3. IsFiniteSet(archive \cup NewRows(r))
      BY <2>2, FS_Union DEF IdsInv
    <2>4. \A a \in archive' : a.id \in 1 .. all
      BY <2>1, <2>2 DEF IdsInv
    <2>5. \A a, b \in archive' : a.id = b.id => a = b
      BY <2>1, <2>2 DEF IdsInv
    <2> QED BY <2>1, <2>2, <2>3, <2>4, <2>5 DEF IdsInv
  <1> QED BY <1>1, <1>2, ArchiveSteps

-----------------------------------------------------------------------------
(* Types. *)

LEMMA ArchiveInit == Init => ArchiveInv
  <1> SUFFICES ASSUME Init PROVE ArchiveInv
    OBVIOUS
  <1>1. Loop \in Refresher
    BY DEF Refresher
  <1>2. TypeOK
    <2> USE RefreshAssumption DEF Init
    <2>1. clock \in 0 .. MaxClock /\ edition \in 0 .. MaxEditions /\ wake \in 0 .. MaxClock + RefreshSecs
      OBVIOUS
    <2>2. upstream \in [Sources -> Revisions \cup {Nothing}] /\ pc \in [Refresher -> Places]
      OBVIOUS
    <2>3. stamp \in [Refresher -> 0 .. MaxClock]
      OBVIOUS
    <2>4. \A r \in Refresher : got[r] = Nothing /\ pc[r] = "down"
      OBVIOUS
    <2> QED BY <2>1, <2>2, <2>3, <2>4 DEF TypeOK
  <1>3. IdsInv
    BY RefreshAssumption, FS_EmptySet DEF Init, IdsInv
  <1>4. EditionsInv /\ OrderInv
    BY RefreshAssumption DEF Init, EditionsInv, OrderInv, UnderWay, Under
  <1>5. FreshInv /\ DownInv
    BY <1>1 DEF Init, FreshInv, Asleep, DownInv
  <1> QED BY <1>2, <1>3, <1>4, <1>5, BoundsInit DEF ArchiveInv

LEMMA DownNext ==
  ASSUME BoundsInv, DownInv, [Next]_vars
  PROVE  DownInv'
  <1>1. Loop \in Refresher
    BY DEF Refresher
  <1>2. CASE UNCHANGED pc
    BY <1>2 DEF DownInv
  <1>3. CASE Crash \/ Start \/ BootSkip
    BY <1>1, <1>3 DEF Crash, Start, BootSkip, DownInv, BoundsInv
  <1>4. ASSUME NEW r \in Refresher, Begin(r) \/ Refresh(r) PROVE DownInv'
    <2>1. pc[r] /= "down" /\ \E place \in Places \ {"down"} : pc' = [pc EXCEPT ![r] = place]
      BY <1>4 DEF Begin, BeginFetch, Refresh, Fetch, FetchFails, Stamp, Insert, InsertFails, Return
    <2>2. pc[Loop] /= "down"
      BY <2>1 DEF DownInv
    <2> QED BY <1>1, <2>1, <2>2 DEF DownInv, BoundsInv
  <1> QED BY Steps, <1>2, <1>3, <1>4 DEF vars, Publish, Tick, ClockStep

LEMMA EditionsNext ==
  ASSUME BoundsInv, EditionsInv, [Next]_vars
  PROVE  EditionsInv'
  <1> USE RefreshAssumption DEF EditionsInv
  <1>1. CASE UNCHANGED vars
    BY <1>1 DEF vars
  <1>2. ASSUME NEW s \in Sources, NEW rev \in Revisions \cup {Nothing}, Publish(s, rev)
        PROVE  EditionsInv'
    BY <1>2 DEF Publish, BoundsInv, Answer
  <1>3. CASE Tick \/ \E t \in 0 .. MaxClock : ClockStep(t)
    BY <1>3 DEF Tick, ClockStep
  <1>4. CASE Crash \/ Start \/ BootSkip
    BY <1>4 DEF Crash, Start, BootSkip
  <1>5. ASSUME NEW r \in Refresher, Begin(r) PROVE EditionsInv'
    BY <1>5 DEF Begin
  <1>6. ASSUME NEW r \in Refresher, Fetch(r) PROVE EditionsInv'
    <2>1. PICK s \in Sources : upstream[s] /= Nothing
      BY <1>6 DEF Fetch, Published
    <2>2. [revisions |-> upstream, edition |-> edition].edition \in 1 .. edition
      BY <2>1
    <2>3. [revisions |-> upstream, edition |-> edition].revisions[s] /= Nothing
      BY <2>1
    <2>4. ASSUME NEW o \in Refresher, got'[o] /= Nothing
          PROVE  /\ got'[o].edition \in 1 .. edition
                 /\ \E u \in Sources : got'[o].revisions[u] /= Nothing
      <3>1. CASE o = r
        BY <1>6, <2>1, <2>2, <2>3, <3>1 DEF Fetch, BoundsInv
      <3>2. CASE o /= r
        BY <1>6, <2>4, <3>2 DEF Fetch, BoundsInv
      <3> QED BY <3>1, <3>2
    <2> QED BY <1>6, <2>4 DEF Fetch
  <1>7. ASSUME NEW r \in Refresher, FetchFails(r) \/ InsertFails(r) PROVE EditionsInv'
    <2>1. Return(r) /\ UNCHANGED << upstream, edition, archive >>
      BY <1>7 DEF FetchFails, InsertFails
    <2>2. \A o \in Refresher : got'[o] = Nothing \/ got'[o] = got[o]
      BY <2>1 DEF Return, BoundsInv
    <2> QED BY <2>1, <2>2
  <1>8. ASSUME NEW r \in Refresher, Stamp(r) PROVE EditionsInv'
    BY <1>8 DEF Stamp
  <1>9. ASSUME NEW r \in Refresher, Insert(r) PROVE EditionsInv'
    <2>1. /\ archive' = archive \cup NewRows(r) /\ pc[r] = "insert"
          /\ Return(r) /\ UNCHANGED << upstream, edition >>
      BY <1>9, InsertAdds
    <2>2. got[r].edition \in 1 .. edition
      BY <2>1 DEF BoundsInv
    <2>3. \A row \in NewRows(r) : row.edition = got[r].edition
      BY FetchedRowFields DEF NewRows
    <2>4. \A row \in archive' : row.edition \in 1 .. edition
      BY <2>1, <2>2, <2>3
    <2>5. \A o \in Refresher : got'[o] = Nothing \/ got'[o] = got[o]
      BY <2>1 DEF Return, BoundsInv
    <2> QED BY <2>1, <2>4, <2>5
  <1> QED BY Steps, <1>1, <1>2, <1>3, <1>4, <1>5, <1>6, <1>7, <1>8, <1>9 DEF Refresh

LEMMA ReturnKeepsTypes ==
  ASSUME TypeOK, BoundsInv, NEW r \in Refresher, Return(r)
  PROVE  /\ pc' \in [Refresher -> Places]
         /\ wake' \in 0 .. MaxClock + RefreshSecs
         /\ \A o \in Refresher : (got'[o] /= Nothing) = (pc'[o] \in {"stamp", "insert"})
         /\ stamp' \in [Refresher -> 0 .. MaxClock]
  <1>1. pc' \in [Refresher -> Places]
    BY DEF Return, TypeOK
  <1>2. wake' \in 0 .. MaxClock + RefreshSecs
    BY RefreshAssumption DEF Return, Sleep, TypeOK
  <1>3. ASSUME NEW o \in Refresher
        PROVE  (got'[o] /= Nothing) = (pc'[o] \in {"stamp", "insert"})
    <2>1. CASE o = r
      <3>1. got'[o] = Nothing /\ pc'[o] \in {"sleep", "idle"}
        BY <2>1 DEF Return, TypeOK, BoundsInv
      <3> QED BY <3>1
    <2>2. CASE o /= r
      <3>1. got'[o] = got[o] /\ pc'[o] = pc[o]
        BY <2>2 DEF Return, TypeOK, BoundsInv
      <3> QED BY <3>1 DEF TypeOK
    <2> QED BY <2>1, <2>2
  <1>4. stamp' \in [Refresher -> 0 .. MaxClock]
    BY RefreshAssumption DEF Return, TypeOK
  <1> QED BY <1>1, <1>2, <1>3, <1>4

LEMMA TypeNext ==
  ASSUME ArchiveInv, [Next]_vars
  PROVE  TypeOK'
  <1>1. TypeOK /\ BoundsInv /\ DownInv /\ IdsInv /\ EditionsInv
    BY DEF ArchiveInv
  <1> USE RefreshAssumption
  <1>2. CASE UNCHANGED vars
    BY <1>1, <1>2 DEF vars, TypeOK
  <1>3. ASSUME NEW s \in Sources, NEW rev \in Revisions \cup {Nothing}, Publish(s, rev)
        PROVE  TypeOK'
    BY <1>1, <1>3 DEF Publish, TypeOK
  <1>4. CASE Tick
    BY <1>1, <1>4 DEF Tick, TypeOK
  <1>5. ASSUME NEW t \in 0 .. MaxClock, ClockStep(t) PROVE TypeOK'
    BY <1>1, <1>5 DEF ClockStep, TypeOK
  <1>6. CASE Crash
    BY <1>1, <1>6 DEF Crash, TypeOK
  <1>7. CASE Start
    BY <1>1, <1>7 DEF Start, TypeOK, DownInv
  <1>8. CASE BootSkip
    <2>1. wake' \in 0 .. MaxClock + RefreshSecs
      BY <1>1, <1>8 DEF BootSkip, Sleep, TypeOK
    <2>2. /\ pc[Loop] = "boot" /\ pc' = [pc EXCEPT ![Loop] = "sleep"]
          /\ UNCHANGED << clock, upstream, edition, archive, got, stamp, faults >>
      BY <1>8 DEF BootSkip
    <2>3. \A r \in Refresher : (got'[r] /= Nothing) = (pc'[r] \in {"stamp", "insert"})
      <3> TAKE r \in Refresher
      <3>1. CASE r = Loop
        BY <1>1, <2>2, <3>1 DEF TypeOK
      <3>2. CASE r /= Loop
        BY <1>1, <2>2, <3>2 DEF TypeOK
      <3> QED BY <3>1, <3>2
    <2>4. pc' \in [Refresher -> Places]
      BY <1>1, <2>2 DEF TypeOK
    <2> QED BY <1>1, <2>1, <2>2, <2>3, <2>4 DEF TypeOK
  <1>9. ASSUME NEW r \in Refresher, Begin(r) PROVE TypeOK'
    <2>1. /\ pc[r] \in {"boot", "sleep", "idle"} /\ pc' = [pc EXCEPT ![r] = "fetch"]
          /\ UNCHANGED << clock, upstream, edition, archive, wake, got, stamp >>
      BY <1>9 DEF Begin, BeginFetch
    <2>2. faults' \subseteq faults \cup {"overlap"}
      BY <1>9 DEF Begin, BeginFetch
    <2>3. \A o \in Refresher : (got'[o] /= Nothing) = (pc'[o] \in {"stamp", "insert"})
      BY <1>1, <2>1 DEF TypeOK
    <2> QED BY <1>1, <2>1, <2>2, <2>3 DEF TypeOK
  <1>10. ASSUME NEW r \in Refresher, Fetch(r) PROVE TypeOK'
    <2>1. [revisions |-> upstream, edition |-> edition] /= Nothing
      BY <1>1, NothingAssumption DEF Fetched, BoundsInv
    <2> QED BY <1>1, <1>10, <2>1 DEF Fetch, TypeOK, BoundsInv
  <1>11. ASSUME NEW r \in Refresher, FetchFails(r) \/ InsertFails(r) PROVE TypeOK'
    <2>1. Return(r) /\ UNCHANGED << clock, upstream, edition, archive >>
      BY <1>11 DEF FetchFails, InsertFails
    <2>2. faults' \subseteq faults \cup {"upstream", "insert"}
      BY <1>11 DEF FetchFails, InsertFails
    <2> QED BY <1>1, <2>1, <2>2, ReturnKeepsTypes DEF TypeOK
  <1>12. ASSUME NEW r \in Refresher, Stamp(r) PROVE TypeOK'
    BY <1>1, <1>12 DEF Stamp, TypeOK, BoundsInv
  <1>13. ASSUME NEW r \in Refresher, Insert(r) PROVE TypeOK'
    <2>1. /\ archive' = archive \cup NewRows(r) /\ pc[r] = "insert"
          /\ Return(r) /\ UNCHANGED << clock, upstream, edition, faults >>
      BY <1>13, InsertAdds
    <2>2. IdsInv'
      BY <1>1, IdsNext
    <2>3. ASSUME NEW row \in NewRows(r)
          PROVE  /\ row.source \in Sources
                 /\ row.fetched \in 0 .. MaxClock /\ row.edition \in 1 .. MaxEditions
                 /\ \E rev \in Revisions : /\ row.start = rev.start /\ row.end = rev.end
                                           /\ row.plan = rev.plan
      <3>1. PICK s \in Labels(r) : row = FetchedRow(r, s)
        BY DEF NewRows
      <3>2. got[r].revisions[s] \in Revisions /\ s \in Sources
        BY <1>1, <2>1, FetchedTypes
      <3>3. stamp[r] \in 0 .. MaxClock /\ got[r].edition \in 1 .. MaxEditions
        BY <1>1, <2>1 DEF TypeOK, EditionsInv
      <3> QED BY <3>1, <3>2, <3>3, FetchedRowFields
    <2>4. \A row \in archive' : row.id \in 1 .. MaxRows
      BY <2>2, FS_CardinalityType DEF IdsInv
    <2>5. \A a, b \in archive' : a.id = b.id => a = b
      BY <2>2 DEF IdsInv
    <2> QED BY <1>1, <2>1, <2>3, <2>4, <2>5, ReturnKeepsTypes DEF TypeOK
  <1> QED BY Steps, <1>2, <1>3, <1>4, <1>5, <1>6, <1>7, <1>8, <1>9, <1>10, <1>11,
             <1>12, <1>13 DEF Refresh

-----------------------------------------------------------------------------
(* The order answers are stored in. *)

LEMMA FaultsStay ==
  ASSUME [Next]_vars
  PROVE  faults \subseteq faults'
  BY Steps DEF vars, Publish, Tick, ClockStep, Crash, Start, BootSkip, Begin, BeginFetch,
               Refresh, Fetch, FetchFails, Stamp, Insert, InsertFails

\* A refresher of whom the others keep clear, now or before.
Alone(r) == \A o \in Refresher \ {r} : ~ UnderWay(o)

LEMMA AloneMoves ==
  ASSUME BoundsInv, NEW r \in Refresher, Alone(r),
         NEW place, pc' = [pc EXCEPT ![r] = place]
  PROVE  /\ \A o \in Refresher \ {r} : pc'[o] = pc[o] /\ ~ UnderWay(o)'
         /\ pc'[r] = place
  BY DEF Alone, UnderWay, Under, BoundsInv

LEMMA OrderInsert ==
  ASSUME ArchiveInv, NEW r \in Refresher, Insert(r), faults \cap {"overlap", "clock"} = {},
         NEW a \in archive', NEW b \in archive', Newer(a, b)
  PROVE  b.edition <= a.edition
  <1>1. /\ archive' = archive \cup NewRows(r) /\ pc[r] = "insert"
    BY InsertAdds
  <1>2. /\ Cardinality(archive) \in Nat /\ Cardinality(NewRows(r)) \in Nat
        /\ \A row \in NewRows(r) :
             row.id \in Cardinality(archive) + 1 .. Cardinality(archive) + Cardinality(NewRows(r))
    BY <1>1, NewRowsAreNumbered DEF ArchiveInv
  <1>3. \A row \in archive : /\ row.id \in 1 .. Cardinality(archive) /\ row.edition \in Int
                            /\ row.fetched \in 0 .. MaxClock
    BY DEF ArchiveInv, IdsInv, TypeOK
  <1>4. \A row \in NewRows(r) : row.fetched = stamp[r] /\ row.edition = got[r].edition
    BY FetchedRowFields DEF NewRows
  <1>5. stamp[r] \in 0 .. MaxClock /\ got[r].edition \in Int
    BY <1>1 DEF ArchiveInv, TypeOK, EditionsInv
  <1>6. \A row \in archive : row.edition <= got[r].edition /\ row.fetched <= stamp[r]
    BY <1>1 DEF ArchiveInv, OrderInv
  <1>7. CASE a \in archive /\ b \in archive
    BY <1>7 DEF ArchiveInv, OrderInv
  <1>8. CASE a \in NewRows(r) /\ b \in archive
    BY <1>4, <1>6, <1>8
  <1>9. CASE a \in archive /\ b \in NewRows(r)
    <2>1. a.id < b.id
      BY <1>2, <1>3, <1>9
    <2>2. a.fetched <= b.fetched
      BY <1>4, <1>6, <1>9
    <2>3. a.fetched \in Int /\ b.fetched \in Int /\ a.id \in Int /\ b.id \in Int
      BY <1>2, <1>3, <1>4, <1>5, <1>9, RefreshAssumption
    <2> QED BY <2>1, <2>2, <2>3 DEF Newer
  <1>10. CASE a \in NewRows(r) /\ b \in NewRows(r)
    BY <1>4, <1>5, <1>10
  <1> QED BY <1>1, <1>7, <1>8, <1>9, <1>10

LEMMA OrderNext ==
  ASSUME ArchiveInv, [Next]_vars
  PROVE  OrderInv'
  <1> SUFFICES ASSUME faults' \cap {"overlap", "clock"} = {}
               PROVE  OrderInv'
    BY DEF OrderInv
  <1>1. faults \cap {"overlap", "clock"} = {}
    BY FaultsStay
  <1>2. /\ \A a, b \in Refresher : UnderWay(a) /\ UnderWay(b) => a = b
        /\ \A row \in archive : row.fetched <= clock
        /\ \A a, b \in archive : Newer(a, b) => b.edition <= a.edition
        /\ \A r \in Refresher, row \in archive :
             /\ pc[r] \in {"stamp", "insert"} => row.edition <= got[r].edition
             /\ pc[r] = "insert" => row.fetched <= stamp[r]
        /\ \A r \in Refresher : pc[r] = "insert" => stamp[r] <= clock
    BY <1>1 DEF ArchiveInv, OrderInv
  <1>3. BoundsInv /\ TypeOK /\ EditionsInv
    BY DEF ArchiveInv
  <1>4. /\ clock \in Nat /\ \A r \in Refresher : stamp[r] \in Nat
        /\ \A row \in archive : row.fetched \in Nat
        /\ pc \in [Refresher -> Places] /\ stamp \in [Refresher -> 0 .. MaxClock]
        /\ got \in [Refresher -> {Nothing} \cup Fetched]
    BY <1>3 DEF TypeOK, BoundsInv
  <1>5. CASE UNCHANGED vars
    BY <1>2, <1>5 DEF vars, UnderWay, OrderInv, Newer
  <1>6. ASSUME NEW s \in Sources, NEW rev \in Revisions \cup {Nothing}, Publish(s, rev)
        PROVE  UNCHANGED << clock, archive, pc, got, stamp >>
    BY <1>6 DEF Publish
  <1>7. CASE UNCHANGED << clock, archive, pc, got, stamp >>
    BY <1>2, <1>7 DEF UnderWay, OrderInv, Newer
  <1>8. CASE Tick
    BY <1>2, <1>4, <1>8 DEF Tick, UnderWay, OrderInv, Newer
  <1>9. ASSUME NEW t \in 0 .. MaxClock, ClockStep(t) PROVE FALSE
    BY <1>9 DEF ClockStep
  <1>10. CASE Crash \/ Start
    BY <1>2, <1>10 DEF Crash, Start, UnderWay, Under, OrderInv, Newer
  <1>11. CASE BootSkip
    BY <1>2, <1>4, <1>11 DEF BootSkip, UnderWay, Under, OrderInv, Newer
  <1>12. ASSUME NEW r \in Refresher, Begin(r)
         PROVE  /\ Alone(r) /\ pc' = [pc EXCEPT ![r] = "fetch"]
                /\ UNCHANGED << clock, archive, got, stamp >>
    BY <1>12 DEF Begin, BeginFetch, Overlap, Alone
  <1>13. ASSUME NEW r \in Refresher, Refresh(r) PROVE Alone(r)
    BY <1>2, <1>13 DEF Refresh, Fetch, FetchFails, Stamp, Insert, InsertFails, Alone, UnderWay, Under
  \* When r alone is under way, only its own claims are left to show.
  <1>14. ASSUME NEW r \in Refresher, Alone(r), NEW place \in Places,
                pc' = [pc EXCEPT ![r] = place],
                \A row \in archive' : row.fetched <= clock',
                \A a, b \in archive' : Newer(a, b) => b.edition <= a.edition,
                \A row \in archive' :
                  /\ place \in {"stamp", "insert"} => row.edition <= got'[r].edition
                  /\ place = "insert" => row.fetched <= stamp'[r],
                place = "insert" => stamp'[r] <= clock'
         PROVE  OrderInv'
    <2>1. /\ \A o \in Refresher \ {r} : ~ UnderWay(o)' /\ pc'[o] \notin {"stamp", "insert"}
          /\ pc'[r] = place
      BY <1>3, <1>14, AloneMoves DEF UnderWay, Under
    <2> QED BY <1>14, <2>1 DEF OrderInv, Newer
  <1>15. ASSUME NEW r \in Refresher, Begin(r) PROVE OrderInv'
    BY <1>2, <1>12, <1>14, <1>15
  <1>16. ASSUME NEW r \in Refresher, Fetch(r) PROVE OrderInv'
    <2>1. /\ got'[r].edition = edition /\ pc' = [pc EXCEPT ![r] = "stamp"]
          /\ UNCHANGED << clock, archive >>
      BY <1>4, <1>16 DEF Fetch
    <2>2. \A row \in archive : row.edition <= edition
      BY <1>3 DEF EditionsInv
    <2> QED BY <1>2, <1>13, <1>14, <1>16, <2>1, <2>2 DEF Refresh
  <1>17. ASSUME NEW r \in Refresher, Stamp(r) PROVE OrderInv'
    <2>1. /\ pc[r] = "stamp" /\ stamp'[r] = clock /\ pc' = [pc EXCEPT ![r] = "insert"]
          /\ UNCHANGED << clock, archive, got >>
      BY <1>4, <1>17 DEF Stamp
    <2>2. \A row \in archive : row.edition <= got'[r].edition /\ row.fetched <= stamp'[r]
      BY <1>2, <2>1
    <2>3. stamp'[r] <= clock'
      BY <1>4, <2>1
    <2>4. Alone(r) /\ "insert" \in Places
      BY <1>13, <1>17 DEF Refresh
    <2>5. \A a, b \in archive' : Newer(a, b) => b.edition <= a.edition
      BY <1>2, <2>1
    <2>6. \A row \in archive' : row.fetched <= clock'
      BY <1>2, <2>1
    <2> QED BY <1>14, <2>1, <2>2, <2>3, <2>4, <2>5, <2>6
  <1>18. ASSUME NEW r \in Refresher, FetchFails(r) \/ InsertFails(r) PROVE OrderInv'
    <2>1. /\ \E place \in {"sleep", "idle"} : pc' = [pc EXCEPT ![r] = place]
          /\ UNCHANGED << clock, archive >>
      BY <1>18 DEF FetchFails, InsertFails, Return
    <2> QED BY <1>2, <1>13, <1>14, <1>18, <2>1 DEF Refresh
  <1>19. ASSUME NEW r \in Refresher, Insert(r) PROVE OrderInv'
    <2>1. /\ \E place \in {"sleep", "idle"} : pc' = [pc EXCEPT ![r] = place]
          /\ pc[r] = "insert" /\ archive' = archive \cup NewRows(r) /\ UNCHANGED clock
      BY <1>19, InsertAdds DEF Return
    <2>2. \A row \in NewRows(r) : row.fetched = stamp[r]
      BY FetchedRowFields DEF NewRows
    <2>3. \A row \in archive' : row.fetched <= clock'
      BY <1>2, <2>1, <2>2
    <2>4. \A a, b \in archive' : Newer(a, b) => b.edition <= a.edition
      BY <1>1, <1>19, OrderInsert
    <2>5. PICK place \in {"sleep", "idle"} : pc' = [pc EXCEPT ![r] = place]
      BY <2>1
    <2>6. Alone(r)
      BY <1>13, <1>19 DEF Refresh
    <2>7. place \notin {"stamp", "insert"} /\ place \in Places
      OBVIOUS
    <2> HIDE DEF Places
    <2> QED BY <1>14, <2>3, <2>4, <2>5, <2>6, <2>7
  <1> QED BY Steps, <1>5, <1>6, <1>7, <1>8, <1>9, <1>10, <1>11, <1>15, <1>16, <1>17,
             <1>18, <1>19 DEF Refresh

-----------------------------------------------------------------------------
(* How old the archive may be. *)

LEMMA FreshNext ==
  ASSUME ArchiveInv, [Next]_vars
  PROVE  FreshInv'
  <1> SUFFICES ASSUME faults' \subseteq {"overlap"}
               PROVE  FreshInv'
    BY DEF FreshInv
  <1> USE RefreshAssumption
  <1>1. faults \subseteq {"overlap"} /\ Loop \in Refresher
    BY FaultsStay DEF Refresher
  <1>2. /\ pc[Loop] = "insert" => stamp[Loop] = clock
        /\ pc[Loop] = "sleep" =>
             /\ clock <= wake
             /\ \E row \in archive : wake <= row.fetched + 2 * RefreshSecs
    BY <1>1 DEF ArchiveInv, FreshInv, Asleep
  <1>3. /\ clock \in Nat /\ wake \in Nat /\ \A row \in archive : row.fetched \in Nat
        /\ pc \in [Refresher -> Places] /\ stamp \in [Refresher -> 0 .. MaxClock]
    BY DEF ArchiveInv, TypeOK
  <1>4. CASE UNCHANGED << clock, archive, pc, wake, stamp >>
    BY <1>2, <1>4 DEF FreshInv, Asleep
  <1>5. CASE Tick
    <2>1. pc[Loop] /= "insert" /\ (Asleep => ~(wake <= clock))
      BY <1>5 DEF Tick, LoopDue, UnderWay, Under
    <2> QED BY <1>2, <1>3, <1>5, <2>1 DEF Tick, FreshInv, Asleep
  <1>6. ASSUME NEW t \in 0 .. MaxClock, ClockStep(t) PROVE FALSE
    BY <1>6 DEF ClockStep
  <1>7. CASE Crash \/ Start
    BY <1>1, <1>7 DEF Crash, Start, FreshInv, Asleep
  \* The row that made the refresh unnecessary is at most a period old.
  <1>8. CASE BootSkip
    <2>1. PICK row \in archive : clock - row.fetched <= RefreshSecs
      BY <1>8 DEF BootSkip, NeedsRefresh, LatestFetch
    <2>2. wake' = clock + RefreshSecs /\ UNCHANGED << clock, archive >>
      BY <1>8 DEF BootSkip, Sleep
    <2>3. wake' <= row.fetched + 2 * RefreshSecs /\ clock <= wake'
      BY <1>3, <2>1, <2>2
    <2>4. pc'[Loop] = "sleep"
      BY <1>1, <1>3, <1>8 DEF BootSkip
    <2> QED BY <2>2, <2>3, <2>4 DEF FreshInv, Asleep
  \* Another refresher's step may add rows and leaves the loop alone.
  <1>9. ASSUME NEW r \in Refresher, r /= Loop, Begin(r) \/ Refresh(r)
        PROVE  FreshInv'
    <2>1. /\ pc'[Loop] = pc[Loop] /\ stamp'[Loop] = stamp[Loop]
          /\ UNCHANGED << clock, wake >>
      BY <1>1, <1>3, <1>9 DEF Begin, BeginFetch, Refresh, Fetch, FetchFails, Stamp, Insert,
                              InsertFails, Return
    <2>2. archive \subseteq archive'
      BY <1>9, InsertAdds DEF Begin, Refresh, Fetch, FetchFails, Stamp, InsertFails
    <2> QED BY <1>2, <2>1, <2>2 DEF FreshInv, Asleep
  <1>10. CASE Begin(Loop) \/ Fetch(Loop)
    BY <1>1, <1>3, <1>10 DEF Begin, BeginFetch, Fetch, FreshInv, Asleep
  <1>11. CASE Stamp(Loop)
    BY <1>1, <1>3, <1>11 DEF Stamp, FreshInv, Asleep
  <1>12. ASSUME FetchFails(Loop) \/ InsertFails(Loop) PROVE FALSE
    BY <1>12 DEF FetchFails, InsertFails
  \* The rows stored are of this very second, and there is one.
  <1>13. CASE Insert(Loop)
    <2>1. /\ archive' = archive \cup NewRows(Loop) /\ pc[Loop] = "insert"
          /\ Return(Loop) /\ UNCHANGED clock
      BY <1>13, InsertAdds
    <2>2. PICK s \in Labels(Loop) : TRUE
      BY <1>1, <2>1 DEF ArchiveInv, TypeOK, EditionsInv, Labels
    <2>3. FetchedRow(Loop, s) \in archive' /\ FetchedRow(Loop, s).fetched = clock
      BY <1>2, <2>1, FetchedRowFields DEF NewRows
    <2>4. wake' = clock + RefreshSecs /\ pc'[Loop] = "sleep"
      BY <1>1, <1>3, <2>1 DEF Return, Sleep
    <2>5. clock <= wake' /\ wake' <= clock + 2 * RefreshSecs
      BY <1>3, <2>4
    <2> QED BY <2>1, <2>3, <2>4, <2>5 DEF FreshInv, Asleep
  <1>14. CASE \E s \in Sources, rev \in Revisions \cup {Nothing} : Publish(s, rev)
    BY <1>4, <1>14 DEF Publish
  <1>15. CASE UNCHANGED vars
    BY <1>4, <1>15 DEF vars
  <1> QED BY Steps, <1>5, <1>6, <1>7, <1>8, <1>9, <1>10, <1>11, <1>12, <1>13, <1>14, <1>15
          DEF Refresh

LEMMA ArchiveInvariant == Spec => []ArchiveInv
  <1>1. ArchiveInv /\ [Next]_vars => ArchiveInv'
    <2> SUFFICES ASSUME ArchiveInv, [Next]_vars PROVE ArchiveInv'
      OBVIOUS
    <2>1. BoundsInv' /\ DownInv' /\ IdsInv' /\ EditionsInv'
      BY BoundsNext, DownNext, IdsNext, EditionsNext DEF ArchiveInv
    <2> QED BY <2>1, TypeNext, OrderNext, FreshNext DEF ArchiveInv
  <1> QED BY <1>1, ArchiveInit, PTL DEF Spec

-----------------------------------------------------------------------------
\* The table and the refreshers keep their types whoever writes: no id is used
\* twice, and only a refresher between its answer and its insert holds one.
THEOREM ArchiveTypes == Spec => []TypeOK
  BY ArchiveInvariant, PTL DEF ArchiveInv

\* Refreshes that do not overlap, under a clock that is not set back, leave in
\* force what OpenEI said last of every revision.
THEOREM LatestAnswerHolds == Spec => []LatestAnswerWinsAlone
  <1>1. ArchiveInv => LatestAnswerWinsAlone
    <2> SUFFICES ASSUME ArchiveInv, faults \cap {"overlap", "clock"} = {},
                        NEW v \in Load(archive), NEW o \in archive, o.source = v.source
                 PROVE  o.edition <= v.edition
      BY DEF LatestAnswerWinsAlone, LatestAnswerWins
    <2>1. v \in archive /\ ~ Newer(o, v)
      BY DEF Load, LatestCopies
    <2>2. CASE Newer(v, o)
      BY <2>1, <2>2 DEF ArchiveInv, OrderInv
    <2>3. CASE ~ Newer(v, o)
      <3>1. /\ v.fetched \in Int /\ o.fetched \in Int /\ v.id \in Int /\ o.id \in Int
            /\ v.edition \in Int
        BY <2>1, RefreshAssumption DEF ArchiveInv, TypeOK
      <3>2. v.id = o.id
        BY <2>1, <2>3, <3>1 DEF Newer
      <3> QED BY <2>1, <3>1, <3>2 DEF ArchiveInv, TypeOK
    <2> QED BY <2>2, <2>3
  <1> QED BY <1>1, ArchiveInvariant, PTL

\* While the loop sleeps and nothing failed, the newest answer is at most two
\* periods old, however often the daemon was restarted.
THEOREM ArchiveStaysFresh == Spec => []FreshEnough
  <1>1. ArchiveInv => FreshEnough
    <2> SUFFICES ASSUME ArchiveInv, Asleep, faults \subseteq {"overlap"}
                 PROVE  \E row \in archive : clock - row.fetched <= 2 * RefreshSecs
      BY DEF FreshEnough
    <2>1. PICK row \in archive : wake <= row.fetched + 2 * RefreshSecs /\ clock <= wake
      BY DEF ArchiveInv, FreshInv
    <2>2. /\ clock \in Int /\ wake \in Int /\ row.fetched \in Int /\ RefreshSecs \in Int
      BY RefreshAssumption DEF ArchiveInv, TypeOK
    <2> QED BY <2>1, <2>2
  <1> QED BY <1>1, ArchiveInvariant, PTL

-----------------------------------------------------------------------------
(* What the endpoints make of it. *)

\* What is loaded of a well-kept archive.
Sorted(V) ==
  /\ IsFiniteSet(V)
  /\ \A v \in V : /\ Bounded(v) /\ Usable(v)
                 /\ v.fetched \in Int /\ v.id \in Int
  /\ \A u, v \in V : u.id = v.id => u = v

LEMMA LoadIsSorted == ArchiveInv => Sorted(InForce)
  <1> SUFFICES ASSUME ArchiveInv PROVE Sorted(InForce)
    OBVIOUS
  <1>1. InForce \in SUBSET archive /\ \A v \in InForce : Usable(v)
    BY DEF InForce, Load, LatestCopies
  <1>2. IsFiniteSet(InForce)
    BY <1>1, FS_Subset DEF ArchiveInv, IdsInv
  <1>3. \A v \in InForce : Bounded(v) /\ v.fetched \in Int /\ v.id \in Int
    BY <1>1, RefreshAssumption DEF ArchiveInv, BoundsInv, TypeOK
  <1>4. \A u, v \in InForce : u.id = v.id => u = v
    BY <1>1 DEF ArchiveInv, TypeOK
  <1> QED BY <1>1, <1>2, <1>3, <1>4 DEF Sorted

\* The order versions are sorted in is total: no two of them tie.
LEMMA BeforeIsTotal ==
  ASSUME NEW V, Sorted(V)
  PROVE  /\ \A u, v \in V : u = v \/ Before(u, v) \/ Before(v, u)
         /\ \A v \in V : ~ Before(v, v)
         /\ \A u, v, w \in V : Before(u, v) /\ Before(v, w) => Before(u, w)
         /\ \A u, v \in V : Before(u, v) => u.start <= v.start
  BY DEF Sorted, Bounded, Before

LEMMA LeastVersion ==
  ASSUME NEW V, Sorted(V), NEW U \in SUBSET V, U /= {}
  PROVE  \E u \in U : \A w \in U : ~ Before(w, u)
  <1> DEFINE R == { p \in V \X V : Before(p[1], p[2]) }
  <1>1. \A x, y \in V : << x, y >> \in R <=> Before(x, y)
    OBVIOUS
  <1> HIDE DEF R
  <1>2. IsFiniteSet(U)
    BY FS_Subset DEF Sorted
  <1>3. /\ \A x, y, z \in U : << x, y >> \in R /\ << y, z >> \in R => << x, z >> \in R
        /\ \A x \in U : << x, x >> \notin R
    BY <1>1, BeforeIsTotal
  <1>4. \E u \in U : \A w \in U : << w, u >> \notin R
    BY <1>2, <1>3, FiniteHasLeast
  <1> QED BY <1>1, <1>4

LEMMA LastVersion ==
  ASSUME NEW V, Sorted(V), NEW U \in SUBSET V, U /= {}
  PROVE  \E u \in U : \A w \in U : ~ Before(u, w)
  <1> DEFINE R == { p \in V \X V : Before(p[2], p[1]) }
  <1>1. \A x, y \in V : << x, y >> \in R <=> Before(y, x)
    OBVIOUS
  <1> HIDE DEF R
  <1>2. IsFiniteSet(U)
    BY FS_Subset DEF Sorted
  <1>3. /\ \A x, y, z \in U : << x, y >> \in R /\ << y, z >> \in R => << x, z >> \in R
        /\ \A x \in U : << x, x >> \notin R
    BY <1>1, BeforeIsTotal
  <1>4. \E u \in U : \A w \in U : << w, u >> \notin R
    BY <1>2, <1>3, FiniteHasLeast
  <1> QED BY <1>1, <1>4

\* Where a version is found, it is one, and the one that is selected.
LEMMA VersionAtIsSelected ==
  ASSUME NEW V, Sorted(V), NEW t \in Int, ~ NoVersionAt(V, t)
  PROVE  /\ VersionAt(V, t) \in V
         /\ Selected(V, t, VersionAt(V, t))
         /\ ~ Ended(VersionAt(V, t), t)
         /\ \A v \in V : Selected(V, t, v) => v = VersionAt(V, t)
  <1>1. Started(V, t) \in SUBSET V /\ Started(V, t) /= {}
    BY DEF NoVersionAt, Started
  <1>2. PICK u \in Started(V, t) : \A w \in Started(V, t) : ~ Before(u, w)
    BY <1>1, LastVersion
  <1>3. u \in V /\ Selected(V, t, u)
    BY <1>1, <1>2 DEF Selected
  <1>4. VersionAt(V, t) \in V /\ Selected(V, t, VersionAt(V, t))
    BY <1>3 DEF VersionAt
  <1>5. \A v \in V : Selected(V, t, v) => v = VersionAt(V, t)
    BY <1>4, BeforeIsTotal DEF Selected
  <1> QED BY <1>4, <1>5 DEF NoVersionAt

\* The metadata of a version bounds the instants at which it is selected.
LEMMA MetaBounds ==
  ASSUME NEW V, Sorted(V), NEW t \in Int, ~ NoVersionAt(V, t), NEW v \in V
  PROVE  v = VersionAt(V, t) <=>
           v.start <= t /\ (EffectiveEnd(V, v) = Open \/ t < EffectiveEnd(V, v))
  <1> DEFINE after == { u \in V : Before(v, u) }
             next == CHOOSE u \in after : \A w \in after : ~ Before(w, u)
             at == VersionAt(V, t)
  <1>1. /\ at \in V /\ at.start <= t /\ ~ Ended(at, t)
        /\ \A u \in V : u.start <= t => ~ Before(at, u)
    BY VersionAtIsSelected DEF Selected, Started
  <1>2. \A u \in V : u.start \in Int /\ u.end \in Int \cup {Open}
    BY DEF Sorted, Bounded
  <1>3. EffectiveEnd(V, v) = IF after = {} THEN v.end
                             ELSE IF v.end = Open THEN next.start
                             ELSE Earlier(v.end, next.start)
    BY DEF EffectiveEnd
  <1>4. after /= {} => /\ next \in V /\ Before(v, next)
                       /\ \A w \in after : next.start <= w.start
    <2> SUFFICES ASSUME after /= {}
                 PROVE  next \in after /\ \A w \in after : next.start <= w.start
      OBVIOUS
    <2>1. \E u \in after : \A w \in after : ~ Before(w, u)
      BY LeastVersion
    <2>2. next \in after /\ \A w \in after : ~ Before(w, next)
      <3> HIDE DEF after
      <3> QED BY <2>1
    <2>3. ASSUME NEW w \in after PROVE next.start <= w.start
      <3>1. next = w \/ Before(next, w)
        BY <2>2, BeforeIsTotal
      <3> QED BY <1>2, <2>2, <3>1, BeforeIsTotal
    <2> QED BY <2>2, <2>3
  <1>5. ASSUME v = at
        PROVE  v.start <= t /\ (EffectiveEnd(V, v) = Open \/ t < EffectiveEnd(V, v))
    <2>1. v.end = Open \/ (v.end \in Int /\ t < v.end)
      BY <1>1, <1>2, <1>5 DEF Ended
    <2>2. after /= {} => t < next.start /\ next.start \in Int
      BY <1>1, <1>2, <1>4, <1>5
    <2> HIDE DEF after, next
    <2>3. CASE after = {}
      BY <1>1, <1>3, <1>5, <2>1, <2>3
    <2>4. CASE after /= {}
      BY <1>1, <1>3, <1>5, <2>1, <2>2, <2>4 DEF Earlier
    <2> QED BY <2>3, <2>4
  <1>6. ASSUME v.start <= t, EffectiveEnd(V, v) = Open \/ t < EffectiveEnd(V, v), v /= at
        PROVE  FALSE
    <2>1. Before(v, at)
      BY <1>1, <1>6, BeforeIsTotal
    <2>2. after /= {} /\ next \in V /\ next.start <= at.start
      BY <1>1, <1>4, <2>1
    <2>3. next.start \in Int /\ at.start \in Int /\ v.end \in Int \cup {Open}
      BY <1>1, <1>2, <2>2
    <2> HIDE DEF after, next
    <2>4. EffectiveEnd(V, v) \in Int /\ EffectiveEnd(V, v) <= next.start
      BY <1>3, <2>2, <2>3 DEF Earlier
    <2> QED BY <1>1, <1>6, <2>2, <2>3, <2>4, OpenAssumption
  <1> QED BY <1>5, <1>6

\* Of the schedules an estimate lists, exactly one bounds each window it costs,
\* the one the window is costed with: for every archive, range and zone.
THEOREM SchedulesBoundTheirWindows == Spec => []ListedSchedulesHold
  <1>1. ArchiveInv => ListedSchedulesHold
    <2> SUFFICES ASSUME ArchiveInv, NEW q \in Ranges, NEW zone \in Zones,
                        ~ EstimateUnavailable(InForce, q[1], q[2], WindowsOf(q)),
                        NEW c \in Calculate(InForce, zone, WindowsOf(q)),
                        NEW d \in Calculate(InForce, zone, WindowsOf(q))
                 PROVE  c.schedule = d.schedule <=>
                          /\ d.schedule.from <= c.window
                          /\ d.schedule.until = Open \/ c.window < d.schedule.until
      BY DEF ListedSchedulesHold
    <2> DEFINE V == InForce
               vc == VersionAt(V, c.window)
               vd == VersionAt(V, d.window)
    <2>1. Sorted(V)
      BY LoadIsSorted
    <2>2. /\ c.window \in WindowsOf(q) /\ c.schedule = Meta(V, vc)
          /\ d.window \in WindowsOf(q) /\ d.schedule = Meta(V, vd)
      BY DEF Calculate
    <2>3. WindowsOf(q) \subseteq Int
      BY InstantsAssumption DEF WindowsOf, Ranges
    <2>4. ~ NoVersionAt(V, c.window) /\ ~ NoVersionAt(V, d.window)
      BY <2>2 DEF EstimateUnavailable
    <2>5. vc \in V /\ vd \in V
      BY <2>1, <2>2, <2>3, <2>4, VersionAtIsSelected
    <2>6. d.schedule.from = vd.start /\ d.schedule.until = EffectiveEnd(V, vd)
      BY <2>2 DEF Meta
    <2>7. c.schedule.id = vc.id /\ d.schedule.id = vd.id
      BY <2>2 DEF Meta
    <2>8. c.schedule = d.schedule <=> vd = vc
      BY <2>1, <2>2, <2>5, <2>7 DEF Sorted
    <2>9. vd = vc <=> vd.start <= c.window
                      /\ (EffectiveEnd(V, vd) = Open \/ c.window < EffectiveEnd(V, vd))
      <3> HIDE DEF V, vd
      <3> QED BY <2>1, <2>2, <2>3, <2>4, <2>5, MetaBounds
    <2> QED BY <2>6, <2>8, <2>9
  <1> QED BY <1>1, ArchiveInvariant, PTL

LEMMA AnswerTheSame == ArchiveInv => EndpointsAgree
  <1> SUFFICES ASSUME ArchiveInv, NEW q \in Ranges, NEW zone \in Zones
               PROVE  IntervalsUnavailable(InForce, q[1], q[2], zone) <=>
                        EstimateUnavailable(InForce, q[1], q[2], WindowsOf(q))
    BY DEF EndpointsAgree
  <1> DEFINE V == InForce
             start == q[1]
             end == q[2]
  <1>1. start \in Int /\ end \in Int /\ start < end
    BY InstantsAssumption DEF Ranges
  <1>2. Sorted(V)
    BY LoadIsSorted
  <1>3. CalendarBoundaries(zone, start, end) \subseteq WindowsOf(q)
    <2>1. CalendarBoundaries(zone, start, end) \subseteq start + 1 .. end - 1
      <3> HIDE DEF start, end
      <3> QED BY <1>1, CalendarBoundariesAreInside
    <2> QED BY <1>1, <2>1 DEF WindowsOf
  <1>4. \A t \in RevisionBoundaries(V, start, end) : t /= end => t < end
    BY <1>1, <1>2 DEF RevisionBoundaries, Sorted, Bounded
  <1>5. ASSUME IntervalsUnavailable(V, start, end, zone)
        PROVE  EstimateUnavailable(V, start, end, WindowsOf(q))
    <2>1. PICK t \in Boundaries(V, start, end, zone) : t /= end /\ NoVersionAt(V, t)
      BY <1>5 DEF IntervalsUnavailable
    <2>2. CASE t \in RevisionBoundaries(V, start, end)
      BY <1>4, <2>1, <2>2 DEF EstimateUnavailable, EnsureCoverage
    <2>3. CASE t \in CalendarBoundaries(zone, start, end)
      BY <1>3, <2>1, <2>3 DEF EstimateUnavailable
    <2> QED BY <2>1, <2>2, <2>3 DEF Boundaries
  <1>6. ASSUME EstimateUnavailable(V, start, end, WindowsOf(q))
        PROVE  IntervalsUnavailable(V, start, end, zone)
    \* A window without a version would have been found at a boundary.
    <2>1. ~ EnsureCoverage(V, start, end)
      <3> SUFFICES ASSUME EnsureCoverage(V, start, end) PROVE FALSE
        OBVIOUS
      <3>1. PICK t \in WindowsOf(q) : NoVersionAt(V, t)
        BY <1>6 DEF EstimateUnavailable
      <3>2. CoverageIsEnough
        BY BoundsGiveCoverage DEF ArchiveInv
      <3> QED BY <3>1, <3>2 DEF CoverageIsEnough
    <2>2. PICK t \in RevisionBoundaries(V, start, end) : t < end /\ NoVersionAt(V, t)
      BY <2>1 DEF EnsureCoverage
    <2>3. t \in Boundaries(V, start, end, zone) \ {end}
      BY <1>1, <2>2 DEF Boundaries
    <2> QED BY <2>2, <2>3 DEF IntervalsUnavailable
  <1> QED BY <1>5, <1>6

\* The intervals endpoint and the estimate look for coverage at different
\* instants and answer exactly the same ranges, whatever is stored.
THEOREM EndpointsAnswerTheSame == Spec => []EndpointsAgree
  BY AnswerTheSame, ArchiveInvariant, PTL

-----------------------------------------------------------------------------
(* What the intervals say. *)

\* Intervals, taken apart: where it cuts, what it labels the pieces with, which
\* of them begin an interval and where that ends.
Label(V, zone, t) == << Bracket(VersionAt(V, t), zone, t), VersionAt(V, t).id >>
Cuts(V, start, end, zone) == Boundaries(V, start, end, zone) \ {end}
Follows(cuts, a, b) == a < b /\ \A t \in cuts : ~(a < t /\ t < b)
Heads(V, zone, cuts) ==
  { b \in cuts : \A a \in cuts : Follows(cuts, a, b) => Label(V, zone, a) /= Label(V, zone, b) }
Until(heads, end, h) ==
  CHOOSE t \in heads \cup {end} : h < t /\ \A g \in heads : h < g => t <= g

LEMMA IntervalsAre ==
  ASSUME NEW V, NEW start, NEW end, NEW zone
  PROVE  LET heads == Heads(V, zone, Cuts(V, start, end, zone))
         IN  Intervals(V, start, end, zone) =
               { [ start |-> h, end |-> Until(heads, end, h),
                   bracket |-> Label(V, zone, h)[1], id |-> Label(V, zone, h)[2] ] : h \in heads }
  BY DEF Intervals, Label, Cuts, Follows, Heads, Until

\* The same version is in force at neighbouring instants unless the second is a
\* boundary of a revision.
LEMMA VersionStays ==
  ASSUME NEW V, Sorted(V), NEW start \in Int, NEW end \in Int,
         NEW t \in Int, start <= t, t + 1 < end,
         t + 1 \notin RevisionBoundaries(V, start, end),
         ~ NoVersionAt(V, t), ~ NoVersionAt(V, t + 1)
  PROVE  VersionAt(V, t + 1) = VersionAt(V, t)
  <1>1. Started(V, t + 1) = Started(V, t)
    <2>1. \A v \in V : v.start \in Int /\ v.start /= t + 1
      BY DEF RevisionBoundaries, Sorted, Bounded
    <2> QED BY <2>1 DEF Started
  <1> DEFINE later == VersionAt(V, t + 1)
  <1>2. \A v \in V : Selected(V, t, v) <=> Selected(V, t + 1, v)
    BY <1>1 DEF Selected
  <1>3. later \in V /\ Selected(V, t + 1, later)
    BY VersionAtIsSelected
  <1>4. \A v \in V : Selected(V, t, v) => v = VersionAt(V, t)
    BY VersionAtIsSelected
  <1> QED BY <1>2, <1>3, <1>4

LEMMA LabelStays ==
  ASSUME NEW V, Sorted(V), NEW zone, RealZone(zone), NEW start \in Int, NEW end \in Int,
         NEW t \in Int, start <= t, t + 1 < end,
         t + 1 \notin Cuts(V, start, end, zone),
         ~ NoVersionAt(V, t), ~ NoVersionAt(V, t + 1)
  PROVE  Label(V, zone, t + 1) = Label(V, zone, t)
  <1>1. /\ t + 1 \notin RevisionBoundaries(V, start, end)
        /\ t + 1 \notin CalendarBoundaries(zone, start, end)
    BY DEF Cuts, Boundaries
  <1>2. VersionAt(V, t + 1) = VersionAt(V, t)
    BY <1>1, VersionStays
  <1>3. HourOfDay(zone, t + 1) = HourOfDay(zone, t)
    BY <1>1, HourStaysBetweenBoundaries
  <1> QED BY <1>2, <1>3 DEF Label, Bracket

\* Between two cuts the label is that of the first.
LEMMA LabelOfCut ==
  ASSUME NEW V, Sorted(V), NEW zone, RealZone(zone), NEW start \in Int, NEW end \in Int,
         \A t \in start .. end - 1 : ~ NoVersionAt(V, t),
         NEW a \in start .. end - 1, NEW t \in a .. end - 1,
         \A c \in Cuts(V, start, end, zone) : ~(a < c /\ c <= t)
  PROVE  Label(V, zone, t) = Label(V, zone, a)
  <1> DEFINE T == { n \in Nat : a + n <= t /\ Label(V, zone, a + n) /= Label(V, zone, a) }
  <1>1. T = {}
    <2> SUFFICES ASSUME T /= {} PROVE FALSE
      OBVIOUS
    <2>1. PICK n \in T : \A m \in T : n <= m
      <3>1. T \in SUBSET Nat
        OBVIOUS
      <3> HIDE DEF T
      <3> QED BY <3>1, LeastNatural
    <2>2. n \in Nat /\ a + n <= t /\ Label(V, zone, a + n) /= Label(V, zone, a)
      OBVIOUS
    <2>3. n /= 0
      BY <2>2
    <2> DEFINE s == a + (n - 1)
    <2>4. n - 1 \in Nat /\ n - 1 \notin T
      BY <2>1, <2>2, <2>3
    <2>5. Label(V, zone, s) = Label(V, zone, a)
      BY <2>2, <2>4
    <2>6. /\ s \in Int /\ start <= s /\ s + 1 < end /\ s + 1 = a + n
          /\ s \in start .. end - 1 /\ s + 1 \in start .. end - 1 /\ a < s + 1 /\ s + 1 <= t
      BY <2>2, <2>3
    <2> HIDE DEF s, T
    <2>7. s + 1 \notin Cuts(V, start, end, zone)
      BY <2>6
    <2>8. Label(V, zone, s + 1) = Label(V, zone, s)
      BY <2>6, <2>7, LabelStays
    <2> QED BY <2>2, <2>5, <2>6, <2>8
  <1> DEFINE k == t - a
  <1>2. k \in Nat /\ a + k = t /\ a + k <= t
    OBVIOUS
  <1>3. k \notin T
    BY <1>1
  <1> HIDE DEF k
  <1>4. Label(V, zone, a + k) = Label(V, zone, a)
    BY <1>2, <1>3
  <1> QED BY <1>2, <1>4

\* Every instant lies in the interval of the last head, which has its label.
LEMMA HeadOf ==
  ASSUME NEW V, Sorted(V), NEW zone, RealZone(zone), NEW start \in Int, NEW end \in Int,
         start < end, \A t \in start .. end - 1 : ~ NoVersionAt(V, t),
         NEW t \in start .. end - 1
  PROVE  LET heads == Heads(V, zone, Cuts(V, start, end, zone)) IN
         \E h \in heads : /\ h <= t /\ Label(V, zone, h) = Label(V, zone, t)
                         /\ \A g \in heads : ~(h < g /\ g <= t)
  <1> DEFINE cuts == Cuts(V, start, end, zone)
             heads == Heads(V, zone, cuts)
             Covered(s) == \E h \in heads : /\ h <= s /\ Label(V, zone, h) = Label(V, zone, s)
                                           /\ \A g \in heads : ~(h < g /\ g <= s)
             T == { n \in Nat : start + n <= t /\ ~ Covered(start + n) }
  <1>1. cuts \subseteq start .. end - 1 /\ start \in cuts /\ heads \subseteq cuts
    <2>1. RevisionBoundaries(V, start, end) \subseteq start .. end
      BY DEF RevisionBoundaries, Sorted, Bounded
    <2>2. CalendarBoundaries(zone, start, end) \subseteq start .. end
      BY CalendarBoundariesAreInside
    <2>3. start \in RevisionBoundaries(V, start, end)
      BY DEF RevisionBoundaries
    <2> QED BY <2>1, <2>2, <2>3 DEF Cuts, Boundaries, Heads
  <1>2. T = {}
    <2> SUFFICES ASSUME T /= {} PROVE FALSE
      OBVIOUS
    <2>1. PICK n \in T : \A m \in T : n <= m
      <3>1. T \in SUBSET Nat
        OBVIOUS
      <3> HIDE DEF T
      <3> QED BY <3>1, LeastNatural
    <2> DEFINE s == start + n
    <2>2. n \in Nat /\ s \in Int /\ s <= t /\ ~ Covered(s)
      OBVIOUS
    <2>3. CASE s \in heads
      BY <1>1, <2>2, <2>3
    <2>4. CASE s \notin heads
      \* start begins an interval, so that there is an instant before s.
      <3>1. s /= start
        <4>1. start \in heads
          <5> HIDE DEF cuts
          <5> QED BY <1>1 DEF Heads, Follows
        <4> QED BY <2>4, <4>1
      <3>2. n - 1 \in Nat /\ n - 1 \notin T /\ start + (n - 1) = s - 1 /\ s - 1 >= start
        BY <2>1, <2>2, <3>1
      <3>3. Covered(s - 1)
        BY <2>2, <3>2
      <3>4. PICK h \in heads : /\ h <= s - 1 /\ Label(V, zone, h) = Label(V, zone, s - 1)
                              /\ \A g \in heads : ~(h < g /\ g <= s - 1)
        BY <3>3
      <3>5. Label(V, zone, s) = Label(V, zone, s - 1)
        <4>1. CASE s \notin cuts
          <5> DEFINE r == s - 1
          <5>1. r \in Int /\ start <= r /\ r + 1 < end /\ r + 1 = s
            BY <2>2, <3>2
          <5>2. ~ NoVersionAt(V, r) /\ ~ NoVersionAt(V, r + 1)
            BY <2>2, <3>2
          <5> HIDE DEF r, s
          <5>3. Label(V, zone, r + 1) = Label(V, zone, r)
            BY <4>1, <5>1, <5>2, LabelStays
          <5> QED BY <5>1, <5>3 DEF r
        <4>2. CASE s \in cuts
          <5>1. PICK a \in cuts : Follows(cuts, a, s) /\ Label(V, zone, a) = Label(V, zone, s)
            <6> HIDE DEF cuts, s
            <6> QED BY <2>4, <4>2 DEF Heads
          <5>2. a \in start .. end - 1 /\ s - 1 \in a .. end - 1
            BY <1>1, <2>2, <5>1 DEF Follows
          <5>3. \A c \in cuts : ~(a < c /\ c <= s - 1)
            BY <1>1, <2>2, <5>1 DEF Follows
          <5> HIDE DEF s
          <5>4. Label(V, zone, s - 1) = Label(V, zone, a)
            BY <5>2, <5>3, LabelOfCut
          <5> QED BY <5>1, <5>4
        <4> QED BY <4>1, <4>2
      <3>6. \A g \in heads : ~(h < g /\ g <= s)
        BY <1>1, <2>2, <2>4, <3>4
      <3> QED BY <1>1, <2>2, <3>4, <3>5, <3>6
    <2> QED BY <2>3, <2>4
  <1> DEFINE k == t - start
  <1>3. k \in Nat /\ start + k = t /\ start + k <= t
    OBVIOUS
  <1>4. k \notin T
    BY <1>2
  <1> HIDE DEF k
  <1> HIDE DEF Covered
  <1>5. Covered(start + k)
    BY <1>3, <1>4
  <1>6. Covered(t)
    BY <1>3, <1>5
  <1> QED BY <1>6 DEF Covered

\* An interval ends at the next head, or at the end of the range.
LEMMA UntilIsNext ==
  ASSUME NEW start \in Int, NEW end \in Int, NEW heads \in SUBSET (start .. end - 1),
         NEW h \in heads
  PROVE  /\ Until(heads, end, h) \in heads \cup {end}
         /\ h < Until(heads, end, h)
         /\ \A g \in heads : h < g => Until(heads, end, h) <= g
  <1> DEFINE T == { n \in Nat : h + n \in heads \cup {end} /\ n > 0 }
             k == end - h
  <1>1. k \in Nat /\ k > 0 /\ h + k = end
    OBVIOUS
  <1>2. k \in T
    BY <1>1
  <1>3. PICK n \in T : \A m \in T : n <= m
    <2>1. T \in SUBSET Nat
      OBVIOUS
    <2> HIDE DEF T
    <2> QED BY <1>2, <2>1, LeastNatural
  <1>4. n \in Nat /\ h + n \in heads \cup {end} /\ h < h + n /\ h \in Int
    OBVIOUS
  <1>5. ASSUME NEW g \in heads, h < g PROVE h + n <= g
    <2> DEFINE m == g - h
    <2>1. m \in Nat /\ m > 0 /\ h + m = g
      BY <1>5
    <2>2. m \in T
      BY <2>1
    <2>3. n <= m
      BY <1>3, <2>2
    <2> HIDE DEF m, T
    <2> QED BY <1>4, <2>1, <2>3
  <1> HIDE DEF T
  <1>6. \E u \in heads \cup {end} : h < u /\ \A g \in heads : h < g => u <= g
    BY <1>4, <1>5
  <1> QED BY <1>6 DEF Until

\* Every instant of an answered range lies in exactly one of the intervals, and
\* that interval's bracket and schedule are the ones in force at the instant:
\* across revisions, changes of offset and repeated or skipped hours.
THEOREM IntervalsAreTheTariff == Spec => []IntervalsTellTheTariff
  <1>1. ArchiveInv => IntervalsTellTheTariff
    <2> SUFFICES ASSUME ArchiveInv, NEW q \in Ranges, NEW zone \in Zones,
                        ~ IntervalsUnavailable(InForce, q[1], q[2], zone),
                        NEW t \in WindowsOf(q)
                 PROVE  \E i \in Intervals(InForce, q[1], q[2], zone) :
                          /\ Within(t, i)
                          /\ \A j \in Intervals(InForce, q[1], q[2], zone) : Within(t, j) => j = i
                          /\ i.id = VersionAt(InForce, t).id
                          /\ i.bracket = Bracket(VersionAt(InForce, t), zone, t)
      BY DEF IntervalsTellTheTariff
    <2> DEFINE V == InForce
               start == q[1]
               end == q[2]
               cuts == Cuts(V, start, end, zone)
               heads == Heads(V, zone, cuts)
               Interval(h) == [ start |-> h, end |-> Until(heads, end, h),
                                bracket |-> Label(V, zone, h)[1], id |-> Label(V, zone, h)[2] ]
    <2>1. /\ start \in Int /\ end \in Int /\ start < end /\ t \in start .. end - 1
          /\ WindowsOf(q) = start .. end - 1
      BY InstantsAssumption DEF Ranges, WindowsOf
    <2>2. Sorted(V) /\ RealZone(zone)
      BY LoadIsSorted, ZonesAssumption
    <2>3. \A s \in start .. end - 1 : ~ NoVersionAt(V, s)
      <3>1. ~ EstimateUnavailable(V, start, end, WindowsOf(q))
        BY AnswerTheSame DEF EndpointsAgree
      <3> QED BY <2>1, <3>1 DEF EstimateUnavailable
    <2>4. Intervals(V, start, end, zone) = { Interval(h) : h \in heads }
      BY IntervalsAre
    <2>5. heads \in SUBSET (start .. end - 1)
      <3>1. RevisionBoundaries(V, start, end) \subseteq start .. end
        BY <2>1, <2>2 DEF RevisionBoundaries, Sorted, Bounded
      <3>2. CalendarBoundaries(zone, start, end) \subseteq start .. end
        BY <2>1, CalendarBoundariesAreInside
      <3> QED BY <2>1, <3>1, <3>2 DEF Cuts, Boundaries, Heads
    <2>6. PICK h \in heads : /\ h <= t /\ Label(V, zone, h) = Label(V, zone, t)
                            /\ \A g \in heads : ~(h < g /\ g <= t)
      <3> HIDE DEF V, start, end
      <3> QED BY <2>1, <2>2, <2>3, HeadOf
    <2>7. \A g \in heads : /\ Until(heads, end, g) \in heads \cup {end}
                          /\ g < Until(heads, end, g)
                          /\ \A f \in heads : g < f => Until(heads, end, g) <= f
      <3> HIDE DEF V, start, end, heads
      <3> QED BY <2>1, <2>5, UntilIsNext
    <2> HIDE DEF V, start, end, cuts, heads
    <2> DEFINE until(g) == Until(heads, end, g)
    <2>8. \A g \in heads : /\ until(g) \in heads \cup {end} /\ g < until(g)
                          /\ \A f \in heads : g < f => until(g) <= f
      BY <2>7
    <2>9. ASSUME NEW g \in heads
          PROVE  /\ Within(t, Interval(g)) <=> g <= t /\ t < until(g)
                 /\ g \in Int /\ until(g) \in Int /\ t \in Int
      <3>1. /\ Interval(g).start = g
            /\ Interval(g).end = until(g)
        OBVIOUS
      <3> HIDE DEF until, Interval
      <3>2. g \in Int /\ t \in Int
        BY <2>1, <2>5
      <3>3. until(g) \in Int
        <4>1. until(g) \in heads \cup {end}
          BY <2>8
        <4>2. heads \cup {end} \subseteq Int
          BY <2>1, <2>5
        <4> QED BY <4>1, <4>2
      <3> QED BY <3>1, <3>2, <3>3 DEF Within
    <2> HIDE DEF until
    <2>10. Within(t, Interval(h))
      <3>1. CASE until(h) = end
        BY <2>1, <2>6, <2>9, <3>1
      <3>2. CASE until(h) \in heads
        BY <2>6, <2>9, <2>8, <3>2
      <3> QED BY <2>8, <3>1, <3>2
    <2>11. ASSUME NEW g \in heads, Within(t, Interval(g)) PROVE g = h
      <3>1. g \in Int /\ h \in Int /\ t \in Int /\ g <= t /\ t < until(g) /\ until(g) \in Int
        BY <2>11, <2>9
      <3>2. ~ (h < g)
        BY <2>6, <3>1
      <3>3. ~ (g < h)
        <4>1. g < h => until(g) <= h
          BY <2>8
        <4> QED BY <2>6, <3>1, <4>1
      <3> QED BY <3>1, <3>2, <3>3
    <2>12. /\ Interval(h).id = VersionAt(V, t).id
           /\ Interval(h).bracket = Bracket(VersionAt(V, t), zone, t)
      BY <2>6 DEF Label
    <2> HIDE DEF Interval
    <2>13. \E i \in Intervals(V, start, end, zone) :
             /\ Within(t, i)
             /\ \A j \in Intervals(V, start, end, zone) : Within(t, j) => j = i
             /\ i.id = VersionAt(V, t).id
             /\ i.bracket = Bracket(VersionAt(V, t), zone, t)
      BY <2>4, <2>10, <2>11, <2>12
    <2> QED BY <2>13 DEF V, start, end
  <1> QED BY <1>1, ArchiveInvariant, PTL
=============================================================================
