------------------------- MODULE SchedulerInvariant -------------------------
(***************************************************************************)
(* The inductive invariants behind what Scheduler promises.                *)
(*                                                                         *)
(* LedgerInv is why no step of the collector, and no build, makes two rows *)
(* account for the same energy while the anchors and the meters are        *)
(* intact: the anchor, in memory or in config_store, is at or above        *)
(* everything the ledger holds for the windows before its own.             *)
(*                                                                         *)
(* The others need the anchor's place in time only, which neither a        *)
(* replaced meter nor an incomplete answer can disturb: AnchorIsLatest,    *)
(* and on it MarkerInv, RepairInv, RecomputeInv and ContiguousInv.         *)
(*                                                                         *)
(* MeterInv says of two meters what LedgerInv says of one, for what a      *)
(* replacement may and may not do to the sum of the rows. The last part    *)
(* is progress without fairness: what runs out, and whose turn it is.      *)
(***************************************************************************)
EXTENDS Scheduler

\* The worklist of startup_recompute holds rows of an older version only: no
\* row in it changes before its turn, and no build is installed meanwhile.
WorklistIsStale ==
  /\ stale /= {} => pc = "recompute"
  /\ stale \subseteq StaleRows

StoreEmpty == \A x \in Key : store[x] = None
StoreComplete == \A x \in Key : store[x] /= None

\* The reading a may open its window: nothing later is stored, and what is
\* stored of the windows before ends at or below it.
MayOpen(a) ==
  /\ \A w \in Stored :
       /\ w <= WindowBoundary(a.ts)
       /\ w < WindowBoundary(a.ts) => Leq(energyWindow[w].hi, a)
  /\ \A w \in Captured : w < WindowBoundary(a.ts) => Leq(boundarySnapshot[w], a)

\* Rows run forward and do not overlap.
RowsOrdered ==
  /\ \A w \in Stored : Leq(energyWindow[w].lo, energyWindow[w].hi)
  /\ \A v, w \in Stored : v < w => Leq(energyWindow[v].hi, energyWindow[w].lo)

\* Snapshots fall between the rows, so that a row recomputed from a pair of
\* them stays in its place.
SnapshotsBetweenRows ==
  /\ \A v, w \in Captured : v < w => Leq(boundarySnapshot[v], boundarySnapshot[w])
  /\ \A v \in Captured, w \in Stored :
       v < w => Leq(boundarySnapshot[v], energyWindow[w].lo)
  /\ \A v \in Stored, w \in Captured :
       v <= w => Leq(energyWindow[v].hi, boundarySnapshot[w])

\* No reading is ahead of the meters.
NothingAboveMeter ==
  /\ \A w \in Stored : Leq(energyWindow[w].hi, meter)
  /\ \A w \in Captured : Leq(boundarySnapshot[w], meter)
  /\ last /= None => Leq(last, meter)
  /\ curr /= None => Leq(curr, meter)
  /\ saved = {} /\ StoreComplete => Leq(store, meter)

\* The anchor in memory and the one in config_store are the same reading but
\* for the four writes that move it, and either may open its window.
AnchorsMayOpen ==
  /\ pc \in {"down", "boot", "recompute"} => last = None
  /\ pc = "idle" /\ last = None => Fresh
  /\ pc /= "persist" => saved = {}
  /\ saved = {} => StoreEmpty \/ StoreComplete
  /\ saved = {} /\ last /= None => StoreEmpty \/ store = last
  /\ \A x \in saved : store[x] = curr[x]
  /\ last /= None => MayOpen(last)
  /\ last = None /\ StoreComplete => MayOpen(store)

\* The reading of a crossing is beyond the anchor and everything stored.
CrossingAhead ==
  InCrossing =>
    /\ WindowBoundary(last.ts) < WindowBoundary(curr.ts)
    /\ Leq(last, curr)
    /\ \A w \in Stored : Leq(energyWindow[w].hi, curr)
    /\ \A w \in Captured : Leq(boundarySnapshot[w], curr)

LedgerParts ==
  /\ RowsOrdered
  /\ SnapshotsBetweenRows
  /\ NothingAboveMeter
  /\ AnchorsMayOpen
  /\ CrossingAhead

\* OrderedLedger, strengthened until every step preserves it.
LedgerInv == Intact => LedgerParts
-----------------------------------------------------------------------------
(* What holds of the anchor's place in time, whatever the meters answer: the *)
(* invariants behind the marker, the repair, the startup and the ledger's    *)
(* contiguity.                                                               *)

\* Nothing is stored for a window after that of the reading a.
Latest(a) == \A w \in Stored \cup Captured : w <= WindowBoundary(a.ts)

\* The anchor, in memory or in config_store, is in the latest window stored or
\* after it.
AnchorParts ==
  /\ pc \in {"down", "boot", "recompute"} => last = None
  /\ pc = "idle" /\ last = None => Fresh
  /\ pc /= "persist" => saved = {}
  /\ saved = {} => StoreEmpty \/ StoreComplete
  /\ saved = {} /\ last /= None => StoreEmpty \/ store = last
  /\ \A x \in saved : store[x] = curr[x]
  /\ StoreEmpty => Captured \subseteq Stored
  /\ last /= None => Latest(last)
  /\ last = None /\ StoreComplete => Latest(store)
  /\ InCrossing => WindowBoundary(last.ts) < WindowBoundary(curr.ts)

\* Unless the four writes of persist_reading are cut off or fail, no meter and
\* no fault of a crossing changes that.
AnchorIsLatest == "anchor" \notin faults => AnchorParts

\* The crossing has decided about its row and has not moved the anchor yet.
Closed == pc \in {"mark", "telemetry", "persist"}

\* MarkerNamesLatestRow, with the row the marker is about to be set to.
MarkerInv ==
  /\ pc = "mark" => ClosedWindow \in Stored
  /\ MarkerNamesLatestRow

\* The snapshots of windows before a's have their rows.
FilledBefore(a) == \A w \in Captured : w < WindowBoundary(a.ts) => w \in Stored

\* A snapshot without a row is that of the anchor's window, and the crossing
\* that leaves it stores the row.
RepairParts ==
  /\ last /= None => FilledBefore(last)
  /\ last = None /\ StoreComplete => FilledBefore(store)
  /\ Closed => Captured \subseteq Stored

\* RepairFillsTheHole, at every step.
RepairInv == faults \cap {"anchor", "write"} = {} => RepairParts

\* What startup_recompute has been through is as new as its snapshots allow.
RecomputeInv ==
  /\ pc \notin {"down", "boot"}
  /\ faults \cap {"recompute", "anchor", "orphan"} = {}
  => \A w \in StaleRows \ stale : ~HasPair(w)

\* The latest row, if there is one, is of an earlier window than the reading a
\* and ends with it.
EndsAt(a) ==
  \A w \in Stored :
    /\ w < WindowBoundary(a.ts)
    /\ (\A v \in Stored : v <= w) => energyWindow[w].hi = a

\* The rows and snapshots of an undisturbed ledger, with the reading its next
\* row will start with: the anchor, or the crossing's reading once it is closed.
ContiguousParts ==
  /\ \A v, w \in Stored : Adjacent(v, w) => energyWindow[w].lo = energyWindow[v].hi
  /\ \A w \in Captured : w \in Stored /\ energyWindow[w].hi = boundarySnapshot[w]
  /\ ~Closed => Stored = {} \/ StoreComplete
  /\ ~Closed /\ last /= None => EndsAt(last)
  /\ ~Closed /\ last = None /\ StoreComplete => EndsAt(store)
  /\ Closed => EndsAt(curr)

\* ContiguousLedger, strengthened until every step preserves it.
ContiguousInv == faults \subseteq {"mark", "recompute"} => ContiguousParts
-----------------------------------------------------------------------------
(* A replaced meter.  What was stored belongs to the old meter or to the new *)
(* one, and a window says which: rows of windows before K end with a reading *)
(* of the old meter and rows from K on with one of the new, and so snapshots *)
(* before and from L on.  The row of K itself may begin with the old one.    *)

\* The meter has counted what flowed, since it was put in.
FlowInv ==
  \A c \in Counter :
    /\ meter[c] <= flow[c]
    /\ "meter" \notin faults => meter[c] = flow[c]

\* What the old meter had counted in the end.
OldMeter == [ c \in Counter |-> flow[c] - meter[c] ]

\* The rows of either meter run forward, do not overlap and stop at what that
\* meter counted.
RowsOfMeters(K) ==
  /\ K \in Stored \/ \A w \in Windows : w < K
  /\ \A w \in Stored : Leq(energyWindow[w].hi, IF w < K THEN OldMeter ELSE meter)
  /\ \A w \in Stored \ {K} : Leq(energyWindow[w].lo, energyWindow[w].hi)
  /\ \A v, w \in Stored :
       v < w /\ (w < K \/ K <= v) => Leq(energyWindow[v].hi, energyWindow[w].lo)

\* So do the snapshots, and they fall between the rows of their meter.
SnapshotsOfMeters(K, L) ==
  /\ \A w \in Captured : Leq(boundarySnapshot[w], IF w < L THEN OldMeter ELSE meter)
  /\ \A v, w \in Captured :
       v < w /\ (w < L \/ L <= v) => Leq(boundarySnapshot[v], boundarySnapshot[w])
  /\ \A v \in Captured, w \in Stored : v < w =>
       /\ w < K => v < L
       /\ w < K \/ L <= v => Leq(boundarySnapshot[v], energyWindow[w].lo)
  /\ \A v \in Stored, w \in Captured : v <= w =>
       /\ K <= v => L <= w
       /\ w < L \/ K <= v => Leq(energyWindow[v].hi, boundarySnapshot[w])

\* The reading a, of the old meter or of the new one, may open its window:
\* what is stored of that meter for the windows before ends at or below it.  The
\* anchor is of the old meter only while nothing is stored of the new one there.
MayOpenOn(K, L, old, a) ==
  /\ Leq(a, IF old THEN OldMeter ELSE meter)
  /\ \A w \in Stored : w < WindowBoundary(a.ts) =>
       /\ old => w < K
       /\ old \/ K <= w => Leq(energyWindow[w].hi, a)
  /\ \A w \in Captured : w < WindowBoundary(a.ts) =>
       /\ old => w < L
       /\ old \/ L <= w => Leq(boundarySnapshot[w], a)

MeterParts(K, L, old) ==
  /\ RowsOfMeters(K)
  /\ SnapshotsOfMeters(K, L)
  /\ last /= None => MayOpenOn(K, L, old, last)
  /\ last = None /\ StoreComplete => MayOpenOn(K, L, old, store)
  /\ InCrossing => \A c \in Counter : curr[c] = meter[c]

\* What LedgerInv says of one meter, said of two: after the replacement what is
\* stored can be told apart.
MeterInv ==
  "meter" \in faults /\ faults \cap {"anchor", "reading", "orphan"} = {} =>
    \E K, L \in 0 .. MaxTime + 1, old \in BOOLEAN : MeterParts(K, L, old)
-----------------------------------------------------------------------------
(* Progress, without the fairness that drives it: the steps a started process *)
(* has before it run out, and until then the guard of one of them holds.      *)

\* Of the keys of the anchor those before the next one have been written.
WrittenInOrder ==
  /\ pc /= "persist" => saved = {}
  /\ saved \in { {}, {"ts"}, {"ts", "prod"}, {"ts", "prod", "imp"} }

CrossesForward == InCrossing => WindowBoundary(last.ts) < WindowBoundary(curr.ts)

\* The loop over the worklist and the four writes of the anchor can always take
\* their next turn.
TurnIsDue ==
  /\ pc = "recompute" /\ stale /= {} => \E w \in stale : NextStale(w)
  /\ pc = "persist" => \E x \in Key : NextKey(x)

\* The steps a crossing has still before it.
StepsLeft ==
  CASE pc = "window" -> 7
    [] pc = "mark" -> 6
    [] pc = "telemetry" -> 5
    [] OTHER -> IF saved = {} THEN 4
                ELSE IF saved = {"ts"} THEN 3
                ELSE IF saved = {"ts", "prod"} THEN 2 ELSE 1

\* A step in a crossing ends the process, or ends the crossing with the anchor
\* beyond its window, or leaves fewer steps of it.
CrossingRunsOut ==
  [][ InCrossing =>
        \/ pc' = "down"
        \/ pc' = "idle" /\ last' /= None /\ ClosedWindow < WindowBoundary(last'.ts)
        \/ InCrossing' /\ ClosedWindow' = ClosedWindow /\ StepsLeft' < StepsLeft ]_vars

StartingUp == pc \in {"boot", "recompute"}

\* A step of the startup ends the process, or goes on to the next stage when
\* the one before is through, or takes a row off the worklist.
StartupRunsOut ==
  [][ StartingUp =>
        \/ pc' = "down"
        \/ pc = "boot" /\ pc' = "recompute"
        \/ pc = "recompute" /\ pc' = "recompute" /\ stale' \subseteq stale /\ stale' /= stale
        \/ pc = "recompute" /\ stale = {} /\ pc' = "idle" ]_vars
=============================================================================
