---------------------------- MODULE RecomputeTool ----------------------------
(***************************************************************************)
(* Two processes that rewrite energy_window: the daemon, whose             *)
(* startup_recompute Scheduler follows statement by statement, and the     *)
(* command line tool src/src/bin/recompute_windows.rs, which an operator   *)
(* runs beside it on the same database, from a build of its own.           *)
(*                                                                         *)
(* Windows are counted, 0, 1, 2, ...: window w starts at 900 * w.  What a  *)
(* row says is reduced to the formula version it carries and what it was   *)
(* computed from: counters as they were parsed at the crossing ("typed",   *)
(* the readings themselves or the columns of a pair of snapshots), or the  *)
(* meters' JSON kept with the snapshots ("raw"), which a later build may   *)
(* parse differently.  Scheduler has the faults of a crossing; here it     *)
(* stores a row after the last one, or none.                               *)
(***************************************************************************)
EXTENDS Integers, FiniteSets

CONSTANTS
  LastWindow,  \* bound on the windows
  MaxBuild,    \* bound on CURRENT_FORMULA_VERSION over the builds in use
  Ranges,      \* the ranges an operator may give the tool
  MaxRuns,     \* bound on the runs of the tool
  None         \* an absent row, or no run of the tool

Windows == 0 .. LastWindow
Builds == 1 .. MaxBuild
Modes == {"typed", "raw"}
Row == [version : 0 .. MaxBuild, basis : Modes]

ASSUME WindowBounds == LastWindow \in Nat /\ MaxBuild \in Nat \ {0}
ASSUME RangesAssumption == Ranges \subseteq [from : Nat, to : Nat] /\ MaxRuns \in Nat
ASSUME NoneIsNoRow == None \notin Row

VARIABLES
  rows,        \* table energy_window
  snapshot,    \* table boundary_snapshot: the windows it holds
  build,       \* the daemon's build
  pc,          \* the daemon: "down", "recompute" or "idle"
  listed,      \* the rows startup_recompute has still to visit, as it read them
  tool,        \* the run of the tool in progress: its build, mode and range, and
               \* for history whether a statement of it failed, and whether a
               \* daemon of an older build ran beside it
  toolListed,  \* the rows the tool has still to visit, as it read them
  runs         \* history: how often the tool was run

tables == << rows, snapshot >>
daemon == << build, pc, listed >>
operator == << tool, toolListed, runs >>
vars == << tables, daemon, operator >>

Stored == { w \in Windows : rows[w] /= None }
RowAsRead(w) == [window |-> w, row |-> rows[w]]
Listing == [window : Windows, row : Row]

\* Slip: whatever another build computed is stale, a newer one's rows too.
IsOther(w, b) == rows[w].version > 0 /\ rows[w].version /= b

\* Slip: a row of the same version is computed again.
IsNotNewer(w, b) == rows[w].version > 0 /\ rows[w].version <= b

IsStale(w, b) == rows[w].version > 0 /\ rows[w].version < b

Recomputable == { w \in Stored : rows[w].version > 0 }
QueryStale(b) == { RowAsRead(w) : w \in { v \in Stored : IsStale(v, b) } }

\* query_pair: the snapshot of the window before, or none.
HasPair(w) == w \in snapshot /\ w - 1 \in snapshot

\* Both loops go through their list in the order of the windows.
NextOf(list) == { x \in list : \A y \in list : x.window <= y.window }

\* update_recomputed: WHERE window_start = ?, whatever the row says by now.
Update(w, b, basis) == [rows EXCEPT ![w] = [version |-> b, basis |-> basis]]

\* A database with rows of any earlier history: from before snapshots were
\* kept (version 0), and crossings of older builds; the first of those has no
\* pair.
Init ==
  /\ \E old \in 0 .. LastWindow, crossed \in 0 .. LastWindow + 1, v \in Builds :
       /\ old <= crossed
       /\ snapshot = { w \in Windows : old <= w /\ w < crossed }
       /\ rows = [ w \in Windows |->
                     IF w < old THEN [version |-> 0, basis |-> "typed"]
                     ELSE IF w < crossed THEN [version |-> v, basis |-> "typed"]
                     ELSE None ]
  /\ build \in Builds
  /\ pc = "down" /\ listed = {}
  /\ tool = None /\ toolListed = {} /\ runs = 0

-----------------------------------------------------------------------------
(* The daemon. *)

Deploy(b) ==
  /\ pc = "down" /\ b /= build
  /\ build' = b
  /\ UNCHANGED << tables, pc, listed, operator >>

\* The list is read once and kept; a query that fails leaves it empty.
Start(ok) ==
  /\ pc = "down"
  /\ pc' = "recompute"
  /\ listed' = IF ok THEN QueryStale(build) ELSE {}
  /\ tool' = IF tool = None THEN None ELSE [tool EXCEPT !.beside = @ \/ build < tool.build]
  /\ UNCHANGED << tables, build, toolListed, runs >>

Stop ==
  /\ pc /= "down"
  /\ pc' = "down" /\ listed' = {}
  /\ UNCHANGED << tables, build, operator >>

\* A row is visited: skipped without a pair, kept when a statement fails.
DaemonVisits(x, ok) ==
  /\ pc = "recompute" /\ x \in NextOf(listed)
  /\ listed' = listed \ {x}
  /\ rows' = IF ok /\ HasPair(x.window) THEN Update(x.window, build, "typed") ELSE rows
  /\ UNCHANGED << snapshot, build, pc, operator >>

DaemonReady ==
  /\ pc = "recompute" /\ listed = {}
  /\ pc' = "idle"
  /\ UNCHANGED << tables, build, listed, operator >>

\* A crossing closes a window after every stored one; windows may be left out.
\* A response too large for a snapshot leaves a row of version 0.
Cross(w, oversized) ==
  /\ pc = "idle"
  /\ \A v \in Stored : v < w
  /\ rows' = [rows EXCEPT ![w] = [version |-> IF oversized THEN 0 ELSE build,
                                  basis |-> "typed"]]
  /\ snapshot' = IF oversized THEN snapshot ELSE snapshot \cup {w}
  /\ UNCHANGED << daemon, operator >>

-----------------------------------------------------------------------------
(* The tool. *)

Options == [build : Builds, mode : Modes, range : Ranges,
            failed : BOOLEAN, beside : BOOLEAN]

ASSUME NoneIsNoRun == None \notin Options

InRange(w, range) == range.from <= w /\ w < range.to

ToolList(t) ==
  IF t.mode = "typed"
  THEN { x \in QueryStale(t.build) : InRange(x.window, t.range) }
  ELSE { RowAsRead(w) : w \in { v \in Recomputable : InRange(v, t.range) } }

\* A query that fails ends the run before it has begun.
ToolStarts(t) ==
  /\ tool = None /\ runs < MaxRuns
  /\ ~t.failed /\ t.beside = (pc /= "down" /\ build < t.build)
  /\ tool' = t
  /\ toolListed' = ToolList(t)
  /\ runs' = runs + 1
  /\ UNCHANGED << tables, daemon >>

\* Slip: a row without a pair ends the loop.
StopAtGap(x, list) == IF HasPair(x.window) THEN list \ {x} ELSE {}

Remaining(x, list) == list \ {x}

\* As the daemon's loop; in raw mode a snapshot whose JSON does not parse is
\* one more way to fail.
ToolVisits(x, ok) ==
  /\ x \in NextOf(toolListed)
  /\ toolListed' = Remaining(x, toolListed)
  /\ rows' = IF ok /\ HasPair(x.window) THEN Update(x.window, tool.build, tool.mode) ELSE rows
  /\ tool' = [tool EXCEPT !.failed = @ \/ ~ok]
  /\ UNCHANGED << snapshot, daemon, runs >>

ToolEnds ==
  /\ tool /= None /\ toolListed = {}
  /\ tool' = None
  /\ UNCHANGED << tables, daemon, toolListed, runs >>

ToolKilled ==
  /\ toolListed /= {}
  /\ tool' = None /\ toolListed' = {}
  /\ UNCHANGED << tables, daemon, runs >>

-----------------------------------------------------------------------------
DaemonWrites ==
  \/ \E x \in listed, ok \in BOOLEAN : DaemonVisits(x, ok)
  \/ \E w \in Windows, oversized \in BOOLEAN : Cross(w, oversized)

ToolWrites == \E x \in toolListed, ok \in BOOLEAN : ToolVisits(x, ok)

Next ==
  \/ \E b \in Builds : Deploy(b)
  \/ \E ok \in BOOLEAN : Start(ok)
  \/ \E t \in Options : ToolStarts(t)
  \/ Stop \/ DaemonReady \/ DaemonWrites
  \/ ToolWrites \/ ToolEnds \/ ToolKilled

Spec == Init /\ [][Next]_vars

-----------------------------------------------------------------------------
\* The variables range over what the table and the lists can hold.
TypeOK ==
  /\ rows \in [Windows -> Row \cup {None}]
  /\ snapshot \subseteq Windows
  /\ build \in Builds
  /\ pc \in {"down", "recompute", "idle"}
  /\ listed \subseteq Listing /\ (listed /= {} => pc = "recompute")
  /\ tool \in Options \cup {None}
  /\ toolListed \subseteq Listing /\ (toolListed /= {} => tool /= None)
  /\ runs \in 0 .. MaxRuns

\* The row a process is about to overwrite has changed since it read it.
Overtaken(list, w) == \E x \in list : x.window = w /\ x.row /= rows[w]

ByDaemon == DaemonWrites /\ UNCHANGED operator

\* What two writers may do to the history between them.  A version 0 row is
\* never touched.  A version falls only if the operator asked for it (the raw
\* mode of an older build rewrites newer rows too), or if the other process had
\* brought the row further after the list was read: the update names no
\* version, and the row waits for the next start of the newer build.
VersionsRise ==
  [][ \A w \in Stored :
        /\ rows[w].version = 0 => rows'[w] = rows[w]
        /\ rows'[w].version < rows[w].version =>
             IF ByDaemon THEN Overtaken(listed, w)
             ELSE tool.mode = "raw" \/ Overtaken(toolListed, w) ]_vars

\* A repair from the raw JSON lasts until a newer build: the same build's
\* startup never goes back to the typed columns, which still hold what the
\* repair was for, unless its list is older than the repair.
RawRepairsLast ==
  [][ \A w \in Stored :
        rows[w].basis = "raw" /\ rows'[w].basis /= "raw" =>
          \/ rows'[w].version > rows[w].version
          \/ IF ByDaemon THEN Overtaken(listed, w) ELSE Overtaken(toolListed, w) ]_vars

\* A typed run that ends without an error leaves no row of its range stale that
\* has a pair, whatever the daemon does meanwhile, unless its build is the older
\* one: a row without a pair is passed over and keeps none of the rest waiting.
TypedRunLeavesNothingStale ==
  [][ ToolEnds /\ tool.mode = "typed" /\ ~tool.failed /\ ~tool.beside =>
        \A w \in Stored : InRange(w, tool.range) /\ HasPair(w) => ~IsStale(w, tool.build) ]_vars
=============================================================================
