------------------------- MODULE WindowReadersProofs -------------------------
(***************************************************************************)
(* What holds of the writers of energy_window and of its readers for every *)
(* number of windows and builds, every range of the tool, every page size  *)
(* and limit.                                                              *)
(***************************************************************************)
EXTENDS WindowReaders, FiniteSetTheorems, FunctionTheorems, TLAPS

-----------------------------------------------------------------------------
(* The inductive invariant of the two writers: what a list holds is of a   *)
(* row that can be recomputed, and was of an older version when it was     *)
(* read; and what a run of the tool has still to do is on its list.        *)

ListsInv ==
  /\ \A x \in listed : x.window \in Stored /\ rows[x.window].version > 0
                       /\ x.row.version < build
  /\ \A x \in toolListed : x.window \in Stored /\ rows[x.window].version > 0
                           /\ (tool.mode = "typed" => x.row.version < tool.build)

\* A run with no older daemon beside it has a daemon of its build or a newer.
BesideInv ==
  /\ tool /= None /\ ~ tool.beside => pc = "down" \/ tool.build <= build
  /\ tool /= None /\ tool.mode = "typed" /\ ~ tool.failed /\ ~ tool.beside =>
       \A w \in Stored : InRange(w, tool.range) /\ HasPair(w) /\ IsStale(w, tool.build) =>
                           \E x \in toolListed : x.window = w

ToolInv == TypeOK /\ ListsInv /\ BesideInv

\* What a reader holds on to stays in the table.  The rows still owed to a walk
\* keep a place it has not read; the rows it has got keep one it has, unless it
\* asks for the current version.
ReadersInv ==
  /\ costed /= None => costed \subseteq Stored
  /\ walk /= None =>
       LET S == Matching(walk.filter)
       IN  /\ walk.seen \subseteq S /\ walk.owed \subseteq S
           /\ \A w \in walk.owed : walk.offset <= Place(w, S)
           /\ walk.filter /= "current" => \A w \in walk.seen : Place(w, S) < walk.offset

-----------------------------------------------------------------------------
(* The writers. *)

LEMMA ToolFacts ==
  /\ Windows \subseteq Nat /\ Builds \subseteq Nat /\ Builds \subseteq 0 .. MaxBuild
  /\ \A b \in Builds : b > 0
  BY WindowBounds DEF Windows, Builds

\* The rows a list is made of, as they were read.
LEMMA ListsAreRead ==
  ASSUME TypeOK, NEW b \in Builds
  PROVE  \A x \in QueryStale(b) :
           /\ x \in Listing /\ x.window \in Stored /\ x.row = rows[x.window]
           /\ x.row.version > 0 /\ x.row.version < b
  BY DEF TypeOK, QueryStale, RowAsRead, Listing, Stored, IsStale, Windows

LEMMA RawListsAreRead ==
  ASSUME TypeOK
  PROVE  \A w \in Recomputable :
           /\ RowAsRead(w) \in Listing /\ RowAsRead(w).window = w
           /\ w \in Stored /\ rows[w].version > 0
  BY DEF TypeOK, Recomputable, RowAsRead, Listing, Stored

LEMMA ToolListTypes ==
  ASSUME TypeOK, NEW t \in Options
  PROVE  /\ ToolList(t) \subseteq Listing
         /\ \A x \in ToolList(t) : /\ x.window \in Stored /\ rows[x.window].version > 0
                                   /\ t.mode = "typed" => x.row.version < t.build
  <1>1. t.build \in Builds
    BY DEF Options
  <1>2. CASE t.mode = "typed"
    BY <1>1, <1>2, ListsAreRead DEF ToolList
  <1>3. CASE t.mode /= "typed"
    BY <1>3, RawListsAreRead DEF ToolList
  <1> QED BY <1>2, <1>3

LEMMA UpdateIs ==
  ASSUME TypeOK, NEW w \in Windows, NEW b \in Builds, NEW basis \in Modes,
         rows' = Update(w, b, basis)
  PROVE  /\ rows' \in [Windows -> Row \cup {None}]
         /\ rows'[w] /= None /\ rows'[w].version = b /\ rows'[w].basis = basis
         /\ \A v \in Windows : v /= w => rows'[v] = rows[v]
         /\ Stored' = Stored \cup {w}
  <1>1. [version |-> b, basis |-> basis] \in Row /\ [version |-> b, basis |-> basis] /= None
    BY ToolFacts, NoneIsNoRow DEF Row
  <1> QED BY <1>1 DEF TypeOK, Update, Stored

LEMMA CrossIs ==
  ASSUME TypeOK, NEW w \in Windows, NEW oversized \in BOOLEAN, Cross(w, oversized)
  PROVE  /\ rows' \in [Windows -> Row \cup {None}]
         /\ rows'[w] /= None /\ rows'[w].version \in {0, build} /\ w \notin Stored
         /\ \A v \in Windows : v /= w => rows'[v] = rows[v]
         /\ Stored' = Stored \cup {w}
         /\ snapshot' \subseteq snapshot \cup {w}
         /\ \A v \in Stored : v < w
         /\ UNCHANGED << build, pc, listed, tool, toolListed, runs >>
  <1> DEFINE row == [version |-> IF oversized THEN 0 ELSE build, basis |-> "typed"]
  <1>1. row \in Row /\ row /= None /\ row.version \in {0, build}
    BY ToolFacts, NoneIsNoRow, WindowBounds DEF Row, Modes, TypeOK
  <1>2. rows' = [rows EXCEPT ![w] = row]
    BY DEF Cross
  <1>3. w \notin Stored
    BY ToolFacts DEF Cross
  <1> HIDE DEF row
  <1>4. /\ rows' \in [Windows -> Row \cup {None}] /\ rows'[w] = row
        /\ \A v \in Windows : v /= w => rows'[v] = rows[v]
    BY <1>1, <1>2 DEF TypeOK
  <1> QED BY <1>1, <1>3, <1>4 DEF Cross, Stored, daemon, operator

\* A visit of either loop, on the list it goes through.
LEMMA VisitIs ==
  ASSUME TypeOK, NEW x \in Listing, NEW b \in Builds, NEW basis \in Modes, NEW ok \in BOOLEAN,
         x.window \in Stored,
         rows' = IF ok /\ HasPair(x.window) THEN Update(x.window, b, basis) ELSE rows
  PROVE  /\ rows' \in [Windows -> Row \cup {None}]
         /\ Stored' = Stored
         /\ \A v \in Windows : v /= x.window => rows'[v] = rows[v]
         /\ \/ ok /\ HasPair(x.window) /\ rows'[x.window].version = b
               /\ rows'[x.window].basis = basis
            \/ ~(ok /\ HasPair(x.window)) /\ rows' = rows
  <1>1. x.window \in Windows
    BY DEF Listing
  <1>2. CASE ok /\ HasPair(x.window)
    BY <1>1, <1>2, UpdateIs
  <1>3. CASE ~(ok /\ HasPair(x.window))
    BY <1>3 DEF TypeOK, Stored
  <1> QED BY <1>2, <1>3

LEMMA ToolInit == Init => ToolInv
  <1> SUFFICES ASSUME Init PROVE ToolInv
    OBVIOUS
  <1>1. rows \in [Windows -> Row \cup {None}] /\ snapshot \subseteq Windows
    <2>1. PICK old \in 0 .. LastWindow, crossed \in 0 .. LastWindow + 1, v \in Builds :
            /\ snapshot = { w \in Windows : old <= w /\ w < crossed }
            /\ rows = [ w \in Windows |->
                          IF w < old THEN [version |-> 0, basis |-> "typed"]
                          ELSE IF w < crossed THEN [version |-> v, basis |-> "typed"]
                          ELSE None ]
      BY DEF Init
    <2>2. [version |-> 0, basis |-> "typed"] \in Row /\ [version |-> v, basis |-> "typed"] \in Row
      BY ToolFacts, WindowBounds DEF Row, Modes
    <2> QED BY <2>1, <2>2
  <1> QED BY <1>1, RangesAssumption DEF Init, ToolInv, TypeOK, ListsInv, BesideInv

LEMMA ToolTypeNext == ToolInv /\ [Next]_vars => TypeOK'
  <1> SUFFICES ASSUME ToolInv, [Next]_vars PROVE TypeOK'
    OBVIOUS
  <1> USE DEF tables, daemon, operator
  <1>0. TypeOK /\ ListsInv
    BY DEF ToolInv
  <1>1. ASSUME NEW b \in Builds, Deploy(b) PROVE TypeOK'
    BY <1>0, <1>1 DEF Deploy, TypeOK
  <1>2. ASSUME NEW ok \in BOOLEAN, Start(ok) PROVE TypeOK'
    <2>1. listed' \subseteq Listing
      BY <1>0, <1>2, ListsAreRead DEF Start, TypeOK
    <2>2. tool' \in Options \cup {None} /\ (tool' = None <=> tool = None)
      BY <1>0, <1>2, NoneIsNoRun DEF Start, TypeOK, Options
    <2> QED BY <1>0, <1>2, <2>1, <2>2 DEF Start, TypeOK
  <1>3. ASSUME NEW t \in Options, ToolStarts(t) PROVE TypeOK'
    <2>1. toolListed' \subseteq Listing /\ tool' = t /\ t /= None
      BY <1>0, <1>3, ToolListTypes, NoneIsNoRun DEF ToolStarts
    <2>2. runs' \in 0 .. MaxRuns
      BY <1>0, <1>3, RangesAssumption DEF ToolStarts, TypeOK
    <2> QED BY <1>0, <1>3, <2>1, <2>2 DEF ToolStarts, TypeOK
  <1>4. CASE Stop
    BY <1>0, <1>4 DEF Stop, TypeOK
  <1>5. CASE DaemonReady
    BY <1>0, <1>5 DEF DaemonReady, TypeOK
  <1>6. ASSUME NEW x \in listed, NEW ok \in BOOLEAN, DaemonVisits(x, ok) PROVE TypeOK'
    <2>1. x \in Listing /\ x.window \in Stored /\ build \in Builds /\ "typed" \in Modes
      BY <1>0, <1>6 DEF TypeOK, ListsInv, Modes
    <2>2. rows' \in [Windows -> Row \cup {None}]
      BY <1>0, <1>6, <2>1, VisitIs DEF DaemonVisits
    <2> QED BY <1>0, <1>6, <2>2 DEF DaemonVisits, TypeOK
  <1>7. ASSUME NEW w \in Windows, NEW oversized \in BOOLEAN, Cross(w, oversized) PROVE TypeOK'
    BY <1>0, <1>7, CrossIs DEF TypeOK
  <1>8. ASSUME NEW x \in toolListed, NEW ok \in BOOLEAN, ToolVisits(x, ok) PROVE TypeOK'
    <2>1. tool \in Options /\ tool.build \in Builds /\ tool.mode \in Modes
      BY <1>0, <1>8 DEF TypeOK, Options
    <2>2. x \in Listing /\ x.window \in Stored
      BY <1>0, <1>8 DEF TypeOK, ListsInv
    <2>3. rows' \in [Windows -> Row \cup {None}]
      BY <1>0, <1>8, <2>1, <2>2, VisitIs DEF ToolVisits
    <2>4. tool' \in Options /\ tool' /= None
      BY <1>8, <2>1, NoneIsNoRun DEF ToolVisits, Options
    <2> QED BY <1>0, <1>8, <2>3, <2>4 DEF ToolVisits, Remaining, TypeOK
  <1>9. CASE ToolEnds \/ ToolKilled
    BY <1>0, <1>9 DEF ToolEnds, ToolKilled, TypeOK
  <1>10. CASE UNCHANGED vars
    BY <1>0, <1>10 DEF vars, TypeOK
  <1> QED
    BY <1>1, <1>2, <1>3, <1>4, <1>5, <1>6, <1>7, <1>8, <1>9, <1>10
    DEF Next, DaemonWrites, ToolWrites

\* What any step does to a row: nothing stored is lost, a row of version 0 is
\* never touched, and a row that can be recomputed stays one.
LEMMA RowsKept ==
  ASSUME ToolInv, [Next]_vars
  PROVE  /\ Stored \subseteq Stored'
         /\ \A w \in Stored : rows[w].version = 0 => rows'[w] = rows[w]
         /\ \A w \in Stored : rows[w].version > 0 => rows'[w].version > 0
  <1> USE DEF tables, daemon, operator
  <1>0. TypeOK /\ ListsInv
    BY DEF ToolInv
  <1>1. ASSUME UNCHANGED rows
        PROVE  Stored' = Stored /\ \A w \in Stored : rows'[w] = rows[w]
    BY <1>1 DEF Stored
  <1>2. ASSUME NEW x \in listed, NEW ok \in BOOLEAN, DaemonVisits(x, ok)
        PROVE  /\ Stored' = Stored /\ rows[x.window].version > 0
               /\ \A w \in Stored : w /= x.window => rows'[w] = rows[w]
               /\ rows'[x.window].version > 0
    <2>1. x \in Listing /\ x.window \in Stored /\ build \in Builds /\ "typed" \in Modes
      BY <1>0 DEF TypeOK, ListsInv, Modes
    <2>2. rows[x.window].version > 0 /\ build > 0
      BY <1>0, <2>1, ToolFacts DEF ListsInv
    <2> QED BY <1>0, <1>2, <2>1, <2>2, VisitIs DEF DaemonVisits, Stored
  <1>3. ASSUME NEW w \in Windows, NEW oversized \in BOOLEAN, Cross(w, oversized)
        PROVE  /\ Stored \subseteq Stored' /\ \A v \in Stored : rows'[v] = rows[v]
    BY <1>0, <1>3, CrossIs DEF Stored
  <1>4. ASSUME NEW x \in toolListed, NEW ok \in BOOLEAN, ToolVisits(x, ok)
        PROVE  /\ Stored' = Stored /\ rows[x.window].version > 0
               /\ \A w \in Stored : w /= x.window => rows'[w] = rows[w]
               /\ rows'[x.window].version > 0
    <2>1. /\ x \in Listing /\ x.window \in Stored
          /\ tool.build \in Builds /\ tool.mode \in Modes
      BY <1>0 DEF TypeOK, ListsInv, Options
    <2>2. rows[x.window].version > 0 /\ tool.build > 0
      BY <1>0, <2>1, ToolFacts DEF ListsInv
    <2> QED BY <1>0, <1>4, <2>1, <2>2, VisitIs DEF ToolVisits, Stored
  <1>5. ASSUME Next, ~ DaemonWrites, ~ ToolWrites PROVE UNCHANGED rows
    BY <1>5 DEF Next, Deploy, Start, ToolStarts, Stop, DaemonReady, ToolEnds, ToolKilled
  <1>6. CASE DaemonWrites
    BY <1>2, <1>3, <1>6 DEF DaemonWrites
  <1>7. CASE ToolWrites
    BY <1>4, <1>7 DEF ToolWrites
  <1>8. CASE UNCHANGED vars
    BY <1>1, <1>8 DEF vars
  <1> QED BY <1>1, <1>5, <1>6, <1>7, <1>8

LEMMA ListsNext == ToolInv /\ [Next]_vars => ListsInv'
  <1> SUFFICES ASSUME ToolInv, [Next]_vars PROVE ListsInv'
    OBVIOUS
  <1> USE DEF tables, daemon, operator
  <1>0. TypeOK /\ ListsInv
    BY DEF ToolInv
  <1>1. /\ Stored \subseteq Stored'
        /\ \A w \in Stored : rows[w].version > 0 => rows'[w].version > 0
    BY RowsKept
  <1>2. ASSUME listed' \subseteq listed, listed' /= {} => build' = build,
               toolListed' \subseteq toolListed,
               toolListed' /= {} => tool'.mode = tool.mode /\ tool'.build = tool.build
        PROVE  ListsInv'
    BY <1>0, <1>1, <1>2 DEF ListsInv
  <1>3. ASSUME NEW b \in Builds, Deploy(b) PROVE ListsInv'
    BY <1>0, <1>2, <1>3 DEF Deploy, TypeOK
  <1>4. ASSUME NEW ok \in BOOLEAN, Start(ok) PROVE ListsInv'
    <2>1. \A x \in listed' : /\ x.window \in Stored /\ rows[x.window].version > 0
                             /\ x.row.version < build
      BY <1>0, <1>4, ListsAreRead DEF Start, TypeOK
    <2>2. toolListed' = toolListed /\ rows' = rows /\ build' = build
      BY <1>4 DEF Start
    <2>3. toolListed /= {} => tool'.mode = tool.mode /\ tool'.build = tool.build
      BY <1>0, <1>4 DEF Start, TypeOK, Options
    <2> QED BY <1>0, <1>1, <2>1, <2>2, <2>3 DEF ListsInv
  <1>5. ASSUME NEW t \in Options, ToolStarts(t) PROVE ListsInv'
    <2>1. /\ toolListed' = ToolList(t) /\ tool' = t
          /\ listed' = listed /\ rows' = rows /\ build' = build
      BY <1>5 DEF ToolStarts
    <2> QED BY <1>0, <1>1, <2>1, ToolListTypes DEF ListsInv
  <1>6. CASE Stop \/ DaemonReady
    BY <1>2, <1>6 DEF Stop, DaemonReady
  <1>7. ASSUME NEW x \in listed, NEW ok \in BOOLEAN, DaemonVisits(x, ok) PROVE ListsInv'
    BY <1>2, <1>7 DEF DaemonVisits
  <1>8. ASSUME NEW w \in Windows, NEW oversized \in BOOLEAN, Cross(w, oversized) PROVE ListsInv'
    BY <1>2, <1>8 DEF Cross
  <1>9. ASSUME NEW x \in toolListed, NEW ok \in BOOLEAN, ToolVisits(x, ok) PROVE ListsInv'
    <2>1. tool \in Options
      BY <1>0 DEF TypeOK
    <2> QED BY <1>2, <1>9, <2>1 DEF ToolVisits, Remaining, Options
  <1>10. CASE ToolEnds \/ ToolKilled
    BY <1>2, <1>10 DEF ToolEnds, ToolKilled
  <1>11. CASE UNCHANGED vars
    BY <1>2, <1>11 DEF vars
  <1> QED
    BY <1>3, <1>4, <1>5, <1>6, <1>7, <1>8, <1>9, <1>10, <1>11
    DEF Next, DaemonWrites, ToolWrites

LEMMA BesideNext == ToolInv /\ [Next]_vars => BesideInv'
  <1> SUFFICES ASSUME ToolInv, [Next]_vars PROVE BesideInv'
    OBVIOUS
  <1> USE DEF tables, daemon, operator
  <1>0. TypeOK /\ ListsInv /\ BesideInv /\ build \in Nat
    BY ToolFacts DEF ToolInv, TypeOK
  <1>1. tool /= None => tool \in Options /\ tool.build \in Nat /\ tool.build \in Builds
    BY <1>0, ToolFacts DEF TypeOK, Options
  <1> DEFINE Waiting(w) == \E x \in toolListed : x.window = w
             Due(w) == InRange(w, tool.range) /\ HasPair(w) /\ IsStale(w, tool.build)
  <1>2. ASSUME UNCHANGED << rows, snapshot, tool, toolListed >>,
               tool /= None /\ ~ tool.beside => pc' = "down" \/ tool.build <= build'
        PROVE  BesideInv'
    BY <1>0, <1>2 DEF BesideInv, Stored, HasPair, IsStale
  <1>3. ASSUME NEW b \in Builds, Deploy(b) PROVE BesideInv'
    BY <1>2, <1>3 DEF Deploy
  <1>4. ASSUME NEW ok \in BOOLEAN, Start(ok) PROVE BesideInv'
    <2>1. CASE tool = None
      BY <1>4, <2>1 DEF Start, BesideInv
    <2>2. CASE tool /= None
      <3>1. /\ tool'.mode = tool.mode /\ tool'.build = tool.build /\ tool'.range = tool.range
            /\ tool'.failed = tool.failed
            /\ ~ tool'.beside => ~ tool.beside /\ ~ (build < tool.build)
        BY <1>1, <1>4, <2>2 DEF Start, Options
      <3>2. UNCHANGED << rows, snapshot, toolListed, build >>
        BY <1>4 DEF Start
      <3>3. ~ tool'.beside => ~ tool.beside /\ tool.build <= build
        BY <1>0, <1>1, <2>2, <3>1
      <3> QED BY <1>0, <2>2, <3>1, <3>2, <3>3 DEF BesideInv, Stored, HasPair, IsStale
    <2> QED BY <2>1, <2>2
  <1>5. ASSUME NEW t \in Options, ToolStarts(t) PROVE BesideInv'
    <2>1. /\ tool' = t /\ toolListed' = ToolList(t) /\ t.build \in Nat
          /\ ~ t.beside => pc = "down" \/ ~ (build < t.build)
          /\ UNCHANGED << rows, snapshot, build, pc >>
      BY <1>5, ToolFacts DEF ToolStarts, Options
    <2>2. ASSUME t.mode = "typed", NEW w \in Stored, InRange(w, t.range), IsStale(w, t.build)
          PROVE  \E x \in ToolList(t) : x.window = w
      <3>1. w \in Windows
        BY DEF Stored
      <3>2. RowAsRead(w) \in QueryStale(t.build) /\ RowAsRead(w).window = w
        BY <2>2 DEF QueryStale, RowAsRead
      <3> QED BY <2>2, <3>2 DEF ToolList
    <2>3. Stored' = Stored
      BY <2>1 DEF Stored
    <2> QED BY <1>0, <2>1, <2>2, <2>3 DEF BesideInv, IsStale
  <1>6. CASE Stop \/ DaemonReady
    BY <1>0, <1>2, <1>6 DEF Stop, DaemonReady, BesideInv
  <1>7. ASSUME NEW x \in listed, NEW ok \in BOOLEAN, DaemonVisits(x, ok) PROVE BesideInv'
    <2>1. x \in Listing /\ x.window \in Stored /\ build \in Builds /\ "typed" \in Modes
      BY <1>0 DEF TypeOK, ListsInv, Modes
    <2>2. /\ Stored' = Stored
          /\ \A w \in Stored : rows'[w] = rows[w] \/ rows'[w].version = build
      BY <1>0, <1>7, <2>1, VisitIs DEF DaemonVisits, Stored
    <2>3. /\ pc = "recompute" /\ pc' = pc
          /\ UNCHANGED << snapshot, build, tool, toolListed >>
      BY <1>7 DEF DaemonVisits
    <2>4. ASSUME tool /= None, ~ tool.beside, NEW w \in Stored, IsStale(w, tool.build)'
          PROVE  IsStale(w, tool.build)
      BY <1>0, <1>1, <2>2, <2>3, <2>4 DEF BesideInv, IsStale
    <2> QED BY <1>0, <2>2, <2>3, <2>4 DEF BesideInv, HasPair
  <1>8. ASSUME NEW w \in Windows, NEW oversized \in BOOLEAN, Cross(w, oversized) PROVE BesideInv'
    <2>1. /\ Stored' = Stored \cup {w} /\ rows'[w].version \in {0, build}
          /\ \A v \in Stored : v < w /\ rows'[v] = rows[v]
          /\ snapshot' \subseteq snapshot \cup {w}
          /\ UNCHANGED << build, pc, tool, toolListed >>
      BY <1>0, <1>8, CrossIs DEF Stored
    <2>2. pc = "idle"
      BY <1>8 DEF Cross
    <2>3. ASSUME tool /= None, ~ tool.beside PROVE ~ IsStale(w, tool.build)'
      BY <1>0, <1>1, <2>1, <2>2, <2>3 DEF BesideInv, IsStale
    <2>4. \A v \in Stored : HasPair(v)' => HasPair(v)
      <3>1. \A v \in Stored : v \in Nat /\ w \in Nat
        BY ToolFacts DEF Stored
      <3>2. \A v \in Stored : v /= w /\ v - 1 /= w
        BY <2>1, <3>1
      <3> QED BY <2>1, <3>2 DEF HasPair
    <2> QED BY <1>0, <2>1, <2>3, <2>4 DEF BesideInv, IsStale
  <1>9. ASSUME NEW x \in toolListed, NEW ok \in BOOLEAN, ToolVisits(x, ok) PROVE BesideInv'
    <2>1. /\ x \in Listing /\ x.window \in Stored
          /\ tool \in Options /\ tool /= None /\ tool.build \in Builds /\ tool.mode \in Modes
      BY <1>0 DEF TypeOK, ListsInv, Options
    <2>2. /\ toolListed' = toolListed \ {x} /\ UNCHANGED << snapshot, build, pc >>
          /\ tool'.mode = tool.mode /\ tool'.build = tool.build /\ tool'.range = tool.range
          /\ tool'.beside = tool.beside /\ (~ tool'.failed => ~ tool.failed /\ ok)
      BY <1>9, <2>1 DEF ToolVisits, Remaining, Options
    <2>3. /\ Stored' = Stored
          /\ \A w \in Stored : w /= x.window => rows'[w] = rows[w]
          /\ \/ ok /\ HasPair(x.window) /\ rows'[x.window].version = tool.build
             \/ ~(ok /\ HasPair(x.window))
      BY <1>0, <1>9, <2>1, VisitIs DEF ToolVisits, Stored
    <2>4. ASSUME ~ tool'.failed, HasPair(x.window)
          PROVE  ~ IsStale(x.window, tool.build)'
      BY <1>1, <2>1, <2>2, <2>3, <2>4 DEF IsStale
    <2>5. ASSUME NEW w \in Stored, w /= x.window, Waiting(w) PROVE Waiting(w)'
      BY <2>2, <2>5
    <2> HIDE DEF Waiting
    <2>6. ASSUME tool.mode = "typed", ~ tool'.failed, ~ tool.beside, NEW w \in Stored,
                 InRange(w, tool.range), HasPair(w), IsStale(w, tool.build)'
          PROVE  Waiting(w)'
      <3>1. w /= x.window
        BY <2>4, <2>6
      <3>2. Waiting(w)
        BY <1>0, <2>1, <2>2, <2>3, <2>6, <3>1 DEF BesideInv, IsStale, Waiting
      <3> QED BY <2>5, <3>1, <3>2
    <2> QED BY <1>0, <2>1, <2>2, <2>3, <2>6 DEF BesideInv, HasPair, IsStale, Waiting
  <1>10. CASE ToolEnds \/ ToolKilled
    BY <1>10 DEF ToolEnds, ToolKilled, BesideInv
  <1>11. CASE UNCHANGED vars
    BY <1>0, <1>2, <1>11 DEF vars, BesideInv
  <1> QED
    BY <1>3, <1>4, <1>5, <1>6, <1>7, <1>8, <1>9, <1>10, <1>11
    DEF Next, DaemonWrites, ToolWrites

LEMMA ToolInvariant == Spec => []ToolInv
  <1>1. ToolInv /\ [Next]_vars => ToolInv'
    BY ToolTypeNext, ListsNext, BesideNext DEF ToolInv
  <1> QED BY <1>1, ToolInit, PTL DEF Spec

-----------------------------------------------------------------------------
(* What the writers may do to the history between them.                    *)

\* A statement of the other process cannot pass for one of the daemon's: the
\* tool's list shrinks by every visit of its own.
LEMMA WhoWrites ==
  ASSUME ToolInv, [Next]_vars
  PROVE  \/ UNCHANGED rows
         \/ /\ ByDaemon
            /\ \/ \E x \in listed, ok \in BOOLEAN : DaemonVisits(x, ok)
               \/ \E w \in Windows, oversized \in BOOLEAN : Cross(w, oversized)
         \/ ~ ByDaemon /\ \E x \in toolListed, ok \in BOOLEAN : ToolVisits(x, ok)
  <1>1. ASSUME NEW x \in toolListed, NEW ok \in BOOLEAN, ToolVisits(x, ok)
        PROVE  ~ ByDaemon
    BY <1>1 DEF ToolVisits, Remaining, ByDaemon, operator
  <1>2. ASSUME NEW x \in listed, NEW ok \in BOOLEAN, DaemonVisits(x, ok)
        PROVE  ByDaemon
    BY <1>2 DEF ByDaemon, DaemonWrites, DaemonVisits, operator
  <1>3. ASSUME NEW w \in Windows, NEW oversized \in BOOLEAN, Cross(w, oversized)
        PROVE  ByDaemon
    BY <1>3 DEF ByDaemon, DaemonWrites, Cross, operator
  <1>4. ASSUME Next, ~ DaemonWrites, ~ ToolWrites PROVE UNCHANGED rows
    BY <1>4 DEF Next, Deploy, Start, ToolStarts, Stop, DaemonReady, ToolEnds, ToolKilled,
                tables
  <1>5. CASE UNCHANGED vars
    BY <1>5 DEF vars, tables
  <1> QED BY <1>1, <1>2, <1>3, <1>4, <1>5 DEF DaemonWrites, ToolWrites

\* One visit of a list whose rows were of an older version when they were read.
LEMMA VisitsWrite ==
  ASSUME TypeOK, NEW x \in Listing, NEW b \in Builds, NEW basis \in Modes, NEW ok \in BOOLEAN,
         x.window \in Stored,
         rows' = IF ok /\ HasPair(x.window) THEN Update(x.window, b, basis) ELSE rows,
         NEW w \in Stored
  PROVE  /\ \/ rows'[w] = rows[w]
            \/ x.window = w /\ rows'[w].version = b /\ rows'[w].basis = basis
         /\ rows[w].version \in Nat /\ x.row.version \in Nat /\ b \in Nat
  <1>1. w \in Windows /\ rows[w] \in Row
    BY DEF TypeOK, Stored
  <1>2. rows[w].version \in Nat /\ x.row.version \in Nat /\ b \in Nat
    BY <1>1, ToolFacts, WindowBounds DEF Row, Listing
  <1>3. \/ rows' = rows
        \/ /\ rows'[x.window].version = b /\ rows'[x.window].basis = basis
           /\ \A v \in Windows : v /= x.window => rows'[v] = rows[v]
    BY VisitIs
  <1>4. \/ rows'[w] = rows[w]
        \/ x.window = w /\ rows'[w].version = b /\ rows'[w].basis = basis
    BY <1>1, <1>3
  <1> QED BY <1>2, <1>4

LEMMA VersionsStep ==
  ToolInv /\ [Next]_vars =>
    \A w \in Stored :
      /\ rows[w].version = 0 => rows'[w] = rows[w]
      /\ rows'[w].version < rows[w].version =>
           IF ByDaemon THEN Overtaken(listed, w)
           ELSE tool.mode = "raw" \/ Overtaken(toolListed, w)
  <1> SUFFICES ASSUME ToolInv, [Next]_vars, NEW w \in Stored,
                      rows'[w].version < rows[w].version
               PROVE  IF ByDaemon THEN Overtaken(listed, w)
                      ELSE tool.mode = "raw" \/ Overtaken(toolListed, w)
    BY RowsKept
  <1>0. TypeOK /\ ListsInv /\ w \in Windows /\ rows[w] \in Row /\ rows[w].version \in Nat
    BY WindowBounds DEF ToolInv, TypeOK, Stored, Row
  <1>1. rows'[w] /= rows[w]
    BY <1>0
  <1>2. ASSUME NEW x \in listed, NEW ok \in BOOLEAN, DaemonVisits(x, ok)
        PROVE  Overtaken(listed, w)
    <2>1. x \in Listing /\ x.window \in Stored /\ build \in Builds /\ "typed" \in Modes
      BY <1>0 DEF TypeOK, ListsInv, Modes
    <2>2. /\ rows'[w].version = build /\ x.window = w
          /\ x.row.version \in Nat /\ build \in Nat
      BY <1>0, <1>1, <1>2, <2>1, VisitsWrite DEF DaemonVisits
    <2>3. x.row.version < build
      BY <1>0 DEF ListsInv
    <2> QED BY <1>0, <2>2, <2>3 DEF Overtaken
  <1>3. ASSUME NEW v \in Windows, NEW oversized \in BOOLEAN, Cross(v, oversized) PROVE FALSE
    BY <1>0, <1>1, <1>3, CrossIs
  <1>4. ASSUME NEW x \in toolListed, NEW ok \in BOOLEAN, ToolVisits(x, ok), tool.mode /= "raw"
        PROVE  Overtaken(toolListed, w)
    <2>1. /\ x \in Listing /\ x.window \in Stored
          /\ tool.build \in Builds /\ tool.mode \in Modes /\ tool.mode = "typed"
      BY <1>0, <1>4 DEF TypeOK, ListsInv, Options, Modes
    <2>2. /\ rows'[w].version = tool.build /\ x.window = w
          /\ x.row.version \in Nat /\ tool.build \in Nat
      BY <1>0, <1>1, <1>4, <2>1, VisitsWrite DEF ToolVisits
    <2>3. x.row.version < tool.build
      BY <1>0, <2>1 DEF ListsInv
    <2> QED BY <1>0, <2>2, <2>3 DEF Overtaken
  <1> QED BY <1>1, <1>2, <1>3, <1>4, WhoWrites

\* A version falls only where the operator asks for it or a list has been
\* overtaken by the other process, and rows of version 0 are never touched.
THEOREM VersionsOnlyRise == Spec => VersionsRise
  <1>1. ToolInv /\ [Next]_vars =>
          [ \A w \in Stored :
              /\ rows[w].version = 0 => rows'[w] = rows[w]
              /\ rows'[w].version < rows[w].version =>
                   IF ByDaemon THEN Overtaken(listed, w)
                   ELSE tool.mode = "raw" \/ Overtaken(toolListed, w) ]_vars
    BY VersionsStep
  <1> QED BY <1>1, ToolInvariant, PTL DEF Spec, VersionsRise

LEMMA RepairsStep ==
  ToolInv /\ [Next]_vars =>
    \A w \in Stored :
      rows[w].basis = "raw" /\ rows'[w].basis /= "raw" =>
        \/ rows'[w].version > rows[w].version
        \/ IF ByDaemon THEN Overtaken(listed, w) ELSE Overtaken(toolListed, w)
  <1> SUFFICES ASSUME ToolInv, [Next]_vars, NEW w \in Stored,
                      rows[w].basis = "raw", rows'[w].basis /= "raw",
                      ~ (rows'[w].version > rows[w].version)
               PROVE  IF ByDaemon THEN Overtaken(listed, w) ELSE Overtaken(toolListed, w)
    OBVIOUS
  <1>0. TypeOK /\ ListsInv /\ w \in Windows /\ rows[w] \in Row /\ rows[w].version \in Nat
    BY WindowBounds DEF ToolInv, TypeOK, Stored, Row
  <1>1. rows'[w] /= rows[w]
    OBVIOUS
  <1>2. ASSUME NEW x \in listed, NEW ok \in BOOLEAN, DaemonVisits(x, ok)
        PROVE  Overtaken(listed, w)
    <2>1. x \in Listing /\ x.window \in Stored /\ build \in Builds /\ "typed" \in Modes
      BY <1>0 DEF TypeOK, ListsInv, Modes
    <2>2. /\ rows'[w].version = build /\ x.window = w
          /\ x.row.version \in Nat /\ build \in Nat
      BY <1>0, <1>1, <1>2, <2>1, VisitsWrite DEF DaemonVisits
    <2>3. x.row.version < build
      BY <1>0 DEF ListsInv
    <2> QED BY <1>0, <2>2, <2>3 DEF Overtaken
  <1>3. ASSUME NEW v \in Windows, NEW oversized \in BOOLEAN, Cross(v, oversized) PROVE FALSE
    BY <1>0, <1>1, <1>3, CrossIs
  <1>4. ASSUME NEW x \in toolListed, NEW ok \in BOOLEAN, ToolVisits(x, ok)
        PROVE  Overtaken(toolListed, w)
    <2>1. /\ x \in Listing /\ x.window \in Stored
          /\ tool.build \in Builds /\ tool.mode \in Modes
      BY <1>0, <1>4 DEF TypeOK, ListsInv, Options, Modes
    <2>2. /\ rows'[w].version = tool.build /\ x.window = w /\ rows'[w].basis = tool.mode
          /\ x.row.version \in Nat /\ tool.build \in Nat
      BY <1>0, <1>1, <1>4, <2>1, VisitsWrite DEF ToolVisits
    <2>3. x.row.version < tool.build
      BY <1>0, <2>1, <2>2 DEF ListsInv, Modes
    <2> QED BY <1>0, <2>2, <2>3 DEF Overtaken
  <1> QED BY <1>1, <1>2, <1>3, <1>4, WhoWrites

\* A repair from the raw JSON is undone only by a newer build or by a list read
\* before it.
THEOREM RepairsLast == Spec => RawRepairsLast
  <1>1. ToolInv /\ [Next]_vars =>
          [ \A w \in Stored :
              rows[w].basis = "raw" /\ rows'[w].basis /= "raw" =>
                \/ rows'[w].version > rows[w].version
                \/ IF ByDaemon THEN Overtaken(listed, w) ELSE Overtaken(toolListed, w) ]_vars
    BY RepairsStep
  <1> QED BY <1>1, ToolInvariant, PTL DEF Spec, RawRepairsLast

\* A typed run that ends without an error has done what it was started for.
THEOREM TypedRunsComplete == Spec => TypedRunLeavesNothingStale
  <1>1. ToolInv /\ [Next]_vars =>
          [ ToolEnds /\ tool.mode = "typed" /\ ~tool.failed /\ ~tool.beside =>
              \A w \in Stored : InRange(w, tool.range) /\ HasPair(w)
                                  => ~IsStale(w, tool.build) ]_vars
    BY DEF ToolInv, BesideInv, ToolEnds
  <1> QED BY <1>1, ToolInvariant, PTL DEF Spec, TypedRunLeavesNothingStale

-----------------------------------------------------------------------------
(* Pages.  The places of the rows of a finite set of windows are the       *)
(* numbers below its size, so that a page short of rows is the last one.   *)

LEMMA WindowSets ==
  ASSUME NEW S \in SUBSET Windows
  PROVE  IsFiniteSet(S) /\ Cardinality(S) \in Nat
  <1>1. IsFiniteSet(Windows)
    BY FS_Interval, WindowBounds DEF Windows
  <1> QED BY <1>1, FS_Subset, FS_CardinalityType

LEMMA PlaceType ==
  ASSUME NEW S \in SUBSET Windows, NEW w \in Windows
  PROVE  Place(w, S) \in Nat
  BY WindowSets DEF Place

\* Rows added to a set move no row forward, and those behind a row not at all.
LEMMA PlacesGrow ==
  ASSUME NEW S \in SUBSET Windows, NEW T \in SUBSET Windows, S \subseteq T, NEW w \in Windows
  PROVE  /\ Place(w, S) <= Place(w, T)
         /\ (\A v \in T \ S : w <= v) => Place(w, S) = Place(w, T)
  <1> DEFINE A == { v \in S : v < w }
             B == { v \in T : v < w }
  <1>1. A \subseteq B /\ IsFiniteSet(B)
    BY WindowSets
  <1>2. Cardinality(A) <= Cardinality(B)
    BY <1>1, FS_Subset
  <1>3. ASSUME \A v \in T \ S : w <= v PROVE A = B
    <2>1. w \in Nat /\ \A v \in T : v \in Nat
      BY ToolFacts
    <2>2. ASSUME NEW v \in T, v < w PROVE v \in S
      <3>1. CASE v \in T \ S
        BY <1>3, <2>1, <2>2, <3>1
      <3> QED BY <2>2, <3>1
    <2> QED BY <1>1, <2>2
  <1> QED BY <1>2, <1>3 DEF Place

LEMMA PlacesRise ==
  ASSUME NEW S \in SUBSET Windows, NEW v \in S, NEW w \in S, v < w
  PROVE  Place(v, S) < Place(w, S)
  <1> DEFINE A == { u \in S : u < v }
             B == { u \in S : u < w }
  <1>1. A \subseteq B /\ v \in B /\ v \notin A
    <2>1. v \in Nat /\ w \in Nat /\ \A u \in S : u \in Nat
      BY ToolFacts
    <2>2. \A u \in S : u < v => u < w
      BY <2>1
    <2>3. ~ (v < v)
      BY <2>1
    <2> QED BY <2>2, <2>3
  <1>2. IsFiniteSet(B) /\ Cardinality(B) \in Nat /\ Cardinality(A) \in Nat
    BY WindowSets
  <1>3. Cardinality(A) <= Cardinality(B) /\ Cardinality(A) /= Cardinality(B)
    <2> HIDE DEF A, B
    <2> QED BY <1>1, <1>2, FS_Subset
  <1>4. Cardinality(A) < Cardinality(B)
    <2> HIDE DEF A, B
    <2> QED BY <1>2, <1>3
  <1> QED BY <1>4 DEF Place

LEMMA PlacesFill ==
  ASSUME NEW S \in SUBSET Windows
  PROVE  /\ \A w \in S : Place(w, S) \in 0 .. Cardinality(S) - 1
         /\ \A k \in 0 .. Cardinality(S) - 1 : \E w \in S : Place(w, S) = k
  <1> DEFINE n == Cardinality(S)
             T == 0 .. n - 1
             f == [ w \in S |-> Place(w, S) ]
  <1>1. IsFiniteSet(S) /\ n \in Nat
    BY WindowSets
  <1>2. ASSUME NEW w \in S PROVE Place(w, S) \in T
    <2> DEFINE A == { v \in S : v < w }
    <2>1. A \subseteq S /\ w \notin A
      BY ToolFacts
    <2>2. Cardinality(A) \in Nat /\ Cardinality(A) <= n /\ Cardinality(A) /= n
      <3>1. IsFiniteSet(A) /\ Cardinality(A) \in Nat
        BY WindowSets
      <3> HIDE DEF A
      <3> QED BY <1>1, <1>2, <2>1, <3>1, FS_Subset
    <2>3. Cardinality(A) \in T
      <3> HIDE DEF A, n
      <3> QED BY <1>1, <2>2
    <2> QED BY <2>3 DEF Place
  <1>3. IsFiniteSet(T) /\ Cardinality(T) = n
    <2> HIDE DEF n
    <2> QED BY <1>1, FS_Interval
  <1>4. f \in [S -> T] /\ \A a, b \in S : f[a] = f[b] => a = b
    <2>1. f \in [S -> T]
      BY <1>2
    <2>2. ASSUME NEW a \in S, NEW b \in S, f[a] = f[b] PROVE a = b
      <3>1. Place(a, S) = Place(b, S) /\ a \in Nat /\ b \in Nat
        BY <2>2, ToolFacts
      <3>2. Place(a, S) \in Nat
        BY PlaceType
      <3>3. ~ (a < b) /\ ~ (b < a)
        BY <3>1, <3>2, PlacesRise
      <3> QED BY <3>1, <3>3
    <2> QED BY <2>1, <2>2
  <1>5. f \in Surjection(S, T)
    <2> HIDE DEF f, T, n
    <2>1. f \in Injection(S, T)
      BY <1>4, Fun_IsInj
    <2> QED BY <1>1, <1>3, <2>1, FS_Injection DEF n
  <1>6. \A k \in T : \E w \in S : f[w] = k
    <2> HIDE DEF f, T
    <2> QED BY <1>5, Fun_SurjectionProperties
  <1> QED BY <1>2, <1>6

\* A page with rows behind it is full.
LEMMA PagesFill ==
  ASSUME NEW S \in SUBSET Windows, NEW offset \in Nat, NEW w \in S,
         offset + PageSize <= Place(w, S)
  PROVE  ~ (Cardinality(Page(S, PageSize, offset)) < PageSize)
  <1> DEFINE P == Page(S, PageSize, offset)
             T == offset .. offset + PageSize - 1
             f == [ v \in P |-> Place(v, S) ]
  <1>1. PageSize \in Nat /\ PageSize > 0
    BY LimitsAssumption
  <1>2. P \subseteq S /\ IsFiniteSet(P) /\ Cardinality(P) \in Nat
    BY WindowSets DEF Page
  <1>3. f \in [P -> T]
    <2>1. \A v \in P : /\ Place(v, S) \in Nat
                       /\ offset <= Place(v, S) /\ Place(v, S) < offset + PageSize
      BY PlaceType DEF Page
    <2> QED BY <1>1, <2>1
  <1>4. \A k \in T : \E v \in P : f[v] = k
    <2> SUFFICES ASSUME NEW k \in T PROVE \E v \in P : Place(v, S) = k
      OBVIOUS
    <2>1. Place(w, S) \in 0 .. Cardinality(S) - 1 /\ Cardinality(S) \in Nat
      BY PlacesFill, WindowSets
    <2>2. k \in 0 .. Cardinality(S) - 1
      BY <1>1, <2>1
    <2>3. PICK v \in S : Place(v, S) = k
      BY <2>2, PlacesFill
    <2>4. offset <= k /\ k < offset + PageSize
      BY <1>1
    <2> QED BY <2>3, <2>4 DEF Page
  <1> HIDE DEF f, P, T
  <1>5. f \in Surjection(P, T)
    BY <1>3, <1>4, Fun_IsSurj
  <1>6. Cardinality(T) <= Cardinality(P)
    BY <1>2, <1>5, FS_Surjection
  <1>7. Cardinality(T) = PageSize
    BY <1>1, FS_Interval DEF T
  <1> QED BY <1>1, <1>2, <1>6, <1>7 DEF P

\* Up to its limit a read from the start returns everything.
LEMMA WholePage ==
  ASSUME NEW S \in SUBSET Windows, NEW limit \in Nat, Cardinality(S) <= limit
  PROVE  Page(S, limit, 0) = S
  <1>1. \A w \in S : 0 <= Place(w, S) /\ Place(w, S) < 0 + limit
    BY PlacesFill, WindowSets
  <1> QED BY <1>1 DEF Page

-----------------------------------------------------------------------------
(* The readers. *)

LEMMA ReadersSteps ==
  [WriterStep \/ ReaderStep]_allVars => [Next]_vars
  BY DEF WriterStep, ReaderStep, WalkBegins, ReadPage, ReadCurrent, Answer, allVars

\* The readers leave the writers alone: what holds of the tool and the daemon
\* holds of them with the readers.
THEOREM ReadersOnlyRead == ReadersSpec => Spec
  BY ReadersSteps, PTL DEF ReadersSpec, ReadersInit, Spec

AllInv == ToolInv /\ ReadersTypeOK /\ ReadersInv

LEMMA MatchingTypes ==
  ASSUME NEW filter
  PROVE  /\ Matching(filter) \subseteq Stored /\ Matching(filter) \in SUBSET Windows
         /\ Matching("all") = Stored
  BY DEF Matching, MatchingIn, Stored

\* How the rows of a filter change under a walk that is followed.
LEMMA MatchingGrows ==
  ASSUME ToolInv, [Next]_vars, NEW filter \in {"all", "recomputable"}
  PROVE  /\ Matching(filter) \subseteq Matching(filter)'
         /\ \A v \in Matching(filter)' \ Matching(filter), w \in Matching(filter) : w <= v
  <1>0. TypeOK
    BY DEF ToolInv
  <1>1. Matching(filter) \subseteq Matching(filter)'
    BY RowsKept DEF Matching, MatchingIn, Stored
  <1>2. ASSUME NEW v \in Matching(filter)' \ Matching(filter), NEW w \in Matching(filter)
        PROVE  w <= v
    <2>1. v \in Windows /\ w \in Stored /\ w \in Nat /\ v \in Nat
      BY ToolFacts DEF Matching, MatchingIn, Stored
    <2>2. v \notin Stored
      <3>1. CASE v \in Stored
        <4>1. rows[v].version = 0 /\ rows'[v] = rows[v]
          <5>1. filter = "recomputable" /\ ~ (rows[v].version > 0)
            BY <1>2, <3>1 DEF Matching, MatchingIn, Stored
          <5>2. rows[v].version \in Nat
            BY <1>0, <3>1, WindowBounds DEF TypeOK, Stored, Row
          <5>3. rows[v].version = 0
            BY <5>1, <5>2
          <5> QED BY <3>1, <5>3, RowsKept
        <4> QED BY <1>2, <2>1, <4>1 DEF Matching, MatchingIn
      <3> QED BY <3>1
    <2>3. rows'[v] /= None /\ rows[v] = None
      BY <1>2, <2>1, <2>2 DEF Matching, MatchingIn, Stored
    <2>4. PICK u \in Windows, oversized \in BOOLEAN : Cross(u, oversized)
      <3>1. rows' /= rows /\ Stored' /= Stored
        BY <2>1, <2>2, <2>3 DEF Stored
      <3>2. ASSUME NEW x \in listed, NEW ok \in BOOLEAN, DaemonVisits(x, ok) PROVE FALSE
        <4>1. x \in Listing /\ x.window \in Stored /\ build \in Builds /\ "typed" \in Modes
          BY <1>0 DEF ToolInv, TypeOK, ListsInv, Modes
        <4> QED BY <1>0, <3>1, <3>2, <4>1, VisitIs DEF DaemonVisits
      <3>3. ASSUME NEW x \in toolListed, NEW ok \in BOOLEAN, ToolVisits(x, ok) PROVE FALSE
        <4>1. /\ x \in Listing /\ x.window \in Stored
              /\ tool.build \in Builds /\ tool.mode \in Modes
          BY <1>0 DEF ToolInv, TypeOK, ListsInv, Options
        <4> QED BY <1>0, <3>1, <3>3, <4>1, VisitIs DEF ToolVisits
      <3> QED BY <3>1, <3>2, <3>3, WhoWrites
    <2>5. v = u /\ w < u
      BY <1>0, <2>1, <2>3, <2>4, CrossIs
    <2> QED BY <2>1, <2>5
  <1> QED BY <1>1, <1>2

LEMMA ReadersInitInv == ReadersInit => AllInv
  BY ToolInit DEF ReadersInit, AllInv, ToolInv, ReadersTypeOK, ReadersInv

\* A writer's step under a walk and an estimate.
LEMMA WritersKeepReaders == AllInv /\ WriterStep => ReadersTypeOK' /\ ReadersInv'
  <1> SUFFICES ASSUME AllInv, WriterStep PROVE ReadersTypeOK' /\ ReadersInv'
    OBVIOUS
  <1>1. ToolInv /\ [Next]_vars /\ TypeOK'
    BY ToolTypeNext DEF AllInv, WriterStep
  <1>2. costed' = None \/ (costed' = costed /\ Stored \subseteq Stored')
    BY <1>1, RowsKept DEF WriterStep
  <1>3. \/ walk' = None
        \/ /\ walk' = walk /\ walk /= None
           /\ Matching(walk.filter) \subseteq Matching(walk.filter)'
    BY DEF WriterStep, Witnessed, Matching
  <1>4. ReadersTypeOK'
    BY <1>1, <1>2, <1>3 DEF AllInv, ReadersTypeOK
  <1>5. costed' /= None => costed' \subseteq Stored'
    BY <1>2 DEF AllInv, ReadersInv
  <1>6. ASSUME walk' /= None
        PROVE  LET S == Matching(walk.filter)'
               IN  /\ walk.seen \subseteq S /\ walk.owed \subseteq S
                   /\ \A w \in walk.owed : walk.offset <= Place(w, S)
                   /\ walk.filter /= "current" => \A w \in walk.seen : Place(w, S) < walk.offset
    <2> DEFINE S == Matching(walk.filter)
               T == Matching(walk.filter)'
    <2>1. /\ S \in SUBSET Windows /\ T \in SUBSET Windows /\ S \subseteq T
          /\ walk.offset \in Nat /\ walk.filter \in Filters
      BY <1>3, <1>6 DEF AllInv, ReadersTypeOK, Walks, Matching, MatchingIn
    <2>2. /\ walk.seen \subseteq S /\ walk.owed \subseteq S
          /\ \A w \in walk.owed : walk.offset <= Place(w, S)
          /\ walk.filter /= "current" => \A w \in walk.seen : Place(w, S) < walk.offset
      BY <1>3, <1>6 DEF AllInv, ReadersInv
    <2>3. walk.filter /= "current" => \A v \in T \ S, w \in S : w <= v
      <3>1. PICK filter \in Filters : filter = walk.filter
        BY <2>1
      <3>2. S = Matching(filter) /\ T = Matching(filter)'
        BY <1>3, <1>6, <3>1 DEF Matching
      <3>3. filter /= "current" => \A v \in Matching(filter)' \ Matching(filter),
                                     w \in Matching(filter) : w <= v
        BY <1>1, MatchingGrows DEF Filters
      <3> QED BY <3>1, <3>2, <3>3
    <2> HIDE DEF S, T
    <2>4. \A w \in walk.owed : walk.offset <= Place(w, T)
      <3> SUFFICES ASSUME NEW w \in walk.owed PROVE walk.offset <= Place(w, T)
        OBVIOUS
      <3>1. w \in Windows /\ walk.offset <= Place(w, S)
        BY <2>1, <2>2
      <3>2. Place(w, S) <= Place(w, T) /\ Place(w, S) \in Nat /\ Place(w, T) \in Nat
        BY <2>1, <3>1, PlacesGrow, PlaceType
      <3> QED BY <2>1, <3>1, <3>2
    <2>5. walk.filter /= "current" => \A w \in walk.seen : Place(w, T) < walk.offset
      <3> SUFFICES ASSUME walk.filter /= "current", NEW w \in walk.seen
                   PROVE  Place(w, T) < walk.offset
        OBVIOUS
      <3>1. w \in Windows /\ Place(w, S) < walk.offset /\ \A v \in T \ S : w <= v
        BY <2>1, <2>2, <2>3
      <3>2. Place(w, T) = Place(w, S)
        BY <2>1, <3>1, PlacesGrow
      <3> QED BY <3>1, <3>2
    <2> QED BY <2>1, <2>2, <2>4, <2>5 DEF T
  <1>7. ReadersInv'
    BY <1>3, <1>5, <1>6 DEF ReadersInv
  <1> QED BY <1>4, <1>7

\* What a page gives the client, whose place in the walk is known.
LEMMA PageDelivers ==
  ASSUME ReadersTypeOK, ReadersInv, ReadPage
  PROVE  /\ walk.filter /= "current" => walk.seen \cap NextPage = {}
         /\ Cardinality(NextPage) < PageSize => walk.owed \subseteq NextPage
         /\ \A w \in walk.owed \ NextPage :
              walk.offset + PageSize <= Place(w, Matching(walk.filter))
  <1> DEFINE S == Matching(walk.filter)
  <1>1. /\ S \in SUBSET Windows /\ walk.offset \in Nat /\ PageSize \in Nat
        /\ walk.seen \subseteq S /\ walk.owed \subseteq S
        /\ \A w \in walk.owed : walk.offset <= Place(w, S)
        /\ walk.filter /= "current" => \A w \in walk.seen : Place(w, S) < walk.offset
    BY LimitsAssumption
    DEF ReadPage, ReadersTypeOK, ReadersInv, Walks, Matching, MatchingIn
  <1>2. NextPage = { w \in S : walk.offset <= Place(w, S) /\ Place(w, S) < walk.offset + PageSize }
    BY DEF NextPage, Page
  <1>3. NextPage = Page(S, PageSize, walk.offset)
    BY DEF NextPage
  <1> HIDE DEF S
  <1>4. \A w \in S : Place(w, S) \in Nat
    BY <1>1, PlaceType
  <1>5. walk.filter /= "current" => walk.seen \cap NextPage = {}
    <2> SUFFICES ASSUME walk.filter /= "current", NEW w \in walk.seen, w \in NextPage
                 PROVE  FALSE
      OBVIOUS
    <2>1. Place(w, S) < walk.offset /\ walk.offset <= Place(w, S) /\ Place(w, S) \in Nat
      BY <1>1, <1>2, <1>4
    <2> QED BY <1>1, <2>1
  <1>6. \A w \in walk.owed \ NextPage : walk.offset + PageSize <= Place(w, S)
    <2> SUFFICES ASSUME NEW w \in walk.owed \ NextPage
                 PROVE  walk.offset + PageSize <= Place(w, S)
      OBVIOUS
    <2>1. Place(w, S) \in Nat /\ ~ (Place(w, S) < walk.offset + PageSize)
      BY <1>1, <1>2, <1>4
    <2> QED BY <1>1, <2>1
  <1>7. Cardinality(NextPage) < PageSize => walk.owed \subseteq NextPage
    BY <1>1, <1>3, <1>6, PagesFill
  <1> QED BY <1>5, <1>6, <1>7 DEF S

LEMMA WalkGoesOn ==
  ASSUME NEW k \in Walks, NEW page \in SUBSET Windows
  PROVE  [k EXCEPT !.offset = @ + PageSize, !.seen = @ \cup page, !.owed = @ \ page] \in Walks
  <1>1. /\ k.offset + PageSize \in Nat /\ k.seen \cup page \in SUBSET Windows
        /\ k.owed \ page \in SUBSET Windows
    BY LimitsAssumption DEF Walks
  <1> DEFINE a == k.offset + PageSize
             b == k.seen \cup page
             c == k.owed \ page
             k1 == [k EXCEPT !.offset = a]
             k2 == [k1 EXCEPT !.seen = b]
  <1>2. k1 \in Walks
    BY <1>1 DEF Walks
  <1>3. k2 \in Walks
    <2> HIDE DEF k1
    <2> QED BY <1>1, <1>2 DEF Walks
  <1>4. [k2 EXCEPT !.owed = c] \in Walks
    <2> HIDE DEF k2
    <2> QED BY <1>1, <1>3 DEF Walks
  <1>5. [k EXCEPT !.offset = a, !.seen = b, !.owed = c] = [k2 EXCEPT !.owed = c]
    <2> HIDE DEF a, b, c
    <2> QED OBVIOUS
  <1> QED BY <1>4, <1>5

LEMMA ReadersKeepReaders ==
  AllInv /\ (ReaderStep \/ UNCHANGED allVars) => ReadersTypeOK' /\ ReadersInv'
  <1> SUFFICES ASSUME AllInv, ReaderStep \/ UNCHANGED allVars
               PROVE  ReadersTypeOK' /\ ReadersInv'
    OBVIOUS
  <1> USE DEF AllInv
  <1>1. UNCHANGED vars
    BY DEF ReaderStep, WalkBegins, ReadPage, ReadCurrent, Answer, allVars
  <1>2. TypeOK' /\ Stored' = Stored
    BY <1>1 DEF vars, tables, daemon, operator, ReadersTypeOK, TypeOK, Stored, Listing
  <1>3. \A filter, w : /\ Matching(filter)' = Matching(filter)
                       /\ Place(w, Matching(filter))' = Place(w, Matching(filter))
    BY <1>1 DEF vars, tables, daemon, Matching, MatchingIn, Place
  <1>4. ASSUME NEW filter \in Filters, WalkBegins(filter) PROVE ReadersTypeOK' /\ ReadersInv'
    <2>1. /\ walk' = [filter |-> filter, offset |-> 0, seen |-> {}, owed |-> Matching(filter)]
          /\ costed' = costed
      BY <1>4 DEF WalkBegins
    <2>2. Matching(filter) \in SUBSET Windows /\ \A w \in Matching(filter) : 0 <= Place(w, Matching(filter))
      BY MatchingTypes, PlaceType
    <2>3. walk' \in Walks /\ walk'.owed \cap walk'.seen = {}
      BY <2>1, <2>2 DEF Walks
    <2>4. ReadersTypeOK'
      BY <1>2, <2>1, <2>3 DEF ReadersTypeOK
    <2>5. Matching(walk.filter)' = Matching(filter)
      BY <1>1, <2>1 DEF vars, tables, daemon, Matching, MatchingIn
    <2>6. ReadersInv'
      BY <1>2, <2>1, <2>2, <2>5 DEF ReadersInv, Place
    <2> QED BY <2>4, <2>6
  <1>5. CASE ReadPage
    <2>1. CASE walk' = None
      BY <1>2, <1>5, <2>1 DEF ReadPage, ReadersTypeOK, ReadersInv
    <2>2. CASE walk' /= None
      <3> DEFINE S == Matching(walk.filter)
      <3>1. /\ walk' = [walk EXCEPT !.offset = @ + PageSize, !.seen = @ \cup NextPage,
                                    !.owed = @ \ NextPage]
            /\ walk \in Walks /\ costed' = costed
        BY <1>5, <2>2 DEF ReadPage, ReadersTypeOK
      <3>2. /\ walk'.filter = walk.filter /\ walk'.offset = walk.offset + PageSize
            /\ walk'.seen = walk.seen \cup NextPage /\ walk'.owed = walk.owed \ NextPage
        BY <3>1 DEF Walks
      <3>3. /\ NextPage \subseteq S /\ S \in SUBSET Windows
            /\ \A w \in NextPage : Place(w, S) < walk.offset + PageSize
        BY DEF NextPage, Page, Matching, MatchingIn
      <3>4. walk' \in Walks
        <4>1. NextPage \in SUBSET Windows
          BY <3>3
        <4> QED BY <3>1, <4>1, WalkGoesOn
      <3>5. walk'.owed \cap walk'.seen = {}
        BY <1>5, <3>2 DEF ReadersTypeOK, ReadPage
      <3>6. ReadersTypeOK'
        BY <1>2, <3>1, <3>4, <3>5 DEF ReadersTypeOK
      <3>7. Matching(walk.filter)' = S
        BY <1>1, <3>2 DEF vars, tables, daemon, Matching, MatchingIn
      <3>8. /\ walk.seen \subseteq S /\ walk.owed \subseteq S
            /\ walk.filter /= "current" => \A w \in walk.seen : Place(w, S) < walk.offset
        BY <1>5 DEF ReadersInv, ReadPage
      <3>9. \A w \in walk'.owed : walk'.offset <= Place(w, S)
        BY <1>5, <3>2, PageDelivers
      <3>10. walk'.filter /= "current" => \A w \in walk'.seen : Place(w, S) < walk'.offset
        <4> SUFFICES ASSUME walk.filter /= "current", NEW w \in walk.seen
                     PROVE  Place(w, S) < walk.offset + PageSize
          BY <3>2, <3>3
        <4>1. /\ Place(w, S) < walk.offset /\ Place(w, S) \in Nat /\ walk.offset \in Nat
              /\ PageSize \in Nat
          BY <3>1, <3>3, <3>8, PlaceType, LimitsAssumption DEF Walks
        <4> QED BY <4>1
      <3> HIDE DEF S
      <3>11. ReadersInv'
        BY <1>2, <3>1, <3>2, <3>3, <3>7, <3>8, <3>9, <3>10 DEF ReadersInv, Place
      <3> QED BY <3>6, <3>11
    <2> QED BY <2>1, <2>2
  <1>6. CASE ReadCurrent
    <2>1. costed' = Page(Matching("current"), RowLimit, 0) /\ walk' = walk /\ walk = None
      BY <1>6 DEF ReadCurrent
    <2>2. costed' \subseteq Stored /\ Stored \subseteq Windows
      BY <2>1, MatchingTypes DEF Page, Stored
    <2> QED BY <1>2, <2>1, <2>2 DEF ReadersTypeOK, ReadersInv
  <1>7. CASE Answer \/ UNCHANGED allVars
    <2>1. walk' = walk /\ (costed' = None \/ costed' = costed)
      BY <1>7 DEF Answer, allVars, clients
    <2>2. walk /= None => Matching(walk.filter)' = Matching(walk.filter)
      BY <1>1, <2>1 DEF vars, tables, daemon, Matching, MatchingIn
    <2> QED BY <1>2, <2>1, <2>2 DEF ReadersTypeOK, ReadersInv, Place
  <1> QED BY <1>4, <1>5, <1>6, <1>7 DEF ReaderStep

LEMMA ReadersInvariant == ReadersSpec => []AllInv
  <1>1. AllInv /\ [WriterStep \/ ReaderStep]_allVars => AllInv'
    <2>1. AllInv /\ [WriterStep \/ ReaderStep]_allVars => ToolInv'
      BY ReadersSteps, ToolTypeNext, ListsNext, BesideNext DEF AllInv, ToolInv
    <2> QED BY <2>1, WritersKeepReaders, ReadersKeepReaders DEF AllInv
  <1> QED BY <1>1, ReadersInitInv, PTL DEF ReadersSpec

\* The readers' variables hold what a client can have been sent.
THEOREM ReadersTypes == ReadersSpec => []ReadersTypeOK
  <1>1. AllInv => ReadersTypeOK
    BY DEF AllInv
  <1> QED BY <1>1, ReadersInvariant, PTL

\* A walk over the pages misses no window that matches all along, and of all
\* windows or the recomputable ones delivers none twice, whatever the writers
\* do between two pages.
THEOREM WalksDeliver == ReadersSpec => WalkDelivers
  <1>1. AllInv =>
          [ ReadPage =>
              /\ walk.filter /= "current" => walk.seen \cap NextPage = {}
              /\ walk' = None => walk.owed \subseteq NextPage ]_allVars
    <2> SUFFICES ASSUME AllInv, ReadPage
                 PROVE  /\ walk.filter /= "current" => walk.seen \cap NextPage = {}
                        /\ walk' = None => walk.owed \subseteq NextPage
      OBVIOUS
    <2>1. walk' = None => Cardinality(NextPage) < PageSize
      <3>1. walk \in Walks
        BY DEF AllInv, ReadersTypeOK, ReadPage
      <3>2. NextPage \in SUBSET Windows
        BY DEF NextPage, Page, Matching, MatchingIn
      <3>3. [walk EXCEPT !.offset = @ + PageSize, !.seen = @ \cup NextPage,
                         !.owed = @ \ NextPage] \in Walks
        BY <3>1, <3>2, WalkGoesOn
      <3> QED BY <3>3, NoneIsNoWalk DEF ReadPage
    <2> QED BY <2>1, PageDelivers DEF AllInv
  <1> QED BY <1>1, ReadersInvariant, PTL DEF WalkDelivers

\* An estimate accounts for every window stored when it answers: as costed, or
\* as excluded.
THEOREM EstimatesAccount == ReadersSpec => EstimateAccounts
  <1>1. AllInv =>
          [ Answer /\ Cardinality(Stored) <= RowLimit =>
              Excluded = Cardinality(Stored \ costed) ]_allVars
    <2> SUFFICES ASSUME AllInv, Answer, Cardinality(Stored) <= RowLimit
                 PROVE  Excluded = Cardinality(Stored \ costed)
      OBVIOUS
    <2>1. costed \subseteq Stored /\ Stored \in SUBSET Windows
      BY DEF AllInv, ReadersInv, Answer, Stored
    <2>2. Page(Matching("all"), RowLimit, 0) = Stored
      BY <2>1, MatchingTypes, WholePage, LimitsAssumption
    <2>3. IsFiniteSet(Stored) /\ Cardinality(Stored) \in Nat
      BY <2>1, WindowSets
    <2>4. /\ IsFiniteSet(costed) /\ Cardinality(costed) \in Nat
          /\ Cardinality(costed) <= Cardinality(Stored)
      BY <2>1, <2>3, FS_Subset, FS_CardinalityType
    <2>5. Cardinality(Stored \ costed) = Cardinality(Stored) - Cardinality(Stored \cap costed)
      BY <2>3, FS_Difference
    <2>6. Stored \cap costed = costed
      BY <2>1
    <2> QED BY <2>2, <2>3, <2>4, <2>5, <2>6 DEF Excluded
  <1> QED BY <1>1, ReadersInvariant, PTL DEF EstimateAccounts

=============================================================================
