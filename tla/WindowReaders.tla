---------------------------- MODULE WindowReaders ----------------------------
(***************************************************************************)
(* Two clients of the API that read energy_window in several statements    *)
(* while RecomputeTool's writers change it: a client that walks the pages  *)
(* of GET /api/energy/windows, and GET /api/trueup/estimate, whose handler *)
(* reads the windows of the current version and then all of them           *)
(* (src/src/api/handlers/energy.rs, trueup.rs).  The range of both is the  *)
(* whole table; what a window costs is TouHistory's subject.               *)
(***************************************************************************)
EXTENDS RecomputeTool

CONSTANTS
  PageSize,  \* limit of the page walk (100 by default)
  RowLimit   \* what both reads of the estimate are limited to (50 000)

ASSUME LimitsAssumption == PageSize \in Nat \ {0} /\ RowLimit \in Nat \ {0}

VARIABLES
  walk,   \* the page walk in progress, or None
  costed  \* the windows the estimate in progress has read to cost, or None

clients == << walk, costed >>
allVars == << vars, clients >>

Filters == {"all", "current", "recomputable"}

\* A page walk: what the client asks for, and what it has got and is owed.
Walks == [filter : Filters, offset : Nat, seen : SUBSET Windows, owed : SUBSET Windows]

ASSUME NoneIsNoWalk == None \notin Walks

MatchingIn(table, b, filter) ==
  { w \in Windows : /\ table[w] /= None
                    /\ filter = "current" => table[w].version = b
                    /\ filter = "recomputable" => table[w].version > 0 }

Matching(filter) == MatchingIn(rows, build, filter)

\* Slip: the newest come first, as in query_latest.
PlaceFromNewest(w, S) == Cardinality({ v \in S : v > w })

\* The place of a row in ORDER BY window_start.
Place(w, S) == Cardinality({ v \in S : v < w })

\* LIMIT ? OFFSET ?
Page(S, limit, offset) ==
  { w \in S : offset <= Place(w, S) /\ Place(w, S) < offset + limit }

ReadersInit ==
  /\ Init
  /\ walk = None
  /\ costed = None

-----------------------------------------------------------------------------
\* What a walk leaves for history: the windows it owes the client, those that
\* have matched its filter all along and have not come yet.  It is followed
\* until a window leaves its filter, when later ones may be passed over.
Witnessed ==
  walk' = IF walk = None THEN None
          ELSE LET after == MatchingIn(rows', build', walk.filter)
               IN  IF Matching(walk.filter) \subseteq after THEN walk ELSE None

\* A step of a writer; a request ends with the process that serves it.
WriterStep ==
  /\ Next
  /\ Witnessed
  /\ costed' = IF pc' = "down" THEN None ELSE costed

WalkBegins(filter) ==
  /\ pc /= "down" /\ walk = None /\ costed = None
  /\ walk' = [filter |-> filter, offset |-> 0, seen |-> {}, owed |-> Matching(filter)]
  /\ UNCHANGED << vars, costed >>

NextPage == Page(Matching(walk.filter), PageSize, walk.offset)

\* The client asks for the page after the rows it has got, and stops at a page
\* that is not full: total is the length of the page.
ReadPage ==
  /\ walk /= None /\ pc /= "down"
  /\ walk' = IF Cardinality(NextPage) < PageSize THEN None
             ELSE [walk EXCEPT !.offset = @ + PageSize, !.seen = @ \cup NextPage,
                               !.owed = @ \ NextPage]
  /\ UNCHANGED << vars, costed >>

\* The estimate's first read; without windows of the current version the
\* handler answers that data is insufficient.
ReadCurrent ==
  /\ pc /= "down" /\ walk = None /\ costed = None
  /\ Page(Matching("current"), RowLimit, 0) /= {}
  /\ costed' = Page(Matching("current"), RowLimit, 0)
  /\ UNCHANGED << vars, walk >>

\* Slip: the windows of the current version are counted when all of them are.
ExcludedByNow ==
  Cardinality(Page(Matching("all"), RowLimit, 0))
    - Cardinality(Page(Matching("current"), RowLimit, 0))

\* excluded_window_count; saturating_sub, as a usize never falls below zero.
Excluded ==
  LET all == Cardinality(Page(Matching("all"), RowLimit, 0))
  IN  IF all < Cardinality(costed) THEN 0 ELSE all - Cardinality(costed)

\* The second read, and the answer.
Answer ==
  /\ costed /= None
  /\ costed' = None
  /\ UNCHANGED << vars, walk >>

ReaderStep ==
  \/ \E filter \in Filters : WalkBegins(filter)
  \/ ReadPage \/ ReadCurrent \/ Answer

ReadersSpec == ReadersInit /\ [][WriterStep \/ ReaderStep]_allVars

-----------------------------------------------------------------------------
\* The readers' variables range over what a client can have been sent.
ReadersTypeOK ==
  /\ TypeOK
  /\ walk \in Walks \cup {None}
  /\ walk /= None => walk.owed \cap walk.seen = {}
  /\ costed = None \/ costed \subseteq Windows

\* A walk over pages of a table that changes under it delivers, as long as no
\* window leaves its filter, every window that has matched it since the walk
\* began; of all windows, or the recomputable ones, it delivers none twice.  Of
\* the current ones a window may come twice: a recomputed row moves the later
\* ones back.
WalkDelivers ==
  [][ ReadPage =>
        /\ walk.filter /= "current" => walk.seen \cap NextPage = {}
        /\ walk' = None => walk.owed \subseteq NextPage ]_allVars

\* An estimate tells how much of the period it leaves out: each window stored
\* when it answers was costed or is counted as excluded, a window stored or
\* recomputed between the two reads included.  Beyond the limit of the reads it
\* tells nothing.
EstimateAccounts ==
  [][ Answer /\ Cardinality(Stored) <= RowLimit =>
        Excluded = Cardinality(Stored \ costed) ]_allVars
=============================================================================
