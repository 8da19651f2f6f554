---------------------------- MODULE OpenEIFetch ----------------------------
(***************************************************************************)
(* fetch_history of src/src/tou/openei_client.rs, page by page, while the  *)
(* upstream it reads changes.  TouRefresh has a fetch as one step.         *)
(*                                                                         *)
(* OpenEI lists the rates of a utility by label, of all plans; PageSize of *)
(* them from an offset on are one response.  A service that takes no       *)
(* notice of the offset answers with the first page again and again.       *)
(***************************************************************************)
EXTENDS ScheduleResolver, TLC

CONSTANTS
  Labels,      \* the labels of revisions, numbers in the order of the labels
  Items,       \* what an item may say
  Upstreams,   \* what OpenEI may list when the first fetch begins
  PageSize,    \* 500, scaled down
  MaxChanges,  \* bound on the changes of the upstream
  None         \* a label that is not listed, or no answer

\* An item: whether it is of the configured plan, when it starts, its tariff,
\* and whether label, bounds, utility and its identity are as they must be.
ItemType == [ours : BOOLEAN, start : Int, tariff : [weekday : Seq(Seq(Int)),
             weekend : Seq(Seq(Int)), periods : Seq([rate : Int \cup {Missing},
             sell : Int \cup {Missing}])], sound : BOOLEAN]

ASSUME LabelsAssumption == Labels \subseteq Nat /\ IsFiniteSet(Labels)
ASSUME ItemsAssumption == Items \subseteq ItemType /\ None \notin ItemType
ASSUME UpstreamsAssumption == Upstreams \subseteq [Labels -> ItemType \cup {None}]
ASSUME BoundsAssumption == PageSize \in Nat \ {0} /\ MaxChanges \in Nat

VARIABLES
  upstream,   \* what OpenEI lists
  paging,     \* whether it takes notice of the offset
  changes,    \* how often the upstream has changed
  pc,         \* "idle", "fetching", "done" or "failed"
  offset,     \* of the next request
  seenPages,  \* the items of the pages of this fetch
  revisions,  \* collected by this fetch; an answer when it is done
  requests,   \* history: the pages asked for by this fetch
  since,      \* history: the kinds of change since it began
  steady      \* history: the labels that have been of the plan all along

service == << upstream, paging, changes >>
client == << pc, offset, seenPages, revisions, requests >>
history == << since, steady >>
vars == << service, client, history >>

Listed == { l \in Labels : upstream[l] /= None }
OfPlan == { l \in Listed : upstream[l].ours }
Place(l) == Cardinality({ k \in Listed : k < l })

\* orderby label, limit PageSize, offset.
PageAt(from) ==
  LET shown == { l \in Listed : from <= Place(l) /\ Place(l) < from + PageSize }
  IN  { [label |-> l, item |-> upstream[l]] : l \in shown }

Response == IF paging THEN PageAt(offset) ELSE PageAt(0)

\* parse_item without an error.
Parses(item) == item.sound /\ Resolves(item.tariff)

\* Items of different labels, as OpenEI lists them.
InOrder(items) ==
  LET place(x) == Cardinality({ y \in items : y.label <= x.label })
  IN  [ n \in 1 .. Cardinality(items) |-> CHOOSE x \in items : place(x) = n ]

\* The items of the configured plan, in the order of the page.
Ours(page) == InOrder({ x \in page : x.item.ours })

\* Slip: every item of the page is parsed, not only those of the plan.
ParsesAll(page) == \A x \in page : Parses(x.item)

\* An item that does not parse is an error of the whole fetch.
ParsesOurs(page) == \A x \in page : x.item.ours => Parses(x.item)

Init ==
  /\ upstream \in Upstreams /\ paging \in BOOLEAN /\ changes = 0
  /\ pc = "idle" /\ offset = 0 /\ seenPages = {} /\ revisions = <<>> /\ requests = 0
  /\ since = {} /\ steady = {}

-----------------------------------------------------------------------------
(* The upstream. *)

\* A change is of interest while a fetch is under way: before it, it is one
\* more upstream to begin with.
Change(kind, l, item) ==
  /\ pc = "fetching" /\ changes < MaxChanges
  /\ upstream' = [upstream EXCEPT ![l] = item]
  /\ changes' = changes + 1
  /\ since' = since \cup {kind}
  /\ steady' = { k \in steady : k = l => item /= None /\ item.ours }
  /\ UNCHANGED << paging, client >>

Publish(l, item) == l \notin Listed /\ Change("publish", l, item)
Amend(l, item) == l \in Listed /\ item /= upstream[l] /\ Change("amend", l, item)
Withdraw(l) == l \in Listed /\ Change("withdraw", l, None)

-----------------------------------------------------------------------------
(* The client. *)

Begin ==
  /\ pc /= "fetching"
  /\ pc' = "fetching"
  /\ offset' = 0 /\ seenPages' = {} /\ revisions' = <<>> /\ requests' = 0
  /\ since' = {} /\ steady' = OfPlan
  /\ UNCHANGED service

\* A request that fails, or is answered with another status, ends the fetch;
\* so does an item of the plan that does not parse.
RequestFails ==
  /\ pc = "fetching"
  /\ pc' = "failed" /\ requests' = requests + 1
  /\ UNCHANGED << service, offset, seenPages, revisions, history >>

\* Slip: pages are not remembered.
NeverRepeated(page) == FALSE

Repeated(page) == page \in seenPages

\* Slip: the plan's items are counted, not those of the page.
FullOfOurs(page) == Len(Ours(page)) = PageSize

Full(page) == Cardinality(page) = PageSize

Collected(page) == revisions \o
  [ i \in 1 .. Len(Ours(page)) |-> [ label |-> Ours(page)[i].label,
                                     item |-> Ours(page)[i].item,
                                     request |-> requests + 1 ] ]

\* Slip: the order of copies that start together is lost.
SortedUnstably(revs) ==
  SortSeq(revs, LAMBDA a, b : \/ a.item.start < b.item.start
                              \/ a.item.start = b.item.start /\ a.request > b.request)

\* A stable sort by start.
Sorted(revs) ==
  LET place(i) == Cardinality({ j \in DOMAIN revs :
                      \/ revs[j].item.start < revs[i].item.start
                      \/ revs[j].item.start = revs[i].item.start /\ j <= i })
  IN  [ p \in DOMAIN revs |-> revs[CHOOSE i \in DOMAIN revs : place(i) = p] ]

\* A page that is not full is the last; the fetch fails if no item was of the
\* configured plan.
ReadPage ==
  LET page == Response
  IN  /\ pc = "fetching"
      /\ requests' = requests + 1
      /\ seenPages' = seenPages \cup {page}
      /\ IF Repeated(page) \/ ~ParsesOurs(page)
         THEN pc' = "failed" /\ UNCHANGED << offset, revisions >>
         ELSE IF Full(page)
         THEN pc' = pc /\ offset' = offset + PageSize /\ revisions' = Collected(page)
         ELSE /\ pc' = IF Collected(page) = <<>> THEN "failed" ELSE "done"
              /\ offset' = offset
              /\ revisions' = Sorted(Collected(page))
      /\ UNCHANGED << service, history >>

Next ==
  \/ \E l \in Labels, item \in Items : Publish(l, item) \/ Amend(l, item)
  \/ \E l \in Labels : Withdraw(l)
  \/ Begin \/ RequestFails \/ ReadPage

Spec == Init /\ [][Next]_vars

-----------------------------------------------------------------------------
\* The variables range over what a fetch can have collected.
TypeOK ==
  /\ upstream \in [Labels -> ItemType \cup {None}]
  /\ paging \in BOOLEAN /\ changes \in 0 .. MaxChanges
  /\ pc \in {"idle", "fetching", "done", "failed"}
  /\ offset \in Nat /\ offset % PageSize = 0
  /\ \A page \in seenPages : Cardinality(page) <= PageSize
  /\ \A i \in DOMAIN revisions : /\ revisions[i].label \in Labels
                                 /\ revisions[i].item.ours
                                 /\ revisions[i].request <= requests
  /\ since \subseteq {"publish", "amend", "withdraw"}
  /\ steady \subseteq Labels

LabelsIn(revs) == { revs[i].label : i \in DOMAIN revs }
Answers == ReadPage /\ pc' = "done"

\* If nothing changes meanwhile, a fetch from a service that keeps to the
\* offset answers with each revision of the plan once, in the order of their
\* starts, however the pages fall; it is an error only if the plan has no
\* revision or one that does not parse, whatever the other plans look like.
QuietFetchIsExact ==
  [][ ReadPage /\ since = {} /\ paging =>
        /\ pc' = "failed" => OfPlan = {} \/ \E l \in OfPlan : ~Parses(upstream[l])
        /\ pc' = "done" =>
             /\ Len(revisions') = Cardinality(OfPlan)
             /\ { << revisions'[i].label, revisions'[i].item >> : i \in DOMAIN revisions' }
                  = { << l, upstream[l] >> : l \in OfPlan }
             /\ \A i, j \in DOMAIN revisions' :
                  i < j => revisions'[i].item.start <= revisions'[j].item.start ]_vars

\* Revisions published or amended between two pages push others to a later page
\* and never out of the answer: what was of the plan all along is in it, twice
\* perhaps.  What is withdrawn makes the rest move up, past the next offset.
PublishingSkipsNothing ==
  [][ Answers /\ paging /\ "withdraw" \notin since => steady \subseteq LabelsIn(revisions') ]_vars

\* Of two copies of one revision in an answer the archive takes the later for
\* the one in force: it is the one read last, unless an amendment between the
\* two pages moved the start of the revision back.
LastCopyReadLast ==
  [][ Answers =>
        \A i, j \in DOMAIN revisions' :
          i < j /\ revisions'[i].label = revisions'[j].label =>
            \/ revisions'[i].request < revisions'[j].request
            \/ revisions'[i].item.start < revisions'[j].item.start ]_vars

\* No service keeps a fetch asking for ever: the pages are bounded by what can
\* be listed, and without offsets by the changes that make a page a new one.
RequestsBounded ==
  \/ requests <= changes + 2
  \/ paging /\ requests <= Cardinality(Labels) \div PageSize + 1

Level(bracket) == CHOOSE n \in DOMAIN Brackets : Brackets[n] = bracket

\* What a fetch answers with can be read at every hour: no lookup in a schedule
\* that was archived fails, or has a period without rates.  Within a month brackets follow rates, across weekdays and weekends: a dearer
\* hour is never in a cheaper bracket.  Every month has a peak, of a single
\* period; super off-peak is the cheapest of three or more periods, and no
\* other.
BracketsFollowRates ==
  pc = "done" =>
    \A i \in DOMAIN revisions, m \in 1 .. Months :
      LET tariff == revisions[i].item.tariff
          active == Active(tariff, m)
          in(bracket) == { p \in active : BracketOf(tariff, m, p) = bracket }
          used == { PeriodAt(tariff, s) : s \in { x \in Slots : x.month = m } }
      IN  /\ \A p \in used : p \in Indices(tariff) /\ Rate(tariff, p) /= Missing
          /\ \A p, q \in used :
               Rate(tariff, p) > Rate(tariff, q) =>
                 Level(BracketOf(tariff, m, p)) <= Level(BracketOf(tariff, m, q))
          /\ Cardinality(used \cap in("peak")) = 1
          /\ Cardinality(used \cap in("super_off_peak"))
               = IF Cardinality(used) >= 3 THEN 1 ELSE 0

OneWindowPerSlot == { [slot |-> s, import |-> 2, export |-> 1] : s \in Slots }

\* What a window costs by itself: its import at the rate of its own period, less
\* its export at that period's sell rate.
Price(tariff, w) ==
  w.import * Rate(tariff, PeriodAt(tariff, w.slot))
    - w.export * Sell(tariff, PeriodAt(tariff, w.slot))

\* Brackets group the sums and nothing else: with several periods of different
\* rates in one bracket, each window is still priced at the rates of its own.
PricedByPeriod ==
  pc = "done" =>
    \A i \in DOMAIN revisions :
      LET tariff == revisions[i].item.tariff
      IN  NetCost(tariff, OneWindowPerSlot)
            = SumFunction([ w \in OneWindowPerSlot |-> Price(tariff, w) ])
=============================================================================
