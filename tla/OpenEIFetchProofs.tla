----------------------------- MODULE OpenEIFetchProofs -----------------------------
(***************************************************************************)
(* What holds of a fetch from OpenEI for every list of rates, every page   *)
(* size and however the list changes meanwhile, and of the brackets of     *)
(* every tariff that resolves.                                             *)
(***************************************************************************)
EXTENDS OpenEIFetch, FiniteSums, FunctionTheorems, SequenceTheorems, TLAPS

-----------------------------------------------------------------------------
(* Counting.  Pages, the order of a page, the stable sort and the ranks of *)
(* periods are all given by how many elements come before one.             *)

\* If of any two elements one comes before the other, the counts of what comes
\* up to an element number them from one on.
LEMMA Ranks ==
  ASSUME NEW S, IsFiniteSet(S), NEW upTo \in [S -> SUBSET S],
         \A x \in S : x \in upTo[x],
         \A x, y \in S : x /= y =>
           \/ upTo[x] \subseteq upTo[y] /\ y \notin upTo[x]
           \/ upTo[y] \subseteq upTo[x] /\ x \notin upTo[y]
  PROVE  /\ \A x \in S : Cardinality(upTo[x]) \in 1 .. Cardinality(S)
         /\ \A x, y \in S : x \notin upTo[y] => Cardinality(upTo[y]) < Cardinality(upTo[x])
         /\ \A x, y \in S : Cardinality(upTo[x]) = Cardinality(upTo[y]) => x = y
         /\ \A n \in 1 .. Cardinality(S) : \E x \in S : Cardinality(upTo[x]) = n
  <1> DEFINE n == Cardinality(S)
             T == 1 .. n
             f == [x \in S |-> Cardinality(upTo[x])]
  <1>1. n \in Nat
    BY FS_CardinalityType
  <1>2. \A x \in S : IsFiniteSet(upTo[x]) /\ Cardinality(upTo[x]) \in Nat
                     /\ Cardinality(upTo[x]) <= n
    BY FS_Subset, FS_CardinalityType
  <1>3. \A x \in S : Cardinality(upTo[x]) /= 0
    BY <1>2, FS_EmptySet
  <1>4. \A x \in S : Cardinality(upTo[x]) \in T
    BY <1>1, <1>2, <1>3
  <1>5. ASSUME NEW x \in S, NEW y \in S, x \notin upTo[y]
        PROVE  Cardinality(upTo[y]) < Cardinality(upTo[x])
    <2>1. x /= y /\ upTo[y] \subseteq upTo[x]
      BY <1>5
    <2>2. upTo[y] \in SUBSET upTo[x] /\ upTo[y] /= upTo[x]
      BY <1>5, <2>1
    <2>3. Cardinality(upTo[y]) <= Cardinality(upTo[x])
          /\ Cardinality(upTo[y]) /= Cardinality(upTo[x])
      BY <1>2, <2>2, FS_Subset
    <2> QED BY <1>2, <2>3
  <1>6. ASSUME NEW x \in S, NEW y \in S, Cardinality(upTo[x]) = Cardinality(upTo[y]) PROVE x = y
    <2> SUFFICES ASSUME x /= y PROVE FALSE
      OBVIOUS
    <2>1. x \notin upTo[y] \/ y \notin upTo[x]
      OBVIOUS
    <2> QED BY <1>2, <1>5, <1>6, <2>1
  <1>7. f \in Injection(S, T)
    <2>1. f \in [S -> T]
      BY <1>4
    <2>2. \A x, y \in S : f[x] = f[y] => x = y
      BY <1>6
    <2> HIDE DEF f, T
    <2> QED BY <2>1, <2>2, Fun_IsInj
  <1>8. IsFiniteSet(T) /\ Cardinality(T) = n
    BY <1>1, FS_Interval
  <1>9. \A k \in T : \E x \in S : f[x] = k
    <2> HIDE DEF f, T
    <2>1. f \in Surjection(S, T)
      BY <1>7, <1>8, FS_Injection DEF n
    <2> QED BY <2>1, Fun_SurjectionProperties
  <1> QED BY <1>4, <1>5, <1>6, <1>9

\* A set of numbers: how many of them are below one.
LEMMA BelowRank ==
  ASSUME NEW S \in SUBSET Nat, IsFiniteSet(S)
  PROVE  /\ \A l \in S : Cardinality({ k \in S : k < l }) \in 0 .. Cardinality(S) - 1
         /\ \A k, l \in S : k < l =>
              Cardinality({ j \in S : j < k }) < Cardinality({ j \in S : j < l })
         /\ \A n \in 0 .. Cardinality(S) - 1 : \E l \in S : Cardinality({ k \in S : k < l }) = n
  <1> DEFINE upTo == [l \in S |-> { k \in S : k <= l }]
  <1>0. /\ upTo \in [S -> SUBSET S]
        /\ \A l \in S : \A k : k \in upTo[l] <=> k \in S /\ k <= l
    OBVIOUS
  <1> HIDE DEF upTo
  <1>1. /\ \A x \in S : x \in upTo[x]
        /\ \A x, y \in S : x /= y =>
             \/ upTo[x] \subseteq upTo[y] /\ y \notin upTo[x]
             \/ upTo[y] \subseteq upTo[x] /\ x \notin upTo[y]
    <2>1. \A x \in S : x \in upTo[x]
      BY <1>0
    <2>2. ASSUME NEW x \in S, NEW y \in S, x < y
          PROVE  upTo[x] \subseteq upTo[y] /\ y \notin upTo[x]
      <3>1. \A k \in S : k <= x => k <= y
        BY <2>2
      <3>2. ~(y <= x)
        BY <2>2
      <3> QED BY <1>0, <3>1, <3>2
    <2>3. \A x, y \in S : x /= y => x < y \/ y < x
      OBVIOUS
    <2> QED BY <2>1, <2>2, <2>3
  <1>2. ASSUME NEW l \in S
        PROVE  /\ Cardinality(upTo[l]) = Cardinality({ k \in S : k < l }) + 1
               /\ Cardinality({ k \in S : k < l }) \in Nat
    <2> DEFINE below == { k \in S : k < l }
    <2>1. IsFiniteSet(below) /\ l \notin below
      BY FS_Subset
    <2>2. upTo[l] = below \cup {l}
      <3>1. \A k \in S : k <= l <=> k < l \/ k = l
        OBVIOUS
      <3> QED BY <1>0, <3>1
    <2> HIDE DEF below
    <2>3. Cardinality(below \cup {l}) = Cardinality(below) + 1 /\ Cardinality(below) \in Nat
      BY <2>1, FS_AddElement, FS_CardinalityType
    <2> QED BY <2>2, <2>3 DEF below
  <1>3. Cardinality(S) \in Nat
    BY FS_CardinalityType
  <1>4. \A k, l \in S : k < l => l \notin upTo[k]
    <2>1. \A k, l \in S : k < l => ~(l <= k)
      OBVIOUS
    <2> QED BY <1>0, <2>1
  <1>5. /\ \A x \in S : Cardinality(upTo[x]) \in 1 .. Cardinality(S)
        /\ \A x, y \in S : x \notin upTo[y] => Cardinality(upTo[y]) < Cardinality(upTo[x])
        /\ \A n \in 1 .. Cardinality(S) : \E x \in S : Cardinality(upTo[x]) = n
    BY <1>0, <1>1, Ranks
  <1>6. \A l \in S : Cardinality({ k \in S : k < l }) \in 0 .. Cardinality(S) - 1
    BY <1>2, <1>3, <1>5
  <1>7. \A k, l \in S : k < l =>
          Cardinality({ j \in S : j < k }) < Cardinality({ j \in S : j < l })
    BY <1>2, <1>4, <1>5
  <1>8. ASSUME NEW n \in 0 .. Cardinality(S) - 1
        PROVE  \E l \in S : Cardinality({ k \in S : k < l }) = n
    <2>1. n + 1 \in 1 .. Cardinality(S)
      BY <1>3
    <2>2. PICK l \in S : Cardinality(upTo[l]) = n + 1
      BY <1>5, <2>1
    <2>3. Cardinality({ k \in S : k < l }) + 1 = n + 1 /\ Cardinality({ k \in S : k < l }) \in Nat
      BY <1>2, <2>2
    <2>4. Cardinality({ k \in S : k < l }) = n
      BY <2>3
    <2> QED BY <2>4
  <1> QED BY <1>6, <1>7, <1>8

-----------------------------------------------------------------------------
(* Pages. *)

UpstreamOK == upstream \in [Labels -> ItemType \cup {None}]

LEMMA ListedFinite ==
  Listed \subseteq Labels /\ Listed \subseteq Nat /\ IsFiniteSet(Listed)
  /\ Cardinality(Listed) \in Nat /\ Cardinality(Listed) <= Cardinality(Labels)
  <1>1. Listed \in SUBSET Labels
    BY DEF Listed
  <1> QED BY <1>1, LabelsAssumption, FS_Subset, FS_CardinalityType

\* The places number what is listed from zero on, in the order of the labels.
LEMMA Places ==
  /\ \A l \in Listed : Place(l) \in 0 .. Cardinality(Listed) - 1
  /\ \A k, l \in Listed : k < l => Place(k) < Place(l)
  /\ \A k, l \in Listed : Place(k) = Place(l) => k = l
  /\ \A n \in 0 .. Cardinality(Listed) - 1 : \E l \in Listed : Place(l) = n
  <1>1. /\ \A l \in Listed : Place(l) \in 0 .. Cardinality(Listed) - 1
        /\ \A k, l \in Listed : k < l => Place(k) < Place(l)
        /\ \A n \in 0 .. Cardinality(Listed) - 1 : \E l \in Listed : Place(l) = n
    BY ListedFinite, BelowRank DEF Place
  <1>2. ASSUME NEW k \in Listed, NEW l \in Listed, Place(k) = Place(l) PROVE k = l
    <2>1. Place(k) \in Int /\ k \in Nat /\ l \in Nat
      BY <1>1, ListedFinite
    <2>2. ~(k < l) /\ ~(l < k)
      BY <1>1, <1>2, <2>1
    <2> QED BY <2>1, <2>2
  <1> QED BY <1>1, <1>2

Shown(from) == { l \in Listed : from <= Place(l) /\ Place(l) < from + PageSize }

\* A page has each of its labels once, and is full exactly if the list goes on
\* to its end.
LEMMA Pages ==
  ASSUME NEW from \in Nat
  PROVE  /\ IsFiniteSet(PageAt(from)) /\ Cardinality(PageAt(from)) \in Nat
         /\ \A x \in PageAt(from) : x.label \in Shown(from) /\ x.item = upstream[x.label]
         /\ \A l \in Shown(from) : [label |-> l, item |-> upstream[l]] \in PageAt(from)
         /\ Cardinality(PageAt(from)) <= PageSize
         /\ Full(PageAt(from)) <=> from + PageSize <= Cardinality(Listed)
  <1> DEFINE P == PageAt(from)
             n == Cardinality(Listed)
             T == from .. from + PageSize - 1
             g == [l \in Shown(from) |-> [label |-> l, item |-> upstream[l]]]
             f == [l \in Shown(from) |-> Place(l)]
  <1>1. P = { [label |-> l, item |-> upstream[l]] : l \in Shown(from) }
    BY DEF PageAt, Shown
  <1>2. IsFiniteSet(Shown(from)) /\ Cardinality(Shown(from)) \in Nat /\ n \in Nat
        /\ PageSize \in Nat /\ PageSize > 0
    <2>1. Shown(from) \in SUBSET Listed
      BY DEF Shown
    <2> QED BY <2>1, ListedFinite, FS_Subset, FS_CardinalityType, BoundsAssumption
  <1>3. g \in Surjection(Shown(from), P) /\ g \in Injection(Shown(from), P)
    <2>1. g \in [Shown(from) -> P] /\ \A t \in P : \E s \in Shown(from) : g[s] = t
      BY <1>1
    <2>2. \A s, u \in Shown(from) : g[s] = g[u] => s = u
      OBVIOUS
    <2> HIDE DEF g, P
    <2> QED BY <2>1, <2>2, Fun_IsSurj, Fun_IsInj
  <1>4. IsFiniteSet(P) /\ Cardinality(P) = Cardinality(Shown(from))
    <2> HIDE DEF g, P
    <2> QED BY <1>2, <1>3, FS_Surjection
  <1>5. \A l \in Shown(from) : Place(l) \in T /\ Place(l) \in Nat /\ Place(l) < n
    BY <1>2, Places DEF Shown
  <1>6. f \in [Shown(from) -> T] /\ \A s, u \in Shown(from) : f[s] = f[u] => s = u
    BY <1>5, Places DEF Shown
  <1>7. IsFiniteSet(T) /\ Cardinality(T) = PageSize
    <2> DEFINE b == from + PageSize - 1
    <2>1. b \in Int /\ from \in Int /\ ~(from > b) /\ b - from + 1 = PageSize
      BY <1>2
    <2>2. T = from .. b
      OBVIOUS
    <2> HIDE DEF b, T
    <2> QED BY <2>1, <2>2, FS_Interval
  <1>0. Cardinality(Shown(from)) <= PageSize
    <2> HIDE DEF f, T
    <2>1. f \in Injection(Shown(from), T)
      BY <1>6, Fun_IsInj
    <2> QED BY <1>7, <2>1, FS_Injection
  <1>8. ASSUME from + PageSize <= n PROVE Cardinality(Shown(from)) = PageSize
    <2>1. \A t \in T : \E s \in Shown(from) : f[s] = t
      <3> SUFFICES ASSUME NEW t \in T PROVE \E s \in Shown(from) : Place(s) = t
        OBVIOUS
      <3>1. t \in 0 .. n - 1
        BY <1>2, <1>8
      <3>2. PICK s \in Listed : Place(s) = t
        BY <3>1, Places
      <3>3. from <= t /\ t < from + PageSize
        BY <1>2
      <3> QED BY <3>2, <3>3 DEF Shown
    <2> HIDE DEF f, T
    <2>2. f \in Surjection(Shown(from), T) /\ f \in Injection(Shown(from), T)
      BY <1>6, <2>1, Fun_IsSurj, Fun_IsInj
    <2>3. Cardinality(T) = Cardinality(Shown(from))
      BY <1>2, <2>2, FS_Surjection
    <2> QED BY <1>7, <2>3
  <1>9. ASSUME ~(from + PageSize <= n) PROVE Cardinality(Shown(from)) /= PageSize
    <2> DEFINE R == from .. n - 1
    <2>1. f \in [Shown(from) -> R]
      BY <1>2, <1>5
    <2>2. IsFiniteSet(R) /\ Cardinality(R) < PageSize
      <3>1. IsFiniteSet(R) /\ Cardinality(R) = IF from > n - 1 THEN 0 ELSE n - 1 - from + 1
        <4>1. n - 1 \in Int /\ from \in Int
          BY <1>2
        <4> QED BY <4>1, FS_Interval
      <3> HIDE DEF R
      <3> QED BY <1>2, <1>9, <3>1
    <2> HIDE DEF f, R
    <2>3. f \in Injection(Shown(from), R)
      BY <1>6, <2>1, Fun_IsInj
    <2>4. Cardinality(Shown(from)) <= Cardinality(R)
      BY <2>2, <2>3, FS_Injection
    <2>5. Cardinality(R) \in Nat
      BY <2>2, FS_CardinalityType
    <2> QED BY <1>2, <2>2, <2>4, <2>5
  <1>10. \A x \in P : x.label \in Shown(from) /\ x.item = upstream[x.label]
    BY <1>1
  <1>11. \A l \in Shown(from) : [label |-> l, item |-> upstream[l]] \in P
    BY <1>1
  <1> HIDE DEF P, n
  <1> QED BY <1>0, <1>2, <1>4, <1>8, <1>9, <1>10, <1>11 DEF Full, P, n

\* A function from 1 .. m is a sequence.
LEMMA SeqOf ==
  ASSUME NEW S, NEW m \in Nat, NEW s \in [1 .. m -> S]
  PROVE  s \in Seq(S) /\ Len(s) = m /\ DOMAIN s = 1 .. m
  <1>1. s \in Seq(S)
    OBVIOUS
  <1>2. DOMAIN s = 1 .. m
    OBVIOUS
  <1>3. Len(s) = m
    BY <1>1, <1>2
  <1> QED BY <1>1, <1>2, <1>3

\* The items of the plan on a page, each once and by label.
LEMMA PageInOrder ==
  ASSUME UpstreamOK, NEW from \in Nat
  PROVE  LET page == PageAt(from)
             ours == Ours(page)
             shown == { l \in Shown(from) : l \in OfPlan }
         IN  /\ ours \in Seq([label : Labels, item : ItemType])
             /\ \A i \in 1 .. Len(ours) : /\ ours[i].label \in shown
                                          /\ ours[i].item = upstream[ours[i].label]
                                          /\ ours[i] \in page
             /\ \A l \in shown : \E i \in 1 .. Len(ours) : ours[i].label = l
             /\ \A i, j \in 1 .. Len(ours) : i < j => ours[i].label < ours[j].label
  <1> DEFINE page == PageAt(from)
             own == { x \in page : x.item.ours }
             ours == Ours(page)
             shown == { l \in Shown(from) : l \in OfPlan }
             n == Cardinality(own)
             upTo == [x \in own |-> { y \in own : y.label <= x.label }]
             count(x) == Cardinality({ y \in own : y.label <= x.label })
  <1>1. /\ IsFiniteSet(page)
        /\ \A x \in page : x.label \in Shown(from) /\ x.item = upstream[x.label]
        /\ \A l \in Shown(from) : [label |-> l, item |-> upstream[l]] \in page
    BY Pages
  <1>2. Shown(from) \subseteq Listed /\ Listed \subseteq Labels /\ Labels \subseteq Nat
    BY LabelsAssumption DEF Shown, Listed
  <1>3. IsFiniteSet(own) /\ n \in Nat
    BY <1>1, FS_Subset, FS_CardinalityType
  <1>4. \A x \in page : /\ x = [label |-> x.label, item |-> x.item]
                        /\ x.label \in Labels /\ x.label \in Nat /\ x.item \in ItemType
    <2> SUFFICES ASSUME NEW x \in page
                 PROVE  /\ x = [label |-> x.label, item |-> x.item]
                        /\ x.label \in Labels /\ x.label \in Nat /\ x.item \in ItemType
      OBVIOUS
    <2>1. x = [label |-> x.label, item |-> x.item]
      BY DEF PageAt
    <2>2. x.label \in Listed
      BY <1>1, <1>2
    <2> QED BY <1>1, <1>2, <2>1, <2>2 DEF Listed, UpstreamOK
  <1>5. \A x, y \in own : x.label = y.label => x = y
    BY <1>1, <1>4
  <1>6. /\ upTo \in [own -> SUBSET own]
        /\ \A x \in own : \A y : y \in upTo[x] <=> y \in own /\ y.label <= x.label
    OBVIOUS
  <1>7. ours = [ i \in 1 .. n |-> CHOOSE x \in own : count(x) = i ]
    BY DEF Ours, InOrder
  <1>8. \A x \in own : count(x) = Cardinality(upTo[x])
    OBVIOUS
  <1>9. /\ \A x \in own : Cardinality(upTo[x]) \in 1 .. n
        /\ \A x, y \in own : x \notin upTo[y] => Cardinality(upTo[y]) < Cardinality(upTo[x])
        /\ \A i \in 1 .. n : \E x \in own : Cardinality(upTo[x]) = i
    <2> HIDE DEF upTo, own
    <2>1. \A x \in own : x.label \in Nat
      BY <1>4 DEF own
    <2>2. \A x \in own : x \in upTo[x]
      BY <1>6, <2>1
    <2>3. ASSUME NEW x \in own, NEW y \in own, x.label < y.label
          PROVE  upTo[x] \subseteq upTo[y] /\ y \notin upTo[x]
      <3>1. \A z \in own : z.label <= x.label => z.label <= y.label
        BY <2>1, <2>3
      <3>2. ~(y.label <= x.label)
        BY <2>1, <2>3
      <3> QED BY <1>6, <3>1, <3>2
    <2>4. \A x, y \in own : x /= y => x.label < y.label \/ y.label < x.label
      BY <1>5, <2>1
    <2>5. \A x, y \in own : x /= y =>
             \/ upTo[x] \subseteq upTo[y] /\ y \notin upTo[x]
             \/ upTo[y] \subseteq upTo[x] /\ x \notin upTo[y]
      BY <2>3, <2>4
    <2> QED BY <1>3, <1>6, <2>2, <2>5, Ranks
  <1>10. \A i \in 1 .. n : ours[i] \in own /\ Cardinality(upTo[ours[i]]) = i
    <2> SUFFICES ASSUME NEW i \in 1 .. n PROVE ours[i] \in own /\ Cardinality(upTo[ours[i]]) = i
      OBVIOUS
    <2> HIDE DEF upTo, count, own
    <2>1. ours[i] = CHOOSE x \in own : count(x) = i
      BY <1>7
    <2>2. \E x \in own : count(x) = i
      BY <1>8, <1>9
    <2>3. ours[i] \in own /\ count(ours[i]) = i
      BY <2>1, <2>2
    <2> QED BY <1>8, <2>3
  <1>11. Len(ours) = n /\ ours \in Seq([label : Labels, item : ItemType]) /\ DOMAIN ours = 1 .. n
    <2>1. ASSUME NEW x \in own PROVE x \in [label : Labels, item : ItemType]
      <3>1. x = [label |-> x.label, item |-> x.item] /\ x.label \in Labels /\ x.item \in ItemType
        BY <1>4
      <3> HIDE DEF own
      <3> QED BY <3>1
    <2>2. \A i \in 1 .. n : ours[i] \in [label : Labels, item : ItemType]
      <3> HIDE DEF own, ours
      <3> QED BY <1>10, <2>1
    <2>3. DOMAIN ours = 1 .. n /\ ours = [i \in 1 .. n |-> ours[i]]
      BY <1>7
    <2> HIDE DEF ours, n
    <2> DEFINE R == [label : Labels, item : ItemType]
    <2>4. ours \in [1 .. n -> R]
      BY <2>2, <2>3
    <2> HIDE DEF R
    <2>5. ours \in Seq(R) /\ Len(ours) = n
      <3>1. n \in Nat
        BY <1>3 DEF n
      <3> QED BY <2>4, <3>1, SeqOf
    <2> QED BY <2>3, <2>5 DEF R
  <1>12. \A i \in 1 .. n : /\ ours[i].label \in shown
                           /\ ours[i].item = upstream[ours[i].label]
                           /\ ours[i] \in page
    BY <1>1, <1>2, <1>10 DEF OfPlan
  <1>13. ASSUME NEW l \in shown PROVE \E i \in 1 .. n : ours[i].label = l
    <2> DEFINE x == [label |-> l, item |-> upstream[l]]
    <2>1. x \in own
      BY <1>1 DEF OfPlan
    <2> HIDE DEF upTo, x
    <2>2. PICK i \in 1 .. n : Cardinality(upTo[x]) = i
      BY <1>9, <2>1
    <2>3. ours[i] \in own /\ Cardinality(upTo[ours[i]]) = i
      BY <1>10
    <2> DEFINE y == ours[i]
    <2> HIDE DEF own, ours
    <2>4. y \in own /\ Cardinality(upTo[y]) = Cardinality(upTo[x]) /\ Cardinality(upTo[x]) \in Int
      BY <1>3, <2>2, <2>3
    <2> HIDE DEF y
    <2>5. y \in upTo[x] /\ x \in upTo[y]
      BY <1>9, <2>1, <2>4
    <2>6. y.label <= x.label /\ x.label <= y.label
      BY <1>6, <2>1, <2>4, <2>5
    <2>7. y.label \in Nat /\ x.label \in Nat
      BY <1>4, <2>1, <2>4 DEF own
    <2>8. y = x
      BY <1>5, <2>1, <2>4, <2>6, <2>7
    <2> QED BY <2>8 DEF y, x
  <1>14. ASSUME NEW i \in 1 .. n, NEW j \in 1 .. n, i < j PROVE ours[i].label < ours[j].label
    <2>1. ours[i] \in own /\ ours[j] \in own
      BY <1>10
    <2>2. ours[j] \notin upTo[ours[i]]
      <3> SUFFICES ASSUME ours[j] \in upTo[ours[i]] PROVE FALSE
        OBVIOUS
      <3> HIDE DEF upTo, own, ours
      <3>1. ours[i] \in upTo[ours[j]] \/ Cardinality(upTo[ours[j]]) < Cardinality(upTo[ours[i]])
        BY <1>9, <2>1
      <3>2. ours[i] \in upTo[ours[j]]
        BY <1>10, <1>14, <3>1
      <3>3. ours[i].label <= ours[j].label /\ ours[j].label <= ours[i].label
        BY <1>6, <2>1, <3>2
      <3>4. ours[i].label = ours[j].label
        BY <1>4, <2>1, <3>3 DEF own
      <3>5. ours[i] = ours[j]
        BY <1>5, <2>1, <3>4
      <3> QED BY <1>10, <1>14, <3>5
    <2>3. ~(ours[j].label <= ours[i].label)
      BY <1>6, <2>1, <2>2
    <2> QED BY <1>4, <2>1, <2>3
  <1> HIDE DEF ours, shown, page, n
  <1>15. /\ \A i \in 1 .. Len(ours) : /\ ours[i].label \in shown
                                      /\ ours[i].item = upstream[ours[i].label]
                                      /\ ours[i] \in page
         /\ \A l \in shown : \E i \in 1 .. Len(ours) : ours[i].label = l
         /\ \A i, j \in 1 .. Len(ours) : i < j => ours[i].label < ours[j].label
    BY <1>11, <1>12, <1>13, <1>14
  <1> QED BY <1>11, <1>15 DEF ours, shown, page

-----------------------------------------------------------------------------
(* What a fetch has collected. *)

Revision == [label : Labels, item : ItemType, request : Nat]

\* A page adds its items of the plan to the end, by label.
LEMMA CollectedFacts ==
  ASSUME UpstreamOK, NEW from \in Nat, requests \in Nat, revisions \in Seq(Revision)
  PROVE  LET all == Collected(PageAt(from))
             n == Len(revisions)
             shown == { l \in Shown(from) : l \in OfPlan }
         IN  /\ all \in Seq(Revision) /\ n \in Nat /\ Len(all) \in Nat /\ n <= Len(all)
             /\ \A i \in 1 .. n : all[i] = revisions[i]
             /\ \A i \in n + 1 .. Len(all) :
                  /\ all[i].label \in shown
                  /\ all[i].item = upstream[all[i].label]
                  /\ all[i].request = requests + 1
                  /\ \E x \in PageAt(from) : x.item = all[i].item
             /\ \A l \in shown : \E i \in n + 1 .. Len(all) : all[i].label = l
             /\ \A i, j \in n + 1 .. Len(all) : i < j => all[i].label < all[j].label
  <1> DEFINE ours == Ours(PageAt(from))
             m == Len(ours)
             n == Len(revisions)
             shown == { l \in Shown(from) : l \in OfPlan }
             added == [ i \in 1 .. m |-> [ label |-> ours[i].label, item |-> ours[i].item,
                                          request |-> requests + 1 ] ]
             all == Collected(PageAt(from))
             R == Revision
             Q == [label : Labels, item : ItemType]
  <1>1. /\ ours \in Seq(Q)
        /\ \A i \in 1 .. m : /\ ours[i].label \in shown
                             /\ ours[i].item = upstream[ours[i].label]
                             /\ ours[i] \in PageAt(from)
        /\ \A l \in shown : \E i \in 1 .. m : ours[i].label = l
        /\ \A i, j \in 1 .. m : i < j => ours[i].label < ours[j].label
    BY PageInOrder
  <1>2. all = revisions \o added
    BY DEF Collected
  <1>3. m \in Nat /\ n \in Nat
    <2> HIDE DEF ours, Q
    <2>1. m \in Nat
      BY <1>1
    <2> HIDE DEF m
    <2> QED BY <2>1
  <1>4. \A i \in 1 .. m : added[i] \in R
    <2> SUFFICES ASSUME NEW i \in 1 .. m PROVE added[i] \in R
      OBVIOUS
    <2>1. ours[i] \in Q
      <3> HIDE DEF ours, Q
      <3> QED BY <1>1
    <2>2. ours[i].label \in Labels /\ ours[i].item \in ItemType /\ requests + 1 \in Nat
      BY <2>1
    <2> QED BY <2>2 DEF Revision
  <1>5. \A i \in 1 .. m : /\ added[i].label = ours[i].label /\ added[i].item = ours[i].item
                          /\ added[i].request = requests + 1
    OBVIOUS
  <1>6. DOMAIN added = 1 .. m /\ added \in [1 .. m -> R]
    <2>1. DOMAIN added = 1 .. m /\ added = [i \in 1 .. m |-> added[i]]
      OBVIOUS
    <2> HIDE DEF added, m, R
    <2> QED BY <1>4, <2>1
  <1>7. revisions \in Seq(R)
    OBVIOUS
  <1> HIDE DEF added, m, R, ours, shown, all
  <1>8. added \in Seq(R) /\ Len(added) = m
    BY <1>3, <1>6, SeqOf
  <1>9. /\ all \in Seq(R) /\ Len(all) = n + m
        /\ \A i \in 1 .. n + m : all[i] = IF i <= n THEN revisions[i] ELSE added[i - n]
    BY <1>2, <1>7, <1>8, ConcatProperties
  <1> HIDE DEF n
  <1>10. \A i \in 1 .. n : all[i] = revisions[i]
    BY <1>3, <1>9
  <1>11. \A i \in n + 1 .. n + m : i - n \in 1 .. m /\ all[i] = added[i - n]
    BY <1>3, <1>9
  <1>12. \A i \in 1 .. m : i + n \in n + 1 .. n + m /\ all[i + n] = added[i]
    BY <1>3, <1>9
  <1>13. ASSUME NEW i \in n + 1 .. n + m
         PROVE  /\ all[i].label \in shown /\ all[i].item = upstream[all[i].label]
                /\ all[i].request = requests + 1
                /\ \E x \in PageAt(from) : x.item = all[i].item
    <2>1. PICK k \in 1 .. m : all[i] = added[k]
      BY <1>11
    <2> QED BY <1>1, <1>5, <2>1
  <1>14. ASSUME NEW l \in shown PROVE \E i \in n + 1 .. n + m : all[i].label = l
    <2>1. PICK k \in 1 .. m : ours[k].label = l
      BY <1>1
    <2> QED BY <1>5, <1>12, <2>1
  <1>15. ASSUME NEW i \in n + 1 .. n + m, NEW j \in n + 1 .. n + m, i < j
         PROVE  all[i].label < all[j].label
    <2>1. /\ i - n \in 1 .. m /\ all[i] = added[i - n]
          /\ j - n \in 1 .. m /\ all[j] = added[j - n]
      BY <1>11
    <2>2. i - n < j - n
      BY <1>3, <1>15
    <2> QED BY <1>1, <1>5, <2>1, <2>2
  <1>16. n + m \in Nat /\ n <= n + m
    BY <1>3
  <1> QED
    <2>1. /\ all \in Seq(R) /\ n \in Nat /\ Len(all) \in Nat /\ n <= Len(all)
          /\ \A i \in 1 .. n : all[i] = revisions[i]
      BY <1>3, <1>9, <1>10, <1>16
    <2>2. /\ \A i \in n + 1 .. Len(all) :
                  /\ all[i].label \in shown
                  /\ all[i].item = upstream[all[i].label]
                  /\ all[i].request = requests + 1
                  /\ \E x \in PageAt(from) : x.item = all[i].item
          /\ \A l \in shown : \E i \in n + 1 .. Len(all) : all[i].label = l
          /\ \A i, j \in n + 1 .. Len(all) : i < j => all[i].label < all[j].label
      BY <1>9, <1>13, <1>14, <1>15
    <2> QED BY <2>1, <2>2 DEF all, n, shown, R

\* The answer is what was collected, by start and, of one start, as collected.
LEMMA SortedFacts ==
  ASSUME NEW revs \in Seq(Revision)
  PROVE  /\ Sorted(revs) \in Seq(Revision) /\ Len(Sorted(revs)) = Len(revs)
         /\ \E from \in [1 .. Len(revs) -> 1 .. Len(revs)] :
              /\ \A p \in 1 .. Len(revs) : Sorted(revs)[p] = revs[from[p]]
              /\ \A i \in 1 .. Len(revs) : \E p \in 1 .. Len(revs) : from[p] = i
              /\ \A p, q \in 1 .. Len(revs) : p < q =>
                   \/ revs[from[p]].item.start < revs[from[q]].item.start
                   \/ revs[from[p]].item.start = revs[from[q]].item.start /\ from[p] < from[q]
  <1> DEFINE n == Len(revs)
             S == DOMAIN revs
             start(i) == revs[i].item.start
             before(j, i) == start(j) < start(i) \/ (start(j) = start(i) /\ j <= i)
             upTo == [i \in S |-> { j \in S : before(j, i) }]
             place(i) == Cardinality({ j \in S : before(j, i) })
             from == [p \in S |-> CHOOSE i \in S : place(i) = p]
             sorted == Sorted(revs)
  <1>1. n \in Nat /\ S = 1 .. n /\ \A i \in S : revs[i] \in Revision /\ start(i) \in Int
    <2>1. n \in Nat /\ S = 1 .. n /\ \A i \in S : revs[i] \in Revision
      OBVIOUS
    <2>2. \A x \in Revision : x.item.start \in Int
      BY DEF Revision, ItemType
    <2> QED BY <2>1, <2>2
  <1>2. sorted = [p \in S |-> revs[from[p]]]
    BY DEF Sorted
  <1>3. IsFiniteSet(S) /\ Cardinality(S) = n
    BY <1>1, FS_Interval
  <1>4. /\ upTo \in [S -> SUBSET S]
        /\ \A i \in S : \A j : j \in upTo[i] <=> j \in S /\ before(j, i)
        /\ \A i \in S : place(i) = Cardinality(upTo[i])
    OBVIOUS
  <1>5. \A i \in S : before(i, i)
    BY <1>1
  <1>6. \A i, j, k \in S : before(i, j) /\ before(j, k) => before(i, k)
    <2> HIDE DEF start
    <2> QED BY <1>1
  <1>7. \A i, j \in S : i /= j => (before(i, j) /\ ~before(j, i)) \/ (before(j, i) /\ ~before(i, j))
    <2> SUFFICES ASSUME NEW i \in S, NEW j \in S, i /= j
                 PROVE  (before(i, j) /\ ~before(j, i)) \/ (before(j, i) /\ ~before(i, j))
      OBVIOUS
    <2>1. i \in Int /\ j \in Int /\ start(i) \in Int /\ start(j) \in Int
      BY <1>1
    <2>2. i < j \/ j < i
      BY <2>1
    <2> HIDE DEF start, S
    <2> QED BY <2>1, <2>2
  <1>8. /\ \A x \in S : Cardinality(upTo[x]) \in 1 .. Cardinality(S)
        /\ \A x, y \in S : x \notin upTo[y] => Cardinality(upTo[y]) < Cardinality(upTo[x])
        /\ \A k \in 1 .. Cardinality(S) : \E x \in S : Cardinality(upTo[x]) = k
    <2> HIDE DEF upTo, before, S
    <2>1. \A x \in S : x \in upTo[x]
      BY <1>4, <1>5
    <2>2. ASSUME NEW x \in S, NEW y \in S, before(x, y), ~before(y, x)
          PROVE  upTo[x] \subseteq upTo[y] /\ y \notin upTo[x]
      BY <1>4, <1>6, <2>2
    <2>3. \A x, y \in S : x /= y =>
             \/ upTo[x] \subseteq upTo[y] /\ y \notin upTo[x]
             \/ upTo[y] \subseteq upTo[x] /\ x \notin upTo[y]
      BY <1>7, <2>2
    <2> QED BY <1>3, <1>4, <2>1, <2>3, Ranks
  <1>9. \A p \in S : from[p] \in S /\ Cardinality(upTo[from[p]]) = p
    <2> SUFFICES ASSUME NEW p \in S PROVE from[p] \in S /\ Cardinality(upTo[from[p]]) = p
      OBVIOUS
    <2>1. from[p] = CHOOSE i \in S : place(i) = p
      OBVIOUS
    <2> HIDE DEF from, place, upTo
    <2>2. \E i \in S : place(i) = p
      BY <1>3, <1>4, <1>8
    <2>3. from[p] \in S /\ place(from[p]) = p
      BY <2>1, <2>2
    <2> QED BY <1>4, <2>3
  <1>10. from \in [S -> S]
    BY <1>9
  <1>11. \A i \in S : \E p \in S : from[p] = i
    <2> SUFFICES ASSUME NEW i \in S PROVE \E p \in S : from[p] = i
      OBVIOUS
    <2> HIDE DEF from, upTo, before
    <2>1. PICK p \in S : Cardinality(upTo[i]) = p
      BY <1>3, <1>8
    <2>2. from[p] \in S /\ Cardinality(upTo[from[p]]) = p
      BY <1>9
    <2> DEFINE k == from[p]
    <2> HIDE DEF k
    <2>3. k \in S /\ Cardinality(upTo[k]) = Cardinality(upTo[i]) /\ Cardinality(upTo[i]) \in Int
      BY <2>1, <2>2 DEF k
    <2>4. i \in upTo[k] /\ k \in upTo[i]
      BY <1>8, <2>3
    <2>5. before(i, k) /\ before(k, i)
      BY <1>4, <2>3, <2>4
    <2>6. k = i
      BY <1>7, <2>3, <2>5
    <2> QED BY <2>6 DEF k
  <1>12. ASSUME NEW p \in S, NEW q \in S, p < q
         PROVE  \/ start(from[p]) < start(from[q])
                \/ start(from[p]) = start(from[q]) /\ from[p] < from[q]
    <2>1. /\ from[p] \in S /\ Cardinality(upTo[from[p]]) = p
          /\ from[q] \in S /\ Cardinality(upTo[from[q]]) = q
      BY <1>9
    <2> DEFINE i == from[p]
               j == from[q]
    <2> HIDE DEF from, upTo, i, j
    <2>2. i \in S /\ j \in S /\ Cardinality(upTo[i]) < Cardinality(upTo[j])
          /\ Cardinality(upTo[i]) \in Int /\ Cardinality(upTo[j]) \in Int
      BY <1>12, <2>1 DEF i, j
    <2>3. i \in upTo[j]
      <3> SUFFICES ASSUME i \notin upTo[j] PROVE FALSE
        OBVIOUS
      <3>1. Cardinality(upTo[j]) < Cardinality(upTo[i])
        BY <1>8, <2>2
      <3> QED BY <2>2, <3>1
    <2>4. before(i, j) /\ i /= j
      BY <1>4, <2>2, <2>3
    <2>5. start(i) < start(j) \/ (start(i) = start(j) /\ i < j)
      BY <2>2, <2>4
    <2> QED BY <2>5 DEF i, j
  <1>13. sorted \in Seq(Revision) /\ Len(sorted) = n /\ \A p \in S : sorted[p] = revs[from[p]]
    <2>1. \A p \in S : sorted[p] = revs[from[p]] /\ from[p] \in S
      BY <1>2, <1>9
    <2>2. \A p \in S : revs[from[p]] \in Revision
      BY <1>1, <1>9
    <2>3. sorted = [p \in S |-> sorted[p]]
      BY <1>2
    <2> HIDE DEF sorted, from
    <2>4. sorted \in [1 .. n -> Revision]
      BY <1>1, <2>1, <2>2, <2>3
    <2> HIDE DEF n
    <2> QED BY <1>1, <2>1, <2>4, SeqOf
  <1> HIDE DEF from, sorted, n
  <1>14. \A p, q \in S : p < q =>
           \/ revs[from[p]].item.start < revs[from[q]].item.start
           \/ revs[from[p]].item.start = revs[from[q]].item.start /\ from[p] < from[q]
    BY <1>12
  <1> HIDE DEF start, S, upTo, before
  <1>15. \E g \in [1 .. n -> 1 .. n] :
           /\ \A p \in 1 .. n : sorted[p] = revs[g[p]]
           /\ \A i \in 1 .. n : \E p \in 1 .. n : g[p] = i
           /\ \A p, q \in 1 .. n : p < q =>
                \/ revs[g[p]].item.start < revs[g[q]].item.start
                \/ revs[g[p]].item.start = revs[g[q]].item.start /\ g[p] < g[q]
    <2>1. from \in [1 .. n -> 1 .. n]
      BY <1>1, <1>10
    <2>2. /\ \A p \in 1 .. n : sorted[p] = revs[from[p]]
          /\ \A i \in 1 .. n : \E p \in 1 .. n : from[p] = i
          /\ \A p, q \in 1 .. n : p < q =>
               \/ revs[from[p]].item.start < revs[from[q]].item.start
               \/ revs[from[p]].item.start = revs[from[q]].item.start /\ from[p] < from[q]
      BY <1>1, <1>11, <1>13, <1>14
    <2> QED BY <2>1, <2>2
  <1> QED BY <1>13, <1>15 DEF sorted, n

-----------------------------------------------------------------------------
(* The invariant of a fetch. *)

TypesInv ==
  /\ UpstreamOK
  /\ paging \in BOOLEAN /\ changes \in Nat /\ requests \in Nat /\ offset \in Nat
  /\ revisions \in Seq(Revision)
  /\ \A i \in 1 .. Len(revisions) : Parses(revisions[i].item)

\* A service that keeps to the offset has been asked for as many full pages as
\* make up the offset; the other one has answered each time with a new first
\* page, and only a change makes it a new one.
RequestsInv ==
  /\ paging =>
       /\ pc = "fetching" => requests * PageSize = offset
       /\ pc /= "fetching" /\ requests > 0 => (requests - 1) * PageSize <= Cardinality(Labels)
  /\ paging /\ pc = "fetching" => offset <= Cardinality(Labels)
  /\ ~paging =>
       /\ requests <= changes + 2
       /\ pc = "fetching" =>
            /\ requests <= changes + 1
            /\ PageAt(0) \notin seenPages => requests <= changes

\* What was collected is in the order of the requests, and one response has a
\* label once.
CopiesInv ==
  pc = "fetching" =>
    \A i, j \in 1 .. Len(revisions) :
      /\ revisions[i].request <= requests
      /\ i < j => revisions[i].request <= revisions[j].request
      /\ i < j /\ revisions[i].label = revisions[j].label =>
           revisions[i].request < revisions[j].request

\* What has been of the plan all along was read or is still to come.
SteadyInv ==
  pc = "fetching" =>
    /\ steady \subseteq OfPlan
    /\ paging /\ "withdraw" \notin since =>
         \A l \in steady : Place(l) < offset => \E i \in 1 .. Len(revisions) : revisions[i].label = l

\* While nothing changes: what is of the plan and before the offset has been
\* read, once and by label, and every page was a full one before the offset.
QuietInv ==
  pc = "fetching" /\ paging /\ since = {} =>
    /\ \A i, j \in 1 .. Len(revisions) : i < j => revisions[i].label < revisions[j].label
    /\ \A i \in 1 .. Len(revisions) :
         /\ revisions[i].label \in OfPlan /\ Place(revisions[i].label) < offset
         /\ revisions[i].item = upstream[revisions[i].label]
    /\ \A l \in OfPlan : Place(l) < offset => \E i \in 1 .. Len(revisions) : revisions[i].label = l
    /\ \A page \in seenPages :
         \E from \in Nat : page = PageAt(from) /\ from + PageSize <= offset /\ Full(page)

FetchInv == TypesInv /\ RequestsInv /\ CopiesInv /\ SteadyInv /\ QuietInv

LEMMA EmptyAnswer ==
  ASSUME revisions = <<>>
  PROVE  revisions \in Seq(Revision) /\ Len(revisions) = 0 /\ 1 .. Len(revisions) = {}
  <1>1. Len(revisions) = 0 /\ revisions \in Seq(Revision)
    OBVIOUS
  <1> QED BY <1>1

LEMMA FetchBegins == Init => FetchInv
  <1> SUFFICES ASSUME Init PROVE FetchInv
    OBVIOUS
  <1>1. revisions \in Seq(Revision) /\ 1 .. Len(revisions) = {}
    BY EmptyAnswer DEF Init
  <1>2. TypesInv
    BY <1>1, UpstreamsAssumption DEF Init, TypesInv, UpstreamOK
  <1>3. RequestsInv /\ CopiesInv /\ SteadyInv /\ QuietInv
    BY DEF Init, RequestsInv, CopiesInv, SteadyInv, QuietInv
  <1> QED BY <1>2, <1>3 DEF FetchInv

\* A new fetch has asked for nothing and read nothing.
LEMMA BeginKeeps == FetchInv /\ Begin => FetchInv'
  <1> SUFFICES ASSUME FetchInv, Begin PROVE FetchInv'
    OBVIOUS
  <1>1. /\ upstream' = upstream /\ paging' = paging /\ changes' = changes
        /\ pc' = "fetching" /\ offset' = 0 /\ seenPages' = {} /\ revisions' = <<>>
        /\ requests' = 0 /\ since' = {} /\ steady' = OfPlan
    BY DEF Begin, service
  <1>2. revisions' \in Seq(Revision) /\ 1 .. Len(revisions') = {}
    <2>1. Len(<<>>) = 0 /\ <<>> \in Seq(Revision) /\ 1 .. 0 = {}
      OBVIOUS
    <2> QED BY <1>1, <2>1
  <1>3. TypesInv'
    BY <1>1, <1>2 DEF FetchInv, TypesInv, UpstreamOK
  <1>4. OfPlan' = OfPlan /\ Listed' = Listed
    BY <1>1 DEF OfPlan, Listed
  <1>5. RequestsInv'
    <2>1. PageSize \in Nat /\ changes \in Nat /\ Cardinality(Labels) \in Nat
      BY BoundsAssumption, LabelsAssumption, FS_CardinalityType DEF FetchInv, TypesInv
    <2>2. requests' * PageSize = offset' /\ offset' <= Cardinality(Labels)
          /\ requests' <= changes' /\ requests' <= changes' + 1 /\ requests' <= changes' + 2
      BY <1>1, <2>1
    <2> QED BY <1>1, <2>2 DEF RequestsInv
  <1>6. CopiesInv'
    BY <1>2 DEF CopiesInv
  <1>7. SteadyInv'
    <2>1. \A l \in steady' : ~(Place(l)' < offset')
      <3> SUFFICES ASSUME NEW l \in OfPlan PROVE ~(Place(l)' < 0)
        BY <1>1
      <3>1. Place(l)' = Place(l)
        BY <1>4 DEF Place
      <3>2. Place(l) \in 0 .. Cardinality(Listed) - 1
        BY Places DEF OfPlan
      <3>3. Place(l) >= 0
        BY <3>2, ListedFinite
      <3>4. Place(l) \in Int
        BY <3>2
      <3> QED BY <3>1, <3>3, <3>4
    <2> QED BY <1>1, <1>4, <2>1 DEF SteadyInv
  <1>8. QuietInv'
    <2>1. \A l \in OfPlan' : ~(Place(l)' < offset')
      <3> SUFFICES ASSUME NEW l \in OfPlan PROVE ~(Place(l)' < 0)
        BY <1>1, <1>4
      <3>1. Place(l)' = Place(l)
        BY <1>4 DEF Place
      <3>2. Place(l) \in 0 .. Cardinality(Listed) - 1
        BY Places DEF OfPlan
      <3>3. Place(l) >= 0 /\ Place(l) \in Int
        BY <3>2, ListedFinite
      <3> QED BY <3>1, <3>3
    <2> QED BY <1>1, <1>2, <2>1 DEF QuietInv
  <1> QED BY <1>3, <1>5, <1>6, <1>7, <1>8 DEF FetchInv

LEMMA FailKeeps == FetchInv /\ RequestFails => FetchInv'
  <1> SUFFICES ASSUME FetchInv, RequestFails PROVE FetchInv'
    OBVIOUS
  <1>1. /\ upstream' = upstream /\ paging' = paging /\ changes' = changes
        /\ pc = "fetching" /\ pc' = "failed" /\ offset' = offset /\ seenPages' = seenPages
        /\ revisions' = revisions /\ requests' = requests + 1
    BY DEF RequestFails, service, history
  <1>2. TypesInv'
    BY <1>1 DEF FetchInv, TypesInv, UpstreamOK
  <1>3. RequestsInv'
    <2>1. requests \in Nat /\ changes \in Nat /\ offset \in Nat
      BY DEF FetchInv, TypesInv
    <2>2. paging => (requests' - 1) * PageSize <= Cardinality(Labels)
      <3>1. requests' - 1 = requests
        BY <1>1, <2>1
      <3> QED BY <1>1, <3>1 DEF FetchInv, RequestsInv
    <2>3. ~paging => requests <= changes + 1
      BY <1>1 DEF FetchInv, RequestsInv
    <2>4. ~paging => requests' <= changes' + 2
      BY <1>1, <2>1, <2>3
    <2> QED BY <1>1, <2>2, <2>4 DEF RequestsInv
  <1>4. CopiesInv' /\ SteadyInv' /\ QuietInv'
    BY <1>1 DEF CopiesInv, SteadyInv, QuietInv
  <1> QED BY <1>2, <1>3, <1>4 DEF FetchInv

-----------------------------------------------------------------------------
(* A change of the upstream. *)

LEMMA ChangedUpstream ==
  ASSUME UpstreamOK, NEW l \in Labels, NEW item \in ItemType \cup {None},
         upstream' = [upstream EXCEPT ![l] = item]
  PROVE  /\ UpstreamOK'
         /\ \A k \in Labels : k /= l => upstream'[k] = upstream[k]
         /\ upstream'[l] = item
  BY DEF UpstreamOK

\* Without a withdrawal nothing moves up.
LEMMA PlacesRise ==
  ASSUME UpstreamOK, UpstreamOK', NEW l \in Labels, NEW item \in ItemType,
         upstream' = [upstream EXCEPT ![l] = item]
  PROVE  \A k \in Listed : k \in Listed' /\ Place(k) \in Nat /\ Place(k)' \in Nat
                           /\ Place(k) <= Place(k)'
  <1>1. Listed \subseteq Listed' /\ Listed' \subseteq Labels
    BY ItemsAssumption, ChangedUpstream DEF Listed
  <1>2. IsFiniteSet(Listed')
    BY <1>1, LabelsAssumption, FS_Subset
  <1> SUFFICES ASSUME NEW k \in Listed
               PROVE  Place(k) \in Nat /\ Place(k)' \in Nat /\ Place(k) <= Place(k)'
    BY <1>1
  <1> DEFINE A == { j \in Listed : j < k }
             B == { j \in Listed' : j < k }
  <1>3. A \in SUBSET B /\ B \in SUBSET Listed'
    BY <1>1
  <1>4. Place(k) = Cardinality(A) /\ Place(k)' = Cardinality(B)
    BY DEF Place
  <1>5. IsFiniteSet(B)
    BY <1>2, <1>3, FS_Subset
  <1> HIDE DEF A, B
  <1>6. IsFiniteSet(A) /\ Cardinality(A) <= Cardinality(B)
    BY <1>3, <1>5, FS_Subset
  <1> QED BY <1>4, <1>5, <1>6, FS_CardinalityType

\* A change leaves what was read alone and may make the first page a new one.
LEMMA ChangeKeeps ==
  ASSUME FetchInv, NEW kind, NEW l \in Labels, NEW item \in ItemType \cup {None},
         kind /= "withdraw" => item \in ItemType, Change(kind, l, item)
  PROVE  FetchInv'
  <1>1. /\ upstream' = [upstream EXCEPT ![l] = item] /\ paging' = paging
        /\ changes' = changes + 1 /\ pc = "fetching" /\ pc' = pc /\ offset' = offset
        /\ seenPages' = seenPages /\ revisions' = revisions /\ requests' = requests
        /\ since' = since \cup {kind}
        /\ steady' = { k \in steady : k = l => item /= None /\ item.ours }
    BY DEF Change, client
  <1>2. /\ UpstreamOK' /\ \A k \in Labels : k /= l => upstream'[k] = upstream[k]
        /\ upstream'[l] = item
    BY <1>1, ChangedUpstream DEF FetchInv, TypesInv
  <1>3. TypesInv'
    BY <1>1, <1>2 DEF FetchInv, TypesInv
  <1>4. requests \in Nat /\ changes \in Nat
    BY DEF FetchInv, TypesInv
  <1>5. RequestsInv'
    <2>1. /\ paging => requests * PageSize = offset
          /\ paging => offset <= Cardinality(Labels)
          /\ ~paging => requests <= changes + 2 /\ requests <= changes + 1
      BY <1>1 DEF FetchInv, RequestsInv
    <2>2. ~paging => /\ requests' <= changes' + 2 /\ requests' <= changes' + 1
                     /\ requests' <= changes'
      BY <1>1, <1>4, <2>1
    <2>3. /\ paging' => requests' * PageSize = offset'
          /\ paging' => offset' <= Cardinality(Labels)
      BY <1>1, <2>1
    <2> QED BY <1>1, <2>2, <2>3 DEF RequestsInv
  <1>6. CopiesInv'
    BY <1>1 DEF FetchInv, CopiesInv
  <1>7. SteadyInv'
    <2>1. steady \subseteq OfPlan
      BY <1>1 DEF FetchInv, SteadyInv
    <2>2. steady' \subseteq OfPlan'
      <3> SUFFICES ASSUME NEW k \in steady' PROVE k \in OfPlan'
        OBVIOUS
      <3>1. k \in OfPlan /\ k \in Labels /\ (k = l => item /= None /\ item.ours)
        BY <1>1, <2>1 DEF OfPlan, Listed
      <3> QED BY <1>2, <3>1 DEF OfPlan, Listed
    <2>3. ASSUME paging', "withdraw" \notin since', NEW k \in steady', Place(k)' < offset'
          PROVE  \E i \in 1 .. Len(revisions') : revisions'[i].label = k
      <3>1. k \in steady /\ k \in Listed
        BY <1>1, <2>1, <2>3 DEF OfPlan
      <3>2. item \in ItemType /\ "withdraw" \notin since
        BY <1>1, <2>3
      <3>3. Place(k) \in Nat /\ Place(k)' \in Nat /\ Place(k) <= Place(k)' /\ offset \in Nat
        BY <1>1, <1>2, <3>1, <3>2, PlacesRise DEF FetchInv, TypesInv
      <3>4. Place(k) < offset
        BY <1>1, <2>3, <3>3
      <3> QED BY <1>1, <2>3, <3>1, <3>2, <3>4 DEF FetchInv, SteadyInv
    <2> QED BY <2>2, <2>3 DEF SteadyInv
  <1>8. QuietInv'
    BY <1>1 DEF QuietInv
  <1> QED BY <1>3, <1>5, <1>6, <1>7, <1>8 DEF FetchInv

-----------------------------------------------------------------------------
(* A page that is read. *)

\* The offset the page comes from.
From == IF paging THEN offset ELSE 0

LEMMA ResponseFrom == Response = PageAt(From) /\ (offset \in Nat => From \in Nat)
  BY DEF Response, From

\* What is collected with a page that parses: every item of it parses, and
\* copies follow the requests.
LEMMA CollectedOrder ==
  ASSUME FetchInv, pc = "fetching", ParsesOurs(Response)
  PROVE  LET all == Collected(Response)
         IN  /\ all \in Seq(Revision)
             /\ \A i \in 1 .. Len(all) : Parses(all[i].item)
             /\ \A i, j \in 1 .. Len(all) :
                  /\ all[i].request <= requests + 1
                  /\ i < j => all[i].request <= all[j].request
                  /\ i < j /\ all[i].label = all[j].label => all[i].request < all[j].request
  <1> DEFINE page == PageAt(From)
             all == Collected(page)
             n == Len(revisions)
             m == Len(all)
             shown == { l \in Shown(From) : l \in OfPlan }
  <1>1. UpstreamOK /\ offset \in Nat /\ requests \in Nat /\ revisions \in Seq(Revision)
    BY DEF FetchInv, TypesInv
  <1>2. Response = PageAt(From) /\ From \in Nat
    BY <1>1, ResponseFrom
  <1>3. /\ all \in Seq(Revision) /\ n \in Nat /\ m \in Nat /\ n <= m
        /\ \A i \in 1 .. n : all[i] = revisions[i]
        /\ \A i \in n + 1 .. m :
             /\ all[i].label \in shown
             /\ all[i].item = upstream[all[i].label]
             /\ all[i].request = requests + 1
             /\ \E x \in page : x.item = all[i].item
        /\ \A i, j \in n + 1 .. m : i < j => all[i].label < all[j].label
    BY <1>1, <1>2, CollectedFacts
  <1>4. \A i \in 1 .. n : /\ Parses(revisions[i].item)
                          /\ revisions[i].request <= requests /\ revisions[i].request \in Nat
    <2>1. \A i \in 1 .. n : Parses(revisions[i].item) /\ revisions[i].request <= requests
      BY DEF FetchInv, TypesInv, CopiesInv
    <2>2. \A i \in 1 .. n : revisions[i] \in Revision
      BY <1>1
    <2> QED BY <2>1, <2>2 DEF Revision
  <1>5. \A i, j \in 1 .. n : i < j => /\ revisions[i].request <= revisions[j].request
                                      /\ revisions[i].label = revisions[j].label =>
                                           revisions[i].request < revisions[j].request
    BY DEF FetchInv, CopiesInv
  <1>6. \A i \in n + 1 .. m : Parses(all[i].item)
    <2> SUFFICES ASSUME NEW i \in n + 1 .. m PROVE Parses(all[i].item)
      OBVIOUS
    <2>1. PICK x \in page : x.item = all[i].item
      BY <1>3
    <2>2. all[i].item.ours
      BY <1>3 DEF OfPlan
    <2> QED BY <1>2, <2>1, <2>2 DEF ParsesOurs
  <1>7. \A i \in n + 1 .. m : all[i].label \in Nat
    BY <1>3, ListedFinite DEF Shown
  <1> HIDE DEF all, n, m, shown
  <1>8. \A i \in 1 .. m : i \in 1 .. n \/ i \in n + 1 .. m
    BY <1>3
  <1>9. \A i \in 1 .. m : Parses(all[i].item)
    BY <1>3, <1>4, <1>6, <1>8
  <1>10. ASSUME NEW i \in 1 .. m, NEW j \in 1 .. m
         PROVE  /\ all[i].request <= requests + 1
                /\ i < j => all[i].request <= all[j].request
                /\ i < j /\ all[i].label = all[j].label => all[i].request < all[j].request
    <2>1. /\ i \in 1 .. n => all[i] = revisions[i] /\ all[i].request \in Nat /\ all[i].request <= requests
          /\ i \in n + 1 .. m => all[i].request = requests + 1
          /\ j \in n + 1 .. m => all[j].request = requests + 1
      BY <1>3, <1>4
    <2>2. all[i].request <= requests + 1
      BY <1>1, <1>8, <2>1
    <2>3. CASE i \in 1 .. n /\ j \in 1 .. n
      BY <1>3, <1>5, <2>2, <2>3
    <2>4. CASE i \in 1 .. n /\ j \in n + 1 .. m
      BY <1>1, <2>1, <2>2, <2>4
    <2>5. CASE i \in n + 1 .. m /\ j \in 1 .. n
      BY <1>3, <2>2, <2>5
    <2>6. CASE i \in n + 1 .. m /\ j \in n + 1 .. m
      <3>1. i < j => all[i].label /= all[j].label
        BY <1>3, <1>7, <2>6
      <3>2. all[i].request <= all[j].request
        BY <1>1, <2>1, <2>6
      <3> QED BY <2>2, <3>1, <3>2
    <2> QED BY <1>8, <2>3, <2>4, <2>5, <2>6
  <1>11. Collected(Response) = all
    BY <1>2 DEF all
  <1> QED BY <1>3, <1>9, <1>10, <1>11 DEF m

\* With a page of a service that keeps to the offset, what has been of the plan
\* all along is collected up to the end of the page.
LEMMA CollectedSteady ==
  ASSUME FetchInv, pc = "fetching", paging, "withdraw" \notin since,
         NEW l \in steady, Place(l) < offset + PageSize
  PROVE  \E i \in 1 .. Len(Collected(Response)) : Collected(Response)[i].label = l
  <1> DEFINE all == Collected(Response)
             n == Len(revisions)
             m == Len(all)
             shown == { k \in Shown(offset) : k \in OfPlan }
  <1>1. UpstreamOK /\ offset \in Nat /\ requests \in Nat /\ revisions \in Seq(Revision)
    BY DEF FetchInv, TypesInv
  <1>2. /\ n \in Nat /\ m \in Nat /\ n <= m
        /\ \A i \in 1 .. n : all[i] = revisions[i]
        /\ \A k \in shown : \E i \in n + 1 .. m : all[i].label = k
    BY <1>1, CollectedFacts DEF Response
  <1>3. l \in OfPlan /\ (Place(l) < offset => \E i \in 1 .. n : revisions[i].label = l)
    BY DEF FetchInv, SteadyInv
  <1>4. Place(l) \in Nat
    BY <1>3, Places, ListedFinite DEF OfPlan
  <1> HIDE DEF all, n, m
  <1>5. CASE Place(l) < offset
    <2>1. PICK i \in 1 .. n : revisions[i].label = l
      BY <1>3, <1>5
    <2>2. i \in 1 .. m /\ all[i].label = l
      BY <1>2, <2>1
    <2> QED BY <2>2 DEF all, m
  <1>6. CASE offset <= Place(l)
    <2>1. l \in shown
      BY <1>3, <1>6 DEF Shown, OfPlan
    <2>2. PICK i \in n + 1 .. m : all[i].label = l
      BY <1>2, <2>1
    <2>3. i \in 1 .. m
      BY <1>2
    <2> QED BY <2>2, <2>3 DEF all, m
  <1> QED BY <1>1, <1>4, <1>5, <1>6

\* While nothing changes, what is collected with a page is what is of the plan
\* up to its end.
LEMMA CollectedQuiet ==
  ASSUME FetchInv, pc = "fetching", paging, since = {}
  PROVE  LET all == Collected(Response)
         IN  /\ \A i, j \in 1 .. Len(all) : i < j => all[i].label < all[j].label
             /\ \A i \in 1 .. Len(all) :
                  /\ all[i].label \in OfPlan /\ Place(all[i].label) < offset + PageSize
                  /\ all[i].item = upstream[all[i].label]
             /\ \A l \in OfPlan : Place(l) < offset + PageSize =>
                  \E i \in 1 .. Len(all) : all[i].label = l
  <1> DEFINE all == Collected(Response)
             n == Len(revisions)
             m == Len(all)
             shown == { k \in Shown(offset) : k \in OfPlan }
  <1>1. /\ UpstreamOK /\ offset \in Nat /\ requests \in Nat /\ revisions \in Seq(Revision)
        /\ PageSize \in Nat
    BY BoundsAssumption DEF FetchInv, TypesInv
  <1>2. /\ n \in Nat /\ m \in Nat /\ n <= m
        /\ \A i \in 1 .. n : all[i] = revisions[i]
        /\ \A i \in n + 1 .. m : all[i].label \in shown /\ all[i].item = upstream[all[i].label]
        /\ \A k \in shown : \E i \in n + 1 .. m : all[i].label = k
        /\ \A i, j \in n + 1 .. m : i < j => all[i].label < all[j].label
    BY <1>1, CollectedFacts DEF Response
  <1>3. /\ \A i, j \in 1 .. n : i < j => revisions[i].label < revisions[j].label
        /\ \A i \in 1 .. n :
             /\ revisions[i].label \in OfPlan /\ Place(revisions[i].label) < offset
             /\ revisions[i].item = upstream[revisions[i].label]
        /\ \A l \in OfPlan : Place(l) < offset => \E i \in 1 .. n : revisions[i].label = l
    BY DEF FetchInv, QuietInv
  <1>4. \A k \in OfPlan : k \in Listed /\ k \in Nat /\ Place(k) \in Nat
    BY Places, ListedFinite DEF OfPlan
  <1>5. \A k \in shown : k \in OfPlan /\ offset <= Place(k) /\ Place(k) < offset + PageSize
    BY DEF Shown
  <1>6. \A k \in OfPlan : offset <= Place(k) /\ Place(k) < offset + PageSize => k \in shown
    BY <1>4 DEF Shown
  <1> HIDE DEF all, n, m, shown
  <1>7. \A i \in 1 .. m : i \in 1 .. n \/ i \in n + 1 .. m
    BY <1>2
  <1>8. ASSUME NEW i \in 1 .. m, NEW j \in 1 .. m, i < j PROVE all[i].label < all[j].label
    <2>1. CASE i \in 1 .. n /\ j \in 1 .. n
      BY <1>2, <1>3, <1>8, <2>1
    <2>2. CASE i \in 1 .. n /\ j \in n + 1 .. m
      <3> DEFINE k == all[i].label
                 l == all[j].label
      <3>1. k \in OfPlan /\ Place(k) < offset /\ l \in OfPlan /\ offset <= Place(l)
        BY <1>2, <1>3, <1>5, <2>2
      <3> HIDE DEF k, l
      <3>2. k \in Nat /\ l \in Nat /\ k \in Listed /\ l \in Listed /\ Place(k) \in Nat /\ Place(l) \in Nat
        BY <1>4, <3>1
      <3>3. ~(l < k) /\ l /= k
        <4>1. ~(Place(l) < Place(k)) /\ Place(l) /= Place(k)
          BY <1>1, <3>1, <3>2
        <4> QED BY <3>2, <4>1, Places
      <3>4. k < l
        BY <3>2, <3>3
      <3> QED BY <3>4 DEF k, l
    <2>3. CASE i \in n + 1 .. m /\ j \in 1 .. n
      BY <1>2, <1>8, <2>3
    <2>4. CASE i \in n + 1 .. m /\ j \in n + 1 .. m
      BY <1>2, <1>8, <2>4
    <2> QED BY <1>7, <2>1, <2>2, <2>3, <2>4
  <1>9. ASSUME NEW i \in 1 .. m
        PROVE  /\ all[i].label \in OfPlan /\ Place(all[i].label) < offset + PageSize
               /\ all[i].item = upstream[all[i].label]
    <2>1. CASE i \in 1 .. n
      <3>1. all[i].label \in OfPlan /\ Place(all[i].label) < offset
            /\ all[i].item = upstream[all[i].label]
        BY <1>2, <1>3, <2>1
      <3>2. Place(all[i].label) \in Nat
        BY <1>4, <3>1
      <3>3. Place(all[i].label) < offset + PageSize
        BY <1>1, <3>1, <3>2
      <3> QED BY <3>1, <3>3
    <2>2. CASE i \in n + 1 .. m
      BY <1>2, <1>5, <2>2
    <2> QED BY <1>7, <2>1, <2>2
  <1>10. ASSUME NEW l \in OfPlan, Place(l) < offset + PageSize
         PROVE  \E i \in 1 .. m : all[i].label = l
    <2>1. CASE Place(l) < offset
      <3>1. PICK i \in 1 .. n : revisions[i].label = l
        BY <1>3, <2>1
      <3>2. i \in 1 .. m /\ all[i].label = l
        BY <1>2, <3>1
      <3> QED BY <3>2
    <2>2. CASE offset <= Place(l)
      <3>1. PICK i \in n + 1 .. m : all[i].label = l
        BY <1>2, <1>6, <1>10, <2>2
      <3>2. i \in 1 .. m
        BY <1>2
      <3> QED BY <3>1, <3>2
    <2> QED BY <1>1, <1>4, <2>1, <2>2
  <1> QED BY <1>8, <1>9, <1>10 DEF all, m

\* While nothing changes no page comes twice: the ones read end where this one
\* begins, and they are full.
LEMMA QuietPageIsNew ==
  ASSUME FetchInv, pc = "fetching", paging, since = {}
  PROVE  ~Repeated(Response)
  <1> SUFFICES ASSUME Response \in seenPages PROVE FALSE
    BY DEF Repeated
  <1>1. offset \in Nat /\ PageSize \in Nat /\ PageSize > 0
    BY BoundsAssumption DEF FetchInv, TypesInv
  <1>2. PICK o \in Nat : Response = PageAt(o) /\ o + PageSize <= offset /\ Full(Response)
    BY DEF FetchInv, QuietInv
  <1>3. o + PageSize <= Cardinality(Listed) /\ Cardinality(Listed) \in Nat
    BY <1>2, Pages, ListedFinite
  <1>4. o \in 0 .. Cardinality(Listed) - 1
    BY <1>1, <1>3
  <1>5. PICK l \in Listed : Place(l) = o
    BY <1>4, Places
  <1>6. l \in Shown(o)
    BY <1>1, <1>5 DEF Shown
  <1> DEFINE x == [label |-> l, item |-> upstream[l]]
  <1>7. x \in PageAt(o) /\ x.label = l
    BY <1>6, Pages
  <1>8. x \in PageAt(offset)
    BY <1>2, <1>7 DEF Response
  <1>9. x.label \in Shown(offset)
    BY <1>1, <1>8, Pages
  <1>10. offset <= Place(l)
    BY <1>7, <1>9 DEF Shown
  <1> QED BY <1>1, <1>2, <1>5, <1>10

\* A page that is not full ends at the end of the list.
LEMMA LastPageEndsTheList ==
  ASSUME FetchInv, paging, ~Full(Response), NEW l \in Listed
  PROVE  Place(l) < offset + PageSize
  <1>1. offset \in Nat /\ PageSize \in Nat
    BY BoundsAssumption DEF FetchInv, TypesInv
  <1>2. ~(offset + PageSize <= Cardinality(Listed))
    BY <1>1, Pages DEF Response
  <1>3. Place(l) \in 0 .. Cardinality(Listed) - 1 /\ Cardinality(Listed) \in Nat
    BY Places, ListedFinite
  <1> QED BY <1>1, <1>2, <1>3

LEMMA ReadKeeps == FetchInv /\ ReadPage => FetchInv'
  <1> SUFFICES ASSUME FetchInv, ReadPage PROVE FetchInv'
    OBVIOUS
  <1> DEFINE page == Response
             all == Collected(Response)
             fails == Repeated(page) \/ ~ParsesOurs(page)
  <1>1. /\ pc = "fetching" /\ requests' = requests + 1
        /\ seenPages' = seenPages \cup {page}
        /\ upstream' = upstream /\ paging' = paging /\ changes' = changes
        /\ since' = since /\ steady' = steady
    BY DEF ReadPage, service, history
  <1>2. fails => pc' = "failed" /\ offset' = offset /\ revisions' = revisions
    BY DEF ReadPage
  <1>3. ~fails /\ Full(page) => pc' = "fetching" /\ offset' = offset + PageSize /\ revisions' = all
    BY <1>1 DEF ReadPage
  <1>4. ~fails /\ ~Full(page) =>
          pc' \in {"failed", "done"} /\ offset' = offset /\ revisions' = Sorted(all)
    BY DEF ReadPage
  <1>5. /\ UpstreamOK /\ offset \in Nat /\ requests \in Nat /\ changes \in Nat
        /\ revisions \in Seq(Revision) /\ PageSize \in Nat /\ Cardinality(Labels) \in Nat
        /\ paging \in BOOLEAN
    BY BoundsAssumption, LabelsAssumption, FS_CardinalityType DEF FetchInv, TypesInv
  <1>6. /\ Listed' = Listed /\ OfPlan' = OfPlan /\ \A l : Place(l)' = Place(l)
        /\ \A o : PageAt(o)' = PageAt(o)
    <2>1. Listed' = Listed
      BY <1>1 DEF Listed
    <2>2. \A l : Place(l)' = Place(l)
      BY <2>1 DEF Place
    <2>3. OfPlan' = OfPlan
      BY <1>1, <2>1 DEF OfPlan
    <2>4. \A o : PageAt(o)' = PageAt(o)
      BY <1>1, <2>1, <2>2 DEF PageAt
    <2> QED BY <2>1, <2>2, <2>3, <2>4
  <1>7. ~fails => /\ all \in Seq(Revision)
                  /\ \A i \in 1 .. Len(all) : Parses(all[i].item)
                  /\ \A i, j \in 1 .. Len(all) :
                       /\ all[i].request <= requests + 1
                       /\ i < j => all[i].request <= all[j].request
                       /\ i < j /\ all[i].label = all[j].label => all[i].request < all[j].request
    BY <1>1, CollectedOrder
  <1> HIDE DEF page, all, fails
  <1>8. TypesInv'
    <2>1. UpstreamOK' /\ paging' \in BOOLEAN /\ changes' \in Nat /\ requests' \in Nat /\ offset' \in Nat
      <3>1. UpstreamOK'
        BY <1>1, <1>5 DEF UpstreamOK
      <3>2. offset' \in Nat
        BY <1>2, <1>3, <1>4, <1>5
      <3> QED BY <1>1, <1>5, <3>1, <3>2
    <2>2. revisions' \in Seq(Revision) /\ \A i \in 1 .. Len(revisions') : Parses(revisions'[i].item)
      <3>1. CASE fails
        BY <1>2, <3>1 DEF FetchInv, TypesInv
      <3>2. CASE ~fails /\ Full(page)
        BY <1>3, <1>7, <3>2
      <3>3. CASE ~fails /\ ~Full(page)
        <4>1. revisions' = Sorted(all) /\ all \in Seq(Revision)
          BY <1>4, <1>7, <3>3
        <4>2. Sorted(all) \in Seq(Revision) /\ Len(Sorted(all)) = Len(all)
          BY <4>1, SortedFacts
        <4>3. PICK from \in [1 .. Len(all) -> 1 .. Len(all)] :
                \A p \in 1 .. Len(all) : Sorted(all)[p] = all[from[p]]
          BY <4>1, SortedFacts
        <4>4. \A p \in 1 .. Len(all) : Parses(Sorted(all)[p].item)
          BY <1>7, <3>3, <4>3
        <4> QED BY <4>1, <4>2, <4>4
      <3> QED BY <3>1, <3>2, <3>3
    <2> QED BY <2>1, <2>2 DEF TypesInv
  <1>9. RequestsInv'
    <2>1. /\ paging => requests * PageSize = offset /\ offset <= Cardinality(Labels)
          /\ ~paging => requests <= changes + 1
          /\ ~paging => (PageAt(0) \notin seenPages => requests <= changes)
      BY <1>1 DEF FetchInv, RequestsInv
    <2>2. ASSUME paging
          PROVE  /\ pc' = "fetching" => requests' * PageSize = offset' /\ offset' <= Cardinality(Labels)
                 /\ pc' /= "fetching" => (requests' - 1) * PageSize <= Cardinality(Labels)
      <3>1. requests' - 1 = requests
        BY <1>1, <1>5
      <3>2. (requests' - 1) * PageSize <= Cardinality(Labels)
        BY <2>1, <2>2, <3>1
      <3>3. CASE pc' = "fetching"
        <4>1. ~fails /\ Full(page)
          BY <1>2, <1>4, <3>3
        <4>2. page = PageAt(offset)
          BY <2>2 DEF page, Response
        <4>3. Full(PageAt(offset)) <=> offset + PageSize <= Cardinality(Listed)
          BY <1>5, Pages
        <4>4. offset + PageSize <= Cardinality(Labels)
          <5>1. offset + PageSize <= Cardinality(Listed)
            BY <4>1, <4>2, <4>3
          <5> QED BY <1>5, <5>1, ListedFinite
        <4>5. (requests + 1) * PageSize = requests * PageSize + PageSize
          BY <1>5
        <4>6. requests' * PageSize = offset + PageSize
          BY <1>1, <2>1, <2>2, <4>5
        <4> QED BY <1>3, <4>1, <4>4, <4>6, <3>3
      <3> QED BY <3>2, <3>3
    <2>3. ASSUME ~paging
          PROVE  /\ requests' <= changes' + 2
                 /\ pc' = "fetching" => /\ requests' <= changes' + 1
                                        /\ PageAt(0)' \in seenPages'
      <3>1. requests' <= changes' + 2
        BY <1>1, <1>5, <2>1, <2>3
      <3>2. page = PageAt(0) /\ PageAt(0)' = PageAt(0)
        BY <1>6, <2>3 DEF page, Response
      <3>3. PageAt(0)' \in seenPages'
        BY <1>1, <3>2
      <3>4. ASSUME pc' = "fetching" PROVE requests' <= changes' + 1
        <4>1. page \notin seenPages
          BY <1>2, <3>4 DEF fails, Repeated
        <4>2. requests <= changes
          BY <2>1, <2>3, <3>2, <4>1
        <4> QED BY <1>1, <1>5, <4>2
      <3> QED BY <3>1, <3>3, <3>4
    <2> QED BY <1>1, <2>2, <2>3 DEF RequestsInv
  <1>10. CopiesInv'
    <2> SUFFICES ASSUME pc' = "fetching" PROVE CopiesInv'
      BY DEF CopiesInv
    <2>1. ~fails /\ revisions' = all
      BY <1>2, <1>3, <1>4
    <2> QED BY <1>1, <1>7, <2>1 DEF CopiesInv
  <1>11. SteadyInv'
    <2> SUFFICES ASSUME pc' = "fetching" PROVE SteadyInv'
      BY DEF SteadyInv
    <2>1. ~fails /\ revisions' = all /\ offset' = offset + PageSize
      BY <1>2, <1>3, <1>4
    <2>2. steady' \subseteq OfPlan'
      BY <1>1, <1>6 DEF FetchInv, SteadyInv
    <2>3. ASSUME paging', "withdraw" \notin since', NEW l \in steady', Place(l)' < offset'
          PROVE  \E i \in 1 .. Len(revisions') : revisions'[i].label = l
      <3>1. paging /\ "withdraw" \notin since /\ l \in steady /\ Place(l) < offset + PageSize
        BY <1>1, <1>6, <2>1, <2>3
      <3>2. \E i \in 1 .. Len(all) : all[i].label = l
        BY <1>1, <3>1, CollectedSteady DEF all
      <3> QED BY <2>1, <3>2
    <2> QED BY <2>2, <2>3 DEF SteadyInv
  <1>12. QuietInv'
    <2> SUFFICES ASSUME pc' = "fetching", paging', since' = {} PROVE QuietInv'
      BY DEF QuietInv
    <2>1. ~fails /\ Full(page) /\ revisions' = all /\ offset' = offset + PageSize
      BY <1>2, <1>3, <1>4
    <2>2. paging /\ since = {}
      BY <1>1
    <2>3. /\ \A i, j \in 1 .. Len(all) : i < j => all[i].label < all[j].label
          /\ \A i \in 1 .. Len(all) :
               /\ all[i].label \in OfPlan /\ Place(all[i].label) < offset + PageSize
               /\ all[i].item = upstream[all[i].label]
          /\ \A l \in OfPlan : Place(l) < offset + PageSize =>
               \E i \in 1 .. Len(all) : all[i].label = l
      BY <1>1, <2>2, CollectedQuiet DEF all
    <2>4. ASSUME NEW old \in seenPages'
          PROVE  \E from \in Nat : old = PageAt(from)' /\ from + PageSize <= offset' /\ Full(old)
      <3>1. CASE old \in seenPages
        <4>1. PICK from \in Nat : old = PageAt(from) /\ from + PageSize <= offset /\ Full(old)
          BY <1>1, <2>2, <3>1 DEF FetchInv, QuietInv
        <4>2. from + PageSize <= offset'
          BY <1>5, <2>1, <4>1
        <4>3. old = PageAt(from)'
          BY <1>6, <4>1
        <4> QED BY <4>1, <4>2, <4>3
      <3>2. CASE old = page
        <4>1. PICK from \in Nat : from = offset
          BY <1>5
        <4>2. old = PageAt(from)
          BY <2>2, <3>2, <4>1 DEF page, Response
        <4>3. old = PageAt(from)' /\ from + PageSize <= offset' /\ Full(old)
          BY <1>5, <1>6, <2>1, <3>2, <4>1, <4>2
        <4> QED BY <4>3
      <3> QED BY <1>1, <3>1, <3>2
    <2>5. /\ \A i, j \in 1 .. Len(revisions') : i < j => revisions'[i].label < revisions'[j].label
          /\ \A i \in 1 .. Len(revisions') :
               /\ revisions'[i].label \in OfPlan' /\ Place(revisions'[i].label) < offset'
               /\ revisions'[i].item = upstream'[revisions'[i].label]
          /\ \A l \in OfPlan' : Place(l) < offset' =>
               \E i \in 1 .. Len(revisions') : revisions'[i].label = l
      BY <1>1, <1>6, <2>1, <2>3
    <2>6. \A i \in 1 .. Len(revisions') : Place(revisions[i].label)' < offset'
      <3> SUFFICES ASSUME NEW i \in 1 .. Len(revisions')
                   PROVE  Place(revisions[i].label)' < offset'
        OBVIOUS
      <3>1. PICK l : l = revisions'[i].label
        OBVIOUS
      <3>2. Place(l)' < offset'
        BY <1>6, <2>5, <3>1
      <3>3. Listed' = { k \in Labels : upstream'[k] /= None }
        BY DEF Listed
      <3> QED BY <3>1, <3>2 DEF Place
    <2> QED BY <1>6, <2>4, <2>5, <2>6 DEF QuietInv
  <1> QED BY <1>8, <1>9, <1>10, <1>11, <1>12 DEF FetchInv

-----------------------------------------------------------------------------
(* The theorems. *)

LEMMA FetchStep == FetchInv /\ [Next]_vars => FetchInv'
  <1> SUFFICES ASSUME FetchInv, [Next]_vars PROVE FetchInv'
    OBVIOUS
  <1>1. CASE Begin
    BY <1>1, BeginKeeps
  <1>2. CASE RequestFails
    BY <1>2, FailKeeps
  <1>3. CASE ReadPage
    BY <1>3, ReadKeeps
  <1>4. ASSUME NEW l \in Labels, NEW item \in Items, Publish(l, item) \/ Amend(l, item)
        PROVE  FetchInv'
    <2>1. item \in ItemType
      BY ItemsAssumption
    <2>2. Change("publish", l, item) \/ Change("amend", l, item)
      BY <1>4 DEF Publish, Amend
    <2> QED BY <2>1, <2>2, ChangeKeeps
  <1>5. ASSUME NEW l \in Labels, Withdraw(l) PROVE FetchInv'
    <2>1. Change("withdraw", l, None)
      BY <1>5 DEF Withdraw
    <2> QED BY <2>1, ChangeKeeps
  <1>6. CASE UNCHANGED vars
    <2>1. /\ upstream' = upstream /\ paging' = paging /\ changes' = changes /\ pc' = pc
          /\ offset' = offset /\ seenPages' = seenPages /\ revisions' = revisions
          /\ requests' = requests /\ since' = since /\ steady' = steady
      BY <1>6 DEF vars, service, client, history
    <2>2. Listed' = Listed /\ \A l : Place(l)' = Place(l)
      BY <2>1 DEF Listed, Place
    <2>3. OfPlan' = OfPlan /\ \A o : PageAt(o)' = PageAt(o)
      BY <2>1, <2>2 DEF OfPlan, PageAt
    <2>4. TypesInv'
      BY <2>1 DEF FetchInv, TypesInv, UpstreamOK
    <2>5. RequestsInv'
      BY <2>1, <2>3 DEF FetchInv, RequestsInv
    <2>6. CopiesInv'
      BY <2>1 DEF FetchInv, CopiesInv
    <2>7. SteadyInv'
      BY <2>1, <2>2, <2>3 DEF FetchInv, SteadyInv
    <2>8. QuietInv'
      <3>1. QuietInv
        BY DEF FetchInv
      <3>2. \A i : Place(revisions[i].label)' = Place(revisions[i].label)
        BY <2>1, <2>2 DEF Place
      <3> QED BY <2>1, <2>2, <2>3, <3>1, <3>2 DEF QuietInv
    <2> QED BY <2>4, <2>5, <2>6, <2>7, <2>8 DEF FetchInv
  <1> QED BY <1>1, <1>2, <1>3, <1>4, <1>5, <1>6 DEF Next

\* In every fetch, whatever changes meanwhile: what fetch_history has collected
\* is what is of the plan before its offset, in the order of its requests.
THEOREM FetchInvariant == Spec => []FetchInv
  BY FetchBegins, FetchStep, PTL DEF Spec

LEMMA DivisionBound ==
  ASSUME NEW a \in Int, NEW b \in Nat, NEW d \in Nat \ {0}, a * d <= b
  PROVE  a <= b \div d
  <1> DEFINE q == b \div d
  <1>1. q \in Int /\ b < (q + 1) * d
    OBVIOUS
  <1> HIDE DEF q
  <1>2. SUFFICES ASSUME q + 1 <= a PROVE FALSE
    BY <1>1 DEF q
  <1>3. (a - (q + 1)) * d >= 0
    BY <1>1, <1>2
  <1>4. a * d - (q + 1) * d = (a - (q + 1)) * d
    BY <1>1
  <1>5. a * d \in Int /\ (q + 1) * d \in Int
    BY <1>1
  <1> QED BY <1>1, <1>3, <1>4, <1>5

\* However often the upstream changes and whether or not it keeps to the
\* offset, a fetch asks for no more pages than RequestsBounded allows, so the loop
\* of fetch_history cannot go on for ever.
THEOREM FetchesEnd == Spec => []RequestsBounded
  <1>1. FetchInv => RequestsBounded
    <2> SUFFICES ASSUME FetchInv PROVE RequestsBounded
      OBVIOUS
    <2>1. /\ paging \in BOOLEAN /\ changes \in Nat /\ requests \in Nat
          /\ PageSize \in Nat \ {0} /\ Cardinality(Labels) \in Nat
      BY BoundsAssumption, LabelsAssumption, FS_CardinalityType DEF FetchInv, TypesInv
    <2>2. CASE ~paging
      BY <2>2 DEF FetchInv, RequestsInv, RequestsBounded
    <2>3. CASE requests = 0
      BY <2>1, <2>3 DEF RequestsBounded
    <2>4. CASE paging /\ requests /= 0
      <3>1. (requests - 1) * PageSize <= Cardinality(Labels)
        <4>1. CASE pc = "fetching"
          <5>1. requests * PageSize <= Cardinality(Labels)
            BY <2>4, <4>1 DEF FetchInv, RequestsInv
          <5>2. (requests - 1) * PageSize = requests * PageSize - PageSize
            BY <2>1
          <5>3. requests * PageSize \in Int
            BY <2>1
          <5> QED BY <2>1, <5>1, <5>2, <5>3
        <4>2. CASE pc /= "fetching"
          BY <2>1, <2>4, <4>2 DEF FetchInv, RequestsInv
        <4> QED BY <4>1, <4>2
      <3>2. requests - 1 <= Cardinality(Labels) \div PageSize
        BY <2>1, <3>1, DivisionBound
      <3>3. Cardinality(Labels) \div PageSize \in Int
        BY <2>1
      <3> QED BY <2>1, <2>4, <3>2, <3>3 DEF RequestsBounded
    <2> QED BY <2>1, <2>2, <2>3, <2>4
  <1> QED BY <1>1, FetchInvariant, PTL

\* What an answer is made of: the pages collected, sorted.
LEMMA AnswerIsSorted ==
  ASSUME FetchInv, ReadPage, pc' = "done"
  PROVE  /\ pc = "fetching" /\ ParsesOurs(Response) /\ ~Full(Response)
         /\ revisions' = Sorted(Collected(Response))
         /\ Collected(Response) \in Seq(Revision)
  <1>1. /\ pc = "fetching" /\ ParsesOurs(Response) /\ ~Full(Response)
        /\ revisions' = Sorted(Collected(Response))
    BY DEF ReadPage
  <1> QED BY <1>1, CollectedOrder

\* An answer of a service that keeps to the offset has every revision that was
\* of the plan from the first page to the last, whatever was published or
\* amended between two pages, so long as nothing was withdrawn.
THEOREM NothingIsSkipped == Spec => PublishingSkipsNothing
  <1>1. ASSUME FetchInv, Answers, paging, "withdraw" \notin since
        PROVE  steady \subseteq LabelsIn(revisions')
    <2> DEFINE all == Collected(Response)
    <2>1. /\ pc = "fetching" /\ ~Full(Response)
          /\ revisions' = Sorted(all) /\ all \in Seq(Revision)
      BY <1>1, AnswerIsSorted DEF Answers
    <2> SUFFICES ASSUME NEW l \in steady PROVE l \in LabelsIn(revisions')
      OBVIOUS
    <2>2. l \in Listed
      BY <1>1, <2>1 DEF FetchInv, SteadyInv, OfPlan
    <2>3. Place(l) < offset + PageSize
      BY <1>1, <2>1, <2>2, LastPageEndsTheList
    <2>4. PICK i \in 1 .. Len(all) : all[i].label = l
      BY <1>1, <2>1, <2>3, CollectedSteady
    <2> HIDE DEF all
    <2>5. /\ Sorted(all) \in Seq(Revision) /\ Len(Sorted(all)) = Len(all)
          /\ \E from \in [1 .. Len(all) -> 1 .. Len(all)] :
               /\ \A p \in 1 .. Len(all) : Sorted(all)[p] = all[from[p]]
               /\ \A k \in 1 .. Len(all) : \E p \in 1 .. Len(all) : from[p] = k
      BY <2>1, SortedFacts
    <2>6. PICK from \in [1 .. Len(all) -> 1 .. Len(all)] :
               /\ \A p \in 1 .. Len(all) : Sorted(all)[p] = all[from[p]]
               /\ \A k \in 1 .. Len(all) : \E p \in 1 .. Len(all) : from[p] = k
      BY <2>5
    <2>7. PICK p \in 1 .. Len(all) : from[p] = i
      BY <2>6
    <2>8. Sorted(all)[p].label = l
      BY <2>4, <2>6, <2>7
    <2>9. DOMAIN revisions' = 1 .. Len(all)
      BY <2>1, <2>5
    <2> QED BY <2>1, <2>8, <2>9 DEF LabelsIn
  <1>2. FetchInv /\ [Next]_vars =>
          [Answers /\ paging /\ "withdraw" \notin since => steady \subseteq LabelsIn(revisions')]_vars
    BY <1>1
  <1> QED BY <1>2, FetchInvariant, PTL DEF Spec, PublishingSkipsNothing

\* Of two copies of one revision in an answer the later one was read later, or
\* starts later.
THEOREM LastCopyIsLast == Spec => LastCopyReadLast
  <1>1. ASSUME FetchInv, Answers,
               NEW p \in DOMAIN revisions', NEW q \in DOMAIN revisions',
               p < q, revisions'[p].label = revisions'[q].label
        PROVE  \/ revisions'[p].request < revisions'[q].request
               \/ revisions'[p].item.start < revisions'[q].item.start
    <2> DEFINE all == Collected(Response)
    <2>1. /\ pc = "fetching" /\ ParsesOurs(Response)
          /\ revisions' = Sorted(all) /\ all \in Seq(Revision)
      BY <1>1, AnswerIsSorted DEF Answers
    <2>2. \A i, j \in 1 .. Len(all) :
            i < j /\ all[i].label = all[j].label => all[i].request < all[j].request
      BY <1>1, <2>1, CollectedOrder
    <2> HIDE DEF all
    <2>3. /\ Sorted(all) \in Seq(Revision) /\ Len(Sorted(all)) = Len(all)
          /\ \E from \in [1 .. Len(all) -> 1 .. Len(all)] :
               /\ \A i \in 1 .. Len(all) : Sorted(all)[i] = all[from[i]]
               /\ \A i, j \in 1 .. Len(all) : i < j =>
                    \/ all[from[i]].item.start < all[from[j]].item.start
                    \/ all[from[i]].item.start = all[from[j]].item.start /\ from[i] < from[j]
      BY <2>1, SortedFacts
    <2>4. PICK from \in [1 .. Len(all) -> 1 .. Len(all)] :
               /\ \A i \in 1 .. Len(all) : Sorted(all)[i] = all[from[i]]
               /\ \A i, j \in 1 .. Len(all) : i < j =>
                    \/ all[from[i]].item.start < all[from[j]].item.start
                    \/ all[from[i]].item.start = all[from[j]].item.start /\ from[i] < from[j]
      BY <2>3
    <2>5. p \in 1 .. Len(all) /\ q \in 1 .. Len(all)
      BY <2>1, <2>3
    <2>6. revisions'[p] = all[from[p]] /\ revisions'[q] = all[from[q]]
      BY <2>1, <2>4, <2>5
    <2>7. from[p] \in 1 .. Len(all) /\ from[q] \in 1 .. Len(all)
      BY <2>5
    <2>8. CASE all[from[p]].item.start < all[from[q]].item.start
      BY <2>6, <2>8
    <2>9. CASE from[p] < from[q]
      BY <1>1, <2>2, <2>6, <2>7, <2>9
    <2> QED BY <1>1, <2>4, <2>5, <2>8, <2>9
  <1>2. FetchInv /\ [Next]_vars =>
          [Answers =>
             \A i, j \in DOMAIN revisions' :
               i < j /\ revisions'[i].label = revisions'[j].label =>
                 \/ revisions'[i].request < revisions'[j].request
                 \/ revisions'[i].item.start < revisions'[j].item.start]_vars
    BY <1>1
  <1> QED BY <1>2, FetchInvariant, PTL DEF Spec, LastCopyReadLast

\* A fetch during which nothing changes, from a service that keeps to the
\* offset, answers with the revisions of the plan, each once, by start; it
\* fails only if there is none or one of them does not parse.
THEOREM QuietFetchesAreExact == Spec => QuietFetchIsExact
  <1>1. ASSUME FetchInv, ReadPage, since = {}, paging, pc' = "failed"
        PROVE  OfPlan = {} \/ \E l \in OfPlan : ~Parses(upstream[l])
    <2> DEFINE all == Collected(Response)
    <2>1. pc = "fetching" /\ offset \in Nat
      BY <1>1 DEF ReadPage, FetchInv, TypesInv
    <2>2. ~Repeated(Response)
      BY <1>1, <2>1, QuietPageIsNew
    <2>3. ~ParsesOurs(Response) \/ (~Full(Response) /\ all = <<>>)
      BY <1>1, <2>1, <2>2 DEF ReadPage
    <2>4. CASE ~ParsesOurs(Response)
      <3>1. PICK x \in PageAt(offset) : x.item.ours /\ ~Parses(x.item)
        BY <1>1, <2>4 DEF ParsesOurs, Response
      <3>2. x.label \in Shown(offset) /\ x.item = upstream[x.label]
        BY <2>1, <3>1, Pages
      <3>3. x.label \in OfPlan
        BY <3>1, <3>2 DEF Shown, OfPlan
      <3> QED BY <3>1, <3>2, <3>3
    <2>5. CASE ~Full(Response) /\ all = <<>>
      <3> SUFFICES ASSUME NEW l \in OfPlan PROVE FALSE
        OBVIOUS
      <3>1. l \in Listed
        BY DEF OfPlan
      <3>2. Place(l) < offset + PageSize
        BY <1>1, <2>5, <3>1, LastPageEndsTheList
      <3>3. \E i \in 1 .. Len(all) : all[i].label = l
        BY <1>1, <2>1, <3>2, CollectedQuiet
      <3> HIDE DEF all
      <3>4. Len(all) = 0
        BY <2>5
      <3> QED BY <3>3, <3>4
    <2> QED BY <2>3, <2>4, <2>5
  <1>2. ASSUME FetchInv, ReadPage, since = {}, paging, pc' = "done"
        PROVE  /\ Len(revisions') = Cardinality(OfPlan)
               /\ { << revisions'[i].label, revisions'[i].item >> : i \in DOMAIN revisions' }
                    = { << l, upstream[l] >> : l \in OfPlan }
               /\ \A i, j \in DOMAIN revisions' :
                    i < j => revisions'[i].item.start <= revisions'[j].item.start
    <2> DEFINE all == Collected(Response)
               m == Len(all)
    <2>1. /\ pc = "fetching" /\ ~Full(Response)
          /\ revisions' = Sorted(all) /\ all \in Seq(Revision)
      BY <1>2, AnswerIsSorted
    <2>2. \A l \in OfPlan : Place(l) < offset + PageSize
      BY <1>2, <2>1, LastPageEndsTheList DEF OfPlan
    <2>3. /\ \A i, j \in 1 .. m : i < j => all[i].label < all[j].label
          /\ \A i \in 1 .. m : all[i].label \in OfPlan /\ all[i].item = upstream[all[i].label]
          /\ \A l \in OfPlan : \E i \in 1 .. m : all[i].label = l
      BY <1>2, <2>1, <2>2, CollectedQuiet
    <2> HIDE DEF all
    <2>4. m \in Nat /\ \A i \in 1 .. m : all[i].item.start \in Int
      <3>1. m \in Nat /\ \A i \in 1 .. m : all[i] \in Revision
        BY <2>1
      <3> QED BY <3>1 DEF Revision, ItemType
    <2>5. /\ Sorted(all) \in Seq(Revision) /\ Len(Sorted(all)) = m
          /\ \E from \in [1 .. m -> 1 .. m] :
               /\ \A i \in 1 .. m : Sorted(all)[i] = all[from[i]]
               /\ \A i \in 1 .. m : \E p \in 1 .. m : from[p] = i
               /\ \A i, j \in 1 .. m : i < j =>
                    \/ all[from[i]].item.start < all[from[j]].item.start
                    \/ all[from[i]].item.start = all[from[j]].item.start /\ from[i] < from[j]
      BY <2>1, SortedFacts
    <2>6. PICK from \in [1 .. m -> 1 .. m] :
               /\ \A i \in 1 .. m : Sorted(all)[i] = all[from[i]]
               /\ \A i \in 1 .. m : \E p \in 1 .. m : from[p] = i
               /\ \A i, j \in 1 .. m : i < j =>
                    \/ all[from[i]].item.start < all[from[j]].item.start
                    \/ all[from[i]].item.start = all[from[j]].item.start /\ from[i] < from[j]
      BY <2>5
    <2>7. Len(revisions') = m /\ DOMAIN revisions' = 1 .. m
      BY <2>1, <2>5
    <2> HIDE DEF m
    <2>8. m = Cardinality(OfPlan)
      <3> DEFINE f == [i \in 1 .. m |-> all[i].label]
      <3>1. f \in [1 .. m -> OfPlan] /\ \A l \in OfPlan : \E i \in 1 .. m : f[i] = l
        BY <2>3
      <3>2. \A i, j \in 1 .. m : f[i] = f[j] => i = j
        <4> SUFFICES ASSUME NEW i \in 1 .. m, NEW j \in 1 .. m,
                            all[i].label = all[j].label, i /= j
                     PROVE  FALSE
          OBVIOUS
        <4>1. i < j \/ j < i
          BY <2>4
        <4>2. all[i].label \in Nat /\ all[j].label \in Nat
          BY <2>3, ListedFinite DEF OfPlan
        <4> QED BY <2>3, <4>1, <4>2
      <3> HIDE DEF f
      <3>3. f \in Surjection(1 .. m, OfPlan) /\ f \in Injection(1 .. m, OfPlan)
        BY <3>1, <3>2, Fun_IsSurj, Fun_IsInj
      <3>4. IsFiniteSet(1 .. m) /\ Cardinality(1 .. m) = m
        BY <2>4, FS_Interval
      <3> QED BY <3>3, <3>4, FS_Surjection
    <2>9. ASSUME NEW p \in 1 .. m
          PROVE  /\ revisions'[p].label \in OfPlan
                 /\ revisions'[p].item = upstream[revisions'[p].label]
      <3>1. revisions'[p] = all[from[p]] /\ from[p] \in 1 .. m
        BY <2>1, <2>6
      <3> QED BY <2>3, <3>1
    <2>10. ASSUME NEW l \in OfPlan PROVE \E p \in 1 .. m : revisions'[p].label = l
      <3>1. PICK i \in 1 .. m : all[i].label = l
        BY <2>3
      <3>2. PICK p \in 1 .. m : from[p] = i
        BY <2>6
      <3>3. revisions'[p].label = l
        BY <2>1, <2>6, <3>1, <3>2
      <3> QED BY <3>3
    <2>11. { << revisions'[i].label, revisions'[i].item >> : i \in 1 .. m }
             = { << l, upstream[l] >> : l \in OfPlan }
      <3>1. \A p \in 1 .. m : << revisions'[p].label, revisions'[p].item >>
                                \in { << l, upstream[l] >> : l \in OfPlan }
        BY <2>9
      <3>2. ASSUME NEW l \in OfPlan
            PROVE  << l, upstream[l] >>
                     \in { << revisions'[i].label, revisions'[i].item >> : i \in 1 .. m }
        <4>1. PICK p \in 1 .. m : revisions'[p].label = l
          BY <2>10
        <4>2. revisions'[p].item = upstream[l]
          BY <2>9, <4>1
        <4>3. << l, upstream[l] >> = << revisions'[p].label, revisions'[p].item >>
          BY <4>1, <4>2
        <4> QED BY <4>3
      <3> QED BY <3>1, <3>2
    <2>12. ASSUME NEW p \in 1 .. m, NEW q \in 1 .. m, p < q
           PROVE  revisions'[p].item.start <= revisions'[q].item.start
      <3>1. /\ revisions'[p] = all[from[p]] /\ from[p] \in 1 .. m
            /\ revisions'[q] = all[from[q]] /\ from[q] \in 1 .. m
        BY <2>1, <2>6
      <3>2. \/ all[from[p]].item.start < all[from[q]].item.start
            \/ all[from[p]].item.start = all[from[q]].item.start
        BY <2>6, <2>12
      <3>3. all[from[p]].item.start \in Int /\ all[from[q]].item.start \in Int
        BY <2>4, <3>1
      <3>4. all[from[p]].item.start <= all[from[q]].item.start
        BY <3>2, <3>3
      <3> QED BY <3>1, <3>4
    <2> QED BY <2>7, <2>8, <2>11, <2>12
  <1>3. FetchInv /\ [Next]_vars =>
          [ReadPage /\ since = {} /\ paging =>
             /\ pc' = "failed" => OfPlan = {} \/ \E l \in OfPlan : ~Parses(upstream[l])
             /\ pc' = "done" =>
                  /\ Len(revisions') = Cardinality(OfPlan)
                  /\ { << revisions'[i].label, revisions'[i].item >> : i \in DOMAIN revisions' }
                       = { << l, upstream[l] >> : l \in OfPlan }
                  /\ \A i, j \in DOMAIN revisions' :
                       i < j => revisions'[i].item.start <= revisions'[j].item.start]_vars
    BY <1>1, <1>2
  <1> QED BY <1>3, FetchInvariant, PTL DEF Spec, QuietFetchIsExact

-----------------------------------------------------------------------------
(* The brackets of a tariff that resolves. *)

TariffType == [weekday : Seq(Seq(Int)), weekend : Seq(Seq(Int)),
               periods : Seq([rate : Int \cup {Missing}, sell : Int \cup {Missing}])]

\* The periods of a month are some of the tariff's, at least one, with rates.
LEMMA ActivePeriods ==
  ASSUME NEW tariff \in TariffType, Resolves(tariff), NEW m \in 1 .. Months
  PROVE  /\ Active(tariff, m) \subseteq Indices(tariff) /\ Active(tariff, m) /= {}
         /\ IsFiniteSet(Active(tariff, m)) /\ Active(tariff, m) \subseteq Int
         /\ \A p \in Active(tariff, m) : Rate(tariff, p) /= Missing /\ Rate(tariff, p) \in Int
  <1> DEFINE active == Active(tariff, m)
             n == Len(tariff.periods)
             R == [rate : Int \cup {Missing}, sell : Int \cup {Missing}]
  <1>1. tariff.periods \in Seq(R) /\ n \in Nat
    <2>1. tariff.periods \in Seq(R)
      BY DEF TariffType
    <2> HIDE DEF R
    <2> QED BY <2>1
  <1>2. active \subseteq Indices(tariff) /\ \A i \in Indices(tariff) : Rate(tariff, i) /= Missing
    BY DEF Resolves
  <1>3. IsFiniteSet(Indices(tariff)) /\ Indices(tariff) \subseteq Int
    <2>1. IsFiniteSet(0 .. n - 1)
      <3>1. n - 1 \in Int
        BY <1>1
      <3> QED BY <3>1, FS_Interval
    <2> QED BY <1>1, <2>1 DEF Indices
  <1>4. IsFiniteSet(active)
    BY <1>2, <1>3, FS_Subset
  <1>5. active /= {}
    <2> DEFINE s == [month |-> m, hour |-> 1, weekend |-> TRUE]
    <2>1. 1 \in 1 .. HoursPerDay
      BY TableAssumption
    <2>2. s \in Slots /\ s.month = m
      BY <2>1 DEF Slots
    <2> HIDE DEF s
    <2>3. PeriodAt(tariff, s) \in active
      BY <2>2 DEF Active
    <2> QED BY <2>3
  <1>6. \A p \in active : Rate(tariff, p) \in Int
    <2> SUFFICES ASSUME NEW p \in active PROVE Rate(tariff, p) \in Int
      OBVIOUS
    <2>1. p \in 0 .. n - 1
      BY <1>2 DEF Indices
    <2>2. p + 1 \in 1 .. n
      BY <1>1, <2>1
    <2>3. tariff.periods[p + 1] \in R
      <3> HIDE DEF R
      <3> QED BY <1>1, <2>2
    <2>4. Rate(tariff, p) \in Int \cup {Missing} /\ Rate(tariff, p) /= Missing
      BY <1>2, <2>3 DEF Rate
    <2> QED BY <2>4
  <1> QED BY <1>2, <1>3, <1>4, <1>5, <1>6

\* The ranks number the periods of a month from zero on, the dearer the lower.
LEMMA RanksOfPeriods ==
  ASSUME NEW tariff \in TariffType, Resolves(tariff), NEW m \in 1 .. Months
  PROVE  LET active == Active(tariff, m)
             n == Cardinality(active)
         IN  /\ n \in Nat \ {0}
             /\ \A p \in active : Rank(tariff, m, p) \in 0 .. n - 1
             /\ \A p, q \in active :
                  Rate(tariff, p) > Rate(tariff, q) => Rank(tariff, m, p) < Rank(tariff, m, q)
             /\ \A p, q \in active : Rank(tariff, m, p) = Rank(tariff, m, q) => p = q
             /\ \A k \in 0 .. n - 1 : \E p \in active : Rank(tariff, m, p) = k
  <1> DEFINE active == Active(tariff, m)
             n == Cardinality(active)
             rate(p) == Rate(tariff, p)
             first(j, p) == rate(j) > rate(p) \/ (rate(j) = rate(p) /\ j < p)
             ahead(p) == { j \in active : first(j, p) }
             upTo == [p \in active |-> { j \in active : first(j, p) \/ j = p }]
  <1>1. IsFiniteSet(active) /\ active /= {} /\ \A p \in active : p \in Int /\ rate(p) \in Int
    BY ActivePeriods
  <1>2. n \in Nat \ {0}
    BY <1>1, FS_EmptySet, FS_CardinalityType
  <1>3. \A p : Rank(tariff, m, p) = Cardinality(ahead(p))
    BY DEF Rank
  <1> HIDE DEF rate, active
  <1>4. \A p \in active : ~first(p, p)
    BY <1>1
  <1>5. \A i, j, k \in active : first(i, j) /\ first(j, k) => first(i, k)
    BY <1>1
  <1>6. \A i, j \in active : i /= j => (first(i, j) /\ ~first(j, i)) \/ (first(j, i) /\ ~first(i, j))
    <2> SUFFICES ASSUME NEW i \in active, NEW j \in active, i /= j
                 PROVE  (first(i, j) /\ ~first(j, i)) \/ (first(j, i) /\ ~first(i, j))
      OBVIOUS
    <2>1. i \in Int /\ j \in Int /\ rate(i) \in Int /\ rate(j) \in Int
      BY <1>1
    <2> QED BY <2>1
  <1>7. /\ upTo \in [active -> SUBSET active]
        /\ \A p \in active : \A j : j \in upTo[p] <=> j \in active /\ (first(j, p) \/ j = p)
    OBVIOUS
  <1> HIDE DEF first, upTo
  <1>8. ASSUME NEW p \in active
        PROVE  Cardinality(upTo[p]) = Cardinality(ahead(p)) + 1 /\ Cardinality(ahead(p)) \in Nat
    <2>1. IsFiniteSet(ahead(p)) /\ p \notin ahead(p)
      BY <1>1, <1>4, FS_Subset
    <2>2. upTo[p] = ahead(p) \cup {p}
      BY <1>7
    <2> HIDE DEF ahead
    <2> QED BY <2>1, <2>2, FS_AddElement, FS_CardinalityType
  <1>9. /\ \A x \in active : Cardinality(upTo[x]) \in 1 .. n
        /\ \A x, y \in active : x \notin upTo[y] => Cardinality(upTo[y]) < Cardinality(upTo[x])
        /\ \A x, y \in active : Cardinality(upTo[x]) = Cardinality(upTo[y]) => x = y
        /\ \A k \in 1 .. n : \E x \in active : Cardinality(upTo[x]) = k
    <2>1. \A x \in active : x \in upTo[x]
      BY <1>7
    <2>2. ASSUME NEW x \in active, NEW y \in active, x /= y, first(x, y), ~first(y, x)
          PROVE  upTo[x] \subseteq upTo[y] /\ y \notin upTo[x]
      BY <1>5, <1>7, <2>2
    <2>3. \A x, y \in active : x /= y =>
             \/ upTo[x] \subseteq upTo[y] /\ y \notin upTo[x]
             \/ upTo[y] \subseteq upTo[x] /\ x \notin upTo[y]
      BY <1>6, <2>2
    <2> QED BY <1>1, <1>7, <2>1, <2>3, Ranks
  <1> HIDE DEF ahead
  <1>10. \A p \in active : Rank(tariff, m, p) + 1 = Cardinality(upTo[p]) /\ Rank(tariff, m, p) \in Nat
    BY <1>3, <1>8
  <1> HIDE DEF n
  <1>11. \A p \in active : Rank(tariff, m, p) \in 0 .. n - 1
    BY <1>2, <1>9, <1>10
  <1>12. ASSUME NEW p \in active, NEW q \in active, Rate(tariff, p) > Rate(tariff, q)
         PROVE  Rank(tariff, m, p) < Rank(tariff, m, q)
    <2>1. rate(p) > rate(q)
      BY <1>12 DEF rate
    <2>2. first(p, q) /\ ~first(q, p) /\ p /= q
      BY <1>1, <2>1 DEF first
    <2>3. q \notin upTo[p]
      BY <1>7, <2>2
    <2>4. Cardinality(upTo[p]) < Cardinality(upTo[q])
      BY <1>9, <2>3
    <2> QED BY <1>10, <2>4
  <1>13. \A p, q \in active : Rank(tariff, m, p) = Rank(tariff, m, q) => p = q
    <2> SUFFICES ASSUME NEW p \in active, NEW q \in active, Rank(tariff, m, p) = Rank(tariff, m, q)
                 PROVE  p = q
      OBVIOUS
    <2>1. Cardinality(upTo[p]) = Cardinality(upTo[q])
      BY <1>10
    <2> QED BY <1>9, <2>1
  <1>14. ASSUME NEW k \in 0 .. n - 1 PROVE \E p \in active : Rank(tariff, m, p) = k
    <2>1. k + 1 \in 1 .. n
      BY <1>2
    <2>2. PICK p \in active : Cardinality(upTo[p]) = k + 1
      BY <1>9, <2>1
    <2>3. Rank(tariff, m, p) = k
      BY <1>10, <2>2
    <2> QED BY <2>3
  <1> QED BY <1>2, <1>11, <1>12, <1>13, <1>14 DEF active, n

LEMMA Levels == Level("peak") = 1 /\ Level("off_peak") = 2 /\ Level("super_off_peak") = 3
  <1>1. DOMAIN Brackets = {1, 2, 3} /\ Brackets[1] = "peak" /\ Brackets[2] = "off_peak"
        /\ Brackets[3] = "super_off_peak"
    BY DEF Brackets
  <1>2. Level("peak") = 1
    BY <1>1 DEF Level
  <1>3. Level("off_peak") = 2
    BY <1>1 DEF Level
  <1>4. Level("super_off_peak") = 3
    BY <1>1 DEF Level
  <1> QED BY <1>2, <1>3, <1>4

\* Every tariff that a fetch answers with has its brackets in the order of its
\* rates, one peak in every month, and super off-peak only as the last of three
\* or more; no period it names is missing or without a rate.
THEOREM BracketsAreByRate == Spec => []BracketsFollowRates
  <1>1. ASSUME NEW tariff \in TariffType, Resolves(tariff), NEW m \in 1 .. Months
        PROVE  LET active == Active(tariff, m)
                   in(bracket) == { p \in active : BracketOf(tariff, m, p) = bracket }
               IN  /\ \A p \in active : p \in Indices(tariff) /\ Rate(tariff, p) /= Missing
                   /\ \A p, q \in active :
                        Rate(tariff, p) > Rate(tariff, q) =>
                          Level(BracketOf(tariff, m, p)) <= Level(BracketOf(tariff, m, q))
                   /\ Cardinality(active \cap in("peak")) = 1
                   /\ Cardinality(active \cap in("super_off_peak"))
                        = IF Cardinality(active) >= 3 THEN 1 ELSE 0
    <2> DEFINE active == Active(tariff, m)
               n == Cardinality(active)
               rank(p) == Rank(tariff, m, p)
               in(bracket) == { p \in active : BracketOf(tariff, m, p) = bracket }
    <2>1. \A p \in active : p \in Indices(tariff) /\ Rate(tariff, p) /= Missing
      BY <1>1, ActivePeriods
    <2>2. /\ n \in Nat \ {0}
          /\ \A p \in active : rank(p) \in 0 .. n - 1
          /\ \A p, q \in active : Rate(tariff, p) > Rate(tariff, q) => rank(p) < rank(q)
          /\ \A p, q \in active : rank(p) = rank(q) => p = q
          /\ \A k \in 0 .. n - 1 : \E p \in active : rank(p) = k
      BY <1>1, RanksOfPeriods
    <2>3. \A p : BracketOf(tariff, m, p) = IF rank(p) = 0 THEN "peak"
                   ELSE IF n >= 3 /\ rank(p) = n - 1 THEN "super_off_peak" ELSE "off_peak"
      BY DEF BracketOf
    <2> HIDE DEF active, n, rank
    <2>4. ASSUME NEW p \in active, NEW q \in active, Rate(tariff, p) > Rate(tariff, q)
          PROVE  Level(BracketOf(tariff, m, p)) <= Level(BracketOf(tariff, m, q))
      <3>1. rank(p) < rank(q) /\ rank(p) \in 0 .. n - 1 /\ rank(q) \in 0 .. n - 1 /\ n \in Nat
        BY <2>2, <2>4
      <3>2. BracketOf(tariff, m, q) \in {"off_peak", "super_off_peak"}
        <4>1. rank(q) /= 0
          BY <3>1
        <4> QED BY <2>3, <4>1
      <3>3. BracketOf(tariff, m, p) \in {"peak", "off_peak"}
        <4>1. rank(p) /= n - 1
          BY <3>1
        <4> QED BY <2>3, <4>1
      <3>4. Level(BracketOf(tariff, m, p)) \in {1, 2} /\ Level(BracketOf(tariff, m, q)) \in {2, 3}
        BY <3>2, <3>3, Levels
      <3> QED BY <3>4
    <2>5. Cardinality(active \cap in("peak")) = 1
      <3>1. 0 \in 0 .. n - 1
        BY <2>2
      <3>2. PICK p \in active : rank(p) = 0
        BY <2>2, <3>1
      <3>3. active \cap in("peak") = {p}
        <4>1. \A q \in active : BracketOf(tariff, m, q) = "peak" <=> q = p
          BY <2>2, <2>3, <3>2
        <4> QED BY <4>1
      <3> QED BY <3>3, FS_Singleton
    <2>6. Cardinality(active \cap in("super_off_peak")) = IF n >= 3 THEN 1 ELSE 0
      <3>1. CASE n >= 3
        <4>1. n - 1 \in 0 .. n - 1 /\ n - 1 /= 0
          BY <2>2, <3>1
        <4>2. PICK p \in active : rank(p) = n - 1
          BY <2>2, <4>1
        <4>3. active \cap in("super_off_peak") = {p}
          <5>1. \A q \in active : BracketOf(tariff, m, q) = "super_off_peak" <=> rank(q) = n - 1
            BY <2>3, <3>1, <4>1
          <5>2. \A q \in active : rank(q) = n - 1 <=> q = p
            BY <2>2, <4>2
          <5> QED BY <5>1, <5>2
        <4> QED BY <3>1, <4>3, FS_Singleton
      <3>2. CASE ~(n >= 3)
        <4>1. active \cap in("super_off_peak") = {}
          BY <2>3, <3>2
        <4> QED BY <3>2, <4>1, FS_EmptySet
      <3> QED BY <3>1, <3>2
    <2> HIDE DEF in
    <2> QED BY <2>1, <2>4, <2>5, <2>6 DEF active, n, in
  <1>2. FetchInv => BracketsFollowRates
    <2> SUFFICES ASSUME FetchInv, NEW i \in DOMAIN revisions, NEW m \in 1 .. Months
                 PROVE  LET tariff == revisions[i].item.tariff
                            active == Active(tariff, m)
                            in(bracket) == { p \in active : BracketOf(tariff, m, p) = bracket }
                        IN  /\ \A p \in active : p \in Indices(tariff) /\ Rate(tariff, p) /= Missing
                            /\ \A p, q \in active :
                                 Rate(tariff, p) > Rate(tariff, q) =>
                                   Level(BracketOf(tariff, m, p)) <= Level(BracketOf(tariff, m, q))
                            /\ Cardinality(active \cap in("peak")) = 1
                            /\ Cardinality(active \cap in("super_off_peak"))
                                 = IF Cardinality(active) >= 3 THEN 1 ELSE 0
      BY DEF BracketsFollowRates, Active
    <2>1. revisions \in Seq(Revision) /\ i \in 1 .. Len(revisions)
      BY DEF FetchInv, TypesInv
    <2>2. revisions[i] \in Revision /\ Parses(revisions[i].item)
      BY <2>1 DEF FetchInv, TypesInv
    <2>3. revisions[i].item.tariff \in TariffType /\ Resolves(revisions[i].item.tariff)
      BY <2>2 DEF Revision, ItemType, TariffType, Parses
    <2> HIDE DEF FetchInv
    <2> QED BY <1>1, <2>3
  <1> QED BY <1>2, FetchInvariant, PTL

-----------------------------------------------------------------------------
(* The sums of an estimate. *)

\* What calculate may be given: finitely many windows, each of a slot.
WindowsOK(windows) ==
  /\ IsFiniteSet(windows)
  /\ \A w \in windows : w.slot \in Slots /\ w.import \in Int /\ w.export \in Int

\* Every window finds the rates of its period, and a bracket.
LEMMA WindowRates ==
  ASSUME NEW tariff \in TariffType, Resolves(tariff), NEW slot \in Slots
  PROVE  /\ Rate(tariff, PeriodAt(tariff, slot)) \in Int
         /\ Sell(tariff, PeriodAt(tariff, slot)) \in Int
         /\ BracketAt(tariff, slot) \in {"peak", "off_peak", "super_off_peak"}
  <1> DEFINE p == PeriodAt(tariff, slot)
             n == Len(tariff.periods)
             R == [rate : Int \cup {Missing}, sell : Int \cup {Missing}]
  <1>1. slot.month \in 1 .. Months /\ p \in Active(tariff, slot.month)
    BY DEF Slots, Active
  <1>2. p \in Indices(tariff) /\ Rate(tariff, p) \in Int
    BY <1>1, ActivePeriods
  <1>3. Sell(tariff, p) \in Int
    <2>1. tariff.periods \in Seq(R)
      BY DEF TariffType
    <2>2. p + 1 \in 1 .. n
      <3> HIDE DEF R, p
      <3> QED BY <1>2, <2>1 DEF Indices
    <2>3. tariff.periods[p + 1] \in R
      <3> HIDE DEF R, p
      <3> QED BY <2>1, <2>2
    <2> HIDE DEF p
    <2> QED BY <1>2, <2>3 DEF Sell, Rate
  <1>4. BracketAt(tariff, slot) \in {"peak", "off_peak", "super_off_peak"}
    BY DEF BracketAt, BracketOf
  <1> QED BY <1>2, <1>3, <1>4

LEMMA SumOfThree ==
  ASSUME NEW f, f[1] \in Int, f[2] \in Int, f[3] \in Int
  PROVE  Sum(f, 1 .. 3) = f[1] + f[2] + f[3]
  <1>0. 1 .. 3 = {1, 2, 3}
    <2>1. \A n \in Int : 1 <= n /\ n <= 3 <=> n = 1 \/ n = 2 \/ n = 3
      OBVIOUS
    <2> QED BY <2>1
  <1>1. /\ 1 .. 3 = {1, 2, 3} /\ {1, 2, 3} \ {1} = {2, 3}
        /\ {2, 3} \ {2} = {3} /\ {3} \ {3} = {}
    BY <1>0
  <1>2. IsFiniteSet({1, 2, 3}) /\ IsFiniteSet({2, 3}) /\ IsFiniteSet({3})
    <2>1. IsFiniteSet({1}) /\ IsFiniteSet({2}) /\ IsFiniteSet({3})
      BY FS_Singleton
    <2>2. IsFiniteSet({2} \cup {3}) /\ {2} \cup {3} = {2, 3}
      BY <2>1, FS_Union
    <2>3. IsFiniteSet({1} \cup {2, 3}) /\ {1} \cup {2, 3} = {1, 2, 3}
      BY <2>1, <2>2, FS_Union
    <2> QED BY <2>1, <2>2, <2>3
  <1>3. Whole(f, {1, 2, 3}) /\ Whole(f, {2, 3}) /\ Whole(f, {3})
    BY DEF Whole
  <1>4. /\ Sum(f, {1, 2, 3}) = f[1] + Sum(f, {2, 3})
        /\ Sum(f, {2, 3}) = f[2] + Sum(f, {3})
        /\ Sum(f, {3}) = f[3] + Sum(f, {})
    <2>1. Sum(f, {1, 2, 3}) = f[1] + Sum(f, {1, 2, 3} \ {1})
      BY <1>2, <1>3, SumWithout
    <2>2. Sum(f, {2, 3}) = f[2] + Sum(f, {2, 3} \ {2})
      BY <1>2, <1>3, SumWithout
    <2>3. Sum(f, {3}) = f[3] + Sum(f, {3} \ {3})
      BY <1>2, <1>3, SumWithout
    <2> QED BY <1>1, <2>1, <2>2, <2>3
  <1>5. Sum(f, {}) = 0
    BY SumOfNone
  <1> QED BY <1>1, <1>4, <1>5

\* What the windows of a bracket cost is the sum of their prices.
LEMMA BracketCost ==
  ASSUME NEW tariff \in TariffType, Resolves(tariff), NEW windows, WindowsOK(windows),
         NEW bracket
  PROVE  LET sum == Summary(tariff, windows, bracket)
             own == { w \in windows : BracketAt(tariff, w.slot) = bracket }
         IN  sum.cost - sum.credit = Sum([ w \in windows |-> Price(tariff, w) ], own)
  <1> DEFINE own == { w \in windows : BracketAt(tariff, w.slot) = bracket }
             rate(w) == Rate(tariff, PeriodAt(tariff, w.slot))
             sell(w) == Sell(tariff, PeriodAt(tariff, w.slot))
             cost == [ w \in own |-> w.import * rate(w) ]
             credit == [ w \in own |-> w.export * sell(w) ]
             price == [ w \in windows |-> Price(tariff, w) ]
             sum == Summary(tariff, windows, bracket)
  <1>1. sum.cost = Sum(cost, own) /\ sum.credit = Sum(credit, own)
    <2>1. sum.cost = SumFunction(cost) /\ sum.credit = SumFunction(credit)
      BY DEF Summary
    <2>2. DOMAIN cost = own /\ DOMAIN credit = own
      OBVIOUS
    <2> HIDE DEF cost, credit, own, sum
    <2> QED BY <2>1, <2>2 DEF SumFunction, Sum
  <1>2. IsFiniteSet(own)
    BY FS_Subset DEF WindowsOK
  <1>3. ASSUME NEW w \in own
        PROVE  /\ cost[w] \in Int /\ credit[w] \in Int
               /\ price[w] = cost[w] - credit[w]
    <2>1. rate(w) \in Int /\ sell(w) \in Int /\ w.import \in Int /\ w.export \in Int
      BY WindowRates DEF WindowsOK
    <2>2. cost[w] = w.import * rate(w) /\ credit[w] = w.export * sell(w)
          /\ price[w] = w.import * rate(w) - w.export * sell(w)
      BY DEF Price
    <2> HIDE DEF cost, credit, price, rate, sell
    <2> QED BY <2>1, <2>2
  <1> HIDE DEF cost, credit, price, own, sum
  <1>4. Sum(price, own) = Sum(cost, own) - Sum(credit, own)
    BY <1>2, <1>3, SumOfDifference DEF Whole
  <1> QED BY <1>1, <1>4 DEF sum, own, price

\* Whatever the windows and the tariff: an estimate's net cost is the sum of
\* what each window costs at the rates of its own period.
THEOREM NetCostIsSumOfPrices ==
  ASSUME NEW tariff \in TariffType, Resolves(tariff), NEW windows, WindowsOK(windows)
  PROVE  NetCost(tariff, windows) = SumFunction([ w \in windows |-> Price(tariff, w) ])
  <1> DEFINE own(bracket) == { w \in windows : BracketAt(tariff, w.slot) = bracket }
             price == [ w \in windows |-> Price(tariff, w) ]
             net(bracket) == LET sum == Summary(tariff, windows, bracket)
                             IN  sum.cost - sum.credit
             nets == [ b \in DOMAIN Brackets |-> net(Brackets[b]) ]
  <1>1. Whole(price, windows)
    <2> SUFFICES ASSUME NEW w \in windows PROVE Price(tariff, w) \in Int
      BY DEF Whole
    <2>1. /\ Rate(tariff, PeriodAt(tariff, w.slot)) \in Int
          /\ Sell(tariff, PeriodAt(tariff, w.slot)) \in Int
          /\ w.import \in Int /\ w.export \in Int
      BY WindowRates DEF WindowsOK
    <2> QED BY <2>1 DEF Price
  <1>2. \A bracket : net(bracket) = Sum(price, own(bracket))
    BY BracketCost
  <1>3. \A bracket : IsFiniteSet(own(bracket)) /\ Whole(price, own(bracket))
                    /\ Sum(price, own(bracket)) \in Int
    <2> SUFFICES ASSUME NEW bracket
                 PROVE  IsFiniteSet(own(bracket)) /\ Whole(price, own(bracket))
                        /\ Sum(price, own(bracket)) \in Int
      OBVIOUS
    <2>1. own(bracket) \in SUBSET windows
      OBVIOUS
    <2> HIDE DEF own, price
    <2>2. IsFiniteSet(own(bracket)) /\ Whole(price, own(bracket))
      BY <1>1, <2>1, FS_Subset DEF Whole, WindowsOK
    <2> QED BY <2>2, SumIsWhole
  <1> DEFINE peak == own("peak")
             off == own("off_peak")
             super == own("super_off_peak")
  <1>4. windows = peak \cup (off \cup super) /\ peak \cap (off \cup super) = {}
        /\ off \cap super = {}
    <2>1. \A w \in windows : BracketAt(tariff, w.slot) \in {"peak", "off_peak", "super_off_peak"}
      BY WindowRates DEF WindowsOK
    <2> QED BY <2>1
  <1>5. /\ nets[1] = Sum(price, peak) /\ nets[2] = Sum(price, off)
        /\ nets[3] = Sum(price, super) /\ DOMAIN nets = 1 .. 3
    <2>1. /\ DOMAIN Brackets = 1 .. 3 /\ Brackets[1] = "peak" /\ Brackets[2] = "off_peak"
          /\ Brackets[3] = "super_off_peak"
      BY DEF Brackets
    <2>2. /\ nets[1] = net("peak") /\ nets[2] = net("off_peak")
          /\ nets[3] = net("super_off_peak") /\ DOMAIN nets = 1 .. 3
      BY <2>1
    <2> HIDE DEF nets, net, own, price
    <2> QED BY <1>2, <2>2
  <1>6. NetCost(tariff, windows) = Sum(nets, 1 .. 3)
    <2>1. NetCost(tariff, windows) = SumFunction(nets)
      BY DEF NetCost
    <2> HIDE DEF nets
    <2> QED BY <1>5, <2>1 DEF SumFunction, Sum
  <1>7. SumFunction(price) = Sum(price, windows)
    <2>1. DOMAIN price = windows
      OBVIOUS
    <2> HIDE DEF price
    <2> QED BY <2>1 DEF SumFunction, Sum
  <1> HIDE DEF nets, price, net
  <1>8. IsFiniteSet(peak) /\ IsFiniteSet(off) /\ IsFiniteSet(super)
        /\ Whole(price, peak) /\ Whole(price, off) /\ Whole(price, super)
        /\ Sum(price, peak) \in Int /\ Sum(price, off) \in Int /\ Sum(price, super) \in Int
    BY <1>3
  <1> HIDE DEF own, peak, off, super
  <1>9. Sum(price, off \cup super) = Sum(price, off) + Sum(price, super)
    BY <1>4, <1>8, SumOfUnion
  <1>10. Sum(price, windows) = Sum(price, peak) + Sum(price, off \cup super)
    <2>1. IsFiniteSet(off \cup super) /\ Whole(price, off \cup super)
      BY <1>8, FS_Union DEF Whole
    <2> QED BY <1>4, <1>8, <2>1, SumOfUnion
  <1>11. Sum(nets, 1 .. 3) = Sum(price, peak) + Sum(price, off) + Sum(price, super)
    BY <1>5, <1>8, SumOfThree
  <1> QED BY <1>6, <1>7, <1>8, <1>9, <1>10, <1>11 DEF price

LEMMA OneWindowPerSlotOK == WindowsOK(OneWindowPerSlot)
  <1> DEFINE f == [ s \in Slots |-> [slot |-> s, import |-> 2, export |-> 1] ]
             P == ((1 .. Months) \X (1 .. HoursPerDay)) \X BOOLEAN
             g == [ p \in P |-> [month |-> p[1][1], hour |-> p[1][2], weekend |-> p[2]] ]
  <1>1. IsFiniteSet(P)
    <2>1. IsFiniteSet(1 .. Months) /\ IsFiniteSet(1 .. HoursPerDay)
      BY TableAssumption, FS_Interval
    <2>2. IsFiniteSet(BOOLEAN)
      <3>1. BOOLEAN = {TRUE} \cup {FALSE}
        OBVIOUS
      <3>2. IsFiniteSet({TRUE}) /\ IsFiniteSet({FALSE})
        BY FS_Singleton
      <3>3. IsFiniteSet({TRUE} \cup {FALSE})
        BY <3>2, FS_Union
      <3> QED BY <3>1, <3>3
    <2>3. IsFiniteSet((1 .. Months) \X (1 .. HoursPerDay))
      BY <2>1, FS_Product
    <2> QED BY <2>2, <2>3, FS_Product
  <1>2. g \in Surjection(P, Slots)
    <2>1. g \in [P -> Slots]
      BY DEF Slots
    <2>2. \A s \in Slots : \E p \in P : g[p] = s
      <3> SUFFICES ASSUME NEW s \in Slots PROVE \E p \in P : g[p] = s
        OBVIOUS
      <3> DEFINE p == << << s.month, s.hour >>, s.weekend >>
      <3>1. p \in P /\ s = [month |-> s.month, hour |-> s.hour, weekend |-> s.weekend]
        BY DEF Slots
      <3>2. g[p] = s
        BY <3>1
      <3> QED BY <3>1, <3>2
    <2> HIDE DEF g, P
    <2> QED BY <2>1, <2>2, Fun_IsSurj
  <1>3. IsFiniteSet(Slots)
    <2> HIDE DEF g, P
    <2> QED BY <1>1, <1>2, FS_Surjection
  <1>4. f \in Surjection(Slots, OneWindowPerSlot)
    <2>1. f \in [Slots -> OneWindowPerSlot] /\ \A w \in OneWindowPerSlot : \E s \in Slots : f[s] = w
      BY DEF OneWindowPerSlot
    <2> HIDE DEF f
    <2> QED BY <2>1, Fun_IsSurj
  <1>5. IsFiniteSet(OneWindowPerSlot)
    <2> HIDE DEF f
    <2> QED BY <1>3, <1>4, FS_Surjection
  <1>6. \A w \in OneWindowPerSlot : w.slot \in Slots /\ w.import \in Int /\ w.export \in Int
    BY DEF OneWindowPerSlot
  <1> QED BY <1>5, <1>6 DEF WindowsOK

\* What a fetch answers with can be costed, and grouping by brackets changes no
\* price.
THEOREM BracketsOnlyGroup == Spec => []PricedByPeriod
  <1>1. FetchInv => PricedByPeriod
    <2> SUFFICES ASSUME FetchInv, NEW i \in DOMAIN revisions
                 PROVE  NetCost(revisions[i].item.tariff, OneWindowPerSlot)
                          = SumFunction([ w \in OneWindowPerSlot |->
                                            Price(revisions[i].item.tariff, w) ])
      BY DEF PricedByPeriod
    <2>1. revisions \in Seq(Revision) /\ i \in 1 .. Len(revisions)
      BY DEF FetchInv, TypesInv
    <2>2. revisions[i] \in Revision /\ Parses(revisions[i].item)
      BY <2>1 DEF FetchInv, TypesInv
    <2>3. revisions[i].item.tariff \in TariffType /\ Resolves(revisions[i].item.tariff)
      BY <2>2 DEF Revision, ItemType, TariffType, Parses
    <2> QED BY <2>3, OneWindowPerSlotOK, NetCostIsSumOfPrices
  <1> QED BY <1>1, FetchInvariant, PTL

-----------------------------------------------------------------------------
(* The types. *)

LEMMA NextOffset ==
  ASSUME NEW a \in Nat, NEW d \in Nat \ {0}, a % d = 0
  PROVE  (a + d) % d = 0
  <1> DEFINE q == a \div d
             r == (a + d) % d
             k == (a + d) \div d
  <1>1. q \in Int /\ k \in Int /\ r \in Int /\ 0 <= r /\ r < d /\ a = d * q /\ a + d = d * k + r
    OBVIOUS
  <1> HIDE DEF q, r, k
  <1>2. d * (q + 1 - k) = r
    <2>1. d * (q + 1 - k) = d * q + d - d * k
      BY <1>1
    <2>2. d * q \in Int /\ d * k \in Int
      BY <1>1
    <2> QED BY <1>1, <2>1, <2>2
  <1>3. CASE q + 1 - k >= 1
    <2>1. d * (q + 1 - k) >= d
      BY <1>1, <1>3
    <2> QED BY <1>1, <1>2, <2>1
  <1>4. CASE q + 1 - k <= 0
    <2>1. d * (q + 1 - k) <= 0
      BY <1>1, <1>4
    <2> QED BY <1>1, <1>2, <2>1 DEF r
  <1> QED BY <1>1, <1>3, <1>4

\* The variables of a fetch have their types: offsets are whole pages, no page
\* is longer than was asked for, and only items of the plan are collected.
THEOREM FetchTypes == Spec => []TypeOK
  <1>1. Init => TypeOK
    <2> SUFFICES ASSUME Init PROVE TypeOK
      OBVIOUS
    <2>1. 0 % PageSize = 0 /\ 0 \in 0 .. MaxChanges /\ DOMAIN revisions = {}
      BY BoundsAssumption DEF Init
    <2> QED BY <2>1, UpstreamsAssumption DEF Init, TypeOK
  <1>2. ASSUME FetchInv, FetchInv', TypeOK, [Next]_vars PROVE TypeOK'
    <2>1. /\ upstream' \in [Labels -> ItemType \cup {None}] /\ paging' \in BOOLEAN
          /\ changes' \in Nat /\ offset' \in Nat
      BY <1>2 DEF FetchInv, TypesInv, UpstreamOK
    <2>2. PageSize \in Nat \ {0} /\ offset \in Nat /\ changes \in Nat /\ requests \in Nat
          /\ UpstreamOK /\ revisions \in Seq(Revision) /\ MaxChanges \in Nat
      BY <1>2, BoundsAssumption DEF FetchInv, TypesInv
    <2>0. \A i \in DOMAIN revisions : revisions[i].request \in Nat
      <3>1. \A i \in DOMAIN revisions : revisions[i] \in Revision
        BY <2>2
      <3> QED BY <3>1 DEF Revision
    <2>3. ASSUME NEW kind \in {"publish", "amend", "withdraw"}, NEW l \in Labels,
                 NEW item \in ItemType \cup {None}, Change(kind, l, item)
          PROVE  TypeOK'
      <3>1. /\ changes < MaxChanges /\ changes' = changes + 1 /\ since' = since \cup {kind}
            /\ steady' \subseteq steady /\ pc' = pc /\ offset' = offset /\ seenPages' = seenPages
            /\ revisions' = revisions /\ requests' = requests
        BY <2>3 DEF Change, client
      <3>2. changes' \in 0 .. MaxChanges
        BY <2>2, <3>1
      <3> QED BY <1>2, <2>1, <3>1, <3>2 DEF TypeOK
    <2>4. CASE Begin
      <3>1. /\ pc' = "fetching" /\ offset' = 0 /\ seenPages' = {} /\ revisions' = <<>>
            /\ since' = {} /\ steady' = OfPlan /\ changes' = changes
        BY <2>4 DEF Begin, service
      <3>2. 0 % PageSize = 0 /\ DOMAIN revisions' = {}
        BY <2>2, <3>1
      <3>3. OfPlan \subseteq Labels
        BY DEF OfPlan, Listed
      <3> QED BY <1>2, <2>1, <3>1, <3>2, <3>3 DEF TypeOK
    <2>5. CASE RequestFails
      <3>1. /\ pc' = "failed" /\ offset' = offset /\ seenPages' = seenPages
            /\ revisions' = revisions /\ requests' = requests + 1 /\ since' = since
            /\ steady' = steady /\ changes' = changes
        BY <2>5 DEF RequestFails, service, history
      <3>3. \A i \in DOMAIN revisions' : /\ revisions'[i].label \in Labels
                                         /\ revisions'[i].item.ours
                                         /\ revisions'[i].request <= requests'
        BY <1>2, <2>0, <2>2, <3>1 DEF TypeOK
      <3> QED BY <1>2, <2>1, <3>1, <3>3 DEF TypeOK
    <2>6. CASE ReadPage
      <3> DEFINE page == Response
                 all == Collected(Response)
                 fails == Repeated(page) \/ ~ParsesOurs(page)
      <3>1. /\ pc = "fetching" /\ requests' = requests + 1
            /\ seenPages' = seenPages \cup {page} /\ changes' = changes
            /\ since' = since /\ steady' = steady
            /\ pc' \in {"fetching", "done", "failed"}
            /\ offset' \in {offset, offset + PageSize}
        BY <2>6 DEF ReadPage, service, history
      <3>2. \/ revisions' = revisions
            \/ ParsesOurs(page) /\ (revisions' = all \/ revisions' = Sorted(all))
        BY <2>6 DEF ReadPage
      <3>3. offset' % PageSize = 0
        BY <1>2, <2>2, <3>1, NextOffset DEF TypeOK
      <3>4. Cardinality(page) <= PageSize
        BY <2>2, Pages, ResponseFrom
      <3>5. \A i \in DOMAIN revisions : /\ revisions[i].item.ours /\ revisions[i].request \in Nat
                                        /\ revisions[i].request <= requests
        BY <1>2, <2>0 DEF TypeOK
      <3>6. ASSUME ParsesOurs(page)
            PROVE  /\ all \in Seq(Revision)
                   /\ \A i \in 1 .. Len(all) : all[i].item.ours /\ all[i].request <= requests + 1
        <4>1. /\ all \in Seq(Revision)
              /\ \A i \in 1 .. Len(all) : all[i].request <= requests + 1
          BY <1>2, <3>1, <3>6, CollectedOrder
        <4>2. Response = PageAt(From) /\ From \in Nat
          BY <2>2, ResponseFrom
        <4> DEFINE new == Collected(PageAt(From))
                   n == Len(revisions)
                   shown == { l \in Shown(From) : l \in OfPlan }
        <4>3. /\ n \in Nat /\ Len(new) \in Nat /\ \A i \in 1 .. n : new[i] = revisions[i]
              /\ \A i \in n + 1 .. Len(new) :
                   new[i].label \in shown /\ new[i].item = upstream[new[i].label]
          BY <2>2, <4>2, CollectedFacts
        <4>4. all = new
          BY <4>2
        <4>5. \A l \in shown : upstream[l].ours
          BY DEF OfPlan
        <4>6. DOMAIN revisions = 1 .. n
          BY <2>2
        <4> HIDE DEF all, new, n, shown
        <4>7. \A i \in 1 .. Len(all) : all[i].item.ours
          <5> SUFFICES ASSUME NEW i \in 1 .. Len(new) PROVE new[i].item.ours
            BY <4>4
          <5>1. i \in 1 .. n \/ i \in n + 1 .. Len(new)
            BY <4>3
          <5> QED BY <3>5, <4>3, <4>5, <4>6, <5>1
        <4> QED BY <4>1, <4>7
      <3>7. ASSUME NEW i \in DOMAIN revisions'
            PROVE  /\ revisions'[i].label \in Labels /\ revisions'[i].item.ours
                   /\ revisions'[i].request <= requests'
        <4>1. CASE revisions' = revisions
          <5>1. revisions'[i].label \in Labels
            BY <1>2, <4>1 DEF TypeOK
          <5> QED BY <2>2, <3>1, <3>5, <4>1, <5>1
        <4>2. CASE ParsesOurs(page) /\ revisions' = all
          <5>1. i \in 1 .. Len(all) /\ all[i] \in Revision
            BY <3>6, <4>2
          <5> QED BY <3>1, <3>6, <4>2, <5>1 DEF Revision
        <4>3. CASE ParsesOurs(page) /\ revisions' = Sorted(all)
          <5> HIDE DEF all, page, fails
          <5>1. /\ Sorted(all) \in Seq(Revision) /\ Len(Sorted(all)) = Len(all)
                /\ \E from \in [1 .. Len(all) -> 1 .. Len(all)] :
                     \A p \in 1 .. Len(all) : Sorted(all)[p] = all[from[p]]
            BY <3>6, <4>3, SortedFacts
          <5>2. PICK from \in [1 .. Len(all) -> 1 .. Len(all)] :
                     \A p \in 1 .. Len(all) : Sorted(all)[p] = all[from[p]]
            BY <5>1
          <5>3. i \in 1 .. Len(all) /\ revisions'[i] \in Revision /\ revisions'[i] = all[from[i]]
            BY <4>3, <5>1, <5>2
          <5>4. from[i] \in 1 .. Len(all)
            BY <5>3
          <5> QED BY <3>1, <3>6, <4>3, <5>3, <5>4 DEF Revision
        <4> QED BY <3>2, <4>1, <4>2, <4>3
      <3> HIDE DEF page
      <3> QED BY <1>2, <2>1, <3>1, <3>3, <3>4, <3>7 DEF TypeOK
    <2>7. CASE UNCHANGED vars
      BY <1>2, <2>1, <2>7 DEF TypeOK, vars, service, client, history
    <2>8. ASSUME NEW l \in Labels, NEW item \in Items, Publish(l, item) \/ Amend(l, item)
          PROVE  TypeOK'
      <3>1. item \in ItemType
        BY ItemsAssumption
      <3> QED BY <2>3, <2>8, <3>1 DEF Publish, Amend
    <2>9. ASSUME NEW l \in Labels, Withdraw(l) PROVE TypeOK'
      BY <2>3, <2>9 DEF Withdraw
    <2> QED BY <1>2, <2>4, <2>5, <2>6, <2>7, <2>8, <2>9 DEF Next
  <1> QED BY <1>1, <1>2, FetchInvariant, PTL DEF Spec
=============================================================================
