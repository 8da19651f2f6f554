----------------------------- MODULE FiniteSums -----------------------------
(***************************************************************************)
(* Sums over finite sets: what the module Functions' SumFunctionOnSet, a   *)
(* fold that takes its elements in an order nobody knows, does with any    *)
(* finite set of whole numbers.  The proofs about energy and about prices  *)
(* rest on these lemmas.                                                   *)
(*                                                                         *)
(* A fact about every finite set would need an induction, and the library  *)
(* states those for an operator.  Here it is a set of subsets, the good    *)
(* ones, that is shown to hold them all: SubsetInduction.                  *)
(***************************************************************************)
EXTENDS Functions, FiniteSetTheorems, WellFoundedInduction, TLAPS

-----------------------------------------------------------------------------
(* Least elements, for what would be an induction. *)

\* A finite set has a least element under every strict order of it.
LEMMA FiniteHasLeast ==
  ASSUME NEW S, IsFiniteSet(S), S /= {}, NEW R,
         \A x, y, z \in S : << x, y >> \in R /\ << y, z >> \in R => << x, z >> \in R,
         \A x \in S : << x, x >> \notin R
  PROVE  \E m \in S : \A x \in S : << x, m >> \notin R
  <1> DEFINE Below(m) == { x \in S : << x, m >> \in R }
             T == { Below(m) : m \in S }
  <1>1. T \subseteq FiniteSubsetsOf(S) /\ T /= {}
    <2>1. \A m \in S : Below(m) \in SUBSET S
      OBVIOUS
    <2> HIDE DEF Below
    <2>2. T \subseteq SUBSET S
      BY <2>1
    <2>3. T /= {}
      <3>1. PICK m \in S : TRUE
        OBVIOUS
      <3>2. Below(m) \in T
        BY <3>1
      <3> QED BY <3>2
    <2>4. FiniteSubsetsOf(S) = SUBSET S
      BY FS_FiniteSubsetsOfFinite
    <2> HIDE DEF T
    <2> QED BY <2>2, <2>3, <2>4
  <1>2. PICK D \in T : \A E \in T : << E, D >> \notin StrictSubsetOrdering(S)
    <2>1. IsWellFoundedOn(StrictSubsetOrdering(S), FiniteSubsetsOf(S))
      BY FS_StrictSubsetOrderingWellFounded
    <2> HIDE DEF T
    <2> QED BY <1>1, <2>1, WFMin
  <1>3. PICK m \in S : D = Below(m)
    OBVIOUS
  <1>4. ASSUME NEW x \in S, << x, m >> \in R PROVE FALSE
    <2>1. Below(x) \subseteq Below(m) /\ x \in Below(m) /\ x \notin Below(x)
      BY <1>4
    <2>2. << Below(x), Below(m) >> \in StrictSubsetOrdering(S)
      BY <2>1 DEF StrictSubsetOrdering
    <2> QED BY <1>2, <1>3, <2>2
  <1> QED BY <1>4

\* The least number of a set of them.
LEMMA LeastNatural ==
  ASSUME NEW T \in SUBSET Nat, T /= {}
  PROVE  \E n \in T : \A m \in T : n <= m
  <1>1. PICK k \in T : TRUE
    OBVIOUS
  <1> DEFINE S == { m \in T : m <= k }
             R == { p \in Nat \X Nat : p[1] < p[2] }
  <1>2. IsFiniteSet(S)
    <2>1. \A m \in S : m \in 0 .. k
      BY <1>1
    <2>2. IsFiniteSet(0 .. k)
      BY <1>1, FS_Interval
    <2> HIDE DEF S
    <2>3. S \in SUBSET (0 .. k)
      BY <2>1
    <2> QED BY <2>2, <2>3, FS_Subset
  <1>3. k \in S
    BY <1>1
  <1>4. \A x, y \in Nat : << x, y >> \in R <=> x < y
    OBVIOUS
  <1>5. S \subseteq Nat
    OBVIOUS
  <1> HIDE DEF R
  <1>6. \E m \in S : \A x \in S : << x, m >> \notin R
    <2> HIDE DEF S
    <2>1. \A x, y, z \in S : << x, y >> \in R /\ << y, z >> \in R => << x, z >> \in R
      BY <1>4, <1>5
    <2>2. \A x \in S : << x, x >> \notin R
      BY <1>4, <1>5
    <2> QED BY <1>2, <1>3, <2>1, <2>2, FiniteHasLeast
  <1>7. PICK n \in S : \A x \in S : ~ (x < n)
    BY <1>4, <1>5, <1>6
  <1>8. ASSUME NEW m \in T PROVE n <= m
    <2>1. n \in Nat /\ m \in Nat /\ k \in Nat /\ n <= k
      BY <1>1, <1>7
    <2>2. CASE m <= k
      BY <1>7, <2>1, <2>2
    <2>3. CASE k < m
      BY <2>1, <2>3
    <2> QED BY <2>1, <2>2, <2>3
  <1> QED BY <1>7, <1>8

-----------------------------------------------------------------------------
(* Induction over the subsets of a finite set. *)

\* A collection that holds the empty set, and every set all of whose elements
\* can be taken out of it without leaving the collection, holds them all.
LEMMA SubsetInduction ==
  ASSUME NEW U, IsFiniteSet(U), NEW Good, {} \in Good,
         \A s \in SUBSET U : s /= {} /\ (\A x \in s : s \ {x} \in Good) => s \in Good
  PROVE  \A s \in SUBSET U : s \in Good
  <1> DEFINE T == { s \in SUBSET U : s \notin Good }
  <1> SUFFICES ASSUME T /= {} PROVE FALSE
    OBVIOUS
  <1>1. T \subseteq FiniteSubsetsOf(U)
    BY FS_FiniteSubsetsOfFinite
  <1>2. PICK s \in T : \A t \in T : << t, s >> \notin StrictSubsetOrdering(U)
    <2>1. IsWellFoundedOn(StrictSubsetOrdering(U), FiniteSubsetsOf(U))
      BY FS_StrictSubsetOrderingWellFounded
    <2> HIDE DEF T
    <2> QED BY <1>1, <2>1, WFMin
  <1>3. s \in SUBSET U /\ s \notin Good /\ s /= {}
    OBVIOUS
  <1>4. PICK x \in s : s \ {x} \notin Good
    BY <1>3
  <1>5. s \ {x} \in T
    BY <1>3, <1>4
  <1>6. << s \ {x}, s >> \in StrictSubsetOrdering(U)
    BY <1>3, <1>4 DEF StrictSubsetOrdering
  <1> QED BY <1>2, <1>5, <1>6

-----------------------------------------------------------------------------
(* The recursion of the fold, as a function of the set that is left. *)

\* One round of the fold over s, going on with g.
SumRound(f, g, s) ==
  IF s = {} THEN 0 ELSE LET x == CHOOSE x \in s : TRUE IN f[x] + g[s \ {x}]

Partial(f, U) == CHOOSE g : g = [ s \in SUBSET U |-> SumRound(f, g, s) ]

LEMMA SumIsPartial ==
  ASSUME NEW f, NEW U
  PROVE  SumFunctionOnSet(f, U) = Partial(f, U)[U]
  BY DEF SumFunctionOnSet, FoldFunctionOnSet, MapThenFoldSet, Partial, SumRound

\* g is such a function as far as the subsets of U go.
IsFold(f, g, U) == \A s \in SUBSET U : g[s] = SumRound(f, g, s)

LEMMA FoldsAgree ==
  ASSUME NEW f, NEW U, IsFiniteSet(U), NEW g, NEW h, IsFold(f, g, U), IsFold(f, h, U)
  PROVE  \A s \in SUBSET U : g[s] = h[s]
  <1> DEFINE Good == { s \in SUBSET U : g[s] = h[s] }
  <1>1. {} \in Good
    BY DEF IsFold, SumRound
  <1>2. ASSUME NEW s \in SUBSET U, s /= {}, \A x \in s : s \ {x} \in Good
        PROVE  s \in Good
    <2> DEFINE x == CHOOSE x \in s : TRUE
    <2>1. x \in s
      BY <1>2
    <2>2. g[s] = f[x] + g[s \ {x}] /\ h[s] = f[x] + h[s \ {x}]
      BY <1>2 DEF IsFold, SumRound
    <2> HIDE DEF x
    <2> QED BY <1>2, <2>1, <2>2
  <1>3. \A s \in SUBSET U : s \in Good
    <2> HIDE DEF Good
    <2> QED BY <1>1, <1>2, SubsetInduction
  <1> QED BY <1>3

LEMMA FoldsExist ==
  ASSUME NEW f, NEW U, IsFiniteSet(U)
  PROVE  \E g : IsFold(f, g, U)
  <1> DEFINE H(t) == CHOOSE g : IsFold(f, g, t)
             Good == { s \in SUBSET U : \E g : IsFold(f, g, s) }
  <1>1. {} \in Good
    <2> DEFINE g == [ t \in {{}} |-> 0 ]
    <2>1. g[{}] = 0
      OBVIOUS
    <2> HIDE DEF g
    <2>2. IsFold(f, g, {})
      BY <2>1 DEF IsFold, SumRound
    <2> QED BY <2>2
  <1>2. ASSUME NEW s \in SUBSET U, s /= {}, \A x \in s : s \ {x} \in Good
        PROVE  s \in Good
    <2> DEFINE next(t) == CHOOSE x \in t : TRUE
               G == [ t \in SUBSET s |->
                        IF t = {} THEN 0 ELSE f[next(t)] + H(t \ {next(t)})[t \ {next(t)}] ]
    <2>1. ASSUME NEW t \in SUBSET s, t /= s PROVE IsFold(f, H(t), t) /\ IsFiniteSet(t)
      <3>1. PICK x \in s : x \notin t
        BY <2>1
      <3>2. PICK g : IsFold(f, g, s \ {x})
        BY <1>2
      <3>3. IsFold(f, g, t)
        BY <3>1, <3>2 DEF IsFold
      <3> QED BY <3>3, FS_Subset
    <2>2. ASSUME NEW t \in SUBSET s, t /= {}
          PROVE  /\ next(t) \in t /\ t \ {next(t)} \in SUBSET s /\ t \ {next(t)} /= s
                 /\ G[t] = f[next(t)] + H(t \ {next(t)})[t \ {next(t)}]
      BY <2>2
    <2>3. ASSUME NEW u \in SUBSET s, u /= s PROVE G[u] = H(u)[u]
      <3>1. CASE u = {}
        BY <2>1, <2>3, <3>1 DEF IsFold, SumRound
      <3>2. CASE u /= {}
        <4> DEFINE y == next(u)
        <4>1. H(u)[u] = f[y] + H(u)[u \ {y}]
          BY <2>1, <2>3, <3>2 DEF IsFold, SumRound
        <4>2. /\ u \ {y} \in SUBSET s /\ u \ {y} /= s /\ u \ {y} \in SUBSET u
              /\ G[u] = f[y] + H(u \ {y})[u \ {y}]
          BY <2>2, <3>2
        <4> HIDE DEF y
        <4>3. IsFold(f, H(u), u \ {y})
          BY <2>1, <2>3, <4>2 DEF IsFold
        <4>4. IsFold(f, H(u \ {y}), u \ {y}) /\ IsFiniteSet(u \ {y})
          BY <2>1, <4>2
        <4>5. H(u)[u \ {y}] = H(u \ {y})[u \ {y}]
          BY <4>3, <4>4, FoldsAgree
        <4> QED BY <4>1, <4>2, <4>5
      <3> QED BY <3>1, <3>2
    <2>4. IsFold(f, G, s)
      <3>1. ASSUME NEW t \in SUBSET s PROVE G[t] = SumRound(f, G, t)
        <4>1. CASE t = {}
          BY <4>1 DEF SumRound
        <4>2. CASE t /= {}
          <5>1. G[t \ {next(t)}] = H(t \ {next(t)})[t \ {next(t)}]
            BY <2>2, <2>3, <4>2
          <5> HIDE DEF H, G
          <5> QED BY <2>2, <4>2, <5>1 DEF SumRound
        <4> QED BY <4>1, <4>2
      <3> HIDE DEF G
      <3> QED BY <3>1 DEF IsFold
    <2> HIDE DEF G
    <2> QED BY <2>4
  <1>3. \A s \in SUBSET U : s \in Good
    <2> HIDE DEF Good
    <2> QED BY <1>1, <1>2, SubsetInduction
  <1> QED BY <1>3

LEMMA PartialIsFold ==
  ASSUME NEW f, NEW U, IsFiniteSet(U)
  PROVE  IsFold(f, Partial(f, U), U)
  <1>1. PICK g : IsFold(f, g, U)
    BY FoldsExist
  <1> DEFINE G == [ s \in SUBSET U |-> g[s] ]
             P == Partial(f, U)
  <1>2. G = [ s \in SUBSET U |-> SumRound(f, G, s) ]
    <2>1. \A s \in SUBSET U : SumRound(f, G, s) = SumRound(f, g, s)
      <3>1. \A s \in SUBSET U : s /= {} => s \ {CHOOSE x \in s : TRUE} \in SUBSET U
        OBVIOUS
      <3>2. \A s \in SUBSET U : G[s] = g[s]
        OBVIOUS
      <3> HIDE DEF G
      <3> QED BY <3>1, <3>2 DEF SumRound
    <2>2. \A s \in SUBSET U : G[s] = SumRound(f, G, s)
      <3>1. \A s \in SUBSET U : G[s] = g[s]
        OBVIOUS
      <3> HIDE DEF G
      <3> QED BY <1>1, <2>1, <3>1 DEF IsFold
    <2>3. G = [ s \in SUBSET U |-> G[s] ]
      OBVIOUS
    <2> HIDE DEF G
    <2> QED BY <2>2, <2>3
  <1>3. P = [ s \in SUBSET U |-> SumRound(f, P, s) ]
    <2> HIDE DEF G
    <2> QED BY <1>2 DEF Partial
  <1> HIDE DEF P
  <1>4. IsFold(f, P, U)
    BY <1>3 DEF IsFold
  <1> QED BY <1>4 DEF P

-----------------------------------------------------------------------------
(* The sum itself. *)

Sum(f, S) == SumFunctionOnSet(f, S)

\* f has a whole number for every element of S.
Whole(f, S) == \A x \in S : f[x] \in Int

LEMMA SumOfNone ==
  ASSUME NEW f
  PROVE  Sum(f, {}) = 0
  BY FS_EmptySet, PartialIsFold, SumIsPartial DEF Sum, IsFold, SumRound

\* The fold takes out an element of its own choice.
LEMMA SumTakesOut ==
  ASSUME NEW f, NEW S, IsFiniteSet(S), S /= {}
  PROVE  \E x \in S : Sum(f, S) = f[x] + Sum(f, S \ {x})
  <1> DEFINE x == CHOOSE x \in S : TRUE
  <1>1. x \in S /\ S \ {x} \in SUBSET S
    OBVIOUS
  <1>2. Partial(f, S)[S] = f[x] + Partial(f, S)[S \ {x}]
    BY PartialIsFold DEF IsFold, SumRound
  <1> HIDE DEF x
  <1>3. IsFold(f, Partial(f, S), S \ {x}) /\ IsFiniteSet(S \ {x})
    BY <1>1, PartialIsFold, FS_Subset DEF IsFold
  <1>4. IsFold(f, Partial(f, S \ {x}), S \ {x})
    BY <1>3, PartialIsFold
  <1>5. Partial(f, S)[S \ {x}] = Partial(f, S \ {x})[S \ {x}]
    BY <1>3, <1>4, FoldsAgree
  <1> QED BY <1>1, <1>2, <1>5, SumIsPartial DEF Sum

LEMMA SumIsWhole ==
  ASSUME NEW f, NEW S, IsFiniteSet(S), Whole(f, S)
  PROVE  Sum(f, S) \in Int
  <1> DEFINE Good == { s \in SUBSET S : Sum(f, s) \in Int }
  <1>1. {} \in Good
    BY SumOfNone
  <1>2. ASSUME NEW s \in SUBSET S, s /= {}, \A x \in s : s \ {x} \in Good
        PROVE  s \in Good
    <2>1. IsFiniteSet(s)
      BY FS_Subset
    <2>2. PICK x \in s : Sum(f, s) = f[x] + Sum(f, s \ {x})
      BY <1>2, <2>1, SumTakesOut
    <2> QED BY <1>2, <2>2 DEF Whole
  <1>3. \A s \in SUBSET S : s \in Good
    <2> HIDE DEF Good
    <2> QED BY <1>1, <1>2, SubsetInduction
  <1> QED BY <1>3

\* Whichever element is taken out first, the sum is the same.
LEMMA SumWithout ==
  ASSUME NEW f, NEW S, IsFiniteSet(S), Whole(f, S), NEW x \in S
  PROVE  Sum(f, S) = f[x] + Sum(f, S \ {x})
  <1> DEFINE Good == { s \in SUBSET S : \A y \in s : Sum(f, s) = f[y] + Sum(f, s \ {y}) }
  <1>1. {} \in Good
    OBVIOUS
  <1>2. ASSUME NEW s \in SUBSET S, s /= {}, \A y \in s : s \ {y} \in Good
        PROVE  s \in Good
    <2> SUFFICES ASSUME NEW y \in s PROVE Sum(f, s) = f[y] + Sum(f, s \ {y})
      OBVIOUS
    <2>1. \A t \in SUBSET S : IsFiniteSet(t) /\ Whole(f, t)
      BY FS_Subset DEF Whole
    <2>2. PICK c \in s : Sum(f, s) = f[c] + Sum(f, s \ {c})
      BY <1>2, <2>1, SumTakesOut
    <2>3. CASE c = y
      BY <2>2, <2>3
    <2>4. CASE c /= y
      <3>1. Sum(f, s \ {c}) = f[y] + Sum(f, (s \ {c}) \ {y})
        BY <1>2, <2>4
      <3>2. Sum(f, s \ {y}) = f[c] + Sum(f, (s \ {y}) \ {c})
        BY <1>2, <2>4
      <3>3. (s \ {c}) \ {y} = (s \ {y}) \ {c} /\ (s \ {c}) \ {y} \in SUBSET S
        OBVIOUS
      <3>4. Sum(f, (s \ {c}) \ {y}) \in Int
        BY <2>1, <3>3, SumIsWhole
      <3>5. f[c] \in Int /\ f[y] \in Int
        BY DEF Whole
      <3> DEFINE rest == Sum(f, (s \ {c}) \ {y})
      <3>6. /\ Sum(f, s) = f[c] + (f[y] + rest)
            /\ Sum(f, s \ {y}) = f[c] + rest
        BY <2>2, <3>1, <3>2, <3>3
      <3> HIDE DEF rest
      <3>7. f[c] + (f[y] + rest) = f[y] + (f[c] + rest)
        BY <3>4, <3>5 DEF rest
      <3> QED BY <3>6, <3>7
    <2> QED BY <2>3, <2>4
  <1>3. \A s \in SUBSET S : s \in Good
    <2> HIDE DEF Good
    <2> QED BY <1>1, <1>2, SubsetInduction
  <1> QED BY <1>3

\* The sum looks at the elements summed only.
LEMMA SumsAgree ==
  ASSUME NEW f, NEW g, NEW S, IsFiniteSet(S), Whole(f, S), \A x \in S : g[x] = f[x]
  PROVE  Sum(g, S) = Sum(f, S)
  <1> DEFINE Good == { s \in SUBSET S : Sum(g, s) = Sum(f, s) }
  <1>1. {} \in Good
    BY SumOfNone
  <1>2. ASSUME NEW s \in SUBSET S, s /= {}, \A x \in s : s \ {x} \in Good
        PROVE  s \in Good
    <2>1. IsFiniteSet(s) /\ Whole(f, s) /\ Whole(g, s)
      BY FS_Subset DEF Whole
    <2>2. PICK x \in s : Sum(f, s) = f[x] + Sum(f, s \ {x})
      BY <1>2, <2>1, SumTakesOut
    <2>3. Sum(g, s) = g[x] + Sum(g, s \ {x})
      BY <2>1, SumWithout
    <2> QED BY <1>2, <2>2, <2>3
  <1>3. \A s \in SUBSET S : s \in Good
    <2> HIDE DEF Good
    <2> QED BY <1>1, <1>2, SubsetInduction
  <1> QED BY <1>3

LEMMA SumOfUnion ==
  ASSUME NEW f, NEW S, NEW T, IsFiniteSet(S), IsFiniteSet(T), S \cap T = {},
         Whole(f, S), Whole(f, T)
  PROVE  Sum(f, S \cup T) = Sum(f, S) + Sum(f, T)
  <1> DEFINE Good == { t \in SUBSET T : Sum(f, S \cup t) = Sum(f, S) + Sum(f, t) }
  <1>1. {} \in Good
    <2>1. S \cup {} = S
      OBVIOUS
    <2>2. Sum(f, {}) = 0 /\ Sum(f, S) \in Int
      BY SumOfNone, SumIsWhole
    <2> QED BY <2>1, <2>2
  <1>2. ASSUME NEW t \in SUBSET T, t /= {}, \A x \in t : t \ {x} \in Good
        PROVE  t \in Good
    <2>1. PICK x \in t : TRUE
      BY <1>2
    <2>2. /\ IsFiniteSet(t) /\ IsFiniteSet(t \ {x}) /\ IsFiniteSet(S \cup t)
          /\ Whole(f, t) /\ Whole(f, t \ {x}) /\ Whole(f, S \cup t)
      BY FS_Subset, FS_Union DEF Whole
    <2>3. Sum(f, t) = f[x] + Sum(f, t \ {x})
      BY <2>1, <2>2, SumWithout
    <2>4. Sum(f, S \cup t) = f[x] + Sum(f, (S \cup t) \ {x})
      BY <2>1, <2>2, SumWithout
    <2>5. (S \cup t) \ {x} = S \cup (t \ {x})
      BY <2>1
    <2>6. Sum(f, S \cup (t \ {x})) = Sum(f, S) + Sum(f, t \ {x})
      BY <1>2, <2>1
    <2>7. Sum(f, S) \in Int /\ Sum(f, t \ {x}) \in Int /\ f[x] \in Int
      BY <2>1, <2>2, SumIsWhole DEF Whole
    <2> DEFINE a == Sum(f, S)
               b == Sum(f, t \ {x})
    <2>8. Sum(f, S \cup t) = f[x] + (a + b) /\ Sum(f, t) = f[x] + b
      BY <2>3, <2>4, <2>5, <2>6
    <2>9. a \in Int /\ b \in Int
      BY <2>7
    <2> HIDE DEF a, b
    <2>10. f[x] + (a + b) = a + (f[x] + b)
      BY <2>7, <2>9
    <2> QED BY <2>8, <2>10 DEF a
  <1>3. \A t \in SUBSET T : t \in Good
    <2> HIDE DEF Good
    <2> QED BY <1>1, <1>2, SubsetInduction
  <1> QED BY <1>3

LEMMA SumOfDifference ==
  ASSUME NEW f, NEW g, NEW h, NEW S, IsFiniteSet(S), Whole(f, S), Whole(g, S),
         \A x \in S : h[x] = f[x] - g[x]
  PROVE  Sum(h, S) = Sum(f, S) - Sum(g, S)
  <1> DEFINE Good == { s \in SUBSET S : Sum(h, s) = Sum(f, s) - Sum(g, s) }
  <1>1. {} \in Good
    BY SumOfNone
  <1>2. ASSUME NEW s \in SUBSET S, s /= {}, \A x \in s : s \ {x} \in Good
        PROVE  s \in Good
    <2>1. PICK x \in s : TRUE
      BY <1>2
    <2>2. \A t \in SUBSET S : IsFiniteSet(t) /\ Whole(f, t) /\ Whole(g, t) /\ Whole(h, t)
      BY FS_Subset DEF Whole
    <2> DEFINE a == Sum(f, s \ {x})
               b == Sum(g, s \ {x})
    <2>3. Sum(f, s) = f[x] + a /\ Sum(g, s) = g[x] + b
          /\ Sum(h, s) = h[x] + Sum(h, s \ {x})
      BY <2>1, <2>2, SumWithout
    <2>4. Sum(h, s \ {x}) = a - b
      BY <1>2, <2>1
    <2>5. a \in Int /\ b \in Int /\ f[x] \in Int /\ g[x] \in Int
      BY <2>1, <2>2, SumIsWhole DEF Whole
    <2> HIDE DEF a, b
    <2>6. (f[x] - g[x]) + (a - b) = (f[x] + a) - (g[x] + b)
      BY <2>5
    <2> QED BY <2>3, <2>4, <2>6
  <1>3. \A s \in SUBSET S : s \in Good
    <2> HIDE DEF Good
    <2> QED BY <1>1, <1>2, SubsetInduction
  <1> QED BY <1>3

-----------------------------------------------------------------------------
(* Stretches of a counter. *)

LEMMA FiniteHasGreatest ==
  ASSUME NEW S \in SUBSET Nat, IsFiniteSet(S), S /= {}
  PROVE  \E m \in S : \A x \in S : x <= m
  <1> DEFINE R == { p \in Nat \X Nat : p[2] < p[1] }
  <1>1. \A x, y \in Nat : << x, y >> \in R <=> y < x
    OBVIOUS
  <1> HIDE DEF R
  <1>2. \A x, y, z \in S : << x, y >> \in R /\ << y, z >> \in R => << x, z >> \in R
    BY <1>1
  <1>3. \A x \in S : << x, x >> \notin R
    BY <1>1
  <1>4. PICK m \in S : \A x \in S : << x, m >> \notin R
    BY <1>2, <1>3, FiniteHasLeast
  <1>5. ASSUME NEW x \in S PROVE x <= m
    <2>1. x \in Nat /\ m \in Nat /\ ~ (m < x)
      BY <1>1, <1>4
    <2> QED BY <2>1
  <1> QED BY <1>5

\* Each w of S has a stretch of a counter, from lo[w] to hi[w], and no stretch
\* begins before one of an earlier w has ended.
Stretches(S, lo, hi) ==
  /\ \A w \in S : lo[w] \in Nat /\ hi[w] \in Nat /\ lo[w] <= hi[w]
  /\ \A v, w \in S : v < w => hi[v] <= lo[w]

\* Together they are no longer than the counter is high.
THEOREM StretchesFit ==
  ASSUME NEW S \in SUBSET Nat, IsFiniteSet(S), NEW lo, NEW hi, Stretches(S, lo, hi),
         NEW f, Whole(f, S), \A w \in S : f[w] <= hi[w] - lo[w],
         NEW M \in Nat, \A w \in S : hi[w] <= M
  PROVE  Sum(f, S) <= M
  <1> DEFINE Good == { s \in SUBSET S :
                         \A m \in Nat : (\A w \in s : hi[w] <= m) => Sum(f, s) <= m }
  <1>1. {} \in Good
    BY SumOfNone
  <1>2. ASSUME NEW s \in SUBSET S, s /= {}, \A x \in s : s \ {x} \in Good
        PROVE  s \in Good
    <2>1. IsFiniteSet(s) /\ Whole(f, s) /\ s \in SUBSET Nat
      BY FS_Subset DEF Whole
    <2>2. PICK x \in s : \A w \in s : w <= x
      BY <1>2, <2>1, FiniteHasGreatest
    <2>3. Sum(f, s) = f[x] + Sum(f, s \ {x})
      BY <2>1, SumWithout
    <2>4. lo[x] \in Nat /\ hi[x] \in Nat /\ \A w \in s \ {x} : hi[w] <= lo[x]
      BY <2>1, <2>2 DEF Stretches
    <2> DEFINE b == Sum(f, s \ {x})
    <2>5. b <= lo[x] /\ b \in Int
      <3>1. IsFiniteSet(s \ {x}) /\ Whole(f, s \ {x})
        BY <2>1, FS_Subset DEF Whole
      <3> QED BY <1>2, <2>4, <3>1, SumIsWhole
    <2> HIDE DEF b
    <2>6. f[x] \in Int /\ f[x] <= hi[x] - lo[x]
      BY <2>1 DEF Whole
    <2>7. f[x] + b <= hi[x]
      BY <2>4, <2>5, <2>6
    <2>8. \A m \in Nat : hi[x] <= m => f[x] + b <= m
      BY <2>4, <2>5, <2>6, <2>7
    <2> QED BY <2>3, <2>8 DEF b
  <1>3. \A s \in SUBSET S : s \in Good
    <2> HIDE DEF Good
    <2> QED BY <1>1, <1>2, SubsetInduction
  <1> QED BY <1>3

\* w is the first of S after v.
NextIn(S, v, w) == v < w /\ \A u \in S : ~ (v < u /\ u < w)

\* Stretches that each begin where the one before it ended add up to the whole
\* from the first beginning to the last end.
THEOREM ChainAddsUp ==
  ASSUME NEW S \in SUBSET Nat, IsFiniteSet(S), NEW lo, NEW hi, Whole(lo, S), Whole(hi, S),
         \A v, w \in S : NextIn(S, v, w) => lo[w] = hi[v],
         NEW f, \A w \in S : f[w] = hi[w] - lo[w],
         NEW a \in S, NEW b \in S, \A w \in S : a <= w /\ w <= b
  PROVE  Sum(f, S) = hi[b] - lo[a]
  <1> DEFINE Initial(s) == \A x \in s, y \in S : y < x => y \in s
             Good == { s \in SUBSET S :
                         Initial(s) => \A z \in s : (\A w \in s : w <= z) =>
                                         Sum(f, s) = hi[z] - lo[a] }
  <1>1. {} \in Good
    OBVIOUS
  <1>2. ASSUME NEW s \in SUBSET S, s /= {}, \A x \in s : s \ {x} \in Good
        PROVE  s \in Good
    <2> SUFFICES ASSUME Initial(s), NEW z \in s, \A w \in s : w <= z
                 PROVE  Sum(f, s) = hi[z] - lo[a]
      OBVIOUS
    <2> DEFINE r == s \ {z}
    <2>1. /\ IsFiniteSet(s) /\ Whole(f, s) /\ s \in SUBSET Nat
          /\ IsFiniteSet(r) /\ r \in SUBSET S
      <3>1. \A w \in S : f[w] \in Int
        BY DEF Whole
      <3> QED BY <3>1, FS_Subset DEF Whole
    <2>2. Sum(f, s) = f[z] + Sum(f, r)
      BY <2>1, SumWithout
    <2>3. Initial(r)
      BY <2>1
    <2>4. a \in s
      BY <2>1
    <2>5. f[z] = hi[z] - lo[z] /\ hi[z] \in Int /\ lo[z] \in Int /\ lo[a] \in Int
      BY DEF Whole
    <2>6. CASE r = {}
      <3>1. z = a /\ Sum(f, r) = 0
        BY <2>4, <2>6, SumOfNone
      <3> QED BY <2>2, <2>5, <3>1
    <2>7. CASE r /= {}
      <3>1. PICK y \in r : \A w \in r : w <= y
        <4>1. r \in SUBSET Nat
          BY <2>1
        <4> HIDE DEF r
        <4> QED BY <2>1, <2>7, <4>1, FiniteHasGreatest
      <3>2. y \in S /\ y \in Nat /\ z \in Nat /\ y < z
        BY <2>1, <3>1
      <3>3. NextIn(S, y, z)
        <4> SUFFICES ASSUME NEW u \in S, y < u, u < z PROVE FALSE
          BY <3>2 DEF NextIn
        <4>1. u \in r
          OBVIOUS
        <4> QED BY <3>1, <3>2, <4>1
      <3>4. Sum(f, r) = hi[y] - lo[a]
        BY <1>2, <2>3, <3>1
      <3>5. lo[z] = hi[y]
        BY <3>2, <3>3
      <3> HIDE DEF r
      <3> QED BY <2>2, <2>5, <3>4, <3>5
    <2> QED BY <2>6, <2>7
  <1>3. S \in Good
    <2> HIDE DEF Good
    <2>1. \A s \in SUBSET S : s \in Good
      BY <1>1, <1>2, SubsetInduction
    <2> QED BY <2>1
  <1> QED BY <1>3
=============================================================================
