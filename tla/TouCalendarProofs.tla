------------------------- MODULE TouCalendarProofs -------------------------
(***************************************************************************)
(* What the binary search for an offset change finds, for every zone: the  *)
(* recursion ends, and it ends at a change.                                *)
(***************************************************************************)
EXTENDS TouCalendar, FiniteSums, TLAPS

-----------------------------------------------------------------------------
(* The recursion of OffsetChange, as a function of the interval searched.  *)

Middle(b) == b[1] + (b[2] - b[1]) \div 2

\* One round of the search, going on with f.
Round(zone, left, f, b) ==
  IF b[2] - b[1] <= 1 THEN b[2]
  ELSE IF Offset(zone, Middle(b)) = Offset(zone, left) THEN f[<< Middle(b), b[2] >>]
  ELSE f[<< b[1], Middle(b) >>]

Spans == Int \X Int
Narrowing(zone, left) == CHOOSE f : f = [ b \in Spans |-> Round(zone, left, f, b) ]

LEMMA SearchIsNarrowing ==
  ASSUME NEW zone, NEW left, NEW right
  PROVE  OffsetChange(zone, left, right) = Narrowing(zone, left)[<< left, right >>]
  BY DEF OffsetChange, Narrowing, Round, Middle, Spans

\* The halves of an interval are shorter than the interval.
LEMMA HalvesAreShorter ==
  ASSUME NEW b \in Spans, b[2] - b[1] > 1
  PROVE  /\ << Middle(b), b[2] >> \in Spans /\ << b[1], Middle(b) >> \in Spans
         /\ b[1] < Middle(b) /\ Middle(b) < b[2]
  BY DEF Spans, Middle

\* The intervals no longer than n, and the searches of those.
NoLonger(n) == { b \in Spans : b[2] - b[1] <= n }
Searches(zone, left, n) ==
  { f \in [NoLonger(n) -> Int] : \A b \in NoLonger(n) : f[b] = Round(zone, left, f, b) }

LEMMA RoundLooksDown ==
  ASSUME NEW zone, NEW left, NEW f, NEW g, NEW n \in Nat, NEW b \in NoLonger(n + 1),
         \A c \in NoLonger(n) : f[c] = g[c]
  PROVE  Round(zone, left, f, b) = Round(zone, left, g, b)
  <1>1. b \in Spans /\ b[1] \in Int /\ b[2] \in Int /\ b[2] - b[1] <= n + 1
    BY DEF NoLonger, Spans
  <1>2. CASE b[2] - b[1] <= 1
    BY <1>2 DEF Round
  <1>3. CASE b[2] - b[1] > 1
    <2>1. << Middle(b), b[2] >> \in NoLonger(n) /\ << b[1], Middle(b) >> \in NoLonger(n)
      <3>1. b[1] < Middle(b) /\ Middle(b) < b[2] /\ Middle(b) \in Int
        BY <1>1, <1>3, HalvesAreShorter DEF Middle
      <3> QED BY <1>1, <3>1 DEF NoLonger, Spans
    <2> QED BY <1>1, <1>3, <2>1 DEF Round
  <1> QED BY <1>1, <1>2, <1>3

LEMMA RoundType ==
  ASSUME NEW zone, NEW left, NEW n \in Nat, NEW f \in [NoLonger(n) -> Int],
         NEW b \in NoLonger(n + 1)
  PROVE  Round(zone, left, f, b) \in Int
  <1>1. b \in Spans /\ b[1] \in Int /\ b[2] \in Int /\ b[2] - b[1] <= n + 1
    BY DEF NoLonger, Spans
  <1>2. CASE b[2] - b[1] <= 1
    BY <1>1, <1>2 DEF Round
  <1>3. CASE b[2] - b[1] > 1
    <2>1. << Middle(b), b[2] >> \in NoLonger(n) /\ << b[1], Middle(b) >> \in NoLonger(n)
      <3>1. b[1] < Middle(b) /\ Middle(b) < b[2] /\ Middle(b) \in Int
        BY <1>1, <1>3, HalvesAreShorter DEF Middle
      <3> QED BY <1>1, <3>1 DEF NoLonger, Spans
    <2>2. f[<< Middle(b), b[2] >>] \in Int /\ f[<< b[1], Middle(b) >>] \in Int
      BY <2>1
    <2> QED BY <1>1, <1>3, <2>2 DEF Round
  <1> QED BY <1>1, <1>2, <1>3

\* There is a search of the intervals no longer than n: else there is a least n
\* without one, and one round more makes one of the search for n - 1.
LEMMA SearchesExist ==
  ASSUME NEW zone, NEW left, NEW k \in Nat
  PROVE  Searches(zone, left, k) /= {}
  <1> DEFINE T == { n \in Nat : Searches(zone, left, n) = {} }
  <1> SUFFICES ASSUME T /= {} PROVE FALSE
    OBVIOUS
  <1>1. PICK n \in T : \A m \in T : n <= m
    <2>1. T \in SUBSET Nat
      OBVIOUS
    <2> HIDE DEF T
    <2> QED BY <2>1, LeastNatural
  <1>2. n \in Nat /\ Searches(zone, left, n) = {}
    OBVIOUS
  <1>3. CASE n = 0
    <2> DEFINE f == [ b \in NoLonger(0) |-> b[2] ]
    <2>1. \A b \in NoLonger(0) : b[2] \in Int /\ Round(zone, left, f, b) = b[2]
      BY DEF NoLonger, Spans, Round
    <2>2. f \in [NoLonger(0) -> Int]
      BY <2>1
    <2>3. \A b \in NoLonger(0) : f[b] = Round(zone, left, f, b)
      BY <2>1
    <2> QED BY <1>2, <1>3, <2>2, <2>3 DEF Searches
  <1>4. CASE n > 0
    <2>1. n - 1 \in Nat /\ (n - 1) + 1 = n /\ n - 1 \notin T
      BY <1>1, <1>2, <1>4
    <2>2. PICK f \in Searches(zone, left, n - 1) : TRUE
      BY <2>1
    <2>3. /\ f \in [NoLonger(n - 1) -> Int]
          /\ \A b \in NoLonger(n - 1) : f[b] = Round(zone, left, f, b)
      BY <2>2 DEF Searches
    <2> DEFINE g == [ b \in NoLonger(n) |-> Round(zone, left, f, b) ]
    <2>4. NoLonger(n - 1) \subseteq NoLonger(n)
      BY <1>2 DEF NoLonger, Spans
    <2>5. \A b \in NoLonger(n - 1) : f[b] = g[b]
      BY <2>3, <2>4
    <2>6. ASSUME NEW b \in NoLonger(n)
          PROVE  /\ Round(zone, left, f, b) \in Int
                 /\ Round(zone, left, f, b) = Round(zone, left, g, b)
      <3> HIDE DEF g
      <3> DEFINE m == n - 1
      <3>1. m \in Nat /\ b \in NoLonger(m + 1) /\ f \in [NoLonger(m) -> Int]
            /\ \A c \in NoLonger(m) : f[c] = g[c]
        BY <2>1, <2>3, <2>5
      <3> HIDE DEF m
      <3> QED BY <3>1, RoundLooksDown, RoundType
    <2>7. g \in [NoLonger(n) -> Int]
      BY <2>6
    <2>8. \A b \in NoLonger(n) : g[b] = Round(zone, left, g, b)
      <3>1. \A b \in NoLonger(n) : g[b] = Round(zone, left, f, b)
        OBVIOUS
      <3> HIDE DEF g
      <3> QED BY <2>6, <3>1
    <2>9. g \in Searches(zone, left, n)
      <3> HIDE DEF g
      <3> QED BY <2>7, <2>8 DEF Searches
    <2> QED BY <1>2, <2>9
  <1> QED BY <1>2, <1>3, <1>4

\* Two searches agree wherever both are defined.
LEMMA SearchesAgree ==
  ASSUME NEW zone, NEW left, NEW m \in Nat, NEW n \in Nat, m <= n,
         NEW f \in Searches(zone, left, m), NEW g \in Searches(zone, left, n)
  PROVE  \A b \in NoLonger(m) : f[b] = g[b]
  <1> DEFINE T == { k \in 0 .. m : \E b \in NoLonger(k) : f[b] /= g[b] }
  <1>1. NoLonger(m) \subseteq NoLonger(n)
    BY DEF NoLonger, Spans
  <1> SUFFICES ASSUME T /= {} PROVE FALSE
    <2>1. m \in 0 .. m
      OBVIOUS
    <2> QED BY <2>1
  <1>2. PICK k \in T : \A j \in T : k <= j
    <2>1. T \in SUBSET Nat
      OBVIOUS
    <2> HIDE DEF T
    <2> QED BY <2>1, LeastNatural
  <1>3. PICK b \in NoLonger(k) : f[b] /= g[b]
    OBVIOUS
  <1>4. k \in 0 .. m
    OBVIOUS
  <1>5. NoLonger(k) \subseteq NoLonger(m)
    BY <1>4 DEF NoLonger, Spans
  <1>6. f[b] = Round(zone, left, f, b) /\ g[b] = Round(zone, left, g, b)
    BY <1>1, <1>5 DEF Searches
  <1>7. CASE k = 0
    BY <1>3, <1>6, <1>7 DEF NoLonger, Spans, Round
  <1>8. CASE k > 0
    <2> DEFINE j == k - 1
    <2>1. j \in Nat /\ j \in 0 .. m /\ j + 1 = k /\ j \notin T
      BY <1>2, <1>4, <1>8
    <2>2. \A c \in NoLonger(j) : f[c] = g[c]
      BY <2>1
    <2> HIDE DEF j
    <2>3. Round(zone, left, f, b) = Round(zone, left, g, b)
      BY <2>1, <2>2, RoundLooksDown
    <2> QED BY <1>3, <1>6, <2>3
  <1> QED BY <1>4, <1>7, <1>8

\* The recursive function exists: each interval is searched by a search of the
\* intervals no longer than it is.
Length(b) == IF b[2] - b[1] >= 0 THEN b[2] - b[1] ELSE 0
Search(zone, left, n) == CHOOSE f : f \in Searches(zone, left, n)

LEMMA NarrowingUnfolds ==
  ASSUME NEW zone, NEW left, NEW b \in Spans
  PROVE  Narrowing(zone, left)[b] = Round(zone, left, Narrowing(zone, left), b)
  <1> DEFINE F == [ c \in Spans |-> Search(zone, left, Length(c))[c] ]
             N == Narrowing(zone, left)
  <1>1. \A n \in Nat : Search(zone, left, n) \in Searches(zone, left, n)
    BY SearchesExist DEF Search
  <1>2. \A c \in Spans : Length(c) \in Nat /\ c \in NoLonger(Length(c))
    BY DEF Length, NoLonger, Spans
  <1>3. ASSUME NEW c \in Spans
        PROVE  F[c] = Round(zone, left, F, c)
    <2> DEFINE n == Length(c)
               S == Search(zone, left, n)
    <2>1. F[c] = S[c] /\ S[c] = Round(zone, left, S, c)
      BY <1>1, <1>2 DEF Searches
    <2>2. CASE c[2] - c[1] <= 1
      BY <2>1, <2>2 DEF Round
    <2>3. CASE ~ (c[2] - c[1] <= 1)
      <3> DEFINE j == n - 1
      <3>1. j \in Nat /\ j + 1 = n /\ n \in Nat
        BY <1>2, <2>3 DEF Length, Spans
      <3>2. ASSUME NEW d \in NoLonger(j) PROVE S[d] = F[d]
        <4>1. d \in Spans /\ Length(d) \in Nat /\ d \in NoLonger(Length(d)) /\ Length(d) <= n
          BY <1>2, <3>1 DEF NoLonger, Spans, Length
        <4>2. F[d] = Search(zone, left, Length(d))[d]
          BY <4>1
        <4> HIDE DEF F, n
        <4>3. Search(zone, left, Length(d)) \in Searches(zone, left, Length(d))
              /\ S \in Searches(zone, left, n)
          BY <1>1, <3>1, <4>1
        <4> HIDE DEF S
        <4> QED BY <3>1, <4>1, <4>2, <4>3, SearchesAgree
      <3>3. c \in NoLonger(j + 1)
        BY <1>2, <3>1
      <3> HIDE DEF F, S, n, j
      <3>4. Round(zone, left, S, c) = Round(zone, left, F, c)
        BY <3>1, <3>2, <3>3, RoundLooksDown
      <3> QED BY <2>1, <3>4
    <2> QED BY <2>2, <2>3
  <1>4. F = [ c \in Spans |-> Round(zone, left, F, c) ]
    <2>1. F = [ c \in Spans |-> F[c] ]
      OBVIOUS
    <2> HIDE DEF F
    <2> QED BY <1>3, <2>1
  <1>5. N = [ c \in Spans |-> Round(zone, left, N, c) ]
    <2> HIDE DEF F
    <2> QED BY <1>4 DEF Narrowing
  <1> HIDE DEF N
  <1>6. N[b] = Round(zone, left, N, b)
    BY <1>5
  <1> QED BY <1>6 DEF N

\* What the search for a change of offset promises of the interval searched.
Found(zone, left, b, t) ==
  /\ t \in b[1] + 1 .. b[2]
  /\ Offset(zone, b[1]) = Offset(zone, left) /\ Offset(zone, b[2]) /= Offset(zone, left) =>
       Offset(zone, t - 1) = Offset(zone, left) /\ Offset(zone, t) /= Offset(zone, left)

\* If one half holds a change, so does the whole.
LEMMA FoundInHalf ==
  ASSUME NEW zone, NEW left, NEW b \in Spans, b[2] - b[1] > 1, NEW t
  PROVE  /\ /\ Offset(zone, Middle(b)) = Offset(zone, left)
            /\ Found(zone, left, << Middle(b), b[2] >>, t)
            => Found(zone, left, b, t)
         /\ /\ Offset(zone, Middle(b)) /= Offset(zone, left)
            /\ Found(zone, left, << b[1], Middle(b) >>, t)
            => Found(zone, left, b, t)
  <1>1. /\ b[1] \in Int /\ b[2] \in Int /\ Middle(b) \in Int
        /\ b[1] < Middle(b) /\ Middle(b) < b[2]
    BY HalvesAreShorter DEF Spans, Middle
  <1> QED BY <1>1 DEF Found

\* The binary search stays in the interval it is given, and when the offsets at
\* its ends differ it stops at an instant before which the offset is still the
\* first one and at which it is another.
THEOREM OffsetChangeIsFound ==
  ASSUME NEW zone, NEW left \in Int, NEW right \in Int, left < right
  PROVE  Found(zone, left, << left, right >>, OffsetChange(zone, left, right))
  <1> DEFINE N == Narrowing(zone, left)
             Missed(n) == \E b \in Spans : /\ b[1] < b[2] /\ b[2] - b[1] = n
                                           /\ ~ Found(zone, left, b, N[b])
             T == { n \in Nat : Missed(n) }
  <1>1. T = {}
    <2> SUFFICES ASSUME T /= {} PROVE FALSE
      OBVIOUS
    <2>1. PICK n \in T : \A m \in T : n <= m
      <3>1. T \in SUBSET Nat
        OBVIOUS
      <3> HIDE DEF T
      <3> QED BY <3>1, LeastNatural
    <2>2. PICK b \in Spans : /\ b[1] < b[2] /\ b[2] - b[1] = n
                              /\ ~ Found(zone, left, b, N[b])
      OBVIOUS
    <2>3. b[1] \in Int /\ b[2] \in Int /\ n \in Nat
      BY DEF Spans
    <2>4. N[b] = Round(zone, left, N, b)
      BY NarrowingUnfolds
    <2>5. ASSUME NEW c \in Spans, c[1] < c[2], c[2] - c[1] < n
          PROVE  Found(zone, left, c, N[c])
      <3>1. c[1] \in Int /\ c[2] \in Int
        BY DEF Spans
      <3> DEFINE m == c[2] - c[1]
      <3>2. m \in Nat /\ m \notin T
        BY <2>1, <2>3, <2>5, <3>1
      <3>3. ~ Missed(m)
        BY <3>2
      <3> QED BY <2>5, <3>3
    <2> HIDE DEF N, T
    <2>6. CASE n <= 1
      <3>1. N[b] = b[2] /\ b[2] - 1 = b[1]
        BY <2>2, <2>3, <2>4, <2>6 DEF Round
      <3>2. b[2] \in b[1] + 1 .. b[2]
        BY <2>3, <3>1
      <3> QED BY <2>2, <3>1, <3>2 DEF Found
    <2>7. CASE n > 1
      <3>1. /\ << Middle(b), b[2] >> \in Spans /\ << b[1], Middle(b) >> \in Spans
            /\ b[1] < Middle(b) /\ Middle(b) < b[2] /\ Middle(b) \in Int
        BY <2>2, <2>7, HalvesAreShorter DEF Middle, Spans
      <3>2. /\ Found(zone, left, << Middle(b), b[2] >>, N[<< Middle(b), b[2] >>])
            /\ Found(zone, left, << b[1], Middle(b) >>, N[<< b[1], Middle(b) >>])
        BY <2>2, <2>3, <2>5, <3>1
      <3>3. N[b] = IF Offset(zone, Middle(b)) = Offset(zone, left)
                   THEN N[<< Middle(b), b[2] >>] ELSE N[<< b[1], Middle(b) >>]
        BY <2>2, <2>3, <2>4, <2>7 DEF Round
      <3> QED BY <2>2, <2>7, <3>2, <3>3, FoundInHalf
    <2> QED BY <2>3, <2>6, <2>7
  <1>2. << left, right >> \in Spans /\ right - left \in Nat
    BY DEF Spans
  <1>3. Found(zone, left, << left, right >>, N[<< left, right >>])
    <2>1. ~ Missed(right - left)
      BY <1>1, <1>2
    <2> HIDE DEF N
    <2> QED BY <1>2, <2>1
  <1> QED BY <1>3, SearchIsNarrowing

\* No calendar boundary lies outside the range asked for, nor at its ends.
LEMMA CalendarBoundariesAreInside ==
  ASSUME NEW zone, NEW start \in Int, NEW end \in Int, start < end
  PROVE  CalendarBoundaries(zone, start, end) \subseteq start + 1 .. end - 1
  <1>1. WholeHours(zone, start, end) \subseteq start + 1 .. end - 1
    BY DEF WholeHours
  <1>2. OffsetChanges(zone, start, end) \subseteq start + 1 .. end - 1
    <2> SUFFICES ASSUME NEW left \in ScanFrom(start, end),
                        OffsetChange(zone, left, Earlier(left + Hour, end)) /= end
                 PROVE  OffsetChange(zone, left, Earlier(left + Hour, end)) \in start + 1 .. end - 1
      BY DEF OffsetChanges
    <2> DEFINE right == Earlier(left + Hour, end)
               t == OffsetChange(zone, left, right)
    <2>1. /\ left \in Int /\ right \in Int /\ left < right /\ start <= left /\ right <= end
      BY CalendarAssumption DEF ScanFrom, Earlier
    <2> HIDE DEF right
    <2>2. Found(zone, left, << left, right >>, t)
      BY <2>1, OffsetChangeIsFound
    <2> HIDE DEF t
    <2>3. t \in left + 1 .. right
      BY <2>2 DEF Found
    <2>4. t /= end
      BY DEF t, right
    <2>5. t \in start + 1 .. end - 1
      BY <2>1, <2>3, <2>4
    <2> QED BY <2>5 DEF t, right
  <1> QED BY <1>1, <1>2 DEF CalendarBoundaries

-----------------------------------------------------------------------------
(* Hours and days counted through. *)

LEMMA DivBounds ==
  ASSUME NEW a \in Int, NEW h \in Nat \ {0}
  PROVE  /\ a \div h \in Int /\ h * (a \div h) \in Int
         /\ h * (a \div h) <= a /\ a < h * (a \div h) + h
         /\ a % h /= 0 => h * (a \div h) < a
  <1>1. a \div h \in Int
    OBVIOUS
  <1>2. h * (a \div h) <= a /\ a < h * (a \div h) + h
    OBVIOUS
  <1>3. a % h /= 0 => h * (a \div h) < a
    OBVIOUS
  <1> QED BY <1>1, <1>2, <1>3

LEMMA Quotients ==
  ASSUME NEW h \in Nat \ {0}, NEW q \in Int, NEW p \in Int, h * q < h * (p + 1)
  PROVE  q <= p
  OBVIOUS

LEMMA DivIs ==
  ASSUME NEW a \in Int, NEW h \in Nat \ {0}, NEW q \in Int, h * q <= a, a < h * (q + 1)
  PROVE  a \div h = q
  <1> DEFINE d == a \div h
  <1>1. d \in Int /\ h * d <= a /\ a < h * d + h
    BY DivBounds
  <1>2. h * (q + 1) = h * q + h /\ h * (d + 1) = h * d + h
    BY <1>1
  <1>3. h * d < h * (q + 1) /\ h * q < h * (d + 1)
    BY <1>1, <1>2
  <1> HIDE DEF d
  <1>4. d <= q /\ q <= d
    BY <1>1, <1>3, Quotients
  <1> QED BY <1>1, <1>4 DEF d

LEMMA DivMonotone ==
  ASSUME NEW a \in Int, NEW b \in Int, NEW h \in Nat \ {0}, a <= b
  PROVE  a \div h <= b \div h
  <1>1. h * (a \div h) <= a /\ b < h * (b \div h + 1) /\ a \div h \in Int /\ b \div h \in Int
    <2>1. h * (b \div h + 1) = h * (b \div h) + h
      BY DivBounds
    <2> QED BY <2>1, DivBounds
  <1>2. h * (a \div h) < h * (b \div h + 1)
    BY <1>1
  <1> QED BY <1>1, <1>2, Quotients

LEMMA DivLess ==
  ASSUME NEW a \in Int, NEW h \in Nat \ {0}, NEW k \in Int
  PROVE  (a - h * k) \div h = (a \div h) - k
  <1> DEFINE d == a \div h
             x == h * k
  <1>1. d \in Int /\ h * d <= a /\ a < h * d + h
    BY DivBounds
  <1>2. x \in Int
    OBVIOUS
  <1>3. h * (d - k) = h * d - x /\ h * (d - k + 1) = h * d - x + h /\ h * d \in Int
    BY <1>1
  <1>4. d - k \in Int /\ a - x \in Int
    BY <1>1, <1>2
  <1>5. h * (d - k) <= a - x /\ a - x < h * (d - k + 1)
    <2> HIDE DEF d, x
    <2> QED BY <1>1, <1>2, <1>3
  <1> HIDE DEF d, x
  <1>6. (a - x) \div h = d - k
    BY <1>4, <1>5, DivIs
  <1> QED BY <1>6 DEF d, x

LEMMA NextHour ==
  ASSUME NEW a \in Int, NEW h \in Nat \ {0}, (a + 1) % h /= 0
  PROVE  (a + 1) \div h = a \div h
  <1> DEFINE d == (a + 1) \div h
  <1>1. d \in Int /\ h * d < a + 1 /\ a + 1 < h * d + h
    BY DivBounds
  <1>2. h * (d + 1) = h * d + h /\ h * d \in Int
    BY <1>1
  <1>3. h * d <= a /\ a < h * (d + 1)
    BY <1>1, <1>2
  <1> HIDE DEF d
  <1>4. a \div h = d
    BY <1>1, <1>3, DivIs
  <1> QED BY <1>4 DEF d

LEMMA MultipleHasNoRest ==
  ASSUME NEW h \in Nat \ {0}, NEW k \in Int
  PROVE  (h * k) % h = 0
  <1> DEFINE x == h * k
  <1>1. x \in Int /\ x < h * (k + 1)
    OBVIOUS
  <1>2. x \div h = k
    BY <1>1, DivIs
  <1> QED BY <1>1, <1>2, DivBounds

-----------------------------------------------------------------------------
(* The boundaries of the calendar are where the local hour changes. *)

LEMMA OffsetFacts ==
  ASSUME NEW zone, RealZone(zone), NEW s \in Int, NEW t \in Int
  PROVE  /\ Offset(zone, s) \in Int /\ Offset(zone, t) \in Int
         /\ Offset(zone, s) <= Offset(zone, t) + Hour * HoursPerDay
  <1> DEFINE Past(u) == { c \in zone.cuts : c <= u }
  <1>1. ASSUME NEW u \in Int PROVE Cardinality(Past(u)) \in 0 .. Cardinality(zone.cuts)
    <2>1. Past(u) \in SUBSET zone.cuts
      OBVIOUS
    <2>2. IsFiniteSet(zone.cuts) /\ Cardinality(zone.cuts) \in Nat
      BY FS_CardinalityType DEF RealZone
    <2> HIDE DEF Past
    <2>3. IsFiniteSet(Past(u)) /\ Cardinality(Past(u)) <= Cardinality(zone.cuts)
      BY <2>1, <2>2, FS_Subset
    <2> QED BY <2>2, <2>3, FS_CardinalityType
  <1>2. Offset(zone, s) = zone.shift[Cardinality(Past(s))]
        /\ Offset(zone, t) = zone.shift[Cardinality(Past(t))]
    BY DEF Offset
  <1> HIDE DEF Past
  <1> QED BY <1>1, <1>2 DEF RealZone

LEMMA OffsetStays ==
  ASSUME NEW zone, RealZone(zone), NEW s \in Int, NEW t \in Int, s <= t,
         \A c \in zone.cuts : ~ (s < c /\ c <= t)
  PROVE  Offset(zone, s) = Offset(zone, t)
  <1>1. { c \in zone.cuts : c <= s } = { c \in zone.cuts : c <= t }
    BY DEF RealZone
  <1> QED BY <1>1 DEF Offset

\* Where the offset changes within the range, the search finds it: no scan
\* step holds two changes.
LEMMA ChangeIsBoundary ==
  ASSUME NEW zone, RealZone(zone), NEW start \in Int, NEW end \in Int,
         NEW t \in Int, start <= t, t + 1 < end,
         Offset(zone, t) /= Offset(zone, t + 1)
  PROVE  t + 1 \in OffsetChanges(zone, start, end)
  <1> USE CalendarAssumption
  <1> DEFINE k == (t - start) \div Hour
             left == start + Hour * k
             right == Earlier(left + Hour, end)
             found == OffsetChange(zone, left, right)
  <1>1. /\ k \in Int /\ Hour * k \in Int /\ Hour * k <= t - start /\ t - start < Hour * k + Hour
    BY DivBounds
  <1>2. Hour * k >= 0
    <2>1. k >= 0
      <3>1. t - start \in Nat
        OBVIOUS
      <3> QED BY <3>1
    <2> HIDE DEF k
    <2> QED BY <1>1, <2>1
  <1>3. (left - start) % Hour = 0
    <2>1. left - start = Hour * k
      BY <1>1
    <2> QED BY <1>1, <2>1, MultipleHasNoRest
  <1> HIDE DEF k
  <1>4. /\ left \in Int /\ start <= left /\ left <= t /\ t < left + Hour
    BY <1>1, <1>2
  <1>5. left \in ScanFrom(start, end)
    BY <1>3, <1>4 DEF ScanFrom
  <1> HIDE DEF left
  <1>6. right \in Int /\ left < right /\ t + 1 <= right /\ right <= left + Hour /\ right <= end
    BY <1>4 DEF Earlier
  <1> HIDE DEF right
  <1>7. t + 1 \in zone.cuts
    BY OffsetStays DEF RealZone
  <1>8. \A c \in zone.cuts : left < c /\ c <= right => c = t + 1
    BY <1>4, <1>6, <1>7 DEF RealZone
  <1>9. Offset(zone, left) = Offset(zone, t)
    <2>1. \A c \in zone.cuts : ~ (left < c /\ c <= t)
      BY <1>4, <1>6, <1>8 DEF RealZone
    <2> QED BY <1>4, <2>1, OffsetStays
  <1>10. Offset(zone, t + 1) = Offset(zone, right)
    <2>1. \A c \in zone.cuts : ~ (t + 1 < c /\ c <= right)
      BY <1>4, <1>6, <1>8 DEF RealZone
    <2> QED BY <1>6, <2>1, OffsetStays
  <1>11. Found(zone, left, << left, right >>, found)
    BY <1>4, <1>6, OffsetChangeIsFound
  <1> HIDE DEF found
  <1>12. /\ found \in Int /\ left < found /\ found <= right
         /\ Offset(zone, found - 1) /= Offset(zone, found)
    BY <1>4, <1>6, <1>9, <1>10, <1>11 DEF Found
  <1>13. found \in zone.cuts
    <2> SUFFICES ASSUME found \notin zone.cuts PROVE FALSE
      OBVIOUS
    <2>1. \A c \in zone.cuts : ~ (found - 1 < c /\ c <= found)
      BY <1>12 DEF RealZone
    <2> QED BY <1>12, <2>1, OffsetStays
  <1>14. found = t + 1
    BY <1>8, <1>12, <1>13
  <1>15. Offset(zone, left) /= Offset(zone, Earlier(left + Hour, end)) /\ found /= end
    BY <1>9, <1>10, <1>14 DEF right
  <1>16. found = OffsetChange(zone, left, Earlier(left + Hour, end))
    BY DEF found, right
  <1> QED BY <1>5, <1>14, <1>15, <1>16 DEF OffsetChanges

\* An instant is never a day and more ahead of a later one, on the wall.
LEMMA DatesFollow ==
  ASSUME NEW zone, RealZone(zone), NEW s \in Int, NEW t \in Int, s <= t
  PROVE  /\ LocalDate(zone, s) \in Int /\ LocalDate(zone, t) \in Int
         /\ LocalDate(zone, s) - 1 <= LocalDate(zone, t)
  <1> USE CalendarAssumption
  <1> DEFINE S == LocalTime(zone, s)
             T == LocalTime(zone, t)
             Day == Hour * HoursPerDay
  <1>1. S \in Int /\ T \in Int /\ Day \in Int /\ S - Day <= T
    BY OffsetFacts DEF LocalTime
  <1>2. /\ S \div Hour \in Int /\ T \div Hour \in Int
        /\ LocalDate(zone, s) = (S \div Hour) \div HoursPerDay
        /\ LocalDate(zone, t) = (T \div Hour) \div HoursPerDay
    BY <1>1, DivBounds DEF LocalDate, LocalHour
  <1>3. (S \div Hour) - HoursPerDay <= T \div Hour
    <2>1. (S - Day) \div Hour = (S \div Hour) - HoursPerDay
      <3> HIDE DEF S
      <3> QED BY <1>1, DivLess
    <2>2. (S - Day) \div Hour <= T \div Hour
      <3> HIDE DEF S, T, Day
      <3> QED BY <1>1, DivMonotone
    <2> QED BY <2>1, <2>2
  <1> DEFINE s1 == S \div Hour
             t1 == T \div Hour
  <1> HIDE DEF S, T, Day
  <1>4. s1 \in Int /\ t1 \in Int /\ s1 - HoursPerDay \in Int /\ s1 - HoursPerDay <= t1
        /\ LocalDate(zone, s) = s1 \div HoursPerDay /\ LocalDate(zone, t) = t1 \div HoursPerDay
    BY <1>2, <1>3
  <1> HIDE DEF s1, t1
  <1>5. (s1 - HoursPerDay) \div HoursPerDay = (s1 \div HoursPerDay) - 1
    <2>1. (s1 - HoursPerDay * 1) \div HoursPerDay = (s1 \div HoursPerDay) - 1
      BY <1>4, DivLess
    <2> QED BY <2>1
  <1>6. (s1 - HoursPerDay) \div HoursPerDay <= t1 \div HoursPerDay
    BY <1>4, DivMonotone
  <1> QED BY <1>4, <1>5, <1>6, DivBounds

\* Between two neighbouring instants the local hour stays the same unless the
\* second is a boundary of the calendar.
THEOREM HourStaysBetweenBoundaries ==
  ASSUME NEW zone, RealZone(zone), NEW start \in Int, NEW end \in Int,
         NEW t \in Int, start <= t, t + 1 < end,
         t + 1 \notin CalendarBoundaries(zone, start, end)
  PROVE  HourOfDay(zone, t + 1) = HourOfDay(zone, t)
  <1> USE CalendarAssumption
  <1>1. Offset(zone, t) = Offset(zone, t + 1) /\ Offset(zone, t) \in Int
    BY ChangeIsBoundary, OffsetFacts DEF CalendarBoundaries
  <1>2. LocalTime(zone, t + 1) = LocalTime(zone, t) + 1 /\ LocalTime(zone, t) \in Int
    BY <1>1 DEF LocalTime
  <1>3. LocalTime(zone, t + 1) % Hour /= 0
    <2> SUFFICES ASSUME LocalTime(zone, t + 1) % Hour = 0 PROVE FALSE
      OBVIOUS
    <2>1. /\ LocalDate(zone, start) - 1 <= LocalDate(zone, t + 1)
          /\ LocalDate(zone, t + 1) - 1 <= LocalDate(zone, end)
          /\ LocalDate(zone, t + 1) \in Int /\ LocalDate(zone, end) \in Int
      BY DatesFollow
    <2>2. t + 1 \in WholeHours(zone, start, end)
      BY <2>1 DEF WholeHours
    <2> QED BY <2>2 DEF CalendarBoundaries
  <1>4. LocalHour(zone, t + 1) = LocalHour(zone, t)
    BY <1>2, <1>3, NextHour DEF LocalHour
  <1> QED BY <1>4 DEF HourOfDay
=============================================================================
