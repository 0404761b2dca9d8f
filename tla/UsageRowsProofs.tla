-------------------------- MODULE UsageRowsProofs ---------------------------
(***************************************************************************)
(* For terminals of any width, any shares, times and texts: no row reaches  *)
(* the last column and no meter is cut, a wider terminal shows no less of a *)
(* meter, and spending more never makes it look better.                     *)
(***************************************************************************)
EXTENDS UsageRows, SequenceTheorems, WellFoundedInduction, TLAPS

LOCAL INSTANCE FiniteSetsExt

LEMMA MinOfTwo ==
    ASSUME NEW a \in Int, NEW b \in Int
    PROVE  Min({a, b}) = IF a <= b THEN a ELSE b
BY DEF Min

LEMMA MaxOfTwo ==
    ASSUME NEW a \in Int, NEW b \in Int
    PROVE  Max({a, b}) = IF a >= b THEN a ELSE b
BY DEF Max

LEMMA ProductGrows ==
    ASSUME NEW a \in Int, NEW b \in Int, a <= b, NEW c \in Nat
    PROVE  a * c \in Int /\ b * c \in Int /\ a * c <= b * c
OBVIOUS

-----------------------------------------------------------------------------
(* The layout.                                                             *)

\* The width each tier needs: its columns and gaps, its narrowest bar, and the
\* last column that stays free.
Need == <<60, 49, 43, 38, 27>>

LEMMA TierNeeds ==
    ASSUME NEW w \in Int
    PROVE  /\ DOMAIN TierOrder = 1..5
           /\ \A i \in 1..5 : Room(w, TierOrder[i]) >= TierOrder[i].floor <=> w >= Need[i]
<1>1. TierOrder = << [label |-> 13, reset |-> 20, floor |-> 14],
                     [label |-> 13, reset |-> 9,  floor |-> 14],
                     [label |-> 13, reset |-> 9,  floor |-> 8],
                     [label |-> 8,  reset |-> 9,  floor |-> 8],
                     [label |-> 8,  reset |-> 0,  floor |-> 8] >>
  BY DEF TierOrder, Tiers, LongReset
<1>2. DOMAIN TierOrder = 1..5
  BY <1>1
<1>3. \A i \in 1..5 : Room(w, TierOrder[i]) >= TierOrder[i].floor <=> w >= Need[i]
  <2>1. \A i \in 1..5 : i = 1 \/ i = 2 \/ i = 3 \/ i = 4 \/ i = 5
    OBVIOUS
  <2> QED BY <1>1, <2>1 DEF Room, Indent, Gap, PercentCells, Need
<1> QED BY <1>2, <1>3

\* The tier a width gets.
Tier(w) == IF w >= 60 THEN 1 ELSE IF w >= 49 THEN 2 ELSE IF w >= 43 THEN 3 ELSE IF w >= 38 THEN 4 ELSE 5

LEMMA RichestTier ==
    ASSUME NEW w \in Int, w >= 27
    PROVE  Affordable(w) # {} /\ Min(Affordable(w)) = Tier(w)
<1>1. Affordable(w) = {i \in 1..5 : w >= Need[i]}
  BY TierNeeds DEF Affordable
<1>2. Tier(w) \in Affordable(w) /\ \A i \in Affordable(w) : Tier(w) <= i
  <2>1. \A i \in 1..5 : i = 1 \/ i = 2 \/ i = 3 \/ i = 4 \/ i = 5
    OBVIOUS
  <2> QED BY <1>1, <2>1 DEF Tier, Need
<1>3. Affordable(w) \subseteq Int
  BY <1>1
<1> QED BY <1>2, <1>3 DEF Min

\* What planLayout returns, by width.
LEMMA LayoutTable ==
    ASSUME NEW w \in Int
    PROVE  PlanLayout(w) =
             IF w < 27 THEN [label |-> 8, bar |-> 8, reset |-> 0]
             ELSE IF w < 38 THEN [label |-> 8, bar |-> w - 19, reset |-> 0]
             ELSE IF w < 43 THEN [label |-> 8, bar |-> w - 30, reset |-> 9]
             ELSE IF w < 49 THEN [label |-> 13, bar |-> w - 35, reset |-> 9]
             ELSE IF w < 60 THEN [label |-> 13, bar |-> IF w <= 55 THEN w - 35 ELSE 20, reset |-> 9]
             ELSE [label |-> 13, bar |-> IF w <= 66 THEN w - 46 ELSE 20, reset |-> 20]
<1>1. CASE w < 27
  <2>1. Affordable(w) = {}
    <3>1. \A i \in 1..5 : i = 1 \/ i = 2 \/ i = 3 \/ i = 4 \/ i = 5
      OBVIOUS
    <3> QED BY <1>1, <3>1, TierNeeds DEF Affordable, Need
  <2> QED BY <1>1, <2>1 DEF PlanLayout
<1>2. CASE w >= 27
  <2> DEFINE t == TierOrder[Tier(w)]
             r == Room(w, t)
  <2>1. PlanLayout(w) = [label |-> t.label, bar |-> Min({r, 20}), reset |-> t.reset]
    BY <1>2, RichestTier DEF PlanLayout, BarMax
  <2>2. /\ w < 38 => t.label = 8 /\ t.reset = 0 /\ r = w - 19
        /\ w >= 38 /\ w < 43 => t.label = 8 /\ t.reset = 9 /\ r = w - 30
        /\ w >= 43 /\ w < 60 => t.label = 13 /\ t.reset = 9 /\ r = w - 35
        /\ w >= 60 => t.label = 13 /\ t.reset = 20 /\ r = w - 46
    BY <1>2 DEF Tier, TierOrder, Tiers, LongReset, Room, Indent, Gap, PercentCells
  <2>3. r \in Int
    BY <1>2, <2>2
  <2>4. Min({r, 20}) = IF r <= 20 THEN r ELSE 20
    BY <2>3, MinOfTwo
  <2> HIDE DEF t, r
  <2> QED BY <1>2, <2>1, <2>2, <2>4
<1> QED BY <1>1, <1>2

LEMMA WiderIsRicher ==
    ASSUME NEW w \in Int, NEW v \in Int, w < v
    PROVE  /\ PlanLayout(v).label >= PlanLayout(w).label
           /\ PlanLayout(v).reset >= PlanLayout(w).reset
           /\ PlanLayout(v).bar < PlanLayout(w).bar =>
                 PlanLayout(v).label + PlanLayout(v).reset > PlanLayout(w).label + PlanLayout(w).reset
BY LayoutTable

-----------------------------------------------------------------------------
(* The meter.                                                              *)

LEMMA FillGrows ==
    ASSUME NEW s \in Int, NEW u \in Int, s <= u, NEW bar \in Nat
    PROVE  Filled(u, bar) >= Filled(s, bar)
<1> DEFINE R(n) == RoundHalfEven(n, 1000)
<1>1. \A m, n \in Int : m <= n => R(m) \in Int /\ R(n) \in Int /\ R(m) <= R(n)
  BY DEF RoundHalfEven
<1>2. R(s * bar) \in Int /\ R(u * bar) \in Int /\ R(s * bar) <= R(u * bar)
  BY <1>1, ProductGrows
<1> HIDE DEF R
<1>3. \A k \in Int : Max({0, Min({bar, k})}) = IF k < 0 THEN 0 ELSE IF k <= bar THEN k ELSE bar
  BY MinOfTwo, MaxOfTwo
<1>4. Filled(u, bar) = Max({0, Min({bar, R(u * bar)})}) /\ Filled(s, bar) = Max({0, Min({bar, R(s * bar)})})
  BY DEF Filled, R
<1> QED BY <1>2, <1>3, <1>4

LEMMA LevelGrows ==
    ASSUME NEW s \in Int, NEW u \in Int, s <= u
    PROVE  ByLevel(u) \in 0..2 /\ ByLevel(u) >= ByLevel(s) /\ (s < 700 => ByLevel(s) = Green)
BY DEF ByLevel, Green, Yellow, Red

\* The colour of a meter whose pace can be judged.
LEMMA JudgedColor ==
    ASSUME NEW s \in Int, NEW t, NEW period, Judged(t, period)
    PROVE  MeterColor(s, t, period) =
             IF s < 50 THEN Green
             ELSE IF s >= 1000 THEN Red
             ELSE IF LandsWithin(s, t, period, 90) THEN Green
             ELSE IF LandsWithin(s, t, period, 100) THEN Yellow ELSE Red
BY DEF MeterColor, EvaluatePace, Distrusted, Projection, ByLevel, Green, Yellow, Red

LEMMA UnjudgedColor ==
    ASSUME NEW s \in Int, NEW t, NEW period, ~ Judged(t, period)
    PROVE  MeterColor(s, t, period) = ByLevel(s)
BY DEF MeterColor, EvaluatePace

LEMMA SpendingDarkens ==
    ASSUME NEW s \in Int, NEW u \in Int, s <= u, NEW t \in Int \union {None}, NEW period \in Nat \union {None}
    PROVE  MeterColor(u, t, period) >= MeterColor(s, t, period)
<1>1. CASE ~ Judged(t, period)
  BY <1>1, UnjudgedColor, LevelGrows
<1>2. CASE Judged(t, period)
  <2>1. t \in Int /\ period \in Nat
    BY <1>2 DEF Judged, NoWindow
  <2>2. \A percent \in {90, 100} : LandsWithin(u, t, period, percent) => LandsWithin(s, t, period, percent)
    <3>1. s * period \in Int /\ u * period \in Int /\ s * period <= u * period
      BY <2>1, ProductGrows
    <3> QED BY <2>1, <3>1 DEF LandsWithin
  <2> QED BY <1>2, <2>2, JudgedColor DEF Green, Yellow, Red
<1> QED BY <1>1, <1>2

LEMMA WaitingLightens ==
    ASSUME NEW s \in Int, NEW t \in Int, NEW v \in Int, v <= t, NEW period \in Nat,
           Judged(t, period), Judged(v, period)
    PROVE  MeterColor(s, v, period) <= MeterColor(s, t, period)
<1>1. LandsWithin(s, t, period, 90) => LandsWithin(s, v, period, 90)
  <2>1. s * period \in Int
    OBVIOUS
  <2> QED BY <2>1 DEF LandsWithin
<1>2. LandsWithin(s, t, period, 100) => LandsWithin(s, v, period, 100)
  <2>1. s * period \in Int
    OBVIOUS
  <2> QED BY <2>1 DEF LandsWithin
<1> QED BY <1>1, <1>2, JudgedColor DEF Green, Yellow, Red

-----------------------------------------------------------------------------
(* Recursion over 0..n.  The induction is over a set, not over a predicate: *)
(* a non-empty set of naturals has a least element.                         *)

LEMMA LeastElement ==
    ASSUME NEW T \in SUBSET Nat, T # {}
    PROVE  \E x \in T : \A y \in T : x <= y
<1> DEFINE R == {ss \in Nat \X Nat : ss[1] < ss[2]}
<1>1. IsWellFoundedOn(R, Nat)
  BY NatLessThanWellFounded DEF OpToRel
<1>2. PICK x \in T : \A y \in T : ~ (<<y, x>> \in R)
  <2> HIDE DEF R
  <2> QED BY <1>1, WFMin
<1>3. \A y \in T : x <= y
  <2> TAKE y \in T
  <2>1. <<y, x>> \in Nat \X Nat
    OBVIOUS
  <2> QED BY <1>2, <2>1
<1> QED BY <1>3

LEMMA SetInduction ==
    ASSUME NEW n \in Nat, NEW T, 0 \in T,
           \A i \in 0..n : i # n /\ i \in T => i + 1 \in T
    PROVE  0..n \subseteq T
<1> SUFFICES ASSUME ~ (0..n \subseteq T) PROVE FALSE
  OBVIOUS
<1> DEFINE U == (0..n) \ T
<1>1. U \in SUBSET Nat /\ U # {}
  OBVIOUS
<1>2. PICK x \in U : \A y \in U : x <= y
  <2> HIDE DEF U
  <2> QED BY <1>1, LeastElement
<1>3. x # 0 /\ x \in 0..n /\ x - 1 \in 0..n /\ x - 1 # n
  BY <1>2
<1>4. x - 1 \in T
  BY <1>2, <1>3
<1> QED BY <1>2, <1>3, <1>4

\* A function each of whose values is computed by F from the one before it.
HasIterate(n, S, a, F) ==
    \E g \in [0..n -> S] : g[0] = a /\ \A i \in 1..n : g[i] = F[<<i, g[i-1]>>]

LEMMA Iterates ==
    ASSUME NEW n \in Nat, NEW S, NEW a \in S, NEW F \in [(1..n) \X S -> S]
    PROVE  HasIterate(n, S, a, F)
<1> DEFINE P(k) == \E g \in [0..k -> S] : g[0] = a /\ \A i \in 1..k : g[i] = F[<<i, g[i-1]>>]
           T == {k \in 0..n : P(k)}
<1>1. 0 \in T
  <2>1. [i \in 0..0 |-> a] \in [0..0 -> S] /\ [i \in 0..0 |-> a][0] = a /\ 1..0 = {}
    OBVIOUS
  <2>2. P(0)
    BY <2>1
  <2> QED BY <2>2
<1>2. ASSUME NEW k \in 0..n, k # n, k \in T PROVE k + 1 \in T
  <2>1. PICK g \in [0..k -> S] : g[0] = a /\ \A i \in 1..k : g[i] = F[<<i, g[i-1]>>]
    BY <1>2
  <2> DEFINE v == F[<<k+1, g[k]>>]
             h == [i \in 0..(k+1) |-> IF i = k+1 THEN v ELSE g[i]]
  <2>2. k \in Nat /\ k + 1 \in 1..n /\ g[k] \in S /\ k \in 0..k
    BY <1>2
  <2>3. v \in S
    BY <2>2
  <2>4. \A i \in 0..k : i \in 0..(k+1) /\ i # k+1
    BY <2>2
  <2>5. \A i \in 0..(k+1) : i # k+1 => i \in 0..k
    BY <2>2
  <2>6. h \in [0..(k+1) -> S]
    BY <2>3, <2>5
  <2>7. h[0] = a /\ \A i \in 0..k : h[i] = g[i]
    BY <2>1, <2>2, <2>4
  <2>8. h[k+1] = v
    BY <2>2
  <2>9. \A i \in 1..(k+1) : h[i] = F[<<i, h[i-1]>>]
    <3> HIDE DEF h
    <3> TAKE i \in 1..(k+1)
    <3>1. CASE i = k+1
      BY <3>1, <2>2, <2>7, <2>8
    <3>2. CASE i # k+1
      <4>1. i \in 1..k /\ i \in 0..k /\ i - 1 \in 0..k
        BY <3>2, <2>2
      <4> QED BY <4>1, <2>1, <2>7
    <3> QED BY <3>1, <3>2
  <2>10. P(k+1)
    <3> HIDE DEF h
    <3> QED BY <2>6, <2>7, <2>9
  <2> QED BY <2>2, <2>10
<1>3. 0..n \subseteq T
  <2> HIDE DEF T
  <2> QED BY <1>1, <1>2, SetInduction
<1> QED BY <1>3 DEF HasIterate

-----------------------------------------------------------------------------
(* Rows.                                                                   *)

AnyText == [narrow : Nat, wide : Nat]

\* A text that is cut fills what it is cut to, to the cell.
LEMMA ClipBounds ==
    ASSUME NEW text \in AnyText, NEW w \in Int
    PROVE  /\ Cells(text) \in Nat
           /\ ClipCells(text, w) \in Int
           /\ Cells(text) <= w => ClipCells(text, w) = Cells(text)
           /\ Cells(text) > w /\ w > 0 => ClipCells(text, w) = w
<1>1. text.narrow \in Nat /\ text.wide \in Nat
  BY DEF AnyText
<1>2. Cells(text) \in Nat
  BY <1>1 DEF Cells
<1>3. KeptCells(text, w) \in Int
  BY <1>1 DEF KeptCells
<1>4. KeptCells(text, w) + Padding(text, w) + 1 = w
  BY <1>3 DEF Padding
<1> QED BY <1>2, <1>4 DEF ClipCells

\* What emitLine computes, one segment at a time.
LEMMA StopsStep ==
    ASSUME NEW row \in Seq(AnyText), NEW w \in Int
    PROVE  LET stops == LineStops(row, w)
           IN  /\ stops \in [0..Len(row) -> Int]
               /\ stops[0] = 0
               /\ \A i \in 1..Len(row) :
                     stops[i] = IF stops[i - 1] >= w THEN stops[i - 1]
                                ELSE stops[i - 1] + ClipCells(row[i], w - stops[i - 1])
<1> DEFINE n == Len(row)
           Step(i, at) == IF at >= w THEN at ELSE at + ClipCells(row[i], w - at)
           Body(s) == [i \in 0..n |-> IF i = 0 THEN 0
                                      ELSE LET at == s[i - 1]
                                           IN  IF at >= w THEN at
                                               ELSE at + ClipCells(row[i], w - at)]
           F == [x \in (1..n) \X Int |-> Step(x[1], x[2])]
<1>0. n \in Nat /\ \A i \in 1..n : row[i] \in AnyText
  OBVIOUS
<1>1. \A i \in 1..n, at \in Int : Step(i, at) \in Int
  <2> TAKE i \in 1..n, at \in Int
  <2>1. row[i] \in AnyText /\ w - at \in Int
    BY <1>0
  <2>2. ClipCells(row[i], w - at) \in Int
    BY <2>1, ClipBounds
  <2> QED BY <2>2
<1>2. F \in [(1..n) \X Int -> Int] /\ \A i \in 1..n, at \in Int : F[<<i, at>>] = Step(i, at)
  BY <1>1
<1>3. PICK g \in [0..n -> Int] : g[0] = 0 /\ \A i \in 1..n : g[i] = F[<<i, g[i-1]>>]
  <2>1. HasIterate(n, Int, 0, F)
    <3>1. n \in Nat /\ 0 \in Int /\ F \in [(1..n) \X Int -> Int]
      BY <1>0, <1>2
    <3> HIDE DEF F, n
    <3> QED BY ONLY <3>1, Iterates, Zenon
  <2> QED BY <2>1 DEF HasIterate
<1>4. \A i \in 0..n : i # 0 => i \in 1..n /\ i - 1 \in 0..n
  BY <1>0
<1>5. \A i \in 1..n : g[i] = Step(i, g[i - 1])
  <2>1. \A i \in 1..n : g[i - 1] \in Int
    BY <1>0, <1>4
  <2> HIDE DEF F, Step, n
  <2> QED BY <1>2, <1>3, <2>1
<1>6. g = Body(g)
  <2> HIDE DEF F, n
  <2> QED BY <1>3, <1>4, <1>5
<1>7. LineStops(row, w) = CHOOSE s : s = Body(s)
  BY DEF LineStops
<1>8. LineStops(row, w) = Body(LineStops(row, w))
  <2> HIDE DEF Body
  <2> QED BY <1>6, <1>7
<1> DEFINE stops == LineStops(row, w)
<1>9. stops[0] = 0 /\ DOMAIN stops = 0..n /\ \A i \in 1..n : stops[i] = Step(i, stops[i - 1])
  <2>1. ASSUME NEW s
        PROVE  /\ Body(s)[0] = 0 /\ DOMAIN Body(s) = 0..n
               /\ \A i \in 1..n : Body(s)[i] = Step(i, s[i - 1])
    BY <1>0
  <2> HIDE DEF stops, Body, Step, n
  <2> QED BY <1>8, <2>1 DEF stops
<1>10. stops \in [0..n -> Int]
  <2> DEFINE T == {i \in 0..n : stops[i] \in Int}
  <2>1. 0 \in T /\ \A i \in 0..n : i # n /\ i \in T => i + 1 \in T
    <3>1. \A i \in 0..n : i # n => i + 1 \in 1..n /\ (i + 1) - 1 = i /\ i + 1 \in 0..n
      BY <1>0
    <3>2. 0 \in 0..n
      BY <1>0
    <3> HIDE DEF stops, Step, n
    <3> QED BY <1>1, <1>9, <3>1, <3>2
  <2>2. 0..n \subseteq T
    <3> HIDE DEF T, n
    <3> QED BY <1>0, <2>1, SetInduction
  <2>3. stops = [i \in 0..n |-> stops[i]]
    <3> HIDE DEF Body, stops
    <3>1. \A s : Body(s) = [i \in 0..n |-> Body(s)[i]]
      BY DEF Body
    <3> QED BY <1>8, <3>1 DEF stops
  <2> HIDE DEF stops
  <2> QED BY <2>2, <2>3
<1> QED BY <1>9, <1>10

LEMMA ClipNeverMore ==
    ASSUME NEW text \in AnyText, NEW w \in Int, w > 0
    PROVE  ClipCells(text, w) \in Int /\ ClipCells(text, w) <= w
BY ClipBounds

\* No row is wider than what it is given.
LEMMA LineFits ==
    ASSUME NEW row \in Seq(AnyText), NEW w \in Int
    PROVE  /\ LineCells(row, w) \in Int
           /\ LineCells(row, w) <= IF w > 0 THEN w ELSE 0
<1> DEFINE n == Len(row)
           stops == LineStops(row, w)
           cap == IF w > 0 THEN w ELSE 0
           T == {i \in 0..n : stops[i] <= cap}
<1>1. n \in Nat /\ \A i \in 1..n : row[i] \in AnyText
  OBVIOUS
<1>2. /\ stops \in [0..n -> Int]
      /\ stops[0] = 0
      /\ \A i \in 1..n : stops[i] = IF stops[i - 1] >= w THEN stops[i - 1]
                                    ELSE stops[i - 1] + ClipCells(row[i], w - stops[i - 1])
  BY StopsStep
<1>3. cap \in Nat
  OBVIOUS
<1> HIDE DEF stops
<1>4. ASSUME NEW i \in 0..n, i # n, i \in T PROVE i + 1 \in T
  <2>1. i + 1 \in 1..n /\ i + 1 \in 0..n /\ (i + 1) - 1 = i
    BY <1>1, <1>4
  <2>2. CASE stops[i] >= w
    BY <1>2, <1>4, <2>1, <2>2
  <2>3. CASE ~ (stops[i] >= w)
    <3>1. stops[i] \in Int /\ w - stops[i] \in Int /\ w - stops[i] > 0
      BY <1>2, <2>3
    <3>2. ClipCells(row[i + 1], w - stops[i]) \in Int
          /\ ClipCells(row[i + 1], w - stops[i]) <= w - stops[i]
      <4> DEFINE spare == w - stops[i]
                 text == row[i + 1]
      <4>1. spare \in Int /\ spare > 0 /\ text \in AnyText
        BY <1>1, <2>1, <3>1
      <4> HIDE DEF spare, text
      <4>2. ClipCells(text, spare) \in Int /\ ClipCells(text, spare) <= spare
        BY <4>1, ClipNeverMore
      <4> QED BY <4>2 DEF spare, text
    <3>3. stops[i + 1] = stops[i] + ClipCells(row[i + 1], w - stops[i])
      BY <1>2, <2>1, <2>3
    <3>4. stops[i + 1] <= w
      BY <3>1, <3>2, <3>3
    <3>5. w <= cap
      OBVIOUS
    <3>6. stops[i + 1] <= cap
      BY <1>2, <1>3, <2>1, <3>4, <3>5
    <3> QED BY <2>1, <3>6
  <2> QED BY <2>2, <2>3
<1>5. 0 \in T
  BY <1>1, <1>2, <1>3
<1>6. 0..n \subseteq T
  <2> HIDE DEF T, n
  <2> QED BY <1>1, <1>4, <1>5, SetInduction
<1>7. n \in 0..n
  BY <1>1
<1> QED BY <1>2, <1>6, <1>7 DEF LineCells, stops

\* A row whose segments fit is not cut.
LEMMA WholeSegment ==
    ASSUME NEW row \in Seq(AnyText), NEW w \in Int, NEW i \in 1..Len(row), NEW at \in Int,
           LineStops(row, w)[i - 1] = at, at < w, at + Cells(row[i]) <= w
    PROVE  LineStops(row, w)[i] = at + Cells(row[i])
<1> DEFINE spare == w - at
<1>1. row[i] \in AnyText /\ spare \in Int
  OBVIOUS
<1>2. Cells(row[i]) \in Nat
  BY <1>1, ClipBounds
<1>3. Cells(row[i]) <= spare
  BY <1>2
<1>4. ClipCells(row[i], spare) = Cells(row[i])
  <2> HIDE DEF spare
  <2> QED BY <1>1, <1>3, ClipBounds
<1> QED BY <1>4, StopsStep

LEMMA FitsExactly ==
    ASSUME NEW text \in AnyText, NEW w \in Nat, w > 0
    PROVE  FitCells(text, w) = w
BY ClipBounds DEF FitCells

LEMMA TextsTyped ==
    /\ \A t \in Texts : t \in AnyText
    /\ \A n \in Nat : Narrow(n) \in AnyText /\ Cells(Narrow(n)) = n
    /\ \A t \in AnyText, n \in Nat : Prefixed(n, t) \in AnyText
BY RowsAssumption DEF AnyText, Narrow, Cells, Prefixed

LEMMA LabelTyped ==
    ASSUME NEW m \in Limits \union Windows, NEW layout
    PROVE  Label(m, layout) \in AnyText
<1>1. CASE m \in Windows
  <2>1. 2 \in Nat /\ 3 \in Nat /\ 6 \in Nat
    OBVIOUS
  <2> QED BY <1>1, <2>1, TextsTyped DEF Label
<1>2. CASE m \notin Windows
  <2>1. m.model \in AnyText
    BY <1>2, RowsAssumption, TextsTyped
  <2>2. m.kind \in DOMAIN KindLabel => KindLabel[m.kind] \in AnyText
    <3>1. 2 \in Nat /\ 6 \in Nat
      OBVIOUS
    <3> QED BY <3>1, TextsTyped DEF KindLabel
  <2>3. Prefixed(7, m.model) \in AnyText
    <3>1. 7 \in Nat
      OBVIOUS
    <3> QED BY <2>1, <3>1, TextsTyped
  <2> QED BY <1>2, <2>1, <2>2, <2>3 DEF Label
<1> QED BY <1>1, <1>2

\* A reset time is typed; less than ten days off, it fits its column.
LEMMA ResetFits ==
    ASSUME NEW t \in Int, NEW long \in BOOLEAN
    PROVE  /\ ResetCells(t, long) \in Nat
           /\ t < 10 * 1440 => ResetCells(t, long) <= IF long THEN 20 ELSE 9
<1>1. CASE t <= 0
  BY <1>1 DEF ResetCells
<1>2. CASE t > 0
  <2> DEFINE days == t \div 1440
             hours == (t % 1440) \div 60
             minutes == t % 60
  <2>1. days \in Nat /\ hours \in 0..23 /\ minutes \in 0..59
    BY <1>2
  <2>2. (t >= 1440 <=> days > 0) /\ (t < 10 * 1440 => days < 10)
    BY <1>2
  <2>3. \A n \in Nat : Digits(n) \in {1, 2} /\ (n < 10 => Digits(n) = 1)
    BY DEF Digits
  <2>4. CountdownCells(t) =
          IF days > 0 THEN Digits(days) + 1 + Digits(hours) + 1
          ELSE IF hours > 0 THEN Digits(hours) + 1 + 2 + 1 ELSE Digits(minutes) + 1
    <3> HIDE DEF days, hours, minutes
    <3> QED BY <2>1 DEF CountdownCells, days, hours, minutes
  <2>5. /\ CountdownCells(t) \in Nat
        /\ t < 10 * 1440 => CountdownCells(t) <= IF t >= 1440 THEN 5 ELSE 6
    <3> HIDE DEF days, hours, minutes
    <3> QED BY <2>1, <2>2, <2>3, <2>4
  <2> QED BY <1>2, <2>5 DEF ResetCells
<1> QED BY <1>1, <1>2

\* The columns of a layout, and what they add up to on a terminal that affords one.
Sized(layout, v) ==
    /\ layout.label \in {8, 13} /\ layout.reset \in {0, 9, 20}
    /\ layout.bar \in Nat /\ layout.bar >= 8
    /\ v >= 27 => 10 + layout.label + layout.bar
                  + (IF layout.reset > 0 THEN 2 + layout.reset ELSE 0) < v

LEMMA LayoutBounds ==
    ASSUME NEW v \in Int
    PROVE  Sized(PlanLayout(v), v)
<1> DEFINE layout == PlanLayout(v)
<1>1. /\ v < 27 => layout.label = 8 /\ layout.bar = 8 /\ layout.reset = 0
      /\ v >= 27 /\ v < 38 => layout.label = 8 /\ layout.bar = v - 19 /\ layout.reset = 0
      /\ v >= 38 /\ v < 43 => layout.label = 8 /\ layout.bar = v - 30 /\ layout.reset = 9
      /\ v >= 43 /\ v < 60 => /\ layout.label = 13 /\ layout.reset = 9
                             /\ layout.bar = IF v <= 55 THEN v - 35 ELSE 20
      /\ v >= 60 => /\ layout.label = 13 /\ layout.reset = 20
                   /\ layout.bar = IF v <= 66 THEN v - 46 ELSE 20
  BY LayoutTable
<1> SUFFICES Sized(layout, v)
  OBVIOUS
<1> HIDE DEF layout
<1>2. layout.label \in {8, 13} /\ layout.reset \in {0, 9, 20}
  BY <1>1
<1>3. layout.bar \in Nat /\ layout.bar >= 8
  BY <1>1
<1>4. v >= 27 => 10 + layout.label + layout.bar
                + (IF layout.reset > 0 THEN 2 + layout.reset ELSE 0) < v
  <2>1. CASE v < 43
    BY <1>1, <1>3, <2>1
  <2>2. CASE v >= 43 /\ v < 60
    BY <1>1, <1>3, <2>2
  <2>3. CASE v >= 60
    BY <1>1, <1>3, <2>3
  <2> QED BY <2>1, <2>2, <2>3
<1> QED BY <1>2, <1>3, <1>4 DEF Sized

LEMMA FilledPart ==
    ASSUME NEW share \in Int, NEW bar \in Nat
    PROVE  Filled(share, bar) \in Int /\ Filled(share, bar) >= 0 /\ Filled(share, bar) <= bar
<1> DEFINE n == share * bar
           k == RoundHalfEven(n, 1000)
<1>1. n \in Int
  OBVIOUS
<1>2. k \in Int
  <2> HIDE DEF n
  <2> QED BY <1>1 DEF RoundHalfEven
<1> HIDE DEF k
<1>3. Max({0, Min({bar, k})}) = IF k < 0 THEN 0 ELSE IF k <= bar THEN k ELSE bar
  BY <1>2, MinOfTwo, MaxOfTwo
<1> QED BY <1>2, <1>3 DEF Filled, k

\* Every reset is less than ten days off: the longest window is a week.
ResetsFit == \A t \in Waits : t < 10 * 1440

\* The segments of a meter, and the cells they take.
Columns(row, layout) ==
    /\ row \in Seq(AnyText)
    /\ Len(row) \in {7, 9} /\ (Len(row) = 9 => layout.reset > 0 /\ left # None)
    /\ Cells(row[1]) = 2 /\ Cells(row[2]) = layout.label /\ Cells(row[3]) = 2
    /\ Cells(row[4]) \in Nat /\ Cells(row[5]) \in Nat
    /\ Cells(row[4]) + Cells(row[5]) = layout.bar
    /\ Cells(row[6]) = 2 /\ (NumberCells(used) = 3 => Cells(row[7]) = 4)
    /\ Len(row) = 9 => /\ Cells(row[8]) = 2
                       /\ Cells(row[9]) \in Nat
                       /\ ResetsFit => Cells(row[9]) <= layout.reset

LEMMA MeterSegments ==
    ASSUME TypeOK, NEW v \in Int
    PROVE  Columns(MeterRow(PlanLayout(v)), PlanLayout(v))
<1> DEFINE layout == PlanLayout(v)
           filled == Filled(used, layout.bar)
           a1 == Narrow(2)
           a2 == Narrow(FitCells(Label(meter, layout), layout.label))
           a4 == Narrow(filled)
           a5 == Narrow(layout.bar - filled)
           a7 == Narrow(NumberCells(used) + 1)
           a9 == Narrow(ResetCells(left, layout.reset >= LongReset))
           short == <<a1, a2, a1, a4, a5, a1, a7>>
           long  == short \o <<a1, a9>>
<1>1. /\ layout.label \in {8, 13} /\ layout.reset \in {0, 9, 20}
      /\ layout.bar \in Nat /\ layout.bar >= 8
  BY LayoutBounds DEF Sized
<1>2. used \in Int /\ left \in Int \union {None}
  BY RowsAssumption DEF TypeOK
<1>3. filled \in Nat /\ layout.bar - filled \in Nat
  <2> DEFINE bar == layout.bar
  <2>1. bar \in Nat
    BY <1>1
  <2> HIDE DEF bar
  <2>2. Filled(used, bar) \in Int /\ Filled(used, bar) >= 0 /\ Filled(used, bar) <= bar
    BY <1>2, <2>1, FilledPart
  <2>3. Filled(used, bar) \in Nat /\ bar - Filled(used, bar) \in Nat
    BY <2>1, <2>2
  <2> QED BY <2>3 DEF bar
<1>4. a1 \in AnyText /\ Cells(a1) = 2 /\ a7 \in AnyText /\ (NumberCells(used) = 3 => Cells(a7) = 4)
  <2>1. 2 \in Nat /\ NumberCells(used) + 1 \in Nat /\ 3 + 1 = 4
    BY DEF NumberCells
  <2> QED BY <2>1, TextsTyped
<1>5. a2 \in AnyText /\ Cells(a2) = layout.label
  <2> HIDE DEF layout
  <2>1. FitCells(Label(meter, layout), layout.label) = layout.label
    BY <1>1, LabelTyped, FitsExactly DEF TypeOK
  <2>2. layout.label \in Nat
    BY <1>1
  <2> QED BY <2>1, <2>2, TextsTyped
<1>6. /\ a4 \in AnyText /\ Cells(a4) = filled
      /\ a5 \in AnyText /\ Cells(a5) = layout.bar - filled
  <2> HIDE DEF layout, filled
  <2> QED BY <1>3, TextsTyped
<1>7. left # None /\ layout.reset > 0 =>
        /\ a9 \in AnyText /\ Cells(a9) \in Nat
        /\ ResetsFit => Cells(a9) <= layout.reset
  <2> HIDE DEF layout
  <2> SUFFICES ASSUME left # None, layout.reset > 0
               PROVE  /\ a9 \in AnyText /\ Cells(a9) \in Nat
                      /\ ResetsFit => Cells(a9) <= layout.reset
    OBVIOUS
  <2>1. left \in Int /\ left \in Waits
    BY <1>2 DEF TypeOK
  <2> DEFINE isLong == layout.reset >= LongReset
  <2>2. isLong \in BOOLEAN /\ (IF isLong THEN 20 ELSE 9) = layout.reset
    BY <1>1 DEF LongReset
  <2>3. ResetCells(left, isLong) \in Nat
        /\ (left < 10 * 1440 => ResetCells(left, isLong) <= IF isLong THEN 20 ELSE 9)
    <3> HIDE DEF isLong
    <3> QED BY <2>1, <2>2, ResetFits
  <2>4. a9 \in AnyText /\ Cells(a9) = ResetCells(left, isLong)
    <3> HIDE DEF isLong
    <3> QED BY <2>3, TextsTyped DEF isLong
  <2>5. ResetsFit => left < 10 * 1440
    BY <2>1 DEF ResetsFit
  <2> DEFINE cells == ResetCells(left, isLong)
  <2>6. ResetsFit => cells <= layout.reset
    BY <2>2, <2>3, <2>5
  <2> HIDE DEF cells, isLong, a9
  <2> QED BY <2>3, <2>4, <2>6 DEF cells
<1>8. MeterRow(layout) = IF layout.reset > 0 /\ left # None THEN long ELSE short
  <2> HIDE DEF layout
  <2> QED BY DEF MeterRow, Blank, Indent, Gap
<1> SUFFICES Columns(MeterRow(layout), layout)
  OBVIOUS
<1> HIDE DEF layout, filled, a1, a2, a4, a5, a7, a9
<1>9. short \in Seq(AnyText) /\ Len(short) = 7
  BY <1>4, <1>5, <1>6
<1>10. left # None /\ layout.reset > 0 =>
         /\ long \in Seq(AnyText) /\ Len(long) = 9
         /\ \A i \in 1..7 : long[i] = short[i]
         /\ long[8] = a1 /\ long[9] = a9
  <2> SUFFICES ASSUME left # None, layout.reset > 0
               PROVE  /\ long \in Seq(AnyText) /\ Len(long) = 9
                      /\ \A i \in 1..7 : long[i] = short[i]
                      /\ long[8] = a1 /\ long[9] = a9
    OBVIOUS
  <2> DEFINE tail == <<a1, a9>>
  <2>1. tail \in Seq(AnyText) /\ Len(tail) = 2 /\ tail[1] = a1 /\ tail[2] = a9
    BY <1>4, <1>7
  <2>2. long = short \o tail
    OBVIOUS
  <2> HIDE DEF long, short, tail
  <2>3. /\ short \o tail \in Seq(AnyText) /\ Len(short \o tail) = Len(short) + Len(tail)
        /\ \A i \in 1..(Len(short) + Len(tail)) :
              (short \o tail)[i] = IF i <= Len(short) THEN short[i] ELSE tail[i - Len(short)]
    BY <1>9, <2>1, ConcatProperties
  <2>4. long[8] = tail[1] /\ long[9] = tail[2] /\ \A i \in 1..7 : long[i] = short[i]
    BY <1>9, <2>1, <2>2, <2>3
  <2>5. long \in Seq(AnyText) /\ Len(long) = 9
    BY <1>9, <2>1, <2>2, <2>3
  <2> QED BY <2>1, <2>4, <2>5
<1>11. CASE layout.reset > 0 /\ left # None
  <2>1. MeterRow(layout) = long
    BY <1>8, <1>11
  <2>2. short[1] = a1 /\ short[2] = a2 /\ short[3] = a1 /\ short[4] = a4 /\ short[5] = a5
        /\ short[6] = a1 /\ short[7] = a7
    OBVIOUS
  <2> HIDE DEF long, short
  <2>3. long[1] = a1 /\ long[2] = a2 /\ long[3] = a1 /\ long[4] = a4 /\ long[5] = a5
        /\ long[6] = a1 /\ long[7] = a7 /\ long[8] = a1 /\ long[9] = a9
    BY <1>10, <1>11, <2>2
  <2>4. Cells(a4) + Cells(a5) = layout.bar
    BY <1>1, <1>3, <1>6
  <2> QED BY <1>3, <1>4, <1>5, <1>6, <1>7, <1>10, <1>11, <2>1, <2>3, <2>4 DEF Columns
<1>12. CASE ~ (layout.reset > 0 /\ left # None)
  <2>1. MeterRow(layout) = short
    BY <1>8, <1>12
  <2> QED BY <1>1, <1>3, <1>4, <1>5, <1>6, <1>9, <1>12, <2>1
     DEF Columns
<1> QED BY <1>11, <1>12

\* From the narrowest tier on, no segment of a meter is cut, and its columns begin
\* where the layout says.
LEMMA WholeMeter ==
    ASSUME TypeOK, ResetsFit, NEW v \in Int, v >= 27
    PROVE  LET layout == PlanLayout(v)
               row    == MeterRow(layout)
               stops  == LineStops(row, v - 1)
           IN  /\ \A i \in DOMAIN row :
                     i <= 6 \/ NumberCells(used) = 3 => stops[i] = stops[i - 1] + Cells(row[i])
               /\ stops[3] = 2 + layout.label + 2
               /\ stops[6] = stops[3] + layout.bar + 2
<1> DEFINE layout == PlanLayout(v)
           row == MeterRow(layout)
           w == v - 1
           stops == LineStops(row, w)
<1> SUFFICES /\ \A i \in DOMAIN row :
                     i <= 6 \/ NumberCells(used) = 3 => stops[i] = stops[i - 1] + Cells(row[i])
             /\ stops[3] = 2 + layout.label + 2
             /\ stops[6] = stops[3] + layout.bar + 2
  OBVIOUS
<1>1. Columns(row, layout) /\ Sized(layout, v)
  BY MeterSegments, LayoutBounds
<1>2. w \in Int /\ w = v - 1
  OBVIOUS
<1> HIDE DEF layout, row, w, stops
<1>3. row \in Seq(AnyText) /\ Len(row) \in {7, 9} /\ \A i \in 1..7 : i \in 1..Len(row)
  <2>1. row \in Seq(AnyText) /\ Len(row) \in {7, 9}
    BY <1>1 DEF Columns
  <2>2. CASE Len(row) = 7
    BY <2>1, <2>2
  <2>3. CASE Len(row) = 9
    BY <2>1, <2>3
  <2> QED BY <2>1, <2>2, <2>3
<1> DEFINE L == layout.label
           B == layout.bar
           f == Cells(row[4])
<1>4. /\ Cells(row[1]) = 2 /\ Cells(row[2]) = L /\ Cells(row[3]) = 2
      /\ Cells(row[4]) = f /\ f \in Nat /\ Cells(row[5]) = B - f /\ Cells(row[5]) \in Nat
      /\ Cells(row[6]) = 2 /\ L \in Nat /\ B \in Nat /\ 10 + L + B <= w
      /\ w \in Int
  <2>1. Cells(row[5]) = B - f
    BY <1>1 DEF Columns, Sized
  <2>2. 10 + L + B <= w /\ w \in Int
    BY <1>1, <1>2 DEF Sized
  <2>3. L \in Nat /\ B \in Nat
    BY <1>1 DEF Sized
  <2> QED BY <1>1, <2>1, <2>2, <2>3 DEF Columns
<1> DEFINE Follows(j, i) == \A at, c \in Int : /\ stops[j] = at /\ Cells(row[i]) = c
                                             /\ at < w /\ at + c <= w
                                             => stops[i] = at + c
<1>5. ASSUME NEW i \in 1..Len(row), NEW j \in Int, j = i - 1 PROVE Follows(j, i)
  BY <1>2, <1>3, <1>5, WholeSegment DEF stops
<1> HIDE DEF L, B, f
<1>6. stops[0] = 0
  BY <1>2, <1>3, StopsStep DEF stops
<1>7. stops[1] = 2
  <2>1. Follows(0, 1)
    <3> HIDE DEF Follows
    <3> QED BY <1>3, <1>5
  <2> QED BY <1>4, <1>6, <2>1
<1>8. stops[2] = 2 + L
  <2>1. Follows(1, 2)
    <3> HIDE DEF Follows
    <3> QED BY <1>3, <1>5
  <2> QED BY <1>4, <1>7, <2>1
<1>9. stops[3] = 4 + L
  <2>1. Follows(2, 3)
    <3> HIDE DEF Follows
    <3> QED BY <1>3, <1>5
  <2> QED BY <1>4, <1>8, <2>1
<1>10. stops[4] = 4 + L + f
  <2>1. Follows(3, 4)
    <3> HIDE DEF Follows
    <3> QED BY <1>3, <1>5
  <2> QED BY <1>4, <1>9, <2>1
<1>11. stops[5] = 4 + L + B
  <2>1. Follows(4, 5)
    <3> HIDE DEF Follows
    <3> QED BY <1>3, <1>5
  <2> QED BY <1>4, <1>10, <2>1
<1>12. stops[6] = 6 + L + B
  <2>1. Follows(5, 6)
    <3> HIDE DEF Follows
    <3> QED BY <1>3, <1>5
  <2> QED BY <1>4, <1>11, <2>1
<1> SUFFICES ASSUME NumberCells(used) = 3
             PROVE  /\ \A i \in DOMAIN row : stops[i] = stops[i - 1] + Cells(row[i])
                    /\ stops[3] = 2 + layout.label + 2
                    /\ stops[6] = stops[3] + layout.bar + 2
  <2>1. DOMAIN row \subseteq Int
    BY <1>3
  <2>2. \A i \in DOMAIN row : i <= 6 => i = 1 \/ i = 2 \/ i = 3 \/ i = 4 \/ i = 5 \/ i = 6
    BY <1>3
  <2>3. \A i \in DOMAIN row : i <= 6 => stops[i] = stops[i - 1] + Cells(row[i])
    BY <1>4, <1>6, <1>7, <1>8, <1>9, <1>10, <1>11, <1>12, <2>2
  <2>4. stops[3] = 2 + layout.label + 2 /\ stops[6] = stops[3] + layout.bar + 2
    BY <1>4, <1>9, <1>12 DEF L, B
  <2> QED BY <2>3, <2>4
<1>12a. Cells(row[7]) = 4
  BY <1>1 DEF Columns
<1>13. stops[7] = 10 + L + B
  <2>1. Follows(6, 7)
    <3> HIDE DEF Follows
    <3> QED BY <1>3, <1>5
  <2> QED BY <1>4, <1>12, <1>12a, <2>1
<1>14. CASE Len(row) = 7
  <2>1. DOMAIN row = 1..7
    BY <1>3, <1>14
  <2>2. \A i \in 1..7 : i = 1 \/ i = 2 \/ i = 3 \/ i = 4 \/ i = 5 \/ i = 6 \/ i = 7
    OBVIOUS
  <2>3. \A i \in 1..7 : stops[i] = stops[i - 1] + Cells(row[i])
    BY <1>4, <1>6, <1>7, <1>8, <1>9, <1>10, <1>11, <1>12, <1>12a, <1>13, <2>2
  <2> QED BY <1>4, <1>9, <1>12, <2>1, <2>3 DEF L, B
<1>15. CASE Len(row) = 9
  <2> DEFINE r == Cells(row[9])
  <2>1. layout.reset > 0
    BY <1>1, <1>15 DEF Columns, Sized
  <2>2. Cells(row[8]) = 2 /\ r \in Nat /\ r <= layout.reset
    BY <1>1, <1>15 DEF Columns
  <2>3. layout.reset \in Int /\ 12 + L + B + layout.reset <= w
    BY <1>1, <1>2, <2>1 DEF Sized, L, B
  <2>4. 12 + L + B + r <= w /\ r \in Nat
    <3> HIDE DEF r
    <3> QED BY <1>2, <1>4, <2>2, <2>3
  <2> HIDE DEF r
  <2>5. 8 \in 1..Len(row) /\ 9 \in 1..Len(row)
    BY <1>15
  <2>6. stops[8] = 12 + L + B
    <3>1. Follows(7, 8)
      <4> HIDE DEF Follows
      <4> QED BY <1>5, <2>5
    <3> QED BY <1>2, <1>4, <1>13, <2>2, <2>4, <3>1
  <2>7. stops[9] = 12 + L + B + r
    <3>0. Follows(8, 9)
      <4> HIDE DEF Follows
      <4> QED BY <1>5, <2>5
    <3>1. CASE r = 0
      <4>1. stops[8] <= w /\ Cells(row[9]) = 0
        BY <2>4, <2>6, <3>1, <1>4 DEF r
      <4>2. stops[8] < w => stops[9] = stops[8]
        BY <1>2, <1>4, <2>6, <3>0, <4>1
      <4>3. stops[8] = w => stops[9] = stops[8]
        BY <1>2, <1>3, <2>5, StopsStep DEF stops
      <4> QED BY <1>2, <1>4, <2>6, <3>1, <4>1, <4>2, <4>3
    <3>2. CASE r # 0
      BY <1>2, <1>4, <2>4, <2>6, <3>0, <3>2 DEF r
    <3> QED BY <3>1, <3>2
  <2>8. DOMAIN row = 1..9
    BY <1>3, <1>15
  <2>9. \A i \in 1..9 : i = 1 \/ i = 2 \/ i = 3 \/ i = 4 \/ i = 5 \/ i = 6 \/ i = 7 \/ i = 8 \/ i = 9
    OBVIOUS
  <2>10. stops[8] = stops[7] + Cells(row[8]) /\ stops[9] = stops[8] + Cells(row[9])
    BY <1>4, <1>13, <2>2, <2>4, <2>6, <2>7 DEF r
  <2>11. \A i \in 1..9 : stops[i] = stops[i - 1] + Cells(row[i])
    BY <1>4, <1>6, <1>7, <1>8, <1>9, <1>10, <1>11, <1>12, <1>12a, <1>13, <2>9, <2>10
  <2> QED BY <1>4, <1>9, <1>12, <2>8, <2>11 DEF L, B
<1> QED BY <1>3, <1>14, <1>15

\* The rows of an account and of a section are made of texts.
LEMMA RowsTyped ==
    ASSUME TypeOK
    PROVE  /\ AccountRows \subseteq Seq(AnyText)
           /\ SectionRows \subseteq Seq(AnyText)
           /\ Budget \in Nat
           /\ Budget = IF width >= 1 THEN width - 1 ELSE 0
<1>1. width \in Nat /\ GutterCells \in Nat
  BY RowsAssumption DEF TypeOK
<1>2. Budget \in Nat /\ Budget = IF width >= 1 THEN width - 1 ELSE 0
  BY <1>1, MaxOfTwo DEF Budget
<1>3. AccountWidth \in Int
  BY <1>1 DEF AccountWidth, Gutter
<1> DEFINE layout == PlanLayout(AccountWidth)
<1>4. MeterRow(layout) \in Seq(AnyText)
  BY <1>3, MeterSegments DEF Columns
<1>5. Narrow(1) \in AnyText /\ Narrow(2) \in AnyText /\ Narrow(7) \in AnyText
  <2>1. 1 \in Nat /\ 2 \in Nat /\ 7 \in Nat
    OBVIOUS
  <2> QED BY <2>1, TextsTyped
<1>6. Narrow(FitCells(Narrow(7), layout.label)) \in AnyText
  <2>1. layout.label \in Nat /\ layout.label > 0
    BY <1>3, LayoutBounds DEF Sized
  <2> HIDE DEF layout
  <2> QED BY <1>5, <2>1, FitsExactly, TextsTyped
<1>7. \A t \in Texts : t \in AnyText /\ Prefixed(2, t) \in AnyText /\ Prefixed(3, t) \in AnyText
  <2>1. 2 \in Nat /\ 3 \in Nat
    OBVIOUS
  <2> QED BY <2>1, TextsTyped
<1> HIDE DEF layout
<1>8. \A t \in Texts : AccountLine(t, t, t) \in Seq(AnyText)
  BY <1>5, <1>7 DEF AccountLine
<1>9. \A t \in Texts : DetailLine(layout, t) \in Seq(AnyText) /\ HintLine(t) \in Seq(AnyText)
  BY <1>5, <1>6, <1>7 DEF DetailLine, HintLine, Blank, Indent, Gap
<1>10. AccountRows \subseteq Seq(AnyText)
  BY <1>4, <1>8, <1>9 DEF AccountRows, layout
<1>11. SectionRows \subseteq Seq(AnyText)
  <2>1. Narrow(Budget) \in AnyText
    BY <1>2, TextsTyped
  <2>2. \A t \in AnyText : <<t>> \in Seq(AnyText)
    OBVIOUS
  <2> QED BY <1>7, <2>1, <2>2 DEF SectionRows
<1> QED BY <1>2, <1>10, <1>11

\* What holds of every row on every terminal, whatever the texts and times say.
RowsStayInside ==
    /\ \A r \in AccountRows : Gutter + LineCells(r, AccountWidth - 1) <= Budget
    /\ \A r \in SectionRows : LineCells(r, Budget) <= Budget

LEMMA InsideTheTerminal == TypeOK => RowsStayInside
<1> SUFFICES ASSUME TypeOK PROVE RowsStayInside
  OBVIOUS
<1>1. width \in Nat /\ GutterCells \in Nat
  BY RowsAssumption DEF TypeOK
<1>2. Gutter \in Nat /\ AccountWidth = width - Gutter /\ (Gutter > 0 => width > Gutter + 1)
  BY <1>1 DEF AccountWidth, Gutter
<1>3. ASSUME NEW r \in AccountRows PROVE Gutter + LineCells(r, AccountWidth - 1) <= Budget
  <2> DEFINE w == AccountWidth - 1
  <2>1. w \in Int /\ r \in Seq(AnyText) /\ Budget \in Nat
        /\ Budget = IF width >= 1 THEN width - 1 ELSE 0
    BY <1>1, <1>2, RowsTyped
  <2>2. LineCells(r, w) \in Int /\ LineCells(r, w) <= IF w > 0 THEN w ELSE 0
    <3> HIDE DEF w
    <3> QED BY <2>1, LineFits
  <2>3. w = width - Gutter - 1
    BY <1>2
  <2> HIDE DEF w
  <2>4. Gutter + LineCells(r, w) <= Budget
    <3>1. CASE w > 0
      <4>1. width >= 1 /\ Gutter + w = width - 1
        BY <1>1, <1>2, <2>3, <3>1
      <4> QED BY <1>1, <1>2, <2>1, <2>2, <3>1, <4>1
    <3>2. CASE ~ (w > 0)
      <4>1. Gutter = 0
        BY <1>1, <1>2, <2>3, <3>2
      <4> QED BY <1>1, <1>2, <2>1, <2>2, <3>2, <4>1
    <3> QED BY <3>1, <3>2
  <2> QED BY <2>4 DEF w
<1>4. ASSUME NEW r \in SectionRows PROVE LineCells(r, Budget) <= Budget
  <2>1. r \in Seq(AnyText) /\ Budget \in Nat /\ Budget \in Int
    BY RowsTyped
  <2>2. LineCells(r, Budget) \in Int /\ LineCells(r, Budget) <= IF Budget > 0 THEN Budget ELSE 0
    BY <2>1, LineFits
  <2> QED BY <2>1, <2>2
<1> QED BY <1>3, <1>4 DEF RowsStayInside

-----------------------------------------------------------------------------

LEMMA Periods == \A m \in Limits \union Windows : Period(m) \in Nat \union {None}
<1> SUFFICES ASSUME NEW m \in Limits \union Windows PROVE Period(m) \in Nat \union {None}
  OBVIOUS
<1>1. m \in Limits => ClaudePeriod(m) \in Nat \union {None}
  BY DEF ClaudePeriod, Session, Week
<1>2. m \notin Limits => m.length \in Nat
  BY RowsAssumption
<1> QED BY <1>1, <1>2 DEF Period

LEMMA ReadTimes == \A t : ParseReset(t) \in Waits \union {None}
BY DEF ParseReset

\* Whatever the wire says of the reset time, the row is about a time or none.
THEOREM RowsTypeCorrect == Spec => []TypeOK
<1>1. Init => TypeOK
  BY RowsAssumption, ReadTimes DEF Init, TypeOK
<1>2. TypeOK /\ [Next]_vars => TypeOK'
  <2> SUFFICES ASSUME TypeOK, [Next]_vars PROVE TypeOK'
    OBVIOUS
  <2>1. ASSUME NEW w \in Widths, Resize(w) PROVE TypeOK'
    BY <2>1 DEF TypeOK, Resize
  <2>2. ASSUME NEW t \in Waits, Wait(t) PROVE TypeOK'
    BY <2>2 DEF TypeOK, Wait
  <2>3. ASSUME NEW share \in Shares, Spend(share) PROVE TypeOK'
    BY <2>3 DEF TypeOK, Spend
  <2>4. ASSUME NEW t \in Wire, Renew(t) PROVE TypeOK'
    BY <2>4, RowsAssumption, ReadTimes DEF TypeOK, Renew
  <2>5. CASE UNCHANGED vars
    BY <2>5 DEF TypeOK, vars
  <2> QED BY <2>1, <2>2, <2>3, <2>4, <2>5 DEF Next
<1> QED BY <1>1, <1>2, PTL DEF Spec

\* A wider terminal never costs a meter label or reset time, and some of its bar
\* only for one of these.
THEOREM WiderNeverShowsLess == Spec => WiderShowsNoLess
<1> DEFINE before == PlanLayout(width)
           after  == PlanLayout(width')
           Less == /\ after.label >= before.label
                   /\ after.reset >= before.reset
                   /\ after.bar < before.bar => after.label + after.reset > before.label + before.reset
<1>1. ASSUME TypeOK, TypeOK' PROVE width' > width => Less
  BY <1>1, RowsAssumption, WiderIsRicher DEF TypeOK
<1>2. TypeOK /\ TypeOK' => [width' > width => Less]_vars
  BY <1>1
<1> QED BY <1>2, RowsTypeCorrect, PTL DEF WiderShowsNoLess

\* More spent is never a shorter bar or a better colour, and with nothing spent a
\* meter that can be judged gets no worse by waiting.
THEOREM ColorAlwaysFollowsSpending == Spec => ColorFollowsSpending
<1> DEFINE period == Period(meter)
           before == MeterColor(used, left, period)
           after  == MeterColor(used', left', period)
           Follows ==
              /\ left' = left /\ used' >= used =>
                    /\ after >= before
                    /\ \A bar \in 8..BarMax : Filled(used', bar) >= Filled(used, bar)
              /\ used' = used /\ left # None /\ left' # None
                 /\ left' <= left /\ Judged(left, period) /\ Judged(left', period)
                 => after <= before
<1>1. ASSUME TypeOK, TypeOK' PROVE Follows
  <2>1. /\ used \in Int /\ used' \in Int /\ left \in Int \union {None} /\ left' \in Int \union {None}
        /\ period \in Nat \union {None}
    <3>1. Shares \subseteq Int /\ Waits \subseteq Int
      BY RowsAssumption
    <3>2. used \in Int /\ used' \in Int
      BY <1>1, <3>1 DEF TypeOK
    <3>3. left \in Int \union {None} /\ left' \in Int \union {None}
      BY <1>1, <3>1 DEF TypeOK
    <3>4. period \in Nat \union {None}
      BY <1>1, Periods DEF TypeOK
    <3> QED BY <3>2, <3>3, <3>4
  <2>2. ASSUME left' = left, used' >= used
        PROVE  after >= before /\ \A bar \in 8..BarMax : Filled(used', bar) >= Filled(used, bar)
    <3>1. used <= used'
      BY <2>1, <2>2
    <3>2. after >= before
      BY <2>1, <2>2, <3>1, SpendingDarkens
    <3>3. \A bar \in 8..BarMax : bar \in Nat
      BY DEF BarMax
    <3>4. \A bar \in 8..BarMax : Filled(used', bar) >= Filled(used, bar)
      BY <2>1, <3>1, <3>3, FillGrows
    <3> QED BY <3>2, <3>4
  <2>3. ASSUME used' = used, left # None, left' # None, left' <= left,
               Judged(left, period), Judged(left', period)
        PROVE  after <= before
    <3>1. period \in Nat
      BY <2>1, <2>3 DEF Judged, NoWindow
    <3> QED BY <2>1, <2>3, <3>1, WaitingLightens
  <2> QED BY <2>2, <2>3
<1>2. TypeOK /\ TypeOK' => [Follows]_vars
  BY <1>1
<1> QED BY <1>2, RowsTypeCorrect, PTL DEF ColorFollowsSpending

\* Every row stays inside the terminal, and where the terminal affords the
\* narrowest layout every meter is shown whole up to a
\* percentage that is too long for its column, in the same columns.
THEOREM RowsAlwaysKeepTheirColumns == ResetsFit /\ Spec => []RowsKeepTheirColumns
<1>1. ASSUME ResetsFit, TypeOK PROVE RowsKeepTheirColumns
  <2>1. AccountWidth \in Int
    BY <1>1, RowsAssumption DEF TypeOK, AccountWidth, Gutter
  <2>2. AccountWidth >= NarrowestWhole =>
          LET layout == PlanLayout(AccountWidth)
              row    == MeterRow(layout)
              stops  == LineStops(row, AccountWidth - 1)
          IN  /\ \A i \in DOMAIN row :
                    i <= 6 \/ NumberCells(used) = 3 => stops[i] = stops[i - 1] + Cells(row[i])
              /\ stops[3] = Indent + layout.label + Gap
              /\ stops[6] = stops[3] + layout.bar + Gap
    BY <1>1, <2>1, WholeMeter DEF NarrowestWhole, Indent, Gap
  <2>3. RowsStayInside
    BY <1>1, InsideTheTerminal
  <2> QED BY <2>2, <2>3 DEF RowsKeepTheirColumns, RowsStayInside
<1>2. ResetsFit => [](ResetsFit)
  BY DEF ResetsFit
<1> QED BY <1>1, <1>2, RowsTypeCorrect, PTL

\* However long a reset time gets, no row ever reaches the last column.
THEOREM RowsNeverWrap == Spec => []RowsStayInside
BY InsideTheTerminal, RowsTypeCorrect, PTL

=============================================================================
