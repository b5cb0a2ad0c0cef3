--------------------------- MODULE ChartData_proof ---------------------------
(***************************************************************************)
(* Proofs about the data of the chart.  TraceLoad, whose Spec this is: for *)
(* every set of windows and settings, every cap on the caches and every    *)
(* number of generations and epochs.  MarketCache with its CacheSpec: for  *)
(* every horizon, cap and set of values.  MarketLoad with its LoadSpec,    *)
(* for any views, series, reports and sizes.  The caches keep intervals    *)
(* that are sorted, joined and walked, and the proofs share the lemmas     *)
(* about sorts, folds and chunks.                                          *)
(***************************************************************************)
EXTENDS TraceLoad, MarketCache, MarketLoad, SequenceTheorems, FiniteSetTheorems, WellFoundedInduction, TLAPS

Times == {b * Step : b \in Bars}
BarTimes(w) == {b * Step : b \in w.from .. w.to}
Ranges == [from : Bars, to : Bars]
Keys == {"trace", "events"} \X Ranges
Marks == UNION {[keys -> 0 .. Generations - 1] : keys \in SUBSET Keys}
Ledgers == [inFlight : Marks, merged : Seq(Keys), failed : SUBSET Keys]

\* All rows of a bundle are of one epoch, and no bar is missing between two of them.
Solid(times) == \E i \in Int : \E j \in Int : times = {b * Step : b \in i .. j}
IsOf(bundle, e) == Solid(DOMAIN bundle) /\ \A t \in DOMAIN bundle : bundle[t] = e

(***************************************************************************)
(* Lemmas about least and greatest elements, folds, and joined spans.       *)
(***************************************************************************)

\* A nonempty set of naturals has a least element.
LEMMA MinIsThere ==
  ASSUME NEW I \in SUBSET Nat, I # {}
  PROVE  Min(I) \in I /\ \A m \in I : Min(I) <= m
<1> DEFINE Below == {ss \in Nat \X Nat : ss[1] < ss[2]}
<1>1. IsWellFoundedOn(Below, Nat)
  BY NatLessThanWellFounded DEF OpToRel
<1> HIDE DEF Below
<1>2. PICK n \in I : \A m \in I : ~ (<<m, n>> \in Below)
  BY <1>1, WFMin
<1>3. \A m \in I : ~ (m < n)
  BY <1>2 DEF Below
<1>4. \A m \in I : n <= m
  BY <1>3
<1>5. QED BY <1>4 DEF Min

\* A nonempty set of numbers up to n has a greatest element.
LEMMA MaxIsThere ==
  ASSUME NEW n \in Nat, NEW s \in SUBSET (1 .. n), s # {}
  PROVE  Max(s) \in s /\ \A m \in s : m <= Max(s)
<1> DEFINE I == {u \in 1 .. n : \A m \in s : m <= u}
<1>1. n \in I
  <2>1. PICK m \in s : m \in 1 .. n
    OBVIOUS
  <2>2. n \in 1 .. n /\ \A x \in s : x <= n
    BY <2>1
  <2>3. QED BY <2>2
<1>2. PICK u \in I : \A v \in I : u <= v
  <2>1. I \in SUBSET Nat /\ I # {}
    BY <1>1
  <2> HIDE DEF I
  <2>2. QED BY <2>1, MinIsThere
<1>3. u \in s
  <2> SUFFICES ASSUME u \notin s PROVE FALSE
    OBVIOUS
  <2>1. \A m \in s : m \in 1 .. n /\ m <= u /\ m # u
    BY <1>2
  <2>2. \A m \in s : m <= u - 1
    BY <2>1, <1>2
  <2>a. PICK m \in s : m \in 1 .. n /\ m <= u - 1
    BY <2>1, <2>2
  <2>3. u - 1 \in 1 .. n
    <3>1. u \in 1 .. n
      BY <1>2
    <3>2. QED BY <2>a, <3>1
  <2>4. u - 1 \in I
    BY <2>2, <2>3
  <2>5. QED BY <1>2, <2>4
<1>4. \E x \in s : \A y \in s : x >= y
  BY <1>2, <1>3
<1>5. Max(s) \in s /\ \A y \in s : Max(s) >= y
  BY <1>4 DEF Max
<1>6. \A m \in s : m \in Nat
  OBVIOUS
<1>7. QED BY <1>5, <1>6

\* What is folded over the places of a list is a function on their sets.
FoldsWith(iter, n, base, step) ==
  \A s \in SUBSET (1 .. n) :
    iter[s] = IF s = {} THEN base ELSE step[iter[s \ {Max(s)}], Max(s)]

\* A fold over m places extends to the next one.
LEMMA FoldGrows ==
  ASSUME NEW A, NEW base \in A, NEW n \in Nat, NEW step \in [A \X (1 .. n) -> A],
         NEW m \in 0 .. n - 1, NEW g \in [SUBSET (1 .. m) -> A], FoldsWith(g, m, base, step)
  PROVE  \E h \in [SUBSET (1 .. (m + 1)) -> A] : FoldsWith(h, m + 1, base, step)
<1> DEFINE h == [s \in SUBSET (1 .. (m + 1)) |->
                   IF m + 1 \in s THEN step[g[s \ {m + 1}], m + 1] ELSE g[s]]
<1>1. \A s \in SUBSET (1 .. (m + 1)) : s \ {m + 1} \in SUBSET (1 .. m)
  OBVIOUS
<1>2. \A s \in SUBSET (1 .. (m + 1)) : m + 1 \notin s => s \in SUBSET (1 .. m)
  OBVIOUS
<1>3. \A x \in A : step[x, m + 1] \in A
  BY m + 1 \in 1 .. n
<1>4. h \in [SUBSET (1 .. (m + 1)) -> A]
  BY <1>1, <1>2, <1>3
<1>5. \A s \in SUBSET (1 .. (m + 1)) :
        h[s] = IF m + 1 \in s THEN step[g[s \ {m + 1}], m + 1] ELSE g[s]
  OBVIOUS
<1> HIDE DEF h
<1>6. ASSUME NEW s \in SUBSET (1 .. (m + 1))
      PROVE  h[s] = IF s = {} THEN base ELSE step[h[s \ {Max(s)}], Max(s)]
  <2>1. CASE s = {}
    BY <1>2, <1>5, <2>1 DEF FoldsWith
  <2>2. CASE m + 1 \in s
    <3>1. Max(s) \in s /\ \A x \in s : x <= Max(s)
      BY <2>2, MaxIsThere, m + 1 \in Nat
    <3>2. Max(s) = m + 1
      <4>1. PICK x : x = Max(s)
        OBVIOUS
      <4>2. x \in s /\ m + 1 <= x
        BY <2>2, <3>1, <4>1
      <4>3. x \in 1 .. (m + 1)
        BY <4>2
      <4>4. QED BY <4>1, <4>2, <4>3
    <3>3. h[s \ {m + 1}] = g[s \ {m + 1}]
      BY <1>5
    <3>4. h[s] = step[g[s \ {m + 1}], m + 1]
      BY <1>5, <2>2
    <3>5. QED BY <2>2, <3>2, <3>3, <3>4
  <2>3. CASE s # {} /\ m + 1 \notin s
    <3>1. s \in SUBSET (1 .. m)
      BY <2>3
    <3>2. h[s] = g[s] /\ h[s \ {Max(s)}] = g[s \ {Max(s)}]
      BY <1>5, <2>3
    <3>3. g[s] = step[g[s \ {Max(s)}], Max(s)]
      BY <2>3, <3>1 DEF FoldsWith
    <3>4. QED BY <2>3, <3>2, <3>3
  <2>4. QED BY <2>1, <2>2, <2>3
<1>7. FoldsWith(h, m + 1, base, step)
  BY <1>6 DEF FoldsWith
<1>8. QED BY <1>4, <1>7

\* So there is one over any number of places.
LEMMA FoldExists ==
  ASSUME NEW A, NEW base \in A, NEW n \in Nat, NEW step \in [A \X (1 .. n) -> A]
  PROVE  \E h \in [SUBSET (1 .. n) -> A] : FoldsWith(h, n, base, step)
<1> DEFINE Good(m) == \E h \in [SUBSET (1 .. m) -> A] : FoldsWith(h, m, base, step)
           I == {m \in 0 .. n : ~Good(m)}
<1>1. Good(0)
  <2>1. PICK h : h = [s \in {{}} |-> base]
    OBVIOUS
  <2>2. SUBSET (1 .. 0) = {{}}
    OBVIOUS
  <2>3. h \in [SUBSET (1 .. 0) -> A] /\ \A s \in SUBSET (1 .. 0) : s = {} /\ h[s] = base
    BY <2>1, <2>2
  <2>4. FoldsWith(h, 0, base, step)
    BY <2>3 DEF FoldsWith
  <2>5. QED BY <2>3, <2>4
<1>2. \A m \in 0 .. n - 1 : Good(m) => Good(m + 1)
  BY FoldGrows
<1> HIDE DEF Good
<1>3. I \in SUBSET Nat
  OBVIOUS
<1>4. CASE I = {}
  <2>1. n \in 0 .. n /\ n \notin I
    BY <1>4
  <2>2. Good(n)
    BY <2>1
  <2>3. QED BY <2>2 DEF Good
<1>5. CASE I # {}
  <2>1. PICK m \in I : \A v \in I : m <= v
    <3> HIDE DEF I
    <3>1. QED BY <1>3, <1>5, MinIsThere
  <2>2. m # 0 /\ m \in 0 .. n
    BY <1>1, <2>1
  <2>3. m - 1 \in 0 .. n - 1 /\ m - 1 \notin I
    BY <2>1, <2>2
  <2>4. Good(m - 1)
    BY <2>3
  <2>5. Good((m - 1) + 1)
    BY <1>2, <2>3, <2>4
  <2>6. QED BY <2>1, <2>2, <2>5
<1>6. QED BY <1>4, <1>5

\* An invariant of the prefixes of a fold.
LEMMA FoldLands ==
  ASSUME NEW A, NEW n \in Nat, NEW iter, iter[{}] \in A,
         \A m \in 1 .. n : iter[1 .. (m - 1)] \in A => iter[1 .. m] \in A
  PROVE  iter[1 .. n] \in A
<1> DEFINE I == {m \in 0 .. n : iter[1 .. m] \notin A}
<1>1. 0 \notin I
  BY 1 .. 0 = {}
<1>2. I \in SUBSET Nat
  OBVIOUS
<1>3. CASE I # {}
  <2>1. PICK m \in I : \A v \in I : m <= v
    <3> HIDE DEF I
    <3>1. QED BY <1>2, <1>3, MinIsThere
  <2>2. m \in 1 .. n
    BY <1>1, <2>1
  <2>3. m - 1 \notin I /\ m - 1 \in 0 .. n
    BY <2>1, <2>2
  <2>4. QED BY <2>1, <2>2, <2>3
<1>4. QED BY <1>3

\* An invariant of the prefixes of a fold that says of each what it is.
LEMMA FoldPasses ==
  ASSUME NEW A, NEW n \in Nat, NEW iter, iter[{}] \in A[0],
         \A m \in 1 .. n : iter[1 .. (m - 1)] \in A[m - 1] => iter[1 .. m] \in A[m]
  PROVE  iter[1 .. n] \in A[n]
<1> DEFINE I == {m \in 0 .. n : iter[1 .. m] \notin A[m]}
<1>1. 0 \notin I
  BY 1 .. 0 = {}
<1>2. I \in SUBSET Nat
  OBVIOUS
<1>3. CASE I # {}
  <2>1. PICK m \in I : \A v \in I : m <= v
    <3> HIDE DEF I
    <3>1. QED BY <1>2, <1>3, MinIsThere
  <2>2. m \in 1 .. n
    BY <1>1, <2>1
  <2>3. m - 1 \notin I /\ m - 1 \in 0 .. n
    BY <2>1, <2>2
  <2>4. QED BY <2>1, <2>2, <2>3
<1>4. QED BY <1>3

(* ---- the sort of spans ------------------------------------------------ *)
Earlier(windows, j) ==
  {i \in DOMAIN windows : \/ windows[i].from < windows[j].from
                          \/ windows[i].from = windows[j].from /\ i <= j}

\* Ranks are places, no two places have the same, and what starts earlier
\* ranks lower.
LEMMA RankIs ==
  ASSUME NEW S, NEW windows \in Seq(S), \A i \in DOMAIN windows : windows[i].from \in Int
  PROVE  /\ \A j \in DOMAIN windows : Rank(windows, j) \in DOMAIN windows
         /\ \A i, j \in DOMAIN windows : Rank(windows, i) = Rank(windows, j) => i = j
         /\ \A i, j \in DOMAIN windows :
              windows[i].from < windows[j].from => Rank(windows, i) < Rank(windows, j)
<1> DEFINE n == Len(windows)
<1>1. n \in Nat /\ DOMAIN windows = 1 .. n
  OBVIOUS
<1> HIDE DEF n
<1>2. IsFiniteSet(1 .. n) /\ Cardinality(1 .. n) = n
  <2>1. IsFiniteSet(1 .. n) /\ Cardinality(1 .. n) = IF 1 > n THEN 0 ELSE n - 1 + 1
    BY <1>1, FS_Interval
  <2>2. QED BY <1>1, <2>1
<1>3. \A j \in 1 .. n : Rank(windows, j) = Cardinality(Earlier(windows, j))
  BY <1>1 DEF Rank, Earlier
<1>4. \A j \in 1 .. n : Earlier(windows, j) \in SUBSET (1 .. n) /\ j \in Earlier(windows, j)
  BY <1>1 DEF Earlier
<1>5. ASSUME NEW j \in 1 .. n PROVE Rank(windows, j) \in 1 .. n
  <2>1. IsFiniteSet(Earlier(windows, j)) /\ Cardinality(Earlier(windows, j)) <= n
    BY <1>2, <1>4, FS_Subset
  <2>2. Cardinality(Earlier(windows, j)) \in Nat
    BY <2>1, FS_CardinalityType
  <2>3. Cardinality(Earlier(windows, j)) # 0
    BY <1>4, <2>1, FS_EmptySet
  <2>4. QED BY <1>1, <1>3, <2>1, <2>2, <2>3
<1>6. ASSUME NEW i \in 1 .. n, NEW j \in 1 .. n,
             \/ windows[i].from < windows[j].from
             \/ windows[i].from = windows[j].from /\ i < j
      PROVE  Rank(windows, i) < Rank(windows, j)
  <2>1. Earlier(windows, i) \in SUBSET Earlier(windows, j) /\ j \notin Earlier(windows, i)
    BY <1>1, <1>6 DEF Earlier
  <2>2. IsFiniteSet(Earlier(windows, j))
    BY <1>2, <1>4, FS_Subset
  <2>3. Earlier(windows, i) # Earlier(windows, j)
    BY <1>4, <2>1
  <2>4. /\ Cardinality(Earlier(windows, i)) <= Cardinality(Earlier(windows, j))
        /\ Cardinality(Earlier(windows, i)) # Cardinality(Earlier(windows, j))
        /\ IsFiniteSet(Earlier(windows, i))
    BY <2>1, <2>2, <2>3, FS_Subset
  <2>5. /\ Cardinality(Earlier(windows, i)) \in Nat
        /\ Cardinality(Earlier(windows, j)) \in Nat
    BY <2>2, <2>4, FS_CardinalityType
  <2>6. QED BY <1>3, <2>4, <2>5
<1>7. ASSUME NEW i \in 1 .. n, NEW j \in 1 .. n, Rank(windows, i) = Rank(windows, j)
      PROVE  i = j
  <2>1. windows[i].from \in Int /\ windows[j].from \in Int
    BY <1>1
  <2>2. Rank(windows, i) \in Nat
    BY <1>5
  <2>3. /\ ~(windows[i].from < windows[j].from) /\ ~(windows[j].from < windows[i].from)
        /\ windows[i].from = windows[j].from => ~(i < j) /\ ~(j < i)
    BY <1>6, <1>7, <2>2
  <2>4. windows[i].from = windows[j].from
    BY <2>1, <2>3
  <2>5. QED BY <2>3, <2>4
<1>8. \A i, j \in 1 .. n :
        windows[i].from < windows[j].from => Rank(windows, i) < Rank(windows, j)
  BY <1>6
<1>9. QED BY <1>1, <1>5, <1>7, <1>8

\* A sorted list has the elements of the list, in the order of their starts.
LEMMA ByStartIs ==
  ASSUME NEW S, NEW windows \in Seq(S), \A i \in DOMAIN windows : windows[i].from \in Int
  PROVE  /\ DOMAIN ByStart(windows) = DOMAIN windows
         /\ \A m \in DOMAIN windows : \E j \in DOMAIN windows : ByStart(windows)[m] = windows[j]
         /\ \A j \in DOMAIN windows : \E m \in DOMAIN windows : ByStart(windows)[m] = windows[j]
         /\ \A m \in 2 .. Len(windows) : ByStart(windows)[m - 1].from <= ByStart(windows)[m].from
<1>1. CASE InOrder(windows)
  BY <1>1 DEF ByStart, InOrder
<1>2. CASE ~InOrder(windows)
  <2> DEFINE n == Len(windows)
             f == [j \in 1 .. n |-> Rank(windows, j)]
  <2>1. n \in Nat /\ DOMAIN windows = 1 .. n
    OBVIOUS
  <2>2. IsFiniteSet(1 .. n)
    BY <2>1, FS_Interval
  <2>3. f \in [1 .. n -> 1 .. n] /\ \A i, j \in 1 .. n : f[i] = f[j] => i = j
    BY <2>1, RankIs
  <2>4. \A j \in 1 .. n : f[j] = Rank(windows, j)
    OBVIOUS
  <2> HIDE DEF n, f
  <2>5. f \in Injection(1 .. n, 1 .. n)
    BY <2>3 DEF Injection, IsInjective
  <2>6. f \in Surjection(1 .. n, 1 .. n)
    BY <2>2, <2>5, FS_Injection
  <2>7. \A m \in 1 .. n : \E j \in 1 .. n : Rank(windows, j) = m
    BY <2>4, <2>6 DEF Surjection
  <2>8. PICK at : at = [m \in 1 .. n |-> CHOOSE j \in 1 .. n : Rank(windows, j) = m]
    OBVIOUS
  <2>9. \A m \in 1 .. n : at[m] \in 1 .. n /\ Rank(windows, at[m]) = m
    BY <2>7, <2>8
  <2>10. /\ DOMAIN ByStart(windows) = 1 .. n
         /\ \A m \in 1 .. n : ByStart(windows)[m] = windows[at[m]]
    <3>1. ByStart(windows)
            = [m \in 1 .. n |-> windows[CHOOSE j \in 1 .. n : Rank(windows, j) = m]]
      BY <1>2, <2>1 DEF ByStart
    <3>2. QED BY <2>8, <3>1
  <2>11. ASSUME NEW j \in 1 .. n
         PROVE  \E m \in 1 .. n : ByStart(windows)[m] = windows[j]
    <3>1. PICK m \in 1 .. n : m = Rank(windows, j)
      BY <2>1, RankIs
    <3>2. at[m] = j
      BY <2>1, <2>9, <3>1, RankIs
    <3>3. QED BY <2>10, <3>2
  <2>12. ASSUME NEW m \in 2 .. n
         PROVE  ByStart(windows)[m - 1].from <= ByStart(windows)[m].from
    <3>1. m - 1 \in 1 .. n /\ m \in 1 .. n
      BY <2>1
    <3>2. PICK i \in 1 .. n : i = at[m - 1] /\ Rank(windows, i) = m - 1
      BY <2>9, <3>1
    <3>3. PICK j \in 1 .. n : j = at[m] /\ Rank(windows, j) = m
      BY <2>9, <3>1
    <3>4. ~(windows[j].from < windows[i].from)
      <4>1. windows[j].from < windows[i].from => Rank(windows, j) < Rank(windows, i)
        BY <2>1, RankIs
      <4>2. QED BY <3>1, <3>2, <3>3, <4>1
    <3>5. windows[i].from \in Int /\ windows[j].from \in Int
      BY <2>1
    <3>6. QED BY <2>10, <3>1, <3>2, <3>3, <3>4, <3>5
  <2>13. QED BY <2>1, <2>9, <2>10, <2>11, <2>12 DEF n
<1>3. QED BY <1>1, <1>2

(* ---- the spans that are joined, and the walk over them ---------------- *)
Spanning == [from : Int, to : Int]
\* A second that a span of a list reaches.
Hit(spans, t) == \E i \in DOMAIN spans : spans[i].from <= t /\ t <= spans[i].to
\* Spans every second of which the list reaches.
Within(spans) == {v \in Spanning : \A t \in v.from .. v.to : Hit(spans, t)}

\* What JoinedSpans folds.
AbsorbSpan(done, s) ==
  IF done # <<>> /\ s.from <= Last(done).to + 1
  THEN Front(done) \o <<[Last(done) EXCEPT !.to = Larger(@, s.to)]>>
  ELSE Append(done, s)

\* A span that is absorbed or appended leaves no second unreached.
LEMMA AbsorbKeeps ==
  ASSUME NEW spans, NEW done \in Seq(Within(spans)), NEW s \in Within(spans)
  PROVE  AbsorbSpan(done, s) \in Seq(Within(spans))
<1>1. CASE done # <<>> /\ s.from <= Last(done).to + 1
  <2>1. PICK n \in Nat : n = Len(done) /\ n > 0 /\ Last(done) = done[n] /\ Front(done) = SubSeq(done, 1, n - 1)
    BY <1>1 DEF Last, Front
  <2>2. done[n] \in Within(spans) /\ SubSeq(done, 1, n - 1) \in Seq(Within(spans))
    BY <2>1
  <2>3. PICK v : v = done[n]
    OBVIOUS
  <2>4. /\ v.from \in Int /\ v.to \in Int /\ s.from \in Int /\ s.to \in Int
        /\ v \in Spanning /\ s.from <= v.to + 1
        /\ \A t \in v.from .. v.to : Hit(spans, t)
        /\ \A t \in s.from .. s.to : Hit(spans, t)
    BY <1>1, <2>1, <2>2, <2>3 DEF Within, Spanning
  <2>5. PICK high \in Int : /\ high = Larger(v.to, s.to)
                            /\ high = v.to \/ high = s.to
    BY <2>4 DEF Larger
  <2>6. [v EXCEPT !.to = high] = [from |-> v.from, to |-> high]
    BY <2>4 DEF Spanning
  <2>7. \A t \in v.from .. high : t \in v.from .. v.to \/ t \in s.from .. s.to
    BY <2>4, <2>5
  <2>8. [from |-> v.from, to |-> high] \in Within(spans)
    <3>1. \A t \in v.from .. high : Hit(spans, t)
      BY <2>4, <2>7
    <3>2. [from |-> v.from, to |-> high] \in Spanning
      BY <2>4 DEF Spanning
    <3>3. QED BY <3>1, <3>2 DEF Within
  <2>9. AbsorbSpan(done, s) = SubSeq(done, 1, n - 1) \o <<[from |-> v.from, to |-> high]>>
    BY <1>1, <2>1, <2>3, <2>5, <2>6 DEF AbsorbSpan
  <2>10. QED BY <2>2, <2>8, <2>9
<1>2. CASE ~(done # <<>> /\ s.from <= Last(done).to + 1)
  BY <1>2 DEF AbsorbSpan
<1>3. QED BY <1>1, <1>2

\* The places up to one.
LEMMA PrefixIs ==
  ASSUME NEW n \in Nat, NEW m \in 1 .. n
  PROVE  /\ 1 .. m \in SUBSET (1 .. n) /\ 1 .. m # {} /\ Max(1 .. m) = m
         /\ (1 .. m) \ {m} = 1 .. (m - 1)
<1>1. 1 .. m \in SUBSET (1 .. n) /\ m \in 1 .. m /\ (1 .. m) \ {m} = 1 .. (m - 1)
  OBVIOUS
<1>2. PICK s : s = 1 .. m
  OBVIOUS
<1>3. Max(s) \in s /\ \A x \in s : x <= Max(s)
  BY <1>1, <1>2, MaxIsThere
<1>4. Max(s) = m
  BY <1>1, <1>2, <1>3
<1>5. QED BY <1>1, <1>2, <1>4

\* Joining reaches no second that no span reaches.
LEMMA JoinedSpansWithin ==
  ASSUME NEW spans \in Seq(Spanning)
  PROVE  JoinedSpans(spans) \in Seq(Within(spans))
<1> DEFINE A == Seq(Within(spans))
           sorted == ByStart(spans)
           n == Len(spans)
           step == [p \in A \X (1 .. n) |-> AbsorbSpan(p[1], sorted[p[2]])]
           Folds(h) == h = [s \in SUBSET (1 .. n) |->
                              IF s = {} THEN <<>>
                              ELSE AbsorbSpan(h[s \ {Max(s)}], sorted[Max(s)])]
<1>1. n \in Nat /\ DOMAIN spans = 1 .. n /\ \A i \in 1 .. n : spans[i] \in Spanning
  OBVIOUS
<1>2. \A i \in 1 .. n : spans[i].from \in Int /\ spans[i] \in Within(spans)
  <2> TAKE i \in 1 .. n
  <2>1. spans[i].from \in Int /\ spans[i].to \in Int
    BY <1>1 DEF Spanning
  <2>2. \A t \in spans[i].from .. spans[i].to : Hit(spans, t)
    BY <1>1, <2>1 DEF Hit
  <2>3. QED BY <1>1, <2>1, <2>2 DEF Within
<1>3. DOMAIN sorted = 1 .. n /\ \A m \in 1 .. n : sorted[m] \in Within(spans)
  BY <1>1, <1>2, ByStartIs
<1>4. JoinedSpans(spans) = (CHOOSE h : Folds(h))[1 .. n]
  BY <1>3 DEF JoinedSpans, FoldLeft, MapThenFoldSet, AbsorbSpan
<1>5. <<>> \in A /\ \A x \in A, m \in 1 .. n : AbsorbSpan(x, sorted[m]) \in A
  BY <1>3, AbsorbKeeps
<1> HIDE DEF A, sorted, n
<1>6. step \in [A \X (1 .. n) -> A]
  BY <1>5
<1>7. \A x \in A, m \in 1 .. n : step[x, m] = AbsorbSpan(x, sorted[m])
  OBVIOUS
<1> HIDE DEF step
<1>8. \E h : Folds(h)
  <2>1. PICK h \in [SUBSET (1 .. n) -> A] : FoldsWith(h, n, <<>>, step)
    BY <1>1, <1>5, <1>6, FoldExists
  <2>2. ASSUME NEW s \in SUBSET (1 .. n), s # {}
        PROVE  h[s] = AbsorbSpan(h[s \ {Max(s)}], sorted[Max(s)])
    <3>1. Max(s) \in 1 .. n /\ s \ {Max(s)} \in SUBSET (1 .. n)
      BY <1>1, <2>2, MaxIsThere
    <3>2. h[s] = step[h[s \ {Max(s)}], Max(s)] /\ h[s \ {Max(s)}] \in A
      BY <2>1, <2>2, <3>1 DEF FoldsWith
    <3>3. QED BY <1>7, <3>1, <3>2
  <2>3. h[{}] = <<>>
    BY <2>1 DEF FoldsWith
  <2>4. Folds(h)
    BY <2>1, <2>2, <2>3
  <2>5. QED BY <2>4
<1>9. PICK h : h = CHOOSE g : Folds(g)
  OBVIOUS
<1>10. Folds(h)
  BY <1>8, <1>9
<1>11. h[{}] = <<>>
  BY <1>10
<1>12. ASSUME NEW m \in 1 .. n, h[1 .. (m - 1)] \in A
       PROVE  h[1 .. m] \in A
  <2>1. h[1 .. m] = AbsorbSpan(h[(1 .. m) \ {Max(1 .. m)}], sorted[Max(1 .. m)])
    BY <1>1, <1>10, PrefixIs
  <2>2. h[1 .. m] = AbsorbSpan(h[1 .. (m - 1)], sorted[m])
    BY <1>1, <2>1, PrefixIs
  <2>3. QED BY <1>5, <1>12, <2>2
<1>13. h[1 .. n] \in A
  BY <1>1, <1>5, <1>11, <1>12, FoldLands
<1>14. QED BY <1>4, <1>9, <1>13 DEF A

\* What SpanReach folds: the walk over the joined spans.
Advanced(cursor, s) == IF s.to >= cursor /\ s.from <= cursor THEN s.to + 1 ELSE cursor

\* Up to where the walk comes, some span reaches every second.
LEMMA ReachIsHit ==
  ASSUME NEW spans \in Seq(Spanning), NEW from \in Int
  PROVE  /\ SpanReach(spans, from) \in Int
         /\ \A t \in from .. (SpanReach(spans, from) - 1) : Hit(spans, t)
<1> DEFINE A == {c \in Int : \A t \in from .. (c - 1) : Hit(spans, t)}
           joined == JoinedSpans(spans)
           n == Len(joined)
           step == [p \in A \X (1 .. n) |-> Advanced(p[1], joined[p[2]])]
           Folds(h) == h = [s \in SUBSET (1 .. n) |->
                              IF s = {} THEN from
                              ELSE Advanced(h[s \ {Max(s)}], joined[Max(s)])]
<1>1. joined \in Seq(Within(spans))
  BY JoinedSpansWithin
<1> HIDE DEF joined
<1>2. n \in Nat /\ DOMAIN joined = 1 .. n /\ \A m \in 1 .. n : joined[m] \in Within(spans)
  BY <1>1
<1>3. SpanReach(spans, from) = (CHOOSE h : Folds(h))[1 .. n]
  BY <1>2 DEF SpanReach, FoldLeft, MapThenFoldSet, Advanced, joined
<1>4. from \in A
  OBVIOUS
<1>5. ASSUME NEW c \in A, NEW s \in Within(spans) PROVE Advanced(c, s) \in A
  <2>1. /\ c \in Int /\ s.from \in Int /\ s.to \in Int
        /\ \A t \in from .. (c - 1) : Hit(spans, t)
        /\ \A t \in s.from .. s.to : Hit(spans, t)
    BY DEF Within, Spanning
  <2>2. CASE s.to >= c /\ s.from <= c
    <3>1. \A t \in from .. ((s.to + 1) - 1) : t \in from .. (c - 1) \/ t \in s.from .. s.to
      BY <2>1, <2>2
    <3>2. \A t \in from .. ((s.to + 1) - 1) : Hit(spans, t)
      BY <2>1, <3>1
    <3>3. QED BY <2>1, <2>2, <3>2 DEF Advanced
  <2>3. CASE ~(s.to >= c /\ s.from <= c)
    BY <2>3 DEF Advanced
  <2>4. QED BY <2>2, <2>3
<1> HIDE DEF A, n
<1>6. \A x \in A, m \in 1 .. n : Advanced(x, joined[m]) \in A
  BY <1>2, <1>5
<1>7. step \in [A \X (1 .. n) -> A]
  BY <1>6
<1>8. \A x \in A, m \in 1 .. n : step[x, m] = Advanced(x, joined[m])
  OBVIOUS
<1> HIDE DEF step
<1>9. \E h : Folds(h)
  <2>1. PICK h \in [SUBSET (1 .. n) -> A] : FoldsWith(h, n, from, step)
    BY <1>2, <1>4, <1>7, FoldExists
  <2>2. ASSUME NEW s \in SUBSET (1 .. n), s # {}
        PROVE  h[s] = Advanced(h[s \ {Max(s)}], joined[Max(s)])
    <3>1. Max(s) \in 1 .. n /\ s \ {Max(s)} \in SUBSET (1 .. n)
      BY <1>2, <2>2, MaxIsThere
    <3>2. h[s] = step[h[s \ {Max(s)}], Max(s)] /\ h[s \ {Max(s)}] \in A
      BY <2>1, <2>2, <3>1 DEF FoldsWith
    <3>3. QED BY <1>8, <3>1, <3>2
  <2>3. h[{}] = from
    BY <2>1 DEF FoldsWith
  <2>4. Folds(h)
    BY <2>1, <2>2, <2>3
  <2>5. QED BY <2>4
<1>10. PICK h : h = CHOOSE g : Folds(g)
  OBVIOUS
<1>11. Folds(h)
  BY <1>9, <1>10
<1>12. h[{}] = from
  BY <1>11
<1>13. ASSUME NEW m \in 1 .. n, h[1 .. (m - 1)] \in A
       PROVE  h[1 .. m] \in A
  <2>1. h[1 .. m] = Advanced(h[(1 .. m) \ {Max(1 .. m)}], joined[Max(1 .. m)])
    BY <1>2, <1>11, PrefixIs
  <2>2. h[1 .. m] = Advanced(h[1 .. (m - 1)], joined[m])
    BY <1>2, <2>1, PrefixIs
  <2>3. QED BY <1>6, <1>13, <2>2
<1>14. h[1 .. n] \in A
  BY <1>2, <1>4, <1>12, <1>13, FoldLands
<1>15. QED BY <1>3, <1>10, <1>14 DEF A

(***************************************************************************)
(* Lemmas about searches and the capped lists.                              *)
(***************************************************************************)

LEMMA KeyPlace ==
  ASSUME NEW S, NEW keys \in Seq(S), NEW key
  PROVE  PlaceOfKey(keys, key) \in 0 .. Len(keys)
<1> DEFINE I == {i \in 1 .. Len(keys) : keys[i] = key}
           place == PlaceOfKey(keys, key)
<1>1. place = IF I # {} THEN Min(I) ELSE 0
  BY DEF PlaceOfKey, SelectInSeq
<1>2. I \in SUBSET Nat /\ (\A i \in I : i \in 1 .. Len(keys)) /\ Len(keys) \in Nat
  OBVIOUS
<1> HIDE DEF I, place
<1>3. I # {} => Min(I) \in 1 .. Len(keys)
  BY <1>2, MinIsThere
<1>4. QED BY <1>1, <1>2, <1>3 DEF place

LEMMA BundlePlace ==
  ASSUME NEW S, NEW list \in Seq(S), NEW w
  PROVE  PlaceOfBundle(list, w) \in 0 .. Len(list)
<1> DEFINE I == {i \in 1 .. Len(list) : list[i].window = w}
           place == PlaceOfBundle(list, w)
<1>1. place = IF I # {} THEN Min(I) ELSE 0
  BY DEF PlaceOfBundle, SelectInSeq
<1>2. I \in SUBSET Nat /\ (\A i \in I : i \in 1 .. Len(list)) /\ Len(list) \in Nat
  OBVIOUS
<1> HIDE DEF I, place
<1>3. I # {} => Min(I) \in 1 .. Len(list)
  BY <1>2, MinIsThere
<1>4. QED BY <1>1, <1>2, <1>3 DEF place

\* The first chunk with an event of a time has one.
LEMMA FirstIsThere ==
  ASSUME NEW S, NEW store \in Seq(S), NEW t,
         \E i \in DOMAIN store : t \in DOMAIN store[i].events
  PROVE  /\ FirstWith(store, t) \in DOMAIN store
         /\ t \in DOMAIN store[FirstWith(store, t)].events
<1> DEFINE I == {i \in 1 .. Len(store) : t \in DOMAIN store[i].events}
           first == FirstWith(store, t)
<1>1. first = IF I # {} THEN Min(I) ELSE 0
  BY DEF FirstWith, SelectInSeq
<1>2. I \in SUBSET Nat /\ I # {} /\ DOMAIN store = 1 .. Len(store)
  OBVIOUS
<1>3. \A i \in I : i \in DOMAIN store /\ t \in DOMAIN store[i].events
  BY <1>2
<1> HIDE DEF I, first
<1>4. first \in I
  BY <1>1, <1>2, MinIsThere
<1>5. QED BY <1>3, <1>4 DEF first

\* What is kept of a list is of the list, and no more than its cap.
LEMMA NewestIs ==
  ASSUME NEW S, NEW list \in Seq(S), NEW cap \in Nat \ {0}
  PROVE  Newest(list, cap) \in Seq(S) /\ Len(Newest(list, cap)) <= cap
<1>1. Len(list) \in Nat
  OBVIOUS
<1>2. CASE Len(list) > cap
  <2>1. SubSeq(list, Len(list) - cap + 1, Len(list)) \in Seq(S)
    BY <1>1, <1>2
  <2>2. Len(SubSeq(list, Len(list) - cap + 1, Len(list))) = cap
    BY <1>1, <1>2
  <2>3. QED BY <1>2, <2>1, <2>2 DEF Newest
<1>3. CASE ~ (Len(list) > cap)
  BY <1>1, <1>3 DEF Newest
<1>4. QED BY <1>2, <1>3

LEMMA WithoutIs ==
  ASSUME NEW S, NEW list \in Seq(S), NEW place \in 0 .. Len(list)
  PROVE  Without(list, place) \in Seq(S)
<1>1. CASE place = 0
  BY <1>1 DEF Without
<1>2. CASE place # 0
  <2>1. SubSeq(list, 1, place - 1) \in Seq(S) /\ SubSeq(list, place + 1, Len(list)) \in Seq(S)
    BY <1>2
  <2>2. QED BY <1>2, <2>1 DEF Without, RemoveAt
<1>3. QED BY <1>1, <1>2

LEMMA TouchedIs ==
  ASSUME NEW S, NEW keys \in Seq(S), NEW key \in S, NEW cap \in Nat \ {0}
  PROVE  TouchedKey(keys, key, cap) \in Seq(S) /\ Len(TouchedKey(keys, key, cap)) <= cap
<1>1. Without(keys, PlaceOfKey(keys, key)) \in Seq(S)
  BY KeyPlace, WithoutIs
<1>2. Append(Without(keys, PlaceOfKey(keys, key)), key) \in Seq(S)
  BY <1>1
<1>3. QED BY <1>2, NewestIs DEF TouchedKey

LEMMA PutIs ==
  ASSUME NEW S, NEW list \in Seq(S), NEW w, NEW bundle, [window |-> w, bundle |-> bundle] \in S,
         NEW cap \in Nat \ {0}
  PROVE  /\ PutBundle(list, w, bundle, cap) \in Seq(S)
         /\ Len(PutBundle(list, w, bundle, cap)) <= cap
<1>1. Without(list, PlaceOfBundle(list, w)) \in Seq(S)
  BY BundlePlace, WithoutIs
<1>2. Append(Without(list, PlaceOfBundle(list, w)), [window |-> w, bundle |-> bundle]) \in Seq(S)
  BY <1>1
<1>3. QED BY <1>2, NewestIs DEF PutBundle

LEMMA KeptIs ==
  ASSUME NEW S, NEW store \in Seq(S), NEW chunk \in S, NEW cap \in Nat \ {0}
  PROVE  Kept(store, chunk, cap) \in Seq(S) /\ Len(Kept(store, chunk, cap)) <= cap
<1>1. Append(store, chunk) \in Seq(S)
  OBVIOUS
<1>2. Kept(store, chunk, cap) = Newest(Append(store, chunk), cap)
  BY DEF Kept, Newest
<1>3. QED BY <1>1, <1>2, NewestIs

(***************************************************************************)
(* The parts of the invariant.                                              *)
(***************************************************************************)

Views == [window : Windows \cup {None}, intent : Windows \cup {None}, panning : BOOLEAN,
          booted : BOOLEAN, setting : Settings]

ViewOk == /\ view \in Views /\ due \in BOOLEAN /\ epoch \in 1 .. MaxEpoch
          /\ gen \in 0 .. Generations - 1
          /\ result \in {None, "applied", "deferred", "blocked"}

LedgerOk(l) == l \in Ledgers /\ Len(l.merged) <= MaxKeys

\* Bundles of one epoch, in the display cache, the session cache and the lanes.
BundlesOf(e) == {b \in Bundles : IsOf(b, e)}
FullBundlesOf(e) == {b \in BundlesOf(e) : DOMAIN b # {}}
ChunksOf(e) == {ChunkOf(NoSpan, b) : b \in FullBundlesOf(e)}
VisitsOf(e) == {v \in [window : Windows, bundle : BundlesOf(e)] :
                  DOMAIN v.bundle \subseteq BarTimes(v.window)}
StoreOk(store, e) == store \in Seq(ChunksOf(e)) /\ Len(store) <= MaxChunks
SessionOk(visits, e) == visits \in Seq(VisitsOf(e)) /\ Len(visits) <= MaxBundles
LanesOk(l, e) ==
  /\ l \in Lanes
  /\ l.bundle # None => IsOf(l.bundle, e)
  /\ l.bundle # None /\ l.window # None => DOMAIN l.bundle \subseteq BarTimes(l.window)
DrawnOk(d, e) ==
  /\ d = [events |-> d.events, status |-> d.status, stale |-> d.stale, input |-> d.input]
  /\ \A ev \in d.events : ev.epoch = e

\* A cycle asks for bars of its window, and found lanes of its epoch.
CycleOk(c) ==
  /\ c \in Cycles
  /\ c.window.from <= c.range.from /\ c.range.to <= c.window.to
  /\ c.snapshot.bundle # None => IsOf(c.snapshot.bundle, c.epoch)

\* A request in flight is one of the cycle that waits or of the one just aborted.
Under == {cycle, aborted} \ {None}
Owned == \A k \in DOMAIN ledger.inFlight :
           \E c \in Under : k \in KeysOf(c) /\ ledger.inFlight[k] = c.gen

\* A cycle that could still be answered asked in this epoch.
Current ==
  /\ cycle # None
  /\ \/ aborted # None \/ DOMAIN ledger.inFlight # {}
     \/ ~ChartEvents /\ cycle.stage = "display"
  => cycle.epoch = epoch

TraceInv ==
  /\ ViewOk /\ LedgerOk(ledger)
  /\ StoreOk(chunks, epoch) /\ SessionOk(session, epoch) /\ LanesOk(lanes, epoch)
  /\ DrawnOk(display, epoch)
  /\ \A c \in Under : CycleOk(c)
  /\ Owned /\ Current

Caps == /\ MaxChunks \in Nat \ {0} /\ MaxBundles \in Nat \ {0} /\ MaxKeys \in Nat \ {0}
        /\ MaxEpoch \in Nat \ {0} /\ Generations \in Nat /\ Generations > 3 /\ Step \in Nat \ {0}

LEMMA CapsAre == Caps
  BY TraceAssumption, StepAssumption DEF TraceAssumption, StepAssumption, Caps

LEMMA WindowIs ==
  ASSUME NEW w \in Windows
  PROVE  /\ w.from \in Nat /\ w.to \in Nat /\ w.from <= w.to
         /\ w.from \in Bars /\ w.to \in Bars
         /\ \A b \in w.from .. w.to : b \in Bars
         /\ w \in Ranges /\ w = [from |-> w.from, to |-> w.to]
<1>1. /\ w \in [from : Nat, to : Nat] /\ w.from <= w.to
  BY TraceAssumption DEF TraceAssumption
<1>2. \A b \in w.from .. w.to : b \in Bars
  BY DEF Bars
<1>3. w.from \in w.from .. w.to /\ w.to \in w.from .. w.to
  BY <1>1
<1>4. QED BY <1>1, <1>2, <1>3 DEF Ranges

(* ---- the ledger of requests ------------------------------------------ *)
LEMMA MarksAre ==
  ASSUME NEW f
  PROVE  f \in Marks <=> /\ f = [k \in DOMAIN f |-> f[k]]
                         /\ \A k \in DOMAIN f : k \in Keys /\ f[k] \in 0 .. Generations - 1
<1>1. ASSUME f \in Marks
      PROVE  /\ f = [k \in DOMAIN f |-> f[k]]
             /\ \A k \in DOMAIN f : k \in Keys /\ f[k] \in 0 .. Generations - 1
  BY <1>1 DEF Marks
<1>2. ASSUME f = [k \in DOMAIN f |-> f[k]],
             \A k \in DOMAIN f : k \in Keys /\ f[k] \in 0 .. Generations - 1
      PROVE  f \in Marks
  <2>1. f \in [DOMAIN f -> 0 .. Generations - 1] /\ DOMAIN f \in SUBSET Keys
    BY <1>2
  <2>2. QED BY <2>1 DEF Marks
<1>3. QED BY <1>1, <1>2

\* Ledger m has in flight what l has, and a key for generation g.
WithMark(m, l, key, g) ==
  /\ LedgerOk(m)
  /\ DOMAIN m.inFlight = {key} \cup DOMAIN l.inFlight
  /\ \A k \in DOMAIN m.inFlight : m.inFlight[k] = IF k = key THEN g ELSE l.inFlight[k]

LEMMA InFlightMarked ==
  ASSUME NEW l, LedgerOk(l), NEW key \in Keys, NEW g \in 0 .. Generations - 1
  PROVE  WithMark(MarkedInFlight(l, {key}, g), l, key, g)
<1> DEFINE f == [k \in {key} \cup DOMAIN l.inFlight |-> IF k \in {key} THEN g ELSE l.inFlight[k]]
<1>1. MarkedInFlight(l, {key}, g) = [l EXCEPT !.inFlight = f]
  BY DEF MarkedInFlight
<1>2. l \in Ledgers /\ Len(l.merged) <= MaxKeys
  BY DEF LedgerOk
<1>3. f \in Marks
  <2>1. \A k \in DOMAIN l.inFlight : k \in Keys /\ l.inFlight[k] \in 0 .. Generations - 1
    BY <1>2, MarksAre DEF Ledgers
  <2>2. \A k \in DOMAIN f : k \in Keys /\ f[k] \in 0 .. Generations - 1
    BY <2>1
  <2>3. f = [k \in DOMAIN f |-> f[k]]
    OBVIOUS
  <2> HIDE DEF f
  <2>4. QED BY <2>2, <2>3, MarksAre
<1>4. /\ DOMAIN f = {key} \cup DOMAIN l.inFlight
      /\ \A k \in {key} \cup DOMAIN l.inFlight : f[k] = IF k = key THEN g ELSE l.inFlight[k]
  OBVIOUS
<1> HIDE DEF f
<1>5. [l EXCEPT !.inFlight = f].inFlight = f /\ LedgerOk([l EXCEPT !.inFlight = f])
  BY <1>2, <1>3 DEF Ledgers, LedgerOk
<1>6. QED BY <1>1, <1>4, <1>5 DEF WithMark

LEMMA ClearedIs ==
  ASSUME NEW l, LedgerOk(l), NEW keys, NEW g
  PROVE  /\ LedgerOk(Cleared(l, keys, g))
         /\ DOMAIN Cleared(l, keys, g).inFlight
              = {k \in DOMAIN l.inFlight : ~ (k \in keys /\ l.inFlight[k] = g)}
         /\ \A k \in DOMAIN Cleared(l, keys, g).inFlight :
              Cleared(l, keys, g).inFlight[k] = l.inFlight[k]
<1> DEFINE D == {k \in DOMAIN l.inFlight : ~ (k \in keys /\ l.inFlight[k] = g)}
           f == [k \in D |-> l.inFlight[k]]
<1>1. Cleared(l, keys, g) = [l EXCEPT !.inFlight = f]
  BY DEF Cleared
<1>2. l \in Ledgers /\ Len(l.merged) <= MaxKeys
  BY DEF LedgerOk
<1>3. f \in Marks
  <2>1. \A k \in DOMAIN l.inFlight : k \in Keys /\ l.inFlight[k] \in 0 .. Generations - 1
    BY <1>2, MarksAre DEF Ledgers
  <2>2. \A k \in DOMAIN f : k \in Keys /\ f[k] \in 0 .. Generations - 1
    BY <2>1
  <2>3. f = [k \in DOMAIN f |-> f[k]]
    OBVIOUS
  <2> HIDE DEF f
  <2>4. QED BY <2>2, <2>3, MarksAre
<1>4. DOMAIN f = D /\ \A k \in D : f[k] = l.inFlight[k]
  OBVIOUS
<1> HIDE DEF f
<1>5. [l EXCEPT !.inFlight = f].inFlight = f /\ LedgerOk([l EXCEPT !.inFlight = f])
  BY <1>2, <1>3 DEF Ledgers, LedgerOk
<1>6. QED BY <1>1, <1>4, <1>5

LEMMA MergedIs ==
  ASSUME NEW l, LedgerOk(l), NEW key \in Keys
  PROVE  LedgerOk(MarkedMerged(l, key)) /\ MarkedMerged(l, key).inFlight = l.inFlight
<1>1. l \in Ledgers /\ l.merged \in Seq(Keys) /\ MaxKeys \in Nat \ {0}
  BY CapsAre DEF LedgerOk, Ledgers, Caps
<1>2. /\ TouchedKey(l.merged, key, MaxKeys) \in Seq(Keys)
      /\ Len(TouchedKey(l.merged, key, MaxKeys)) <= MaxKeys
  BY <1>1, TouchedIs
<1>3. MarkedMerged(l, key) = [l EXCEPT !.failed = l.failed \ {key},
                                       !.merged = TouchedKey(l.merged, key, MaxKeys)]
  BY DEF MarkedMerged
<1>4. QED BY <1>1, <1>2, <1>3 DEF LedgerOk, Ledgers

LEMMA FailedIs ==
  ASSUME NEW l, LedgerOk(l), NEW key \in Keys
  PROVE  /\ LedgerOk(MarkedFailed(l, key))
         /\ DOMAIN MarkedFailed(l, key).inFlight = DOMAIN l.inFlight \ {key}
         /\ \A k \in DOMAIN l.inFlight \ {key} : MarkedFailed(l, key).inFlight[k] = l.inFlight[k]
<1> DEFINE f == [k \in DOMAIN l.inFlight \ {key} |-> l.inFlight[k]]
<1>1. MarkedFailed(l, key) = [l EXCEPT !.failed = l.failed \cup {key}, !.inFlight = f]
  BY DEF MarkedFailed
<1>2. l \in Ledgers /\ Len(l.merged) <= MaxKeys
  BY DEF LedgerOk
<1>3. f \in Marks
  <2>1. \A k \in DOMAIN l.inFlight : k \in Keys /\ l.inFlight[k] \in 0 .. Generations - 1
    BY <1>2, MarksAre DEF Ledgers
  <2>2. \A k \in DOMAIN f : k \in Keys /\ f[k] \in 0 .. Generations - 1
    BY <2>1
  <2>3. f = [k \in DOMAIN f |-> f[k]]
    OBVIOUS
  <2> HIDE DEF f
  <2>4. QED BY <2>2, <2>3, MarksAre
<1>4. /\ DOMAIN f = DOMAIN l.inFlight \ {key}
      /\ \A k \in DOMAIN l.inFlight \ {key} : f[k] = l.inFlight[k]
  OBVIOUS
<1> HIDE DEF f
<1>5. /\ LedgerOk([l EXCEPT !.failed = l.failed \cup {key}, !.inFlight = f])
      /\ [l EXCEPT !.failed = l.failed \cup {key}, !.inFlight = f].inFlight = f
  BY <1>2, <1>3 DEF Ledgers, LedgerOk
<1>6. QED BY <1>1, <1>4, <1>5

(* ---- the display and the session caches ------------------------------ *)
LEMMA ChunkIs ==
  ASSUME NEW requested, NEW b
  PROVE  ChunkOf(requested, b) = ChunkOf(NoSpan, b) /\ ChunkOf(requested, b).events = b
  BY DEF ChunkOf

LEMMA StoreMerged ==
  ASSUME NEW e, NEW store, StoreOk(store, e), NEW requested, NEW b \in BundlesOf(e)
  PROVE  StoreOk(MergedResponse(store, requested, b, MaxChunks), e)
<1>1. DOMAIN b # {} => ChunkOf(requested, b) \in ChunksOf(e)
  BY ChunkIs DEF ChunksOf, FullBundlesOf
<1>2. CASE DOMAIN b = {}
  BY <1>2 DEF MergedResponse
<1>3. CASE DOMAIN b # {}
  BY <1>1, <1>3, KeptIs, CapsAre DEF MergedResponse, StoreOk, Caps
<1>4. QED BY <1>2, <1>3

LEMMA EventsAreOf ==
  ASSUME NEW e, NEW store, StoreOk(store, e), NEW w
  PROVE  \A ev \in EventsOf(store, w) : ev.epoch = e
<1> DEFINE span == SpanOfBars(w)
<1>1. \A t \in TimesIn(store, span) : EventsIn(store, span)[t] = e
  <2> TAKE t \in TimesIn(store, span)
  <2>1. \E i \in DOMAIN store : t \in DOMAIN store[i].events
    BY DEF TimesIn
  <2>2. store \in Seq(ChunksOf(e))
    BY DEF StoreOk
  <2>3. PICK i : i = FirstWith(store, t)
    OBVIOUS
  <2>4. i \in DOMAIN store /\ t \in DOMAIN store[i].events
    BY <2>1, <2>2, <2>3, FirstIsThere
  <2>5. store[i] \in ChunksOf(e)
    BY <2>2, <2>4
  <2>6. store[i].events \in BundlesOf(e)
    BY <2>5, ChunkIs DEF ChunksOf, FullBundlesOf
  <2>7. store[i].events[t] = e
    BY <2>4, <2>6 DEF BundlesOf, IsOf
  <2>8. EventsIn(store, span)[t] = store[i].events[t]
    BY <2>3 DEF EventsIn
  <2>9. QED BY <2>7, <2>8
<1>2. DOMAIN EventsIn(store, span) = TimesIn(store, span)
  BY DEF EventsIn
<1>3. QED BY <1>1, <1>2 DEF EventsOf

LEMMA AppliedIs ==
  ASSUME NEW e, NEW store, StoreOk(store, e), NEW d, DrawnOk(d, e), NEW w, NEW status
  PROVE  DrawnOk(Applied(d, store, w, status), e)
<1> DEFINE events == EventsOf(store, w)
<1>1. \A ev \in events : ev.epoch = e
  BY EventsAreOf
<1> HIDE DEF events
<1>2. CASE d.input = <<w, status>>
  BY <1>2 DEF Applied
<1>3. CASE d.input # <<w, status>>
  <2>1. PICK drawn, state, late, input :
          /\ Applied(d, store, w, status) = [events |-> drawn, status |-> state, input |-> input,
                                             stale |-> late]
          /\ drawn \in {d.events, events}
    BY <1>3 DEF Applied, events
  <2>2. \A ev \in drawn : ev.epoch = e
    BY <1>1, <2>1 DEF DrawnOk
  <2>3. QED BY <2>1, <2>2 DEF DrawnOk
<1>4. QED BY <1>2, <1>3

LEMMA CommittedIs ==
  ASSUME NEW e, NEW store, StoreOk(store, e), NEW d, DrawnOk(d, e), NEW w, NEW status
  PROVE  DrawnOk(Committed(d, store, w, status), e)
<1>1. DrawnOk(Bumped(d), e)
  <2>1. d = [events |-> d.events, status |-> d.status, stale |-> d.stale, input |-> d.input]
    BY DEF DrawnOk
  <2>2. Bumped(d) = [events |-> d.events, status |-> d.status, stale |-> d.stale, input |-> None]
    BY <2>1 DEF Bumped
  <2>3. QED BY <2>2 DEF DrawnOk
<1>2. QED BY <1>1, AppliedIs DEF Committed

LEMMA SessionPut ==
  ASSUME NEW e, NEW visits, SessionOk(visits, e), NEW w \in Windows, NEW b \in BundlesOf(e),
         DOMAIN b \subseteq BarTimes(w)
  PROVE  SessionOk(PutBundle(visits, w, b, MaxBundles), e)
<1>1. [window |-> w, bundle |-> b] \in VisitsOf(e)
  BY DEF VisitsOf
<1>2. QED BY <1>1, PutIs, CapsAre DEF SessionOk, Caps

\* A bundle from the session cache is one for the window's lanes, and for the display.
LEMMA VisitIs ==
  ASSUME NEW e, SessionOk(session, e), NEW w \in Windows, HasBundle(w)
  PROVE  /\ BundleOf(w) \in BundlesOf(e)
         /\ LanesOk([bundle |-> BundleOf(w), status |-> "ready", window |-> w], e)
<1>1. PICK i \in DOMAIN session : session[i].window = w
  BY DEF HasBundle
<1>2. session \in Seq(VisitsOf(e))
  BY DEF SessionOk
<1>3. session[i] \in ToSet(session)
  BY <1>1 DEF ToSet
<1>4. PICK v \in ToSet(session) : v.window = w /\ BundleOf(w) = v.bundle
  BY <1>1, <1>3 DEF BundleOf
<1>5. v \in VisitsOf(e)
  BY <1>2, <1>4 DEF ToSet
<1>6. v.bundle \in BundlesOf(e) /\ DOMAIN v.bundle \subseteq BarTimes(w)
  BY <1>4, <1>5 DEF VisitsOf
<1>7. BundleOf(w) \in BundlesOf(e) /\ DOMAIN BundleOf(w) \subseteq BarTimes(w)
  BY <1>4, <1>6
<1>8. QED BY <1>7 DEF LanesOk, Lanes, BundlesOf

\* The status of the lanes changes alone.
LEMMA LanesStatus ==
  ASSUME NEW e, NEW l, LanesOk(l, e), NEW status \in {"idle", "loading", "ready", "error"}
  PROVE  LanesOk([l EXCEPT !.status = status], e)
<1>1. l \in Lanes
  BY DEF LanesOk
<1>2. /\ [l EXCEPT !.status = status] \in Lanes
      /\ [l EXCEPT !.status = status].bundle = l.bundle
      /\ [l EXCEPT !.status = status].window = l.window
  BY <1>1 DEF Lanes
<1>3. QED BY <1>2 DEF LanesOk

LEMMA NoLanesAre ==
  ASSUME NEW e
  PROVE  LanesOk(NoLanes, e)
  BY DEF NoLanes, LanesOk, Lanes

(* ---- load cycles ----------------------------------------------------- *)
\* An answer holds bars of the cycle's window, of the cycle's epoch.
LEMMA RowsAre ==
  ASSUME CycleOk(cycle), NEW kind
  PROVE  /\ Rows(cycle.range, kind) \in BundlesOf(cycle.epoch)
         /\ DOMAIN Rows(cycle.range, kind) \subseteq BarTimes(cycle.window)
<1>1. /\ cycle.window \in Windows /\ cycle.range.from \in Bars /\ cycle.range.to \in Bars
      /\ cycle.epoch \in 1 .. MaxEpoch
      /\ cycle.window.from <= cycle.range.from /\ cycle.range.to <= cycle.window.to
  BY DEF CycleOk, Cycles
<1>2. Bars \subseteq Nat
  BY WindowIs DEF Bars
<1>3. PICK r : r = Rows(cycle.range, kind)
  OBVIOUS
<1> DEFINE Answers(low, high) ==
             /\ low .. high \subseteq cycle.range.from .. cycle.range.to
             /\ r = [t \in {b * Step : b \in low .. high} |-> cycle.epoch]
<1>a. \E low \in Int : \E high \in Int : Answers(low, high)
  <2>0. PICK m \in Nat, n \in Nat : m = cycle.range.from /\ n = cycle.range.to
    BY <1>1, <1>2
  <2>1. CASE kind = "full"
    <3>1. r = [t \in {b * Step : b \in m .. n} |-> cycle.epoch]
      BY <1>3, <2>0, <2>1 DEF Rows
    <3>2. Answers(m, n)
      BY <2>0, <3>1
    <3> HIDE DEF Answers
    <3>3. QED BY <3>2
  <2>2. CASE kind = "short"
    <3>1. m .. (n - 1) \subseteq m .. n /\ n - 1 \in Int
      OBVIOUS
    <3>2. r = [t \in {b * Step : b \in m .. (n - 1)} |-> cycle.epoch]
      BY <1>3, <2>0, <2>2 DEF Rows
    <3>3. Answers(m, n - 1)
      BY <2>0, <3>1, <3>2
    <3> HIDE DEF Answers
    <3>4. QED BY <3>1, <3>3
  <2>3. CASE kind \notin {"full", "short"}
    <3>1. r = [t \in {b * Step : b \in {}} |-> cycle.epoch]
      BY <1>3, <2>3 DEF Rows
    <3>2. 1 .. 0 = {} /\ 1 \in Int /\ 0 \in Int
      OBVIOUS
    <3>3. r = [t \in {b * Step : b \in 1 .. 0} |-> cycle.epoch] /\ 1 .. 0 \subseteq m .. n
      BY <3>1, <3>2
    <3>4. Answers(1, 0)
      BY <2>0, <3>3
    <3> HIDE DEF Answers
    <3>5. QED BY <3>2, <3>4
  <2>4. QED BY <2>1, <2>2, <2>3
<1>b. PICK low \in Int : \E high \in Int : Answers(low, high)
  BY <1>a
<1>c. PICK high \in Int : Answers(low, high)
  BY <1>b
<1>4. PICK bars : /\ bars = low .. high /\ bars \subseteq cycle.range.from .. cycle.range.to
                  /\ r = [t \in {b * Step : b \in bars} |-> cycle.epoch]
  BY <1>c
<1>5. bars \subseteq cycle.window.from .. cycle.window.to
  <2>1. /\ cycle.window.from \in Nat /\ cycle.window.to \in Nat
        /\ cycle.range.from \in Nat /\ cycle.range.to \in Nat
    BY <1>1, <1>2, WindowIs
  <2>2. cycle.range.from .. cycle.range.to \subseteq cycle.window.from .. cycle.window.to
    BY <1>1, <2>1
  <2>3. QED BY <1>4, <2>2
<1>6. bars \subseteq Bars
  BY <1>1, <1>5, WindowIs
<1>7. {b * Step : b \in bars} \subseteq Times /\ {b * Step : b \in bars} \subseteq BarTimes(cycle.window)
  BY <1>5, <1>6 DEF Times, BarTimes
<1>8. r \in [{b * Step : b \in bars} -> 1 .. MaxEpoch]
  BY <1>1, <1>4
<1>9. r \in Bundles
  BY <1>7, <1>8 DEF Bundles, Times
<1>10. IsOf(r, cycle.epoch)
  BY <1>4 DEF IsOf, Solid
<1>11. QED BY <1>3, <1>4, <1>7, <1>9, <1>10 DEF BundlesOf

LEMMA WantedIs ==
  ASSUME Shown \in Windows
  PROVE  Wanted \in Ranges /\ Shown.from <= Wanted.from /\ Wanted.to <= Shown.to
<1>1. PICK w : w = Shown
  OBVIOUS
<1>2. /\ w \in Windows /\ w.from \in Nat /\ w.to \in Nat /\ w.from <= w.to /\ w \in Ranges
      /\ \A b \in w.from .. w.to : b \in Bars
  BY <1>1, WindowIs
<1>3. MissingBars(w) \in Ranges /\ w.from <= MissingBars(w).from /\ MissingBars(w).to <= w.to
  <2> DEFINE late == {b \in w.from .. w.to : b * Step >= MissingSpan(Spans, SpanOfBars(w)).from}
             I == late \cup {w.to}
  <2>1. MissingBars(w) = [from |-> Min(I), to |-> w.to]
    BY DEF MissingBars, Window
  <2>2. I \in SUBSET Nat /\ I # {} /\ I \subseteq w.from .. w.to
    BY <1>2
  <2> HIDE DEF I
  <2>3. Min(I) \in w.from .. w.to
    BY <2>2, MinIsThere
  <2>4. Min(I) \in Bars /\ w.to \in Bars /\ w.from <= Min(I)
    BY <1>2, <2>3
  <2>5. QED BY <1>2, <2>1, <2>4 DEF Ranges
<1>4. QED BY <1>1, <1>2, <1>3 DEF Wanted

LEMMA KeysAre ==
  ASSUME NEW range \in Ranges
  PROVE  TraceKey(range) \in Keys /\ DisplayKey(range) \in Keys
  BY DEF TraceKey, DisplayKey, Keys

LEMMA NewCycleIs ==
  ASSUME ViewOk, LanesOk(lanes, epoch), Shown \in Windows, NEW lanesOnly \in BOOLEAN
  PROVE  /\ CycleOk(NewCycle(lanesOnly, Wanted))
         /\ NewCycle(lanesOnly, Wanted).epoch = epoch
         /\ NewCycle(lanesOnly, Wanted).window = Shown
         /\ NewCycle(lanesOnly, Wanted).gen = (gen + 2) % Generations
         /\ NewCycle(lanesOnly, Wanted).range = Wanted
         /\ NewCycle(lanesOnly, Wanted).lanesOnly = lanesOnly
         /\ NewCycle(lanesOnly, Wanted).stage = "display"
<1>1. (gen + 2) % Generations \in 0 .. Generations - 1
  BY CapsAre DEF Caps, ViewOk
<1>2. HasBundle(Shown) \in BOOLEAN /\ DisplayCovers \in BOOLEAN
  BY DEF HasBundle, DisplayCovers, CoversIn, CoversSpan
<1>3. Wanted \in Ranges /\ Shown.from <= Wanted.from /\ Wanted.to <= Shown.to
  BY WantedIs
<1>4. lanes \in Lanes /\ epoch \in 1 .. MaxEpoch
      /\ (lanes.bundle # None => IsOf(lanes.bundle, epoch))
  BY DEF LanesOk, ViewOk
<1>5. PICK visited \in BOOLEAN, covered \in BOOLEAN :
        NewCycle(lanesOnly, Wanted) =
          [window |-> Shown, gen |-> (gen + 2) % Generations, range |-> Wanted, epoch |-> epoch,
           lanesOnly |-> lanesOnly, snapshot |-> lanes, visited |-> visited,
           covered |-> covered, stage |-> "display", drawn |-> lanesOnly, use |-> None]
  BY <1>2 DEF NewCycle
<1>6. NewCycle(lanesOnly, Wanted) \in Cycles
  BY <1>1, <1>3, <1>4, <1>5 DEF Cycles, Ranges
<1>7. QED BY <1>3, <1>4, <1>5, <1>6 DEF CycleOk

LEMMA NotNone ==
  ASSUME NEW c, CycleOk(c)
  PROVE  c # None /\ c.range \in Ranges /\ c.window \in Windows
         /\ c.gen \in 0 .. Generations - 1
  BY TraceAssumption DEF TraceAssumption, CycleOk, Cycles, Ranges

LEMMA KeysOfCycle ==
  ASSUME NEW c, CycleOk(c)
  PROVE  /\ KeysOf(c) \subseteq Keys
         /\ DenseKey(c) \in KeysOf(c) /\ DisplayKey(c.range) \in KeysOf(c)
         /\ Network(c) \in KeysOf(c) /\ TraceKey(c.range) \in KeysOf(c)
  BY NotNone, KeysAre DEF KeysOf, Network, DenseKey

\* The setting never changes, and with it the keys.
LEMMA KeysStay ==
  ASSUME view'.setting = view.setting
  PROVE  /\ ChartEvents' = ChartEvents
         /\ \A c : KeysOf(c)' = KeysOf(c)
  BY DEF ChartEvents, KeysOf, Network, DisplayKey

(***************************************************************************)
(* The initial state, and the shapes of the steps.                          *)
(***************************************************************************)

LEMMA EmptyLedger == LedgerOk(NoLedger) /\ DOMAIN NoLedger.inFlight = {}
<1>1. DOMAIN <<>> = {} /\ <<>> = [k \in DOMAIN <<>> |-> <<>>[k]]
  OBVIOUS
<1>2. <<>> \in Marks
  BY <1>1, MarksAre
<1>3. <<>> \in Seq(Keys) /\ Len(<<>>) = 0 /\ MaxKeys \in Nat \ {0}
  BY CapsAre DEF Caps
<1>4. QED BY <1>1, <1>2, <1>3 DEF NoLedger, LedgerOk, Ledgers

LEMMA EmptyCaches ==
  ASSUME NEW e
  PROVE  StoreOk(<<>>, e) /\ SessionOk(<<>>, e) /\ DrawnOk(EmptyDisplay, e)
<1>1. Len(<<>>) = 0 /\ Caps
  BY CapsAre
<1>2. QED BY <1>1 DEF StoreOk, SessionOk, DrawnOk, EmptyDisplay, Caps

LEMMA InitTrace == Init => TraceInv
<1> SUFFICES ASSUME Init PROVE TraceInv
  OBVIOUS
<1>1. /\ due = FALSE /\ epoch = 1 /\ ledger = NoLedger /\ session = <<>>
      /\ lanes = NoLanes /\ gen = 0 /\ chunks = <<>> /\ display = EmptyDisplay
      /\ cycle = None /\ aborted = None /\ result = None
  BY DEF Init
<1>2. view \in Views
  BY DEF Init, Views
<1>3. 1 \in 1 .. MaxEpoch /\ 0 \in 0 .. Generations - 1
  BY CapsAre DEF Caps
<1>a. ViewOk
  BY <1>1, <1>2, <1>3 DEF ViewOk
<1>4. Under = {}
  BY <1>1 DEF Under
<1>5. Owned /\ Current
  BY <1>1, EmptyLedger DEF Owned, Current
<1>6. QED BY <1>1, <1>a, <1>4, <1>5, EmptyLedger, EmptyCaches, NoLanesAre DEF TraceInv

\* The user does something to the chart.
LEMMA ChartTurned ==
  ASSUME TraceInv, view' \in Views, view'.setting = view.setting, due' \in BOOLEAN,
         UNCHANGED <<epoch, ledger, session, lanes, gen, chunks, display, cycle, aborted, result>>
  PROVE  TraceInv'
<1>1. ViewOk'
  BY DEF TraceInv, ViewOk
<1>2. Owned'
  BY KeysStay DEF TraceInv, Owned, Under
<1>3. Current'
  BY KeysStay DEF TraceInv, Current
<1>4. QED BY <1>1, <1>2, <1>3 DEF TraceInv, Under

\* Everything is reset; the cycle under way stays, or is the one just aborted.
LEMMA AllReset ==
  ASSUME TraceInv, ResetAll, Calm, epoch < MaxEpoch, view' \in Views,
         view'.setting = view.setting, due' \in BOOLEAN,
         result' \in {None, "applied", "deferred", "blocked"},
         \/ aborted' = aborted /\ cycle' = cycle
         \/ aborted' = cycle /\ cycle' = None
  PROVE  TraceInv'
<1>1. /\ epoch' = epoch + 1 /\ ledger' = NoLedger /\ session' = <<>> /\ lanes' = NoLanes
      /\ gen' = (gen + 1) % Generations /\ chunks' = <<>> /\ display' = EmptyDisplay
  BY DEF ResetAll
<1>2. epoch' \in 1 .. MaxEpoch /\ gen' \in 0 .. Generations - 1
  BY <1>1, CapsAre DEF TraceInv, ViewOk, Caps
<1>3. ViewOk'
  BY <1>2 DEF ViewOk
<1>4. Under' \subseteq Under /\ \A c \in Under' : CycleOk(c)
  BY DEF TraceInv, Under
<1>5. Owned'
  BY <1>1, EmptyLedger DEF Owned
<1>6. Current'
  <2>1. aborted = None /\ (cycle # None => ChartEvents \/ cycle.stage # "display")
    BY DEF Calm
  <2>2. QED BY <1>1, <2>1, EmptyLedger, KeysStay DEF Current
<1>7. QED BY <1>1, <1>3, <1>4, <1>5, <1>6, EmptyLedger, EmptyCaches, NoLanesAre DEF TraceInv

\* The load effect ends at once.
LEMMA EffectEnds ==
  ASSUME TraceInv, Effect, NEW outcome \in {"applied", "deferred", "blocked"},
         EndedAtOnce(outcome), gen' \in 0 .. Generations - 1,
         LedgerOk(ledger'), ledger'.inFlight = ledger.inFlight,
         StoreOk(chunks', epoch), session' = session, LanesOk(lanes', epoch),
         DrawnOk(display', epoch)
  PROVE  TraceInv'
<1>1. /\ due' = FALSE /\ aborted' = cycle /\ aborted = None /\ epoch' = epoch
      /\ view' = [view EXCEPT !.intent = None] /\ cycle' = None /\ result' = outcome
  BY DEF Effect, Calm, EndedAtOnce
<1>2. view' \in Views /\ view'.setting = view.setting
  BY <1>1 DEF TraceInv, ViewOk, Views
<1>3. ViewOk'
  BY <1>1, <1>2 DEF TraceInv, ViewOk
<1>4. Under' = Under
  BY <1>1 DEF Under
<1>5. Owned'
  BY <1>2, <1>4, KeysStay DEF TraceInv, Owned
<1>6. Current'
  BY <1>1 DEF Current
<1>7. SessionOk(session', epoch')
  BY <1>1 DEF TraceInv
<1>8. QED BY <1>1, <1>3, <1>4, <1>5, <1>6, <1>7 DEF TraceInv

\* The load effect starts a cycle.
LEMMA EffectStarts ==
  ASSUME TraceInv, Effect, NEW c, CycleOk(c), c.epoch = epoch, cycle' = c, result' = None,
         gen' = c.gen, NEW key \in KeysOf(c), ledger' = MarkedInFlight(ledger, {key}, c.gen),
         chunks' = chunks, session' = session, LanesOk(lanes', epoch), DrawnOk(display', epoch)
  PROVE  TraceInv'
<1>1. /\ due' = FALSE /\ aborted' = cycle /\ aborted = None /\ epoch' = epoch
      /\ view' = [view EXCEPT !.intent = None]
  BY DEF Effect, Calm
<1>2. view' \in Views /\ view'.setting = view.setting
  BY <1>1 DEF TraceInv, ViewOk, Views
<1>3. c # None /\ c.gen \in 0 .. Generations - 1 /\ key \in Keys
  BY NotNone, KeysOfCycle
<1>4. ViewOk'
  BY <1>1, <1>2, <1>3 DEF TraceInv, ViewOk
<1>5. Under' = Under \cup {c}
  BY <1>1, <1>3 DEF Under
<1>6. LedgerOk(ledger) /\ Owned
  BY DEF TraceInv
<1>7. /\ LedgerOk(ledger')
      /\ DOMAIN ledger'.inFlight = {key} \cup DOMAIN ledger.inFlight
      /\ \A k \in {key} \cup DOMAIN ledger.inFlight :
           ledger'.inFlight[k] = IF k = key THEN c.gen ELSE ledger.inFlight[k]
  <2>1. WithMark(MarkedInFlight(ledger, {key}, c.gen), ledger, key, c.gen)
    BY <1>3, <1>6, InFlightMarked
  <2>2. WithMark(ledger', ledger, key, c.gen)
    BY <2>1
  <2>3. QED BY <2>2 DEF WithMark
<1>8. Owned'
  <2> SUFFICES ASSUME NEW k \in DOMAIN ledger'.inFlight
               PROVE  \E d \in Under' : k \in KeysOf(d) /\ ledger'.inFlight[k] = d.gen
    BY <1>2, KeysStay DEF Owned
  <2>1. CASE k = key
    BY <1>5, <1>7, <2>1
  <2>2. CASE k # key
    BY <1>5, <1>6, <1>7, <2>2 DEF Owned
  <2>3. QED BY <2>1, <2>2
<1>9. Current'
  BY <1>1 DEF Current
<1>10. SessionOk(session', epoch') /\ StoreOk(chunks', epoch')
  BY <1>1 DEF TraceInv
<1>11. QED BY <1>1, <1>4, <1>5, <1>7, <1>8, <1>9, <1>10 DEF TraceInv

\* What is in flight beside the cycle, when it ends with a ledger l.
LEMMA CycleEnds ==
  ASSUME TraceInv, cycle # None, NEW l, LedgerOk(l),
         DOMAIN l.inFlight \subseteq DOMAIN ledger.inFlight,
         \A k \in DOMAIN l.inFlight : l.inFlight[k] = ledger.inFlight[k],
         Ended(l), UNCHANGED <<view, due, epoch, gen, aborted, result>>,
         StoreOk(chunks', epoch), SessionOk(session', epoch), LanesOk(lanes', epoch),
         DrawnOk(display', epoch)
  PROVE  TraceInv'
<1>1. cycle' = None /\ ledger' = Cleared(l, KeysOf(cycle), cycle.gen)
  BY DEF Ended
<1>2. /\ LedgerOk(ledger')
      /\ DOMAIN ledger'.inFlight
           = {k \in DOMAIN l.inFlight : ~ (k \in KeysOf(cycle) /\ l.inFlight[k] = cycle.gen)}
      /\ \A k \in DOMAIN ledger'.inFlight : ledger'.inFlight[k] = l.inFlight[k]
  BY <1>1, ClearedIs
<1>3. Under' = {aborted} \ {None} /\ Under' \subseteq Under
  BY <1>1 DEF Under
<1>4. Owned'
  <2> SUFFICES ASSUME NEW k \in DOMAIN ledger'.inFlight
               PROVE  \E d \in Under' : k \in KeysOf(d) /\ ledger'.inFlight[k] = d.gen
    BY KeysStay DEF Owned
  <2>1. PICK d \in Under : k \in KeysOf(d) /\ ledger.inFlight[k] = d.gen
    BY <1>2 DEF TraceInv, Owned
  <2>2. d # cycle
    BY <1>2, <2>1
  <2>3. d \in Under'
    BY <1>3, <2>1, <2>2 DEF Under
  <2>4. QED BY <1>2, <2>1, <2>3
<1>5. Current'
  BY <1>1 DEF Current
<1>6. ViewOk'
  BY DEF TraceInv, ViewOk
<1>7. QED BY <1>2, <1>3, <1>4, <1>5, <1>6 DEF TraceInv

(***************************************************************************)
(* The steps: the chart and its user.                                       *)
(***************************************************************************)

LEMMA UserKeeps ==
  ASSUME TraceInv, Boot \/ Pan \/ Rerun \/ \E w \in Windows : Commit(w) \/ Realign(w)
  PROVE  TraceInv'
<1>1. view \in Views /\ due \in BOOLEAN
  BY DEF TraceInv, ViewOk
<1>2. /\ view' \in Views /\ view'.setting = view.setting /\ due' \in BOOLEAN
      /\ UNCHANGED <<epoch, ledger, session, lanes, gen, chunks, display, cycle, aborted, result>>
  <2>1. CASE Boot
    BY <1>1, <2>1 DEF Boot, Views
  <2>2. CASE Pan
    BY <1>1, <2>2 DEF Pan, Views
  <2>3. CASE Rerun
    BY <1>1, <2>3 DEF Rerun
  <2>4. CASE \E w \in Windows : Commit(w) \/ Realign(w)
    BY <1>1, <2>4 DEF Commit, Realign, Views
  <2>5. QED BY <2>1, <2>2, <2>3, <2>4
<1>3. QED BY <1>2, ChartTurned

LEMMA ResetKeeps ==
  ASSUME TraceInv, Switch \/ Recontext \/ Reload
  PROVE  TraceInv'
<1>1. view \in Views /\ result \in {None, "applied", "deferred", "blocked"}
  BY DEF TraceInv, ViewOk
<1>2. CASE Switch
  <2>1. /\ ResetAll /\ Calm /\ epoch < MaxEpoch /\ due' \in BOOLEAN /\ result' = "blocked"
        /\ aborted' = cycle /\ cycle' = None
    BY <1>2 DEF Switch, Still
  <2>2. view' \in Views /\ view'.setting = view.setting
    BY <1>1, <1>2 DEF Switch, Views
  <2>3. QED BY <2>1, <2>2, AllReset
<1>3. CASE Recontext
  <2>1. /\ ResetAll /\ Calm /\ epoch < MaxEpoch /\ due' \in BOOLEAN /\ result' = result
        /\ aborted' = aborted /\ cycle' = cycle /\ view' = view
    BY <1>3 DEF Recontext, Still
  <2>2. QED BY <1>1, <2>1, AllReset
<1>4. CASE Reload
  <2>1. /\ ResetAll /\ Calm /\ epoch < MaxEpoch /\ due' \in BOOLEAN /\ result' = result
        /\ aborted' = aborted /\ cycle' = cycle
    BY <1>4 DEF Reload, Still
  <2>2. view' \in Views /\ view'.setting = view.setting
    BY <1>1, <1>4 DEF Reload, Views
  <2>3. QED BY <1>1, <2>1, <2>2, AllReset
<1>5. QED BY <1>2, <1>3, <1>4

(***************************************************************************)
(* The steps: the load effect.                                              *)
(***************************************************************************)

LEMMA NextGen ==
  ASSUME TraceInv
  PROVE  /\ (gen + 1) % Generations \in 0 .. Generations - 1
         /\ (gen + 2) % Generations \in 0 .. Generations - 1
  BY CapsAre DEF Caps, TraceInv, ViewOk

\* What every load works with: a window of the chart, and the display applied to it.
LEMMA EffectHas ==
  ASSUME TraceInv
  PROVE  /\ ~Blocked => Shown \in Windows
         /\ DrawnOk(AppliedNow, epoch)
         /\ \A w, status : DrawnOk(Applied(AppliedNow, chunks, w, status), epoch)
<1>1. ~Blocked => Shown \in Windows
  BY DEF TraceInv, ViewOk, Views, Blocked, Shown
<1>2. StoreOk(chunks, epoch) /\ DrawnOk(display, epoch)
  BY DEF TraceInv
<1>3. DrawnOk(AppliedNow, epoch)
  BY <1>2, AppliedIs DEF AppliedNow
<1>4. QED BY <1>1, <1>2, <1>3, AppliedIs

LEMMA EndedEffectKeeps ==
  ASSUME TraceInv, BlockedEffect \/ WaitingEffect \/ CoveredEffect \/ SkipEffect
  PROVE  TraceInv'
<1>1. /\ LedgerOk(ledger) /\ StoreOk(chunks, epoch) /\ LanesOk(lanes, epoch)
  BY DEF TraceInv
<1>2. CASE BlockedEffect
  <2>1. /\ Effect /\ EndedAtOnce("blocked") /\ lanes' = NoLanes
        /\ gen' = (gen + 1) % Generations /\ UNCHANGED <<ledger, session, chunks>>
        /\ display' \in {EmptyDisplay, AppliedNow}
    BY <1>2 DEF BlockedEffect
  <2>2. DrawnOk(display', epoch)
    BY <2>1, EmptyCaches, EffectHas
  <2>3. gen' \in 0 .. Generations - 1 /\ LanesOk(lanes', epoch)
    BY <2>1, NextGen, NoLanesAre
  <2>4. QED BY <1>1, <2>1, <2>2, <2>3, EffectEnds
<1>3. CASE WaitingEffect
  <2>1. PICK outcome \in {"applied", "deferred", "blocked"} :
          /\ Effect /\ EndedAtOnce(outcome) /\ display' = AppliedNow
          /\ gen' = (gen + 1) % Generations /\ UNCHANGED <<ledger, session, lanes, chunks>>
    BY <1>3 DEF WaitingEffect
  <2>2. gen' \in 0 .. Generations - 1 /\ DrawnOk(display', epoch)
    BY <2>1, NextGen, EffectHas
  <2>3. QED BY <1>1, <2>1, <2>2, EffectEnds
<1>4. CASE CoveredEffect
  <2>1. /\ Effect /\ EndedAtOnce("applied") /\ gen' = (gen + 1) % Generations
        /\ display' = Applied(AppliedNow, chunks, Shown, lanes.status)
        /\ UNCHANGED <<ledger, session, lanes, chunks>>
    BY <1>4 DEF CoveredEffect, Loads
  <2>2. gen' \in 0 .. Generations - 1 /\ DrawnOk(display', epoch)
    BY <2>1, NextGen, EffectHas
  <2>3. QED BY <1>1, <2>1, <2>2, EffectEnds
<1>5. CASE SkipEffect
  <2>1. PICK outcome \in {"applied", "deferred", "blocked"} :
          /\ Effect /\ EndedAtOnce(outcome) /\ gen' = (gen + 2) % Generations
          /\ display' \in {AppliedNow, Applied(AppliedNow, chunks, Shown, lanes.status)}
          /\ UNCHANGED <<ledger, session, lanes, chunks>>
    BY <1>5 DEF SkipEffect, Loads
  <2>2. gen' \in 0 .. Generations - 1 /\ DrawnOk(display', epoch)
    BY <2>1, NextGen, EffectHas
  <2>3. QED BY <1>1, <2>1, <2>2, EffectEnds
<1>6. QED BY <1>2, <1>3, <1>4, <1>5

LEMMA RestoreKeeps ==
  ASSUME TraceInv, RestoreEffect
  PROVE  TraceInv'
<1>1. /\ LedgerOk(ledger) /\ StoreOk(chunks, epoch) /\ SessionOk(session, epoch)
      /\ Shown \in Windows /\ HasBundle(Shown)
  BY EffectHas DEF TraceInv, RestoreEffect, Loads, Restorable
<1>2. PICK b : b = BundleOf(Shown)
  OBVIOUS
<1>3. b \in BundlesOf(epoch) /\ LanesOk([bundle |-> b, status |-> "ready", window |-> Shown], epoch)
  BY <1>1, <1>2, VisitIs
<1>4. PICK key, store, d :
        /\ key \in {TraceKey(Shown), DisplayKey(Shown)}
        /\ Effect /\ EndedAtOnce("applied") /\ gen' = (gen + 1) % Generations
        /\ lanes' = [bundle |-> b, status |-> "ready", window |-> Shown]
        /\ session' = session
        /\ ledger' = MarkedMerged(ledger, key) /\ chunks' = store /\ display' = d
        /\ store \in {chunks, MergedResponse(chunks, SpanOfBars(Shown), b, MaxChunks)}
        /\ d \in {Applied(AppliedNow, chunks, Shown, "ready"),
                  Committed(AppliedNow, store, Shown, "ready")}
  BY <1>2 DEF RestoreEffect, Loads
<1>5. StoreOk(store, epoch)
  BY <1>1, <1>3, <1>4, StoreMerged
<1>6. DrawnOk(d, epoch)
  BY <1>4, <1>5, EffectHas, CommittedIs
<1>7. key \in Keys
  BY <1>1, <1>4, WindowIs, KeysAre
<1>8. LedgerOk(ledger') /\ ledger'.inFlight = ledger.inFlight
  BY <1>1, <1>4, <1>7, MergedIs
<1>9. gen' \in 0 .. Generations - 1
  BY <1>4, NextGen
<1>10. StoreOk(chunks', epoch) /\ DrawnOk(display', epoch) /\ LanesOk(lanes', epoch)
  BY <1>3, <1>4, <1>5, <1>6
<1>11. QED BY <1>4, <1>8, <1>9, <1>10, EffectEnds

LEMMA DisplayEffectKeeps ==
  ASSUME TraceInv, DisplayEffect
  PROVE  TraceInv'
<1>1. /\ ViewOk /\ LanesOk(lanes, epoch) /\ Shown \in Windows
  BY EffectHas DEF TraceInv, DisplayEffect, Loads
<1>2. PICK c : c = NewCycle(FALSE, Wanted)
  OBVIOUS
<1>3. /\ CycleOk(c) /\ c.epoch = epoch /\ c.range = Wanted /\ c.lanesOnly = FALSE
  BY <1>1, <1>2, NewCycleIs
<1>4. /\ Effect /\ cycle' = c /\ gen' = c.gen /\ result' = None
      /\ ledger' = MarkedInFlight(ledger, {FirstKey}, c.gen)
      /\ display' = AppliedNow /\ UNCHANGED <<session, lanes, chunks>>
      /\ ~LanesOnly
  BY <1>2 DEF DisplayEffect, Loads, LanesOnly
<1>5. FirstKey \in KeysOf(c)
  BY <1>3, <1>4, KeysOfCycle DEF FirstKey
<1>6. PICK key : key = FirstKey
  OBVIOUS
<1>7. LanesOk(lanes', epoch) /\ DrawnOk(display', epoch)
  BY <1>1, <1>4, EffectHas
<1>8. QED BY <1>3, <1>4, <1>5, <1>6, <1>7, EffectStarts

LEMMA LanesEffectKeeps ==
  ASSUME TraceInv, LanesEffect
  PROVE  TraceInv'
<1>1. /\ ViewOk /\ LanesOk(lanes, epoch) /\ Shown \in Windows
      /\ LedgerOk(ledger) /\ StoreOk(chunks, epoch) /\ SessionOk(session, epoch)
  BY EffectHas DEF TraceInv, LanesEffect, Loads
<1>2. PICK c0 : c0 = NewCycle(TRUE, Wanted)
  OBVIOUS
<1>3. /\ CycleOk(c0) /\ c0.epoch = epoch /\ c0.range = Wanted /\ c0.window = Shown
  BY <1>1, <1>2, NewCycleIs
<1>4. PICK c : c = [c0 EXCEPT !.stage = "dense"]
  OBVIOUS
<1>5. CycleOk(c) /\ c.epoch = epoch /\ c.range = Wanted /\ c.window = Shown
  BY <1>3, <1>4 DEF CycleOk, Cycles
<1>6. /\ Effect /\ gen' = c.gen /\ FirstKey = TraceKey(Wanted)
      /\ display' = Applied(AppliedNow, chunks, Shown, lanes.status)
      /\ UNCHANGED <<session, chunks>>
  BY <1>2, <1>4 DEF LanesEffect, Loads, FirstKey
<1>7. DrawnOk(display', epoch) /\ gen' \in 0 .. Generations - 1 /\ TraceKey(Wanted) \in KeysOf(c)
      /\ TraceKey(Wanted) \in Keys
  BY <1>5, <1>6, EffectHas, NotNone, KeysOfCycle
<1>8. CASE DenseDecision(c, FALSE) = "restore"
  <2>1. HasBundle(c.window)
    BY <1>8 DEF DenseDecision
  <2>2. /\ EndedAtOnce("applied") /\ ledger' = MarkedMerged(ledger, TraceKey(Wanted))
        /\ lanes' = [bundle |-> BundleOf(Shown), status |-> "ready", window |-> Shown]
    BY <1>2, <1>4, <1>8 DEF LanesEffect
  <2>3. LanesOk(lanes', epoch)
    BY <1>1, <1>5, <2>1, <2>2, VisitIs
  <2>4. LedgerOk(ledger') /\ ledger'.inFlight = ledger.inFlight
    BY <1>1, <1>7, <2>2, MergedIs
  <2>5. QED BY <1>1, <1>6, <1>7, <2>2, <2>3, <2>4, EffectEnds
<1>9. CASE DenseDecision(c, FALSE) # "restore"
  <2>1. /\ cycle' = c /\ result' = None
        /\ ledger' = MarkedInFlight(ledger, {FirstKey}, c.gen)
        /\ lanes' = [lanes EXCEPT !.status = "loading"]
    BY <1>2, <1>4, <1>9 DEF LanesEffect
  <2>2. LanesOk(lanes', epoch)
    BY <1>1, <2>1, LanesStatus
  <2>3. PICK key : key = FirstKey
    OBVIOUS
  <2>4. QED BY <1>5, <1>6, <1>7, <2>1, <2>2, <2>3, EffectStarts
<1>10. QED BY <1>8, <1>9

LEMMA EffectKeeps ==
  ASSUME TraceInv, RunEffect
  PROVE  TraceInv'
  BY EndedEffectKeeps, RestoreKeeps, DisplayEffectKeeps, LanesEffectKeeps DEF RunEffect

(***************************************************************************)
(* The steps: microtasks and answers.                                       *)
(***************************************************************************)

LEMMA DeliverKeeps ==
  ASSUME TraceInv, Deliver
  PROVE  TraceInv'
<1>1. /\ result' = None /\ UNCHANGED <<view, due, epoch, ledger, session, lanes, gen, chunks,
                                       cycle, aborted>>
      /\ display' \in {display, Applied(display, chunks, Shown, lanes.status)}
  BY DEF Deliver
<1>2. ViewOk' /\ view'.setting = view.setting
  BY <1>1 DEF TraceInv, ViewOk
<1>3. DrawnOk(display', epoch')
  BY <1>1, AppliedIs DEF TraceInv
<1>4. Owned' /\ Current'
  BY <1>1, <1>2, KeysStay DEF TraceInv, Owned, Current, Under
<1>5. QED BY <1>1, <1>2, <1>3, <1>4 DEF TraceInv, Under

LEMMA UnwindKeeps ==
  ASSUME TraceInv, Unwind
  PROVE  TraceInv'
<1>1. /\ aborted # None /\ aborted' = None /\ lanes' = Unwound
      /\ ledger' = Cleared(ledger, KeysOf(aborted), aborted.gen)
      /\ UNCHANGED <<view, due, epoch, session, gen, chunks, display, cycle, result>>
  BY DEF Unwind
<1>2. ViewOk' /\ view'.setting = view.setting
  BY <1>1 DEF TraceInv, ViewOk
<1>3. Under' = {cycle} \ {None} /\ Under' \subseteq Under /\ aborted \in Under
  BY <1>1 DEF Under
<1>4. LedgerOk(ledger) /\ CycleOk(aborted) /\ LanesOk(lanes, epoch) /\ Owned
  BY <1>3 DEF TraceInv
<1>5. /\ LedgerOk(ledger')
      /\ DOMAIN ledger'.inFlight
           = {k \in DOMAIN ledger.inFlight :
                ~ (k \in KeysOf(aborted) /\ ledger.inFlight[k] = aborted.gen)}
      /\ \A k \in DOMAIN ledger'.inFlight : ledger'.inFlight[k] = ledger.inFlight[k]
  BY <1>1, <1>4, ClearedIs
<1>6. Owned'
  <2> SUFFICES ASSUME NEW k \in DOMAIN ledger'.inFlight
               PROVE  \E d \in Under' : k \in KeysOf(d) /\ ledger'.inFlight[k] = d.gen
    BY <1>2, KeysStay DEF Owned
  <2>1. PICK d \in Under : k \in KeysOf(d) /\ ledger.inFlight[k] = d.gen
    BY <1>4, <1>5 DEF Owned
  <2>2. d # aborted
    BY <1>5, <2>1
  <2>3. d \in Under'
    BY <1>3, <2>1, <2>2 DEF Under
  <2>4. QED BY <1>5, <2>1, <2>3
<1>7. Current'
  BY <1>1 DEF TraceInv, Current
<1>8. LanesOk(lanes', epoch')
  <2>1. PICK status : status = aborted.snapshot.status
    OBVIOUS
  <2>2. status \in {"idle", "loading", "ready", "error"}
    BY <1>4, <2>1 DEF CycleOk, Cycles, Lanes
  <2>3. lanes' \in {lanes, [lanes EXCEPT !.status = status]}
    BY <1>1, <2>1 DEF Unwound
  <2>4. PICK l : l = [lanes EXCEPT !.status = status]
    OBVIOUS
  <2>5. LanesOk(l, epoch)
    BY <1>4, <2>2, <2>4, LanesStatus
  <2>6. epoch' = epoch /\ (lanes' = lanes \/ lanes' = l)
    BY <1>1, <2>3, <2>4
  <2>7. QED BY <1>4, <2>5, <2>6
<1>9. QED BY <1>1, <1>2, <1>3, <1>5, <1>6, <1>7, <1>8 DEF TraceInv

\* A ledger with no other request in flight than another one's.
NoMore(m, l) ==
  /\ LedgerOk(m)
  /\ DOMAIN m.inFlight \subseteq DOMAIN l.inFlight
  /\ \A k \in DOMAIN m.inFlight : m.inFlight[k] = l.inFlight[k]

LEMMA NoMoreMerged ==
  ASSUME NEW l, NEW m, NoMore(m, l), NEW key \in Keys
  PROVE  NoMore(MarkedMerged(m, key), l)
<1>1. LedgerOk(m)
  BY DEF NoMore
<1>2. QED BY <1>1, MergedIs DEF NoMore

\* The display stage of the cycle is over: c is the cycle, and l, store and d what it left.
LEMMA DisplayStageEnds ==
  ASSUME TraceInv, cycle # None, NEW c, CycleOk(c), c.epoch = epoch, c.gen = cycle.gen,
         c.range = cycle.range, c.lanesOnly = cycle.lanesOnly,
         NEW l, NoMore(l, ledger), NEW store, StoreOk(store, epoch), NEW d, DrawnOk(d, epoch),
         AfterDisplay(c, l, store, d),
         UNCHANGED <<view, due, epoch, session, gen, aborted, result>>
  PROVE  TraceInv'
<1>1. /\ SessionOk(session, epoch) /\ LanesOk(lanes, epoch) /\ LedgerOk(l)
      /\ c.window \in Windows /\ c # None
  BY NotNone DEF TraceInv, NoMore
<1>2. SessionOk(session', epoch)
  BY <1>1
<1>3. DenseKey(c) \in Keys /\ DisplayKey(c.range) \in Keys
  BY KeysOfCycle
<1>4. PICK decision : decision = DenseDecision(c, c.drawn)
  OBVIOUS
<1>5. CASE decision = "skip"
  <2>1. /\ lanes' = lanes /\ Ended(MarkedMerged(l, DenseKey(c))) /\ chunks' = store
        /\ display' = Applied(d, store, c.window, lanes.status)
    BY <1>4, <1>5 DEF AfterDisplay
  <2>2. PICK m : m = MarkedMerged(l, DenseKey(c))
    OBVIOUS
  <2>3. NoMore(m, ledger)
    BY <1>3, <2>2, NoMoreMerged
  <2>4. DrawnOk(display', epoch) /\ StoreOk(chunks', epoch) /\ LanesOk(lanes', epoch)
    BY <1>1, <2>1, AppliedIs
  <2>5. QED BY <1>2, <2>1, <2>2, <2>3, <2>4, CycleEnds DEF NoMore
<1>6. CASE decision = "use_loaded"
  <2>1. /\ lanes' = lanes
        /\ Ended(MarkedMerged(MarkedMerged(l, DisplayKey(c.range)), DenseKey(c)))
        /\ chunks' = MergedResponse(store, SpanOfBars(c.range), c.snapshot.bundle, MaxChunks)
        /\ display' = Committed(d, chunks', c.window, lanes.status)
    BY <1>4, <1>6 DEF AfterDisplay
  <2>2. PICK m : m = MarkedMerged(MarkedMerged(l, DisplayKey(c.range)), DenseKey(c))
    OBVIOUS
  <2>3. NoMore(m, ledger)
    BY <1>3, <2>2, NoMoreMerged
  <2>4. PICK b : b = c.snapshot.bundle
    OBVIOUS
  <2>5. b # None
    BY <1>4, <1>6, <2>4 DEF DenseDecision
  <2>6. b \in BundlesOf(epoch)
    BY <2>4, <2>5 DEF CycleOk, Cycles, Lanes, BundlesOf
  <2>7. PICK new : new = MergedResponse(store, SpanOfBars(c.range), b, MaxChunks)
    OBVIOUS
  <2>8. StoreOk(new, epoch)
    BY <2>6, <2>7, StoreMerged
  <2>9. chunks' = new /\ display' = Committed(d, new, c.window, lanes.status)
    BY <2>1, <2>4, <2>7
  <2>10. DrawnOk(display', epoch) /\ StoreOk(chunks', epoch) /\ LanesOk(lanes', epoch)
    BY <1>1, <2>1, <2>8, <2>9, CommittedIs
  <2>11. QED BY <1>2, <2>1, <2>2, <2>3, <2>10, CycleEnds DEF NoMore
<1>7. CASE decision = "restore"
  <2>1. /\ lanes' = [bundle |-> BundleOf(c.window), status |-> "ready", window |-> c.window]
        /\ Ended(MarkedMerged(l, DenseKey(c))) /\ chunks' = store
        /\ display' = Applied(d, store, c.window, "ready")
    BY <1>4, <1>7 DEF AfterDisplay
  <2>2. PICK m : m = MarkedMerged(l, DenseKey(c))
    OBVIOUS
  <2>3. NoMore(m, ledger)
    BY <1>3, <2>2, NoMoreMerged
  <2>4. HasBundle(c.window)
    BY <1>4, <1>7 DEF DenseDecision
  <2>5. DrawnOk(display', epoch) /\ StoreOk(chunks', epoch) /\ LanesOk(lanes', epoch)
    BY <1>1, <2>1, <2>4, AppliedIs, VisitIs
  <2>6. QED BY <1>2, <2>1, <2>2, <2>3, <2>5, CycleEnds DEF NoMore
<1>8. CASE decision \in {"fetch", "fetch_for_display"}
  <2>1. /\ cycle' = [c EXCEPT !.stage = "dense", !.use = decision]
        /\ ledger' = MarkedInFlight(l, {DenseKey(c)}, c.gen)
        /\ lanes' = [lanes EXCEPT !.status = "loading"]
        /\ chunks' = store /\ display' = d
    BY <1>4, <1>8 DEF AfterDisplay
  <2>2. PICK n : n = cycle'
    OBVIOUS
  <2>3. /\ CycleOk(n) /\ n.epoch = epoch /\ n.gen = c.gen /\ n.range = c.range
        /\ n.lanesOnly = c.lanesOnly
    BY <1>8, <2>1, <2>2 DEF CycleOk, Cycles
  <2>4. n # None /\ KeysOf(n) = KeysOf(c) /\ KeysOf(cycle) = KeysOf(c)
    BY <2>3, NotNone DEF KeysOf, Network
  <2>5. PICK key : key = DenseKey(c)
    OBVIOUS
  <2>6. key \in Keys /\ key \in KeysOf(n) /\ c.gen \in 0 .. Generations - 1
    BY <1>3, <2>4, <2>5, KeysOfCycle, NotNone
  <2>7. WithMark(MarkedInFlight(l, {key}, c.gen), l, key, c.gen)
    BY <1>1, <2>6, InFlightMarked
  <2>8. WithMark(ledger', l, key, c.gen)
    BY <2>1, <2>5, <2>7
  <2>9. Under' = {n, aborted} \ {None} /\ n \in Under'
    BY <2>2, <2>4 DEF Under
  <2>10. Owned'
    <3> SUFFICES ASSUME NEW k \in DOMAIN ledger'.inFlight
                 PROVE  \E e \in Under' : k \in KeysOf(e) /\ ledger'.inFlight[k] = e.gen
      BY KeysStay DEF Owned
    <3>1. CASE k = key
      BY <2>3, <2>6, <2>8, <2>9, <3>1 DEF WithMark
    <3>2. CASE k # key
      <4>1. k \in DOMAIN ledger.inFlight /\ ledger'.inFlight[k] = ledger.inFlight[k]
        BY <2>8, <3>2 DEF WithMark, NoMore
      <4>2. PICK e \in Under : k \in KeysOf(e) /\ ledger.inFlight[k] = e.gen
        BY <4>1 DEF TraceInv, Owned
      <4>3. CASE e = cycle
        BY <2>3, <2>4, <2>9, <4>1, <4>2, <4>3
      <4>4. CASE e # cycle
        BY <2>9, <4>1, <4>2, <4>4 DEF Under
      <4>5. QED BY <4>3, <4>4
    <3>3. QED BY <3>1, <3>2
  <2>11. Current'
    BY <2>2, <2>3 DEF Current
  <2>12. LanesOk(lanes', epoch) /\ LedgerOk(ledger')
    BY <1>1, <2>1, <2>8, LanesStatus DEF WithMark
  <2>13. \A e \in Under' : CycleOk(e)
    BY <2>3, <2>9 DEF TraceInv, Under
  <2>14. ViewOk'
    BY DEF TraceInv, ViewOk
  <2>15. QED BY <1>2, <2>1, <2>10, <2>11, <2>12, <2>13, <2>14 DEF TraceInv
<1>9. decision \in {"skip", "use_loaded", "restore", "fetch", "fetch_for_display"}
  BY <1>4 DEF DenseDecision
<1>10. QED BY <1>5, <1>6, <1>7, <1>8, <1>9

LEMMA CycleWaits ==
  ASSUME TraceInv, cycle # None
  PROVE  /\ CycleOk(cycle) /\ LedgerOk(ledger) /\ NoMore(ledger, ledger)
         /\ StoreOk(chunks, epoch) /\ DrawnOk(display, epoch) /\ LanesOk(lanes, epoch)
         /\ SessionOk(session, epoch)
         /\ IsCurrent(Network(cycle), cycle.gen) => cycle.epoch = epoch
         /\ ~ChartEvents /\ cycle.stage = "display" => cycle.epoch = epoch
<1>1. /\ LedgerOk(ledger) /\ StoreOk(chunks, epoch) /\ DrawnOk(display, epoch)
      /\ LanesOk(lanes, epoch) /\ SessionOk(session, epoch)
      /\ (\A c \in Under : CycleOk(c)) /\ Current /\ cycle \in Under
  BY DEF TraceInv, Under
<1>2. IsCurrent(Network(cycle), cycle.gen) => DOMAIN ledger.inFlight # {}
  BY DEF IsCurrent, InFlight
<1>3. QED BY <1>1, <1>2 DEF Current, NoMore

LEMMA PassKeeps ==
  ASSUME TraceInv, PassDisplay \/ FailDisplay
  PROVE  TraceInv'
<1>1. /\ cycle # None /\ AfterDisplay(cycle, ledger, chunks, display)
      /\ UNCHANGED <<view, due, epoch, session, gen, aborted, result>>
      /\ cycle.epoch = epoch
  BY CycleWaits DEF PassDisplay, FailDisplay
<1>2. PICK c, l, store, d : c = cycle /\ l = ledger /\ store = chunks /\ d = display
  OBVIOUS
<1>3. /\ CycleOk(c) /\ NoMore(l, ledger) /\ StoreOk(store, epoch) /\ DrawnOk(d, epoch)
  BY <1>1, <1>2, CycleWaits
<1>4. AfterDisplay(c, l, store, d)
  BY <1>1, <1>2
<1>5. QED BY <1>1, <1>2, <1>3, <1>4, DisplayStageEnds

LEMMA AnswerDisplayKeeps ==
  ASSUME TraceInv, AnswerDisplay
  PROVE  TraceInv'
<1>1. /\ cycle # None /\ cycle.epoch = epoch
      /\ UNCHANGED <<view, due, epoch, session, gen, aborted, result>>
  BY CycleWaits DEF AnswerDisplay
<1>2. PICK kind, b, c, l, store, d :
        /\ b = Rows(cycle.range, kind) /\ c = [cycle EXCEPT !.drawn = TRUE]
        /\ l = MarkedMerged(ledger, DisplayKey(cycle.range))
        /\ store = MergedResponse(chunks, SpanOfBars(cycle.range), b, MaxChunks)
        /\ d = Committed(display, store, cycle.window, lanes.status)
        /\ AfterDisplay(c, l, store, d)
  BY DEF AnswerDisplay
<1>3. /\ CycleOk(cycle) /\ NoMore(ledger, ledger) /\ StoreOk(chunks, epoch)
      /\ DrawnOk(display, epoch)
  BY <1>1, CycleWaits
<1>4. b \in BundlesOf(epoch)
  BY <1>1, <1>2, <1>3, RowsAre
<1>5. /\ CycleOk(c) /\ c.epoch = epoch /\ c.gen = cycle.gen /\ c.range = cycle.range
      /\ c.lanesOnly = cycle.lanesOnly
  BY <1>1, <1>2, <1>3 DEF CycleOk, Cycles
<1>6. DisplayKey(cycle.range) \in Keys
  BY <1>3, KeysOfCycle
<1>7. NoMore(l, ledger)
  BY <1>2, <1>3, <1>6, NoMoreMerged
<1>8. StoreOk(store, epoch)
  BY <1>2, <1>3, <1>4, StoreMerged
<1>9. DrawnOk(d, epoch)
  BY <1>2, <1>3, <1>8, CommittedIs
<1>10. QED BY <1>1, <1>2, <1>5, <1>7, <1>8, <1>9, DisplayStageEnds

LEMMA StaleKeeps ==
  ASSUME TraceInv, StaleAnswer
  PROVE  TraceInv'
<1>1. /\ cycle # None /\ Ended(ledger)
      /\ UNCHANGED <<view, due, epoch, session, gen, chunks, display, aborted, result>>
  BY DEF StaleAnswer
<1>2. /\ CycleOk(cycle) /\ NoMore(ledger, ledger) /\ StoreOk(chunks, epoch)
      /\ DrawnOk(display, epoch) /\ LanesOk(lanes, epoch) /\ SessionOk(session, epoch)
  BY <1>1, CycleWaits
<1>3. PICK status, l : status = cycle.snapshot.status /\ l = [lanes EXCEPT !.status = status]
  OBVIOUS
<1>4. status \in {"idle", "loading", "ready", "error"}
  BY <1>2, <1>3 DEF CycleOk, Cycles, Lanes
<1>5. LanesOk(l, epoch)
  BY <1>2, <1>3, <1>4, LanesStatus
<1>6. lanes' = lanes \/ lanes' = l
  BY <1>3 DEF StaleAnswer
<1>7. /\ LanesOk(lanes', epoch) /\ StoreOk(chunks', epoch) /\ SessionOk(session', epoch)
      /\ DrawnOk(display', epoch)
  BY <1>1, <1>2, <1>5, <1>6
<1>8. PICK m : m = ledger
  OBVIOUS
<1>9. NoMore(m, ledger) /\ Ended(m)
  BY <1>1, <1>2, <1>8
<1>10. QED BY <1>1, <1>7, <1>9, CycleEnds DEF NoMore

LEMMA AnswerDenseKeeps ==
  ASSUME TraceInv, AnswerDense
  PROVE  TraceInv'
<1>1. /\ cycle # None /\ cycle.epoch = epoch
      /\ UNCHANGED <<view, due, epoch, gen, aborted, result>>
  BY CycleWaits DEF AnswerDense
<1>2. PICK kind, b, l, store, d :
        /\ b = Rows(cycle.range, kind)
        /\ l \in {ledger, MarkedMerged(ledger, DisplayKey(cycle.range))}
        /\ store \in {chunks, MergedResponse(chunks, SpanOfBars(cycle.range), b, MaxChunks)}
        /\ d \in {display, Committed(display, store, cycle.window, "loading")}
        /\ lanes' = LanesOf(cycle, b) /\ Ended(MarkedMerged(l, DenseKey(cycle)))
        /\ session' = PutBundle(session, cycle.window, b, MaxBundles)
        /\ chunks' = store /\ display' = Applied(d, store, cycle.window, "ready")
  BY DEF AnswerDense
<1>3. /\ CycleOk(cycle) /\ NoMore(ledger, ledger) /\ StoreOk(chunks, epoch)
      /\ DrawnOk(display, epoch) /\ SessionOk(session, epoch) /\ cycle.window \in Windows
  BY <1>1, CycleWaits, NotNone
<1>4. b \in BundlesOf(epoch) /\ DOMAIN b \subseteq BarTimes(cycle.window)
  BY <1>1, <1>2, <1>3, RowsAre
<1>5. DisplayKey(cycle.range) \in Keys /\ DenseKey(cycle) \in Keys
  BY <1>3, KeysOfCycle
<1>6. NoMore(l, ledger)
  BY <1>2, <1>3, <1>5, NoMoreMerged
<1>7. PICK m : m = MarkedMerged(l, DenseKey(cycle))
  OBVIOUS
<1>8. NoMore(m, ledger) /\ Ended(m)
  BY <1>2, <1>5, <1>6, <1>7, NoMoreMerged
<1>9. StoreOk(store, epoch)
  BY <1>2, <1>3, <1>4, StoreMerged
<1>10. DrawnOk(d, epoch)
  BY <1>2, <1>3, <1>9, CommittedIs
<1>11. StoreOk(chunks', epoch) /\ DrawnOk(display', epoch)
  BY <1>2, <1>9, <1>10, AppliedIs
<1>12. SessionOk(session', epoch)
  BY <1>2, <1>3, <1>4, SessionPut
<1>13. LanesOk(lanes', epoch)
  BY <1>2, <1>3, <1>4 DEF LanesOf, LanesOk, Lanes, BundlesOf
<1>14. QED BY <1>1, <1>8, <1>11, <1>12, <1>13, CycleEnds DEF NoMore

LEMMA FailDenseKeeps ==
  ASSUME TraceInv, FailDense
  PROVE  TraceInv'
<1>1. /\ cycle # None /\ display' = Applied(display, chunks, cycle.window, "error")
      /\ lanes' = [bundle |-> None, status |-> "error", window |-> cycle.window]
      /\ UNCHANGED <<view, due, epoch, session, gen, chunks, aborted, result>>
  BY DEF FailDense
<1>2. /\ CycleOk(cycle) /\ NoMore(ledger, ledger) /\ StoreOk(chunks, epoch)
      /\ DrawnOk(display, epoch) /\ SessionOk(session, epoch) /\ cycle.window \in Windows
      /\ LedgerOk(ledger)
  BY <1>1, CycleWaits, NotNone
<1>3. PICK key : key = DenseKey(cycle)
  OBVIOUS
<1>4. key \in Keys
  BY <1>2, <1>3, KeysOfCycle
<1>5. PICK l : l \in {ledger, MarkedFailed(ledger, key)} /\ Ended(l)
  BY <1>3 DEF FailDense
<1>6. NoMore(MarkedFailed(ledger, key), ledger)
  BY <1>2, <1>4, FailedIs DEF NoMore
<1>7. NoMore(l, ledger)
  BY <1>2, <1>5, <1>6
<1>8. LanesOk(lanes', epoch)
  BY <1>1, <1>2 DEF LanesOk, Lanes
<1>9. StoreOk(chunks', epoch) /\ SessionOk(session', epoch) /\ DrawnOk(display', epoch)
  BY <1>1, <1>2, AppliedIs
<1>10. QED BY <1>1, <1>5, <1>7, <1>8, <1>9, CycleEnds DEF NoMore

(***************************************************************************)
(* What is covered is there.                                                *)
(***************************************************************************)

LEMMA StepsGrow ==
  ASSUME NEW a \in Int, NEW b \in Int
  PROVE  /\ a * Step \in Int /\ b * Step \in Int
         /\ a <= b <=> a * Step <= b * Step
<1>1. Step \in Int /\ Step > 0
  BY CapsAre DEF Caps
<1>2. a <= b => a * Step <= b * Step
  BY <1>1
<1>3. ~(a <= b) => ~(a * Step <= b * Step)
  BY <1>1
<1>4. a * Step \in Int /\ b * Step \in Int
  BY <1>1
<1>5. QED BY <1>2, <1>3, <1>4

\* A chunk reaches from its first bar to its last, and has all between them.
FullFrom(chunk, low, high) ==
  /\ chunk.from = low * Step /\ chunk.to = high * Step
  /\ DOMAIN chunk.events = {b * Step : b \in low .. high}

LEMMA ChunkIsFull ==
  ASSUME NEW e, NEW chunk \in ChunksOf(e)
  PROVE  \E low \in Int : \E high \in Int : FullFrom(chunk, low, high)
<1>1. PICK rows \in FullBundlesOf(e) : chunk = ChunkOf(NoSpan, rows)
  BY DEF ChunksOf
<1>2. Solid(DOMAIN rows) /\ DOMAIN rows # {}
  BY DEF FullBundlesOf, BundlesOf, IsOf
<1>3. PICK low \in Int : \E high \in Int : DOMAIN rows = {b * Step : b \in low .. high}
  BY <1>2 DEF Solid
<1>4. PICK high \in Int : DOMAIN rows = {b * Step : b \in low .. high}
  BY <1>3
<1>5. PICK times : times = DOMAIN rows
  OBVIOUS
<1>6. low <= high
  BY <1>2, <1>4
<1>7. low \in low .. high /\ high \in low .. high
  BY <1>6
<1>8. low * Step \in times /\ high * Step \in times
  BY <1>4, <1>5, <1>7
<1>9. \A t \in times : t \in Int /\ low * Step <= t /\ t <= high * Step
  BY <1>4, <1>5, StepsGrow
<1>10. (CHOOSE t \in times : \A u \in times : t <= u) = low * Step
  <2>1. PICK t : t = CHOOSE x \in times : \A u \in times : x <= u
    OBVIOUS
  <2>2. t \in times /\ \A u \in times : t <= u
    BY <1>8, <1>9, <2>1
  <2>3. t <= low * Step /\ low * Step <= t /\ t \in Int /\ low * Step \in Int
    BY <1>8, <1>9, <2>2
  <2>4. QED BY <2>1, <2>3
<1>11. (CHOOSE t \in times : \A u \in times : t >= u) = high * Step
  <2>1. PICK t : t = CHOOSE x \in times : \A u \in times : x >= u
    OBVIOUS
  <2>2. t \in times /\ \A u \in times : t >= u
    BY <1>8, <1>9, <2>1
  <2>3. t >= high * Step /\ t <= high * Step /\ t \in Int /\ high * Step \in Int
    BY <1>8, <1>9, <2>2
  <2>4. QED BY <2>1, <2>3
<1>12. chunk.from = low * Step /\ chunk.to = high * Step /\ chunk.events = rows
  BY <1>1, <1>5, <1>10, <1>11 DEF ChunkOf
<1>13. FullFrom(chunk, low, high)
  BY <1>4, <1>12 DEF FullFrom
<1>14. QED BY <1>13

\* Events and contexts of a chunk are of the same bars.
LEMMA BothRows ==
  ASSUME NEW store, NEW span
  PROVE  DOMAIN EventsIn(store, span) = TimesIn(store, span)
         /\ DOMAIN HtfIn(store, span) = TimesIn(store, span)
  BY DEF EventsIn, HtfIn

LEMMA CoveredIsThere ==
  ASSUME NEW e, NEW store, StoreOk(store, e), NEW w \in Windows, CoversIn(store, w)
  PROVE  TimesIn(store, SpanOfBars(w)) = BarTimes(w)
<1> DEFINE spans == [i \in DOMAIN store |-> Window(store[i].from, store[i].to)]
           span == SpanOfBars(w)
<1>1. w.from \in Nat /\ w.to \in Nat /\ w.from <= w.to
  BY WindowIs
<1>2. span.from = w.from * Step /\ span.to = w.to * Step
  BY DEF SpanOfBars, Window
<1>3. \A i \in DOMAIN store :
        \E low \in Int : \E high \in Int : FullFrom(store[i], low, high)
  <2>1. \A i \in DOMAIN store : store[i] \in ChunksOf(e)
    BY DEF StoreOk
  <2>2. QED BY <2>1, ChunkIsFull
<1>4. spans \in Seq(Spanning)
  <2>1. \A i \in DOMAIN store : store[i].from \in Int /\ store[i].to \in Int
    <3> TAKE i \in DOMAIN store
    <3>1. PICK low \in Int : \E high \in Int : FullFrom(store[i], low, high)
      BY <1>3
    <3>2. PICK high \in Int : FullFrom(store[i], low, high)
      BY <3>1
    <3>3. QED BY <3>2, StepsGrow DEF FullFrom
  <2>2. DOMAIN store = 1 .. Len(store) /\ Len(store) \in Nat
    BY DEF StoreOk
  <2>3. \A i \in DOMAIN store : Window(store[i].from, store[i].to) \in Spanning
    BY <2>1 DEF Window, Spanning
  <2>4. QED BY <2>2, <2>3
<1>5. \A i \in DOMAIN store : spans[i].from = store[i].from /\ spans[i].to = store[i].to
  BY DEF Window
<1>6. DOMAIN spans = DOMAIN store /\ SpanReach(spans, span.from) > span.to
  BY DEF CoversIn, CoversSpan
<1> HIDE DEF spans, span
<1>7. ASSUME NEW b \in w.from .. w.to
      PROVE  b * Step \in TimesIn(store, span)
  <2>1. /\ w.from \in Int /\ w.to \in Int /\ b \in Int /\ w.from <= b /\ b <= w.to
    BY <1>1
  <2>2. PICK t \in Int : t = b * Step /\ span.from <= t /\ t <= span.to
    BY <1>2, <2>1, StepsGrow
  <2>3. PICK n \in Int : /\ n = SpanReach(spans, span.from)
                         /\ \A u \in span.from .. (n - 1) : Hit(spans, u)
    BY <1>2, <1>4, <2>1, StepsGrow, ReachIsHit
  <2>4. t \in span.from .. (n - 1)
    <3>1. n > span.to /\ span.from \in Int /\ span.to \in Int
      BY <1>2, <1>6, <2>1, <2>3, StepsGrow
    <3>2. QED BY <2>2, <3>1
  <2>5. PICK i \in DOMAIN store : store[i].from <= t /\ t <= store[i].to
    BY <1>5, <1>6, <2>3, <2>4 DEF Hit
  <2>6. PICK low \in Int : \E high \in Int : FullFrom(store[i], low, high)
    BY <1>3
  <2>7. PICK high \in Int : FullFrom(store[i], low, high)
    BY <2>6
  <2>8. low <= b /\ b <= high
    BY <2>1, <2>2, <2>5, <2>7, StepsGrow DEF FullFrom
  <2>9. t \in DOMAIN store[i].events
    BY <2>1, <2>2, <2>7, <2>8 DEF FullFrom
  <2>10. QED BY <2>2, <2>9 DEF TimesIn
<1>8. ASSUME NEW t \in TimesIn(store, span)
      PROVE  t \in BarTimes(w)
  <2>1. PICK i \in DOMAIN store : t \in DOMAIN store[i].events
    BY DEF TimesIn
  <2>2. PICK low \in Int : \E high \in Int : FullFrom(store[i], low, high)
    BY <1>3
  <2>3. PICK high \in Int : FullFrom(store[i], low, high)
    BY <2>2
  <2>4. PICK b \in low .. high : t = b * Step
    BY <2>1, <2>3 DEF FullFrom
  <2>5. span.from <= b * Step /\ b * Step <= span.to
    BY <2>4 DEF TimesIn
  <2>6. w.from <= b /\ b <= w.to
    BY <1>1, <1>2, <2>5, StepsGrow
  <2>7. b \in w.from .. w.to
    BY <1>1, <2>6
  <2>8. QED BY <2>4, <2>7 DEF BarTimes
<1>9. BarTimes(w) \subseteq TimesIn(store, span)
  BY <1>7 DEF BarTimes
<1>10. QED BY <1>8, <1>9 DEF span

(***************************************************************************)
(* The theorems.                                                            *)
(***************************************************************************)

LEMMA StepKeeps == TraceInv /\ [Next]_vars => TraceInv'
<1> SUFFICES ASSUME TraceInv, [Next]_vars PROVE TraceInv'
  OBVIOUS
<1>1. CASE Environment
  BY <1>1, UserKeeps, ResetKeeps DEF Environment
<1>2. CASE Machine
  BY <1>2, EffectKeeps, DeliverKeeps, UnwindKeeps, PassKeeps, AnswerDisplayKeeps, StaleKeeps,
     AnswerDenseKeeps, FailDenseKeeps DEF Machine, Answer
<1>3. CASE UNCHANGED vars
  <2>1. UNCHANGED <<view, due, epoch, ledger, session, lanes, gen, chunks, display, cycle,
                    aborted, result>>
    BY <1>3 DEF vars
  <2>2. view' \in Views /\ due' \in BOOLEAN /\ view'.setting = view.setting
    BY <2>1 DEF TraceInv, ViewOk
  <2>3. QED BY <2>1, <2>2, ChartTurned
<1>4. QED BY <1>1, <1>2, <1>3 DEF Next

LEMMA AlwaysTraceInv == Spec => []TraceInv
  BY InitTrace, StepKeeps, PTL DEF Spec

LEMMA InvIsOfThisEpoch == TraceInv => DisplayIsOfThisEpoch
<1> SUFFICES ASSUME TraceInv PROVE DisplayIsOfThisEpoch
  OBVIOUS
<1>1. \A b \in ToSet(session) \cup {lanes} :
        /\ b.bundle # None => IsOf(b.bundle, epoch)
        /\ b.window # None /\ b.bundle # None => DOMAIN b.bundle \subseteq BarTimes(b.window)
  <2>1. LanesOk(lanes, epoch) /\ session \in Seq(VisitsOf(epoch))
    BY DEF TraceInv, SessionOk
  <2>2. \A b \in ToSet(session) : b \in VisitsOf(epoch)
    BY <2>1 DEF ToSet
  <2>3. QED BY <2>1, <2>2 DEF LanesOk, VisitsOf, BundlesOf
<1>2. \A e \in display.events : e.epoch = epoch
  BY DEF TraceInv, DrawnOk
<1>3. /\ Len(chunks) <= MaxChunks /\ Len(session) <= MaxBundles /\ Len(ledger.merged) <= MaxKeys
      /\ lanes.status \in {"idle", "loading", "ready", "error"}
      /\ lanes.window \in Windows \cup {None}
  BY DEF TraceInv, StoreOk, SessionOk, LedgerOk, LanesOk, Lanes
<1>4. TypeOK
  BY <1>1, <1>3 DEF TypeOK, TraceInv, ViewOk, Views, BarTimes
<1>5. QED BY <1>1, <1>2, <1>4 DEF DisplayIsOfThisEpoch, IsOf

LEMMA InvLeavesNothing == TraceInv => NothingLeftInFlight
<1> SUFFICES ASSUME TraceInv, cycle = None, aborted = None PROVE ledger.inFlight = <<>>
  BY DEF NothingLeftInFlight
<1>1. DOMAIN ledger.inFlight = {}
  BY DEF TraceInv, Owned, Under
<1>2. ledger.inFlight = [k \in {} |-> ledger.inFlight[k]]
  <2>1. ledger.inFlight \in Marks
    BY DEF TraceInv, LedgerOk, Ledgers
  <2>2. QED BY <1>1, <2>1, MarksAre
<1>3. QED BY <1>1, <1>2

(***************************************************************************)
(* What is drawn is what the cache holds.                                   *)
(***************************************************************************)

FreshIn(d, store) ==
  d.input # None => d = Applied(Bumped(d), store, d.input[1], d.input[2])
Fresh == FreshIn(display, chunks)

StateOf(store, w, status) ==
  IF CoversIn(store, w) THEN "current"
  ELSE IF status = "loading" THEN "loading_missing"
  ELSE IF EventsOf(store, w) # {} THEN "partial" ELSE "stale"
DrawnOn(before, store, w, status) ==
  IF StateOf(store, w, status) # "current" /\ EventsOf(store, w) = {} /\ before # {}
  THEN before ELSE EventsOf(store, w)
DisplayOf(drawn, store, w, status, input) ==
  [events |-> drawn, status |-> StateOf(store, w, status), input |-> input,
   stale |-> StateOf(store, w, status) # "current" /\ drawn # {}]

LEMMA AppliedDraws ==
  ASSUME NEW d, NEW store, NEW w, NEW status, d.input # <<w, status>>
  PROVE  Applied(d, store, w, status)
           = DisplayOf(DrawnOn(d.events, store, w, status), store, w, status, <<w, status>>)
  BY DEF Applied, DisplayOf, DrawnOn, StateOf

\* To apply again what has been applied changes nothing, however it came about.
LEMMA AppliedFresh ==
  ASSUME NEW d, NEW store, FreshIn(d, store), NEW w, NEW status
  PROVE  FreshIn(Applied(d, store, w, status), store)
<1>1. CASE d.input = <<w, status>>
  BY <1>1 DEF Applied
<1>2. CASE d.input # <<w, status>>
  <2>1. PICK drawn : drawn = DrawnOn(d.events, store, w, status)
    OBVIOUS
  <2>2. PICK r : /\ r = Applied(d, store, w, status)
                 /\ r = DisplayOf(drawn, store, w, status, <<w, status>>)
    BY <1>2, <2>1, AppliedDraws
  <2>3. r.input = <<w, status>> /\ r.events = drawn
    BY <2>2 DEF DisplayOf
  <2>4. ASSUME r.input # None
        PROVE  r = Applied(Bumped(r), store, w, status)
    <3>1. Bumped(r).input = None /\ Bumped(r).events = drawn
      BY <2>2, <2>3 DEF Bumped, DisplayOf
    <3>2. PICK b : b = Bumped(r)
      OBVIOUS
    <3>3. b.input # <<w, status>> /\ b.events = drawn
      BY <2>3, <2>4, <3>1, <3>2
    <3>4. Applied(b, store, w, status)
            = DisplayOf(DrawnOn(drawn, store, w, status), store, w, status, <<w, status>>)
      BY <3>3, AppliedDraws
    <3>5. DrawnOn(drawn, store, w, status) = drawn
      BY <2>1 DEF DrawnOn
    <3>6. QED BY <2>2, <3>2, <3>4, <3>5
  <2>5. QED BY <2>2, <2>3, <2>4 DEF FreshIn
<1>3. QED BY <1>1, <1>2

LEMMA CommittedFresh ==
  ASSUME NEW d, NEW store, NEW w, NEW status, d = [events |-> d.events, status |-> d.status,
                                                   stale |-> d.stale, input |-> d.input]
  PROVE  FreshIn(Committed(d, store, w, status), store)
<1>1. PICK b : b = Bumped(d)
  OBVIOUS
<1>2. b.input = None
  BY <1>1 DEF Bumped
<1>3. FreshIn(b, store)
  BY <1>2 DEF FreshIn
<1>4. FreshIn(Applied(b, store, w, status), store)
  BY <1>3, AppliedFresh
<1>5. QED BY <1>1, <1>4 DEF Committed

LEMMA EmptyFresh ==
  ASSUME NEW store
  PROVE  FreshIn(EmptyDisplay, store)
  BY DEF FreshIn, EmptyDisplay

\* A display of the shape a display has.
Shaped(d) == d = [events |-> d.events, status |-> d.status, stale |-> d.stale, input |-> d.input]

LEMMA AppliedShaped ==
  ASSUME NEW d, Shaped(d), NEW store, NEW w, NEW status
  PROVE  Shaped(Applied(d, store, w, status))
<1>1. CASE d.input = <<w, status>>
  BY <1>1 DEF Applied
<1>2. CASE d.input # <<w, status>>
  <2>1. PICK r : r = Applied(d, store, w, status)
    OBVIOUS
  <2>2. PICK drawn : r = DisplayOf(drawn, store, w, status, <<w, status>>)
    BY <1>2, <2>1, AppliedDraws
  <2>3. Shaped(r)
    BY <2>2 DEF Shaped, DisplayOf
  <2>4. QED BY <2>1, <2>3
<1>3. QED BY <1>1, <1>2

LEMMA FreshEffect ==
  ASSUME TraceInv, Fresh, RunEffect
  PROVE  Fresh'
<1>1. PICK d : d = AppliedNow
  OBVIOUS
<1>2. FreshIn(d, chunks) /\ Shaped(d)
  BY <1>1, AppliedFresh, AppliedShaped DEF Fresh, AppliedNow, TraceInv, DrawnOk, Shaped
<1>3. CASE BlockedEffect
  <2>1. chunks' = chunks /\ display' \in {EmptyDisplay, d}
    BY <1>1, <1>3 DEF BlockedEffect
  <2>2. QED BY <1>2, <2>1, EmptyFresh DEF Fresh
<1>4. CASE WaitingEffect \/ DisplayEffect
  <2>1. chunks' = chunks /\ display' = d
    BY <1>1, <1>4 DEF WaitingEffect, DisplayEffect
  <2>2. QED BY <1>2, <2>1 DEF Fresh
<1>5. CASE CoveredEffect \/ SkipEffect \/ LanesEffect
  <2>1. PICK w, status : /\ chunks' = chunks
                         /\ display' \in {d, Applied(d, chunks, w, status)}
    BY <1>1, <1>5 DEF CoveredEffect, SkipEffect, LanesEffect
  <2>2. FreshIn(Applied(d, chunks, w, status), chunks)
    BY <1>2, AppliedFresh
  <2>3. QED BY <1>2, <2>1, <2>2 DEF Fresh
<1>6. CASE RestoreEffect
  <2>1. PICK w, store : \/ chunks' = chunks /\ display' = Applied(d, chunks, w, "ready")
                        \/ chunks' = store /\ display' = Committed(d, store, w, "ready")
    BY <1>1, <1>6 DEF RestoreEffect
  <2>2. FreshIn(Applied(d, chunks, w, "ready"), chunks)
    BY <1>2, AppliedFresh
  <2>3. FreshIn(Committed(d, store, w, "ready"), store)
    BY <1>2, CommittedFresh DEF Shaped
  <2>4. QED BY <2>1, <2>2, <2>3 DEF Fresh
<1>7. QED BY <1>3, <1>4, <1>5, <1>6 DEF RunEffect

\* The display after the display stage, whatever the decision.
LEMMA FreshAfterDisplay ==
  ASSUME NEW c, NEW l, NEW store, NEW d, FreshIn(d, store), Shaped(d),
         AfterDisplay(c, l, store, d)
  PROVE  Fresh'
<1>1. PICK w, status, new :
        \/ chunks' = store /\ display' \in {d, Applied(d, store, w, status)}
        \/ chunks' = new /\ display' = Committed(d, new, w, status)
  <2>1. PICK decision : decision = DenseDecision(c, c.drawn)
    OBVIOUS
  <2>2. CASE decision = "skip"
    BY <2>1, <2>2 DEF AfterDisplay
  <2>3. CASE decision = "use_loaded"
    BY <2>1, <2>3 DEF AfterDisplay
  <2>4. CASE decision = "restore"
    BY <2>1, <2>4 DEF AfterDisplay
  <2>5. CASE decision \notin {"skip", "use_loaded", "restore"}
    BY <2>1, <2>5 DEF AfterDisplay
  <2>6. QED BY <2>2, <2>3, <2>4, <2>5
<1>2. FreshIn(Applied(d, store, w, status), store)
  BY AppliedFresh
<1>3. FreshIn(Committed(d, new, w, status), new)
  BY CommittedFresh DEF Shaped
<1>4. QED BY <1>1, <1>2, <1>3 DEF Fresh

LEMMA FreshAnswer ==
  ASSUME TraceInv, Fresh, PassDisplay \/ Answer
  PROVE  Fresh'
<1>1. FreshIn(display, chunks) /\ Shaped(display)
  BY DEF TraceInv, DrawnOk, Fresh, Shaped
<1>2. CASE PassDisplay \/ FailDisplay
  <2>1. PICK c, l, store, d : /\ store = chunks /\ d = display
                              /\ AfterDisplay(c, l, store, d)
    BY <1>2 DEF PassDisplay, FailDisplay
  <2>2. QED BY <1>1, <2>1, FreshAfterDisplay
<1>3. CASE AnswerDisplay
  <2>1. PICK c, l, store, d, w, status : /\ d = Committed(display, store, w, status)
                                         /\ AfterDisplay(c, l, store, d)
    BY <1>3 DEF AnswerDisplay
  <2>2. FreshIn(d, store)
    BY <1>1, <2>1, CommittedFresh DEF Shaped
  <2>3. Shaped(d)
    <3>1. PICK b : b = Bumped(display)
      OBVIOUS
    <3>2. Shaped(b)
      BY <1>1, <3>1 DEF Shaped, Bumped
    <3>3. Shaped(Applied(b, store, w, status))
      BY <3>2, AppliedShaped
    <3>4. QED BY <2>1, <3>1, <3>3 DEF Committed
  <2>4. QED BY <2>1, <2>2, <2>3, FreshAfterDisplay
<1>4. CASE StaleAnswer
  BY <1>1, <1>4 DEF StaleAnswer, Fresh
<1>5. CASE AnswerDense
  <2>1. PICK store, d, w :
          /\ \/ store = chunks /\ d = display
             \/ d = Committed(display, store, w, "loading")
          /\ chunks' = store /\ display' = Applied(d, store, w, "ready")
    BY <1>5 DEF AnswerDense
  <2>2. FreshIn(d, store)
    BY <1>1, <2>1, CommittedFresh DEF Shaped
  <2>3. FreshIn(Applied(d, store, w, "ready"), store)
    BY <2>2, AppliedFresh
  <2>4. QED BY <2>1, <2>3 DEF Fresh
<1>6. CASE FailDense
  <2>1. PICK w : chunks' = chunks /\ display' = Applied(display, chunks, w, "error")
    BY <1>6 DEF FailDense
  <2>2. FreshIn(Applied(display, chunks, w, "error"), chunks)
    BY <1>1, AppliedFresh
  <2>3. QED BY <2>1, <2>2 DEF Fresh
<1>7. QED BY <1>2, <1>3, <1>4, <1>5, <1>6 DEF Answer

LEMMA FreshStep == TraceInv /\ Fresh /\ [Next]_vars => Fresh'
<1> SUFFICES ASSUME TraceInv, Fresh, [Next]_vars PROVE Fresh'
  OBVIOUS
<1>1. CASE Boot \/ Pan \/ Rerun \/ Unwind \/ (\E w \in Windows : Commit(w) \/ Realign(w))
           \/ UNCHANGED vars
  <2>1. chunks' = chunks /\ display' = display
    BY <1>1 DEF Boot, Pan, Rerun, Unwind, Commit, Realign, vars
  <2>2. QED BY <2>1 DEF Fresh
<1>2. CASE Switch \/ Recontext \/ Reload
  <2>1. display' = EmptyDisplay
    BY <1>2 DEF Switch, Recontext, Reload, ResetAll
  <2>2. QED BY <2>1, EmptyFresh DEF Fresh
<1>3. CASE Deliver
  <2>1. PICK w, status : chunks' = chunks
                         /\ display' \in {display, Applied(display, chunks, w, status)}
    BY <1>3 DEF Deliver
  <2>2. FreshIn(Applied(display, chunks, w, status), chunks)
    BY AppliedFresh DEF Fresh
  <2>3. QED BY <2>1, <2>2 DEF Fresh
<1>4. CASE RunEffect
  BY <1>4, FreshEffect
<1>5. CASE PassDisplay \/ Answer
  BY <1>5, FreshAnswer
<1>6. QED BY <1>1, <1>2, <1>3, <1>4, <1>5 DEF Next, Environment, Machine

LEMMA AlwaysFresh == Spec => []Fresh
<1>1. Init => Fresh
  BY EmptyFresh DEF Init, Fresh
<1>2. QED BY <1>1, FreshStep, AlwaysTraceInv, PTL DEF Spec

LEMMA InvCovered == TraceInv /\ Fresh => CoveredIsDrawn
<1> SUFFICES ASSUME TraceInv, Fresh PROVE CoveredIsDrawn
  OBVIOUS
<1>1. ASSUME NEW w \in Windows, CoversIn(chunks, w)
      PROVE  /\ DOMAIN EventsIn(chunks, SpanOfBars(w)) = BarTimes(w)
             /\ DOMAIN HtfIn(chunks, SpanOfBars(w)) = BarTimes(w)
  BY <1>1, CoveredIsThere, BothRows DEF TraceInv
<1>2. QED BY <1>1 DEF CoveredIsDrawn, Fresh, FreshIn, BarTimes

(***************************************************************************)
(* After a reload, a switch of the run or of its context nothing of the     *)
(* data before is drawn, kept for a later visit or shown in the lanes, and  *)
(* every bundle kept or shown is one of its window: whatever the order of   *)
(* answers, aborts and effects, and whatever the answers held.              *)
(***************************************************************************)
THEOREM OnlyThisEpochIsDrawn == Spec => []DisplayIsOfThisEpoch
  BY AlwaysTraceInv, InvIsOfThisEpoch, PTL

(***************************************************************************)
(* Once no cycle is under way or being unwound the ledger has no request in *)
(* flight: each key marked is cleared by the cycle that marked it, by its   *)
(* abort or by a reset, whichever comes first.                              *)
(***************************************************************************)
THEOREM NothingIsLeftInFlight == Spec => []NothingLeftInFlight
  BY AlwaysTraceInv, InvLeavesNothing, PTL

(***************************************************************************)
(* A window that counts as covered has the events and the context of every  *)
(* one of its bars, whatever the server cut off its answers and the cap off *)
(* the cache; and what is drawn is what the cache holds for the window and  *)
(* the status it was drawn for.                                             *)
(***************************************************************************)
THEOREM CoveredIsAlwaysDrawn == Spec => []CoveredIsDrawn
  BY AlwaysTraceInv, AlwaysFresh, InvCovered, PTL

(***************************************************************************)
(* QuietMeansLoaded.  A user who lets each window load leaves the loader    *)
(* one thing to do at a time; what the ledger counts as answered is then    *)
(* what some window's bundle came from, and the lanes are those of the      *)
(* window shown, or its bundle is among those dropped.                      *)
(***************************************************************************)

\* No two windows end on one bar: windows of one width do not.
EndsTellApart == \A v, w \in Windows : v.to = w.to => v = w

\* The bundle of a window is kept, or the cache has had all it keeps.
Known(w) == HasBundle(w) \/ Len(session) = MaxBundles

\* One thing at a time.
InTurn ==
  /\ ~view.panning /\ aborted = None /\ ledger.failed = {}
  /\ due \/ result # None => cycle = None
  /\ due => result = None
  /\ view.intent # None => due /\ view.intent = Shown

\* A cycle is of the window shown, its request is in flight, and before the
\* display answers the lanes are as it found them.
CycleInTurn ==
  cycle # None =>
    /\ view.booted /\ Shown # None /\ cycle.window = Shown /\ cycle.range.to = Shown.to
    /\ IsCurrent(Network(cycle), cycle.gen)
    /\ cycle.stage = "display" =>
         cycle.snapshot = lanes /\ ~cycle.covered /\ ~cycle.lanesOnly
    /\ cycle.stage = "dense" => cycle.drawn

\* What counts as answered was asked for a window whose bundle is known, or by
\* the cycle under way.
Remembered ==
  \A key \in ToSet(ledger.merged) : \A w \in Windows :
    key[2].to = w.to => Known(w) \/ (cycle # None /\ cycle.window = w)

LanesKnown ==
  /\ lanes.window # None => Known(lanes.window)
  /\ (cycle # None => cycle.stage = "display") /\ lanes.window # None =>
       lanes.status = "ready"

AtRest ==
  /\ cycle = None /\ result = None => react = lanes
  /\ cycle = None /\ ~due /\ view.booted /\ Shown # None =>
       ReadyFor(lanes, Shown) \/ MayBeDropped

OrderlyState == InTurn /\ CycleInTurn /\ Remembered /\ LanesKnown /\ AtRest

\* The inductive invariant.
OrderlyInv == Orderly => OrderlyState

(* ---- the ledger and the session cache -------------------------------- *)

\* Touching a key adds no other.
LEMMA TouchedOf ==
  ASSUME NEW S, NEW keys \in Seq(S), NEW key, NEW cap \in Nat \ {0}
  PROVE  ToSet(TouchedKey(keys, key, cap)) \subseteq ToSet(keys) \cup {key}
<1> DEFINE T == ToSet(keys) \cup {key}
<1>1. keys \in Seq(T)
  <2>1. \A i \in 1 .. Len(keys) : keys[i] \in T
    BY DEF ToSet
  <2>2. keys = [i \in 1 .. Len(keys) |-> keys[i]] /\ Len(keys) \in Nat
    OBVIOUS
  <2> HIDE DEF T
  <2>3. QED BY <2>1, <2>2
<1>2. TouchedKey(keys, key, cap) \in Seq(T)
  BY <1>1, TouchedIs
<1>3. QED BY <1>2 DEF ToSet

LEMMA MergedKeys ==
  ASSUME NEW l, LedgerOk(l), NEW key \in Keys
  PROVE  /\ MarkedMerged(l, key).failed = l.failed \ {key}
         /\ ToSet(MarkedMerged(l, key).merged) \subseteq ToSet(l.merged) \cup {key}
<1>1. l \in Ledgers /\ l.merged \in Seq(Keys) /\ MaxKeys \in Nat \ {0}
  BY CapsAre DEF LedgerOk, Ledgers, Caps
<1>2. PICK keys : keys = l.merged
  OBVIOUS
<1>3. ToSet(TouchedKey(keys, key, MaxKeys)) \subseteq ToSet(keys) \cup {key}
  BY <1>1, <1>2, TouchedOf
<1>4. MarkedMerged(l, key) = [l EXCEPT !.failed = l.failed \ {key},
                                       !.merged = TouchedKey(keys, key, MaxKeys)]
  BY <1>2 DEF MarkedMerged
<1>5. QED BY <1>1, <1>2, <1>3, <1>4 DEF Ledgers

LEMMA FlightOnly ==
  ASSUME NEW l, LedgerOk(l), NEW keys, NEW g
  PROVE  /\ MarkedInFlight(l, keys, g).failed = l.failed
         /\ MarkedInFlight(l, keys, g).merged = l.merged
         /\ Cleared(l, keys, g).failed = l.failed
         /\ Cleared(l, keys, g).merged = l.merged
  BY DEF LedgerOk, Ledgers, MarkedInFlight, Cleared

\* A bundle is put into the session cache: its window is there, and another
\* leaves only a cache that is full.
LEMMA PutKnown ==
  ASSUME NEW S, NEW list \in Seq(S), NEW w, NEW bundle, NEW cap \in Nat \ {0}, Len(list) <= cap,
         [window |-> w, bundle |-> bundle] \in S,
         NEW new, new = PutBundle(list, w, bundle, cap)
  PROVE  /\ \E i \in DOMAIN new : new[i].window = w
         /\ Len(list) = cap => Len(new) = cap
         /\ \A v : (\E i \in DOMAIN list : list[i].window = v)
                     => (\E i \in DOMAIN new : new[i].window = v) \/ Len(new) = cap
<1>1. PICK entry : entry = [window |-> w, bundle |-> bundle]
  OBVIOUS
<1>2. PICK place : place = PlaceOfBundle(list, w)
  OBVIOUS
<1>3. place \in 0 .. Len(list) /\ Len(list) \in Nat /\ entry \in S /\ entry.window = w
  BY <1>1, <1>2, BundlePlace
<1>4. place # 0 => list[place].window = w
  <2> DEFINE I == {i \in 1 .. Len(list) : list[i].window = w}
  <2>1. place = IF I # {} THEN Min(I) ELSE 0
    BY <1>2 DEF PlaceOfBundle, SelectInSeq
  <2>2. I \in SUBSET Nat
    OBVIOUS
  <2>3. place # 0 => place \in I
    <3> HIDE DEF I
    <3>1. QED BY <2>1, <2>2, MinIsThere
  <2>4. QED BY <2>3
<1>5. new = Newest(Append(Without(list, place), entry), cap)
  BY <1>1, <1>2 DEF PutBundle
<1>6. CASE place = 0
  <2>1. PICK app : app = Append(list, entry)
    OBVIOUS
  <2>2. /\ app \in Seq(S) /\ Len(app) = Len(list) + 1 /\ app[Len(list) + 1] = entry
        /\ \A i \in 1 .. Len(list) : app[i] = list[i]
    BY <1>3, <2>1
  <2>3. new = Newest(app, cap)
    BY <1>5, <1>6, <2>1 DEF Without
  <2>4. CASE Len(list) = cap
    <3>1. new = SubSeq(app, 2, cap + 1)
      BY <1>3, <2>2, <2>3, <2>4 DEF Newest
    <3>2. Len(new) = cap /\ DOMAIN new = 1 .. cap /\ new[cap] = app[cap + 1]
      BY <2>2, <2>4, <3>1
    <3>3. QED BY <1>3, <2>2, <2>4, <3>2
  <2>5. CASE Len(list) # cap
    <3>1. new = app
      BY <1>3, <2>2, <2>3, <2>5 DEF Newest
    <3>2. DOMAIN app = 1 .. Len(list) + 1 /\ DOMAIN list = 1 .. Len(list)
      BY <2>2
    <3>3. ASSUME NEW v, NEW i \in DOMAIN list, list[i].window = v
          PROVE  \E j \in DOMAIN new : new[j].window = v
      <4>1. i \in DOMAIN new /\ new[i] = list[i]
        BY <1>3, <2>2, <3>1, <3>2
      <4>2. QED BY <3>3, <4>1
    <3>4. Len(list) + 1 \in DOMAIN new /\ new[Len(list) + 1].window = w
      BY <1>3, <2>2, <3>1, <3>2
    <3>5. QED BY <2>5, <3>3, <3>4
  <2>6. QED BY <2>4, <2>5
<1>7. CASE place # 0
  <2>1. PICK n \in Nat : n = Len(list)
    BY <1>3
  <2>2. PICK kept : kept = RemoveAt(list, place)
    OBVIOUS
  <2>3. kept = SubSeq(list, 1, place - 1) \o SubSeq(list, place + 1, n)
    BY <2>1, <2>2 DEF RemoveAt
  <2>4. /\ kept \in Seq(S) /\ Len(kept) = n - 1
        /\ \A i \in 1 .. n : i < place => kept[i] = list[i]
        /\ \A i \in 1 .. n : i > place => kept[i - 1] = list[i]
    <3>1. PICK low, high : low = SubSeq(list, 1, place - 1)
                           /\ high = SubSeq(list, place + 1, n)
      OBVIOUS
    <3>2. /\ low \in Seq(S) /\ Len(low) = place - 1
          /\ \A i \in 1 .. place - 1 : low[i] = list[i]
      BY <1>3, <1>7, <2>1, <3>1
    <3>3. /\ high \in Seq(S) /\ Len(high) = n - place
          /\ \A i \in 1 .. n - place : high[i] = list[place + i]
      BY <1>3, <1>7, <2>1, <3>1
    <3>4. /\ kept \in Seq(S) /\ Len(kept) = n - 1
          /\ \A i \in 1 .. place - 1 : kept[i] = low[i]
          /\ \A i \in 1 .. n - place : kept[place - 1 + i] = high[i]
      <4>1. kept = low \o high /\ place - 1 \in Nat /\ n - place \in Nat
        BY <1>3, <1>7, <2>1, <2>3, <3>1
      <4>2. /\ low \o high \in Seq(S) /\ Len(low \o high) = Len(low) + Len(high)
            /\ \A i \in 1 .. Len(low) + Len(high) :
                 (low \o high)[i] = IF i <= Len(low) THEN low[i] ELSE high[i - Len(low)]
        BY <3>2, <3>3, ConcatProperties
      <4>3. \A i \in 1 .. Len(low) + Len(high) :
               kept[i] = IF i <= Len(low) THEN low[i] ELSE high[i - Len(low)]
        BY <4>1, <4>2
      <4>4. \A i \in 1 .. n - place : kept[place - 1 + i] = high[i]
        <5> SUFFICES ASSUME NEW i \in 1 .. n - place
                     PROVE  kept[place - 1 + i] = high[i]
          OBVIOUS
        <5>1. PICK k : k = place - 1 + i
          OBVIOUS
        <5>2. k \in 1 .. Len(low) + Len(high) /\ ~(k <= Len(low)) /\ k - Len(low) = i
          BY <3>2, <3>3, <4>1, <5>1
        <5>3. kept[k] = high[k - Len(low)]
          BY <4>3, <5>2
        <5>4. QED BY <5>1, <5>2, <5>3
      <4>5. \A i \in 1 .. place - 1 : i \in 1 .. Len(low) + Len(high) /\ i <= Len(low)
        BY <3>2, <3>3, <4>1
      <4>6. \A i \in 1 .. place - 1 : kept[i] = low[i]
        BY <4>3, <4>5
      <4>7. Len(low) + Len(high) = n - 1
        BY <1>3, <2>1, <3>2, <3>3
      <4>8. QED BY <4>1, <4>2, <4>4, <4>6, <4>7
    <3>5. ASSUME NEW i \in 1 .. n, i > place
          PROVE  kept[i - 1] = list[i]
      <4>1. i - place \in 1 .. n - place /\ place - 1 + (i - place) = i - 1
            /\ place + (i - place) = i
        BY <1>3, <2>1, <3>5
      <4>2. QED BY <3>3, <3>4, <4>1
    <3>6. ASSUME NEW i \in 1 .. n, i < place
          PROVE  kept[i] = list[i]
      BY <1>3, <2>1, <3>2, <3>4, <3>6
    <3>7. QED BY <3>4, <3>5, <3>6
  <2>5. PICK app : app = Append(kept, entry)
    OBVIOUS
  <2>6. /\ app \in Seq(S) /\ Len(app) = n /\ app[n] = entry
        /\ \A i \in 1 .. n - 1 : app[i] = kept[i]
    BY <1>3, <2>1, <2>4, <2>5
  <2>7. new = app
    BY <1>5, <1>7, <2>1, <2>2, <2>5, <2>6 DEF Without, Newest
  <2>8. DOMAIN new = 1 .. n /\ DOMAIN list = 1 .. n /\ n \in 1 .. n
    BY <1>3, <1>7, <2>1, <2>6, <2>7
  <2>9. ASSUME NEW v, NEW i \in DOMAIN list, list[i].window = v
        PROVE  \E j \in DOMAIN new : new[j].window = v
    <3>1. CASE i = place
      BY <1>3, <1>4, <1>7, <2>6, <2>7, <2>8, <2>9, <3>1
    <3>2. CASE i < place
      <4>1. i \in 1 .. n - 1
        BY <1>3, <2>1, <2>8, <3>2
      <4>2. new[i].window = v
        BY <2>4, <2>6, <2>7, <2>8, <2>9, <3>2, <4>1
      <4>3. QED BY <2>8, <2>9, <4>2
    <3>3. CASE i > place
      <4>1. i - 1 \in 1 .. n - 1
        BY <1>3, <1>7, <2>1, <2>8, <3>3
      <4>2. new[i - 1].window = v
        BY <2>4, <2>6, <2>7, <2>8, <2>9, <3>3, <4>1
      <4>3. i - 1 \in DOMAIN new
        BY <2>8, <4>1
      <4>4. QED BY <4>2, <4>3
    <3>4. QED BY <1>3, <2>1, <2>8, <3>1, <3>2, <3>3
  <2>10. QED BY <1>3, <2>1, <2>6, <2>7, <2>8, <2>9
<1>8. QED BY <1>6, <1>7

(* ---- what an orderly user rules out ---------------------------------- *)

LEMMA OrderlyRules ==
  ASSUME Orderly
  PROVE  /\ ChartEvents /\ Kinds = {"full"}
         /\ "hasty" \notin Disturbances /\ "pan" \notin Disturbances
         /\ "rerun" \notin Disturbances /\ "switch" \notin Disturbances
         /\ "context" \notin Disturbances /\ "reload" \notin Disturbances
         /\ "fail" \notin Disturbances
  BY DEF Orderly, Kinds

LEMMA SettingStays ==
  ASSUME ViewOk, [Next]_vars
  PROVE  view'.setting = view.setting
<1>1. view \in Views
  BY DEF ViewOk
<1>2. CASE UNCHANGED vars
  BY <1>2 DEF vars
<1>3. CASE Environment
  BY <1>1, <1>3 DEF Environment, Boot, Pan, Rerun, Switch, Recontext, Reload, Commit, Realign,
     Views
<1>4. CASE RunEffect
  <2>1. Effect
    BY <1>4 DEF RunEffect, BlockedEffect, WaitingEffect, RestoreEffect, CoveredEffect,
       SkipEffect, DisplayEffect, LanesEffect, Loads
  <2>2. QED BY <1>1, <2>1 DEF Effect, Views
<1>5. CASE Deliver \/ Unwind \/ PassDisplay \/ Answer
  BY <1>5 DEF Deliver, Unwind, PassDisplay, Answer, AnswerDisplay, FailDisplay, StaleAnswer,
     AnswerDense, FailDense
<1>6. QED BY <1>2, <1>3, <1>4, <1>5 DEF Next, Machine

\* The last bar that is asked for is the last of the window shown.
LEMMA WantedEnds == Wanted.to = Shown.to
  BY DEF Wanted, MissingBars, Window

\* What is remembered stays so when the bundle of the window shown is known, and
\* only keys that end with that window are touched.
LEMMA StillRemembered ==
  ASSUME EndsTellApart, Remembered, NEW s \in Windows, Known(s)',
         \A w \in Windows : Known(w) => Known(w)',
         cycle # None => cycle.window = s,
         \A key \in ToSet(ledger'.merged) : key \in ToSet(ledger.merged) \/ key[2].to = s.to
  PROVE  Remembered'
<1> SUFFICES ASSUME NEW key \in ToSet(ledger'.merged), NEW w \in Windows, key[2].to = w.to
             PROVE  Known(w)'
  BY DEF Remembered
<1>1. CASE w = s
  BY <1>1
<1>2. CASE w # s
  <2>1. key \in ToSet(ledger.merged)
    BY <1>2 DEF EndsTellApart
  <2>2. Known(w) \/ (cycle # None /\ cycle.window = w)
    BY <2>1 DEF Remembered
  <2>3. QED BY <1>2, <2>2
<1>3. QED BY <1>1, <1>2

(* ---- the steps: the chart and its user ------------------------------- *)

LEMMA KnownStays ==
  ASSUME session' = session
  PROVE  \A w : Known(w)' <=> Known(w)
  BY DEF Known, HasBundle

\* The chart moves, and the effect has to run.
LEMMA MovedOn ==
  ASSUME TraceInv, OrderlyState, cycle = None, result = None, due' = TRUE,
         view'.panning = view.panning, view'.intent # None => view'.intent = Shown',
         UNCHANGED <<ledger, session, lanes, cycle, aborted, result, react>>
  PROVE  OrderlyState'
<1>1. InTurn'
  BY DEF OrderlyState, InTurn
<1>2. CycleInTurn'
  BY DEF CycleInTurn
<1>3. Remembered' /\ LanesKnown'
  BY KnownStays DEF OrderlyState, Remembered, LanesKnown
<1>4. AtRest'
  BY DEF OrderlyState, AtRest
<1>5. QED BY <1>1, <1>2, <1>3, <1>4 DEF OrderlyState

LEMMA OrderlyUser ==
  ASSUME TraceInv, Orderly, OrderlyState, Environment
  PROVE  OrderlyState'
<1>1. view \in Views
  BY DEF TraceInv, ViewOk
<1>2. CASE Boot
  <2>1. /\ due = FALSE /\ result = None /\ ~view.booted /\ due' = TRUE
        /\ view' = [view EXCEPT !.booted = TRUE]
        /\ UNCHANGED <<ledger, session, lanes, cycle, aborted, result, react>>
    BY <1>1, <1>2 DEF Boot, Still, Calm, TraceInv, ViewOk
  <2>2. cycle = None /\ view.intent = None
    BY <2>1 DEF OrderlyState, CycleInTurn, InTurn
  <2>3. view'.intent = view.intent /\ view'.panning = view.panning
    BY <1>1, <2>1 DEF Views
  <2>4. QED BY <2>1, <2>2, <2>3, MovedOn
<1>3. CASE \E w \in Windows : Commit(w) \/ Realign(w)
  <2>1. PICK w \in Windows : Commit(w) \/ Realign(w)
    BY <1>3
  <2>2. /\ MayMove /\ due' = TRUE
        /\ \/ view' = [view EXCEPT !.window = w, !.intent = w, !.panning = FALSE]
           \/ view' = [view EXCEPT !.window = w]
        /\ UNCHANGED <<ledger, session, lanes, cycle, aborted, result, react>>
    BY <2>1 DEF Commit, Realign
  <2>3. cycle = None /\ result = None /\ ~due
    BY <2>2, OrderlyRules DEF MayMove, Still, Calm
  <2>4. view.intent = None /\ view.panning = FALSE
    BY <1>1, <2>3 DEF OrderlyState, InTurn, Views
  <2>5. view'.panning = view.panning /\ (view'.intent # None => view'.intent = Shown')
    BY <1>1, <2>2, <2>4 DEF Views, Shown
  <2>6. QED BY <2>2, <2>3, <2>5, MovedOn
<1>4. ~ (Pan \/ Rerun \/ Switch \/ Recontext \/ Reload)
  BY OrderlyRules DEF Pan, Rerun, Switch, Recontext, Reload
<1>5. QED BY <1>2, <1>3, <1>4 DEF Environment

(* ---- the steps: the load effect -------------------------------------- *)

\* The effect finds nothing else under way.
LEMMA EffectInTurn ==
  ASSUME TraceInv, OrderlyState, Effect
  PROVE  /\ cycle = None /\ result = None /\ aborted = None /\ DOMAIN ledger.inFlight = {}
         /\ ~Superseded /\ ~Held /\ react = lanes
         /\ due' = FALSE /\ aborted' = None /\ react' = react
         /\ view'.intent = None /\ view'.panning = FALSE /\ view'.booted = view.booted
         /\ Shown' = Shown /\ view'.setting = view.setting
         /\ ledger.failed = {}
<1>1. view \in Views
  BY DEF TraceInv, ViewOk
<1>2. /\ due /\ due' = FALSE /\ aborted' = cycle /\ view' = [view EXCEPT !.intent = None]
      /\ react' = react
  BY DEF Effect
<1>3. /\ cycle = None /\ result = None /\ aborted = None /\ ~view.panning
      /\ (view.intent # None => view.intent = Shown) /\ ledger.failed = {}
  BY <1>2 DEF OrderlyState, InTurn
<1>4. NothingLeftInFlight
  BY InvLeavesNothing
<1>5. DOMAIN ledger.inFlight = {}
  BY <1>3, <1>4 DEF NothingLeftInFlight
<1>6. react = lanes
  BY <1>3 DEF OrderlyState, AtRest
<1>7. /\ view'.intent = None /\ view'.panning = view.panning /\ view'.booted = view.booted
      /\ Shown' = Shown /\ view'.setting = view.setting
  BY <1>1, <1>2 DEF Views, Shown
<1>8. view'.panning = FALSE
  BY <1>1, <1>3, <1>7 DEF Views
<1>9. QED BY <1>2, <1>3, <1>5, <1>6, <1>7, <1>8 DEF Superseded, Held

\* The effect ends at once.
LEMMA EffectRests ==
  ASSUME EndsTellApart, TraceInv, OrderlyState, Effect,
         NEW outcome \in {"applied", "deferred", "blocked"}, EndedAtOnce(outcome), session' = session, ledger'.failed = {},
         NEW key,
         \/ ledger'.merged = ledger.merged
         \/ /\ ToSet(ledger'.merged) \subseteq ToSet(ledger.merged) \cup {key}
            /\ ~Blocked /\ key[2].to = Shown.to /\ Known(Shown),
         LanesKnown',
         ~Blocked => ReadyFor(lanes', Shown) \/ MayBeDropped
  PROVE  OrderlyState'
<1>1. /\ cycle = None /\ cycle' = None /\ result' = outcome /\ outcome # None
      /\ due' = FALSE /\ aborted' = None /\ view'.intent = None /\ view'.panning = FALSE
      /\ Shown' = Shown /\ view'.booted = view.booted
  BY EffectInTurn, TraceAssumption DEF EndedAtOnce, TraceAssumption
<1>2. InTurn'
  BY <1>1 DEF InTurn
<1>3. CycleInTurn'
  BY <1>1 DEF CycleInTurn
<1>4. Remembered'
  <2>1. \A w : Known(w)' <=> Known(w)
    BY KnownStays
  <2>2. CASE ledger'.merged = ledger.merged
    BY <1>1, <2>1, <2>2 DEF OrderlyState, Remembered
  <2>3. CASE /\ ToSet(ledger'.merged) \subseteq ToSet(ledger.merged) \cup {key}
             /\ ~Blocked /\ key[2].to = Shown.to /\ Known(Shown)
    <3>1. PICK s : s = Shown
      OBVIOUS
    <3>2. s \in Windows /\ Known(s)' /\ key[2].to = s.to
      BY <2>1, <2>3, <3>1, EffectHas
    <3>3. Remembered
      BY DEF OrderlyState
    <3>4. QED BY <1>1, <2>1, <3>2, <3>3, StillRemembered
  <2>4. QED BY <2>2, <2>3
<1>5. AtRest'
  <2>1. MayBeDropped' <=> MayBeDropped
    BY <1>1 DEF MayBeDropped, HasBundle
  <2>2. ReadyFor(lanes, Shown)' <=> ReadyFor(lanes', Shown)
    BY <1>1 DEF ReadyFor
  <2>3. view'.booted /\ Shown' # None => ~Blocked
    BY <1>1 DEF Blocked
  <2>4. QED BY <1>1, <2>1, <2>2, <2>3 DEF AtRest
<1>6. QED BY <1>2, <1>3, <1>4, <1>5 DEF OrderlyState

LEMMA WantedKeys ==
  ASSUME Shown \in Windows
  PROVE  /\ TraceKey(Wanted) \in Keys /\ DisplayKey(Wanted) \in Keys /\ FirstKey \in Keys
         /\ TraceKey(Shown) \in Keys /\ DisplayKey(Shown) \in Keys
         /\ TraceKey(Wanted)[2].to = Shown.to /\ DisplayKey(Wanted)[2].to = Shown.to
         /\ FirstKey[2].to = Shown.to
         /\ TraceKey(Shown)[2] = Shown /\ DisplayKey(Shown)[2] = Shown
<1>1. PICK r, s : r = Wanted /\ s = Shown
  OBVIOUS
<1>2. r \in Ranges /\ s \in Ranges /\ r.to = s.to
  BY <1>1, WantedIs, WindowIs, WantedEnds
<1>3. /\ TraceKey(r) \in Keys /\ DisplayKey(r) \in Keys
      /\ TraceKey(s) \in Keys /\ DisplayKey(s) \in Keys
  BY <1>2, KeysAre
<1>4. /\ TraceKey(r)[2] = r /\ DisplayKey(r)[2] = r
      /\ TraceKey(s)[2] = s /\ DisplayKey(s)[2] = s
  BY DEF TraceKey, DisplayKey
<1>5. FirstKey = TraceKey(r) \/ FirstKey = DisplayKey(r)
  BY <1>1 DEF FirstKey
<1>6. QED BY <1>1, <1>2, <1>3, <1>4, <1>5

LEMMA BlockedRests ==
  ASSUME EndsTellApart, TraceInv, OrderlyState, BlockedEffect
  PROVE  OrderlyState'
<1>1. /\ Effect /\ Blocked /\ EndedAtOnce("blocked") /\ lanes' = NoLanes
      /\ ledger' = ledger /\ session' = session
  BY DEF BlockedEffect
<1>2. LanesKnown'
  BY <1>1 DEF LanesKnown, NoLanes
<1>3. ledger'.failed = {}
  BY <1>1, EffectInTurn
<1>4. PICK key : key = 0
  OBVIOUS
<1>5. QED BY <1>1, <1>2, <1>3, EffectRests

\* Nothing makes the effect of an orderly user wait.
LEMMA WaitingNever ==
  ASSUME TraceInv, OrderlyState
  PROVE  ~WaitingEffect
  BY EffectInTurn DEF WaitingEffect

LEMMA CoveredRests ==
  ASSUME EndsTellApart, TraceInv, Orderly, OrderlyState, CoveredEffect
  PROVE  OrderlyState'
<1>1. /\ Effect /\ ~Blocked /\ EndedAtOnce("applied") /\ lanes' = lanes
      /\ ledger' = ledger /\ session' = session /\ DisplayCovers /\ ~LanesOnly
  BY DEF CoveredEffect, Loads
<1>2. cycle = None /\ cycle' = None /\ ledger'.failed = {}
  BY <1>1, EffectInTurn DEF EndedAtOnce
<1>3. LanesKnown'
  BY <1>1, <1>2, KnownStays DEF OrderlyState, LanesKnown
<1>4. ReadyFor(lanes', Shown)
  BY <1>1, OrderlyRules DEF LanesOnly
<1>5. QED BY <1>1, <1>2, <1>3, <1>4, EffectRests

\* A request that counts as answered: the window's bundle is kept, and then the
\* lanes are its own, or it may have been dropped.
LEMMA SkipRests ==
  ASSUME EndsTellApart, TraceInv, OrderlyState, SkipEffect
  PROVE  OrderlyState'
<1>1. PICK outcome \in {"applied", "deferred", "blocked"} :
        /\ Effect /\ ~Blocked /\ EndedAtOnce(outcome) /\ lanes' = lanes
        /\ ledger' = ledger /\ session' = session /\ ~Restorable /\ ~Authorised(FirstKey)
  BY DEF SkipEffect, Loads
<1>2. /\ cycle = None /\ cycle' = None /\ ledger'.failed = {} /\ ledger.failed = {}
      /\ DOMAIN ledger.inFlight = {}
  BY <1>1, EffectInTurn DEF EndedAtOnce
<1>3. LanesKnown'
  BY <1>1, <1>2, KnownStays DEF OrderlyState, LanesKnown
<1>4. Shown \in Windows
  BY <1>1, EffectHas
<1>5. FirstKey \in ToSet(ledger.merged) /\ FirstKey[2].to = Shown.to
  BY <1>1, <1>2, <1>4, WantedKeys DEF Authorised, InFlight
<1>6. Known(Shown)
  BY <1>2, <1>4, <1>5 DEF OrderlyState, Remembered
<1>7. ReadyFor(lanes', Shown) \/ MayBeDropped
  <2>1. CASE HasBundle(Shown)
    <3>1. lanes.window = Shown /\ Shown # None
      BY <1>1, <2>1 DEF Restorable, Blocked
    <3>2. lanes.status = "ready"
      BY <1>2, <3>1 DEF OrderlyState, LanesKnown
    <3>3. QED BY <1>1, <3>1, <3>2 DEF ReadyFor
  <2>2. CASE ~HasBundle(Shown)
    BY <1>6, <2>2 DEF Known, MayBeDropped
  <2>3. QED BY <2>1, <2>2
<1>8. QED BY <1>1, <1>2, <1>3, <1>7, EffectRests

\* The lanes become those of a bundle that is kept.
LEMMA RestoredRests ==
  ASSUME EndsTellApart, TraceInv, OrderlyState, Effect, ~Blocked, EndedAtOnce("applied"),
         HasBundle(Shown), session' = session, NEW bundle,
         lanes' = [bundle |-> bundle, status |-> "ready", window |-> Shown],
         NEW key \in Keys, key[2].to = Shown.to, ledger' = MarkedMerged(ledger, key)
  PROVE  OrderlyState'
<1>1. LedgerOk(ledger)
  BY DEF TraceInv
<1>2. /\ ledger'.failed = ledger.failed \ {key}
      /\ ToSet(ledger'.merged) \subseteq ToSet(ledger.merged) \cup {key}
  BY <1>1, MergedKeys
<1>3. ledger'.failed = {} /\ Known(Shown)
  BY <1>2, EffectInTurn DEF Known
<1>4. lanes'.window = Shown /\ lanes'.status = "ready"
  OBVIOUS
<1>5. LanesKnown'
  <2>1. Known(lanes.window)'
    BY <1>4 DEF Known, HasBundle
  <2>2. QED BY <1>4, <2>1 DEF LanesKnown
<1>6. ReadyFor(lanes', Shown)
  BY <1>4 DEF ReadyFor
<1>7. QED BY <1>2, <1>3, <1>5, <1>6, EffectRests

LEMMA RestoreRests ==
  ASSUME EndsTellApart, TraceInv, OrderlyState, RestoreEffect
  PROVE  OrderlyState'
<1>1. PICK key \in {TraceKey(Shown), DisplayKey(Shown)} : ledger' = MarkedMerged(ledger, key)
  BY DEF RestoreEffect
<1>2. PICK bundle : bundle = BundleOf(Shown)
  OBVIOUS
<1>3. /\ Effect /\ ~Blocked /\ EndedAtOnce("applied") /\ HasBundle(Shown) /\ session' = session
      /\ lanes' = [bundle |-> bundle, status |-> "ready", window |-> Shown]
  BY <1>2 DEF RestoreEffect, Loads, Restorable
<1>4. Shown \in Windows
  BY <1>3, EffectHas
<1>5. key \in Keys /\ key[2].to = Shown.to
  BY <1>1, <1>4, WantedKeys
<1>6. QED BY <1>1, <1>3, <1>5, RestoredRests

\* The effect starts a cycle of the window shown.
LEMMA CycleStarts ==
  ASSUME TraceInv, OrderlyState, Effect, ~Blocked, NEW c, CycleOk(c), cycle' = c, result' = None,
         c.window = Shown, c.range = Wanted, c.gen = (gen + 2) % Generations,
         NEW key \in Keys, key = Network(c),
         ledger' = MarkedInFlight(ledger, {key}, c.gen), session' = session,
         c.stage = "display" => c.snapshot = lanes' /\ ~c.covered /\ ~c.lanesOnly,
         c.stage = "dense" => c.drawn,
         LanesKnown'
  PROVE  OrderlyState'
<1>1. /\ cycle = None /\ result' = None /\ due' = FALSE /\ aborted' = None
      /\ view'.intent = None /\ view'.panning = FALSE /\ view'.booted = view.booted
      /\ Shown' = Shown /\ view'.setting = view.setting /\ ledger.failed = {}
  BY EffectInTurn
<1>2. /\ c # None /\ c.gen \in 0 .. Generations - 1 /\ LedgerOk(ledger)
  BY NotNone DEF TraceInv
<1>3. ledger'.failed = ledger.failed /\ ledger'.merged = ledger.merged
  BY <1>2, FlightOnly
<1>4. WithMark(MarkedInFlight(ledger, {key}, c.gen), ledger, key, c.gen)
  BY <1>2, InFlightMarked
<1>5. WithMark(ledger', ledger, key, c.gen)
  BY <1>4
<1>6. key \in DOMAIN ledger'.inFlight /\ ledger'.inFlight[key] = c.gen
  BY <1>5 DEF WithMark
<1>7. InTurn'
  BY <1>1, <1>3 DEF InTurn
<1>8. CycleInTurn'
  <2>1. Network(cycle)' = key
    BY <1>1 DEF Network, DisplayKey, ChartEvents, TraceKey
  <2>2. IsCurrent(Network(cycle), cycle.gen)'
    BY <1>6, <2>1 DEF IsCurrent, InFlight
  <2>3. c.range.to = Shown.to
    BY WantedEnds
  <2>4. QED BY <1>1, <2>2, <2>3 DEF CycleInTurn, Blocked
<1>9. Remembered'
  BY <1>1, <1>3, KnownStays DEF OrderlyState, Remembered
<1>10. AtRest'
  BY <1>2 DEF AtRest
<1>11. QED BY <1>7, <1>8, <1>9, <1>10 DEF OrderlyState

LEMMA DisplayRests ==
  ASSUME TraceInv, OrderlyState, DisplayEffect
  PROVE  OrderlyState'
<1>1. PICK c : c = NewCycle(FALSE, Wanted)
  OBVIOUS
<1>2. /\ Effect /\ ~Blocked /\ cycle' = c /\ result' = None /\ session' = session /\ lanes' = lanes
      /\ ~DisplayCovers /\ ~LanesOnly /\ ledger' = MarkedInFlight(ledger, {FirstKey}, c.gen)
  BY <1>1 DEF DisplayEffect, Loads, LanesOnly
<1>3. Shown \in Windows /\ ViewOk /\ LanesOk(lanes, epoch) /\ cycle = None
  BY <1>2, EffectHas, EffectInTurn DEF TraceInv
<1>4. /\ CycleOk(c) /\ c.window = Shown /\ c.range = Wanted /\ c.gen = (gen + 2) % Generations
      /\ c.stage = "display" /\ c.lanesOnly = FALSE
  BY <1>1, <1>3, NewCycleIs
<1>5. c.snapshot = lanes /\ c.covered = DisplayCovers
  BY <1>1 DEF NewCycle
<1>6. PICK key : key = FirstKey
  OBVIOUS
<1>7. key \in Keys /\ key = Network(c)
  BY <1>2, <1>3, <1>4, <1>6, WantedKeys DEF FirstKey, Network
<1>8. LanesKnown'
  <2>1. cycle'.stage = "display"
    BY <1>2, <1>4
  <2>2. QED BY <1>2, <1>3, <2>1, KnownStays DEF OrderlyState, LanesKnown
<1>9. QED BY <1>2, <1>4, <1>5, <1>6, <1>7, <1>8, CycleStarts

LEMMA LanesRests ==
  ASSUME EndsTellApart, TraceInv, OrderlyState, LanesEffect
  PROVE  OrderlyState'
<1>1. PICK c0 : c0 = NewCycle(TRUE, Wanted)
  OBVIOUS
<1>2. PICK c : c = [c0 EXCEPT !.stage = "dense"]
  OBVIOUS
<1>3. Effect /\ ~Blocked /\ session' = session /\ LanesOnly
  BY DEF LanesEffect, Loads
<1>4. Shown \in Windows /\ ViewOk /\ LanesOk(lanes, epoch) /\ cycle = None
  BY <1>3, EffectHas, EffectInTurn DEF TraceInv
<1>5. /\ CycleOk(c0) /\ c0.window = Shown /\ c0.range = Wanted
      /\ c0.gen = (gen + 2) % Generations /\ c0.lanesOnly = TRUE
  BY <1>1, <1>4, NewCycleIs
<1>6. c0.drawn = TRUE
  BY <1>1 DEF NewCycle
<1>7. /\ CycleOk(c) /\ c.window = Shown /\ c.range = Wanted /\ c.gen = (gen + 2) % Generations
      /\ c.lanesOnly = TRUE /\ c.drawn = TRUE /\ c.stage = "dense"
  BY <1>2, <1>5, <1>6 DEF CycleOk, Cycles
<1>8. PICK key : key = TraceKey(Wanted)
  OBVIOUS
<1>9. key \in Keys /\ key[2].to = Shown.to /\ FirstKey = key /\ key = Network(c)
  BY <1>3, <1>4, <1>7, <1>8, WantedKeys DEF FirstKey, Network
<1>10. CASE DenseDecision(c, FALSE) = "restore"
  <2>1. HasBundle(Shown)
    BY <1>7, <1>10 DEF DenseDecision
  <2>2. PICK bundle : bundle = BundleOf(Shown)
    OBVIOUS
  <2>3. /\ EndedAtOnce("applied") /\ ledger' = MarkedMerged(ledger, key)
        /\ lanes' = [bundle |-> bundle, status |-> "ready", window |-> Shown]
    BY <1>1, <1>2, <1>8, <1>10, <2>2 DEF LanesEffect
  <2>4. QED BY <1>3, <1>9, <2>1, <2>3, RestoredRests
<1>11. CASE DenseDecision(c, FALSE) # "restore"
  <2>1. /\ cycle' = c /\ result' = None /\ lanes' = [lanes EXCEPT !.status = "loading"]
        /\ ledger' = MarkedInFlight(ledger, {key}, c.gen)
    BY <1>1, <1>2, <1>9, <1>11 DEF LanesEffect
  <2>2. lanes'.window = lanes.window
    BY <1>4, <2>1 DEF LanesOk, Lanes
  <2>3. c # None
    BY <1>7, NotNone
  <2>4. LanesKnown'
    <3>1. lanes.window # None => Known(lanes.window)
      BY DEF OrderlyState, LanesKnown
    <3>2. lanes'.window # None => Known(lanes.window)'
      BY <1>3, <2>2, <3>1 DEF Known, HasBundle
    <3>3. QED BY <1>7, <2>1, <2>3, <3>2 DEF LanesKnown
  <2>5. QED BY <1>3, <1>7, <1>9, <2>1, <2>4, CycleStarts
<1>12. QED BY <1>10, <1>11

(* ---- the steps: microtasks and answers ------------------------------- *)

LEMMA DeliverRests ==
  ASSUME OrderlyState, Deliver
  PROVE  OrderlyState'
<1>1. /\ result # None /\ react' = lanes /\ result' = None
      /\ UNCHANGED <<view, due, ledger, session, lanes, cycle, aborted>>
  BY DEF Deliver
<1>2. cycle = None
  BY <1>1 DEF OrderlyState, InTurn
<1>3. InTurn' /\ CycleInTurn'
  BY <1>1, <1>2 DEF OrderlyState, InTurn, CycleInTurn
<1>4. Remembered' /\ LanesKnown'
  BY <1>1, KnownStays DEF OrderlyState, Remembered, LanesKnown
<1>5. AtRest'
  <2>1. Shown' = Shown /\ (MayBeDropped' <=> MayBeDropped)
    BY <1>1 DEF Shown, MayBeDropped, HasBundle
  <2>2. ReadyFor(lanes, Shown)' <=> ReadyFor(lanes, Shown)
    BY <1>1, <2>1 DEF ReadyFor
  <2>3. QED BY <1>1, <2>1, <2>2 DEF OrderlyState, AtRest
<1>6. QED BY <1>3, <1>4, <1>5 DEF OrderlyState

\* The cycle of the window shown ends, with lanes of that window that are ready.
LEMMA CycleRests ==
  ASSUME EndsTellApart, TraceInv, OrderlyState, cycle # None, NEW l, LedgerOk(l), l.failed = {},
         \A key \in ToSet(l.merged) : key \in ToSet(ledger.merged) \/ key[2].to = Shown.to,
         Ended(l), UNCHANGED <<view, due, aborted, result>>,
         lanes'.window = Shown, lanes'.status = "ready", Known(Shown)',
         \A w \in Windows : Known(w) => Known(w)'
  PROVE  OrderlyState'
<1>1. /\ cycle' = None /\ react' = lanes' /\ ledger' = Cleared(l, KeysOf(cycle), cycle.gen)
  BY DEF Ended
<1>2. ledger'.failed = {} /\ ledger'.merged = l.merged
  BY <1>1, FlightOnly
<1>3. Shown' = Shown /\ cycle.window = Shown /\ ~due /\ result = None
  BY DEF OrderlyState, InTurn, CycleInTurn, Shown
<1>4. InTurn'
  BY <1>1, <1>2, <1>3 DEF OrderlyState, InTurn
<1>5. CycleInTurn'
  BY <1>1 DEF CycleInTurn
<1>6. Remembered'
  <2>1. PICK s : s = Shown
    OBVIOUS
  <2>2. s \in Windows /\ Known(s)'
    <3>1. CycleOk(cycle)
      BY CycleWaits
    <3>2. QED BY <1>3, <2>1, <3>1, NotNone DEF Known, HasBundle, Shown
  <2>3. Remembered
    BY DEF OrderlyState
  <2>4. QED BY <1>2, <1>3, <2>1, <2>2, <2>3, StillRemembered
<1>7. LanesKnown'
  <2>1. Known(lanes.window)'
    BY <1>3 DEF Known, HasBundle
  <2>2. QED BY <2>1 DEF LanesKnown
<1>8. AtRest'
  <2>1. ReadyFor(lanes, Shown)'
    BY <1>3 DEF ReadyFor
  <2>2. QED BY <1>1, <2>1 DEF AtRest
<1>9. QED BY <1>4, <1>5, <1>6, <1>7, <1>8 DEF OrderlyState

\* What marking a key as answered leaves in the ledger, when it ends with the window.
LEMMA MergedOfShown ==
  ASSUME NEW l, LedgerOk(l), l.failed = {}, NEW key \in Keys, key[2].to = Shown.to,
         \A k \in ToSet(l.merged) : k \in ToSet(ledger.merged) \/ k[2].to = Shown.to
  PROVE  /\ LedgerOk(MarkedMerged(l, key)) /\ MarkedMerged(l, key).failed = {}
         /\ \A k \in ToSet(MarkedMerged(l, key).merged) :
              k \in ToSet(ledger.merged) \/ k[2].to = Shown.to
  BY MergedIs, MergedKeys

LEMMA CycleKeysEnd ==
  ASSUME TraceInv, OrderlyState, cycle # None
  PROVE  /\ DisplayKey(cycle.range) \in Keys /\ TraceKey(cycle.range) \in Keys
         /\ DisplayKey(cycle.range)[2].to = Shown.to /\ TraceKey(cycle.range)[2].to = Shown.to
<1>1. CycleOk(cycle)
  BY CycleWaits
<1>2. PICK r : r = cycle.range
  OBVIOUS
<1>3. r \in Ranges /\ r.to = Shown.to
  BY <1>1, <1>2, NotNone DEF OrderlyState, CycleInTurn
<1>4. DisplayKey(r) \in Keys /\ TraceKey(r) \in Keys
  BY <1>3, KeysAre
<1>5. DisplayKey(r)[2] = r /\ TraceKey(r)[2] = r
  BY DEF DisplayKey, TraceKey
<1>6. QED BY <1>2, <1>3, <1>4, <1>5

LEMMA AnswerDisplayRests ==
  ASSUME EndsTellApart, TraceInv, Orderly, OrderlyState, AnswerDisplay
  PROVE  OrderlyState'
<1>1. /\ cycle # None /\ cycle.stage = "display"
      /\ UNCHANGED <<view, due, epoch, session, gen, aborted, result>>
  BY DEF AnswerDisplay
<1>2. PICK c, l, store, d :
        /\ c = [cycle EXCEPT !.drawn = TRUE]
        /\ l = MarkedMerged(ledger, DisplayKey(cycle.range))
        /\ AfterDisplay(c, l, store, d)
  BY DEF AnswerDisplay
<1>3. /\ CycleOk(cycle) /\ LedgerOk(ledger) /\ LanesOk(lanes, epoch)
  BY <1>1, CycleWaits
<1>4. /\ view.booted /\ Shown # None /\ cycle.window = Shown /\ cycle.range.to = Shown.to
      /\ IsCurrent(Network(cycle), cycle.gen)
      /\ cycle.snapshot = lanes /\ ~cycle.covered /\ ~cycle.lanesOnly /\ ledger.failed = {}
  BY <1>1 DEF OrderlyState, CycleInTurn, InTurn
<1>5. /\ CycleOk(c) /\ c.window = Shown /\ c.range = cycle.range /\ c.gen = cycle.gen
      /\ c.snapshot = lanes /\ c.covered = FALSE /\ c.lanesOnly = FALSE /\ c.drawn = TRUE
      /\ c.stage = "display"
  BY <1>1, <1>2, <1>3, <1>4 DEF CycleOk, Cycles
<1>6. /\ DisplayKey(cycle.range) \in Keys /\ DisplayKey(cycle.range)[2].to = Shown.to
      /\ DenseKey(c) \in Keys /\ DenseKey(c)[2].to = Shown.to
  BY <1>1, <1>5, CycleKeysEnd DEF DenseKey
<1>7. /\ LedgerOk(l) /\ l.failed = {} /\ l.inFlight = ledger.inFlight
      /\ \A k \in ToSet(l.merged) : k \in ToSet(ledger.merged) \/ k[2].to = Shown.to
  <2>1. PICK key : key = DisplayKey(cycle.range)
    OBVIOUS
  <2>2. key \in Keys /\ key[2].to = Shown.to /\ l = MarkedMerged(ledger, key)
    BY <1>2, <1>6, <2>1
  <2>3. QED BY <1>3, <1>4, <2>2, MergedIs, MergedOfShown
<1>8. PICK key : key = DenseKey(c)
  OBVIOUS
<1>9. DenseDecision(c, c.drawn) = IF ReadyFor(lanes, Shown) THEN "skip" ELSE "fetch"
  BY <1>5, OrderlyRules DEF DenseDecision
<1>a. PICK decision : decision = DenseDecision(c, c.drawn)
  OBVIOUS
<1>10. CASE ReadyFor(lanes, Shown)
  <2>0. decision = "skip"
    BY <1>9, <1>a, <1>10
  <2>1. PICK m : m = MarkedMerged(l, key)
    OBVIOUS
  <2>2. lanes' = lanes /\ Ended(m)
    BY <1>2, <1>8, <1>a, <2>0, <2>1 DEF AfterDisplay
  <2>3. /\ LedgerOk(m) /\ m.failed = {}
        /\ \A k \in ToSet(m.merged) : k \in ToSet(ledger.merged) \/ k[2].to = Shown.to
    BY <1>6, <1>7, <1>8, <2>1, MergedOfShown
  <2>4. lanes.window = Shown /\ lanes.status = "ready" /\ Known(Shown)
    BY <1>1, <1>4, <1>10 DEF ReadyFor, OrderlyState, LanesKnown
  <2>5. Known(Shown)' /\ \A w \in Windows : Known(w) => Known(w)'
    BY <1>1, <2>4 DEF Known, HasBundle, Shown
  <2>6. QED BY <1>1, <2>2, <2>3, <2>4, <2>5, CycleRests
<1>11. CASE ~ReadyFor(lanes, Shown)
  <2>0. decision = "fetch"
    BY <1>9, <1>a, <1>11
  <2>1. /\ cycle' = [c EXCEPT !.stage = "dense", !.use = "fetch"]
        /\ ledger' = MarkedInFlight(l, {key}, c.gen)
        /\ lanes' = [lanes EXCEPT !.status = "loading"]
        /\ react' = react
    BY <1>2, <1>8, <1>a, <2>0 DEF AfterDisplay
  <2>2. PICK n : n = cycle'
    OBVIOUS
  <2>3. /\ CycleOk(n) /\ n.window = Shown /\ n.range = cycle.range /\ n.gen = cycle.gen
        /\ n.lanesOnly = FALSE /\ n.drawn = TRUE /\ n.stage = "dense"
    BY <1>5, <2>1, <2>2 DEF CycleOk, Cycles
  <2>4. n # None /\ n.gen \in 0 .. Generations - 1 /\ key \in Keys /\ Shown \in Windows
    BY <1>6, <1>8, <2>3, NotNone
  <2>5. WithMark(MarkedInFlight(l, {key}, n.gen), l, key, n.gen)
    BY <1>7, <2>4, InFlightMarked
  <2>6. WithMark(ledger', l, key, n.gen)
    BY <1>5, <2>1, <2>3, <2>5
  <2>7. ledger'.failed = {} /\ ledger'.merged = l.merged
    BY <1>7, <2>1, FlightOnly
  <2>8. Shown' = Shown /\ \A w : Known(w)' <=> Known(w)
    BY <1>1, KnownStays DEF Shown
  <2>9. InTurn'
    BY <1>1, <2>7, <2>8 DEF OrderlyState, InTurn
  <2>10. CycleInTurn'
    <3>1. Network(cycle)' = Network(cycle)
      BY <1>1, <1>4, <2>2, <2>3 DEF Network, DisplayKey, ChartEvents, TraceKey
    <3>2. PICK network : network = Network(cycle)
      OBVIOUS
    <3>3. network \in DOMAIN ledger.inFlight /\ ledger.inFlight[network] = cycle.gen
      BY <1>4, <3>2 DEF IsCurrent, InFlight
    <3>4. network \in DOMAIN ledger'.inFlight /\ ledger'.inFlight[network] = n.gen
      BY <1>7, <2>3, <2>6, <3>3 DEF WithMark
    <3>5. IsCurrent(Network(cycle), cycle.gen)'
      BY <2>2, <2>3, <3>1, <3>2, <3>4 DEF IsCurrent, InFlight
    <3>6. view'.booted
      BY <1>1, <1>4
    <3>7. QED BY <1>4, <2>2, <2>3, <2>8, <3>5, <3>6 DEF CycleInTurn
  <2>11. Remembered'
    <3> SUFFICES ASSUME NEW k \in ToSet(ledger'.merged), NEW w \in Windows, k[2].to = w.to,
                        w # Shown
                 PROVE  Known(w)'
      BY <2>2, <2>3, <2>4 DEF Remembered
    <3>1. k \in ToSet(ledger.merged)
      BY <1>7, <2>4, <2>7 DEF EndsTellApart
    <3>2. Known(w) \/ (cycle # None /\ cycle.window = w)
      BY <3>1 DEF OrderlyState, Remembered
    <3>3. QED BY <1>4, <2>8, <3>2
  <2>12. LanesKnown'
    <3>1. lanes'.window = lanes.window
      BY <1>3, <2>1 DEF LanesOk, Lanes
    <3>2. lanes'.window # None => Known(lanes.window)'
      BY <1>1, <3>1 DEF OrderlyState, LanesKnown, Known, HasBundle
    <3>3. QED BY <2>2, <2>3, <2>4, <3>2 DEF LanesKnown
  <2>13. AtRest'
    BY <2>2, <2>4 DEF AtRest
  <2>14. QED BY <2>9, <2>10, <2>11, <2>12, <2>13 DEF OrderlyState
<1>12. QED BY <1>10, <1>11

LEMMA AnswerDenseRests ==
  ASSUME EndsTellApart, TraceInv, Orderly, OrderlyState, AnswerDense
  PROVE  OrderlyState'
<1>1. /\ cycle # None /\ cycle.stage = "dense"
      /\ UNCHANGED <<view, due, epoch, gen, aborted, result>>
  BY DEF AnswerDense
<1>2. cycle.drawn /\ cycle.window = Shown /\ ledger.failed = {}
  BY <1>1 DEF OrderlyState, CycleInTurn, InTurn
<1>3. PICK kind, b :
        /\ b = Rows(cycle.range, kind) /\ lanes' = LanesOf(cycle, b)
        /\ Ended(MarkedMerged(ledger, DenseKey(cycle)))
        /\ session' = PutBundle(session, cycle.window, b, MaxBundles)
  BY <1>2 DEF AnswerDense
<1>4. /\ CycleOk(cycle) /\ LedgerOk(ledger) /\ SessionOk(session, epoch)
      /\ cycle.window \in Windows /\ cycle.epoch = epoch
  BY <1>1, CycleWaits, NotNone DEF AnswerDense
<1>5. b \in BundlesOf(epoch) /\ DOMAIN b \subseteq BarTimes(cycle.window)
  BY <1>3, <1>4, RowsAre
<1>6. PICK key, m : key = DenseKey(cycle) /\ m = MarkedMerged(ledger, key)
  OBVIOUS
<1>7. key \in Keys /\ key[2].to = Shown.to
  BY <1>1, <1>6, CycleKeysEnd DEF DenseKey
<1>8. /\ LedgerOk(m) /\ m.failed = {} /\ Ended(m)
      /\ \A k \in ToSet(m.merged) : k \in ToSet(ledger.merged) \/ k[2].to = Shown.to
  BY <1>2, <1>3, <1>4, <1>6, <1>7, MergedOfShown
<1>9. PICK s, new : s = cycle.window /\ new = session'
  OBVIOUS
<1>10. /\ \E i \in DOMAIN new : new[i].window = s
       /\ Len(session) = MaxBundles => Len(new) = MaxBundles
       /\ \A v : (\E i \in DOMAIN session : session[i].window = v)
                   => (\E i \in DOMAIN new : new[i].window = v) \/ Len(new) = MaxBundles
  <2>1. session \in Seq(VisitsOf(epoch)) /\ Len(session) <= MaxBundles
        /\ MaxBundles \in Nat \ {0}
    BY <1>4, CapsAre DEF SessionOk, Caps
  <2>2. [window |-> s, bundle |-> b] \in VisitsOf(epoch)
    BY <1>4, <1>5, <1>9 DEF VisitsOf
  <2>3. new = PutBundle(session, s, b, MaxBundles)
    BY <1>3, <1>9
  <2>4. QED BY <2>1, <2>2, <2>3, PutKnown
<1>11. Known(Shown)' /\ \A w \in Windows : Known(w) => Known(w)'
  <2>1. Shown' = s
    BY <1>1, <1>2, <1>9 DEF Shown
  <2>2. QED BY <1>9, <1>10, <2>1 DEF Known, HasBundle
<1>12. lanes'.window = Shown /\ lanes'.status = "ready"
  BY <1>2, <1>3 DEF LanesOf
<1>13. QED BY <1>1, <1>8, <1>11, <1>12, CycleRests

(* ---- the theorem ----------------------------------------------------- *)

LEMMA OrderlyStarts == Init => OrderlyInv
<1> SUFFICES ASSUME Init PROVE OrderlyState
  BY DEF OrderlyInv
<1>1. /\ due = FALSE /\ ledger = NoLedger /\ lanes = NoLanes /\ cycle = None /\ aborted = None
      /\ result = None /\ react = NoLanes /\ view.panning = FALSE /\ view.intent = None
      /\ view.booted = FALSE
  BY DEF Init
<1>2. InTurn /\ CycleInTurn /\ LanesKnown /\ AtRest
  BY <1>1 DEF InTurn, CycleInTurn, LanesKnown, AtRest, NoLedger, NoLanes
<1>3. Remembered
  <2>1. ledger.merged = <<>>
    BY <1>1 DEF NoLedger
  <2>2. ToSet(ledger.merged) = {}
    BY <2>1 DEF ToSet
  <2>3. QED BY <2>2 DEF Remembered
<1>4. QED BY <1>2, <1>3 DEF OrderlyState

LEMMA OrderlySteps ==
  ASSUME EndsTellApart, TraceInv, OrderlyInv, [Next]_vars
  PROVE  OrderlyInv'
<1>1. view'.setting = view.setting
  BY SettingStays DEF TraceInv
<1>2. Orderly' => Orderly
  BY <1>1 DEF Orderly, ChartEvents, Disturbances
<1> SUFFICES ASSUME Orderly, OrderlyState PROVE OrderlyState'
  BY <1>2 DEF OrderlyInv
<1>3. CASE UNCHANGED vars
  <2>1. UNCHANGED <<view, due, ledger, session, lanes, cycle, aborted, result, react>>
    BY <1>3 DEF vars
  <2>2. InTurn'
    BY <2>1 DEF OrderlyState, InTurn, Shown
  <2>3. CycleInTurn'
    BY <2>1 DEF OrderlyState, CycleInTurn, Shown, IsCurrent, InFlight, Network, TraceKey,
       DisplayKey, ChartEvents
  <2>4. Remembered' /\ LanesKnown'
    BY <2>1, KnownStays DEF OrderlyState, Remembered, LanesKnown
  <2>5. AtRest'
    BY <2>1 DEF OrderlyState, AtRest, Shown, ReadyFor, MayBeDropped, HasBundle
  <2>6. QED BY <2>2, <2>3, <2>4, <2>5 DEF OrderlyState
<1>4. CASE Environment
  BY <1>4, OrderlyUser
<1>5. CASE RunEffect
  BY <1>5, BlockedRests, WaitingNever, RestoreRests, CoveredRests, SkipRests, DisplayRests,
     LanesRests DEF RunEffect
<1>6. CASE Deliver
  BY <1>6, DeliverRests
<1>7. CASE Unwind \/ PassDisplay \/ FailDisplay \/ StaleAnswer \/ FailDense
  <2>1. aborted = None /\ (cycle # None => IsCurrent(Network(cycle), cycle.gen))
    BY DEF OrderlyState, InTurn, CycleInTurn
  <2>2. QED BY <1>7, <2>1, OrderlyRules DEF Unwind, PassDisplay, FailDisplay, StaleAnswer,
               FailDense
<1>8. CASE AnswerDisplay \/ AnswerDense
  BY <1>8, AnswerDisplayRests, AnswerDenseRests
<1>9. QED BY <1>3, <1>4, <1>5, <1>6, <1>7, <1>8 DEF Next, Machine, Answer

LEMMA InvIsLoaded ==
  ASSUME OrderlyInv
  PROVE  QuietMeansLoaded
  BY DEF OrderlyInv, OrderlyState, AtRest, QuietMeansLoaded, Quiet, Still, Calm

(***************************************************************************)
(* Of windows that end on different bars: the lanes of the window an        *)
(* orderly user has before him are there once nothing is under way, or its  *)
(* bundle is one that a full session cache may have dropped.                *)
(***************************************************************************)
THEOREM QuietIsLoaded == ASSUME EndsTellApart PROVE Spec => []QuietMeansLoaded
<1>1. Init => OrderlyInv
  BY OrderlyStarts
<1>2. TraceInv /\ OrderlyInv /\ [Next]_vars => OrderlyInv'
  BY OrderlySteps
<1>3. OrderlyInv => QuietMeansLoaded
  BY InvIsLoaded
<1>4. QED BY <1>1, <1>2, <1>3, AlwaysTraceInv, PTL DEF Spec

(***************************************************************************)
(* The chunks of a market series.                                           *)
(***************************************************************************)

\* Rows of bars, and chunks with any rows.
RowSets == UNION {[bars -> Values] : bars \in SUBSET Int}
AnyChunks == [from : Int, to : Int, rows : RowSets]

\* A kind of chunks: two that touch are joined to one of the kind.
JoinedChunk(last, c) ==
  Chunk(last.from, Larger(last.to, c.to), Deduped(last.rows, c.rows))
Kind(C) ==
  /\ \A c \in C : c \in AnyChunks /\ c.from <= c.to
  /\ \A last, c \in C :
       last.from <= c.from /\ c.from <= last.to => JoinedChunk(last, c) \in C

LEMMA OfKind ==
  ASSUME NEW C, Kind(C), NEW c \in C
  PROVE  /\ c \in AnyChunks /\ c.from \in Int /\ c.to \in Int /\ c.from <= c.to
         /\ c.rows \in RowSets
BY DEF Kind, AnyChunks

Apart(list) == \A i, j \in DOMAIN list : i < j => list[i].to < list[j].from
\* The first n chunks of a list have a bar; some chunk of it has.
Among(list, n, b) == \E i \in 1 .. n : list[i].from <= b /\ b < list[i].to
In(list, b) == \E i \in DOMAIN list : list[i].from <= b /\ b < list[i].to

LEMMA RowSetsAre ==
  ASSUME NEW f
  PROVE  f \in RowSets <=> /\ f = [b \in DOMAIN f |-> f[b]]
                           /\ \A b \in DOMAIN f : b \in Int /\ f[b] \in Values
<1>1. ASSUME f \in RowSets
      PROVE  /\ f = [b \in DOMAIN f |-> f[b]]
             /\ \A b \in DOMAIN f : b \in Int /\ f[b] \in Values
  BY <1>1 DEF RowSets
<1>2. ASSUME f = [b \in DOMAIN f |-> f[b]],
             \A b \in DOMAIN f : b \in Int /\ f[b] \in Values
      PROVE  f \in RowSets
  <2>1. f \in [DOMAIN f -> Values] /\ DOMAIN f \in SUBSET Int
    BY <1>2
  <2>2. QED BY <2>1 DEF RowSets
<1>3. QED BY <1>1, <1>2

LEMMA DedupedIs ==
  ASSUME NEW f \in RowSets, NEW g \in RowSets
  PROVE  Deduped(f, g) \in RowSets /\ DOMAIN Deduped(f, g) = DOMAIN f \cup DOMAIN g
<1>1. PICK h : h = Deduped(f, g)
  OBVIOUS
<1>2. /\ h = [b \in DOMAIN h |-> h[b]] /\ DOMAIN h = DOMAIN f \cup DOMAIN g
      /\ \A b \in DOMAIN h : h[b] = IF b \in DOMAIN g THEN g[b] ELSE f[b]
  BY <1>1 DEF Deduped
<1>3. \A b \in DOMAIN h : b \in Int /\ h[b] \in Values
  BY <1>2, RowSetsAre
<1>4. h \in RowSets
  BY <1>2, <1>3, RowSetsAre
<1>5. QED BY <1>1, <1>2, <1>4

LEMMA LastIs ==
  ASSUME NEW S, NEW done \in Seq(S), done # <<>>
  PROVE  Len(done) \in Nat \ {0} /\ Last(done) = done[Len(done)] /\ Last(done) \in S
BY DEF Last

\* A list whose last element gives way to another.
LEMMA LastReplaced ==
  ASSUME NEW S, NEW done \in Seq(S), done # <<>>, NEW x \in S
  PROVE  /\ Len(done) \in Nat \ {0} /\ Last(done) = done[Len(done)]
         /\ Front(done) \o <<x>> \in Seq(S) /\ Len(Front(done) \o <<x>>) = Len(done)
         /\ \A i \in 1 .. Len(done) :
              (Front(done) \o <<x>>)[i] = IF i = Len(done) THEN x ELSE done[i]
<1>1. Len(done) \in Nat \ {0} /\ Last(done) = done[Len(done)]
      /\ Front(done) = SubSeq(done, 1, Len(done) - 1)
  BY DEF Last, Front
<1>2. PICK k \in Nat : k = Len(done) - 1
  BY <1>1
<1>3. PICK front : front = SubSeq(done, 1, k)
  OBVIOUS
<1>4. front \in Seq(S) /\ Len(front) = k /\ \A i \in 1 .. k : front[i] = done[i]
  BY <1>1, <1>2, <1>3
<1>5. /\ front \o <<x>> \in Seq(S) /\ Len(front \o <<x>>) = k + 1
      /\ \A i \in 1 .. k + 1 : (front \o <<x>>)[i] = IF i = k + 1 THEN x ELSE front[i]
  BY <1>4
<1>6. k + 1 = Len(done)
  BY <1>1, <1>2
<1>7. QED BY <1>1, <1>2, <1>3, <1>4, <1>5, <1>6

\* What Coalesced folds.
AbsorbChunk(done, c) ==
  IF done # <<>> /\ c.from <= Last(done).to
  THEN Front(done) \o <<JoinedChunk(Last(done), c)>>
  ELSE Append(done, c)

LEMMA JoinedChunkIs ==
  ASSUME NEW last \in AnyChunks, NEW c \in AnyChunks
  PROVE  JoinedChunk(last, c) \in AnyChunks
<1>1. Larger(last.to, c.to) \in Int
  BY DEF AnyChunks, Larger
<1>2. Deduped(last.rows, c.rows) \in RowSets
  BY DedupedIs DEF AnyChunks
<1>3. QED BY <1>1, <1>2 DEF AnyChunks, Chunk, JoinedChunk

LEMMA AbsorbsAny ==
  ASSUME NEW done \in Seq(AnyChunks), NEW c \in AnyChunks
  PROVE  AbsorbChunk(done, c) \in Seq(AnyChunks)
<1>1. CASE done # <<>> /\ c.from <= Last(done).to
  <2>1. Last(done) \in AnyChunks
    BY <1>1, LastIs
  <2>2. PICK new \in AnyChunks : new = JoinedChunk(Last(done), c)
    BY <2>1, JoinedChunkIs
  <2>3. QED BY <1>1, <2>2, LastReplaced DEF AbsorbChunk
<1>2. CASE ~(done # <<>> /\ c.from <= Last(done).to)
  BY <1>2 DEF AbsorbChunk
<1>3. QED BY <1>1, <1>2

\* Of two chunks that touch, the joined one has the bars of both.
LEMMA JoinedIs ==
  ASSUME NEW C, Kind(C), NEW last \in C, NEW c \in C,
         last.from <= c.from, c.from <= last.to,
         NEW new, new = JoinedChunk(last, c)
  PROVE  /\ new \in C /\ new.from = last.from
         /\ \A b \in Int : new.from <= b /\ b < new.to
                          <=> (last.from <= b /\ b < last.to) \/ (c.from <= b /\ b < c.to)
<1>1. /\ last.from \in Int /\ last.to \in Int /\ last.from <= last.to
      /\ c.from \in Int /\ c.to \in Int /\ c.from <= c.to
  BY OfKind
<1>2. PICK to \in Int : /\ to = Larger(last.to, c.to) /\ to >= last.to /\ to >= c.to
                         /\ (to = last.to \/ to = c.to)
  BY <1>1 DEF Larger
<1>3. new.from = last.from /\ new.to = to
  BY <1>2 DEF Chunk, JoinedChunk
<1>4. new \in C
  BY DEF Kind
<1>5. QED BY <1>1, <1>2, <1>3, <1>4

\* A chunk that starts no earlier than the last is taken in, and the list
\* stays apart.
Taken(C, done, c, new) ==
  /\ new \in Seq(C) /\ Apart(new) /\ new # <<>> /\ Last(new).from <= c.from
  /\ \A b \in Int : In(new, b) <=> In(done, b) \/ (c.from <= b /\ b < c.to)

LEMMA AbsorbTakes ==
  ASSUME NEW C, Kind(C), NEW done \in Seq(C), Apart(done), NEW c \in C,
         done # <<>> => Last(done).from <= c.from
  PROVE  Taken(C, done, c, AbsorbChunk(done, c))
<1>1. CASE done # <<>> /\ c.from <= Last(done).to
  <2>1. PICK n \in Nat \ {0} : n = Len(done)
    BY <1>1, LastIs
  <2>2. Last(done) = done[n] /\ Last(done) \in C
    BY <1>1, <2>1, LastIs
  <2>3. PICK x : x = JoinedChunk(Last(done), c)
    OBVIOUS
  <2>4. /\ x \in C /\ x.from = done[n].from
        /\ \A b \in Int : x.from <= b /\ b < x.to
              <=> (done[n].from <= b /\ b < done[n].to) \/ (c.from <= b /\ b < c.to)
    BY <1>1, <2>2, <2>3, JoinedIs
  <2>5. PICK new : new = Front(done) \o <<x>>
    OBVIOUS
  <2>6. /\ new \in Seq(C) /\ Len(new) = n
        /\ \A i \in 1 .. n : new[i] = IF i = n THEN x ELSE done[i]
    BY <1>1, <2>1, <2>4, <2>5, LastReplaced
  <2>7. AbsorbChunk(done, c) = new
    BY <1>1, <2>3, <2>5 DEF AbsorbChunk
  <2>8. DOMAIN new = 1 .. n /\ DOMAIN done = 1 .. n
    BY <2>1, <2>6
  <2>9. Apart(new)
    <3>1. ASSUME NEW i \in 1 .. n, NEW j \in 1 .. n, i < j
          PROVE  new[i].to < new[j].from
      <4>1. done[i].to < done[j].from
        BY <2>8, <3>1 DEF Apart
      <4>2. new[i] = done[i] /\ new[j].from = done[j].from
        BY <2>4, <2>6, <3>1
      <4>3. QED BY <4>1, <4>2
    <3>2. QED BY <2>8, <3>1 DEF Apart
  <2>10. new # <<>> /\ Last(new) = x /\ Last(new).from <= c.from
    <3>1. new # <<>>
      BY <2>6
    <3>2. Last(new) = new[n]
      BY <2>6, <3>1, LastIs
    <3>3. n \in 1 .. n
      BY <2>1
    <3>4. QED BY <1>1, <2>2, <2>4, <2>6, <3>1, <3>2, <3>3
  <2>11. ASSUME NEW b \in Int
         PROVE  In(new, b) <=> In(done, b) \/ (c.from <= b /\ b < c.to)
    <3>1. n \in 1 .. n
      BY <2>1
    <3>2. ASSUME In(new, b) PROVE In(done, b) \/ (c.from <= b /\ b < c.to)
      <4>1. PICK i \in 1 .. n : new[i].from <= b /\ b < new[i].to
        BY <2>8, <3>2 DEF In
      <4>2. CASE i = n
        BY <2>4, <2>6, <2>8, <3>1, <4>1, <4>2 DEF In
      <4>3. CASE i # n
        BY <2>6, <2>8, <4>1, <4>3 DEF In
      <4>4. QED BY <4>2, <4>3
    <3>3. ASSUME In(done, b) PROVE In(new, b)
      <4>1. PICK i \in 1 .. n : done[i].from <= b /\ b < done[i].to
        BY <2>8, <3>3 DEF In
      <4>2. CASE i = n
        BY <2>4, <2>6, <2>8, <3>1, <4>1, <4>2 DEF In
      <4>3. CASE i # n
        BY <2>6, <2>8, <4>1, <4>3 DEF In
      <4>4. QED BY <4>2, <4>3
    <3>4. ASSUME c.from <= b, b < c.to PROVE In(new, b)
      BY <2>4, <2>6, <2>8, <3>1, <3>4 DEF In
    <3>5. QED BY <3>2, <3>3, <3>4
  <2>12. Taken(C, done, c, new)
    BY <2>6, <2>9, <2>10, <2>11 DEF Taken
  <2>13. QED BY <2>7, <2>12
<1>2. CASE ~(done # <<>> /\ c.from <= Last(done).to)
  <2>1. PICK n \in Nat : n = Len(done)
    OBVIOUS
  <2>2. PICK new : new = Append(done, c)
    OBVIOUS
  <2>3. /\ new \in Seq(C) /\ Len(new) = n + 1 /\ new # <<>>
        /\ new[n + 1] = c /\ \A i \in 1 .. n : new[i] = done[i]
    BY <2>1, <2>2
  <2>4. DOMAIN new = 1 .. n + 1 /\ DOMAIN done = 1 .. n
    BY <2>1, <2>3
  <2>5. \A i \in 1 .. n : done[i].to < c.from
    <3>1. ASSUME NEW i \in 1 .. n PROVE done[i].to < c.from
      <4>1. n # 0 /\ done # <<>>
        BY <2>1
      <4>2. done[n].to < c.from /\ n \in 1 .. n
        <5>1. /\ Last(done) = done[n] /\ Last(done) \in C
              /\ ~(c.from <= Last(done).to)
          BY <1>2, <2>1, <4>1, LastIs
        <5>2. c.from \in Int /\ done[n].to \in Int
          BY <5>1, OfKind
        <5>3. QED BY <2>1, <4>1, <5>1, <5>2
      <4>3. CASE i = n
        BY <4>2, <4>3
      <4>4. CASE i # n
        <5>1. done[i].to < done[n].from
          BY <2>4, <4>2, <4>4 DEF Apart
        <5>2. done[i] \in C /\ done[n] \in C
          BY <2>4, <4>2
        <5>3. done[n].from <= done[n].to /\ done[n].from \in Int /\ done[n].to \in Int
              /\ done[i].to \in Int /\ c.from \in Int
          BY <5>2, OfKind
        <5>4. QED BY <4>2, <5>1, <5>3
      <4>5. QED BY <4>3, <4>4
    <3>2. QED BY <3>1
  <2>6. Apart(new)
    <3>1. ASSUME NEW i \in 1 .. n + 1, NEW j \in 1 .. n + 1, i < j
          PROVE  new[i].to < new[j].from
      <4>1. i \in 1 .. n /\ new[i] = done[i]
        BY <2>3, <3>1
      <4>2. CASE j = n + 1
        BY <2>3, <2>5, <4>1, <4>2
      <4>3. CASE j # n + 1
        <5>1. j \in 1 .. n /\ new[j] = done[j]
          BY <2>3, <4>3
        <5>2. QED BY <2>4, <3>1, <4>1, <5>1 DEF Apart
      <4>4. QED BY <4>2, <4>3
    <3>2. QED BY <2>4, <3>1 DEF Apart
  <2>7. Last(new) = c /\ Last(new).from <= c.from
    <3>1. Last(new) = new[n + 1] /\ c.from \in Int
      BY <2>3, LastIs, OfKind
    <3>2. QED BY <2>3, <3>1
  <2>8. ASSUME NEW b \in Int
        PROVE  In(new, b) <=> In(done, b) \/ (c.from <= b /\ b < c.to)
    <3>1. \A i \in 1 .. n + 1 : i = n + 1 \/ i \in 1 .. n
      OBVIOUS
    <3>2. n + 1 \in 1 .. n + 1 /\ \A i \in 1 .. n : i \in 1 .. n + 1
      OBVIOUS
    <3>3. QED BY <2>3, <2>4, <3>1, <3>2 DEF In
  <2>9. AbsorbChunk(done, c) = new
    BY <1>2, <2>2 DEF AbsorbChunk
  <2>10. Taken(C, done, c, new)
    BY <2>3, <2>6, <2>7, <2>8 DEF Taken
  <2>11. QED BY <2>9, <2>10
<1>3. QED BY <1>1, <1>2

\* The first n of a sort are of the list.
OfList(sorted, n, list) == \A m \in 1 .. n : \E j \in DOMAIN list : sorted[m] = list[j]

\* A full chunk of the sort is of the list, and the sort has the same bars.
LEMMA SortedChunks ==
  ASSUME NEW C, Kind(C), NEW list \in Seq(C), NEW n \in Nat, n = Len(list),
         NEW sorted, sorted = ByStart(list)
  PROVE  /\ DOMAIN sorted = 1 .. n /\ \A m \in 1 .. n : sorted[m] \in C
         /\ \A m \in 2 .. n : sorted[m - 1].from <= sorted[m].from
         /\ OfList(sorted, n, list)
         /\ \A b \in Int : Among(sorted, n, b) <=> In(list, b)
<1>1. DOMAIN list = 1 .. n /\ \A i \in 1 .. n : list[i] \in C
  OBVIOUS
<1>2. \A i \in 1 .. n : list[i].from \in Int
  BY <1>1, OfKind
<1>3. /\ DOMAIN sorted = 1 .. n
      /\ \A m \in 1 .. n : \E j \in 1 .. n : sorted[m] = list[j]
      /\ \A j \in 1 .. n : \E m \in 1 .. n : sorted[m] = list[j]
      /\ \A m \in 2 .. n : sorted[m - 1].from <= sorted[m].from
  <2>1. \A i \in DOMAIN list : list[i].from \in Int
    BY <1>1, <1>2
  <2>2. /\ DOMAIN ByStart(list) = DOMAIN list
        /\ \A m \in DOMAIN list : \E j \in DOMAIN list : ByStart(list)[m] = list[j]
        /\ \A j \in DOMAIN list : \E m \in DOMAIN list : ByStart(list)[m] = list[j]
        /\ \A m \in 2 .. Len(list) : ByStart(list)[m - 1].from <= ByStart(list)[m].from
    BY <2>1, ByStartIs
  <2>3. QED BY <1>1, <2>2
<1>4. ASSUME NEW b \in Int PROVE Among(sorted, n, b) <=> In(list, b)
  <2>1. ASSUME Among(sorted, n, b) PROVE In(list, b)
    <3>1. PICK m \in 1 .. n : sorted[m].from <= b /\ b < sorted[m].to
      BY <2>1 DEF Among
    <3>2. PICK j \in 1 .. n : sorted[m] = list[j]
      BY <1>3
    <3>3. QED BY <1>1, <3>1, <3>2 DEF In
  <2>2. ASSUME In(list, b) PROVE Among(sorted, n, b)
    <3>1. PICK j \in 1 .. n : list[j].from <= b /\ b < list[j].to
      BY <1>1, <2>2 DEF In
    <3>2. PICK m \in 1 .. n : sorted[m] = list[j]
      BY <1>3
    <3>3. QED BY <3>1, <3>2 DEF Among
  <2>3. QED BY <2>1, <2>2
<1>5. OfList(sorted, n, list)
  <2>1. ASSUME NEW m \in 1 .. n PROVE \E j \in DOMAIN list : sorted[m] = list[j]
    <3>1. PICK j \in 1 .. n : sorted[m] = list[j]
      BY <1>3
    <3>2. QED BY <1>1, <3>1
  <2>2. QED BY <2>1 DEF OfList
<1>6. ASSUME NEW m \in 1 .. n PROVE sorted[m] \in C
  <2>1. PICK j \in 1 .. n : sorted[m] = list[j]
    BY <1>3
  <2>2. QED BY <1>1, <2>1
<1>7. DOMAIN sorted = 1 .. n /\ \A m \in 2 .. n : sorted[m - 1].from <= sorted[m].from
  BY <1>3
<1>8. QED BY <1>4, <1>5, <1>6, <1>7

\* The fold of Coalesced, place by place.
LEMMA CoalescedFolds ==
  ASSUME NEW C, Kind(C), NEW list \in Seq(C), NEW n \in Nat, n = Len(list),
         NEW sorted, sorted = ByStart(list)
  PROVE  \E h : /\ Coalesced(list) = h[1 .. n] /\ h[{}] = <<>>
               /\ \A m \in 1 .. n : h[1 .. m] = AbsorbChunk(h[1 .. (m - 1)], sorted[m])
<1> DEFINE A == Seq(AnyChunks)
           step == [p \in A \X (1 .. n) |-> AbsorbChunk(p[1], sorted[p[2]])]
           Folds(h) == h = [s \in SUBSET (1 .. n) |->
                              IF s = {} THEN <<>>
                              ELSE AbsorbChunk(h[s \ {Max(s)}], sorted[Max(s)])]
<1>1. DOMAIN sorted = 1 .. n /\ \A m \in 1 .. n : sorted[m] \in AnyChunks
  BY SortedChunks, OfKind
<1>2. Coalesced(list) = (CHOOSE h : Folds(h))[1 .. n]
  <2>1. Len(sorted) = n
    BY <1>1
  <2>2. QED BY <1>1, <2>1 DEF Coalesced, FoldLeft, MapThenFoldSet, AbsorbChunk, JoinedChunk
<1>3. <<>> \in A /\ \A x \in A, m \in 1 .. n : AbsorbChunk(x, sorted[m]) \in A
  BY <1>1, AbsorbsAny
<1> HIDE DEF A
<1>4. step \in [A \X (1 .. n) -> A]
  BY <1>3
<1>5. \A x \in A, m \in 1 .. n : step[x, m] = AbsorbChunk(x, sorted[m])
  OBVIOUS
<1> HIDE DEF step
<1>6. \E h : Folds(h)
  <2>1. PICK h \in [SUBSET (1 .. n) -> A] : FoldsWith(h, n, <<>>, step)
    BY <1>3, <1>4, FoldExists
  <2>2. ASSUME NEW s \in SUBSET (1 .. n), s # {}
        PROVE  h[s] = AbsorbChunk(h[s \ {Max(s)}], sorted[Max(s)])
    <3>1. Max(s) \in 1 .. n /\ s \ {Max(s)} \in SUBSET (1 .. n)
      BY <2>2, MaxIsThere
    <3>2. h[s] = step[h[s \ {Max(s)}], Max(s)] /\ h[s \ {Max(s)}] \in A
      BY <2>1, <2>2, <3>1 DEF FoldsWith
    <3>3. QED BY <1>5, <3>1, <3>2
  <2>3. h[{}] = <<>>
    BY <2>1 DEF FoldsWith
  <2>4. Folds(h)
    BY <2>1, <2>2, <2>3
  <2>5. QED BY <2>4
<1>7. PICK h : h = CHOOSE g : Folds(g)
  OBVIOUS
<1>8. Folds(h)
  BY <1>6, <1>7
<1>9. h[{}] = <<>>
  BY <1>8
<1>10. ASSUME NEW m \in 1 .. n
       PROVE  h[1 .. m] = AbsorbChunk(h[1 .. (m - 1)], sorted[m])
  <2>1. h[1 .. m] = AbsorbChunk(h[(1 .. m) \ {Max(1 .. m)}], sorted[Max(1 .. m)])
    BY <1>8, PrefixIs
  <2>2. QED BY <2>1, PrefixIs
<1>11. Coalesced(list) = h[1 .. n]
  BY <1>2, <1>7
<1> HIDE DEF Folds
<1>12. QED BY <1>9, <1>10, <1>11

\* A list in which the chunks are full and apart and have the bars of another,
\* none of them starting elsewhere.
Settled(C, new, list) ==
  /\ new \in Seq(C) /\ Apart(new)
  /\ \A i \in DOMAIN new : \E j \in DOMAIN list : new[i].from = list[j].from
  /\ \A b \in Int : In(new, b) <=> In(list, b)

\* Every chunk starts where one of the first m of a sort does.
StartsAmong(done, sorted, m) ==
  \A i \in DOMAIN done : \E k \in 1 .. m : done[i].from = sorted[k].from

LEMMA AbsorbStarts ==
  ASSUME NEW C, Kind(C), NEW done \in Seq(C), NEW m \in Nat \ {0}, NEW sorted, sorted[m] \in C,
         StartsAmong(done, sorted, m - 1)
  PROVE  StartsAmong(AbsorbChunk(done, sorted[m]), sorted, m)
<1>1. PICK n \in Nat : n = Len(done) /\ DOMAIN done = 1 .. n
  OBVIOUS
<1>2. ASSUME NEW i \in 1 .. n PROVE \E k \in 1 .. m : done[i].from = sorted[k].from
  <2>1. PICK k \in 1 .. (m - 1) : done[i].from = sorted[k].from
    BY <1>1 DEF StartsAmong
  <2>2. k \in 1 .. m
    OBVIOUS
  <2>3. QED BY <2>1, <2>2
<1>3. m \in 1 .. m
  OBVIOUS
<1>4. PICK c : c = sorted[m]
  OBVIOUS
<1>5. PICK new : new = AbsorbChunk(done, c)
  OBVIOUS
<1>6. CASE done # <<>> /\ c.from <= Last(done).to
  <2>1. n \in Nat \ {0} /\ Last(done) = done[n] /\ Last(done) \in C
    BY <1>1, <1>6, LastIs
  <2>2. c \in C /\ Last(done).from \in Int /\ Last(done).to \in Int
    BY <1>4, <2>1, OfKind
  <2>3. PICK x : x = JoinedChunk(Last(done), c)
    OBVIOUS
  <2>4. x.from = Last(done).from
    BY <2>3 DEF JoinedChunk, Chunk
  <2>5. PICK S : S = C \cup {x}
    OBVIOUS
  <2>6. done \in Seq(S) /\ x \in S
    BY <1>1, <2>5
  <2>7. new = Front(done) \o <<x>>
    BY <1>5, <1>6, <2>3 DEF AbsorbChunk
  <2>8. /\ new \in Seq(S) /\ Len(new) = n
        /\ \A i \in 1 .. n : new[i] = IF i = n THEN x ELSE done[i]
    BY <1>1, <1>6, <2>6, <2>7, LastReplaced
  <2>9. ASSUME NEW i \in 1 .. n PROVE new[i].from = done[i].from
    BY <2>1, <2>4, <2>8
  <2>10. DOMAIN new = 1 .. n
    BY <2>8
  <2>11. StartsAmong(new, sorted, m)
    BY <1>2, <2>9, <2>10 DEF StartsAmong
  <2>12. QED BY <1>4, <1>5, <2>11
<1>7. CASE ~(done # <<>> /\ c.from <= Last(done).to)
  <2>1. new = Append(done, c)
    BY <1>5, <1>7 DEF AbsorbChunk
  <2>2. /\ DOMAIN new = 1 .. n + 1 /\ new[n + 1] = c
        /\ \A i \in 1 .. n : new[i] = done[i]
    BY <1>1, <1>4, <2>1
  <2>3. \A i \in 1 .. n + 1 : i = n + 1 \/ i \in 1 .. n
    OBVIOUS
  <2>4. StartsAmong(new, sorted, m)
    BY <1>2, <1>3, <1>4, <2>2, <2>3 DEF StartsAmong
  <2>5. QED BY <1>4, <1>5, <2>4
<1>8. QED BY <1>6, <1>7

\* What has become of the first m chunks of a sort.
SettledTo(C, sorted, m) ==
  {done \in Seq(C) :
     /\ Apart(done)
     /\ m = 0 => done = <<>>
     /\ m > 0 => done # <<>> /\ Last(done).from <= sorted[m].from
     /\ \A b \in Int : In(done, b) <=> Among(sorted, m, b)
     /\ StartsAmong(done, sorted, m)}

LEMMA SettlesOne ==
  ASSUME NEW C, Kind(C),
         NEW n \in Nat, NEW sorted, \A m \in 1 .. n : sorted[m] \in C,
         \A m \in 2 .. n : sorted[m - 1].from <= sorted[m].from,
         NEW m \in 1 .. n, NEW done \in SettledTo(C, sorted, m - 1)
  PROVE  AbsorbChunk(done, sorted[m]) \in SettledTo(C, sorted, m)
<1>1. /\ done \in Seq(C) /\ Apart(done)
      /\ m - 1 = 0 => done = <<>>
      /\ m - 1 > 0 => Last(done).from <= sorted[m - 1].from
      /\ \A b \in Int : In(done, b) <=> Among(sorted, m - 1, b)
  BY DEF SettledTo
<1>2. done # <<>> => Last(done).from <= sorted[m].from
  <2> SUFFICES ASSUME done # <<>> PROVE Last(done).from <= sorted[m].from
    OBVIOUS
  <2>1. m \in 2 .. n /\ m - 1 \in 1 .. n
    BY <1>1
  <2>2. Last(done) \in C /\ sorted[m - 1] \in C /\ sorted[m] \in C
    BY <1>1, <2>1, LastIs
  <2>3. Last(done).from \in Int /\ sorted[m - 1].from \in Int /\ sorted[m].from \in Int
    BY <2>2, OfKind
  <2>4. QED BY <1>1, <2>1, <2>3
<1>3. PICK new : new = AbsorbChunk(done, sorted[m])
  OBVIOUS
<1>4. Taken(C, done, sorted[m], new)
  BY <1>1, <1>2, <1>3, AbsorbTakes
<1>5. ASSUME NEW b \in Int PROVE In(new, b) <=> Among(sorted, m, b)
  <2>1. \A i \in 1 .. m : i = m \/ i \in 1 .. (m - 1)
    OBVIOUS
  <2>2. m \in 1 .. m /\ \A i \in 1 .. (m - 1) : i \in 1 .. m
    OBVIOUS
  <2>3. Among(sorted, m, b)
          <=> Among(sorted, m - 1, b) \/ (sorted[m].from <= b /\ b < sorted[m].to)
    BY <2>1, <2>2 DEF Among
  <2>4. QED BY <1>1, <1>4, <2>3 DEF Taken
<1>6. StartsAmong(new, sorted, m)
  <2>1. StartsAmong(done, sorted, m - 1) /\ m \in Nat \ {0}
    BY DEF SettledTo
  <2>2. QED BY <1>1, <1>3, <2>1, AbsorbStarts
<1>7. new \in SettledTo(C, sorted, m)
  BY <1>4, <1>5, <1>6 DEF Taken, SettledTo
<1>8. QED BY <1>3, <1>7

LEMMA CoalescedIs ==
  ASSUME NEW C, Kind(C), NEW list \in Seq(C)
  PROVE  Settled(C, Coalesced(list), list)
<1>1. PICK n \in Nat : n = Len(list)
  OBVIOUS
<1>2. PICK sorted : sorted = ByStart(list)
  OBVIOUS
<1>3. /\ \A m \in 1 .. n : sorted[m] \in C
      /\ \A m \in 2 .. n : sorted[m - 1].from <= sorted[m].from
      /\ OfList(sorted, n, list)
      /\ \A b \in Int : Among(sorted, n, b) <=> In(list, b)
  BY <1>1, <1>2, SortedChunks
<1>4. PICK h : /\ Coalesced(list) = h[1 .. n] /\ h[{}] = <<>>
               /\ \A m \in 1 .. n : h[1 .. m] = AbsorbChunk(h[1 .. (m - 1)], sorted[m])
  BY <1>1, <1>2, CoalescedFolds
<1>5. PICK A : A = [m \in 0 .. n |-> SettledTo(C, sorted, m)]
  OBVIOUS
<1>6. h[{}] \in A[0]
  <2>1. <<>> \in Seq(C) /\ Apart(<<>>)
    BY DEF Apart
  <2>2. \A b \in Int : ~In(<<>>, b) /\ ~Among(sorted, 0, b)
    BY DEF In, Among
  <2>3. <<>> \in SettledTo(C, sorted, 0)
    BY <2>1, <2>2 DEF SettledTo, StartsAmong
  <2>4. QED BY <1>4, <1>5, <2>3
<1>7. ASSUME NEW m \in 1 .. n, h[1 .. (m - 1)] \in A[m - 1]
      PROVE  h[1 .. m] \in A[m]
  <2>1. PICK done : done = h[1 .. (m - 1)] /\ done \in SettledTo(C, sorted, m - 1)
    BY <1>5, <1>7
  <2>2. AbsorbChunk(done, sorted[m]) \in SettledTo(C, sorted, m)
    BY <1>3, <2>1, SettlesOne
  <2>3. QED BY <1>4, <1>5, <2>1, <2>2
<1>8. h[1 .. n] \in A[n]
  BY <1>6, <1>7, FoldPasses
<1>9. Coalesced(list) \in SettledTo(C, sorted, n)
  BY <1>4, <1>5, <1>8
<1>10. PICK new : new = Coalesced(list)
  OBVIOUS
<1>11. \A i \in DOMAIN new : \E j \in DOMAIN list : new[i].from = list[j].from
  <2>1. StartsAmong(new, sorted, n)
    BY <1>9, <1>10 DEF SettledTo
  <2>2. ASSUME NEW i \in DOMAIN new PROVE \E j \in DOMAIN list : new[i].from = list[j].from
    <3>1. PICK m \in 1 .. n : new[i].from = sorted[m].from
      BY <2>1 DEF StartsAmong
    <3>2. PICK j \in DOMAIN list : sorted[m] = list[j]
      BY <1>3 DEF OfList
    <3>3. QED BY <3>1, <3>2
  <2>3. QED BY <2>2
<1>12. Settled(C, new, list)
  BY <1>3, <1>9, <1>10, <1>11 DEF SettledTo, Settled
<1>13. QED BY <1>10, <1>12

\* A list without its first k chunks.
TailOf(all, k, cap, new) ==
  /\ Len(new) = cap /\ Len(all) = k + cap
  /\ \A i \in 1 .. cap : i + k \in 1 .. Len(all) /\ new[i] = all[i + k]

\* Every chunk starts where one of a list or a single one does.
StartsOfBoth(all, old, c) ==
  \A i \in DOMAIN all : all[i].from = c.from \/ \E j \in DOMAIN old : all[i].from = old[j].from

\* What a merge leaves: all of both, or the last chunks of that.
Grown(C, old, c, cap, all, new) ==
  /\ all \in Seq(C) /\ Apart(all)
  /\ \A b \in Int : In(all, b) <=> In(old, b) \/ (c.from <= b /\ b < c.to)
  /\ StartsOfBoth(all, old, c)
  /\ new \in Seq(C) /\ Apart(new) /\ Len(new) <= cap
  /\ \/ Len(all) <= cap /\ new = all
     \/ /\ Len(all) > cap /\ TailOf(all, Len(all) - cap, cap, new)
        /\ \A b \in Int : In(new, b) <=> b >= all[Len(all) - cap + 1].from /\ In(all, b)

\* The last chunks have the bars from the first of them on.
LastOf(C, all, k, cap, new) ==
  /\ new \in Seq(C) /\ Apart(new) /\ Len(new) = cap /\ TailOf(all, k, cap, new)
  /\ \A b \in Int : In(new, b) <=> b >= all[k + 1].from /\ In(all, b)

LEMMA LastChunks ==
  ASSUME NEW C, Kind(C), NEW all \in Seq(C), Apart(all), NEW cap \in Nat \ {0},
         NEW size \in Nat, size = Len(all), size > cap,
         NEW k \in 1 .. size, k = size - cap, k + 1 \in 1 .. size,
         NEW new, new = SubSeq(all, k + 1, size)
  PROVE  LastOf(C, all, k, cap, new)
<1>1. DOMAIN all = 1 .. size /\ \A i \in 1 .. size : all[i] \in C
  OBVIOUS
<1>2. \A i \in 1 .. size : /\ all[i].from \in Int /\ all[i].to \in Int
                          /\ all[i].from <= all[i].to
  BY <1>1, OfKind
<1>3. /\ new \in Seq(C) /\ Len(new) = cap
      /\ \A i \in 1 .. cap : i + k \in 1 .. size /\ new[i] = all[i + k]
  OBVIOUS
<1>4. DOMAIN new = 1 .. cap
  BY <1>3
<1>5. Apart(new)
  <2>1. ASSUME NEW i \in 1 .. cap, NEW j \in 1 .. cap, i < j
        PROVE  new[i].to < new[j].from
    <3>1. i + k < j + k /\ i + k \in 1 .. size /\ j + k \in 1 .. size
      BY <1>3, <2>1
    <3>2. all[i + k].to < all[j + k].from
      BY <1>1, <3>1 DEF Apart
    <3>3. QED BY <1>3, <3>2
  <2>2. QED BY <1>4, <2>1 DEF Apart
<1>6. PICK cut \in Int : cut = all[k + 1].from
  BY <1>2
<1>7. ASSUME NEW b \in Int, In(new, b) PROVE b >= cut /\ In(all, b)
  <2>1. PICK i \in 1 .. cap : new[i].from <= b /\ b < new[i].to
    BY <1>4, <1>7 DEF In
  <2>2. /\ i + k \in 1 .. size /\ all[i + k].from <= b /\ b < all[i + k].to
        /\ i + k >= k + 1
    BY <1>3, <2>1
  <2>3. In(all, b)
    BY <1>1, <2>2 DEF In
  <2>4. CASE i + k = k + 1
    <3>1. all[i + k].from = cut
      BY ONLY <1>6, <2>4
    <3>2. cut <= b
      BY ONLY <2>2, <3>1
    <3>3. QED BY <2>3, <3>2
  <2>5. CASE i + k # k + 1
    <3>1. PICK j \in 1 .. size : j = i + k
      BY <2>2
    <3>a. k \in Int /\ j \in Int /\ j >= k + 1 /\ j # k + 1
      BY ONLY k \in 1 .. size, size \in Nat, <2>2, <2>5, <3>1
    <3>b. k + 1 < j
      BY ONLY <3>a
    <3>2. all[k + 1].to < all[j].from
      BY <1>1, <3>b DEF Apart
    <3>3. all[k + 1].from <= all[k + 1].to /\ all[k + 1].to \in Int /\ all[j].from \in Int
      BY <1>2
    <3>4. QED BY <1>6, <2>2, <2>3, <3>1, <3>2, <3>3
  <2>6. QED BY <2>3, <2>4, <2>5
<1>8. ASSUME NEW b \in Int, b >= cut, In(all, b) PROVE In(new, b)
  <2>1. PICK i \in 1 .. size : all[i].from <= b /\ b < all[i].to
    BY <1>1, <1>8 DEF In
  <2>2. i >= k + 1
    <3> SUFFICES ASSUME i < k + 1 PROVE FALSE
      OBVIOUS
    <3>1. all[i].to < all[k + 1].from
      BY <1>1 DEF Apart
    <3>2. all[i].to \in Int
      BY <1>2
    <3>3. QED BY <1>6, <1>8, <2>1, <3>1, <3>2
  <2>3. PICK j \in 1 .. cap : j + k = i
    <3>1. i - k \in 1 .. cap /\ (i - k) + k = i
      BY <2>2
    <3>2. QED BY <3>1
  <2>4. QED BY <1>3, <1>4, <2>1, <2>3 DEF In
<1>9. TailOf(all, k, cap, new)
  <2>1. Len(all) = k + cap
    OBVIOUS
  <2>2. QED BY <1>3, <2>1 DEF TailOf
<1>10. QED BY <1>3, <1>5, <1>6, <1>7, <1>8, <1>9 DEF LastOf

LEMMA MergeGrows ==
  ASSUME NEW C, Kind(C), NEW list \in Seq(C), NEW c \in C, NEW cap \in Nat \ {0}
  PROVE  \E all : Grown(C, list, c, cap, all, MergedChunks(list, c, cap))
<1>1. PICK with : with = Append(list, c)
  OBVIOUS
<1>2. with \in Seq(C)
  BY <1>1
<1>3. ASSUME NEW b \in Int
      PROVE  In(with, b) <=> In(list, b) \/ (c.from <= b /\ b < c.to)
  <2>1. PICK n \in Nat : n = Len(list)
    OBVIOUS
  <2>2. /\ DOMAIN with = 1 .. n + 1 /\ DOMAIN list = 1 .. n
        /\ with[n + 1] = c /\ \A i \in 1 .. n : with[i] = list[i]
    BY <1>1, <2>1
  <2>3. \A i \in 1 .. n + 1 : i = n + 1 \/ i \in 1 .. n
    OBVIOUS
  <2>4. n + 1 \in 1 .. n + 1 /\ \A i \in 1 .. n : i \in 1 .. n + 1
    OBVIOUS
  <2>5. QED BY <2>2, <2>3, <2>4 DEF In
<1>4. PICK all : all = Coalesced(with)
  OBVIOUS
<1>5. Settled(C, all, with)
  <2>1. Settled(C, Coalesced(with), with)
    BY <1>2, CoalescedIs
  <2>2. QED BY <1>4, <2>1
<1>6. /\ all \in Seq(C) /\ Apart(all)
      /\ \A b \in Int : In(all, b) <=> In(list, b) \/ (c.from <= b /\ b < c.to)
  <2>1. /\ all \in Seq(C) /\ Apart(all)
        /\ \A b \in Int : In(all, b) <=> In(with, b)
    BY <1>5 DEF Settled
  <2>2. QED BY <1>3, <2>1
<1>7. StartsOfBoth(all, list, c)
  <2>1. \A i \in DOMAIN all : \E j \in DOMAIN with : all[i].from = with[j].from
    BY ONLY <1>5 DEF Settled
  <2>2. \A j \in DOMAIN with : with[j] = c \/ (j \in DOMAIN list /\ with[j] = list[j])
    BY <1>1
  <2>3. QED BY <2>1, <2>2 DEF StartsOfBoth
<1>8. PICK size \in Nat : size = Len(all)
  BY <1>6
<1>9. CASE size > cap
  <2>1. PICK k \in 1 .. size : k = size - cap /\ k + 1 \in 1 .. size
    BY <1>9
  <2>2. PICK new : new = SubSeq(all, k + 1, size)
    OBVIOUS
  <2>3. new = MergedChunks(list, c, cap)
    BY <1>1, <1>4, <1>8, <1>9, <2>1, <2>2 DEF MergedChunks
  <2>4. LastOf(C, all, k, cap, new)
    BY <1>6, <1>8, <1>9, <2>1, <2>2, LastChunks
  <2>5. Grown(C, list, c, cap, all, new)
    <3>1. k + 1 = Len(all) - cap + 1 /\ k = Len(all) - cap /\ Len(all) > cap
      BY <1>8, <1>9, <2>1
    <3>2. QED BY <1>6, <1>7, <2>4, <3>1 DEF Grown, LastOf
  <2>6. QED BY <2>3, <2>5
<1>10. CASE ~(size > cap)
  <2>1. all = MergedChunks(list, c, cap)
    BY <1>1, <1>4, <1>8, <1>10 DEF MergedChunks
  <2>2. Grown(C, list, c, cap, all, all)
    BY <1>6, <1>7, <1>8, <1>10 DEF Grown
  <2>3. QED BY <2>1, <2>2
<1>11. QED BY <1>9, <1>10

(* ---- the walks over the bounds ---------------------------------------- *)
Stretches == [from : Int, to : Int]

LEMMA BoundsAre ==
  ASSUME NEW C, Kind(C), NEW list \in Seq(C), Apart(list), NEW n \in Nat, n = Len(list),
         NEW ws, ws = Bounds(list)
  PROVE  /\ ws \in Seq(Stretches) /\ Len(ws) = n /\ DOMAIN list = 1 .. n
         /\ \A i \in 1 .. n : /\ ws[i] = Window(list[i].from, list[i].to)
                             /\ ws[i].from = list[i].from /\ ws[i].to = list[i].to
                             /\ ws[i].from \in Int /\ ws[i].to \in Int
                             /\ ws[i].from <= ws[i].to
         /\ \A i, j \in 1 .. n : i < j => ws[i].to < ws[j].from
<1>1. DOMAIN list = 1 .. n /\ \A i \in 1 .. n : list[i] \in C
  OBVIOUS
<1>2. \A i \in 1 .. n : /\ list[i].from \in Int /\ list[i].to \in Int
                       /\ list[i].from <= list[i].to
  BY <1>1, OfKind
<1>3. ws = [i \in 1 .. n |-> Window(list[i].from, list[i].to)]
  BY <1>1 DEF Bounds
<1>4. \A i \in 1 .. n : /\ ws[i] = Window(list[i].from, list[i].to) /\ ws[i] \in Stretches
                       /\ ws[i].from = list[i].from /\ ws[i].to = list[i].to
  BY <1>2, <1>3 DEF Window, Stretches
<1>5. ws \in Seq(Stretches) /\ Len(ws) = n
  BY <1>3, <1>4
<1>6. \A i, j \in 1 .. n : i < j => ws[i].to < ws[j].from
  BY <1>1, <1>4 DEF Apart
<1>7. QED BY <1>1, <1>2, <1>4, <1>5, <1>6

\* What Joined folds.
AbsorbWindow(done, w) ==
  IF done # <<>> /\ w.from <= Last(done).to
  THEN Front(done) \o <<[Last(done) EXCEPT !.to = Larger(@, w.to)]>>
  ELSE Append(done, w)

LEMMA AbsorbsWindow ==
  ASSUME NEW done \in Seq(Stretches), NEW w \in Stretches
  PROVE  AbsorbWindow(done, w) \in Seq(Stretches)
<1>1. CASE done # <<>> /\ w.from <= Last(done).to
  <2>1. Last(done) \in Stretches
    BY <1>1, LastIs
  <2>2. Larger(Last(done).to, w.to) \in Int
    BY <2>1 DEF Stretches, Larger
  <2>3. PICK x \in Stretches : x = [Last(done) EXCEPT !.to = Larger(@, w.to)]
    BY <2>1, <2>2 DEF Stretches
  <2>4. QED BY <1>1, <2>3, LastReplaced DEF AbsorbWindow
<1>2. CASE ~(done # <<>> /\ w.from <= Last(done).to)
  BY <1>2 DEF AbsorbWindow
<1>3. QED BY <1>1, <1>2

\* The fold of Joined over windows that are in order.
LEMMA JoinedFolds ==
  ASSUME NEW n \in Nat, NEW ws \in Seq(Stretches), Len(ws) = n, InOrder(ws)
  PROVE  \E h : /\ Joined(ws) = h[1 .. n] /\ h[{}] = <<>>
               /\ \A m \in 1 .. n : h[1 .. m] = AbsorbWindow(h[1 .. (m - 1)], ws[m])
<1> DEFINE A == Seq(Stretches)
           step == [p \in A \X (1 .. n) |-> AbsorbWindow(p[1], ws[p[2]])]
           Folds(h) == h = [s \in SUBSET (1 .. n) |->
                              IF s = {} THEN <<>>
                              ELSE AbsorbWindow(h[s \ {Max(s)}], ws[Max(s)])]
<1>1. DOMAIN ws = 1 .. n /\ \A m \in 1 .. n : ws[m] \in Stretches
  OBVIOUS
<1>2. Joined(ws) = (CHOOSE h : Folds(h))[1 .. n]
  <2>1. ByStart(ws) = ws
    BY DEF ByStart
  <2>2. QED BY <1>1, <2>1 DEF Joined, FoldLeft, MapThenFoldSet, AbsorbWindow
<1>3. <<>> \in A /\ \A x \in A, m \in 1 .. n : AbsorbWindow(x, ws[m]) \in A
  BY <1>1, AbsorbsWindow
<1> HIDE DEF A
<1>4. step \in [A \X (1 .. n) -> A]
  BY <1>3
<1>5. \A x \in A, m \in 1 .. n : step[x, m] = AbsorbWindow(x, ws[m])
  OBVIOUS
<1> HIDE DEF step
<1>6. \E h : Folds(h)
  <2>1. PICK h \in [SUBSET (1 .. n) -> A] : FoldsWith(h, n, <<>>, step)
    BY <1>3, <1>4, FoldExists
  <2>2. ASSUME NEW s \in SUBSET (1 .. n), s # {}
        PROVE  h[s] = AbsorbWindow(h[s \ {Max(s)}], ws[Max(s)])
    <3>1. Max(s) \in 1 .. n /\ s \ {Max(s)} \in SUBSET (1 .. n)
      BY <2>2, MaxIsThere
    <3>2. h[s] = step[h[s \ {Max(s)}], Max(s)] /\ h[s \ {Max(s)}] \in A
      BY <2>1, <2>2, <3>1 DEF FoldsWith
    <3>3. QED BY <1>5, <3>1, <3>2
  <2>3. h[{}] = <<>>
    BY <2>1 DEF FoldsWith
  <2>4. Folds(h)
    BY <2>1, <2>2, <2>3
  <2>5. QED BY <2>4
<1>7. PICK h : h = CHOOSE g : Folds(g)
  OBVIOUS
<1>8. Folds(h)
  BY <1>6, <1>7
<1>9. h[{}] = <<>>
  BY <1>8
<1>10. ASSUME NEW m \in 1 .. n
       PROVE  h[1 .. m] = AbsorbWindow(h[1 .. (m - 1)], ws[m])
  <2>1. h[1 .. m] = AbsorbWindow(h[(1 .. m) \ {Max(1 .. m)}], ws[Max(1 .. m)])
    BY <1>8, PrefixIs
  <2>2. QED BY <2>1, PrefixIs
<1>11. Joined(ws) = h[1 .. n]
  BY <1>2, <1>7
<1> HIDE DEF Folds
<1>12. QED BY <1>9, <1>10, <1>11

\* Windows apart are left as they are.
LEMMA JoinedApart ==
  ASSUME NEW n \in Nat, NEW ws \in Seq(Stretches), Len(ws) = n,
         \A i \in 1 .. n : ws[i].from \in Int /\ ws[i].to \in Int /\ ws[i].from <= ws[i].to,
         \A i, j \in 1 .. n : i < j => ws[i].to < ws[j].from
  PROVE  Joined(ws) = ws
<1>1. InOrder(ws)
  <2>1. ASSUME NEW i \in 2 .. n PROVE ws[i - 1].from <= ws[i].from
    <3>1. i - 1 \in 1 .. n /\ i \in 1 .. n /\ i - 1 < i
      OBVIOUS
    <3>2. ws[i - 1].to < ws[i].from /\ ws[i - 1].from <= ws[i - 1].to
      BY <3>1
    <3>3. ws[i - 1].from \in Int /\ ws[i - 1].to \in Int /\ ws[i].from \in Int
      BY <3>1
    <3>4. QED BY <3>2, <3>3
  <2>2. QED BY <2>1 DEF InOrder
<1>2. PICK h : /\ Joined(ws) = h[1 .. n] /\ h[{}] = <<>>
               /\ \A m \in 1 .. n : h[1 .. m] = AbsorbWindow(h[1 .. (m - 1)], ws[m])
  BY <1>1, JoinedFolds
<1>3. PICK A : A = [m \in 0 .. n |-> {SubSeq(ws, 1, m)}]
  OBVIOUS
<1>4. h[{}] \in A[0]
  <2>1. SubSeq(ws, 1, 0) = <<>>
    OBVIOUS
  <2>2. QED BY <1>2, <1>3, <2>1
<1>5. ASSUME NEW m \in 1 .. n, h[1 .. (m - 1)] \in A[m - 1]
      PROVE  h[1 .. m] \in A[m]
  <2>1. PICK k \in 0 .. n - 1 : k = m - 1
    OBVIOUS
  <2>2. PICK done : done = h[1 .. k] /\ done = SubSeq(ws, 1, k)
    BY <1>3, <1>5, <2>1
  <2>3. done \in Seq(Stretches) /\ Len(done) = k /\ \A i \in 1 .. k : done[i] = ws[i]
    BY <2>1, <2>2
  <2>4. ~(done # <<>> /\ ws[m].from <= Last(done).to)
    <3> SUFFICES ASSUME done # <<>>, ws[m].from <= Last(done).to PROVE FALSE
      OBVIOUS
    <3>1. Last(done) = done[k] /\ k \in 1 .. n /\ k < m
      BY <2>1, <2>3, LastIs
    <3>2. Last(done) = ws[k]
      BY <2>3, <3>1
    <3>3. ws[k].to < ws[m].from /\ ws[k].to \in Int /\ ws[m].from \in Int
      BY <3>1
    <3>4. QED BY <3>2, <3>3
  <2>5. AbsorbWindow(done, ws[m]) = Append(done, ws[m])
    BY <2>4 DEF AbsorbWindow
  <2>6. Append(done, ws[m]) = SubSeq(ws, 1, m)
    BY <2>1, <2>2
  <2>7. h[1 .. m] = AbsorbWindow(done, ws[m])
    <3>1. h[1 .. (m - 1)] = done
      BY <2>1, <2>2
    <3>2. QED BY <1>2, <3>1
  <2>8. h[1 .. m] = SubSeq(ws, 1, m)
    BY <2>5, <2>6, <2>7
  <2>9. A[m] = {SubSeq(ws, 1, m)}
    BY ONLY <1>3, m \in 0 .. n
  <2>10. QED BY ONLY <2>8, <2>9
<1>6. h[1 .. n] \in A[n]
  BY <1>4, <1>5, FoldPasses
<1>7. SubSeq(ws, 1, n) = ws
  OBVIOUS
<1>8. QED BY <1>2, <1>3, <1>6, <1>7

\* What Reach folds.
Walked(cursor, w) == IF w.from <= cursor THEN Larger(cursor, w.to) ELSE cursor

\* The fold of Reach over windows apart, from a bar on.
FoldOf(ws, from, n) ==
  \E h : /\ Reach(ws, from) = h[1 .. n] /\ h[{}] = from
         /\ \A m \in 1 .. n : h[1 .. m] = Walked(h[1 .. (m - 1)], ws[m])

LEMMA ReachFolds ==
  ASSUME NEW n \in Nat, NEW ws \in Seq(Stretches), Len(ws) = n, Joined(ws) = ws, NEW from \in Int
  PROVE  FoldOf(ws, from, n)
<1> DEFINE step == [p \in Int \X (1 .. n) |-> Walked(p[1], ws[p[2]])]
           Folds(h) == h = [s \in SUBSET (1 .. n) |->
                              IF s = {} THEN from
                              ELSE Walked(h[s \ {Max(s)}], ws[Max(s)])]
<1>1. DOMAIN ws = 1 .. n /\ \A m \in 1 .. n : ws[m] \in Stretches
  OBVIOUS
<1>2. Reach(ws, from) = (CHOOSE h : Folds(h))[1 .. n]
  BY <1>1 DEF Reach, FoldLeft, MapThenFoldSet, Walked
<1>3. \A x \in Int, m \in 1 .. n : Walked(x, ws[m]) \in Int
  BY <1>1 DEF Stretches, Walked, Larger
<1>4. step \in [Int \X (1 .. n) -> Int]
  BY <1>3
<1>5. \A x \in Int, m \in 1 .. n : step[x, m] = Walked(x, ws[m])
  OBVIOUS
<1> HIDE DEF step
<1>6. \E h : Folds(h)
  <2>1. PICK h \in [SUBSET (1 .. n) -> Int] : FoldsWith(h, n, from, step)
    BY <1>4, FoldExists
  <2>2. ASSUME NEW s \in SUBSET (1 .. n), s # {}
        PROVE  h[s] = Walked(h[s \ {Max(s)}], ws[Max(s)])
    <3>1. Max(s) \in 1 .. n /\ s \ {Max(s)} \in SUBSET (1 .. n)
      BY <2>2, MaxIsThere
    <3>2. h[s] = step[h[s \ {Max(s)}], Max(s)] /\ h[s \ {Max(s)}] \in Int
      BY <2>1, <2>2, <3>1 DEF FoldsWith
    <3>3. QED BY <1>5, <3>1, <3>2
  <2>3. h[{}] = from
    BY <2>1 DEF FoldsWith
  <2>4. Folds(h)
    BY <2>1, <2>2, <2>3
  <2>5. QED BY <2>4
<1>7. PICK h : h = CHOOSE g : Folds(g)
  OBVIOUS
<1>8. Folds(h)
  BY <1>6, <1>7
<1>9. h[{}] = from
  BY <1>8
<1>10. ASSUME NEW m \in 1 .. n
       PROVE  h[1 .. m] = Walked(h[1 .. (m - 1)], ws[m])
  <2>1. h[1 .. m] = Walked(h[(1 .. m) \ {Max(1 .. m)}], ws[Max(1 .. m)])
    BY <1>8, PrefixIs
  <2>2. QED BY <2>1, PrefixIs
<1>11. Reach(ws, from) = h[1 .. n]
  BY <1>2, <1>7
<1> HIDE DEF Folds
<1>12. QED BY ONLY <1>9, <1>10, <1>11 DEF FoldOf

\* The walk passes bars the windows have, and stops where none of the windows
\* it has started on goes on.
Passed(ws, from, m, c) ==
  /\ c \in Int /\ c >= from
  /\ \A b \in from .. (c - 1) : In(ws, b)
  /\ \A i \in 1 .. m : ws[i].from <= c => ws[i].to <= c

LEMMA WalkPasses ==
  ASSUME NEW n \in Nat, NEW ws \in Seq(Stretches), Len(ws) = n,
         \A i \in 1 .. n : ws[i].from \in Int /\ ws[i].to \in Int /\ ws[i].from <= ws[i].to,
         \A i, j \in 1 .. n : i < j => ws[i].to < ws[j].from,
         NEW from \in Int, NEW m \in 1 .. n, NEW c, Passed(ws, from, m - 1, c)
  PROVE  Passed(ws, from, m, Walked(c, ws[m]))
<1>1. /\ c \in Int /\ c >= from /\ \A b \in from .. (c - 1) : In(ws, b)
      /\ \A i \in 1 .. (m - 1) : ws[i].from <= c => ws[i].to <= c
  BY DEF Passed
<1>2. ws[m].from \in Int /\ ws[m].to \in Int /\ ws[m].from <= ws[m].to /\ m \in DOMAIN ws
  OBVIOUS
<1>3. CASE ws[m].from <= c
  <2>1. PICK d \in Int : /\ d = Walked(c, ws[m]) /\ d >= c /\ d >= ws[m].to
                         /\ d = c \/ d = ws[m].to
    BY <1>1, <1>2, <1>3 DEF Walked, Larger
  <2>2. ASSUME NEW b \in from .. (d - 1) PROVE In(ws, b)
    <3>1. CASE b < c
      <4>1. b \in from .. (c - 1)
        BY <1>1, <2>1, <3>1
      <4>2. QED BY <1>1, <4>1
    <3>2. CASE ~(b < c)
      <4>1. ws[m].from <= b /\ b < ws[m].to
        BY <1>1, <1>2, <1>3, <2>1, <3>2
      <4>2. QED BY <1>2, <4>1 DEF In
    <3>3. QED BY <3>1, <3>2
  <2>3. ASSUME NEW i \in 1 .. m, ws[i].from <= d PROVE ws[i].to <= d
    <3>1. CASE i = m
      BY <2>1, <3>1
    <3>2. CASE i # m
      <4>1. i \in 1 .. n /\ i < m
        BY <3>2
      <4>2. ws[i].to < ws[m].from /\ ws[i].to \in Int
        BY <4>1
      <4>3. QED BY <1>1, <1>2, <1>3, <2>1, <4>2
    <3>3. QED BY <3>1, <3>2
  <2>4. d >= from
    BY <1>1, <2>1
  <2>5. QED BY <2>1, <2>2, <2>3, <2>4 DEF Passed
<1>4. CASE ~(ws[m].from <= c)
  <2>1. Walked(c, ws[m]) = c
    BY <1>4 DEF Walked
  <2>2. \A i \in 1 .. m : i = m \/ i \in 1 .. (m - 1)
    OBVIOUS
  <2>3. \A i \in 1 .. m : ws[i].from <= c => ws[i].to <= c
    BY <1>1, <1>4, <2>2
  <2>4. QED BY <1>1, <2>1, <2>3 DEF Passed
<1>5. QED BY <1>3, <1>4

LEMMA ReachIs ==
  ASSUME NEW n \in Nat, NEW ws \in Seq(Stretches), Len(ws) = n,
         \A i \in 1 .. n : ws[i].from \in Int /\ ws[i].to \in Int /\ ws[i].from <= ws[i].to,
         \A i, j \in 1 .. n : i < j => ws[i].to < ws[j].from,
         NEW from \in Int
  PROVE  Passed(ws, from, n, Reach(ws, from))
<1>1. PICK h : /\ Reach(ws, from) = h[1 .. n] /\ h[{}] = from
               /\ \A m \in 1 .. n : h[1 .. m] = Walked(h[1 .. (m - 1)], ws[m])
  <2>1. Joined(ws) = ws
    BY JoinedApart
  <2>2. FoldOf(ws, from, n)
    BY <2>1, ReachFolds
  <2>3. QED BY ONLY <2>2 DEF FoldOf
<1>2. PICK A : A = [m \in 0 .. n |-> {c \in Int : Passed(ws, from, m, c)}]
  OBVIOUS
<1>3. h[{}] \in A[0]
  <2>1. Passed(ws, from, 0, from)
    BY DEF Passed
  <2>2. A[0] = {c \in Int : Passed(ws, from, 0, c)}
    BY <1>2
  <2>3. QED BY <1>1, <2>1, <2>2
<1>4. ASSUME NEW m \in 1 .. n, h[1 .. (m - 1)] \in A[m - 1]
      PROVE  h[1 .. m] \in A[m]
  <2>1. PICK c : c = h[1 .. (m - 1)] /\ Passed(ws, from, m - 1, c)
    BY <1>2, <1>4
  <2>2. Passed(ws, from, m, Walked(c, ws[m]))
    BY <2>1, WalkPasses
  <2>3. Passed(ws, from, m, h[1 .. m])
    BY <1>1, <2>1, <2>2
  <2>4. A[m] = {x \in Int : Passed(ws, from, m, x)}
    BY ONLY <1>2, m \in 0 .. n
  <2>5. h[1 .. m] \in Int
    BY <2>3 DEF Passed
  <2>6. QED BY ONLY <2>3, <2>4, <2>5
<1>5. h[1 .. n] \in A[n]
  BY <1>3, <1>4, FoldPasses
<1>6. QED BY <1>1, <1>2, <1>5

(* ---- what is stored --------------------------------------------------- *)
\* The bounds of chunks that are full and apart: the walks are exact on them.
WalkedOver(list, ws, n, from, c) ==
  /\ Joined(ws) = ws /\ c \in Int /\ c >= from
  /\ \A b \in from .. (c - 1) : In(list, b)
  /\ \A i \in 1 .. n : ws[i].from <= c => ws[i].to <= c
  /\ ~In(list, c)

LEMMA WalkOver ==
  ASSUME NEW C, Kind(C), NEW list \in Seq(C), Apart(list), NEW n \in Nat, n = Len(list),
         NEW ws, ws = Bounds(list), NEW from \in Int, NEW c, c = Reach(ws, from)
  PROVE  WalkedOver(list, ws, n, from, c)
<1>1. /\ ws \in Seq(Stretches) /\ Len(ws) = n /\ DOMAIN list = 1 .. n
      /\ \A i \in 1 .. n : /\ ws[i].from = list[i].from /\ ws[i].to = list[i].to
                          /\ ws[i].from \in Int /\ ws[i].to \in Int
                          /\ ws[i].from <= ws[i].to
      /\ \A i, j \in 1 .. n : i < j => ws[i].to < ws[j].from
  BY BoundsAre
<1>2. \A i \in 1 .. n : ws[i].from \in Int /\ ws[i].to \in Int /\ ws[i].from <= ws[i].to
  BY <1>1
<1>3. Joined(ws) = ws
  BY <1>1, <1>2, JoinedApart
<1>4. Passed(ws, from, n, c)
  BY <1>1, <1>2, ReachIs
<1>5. DOMAIN ws = 1 .. n
  BY <1>1
<1>6. \A b \in Int : In(ws, b) <=> In(list, b)
  BY <1>1, <1>5 DEF In
<1>7. /\ c \in Int /\ c >= from /\ \A b \in from .. (c - 1) : In(list, b)
      /\ \A i \in 1 .. n : ws[i].from <= c => ws[i].to <= c
  BY <1>4, <1>6 DEF Passed
<1>8. ~In(list, c)
  <2> SUFFICES ASSUME In(list, c) PROVE FALSE
    OBVIOUS
  <2>1. PICK i \in 1 .. n : list[i].from <= c /\ c < list[i].to
    BY <1>1 DEF In
  <2>2. list[i].to <= c /\ list[i].to \in Int
    BY <1>1, <1>7, <2>1
  <2>3. QED BY <1>7, <2>1, <2>2
<1>9. QED BY <1>3, <1>7, <1>8 DEF WalkedOver

\* A window is covered when each of its bars is there.
LEMMA CoversIs ==
  ASSUME NEW C, Kind(C), NEW list \in Seq(C), Apart(list), NEW w \in Stretches
  PROVE  Covers(Bounds(list), w) <=> \A b \in BarsOf(w) : In(list, b)
<1>1. w.from \in Int /\ w.to \in Int
  BY DEF Stretches
<1>2. PICK c : c = Reach(Bounds(list), w.from)
  OBVIOUS
<1>3. /\ c \in Int /\ c >= w.from /\ ~In(list, c)
      /\ \A b \in w.from .. (c - 1) : In(list, b)
  <2>1. PICK n \in Nat : n = Len(list)
    OBVIOUS
  <2>2. WalkedOver(list, Bounds(list), n, w.from, c)
    BY <1>1, <1>2, <2>1, WalkOver
  <2>3. QED BY <2>2 DEF WalkedOver
<1>4. BarsOf(w) = w.from .. (w.to - 1)
  BY DEF BarsOf
<1>5. Covers(Bounds(list), w) <=> w.from >= w.to \/ c >= w.to
  BY <1>2 DEF Covers
<1>6. ASSUME w.from >= w.to \/ c >= w.to PROVE \A b \in BarsOf(w) : In(list, b)
  <2>1. \A b \in BarsOf(w) : b \in w.from .. (c - 1)
    BY <1>1, <1>3, <1>4, <1>6
  <2>2. QED BY <1>3, <2>1
<1>7. ASSUME \A b \in BarsOf(w) : In(list, b) PROVE w.from >= w.to \/ c >= w.to
  <2> SUFFICES ASSUME ~(w.from >= w.to), ~(c >= w.to) PROVE FALSE
    OBVIOUS
  <2>1. c \in BarsOf(w)
    BY <1>1, <1>3, <1>4
  <2>2. QED BY <1>3, <1>7, <2>1
<1>8. QED BY <1>5, <1>6, <1>7

\* The hole of a window starts with its first bar that is not there and ends
\* with the window, or where the next chunk begins.
HoleAt(list, w, hole) ==
  /\ hole = Window(hole.from, hole.to) /\ hole.from \in Int /\ hole.to \in Int
  /\ w.from <= hole.from /\ hole.from < hole.to /\ hole.to <= w.to
  /\ \A b \in w.from .. (hole.from - 1) : In(list, b)
  /\ \A b \in Int : hole.from <= b /\ b < hole.to => ~In(list, b)
  /\ hole.to = w.to \/ \E i \in DOMAIN list : list[i].from = hole.to

LEMMA MissingAt ==
  ASSUME NEW C, Kind(C), NEW list \in Seq(C), Apart(list), NEW w \in Stretches,
         ~Covers(Bounds(list), w)
  PROVE  HoleAt(list, w, MissingRange(Bounds(list), w))
<1>1. PICK n \in Nat : n = Len(list)
  OBVIOUS
<1>2. PICK ws : ws = Bounds(list)
  OBVIOUS
<1>3. w.from \in Int /\ w.to \in Int
  BY DEF Stretches
<1>4. PICK hole : hole = MissingRange(ws, w)
  OBVIOUS
<1>5. PICK c : c = Reach(ws, w.from)
  OBVIOUS
<1>6. /\ Joined(ws) = ws /\ c \in Int /\ c >= w.from /\ ~In(list, c)
      /\ \A b \in w.from .. (c - 1) : In(list, b)
      /\ \A i \in 1 .. n : ws[i].from <= c => ws[i].to <= c
  <2>1. PICK from \in Int : from = w.from
    BY <1>3
  <2>2. c = Reach(ws, from)
    BY <1>5, <2>1
  <2>3. WalkedOver(list, ws, n, from, c)
    BY <1>1, <1>2, <2>2, WalkOver
  <2>4. QED BY <2>1, <2>3 DEF WalkedOver
<1>7. c < w.to
  BY <1>2, <1>3, <1>5, <1>6 DEF Covers
<1>8. /\ ws \in Seq(Stretches) /\ Len(ws) = n /\ DOMAIN list = 1 .. n
      /\ \A i \in 1 .. n : /\ ws[i].from = list[i].from /\ ws[i].to = list[i].to
                          /\ ws[i].from \in Int /\ ws[i].to \in Int
                          /\ ws[i].from <= ws[i].to
      /\ \A i, j \in 1 .. n : i < j => ws[i].to < ws[j].from
  BY <1>1, <1>2, BoundsAre
<1>9. \A b \in Int : In(list, b) => \E i \in 1 .. n : ws[i].from <= b /\ b < ws[i].to
  BY <1>8 DEF In
<1>10. PICK I : I = {i \in 1 .. n : ws[i].from > c}
  OBVIOUS
<1>11. PICK next : next = SelectInSeq(ws, LAMBDA v : v.from > c)
  OBVIOUS
<1>12. next = IF I # {} THEN Min(I) ELSE 0
  BY <1>8, <1>10, <1>11 DEF SelectInSeq
<1>13. hole = Window(c, IF next = 0 THEN w.to ELSE Smaller(w.to, ws[next].from))
  BY <1>2, <1>4, <1>5, <1>6, <1>11 DEF MissingRange
<1>14. I # {} => next \in I /\ \A i \in I : next <= i
  <2>1. I \in SUBSET Nat
    BY <1>10
  <2>2. QED BY <1>12, <2>1, MinIsThere
<1>15. PICK to \in Int :
         /\ hole = Window(c, to) /\ hole.from = c /\ hole.to = to /\ c < to /\ to <= w.to
         /\ \A i \in I : to <= ws[i].from
         /\ to = w.to \/ (next \in 1 .. n /\ to = ws[next].from)
  <2>1. CASE I = {}
    <3>1. next = 0
      BY <1>12, <2>1
    <3>2. hole = Window(c, w.to) /\ hole.from = c /\ hole.to = w.to
      BY <1>13, <3>1 DEF Window
    <3>3. QED BY <1>3, <1>7, <2>1, <3>2
  <2>2. CASE I # {}
    <3>1. next \in 1 .. n /\ ws[next].from > c /\ \A i \in I : next <= i
      BY <1>10, <1>14, <2>2
    <3>2. PICK at \in Int : at = ws[next].from
      BY <1>8, <3>1
    <3>3. PICK to \in Int : /\ to = Smaller(w.to, at) /\ to <= w.to /\ to <= at
                            /\ to = w.to \/ to = at
      BY <1>3, <3>2 DEF Smaller
    <3>4. hole = Window(c, to) /\ hole.from = c /\ hole.to = to
      BY <1>13, <3>1, <3>2, <3>3 DEF Window
    <3>5. ASSUME NEW i \in I PROVE to <= ws[i].from
      <4>1. i \in 1 .. n /\ next <= i
        BY <1>10, <3>1
      <4>2. CASE i = next
        BY <3>2, <3>3, <4>2
      <4>3. CASE i # next
        <5>1. ws[next].to < ws[i].from
          BY <1>8, <3>1, <4>1, <4>3
        <5>2. /\ ws[next].from <= ws[next].to /\ ws[next].to \in Int
              /\ ws[i].from \in Int
          BY <1>8, <3>1, <4>1
        <5>3. QED BY <3>2, <3>3, <5>1, <5>2
      <4>4. QED BY <4>2, <4>3
    <3>6. c < to
      BY <1>6, <1>7, <3>1, <3>2, <3>3
    <3>7. QED BY <3>1, <3>2, <3>3, <3>4, <3>5, <3>6
  <2>3. QED BY <2>1, <2>2
<1>16. ASSUME NEW b \in Int, hole.from <= b, b < hole.to, In(list, b) PROVE FALSE
  <2>1. PICK i \in 1 .. n : ws[i].from <= b /\ b < ws[i].to
    BY <1>9, <1>16
  <2>2. ws[i].from \in Int /\ ws[i].to \in Int
    BY <1>8
  <2>3. CASE ws[i].from <= c
    <3>1. ws[i].to <= c
      BY <1>6, <2>3
    <3>2. QED BY <1>6, <1>15, <1>16, <2>1, <2>2, <3>1
  <2>4. CASE ~(ws[i].from <= c)
    <3>1. i \in I
      BY <1>6, <1>10, <2>2, <2>4
    <3>2. to <= ws[i].from
      BY <1>15, <3>1
    <3>3. QED BY <1>15, <1>16, <2>1, <2>2, <3>2
  <2>5. QED BY <2>3, <2>4
<1>17. hole.to = w.to \/ \E i \in DOMAIN list : list[i].from = hole.to
  BY <1>8, <1>15
<1>18. HoleAt(list, w, hole)
  BY <1>3, <1>6, <1>15, <1>16, <1>17 DEF HoleAt
<1>19. QED BY <1>2, <1>4, <1>18

\* Of a window that is not all there: what its hole is in the bars of the store.
HoleIs(list, w, hole) ==
  LET out == {b \in BarsOf(w) : ~In(list, b)}
  IN  /\ out = {} => hole = NoHole
      /\ out # {} =>
           /\ BarsOf(hole) # {} /\ BarsOf(hole) \subseteq out
           /\ \A b \in out : b >= hole.from
           /\ \/ hole.to \notin out
              \/ \E i \in DOMAIN Bounds(list) : Bounds(list)[i] = Window(hole.to, hole.to)

LEMMA MissingIs ==
  ASSUME NEW C, Kind(C), NEW list \in Seq(C), Apart(list), NEW w \in Stretches
  PROVE  HoleIs(list, w, MissingRange(Bounds(list), w))
<1>1. w.from \in Int /\ w.to \in Int
  BY DEF Stretches
<1>2. PICK out : out = {b \in BarsOf(w) : ~In(list, b)}
  OBVIOUS
<1>3. PICK hole : hole = MissingRange(Bounds(list), w)
  OBVIOUS
<1>4. Covers(Bounds(list), w) <=> out = {}
  BY <1>2, CoversIs
<1>5. CASE out = {}
  <2>1. hole = NoHole
    BY <1>3, <1>4, <1>5 DEF MissingRange
  <2>2. QED BY <1>2, <1>3, <1>5, <2>1 DEF HoleIs
<1>6. CASE out # {}
  <2>1. HoleAt(list, w, hole)
    BY <1>3, <1>4, <1>6, MissingAt
  <2>2. /\ hole.from \in Int /\ hole.to \in Int
        /\ w.from <= hole.from /\ hole.from < hole.to /\ hole.to <= w.to
        /\ \A b \in w.from .. (hole.from - 1) : In(list, b)
        /\ \A b \in Int : hole.from <= b /\ b < hole.to => ~In(list, b)
        /\ hole.to = w.to \/ \E i \in DOMAIN list : list[i].from = hole.to
    BY <2>1 DEF HoleAt
  <2>3. \A b : b \in BarsOf(hole) <=> b \in Int /\ hole.from <= b /\ b < hole.to
    BY <2>2 DEF BarsOf
  <2>4. \A b : b \in BarsOf(w) <=> b \in Int /\ w.from <= b /\ b < w.to
    BY <1>1 DEF BarsOf
  <2>5. BarsOf(hole) # {} /\ BarsOf(hole) \subseteq out
    <3>1. hole.from \in BarsOf(hole)
      BY <2>2, <2>3
    <3>2. ASSUME NEW b \in BarsOf(hole) PROVE b \in out
      BY <1>1, <1>2, <2>2, <2>3, <2>4
    <3>3. QED BY <3>1, <3>2
  <2>6. ASSUME NEW b \in out PROVE b >= hole.from
    <3>1. b \in Int /\ w.from <= b /\ ~In(list, b)
      BY <1>2, <2>4
    <3>2. b \notin w.from .. (hole.from - 1)
      BY <2>2, <3>1
    <3>3. QED BY <1>1, <2>2, <3>1, <3>2
  <2>7. \/ hole.to \notin out
        \/ \E i \in DOMAIN Bounds(list) : Bounds(list)[i] = Window(hole.to, hole.to)
    <3>1. CASE hole.to = w.to
      BY <1>1, <1>2, <2>4, <3>1
    <3>2. CASE \E i \in DOMAIN list : list[i].from = hole.to
      <4>1. PICK i \in DOMAIN list : list[i].from = hole.to
        BY <3>2
      <4>2. list[i].from \in Int /\ list[i].to \in Int /\ list[i].from <= list[i].to
        BY OfKind
      <4>3. CASE list[i].to = hole.to
        <5>1. i \in DOMAIN Bounds(list) /\ Bounds(list)[i] = Window(hole.to, hole.to)
          BY <4>1, <4>3 DEF Bounds
        <5>2. QED BY <5>1
      <4>4. CASE list[i].to # hole.to
        <5>1. In(list, hole.to)
          BY <4>1, <4>2, <4>4 DEF In
        <5>2. QED BY <1>2, <5>1
      <4>5. QED BY <4>3, <4>4
    <3>3. QED BY <2>2, <3>1, <3>2
  <2>8. HoleIs(list, w, hole)
    BY <1>2, <1>6, <2>5, <2>6, <2>7 DEF HoleIs
  <2>9. QED BY <1>3, <2>8
<1>7. QED BY <1>5, <1>6

\* Chunks that hold a row of each of their bars and of no other.
FullChunks ==
  {c \in AnyChunks : /\ c.from \in 0 .. Horizon /\ c.to \in 0 .. Horizon /\ c.from <= c.to
                     /\ DOMAIN c.rows = BarsOf(c)}

LEMMA FullIs ==
  ASSUME NEW c \in FullChunks
  PROVE  /\ c \in AnyChunks /\ c.from \in 0 .. Horizon /\ c.to \in 0 .. Horizon
         /\ c.from <= c.to /\ c.rows \in RowSets
         /\ DOMAIN c.rows = c.from .. (c.to - 1)
BY DEF FullChunks, AnyChunks, BarsOf

\* Of two full chunks that touch, the joined one is full.
LEMMA FullIsKind == Kind(FullChunks)
<1>1. ASSUME NEW last \in FullChunks, NEW c \in FullChunks,
             last.from <= c.from, c.from <= last.to
      PROVE  JoinedChunk(last, c) \in FullChunks
  <2>1. /\ last.from \in 0 .. Horizon /\ last.to \in 0 .. Horizon /\ last.from <= last.to
        /\ DOMAIN last.rows = last.from .. (last.to - 1) /\ last \in AnyChunks
        /\ last.rows \in RowSets
    BY FullIs
  <2>2. /\ c.from \in 0 .. Horizon /\ c.to \in 0 .. Horizon /\ c.from <= c.to
        /\ DOMAIN c.rows = c.from .. (c.to - 1) /\ c \in AnyChunks /\ c.rows \in RowSets
    BY FullIs
  <2>3. PICK to \in 0 .. Horizon :
          /\ to = Larger(last.to, c.to) /\ to >= last.to /\ to >= c.to
          /\ to = last.to \/ to = c.to
    BY <2>1, <2>2 DEF Larger
  <2>4. PICK new : new = JoinedChunk(last, c)
    OBVIOUS
  <2>5. new \in AnyChunks
    BY <2>1, <2>2, <2>4, JoinedChunkIs
  <2>6. new.from = last.from /\ new.to = to /\ new.rows = Deduped(last.rows, c.rows)
    BY <2>3, <2>4 DEF Chunk, JoinedChunk
  <2>7. DOMAIN new.rows = DOMAIN last.rows \cup DOMAIN c.rows
    BY <2>1, <2>2, <2>6, DedupedIs
  <2>8. DOMAIN new.rows = last.from .. (to - 1)
    BY <1>1, <2>1, <2>2, <2>3, <2>7
  <2>9. new \in FullChunks
    BY <2>1, <2>3, <2>5, <2>6, <2>8 DEF FullChunks, BarsOf
  <2>10. QED BY <2>4, <2>9
<1>2. \A c \in FullChunks : c \in AnyChunks /\ c.from <= c.to
  BY DEF FullChunks
<1>3. QED BY <1>1, <1>2 DEF Kind

\* What RowsIn folds, and over which bars it has rows.
RowsGrow(h, list, n, w) ==
  /\ h[{}] = <<>>
  /\ \A m \in 1 .. n : h[1 .. m] = Deduped(h[1 .. (m - 1)], list[m].rows)
  /\ RowsIn(list, w) = [b \in DOMAIN h[1 .. n] \cap BarsOf(w) |-> h[1 .. n][b]]

LEMMA RowsFold ==
  ASSUME NEW list \in Seq(FullChunks), NEW n \in Nat, n = Len(list), NEW w
  PROVE  \E h : RowsGrow(h, list, n, w)
<1> DEFINE step == [p \in RowSets \X (1 .. n) |-> Deduped(p[1], list[p[2]].rows)]
           Folds(h) == h = [s \in SUBSET (1 .. n) |->
                              IF s = {} THEN <<>>
                              ELSE Deduped(h[s \ {Max(s)}], list[Max(s)].rows)]
<1>1. DOMAIN list = 1 .. n /\ \A m \in 1 .. n : list[m] \in FullChunks
  OBVIOUS
<1>2. \A m \in 1 .. n : list[m].rows \in RowSets
  BY <1>1, FullIs
<1>3. <<>> \in RowSets
  <2>1. <<>> = [b \in {} |-> <<>>[b]]
    OBVIOUS
  <2>2. DOMAIN <<>> = {}
    OBVIOUS
  <2>3. QED BY <2>1, <2>2, RowSetsAre
<1>4. \A x \in RowSets, m \in 1 .. n : Deduped(x, list[m].rows) \in RowSets
  BY <1>2, DedupedIs
<1>5. step \in [RowSets \X (1 .. n) -> RowSets]
  BY <1>4
<1>6. \A x \in RowSets, m \in 1 .. n : step[x, m] = Deduped(x, list[m].rows)
  OBVIOUS
<1> HIDE DEF step
<1>7. \E h : Folds(h)
  <2>1. PICK h \in [SUBSET (1 .. n) -> RowSets] : FoldsWith(h, n, <<>>, step)
    BY <1>3, <1>5, FoldExists
  <2>2. ASSUME NEW s \in SUBSET (1 .. n), s # {}
        PROVE  h[s] = Deduped(h[s \ {Max(s)}], list[Max(s)].rows)
    <3>1. Max(s) \in 1 .. n /\ s \ {Max(s)} \in SUBSET (1 .. n)
      BY <2>2, MaxIsThere
    <3>2. h[s] = step[h[s \ {Max(s)}], Max(s)] /\ h[s \ {Max(s)}] \in RowSets
      BY <2>1, <2>2, <3>1 DEF FoldsWith
    <3>3. QED BY <1>6, <3>1, <3>2
  <2>3. h[{}] = <<>>
    BY <2>1 DEF FoldsWith
  <2>4. Folds(h)
    BY <2>1, <2>2, <2>3
  <2>5. QED BY <2>4
<1>8. PICK h : h = CHOOSE g : Folds(g)
  OBVIOUS
<1>9. Folds(h)
  BY <1>7, <1>8
<1>10. h[{}] = <<>>
  BY <1>9
<1>11. ASSUME NEW m \in 1 .. n
       PROVE  h[1 .. m] = Deduped(h[1 .. (m - 1)], list[m].rows)
  <2>1. h[1 .. m] = Deduped(h[(1 .. m) \ {Max(1 .. m)}], list[Max(1 .. m)].rows)
    BY <1>9, PrefixIs
  <2>2. QED BY <2>1, PrefixIs
<1>12. RowsIn(list, w) = [b \in DOMAIN h[1 .. n] \cap BarsOf(w) |-> h[1 .. n][b]]
  BY <1>1, <1>8 DEF RowsIn, FoldLeft, MapThenFoldSet
<1> HIDE DEF Folds
<1>13. QED BY <1>10, <1>11, <1>12 DEF RowsGrow

\* The rows of the first m chunks.
RowsTo(list, m) ==
  {f \in RowSets : \A b : b \in DOMAIN f <=> \E i \in 1 .. m : b \in DOMAIN list[i].rows}

\* The rows of a window are of its bars that are there.
LEMMA RowsAreOfBars ==
  ASSUME NEW list \in Seq(FullChunks), NEW w
  PROVE  DOMAIN RowsIn(list, w) = {b \in BarsOf(w) : In(list, b)}
<1>1. PICK n \in Nat : n = Len(list)
  OBVIOUS
<1>a. PICK h : RowsGrow(h, list, n, w)
  BY <1>1, RowsFold
<1>2. /\ h[{}] = <<>>
      /\ \A m \in 1 .. n : h[1 .. m] = Deduped(h[1 .. (m - 1)], list[m].rows)
      /\ RowsIn(list, w) = [b \in DOMAIN h[1 .. n] \cap BarsOf(w) |-> h[1 .. n][b]]
  BY <1>a DEF RowsGrow
<1>3. PICK A : A = [m \in 0 .. n |-> RowsTo(list, m)]
  OBVIOUS
<1>4. DOMAIN list = 1 .. n /\ \A i \in 1 .. n : list[i] \in FullChunks
  BY <1>1
<1>5. h[{}] \in A[0]
  <2>1. <<>> = [b \in {} |-> <<>>[b]]
    OBVIOUS
  <2>2. DOMAIN <<>> = {}
    OBVIOUS
  <2>3. <<>> \in RowSets
    BY <2>1, <2>2, RowSetsAre
  <2>4. A[0] = RowsTo(list, 0)
    BY <1>3
  <2>5. h[{}] \in RowSets /\ \A b : b \notin DOMAIN h[{}]
    BY <1>2, <2>2, <2>3
  <2>6. \A i \in 1 .. 0 : FALSE
    OBVIOUS
  <2>7. h[{}] \in RowsTo(list, 0)
    BY ONLY <2>5, <2>6 DEF RowsTo
  <2>8. QED BY <2>4, <2>7
<1>6. ASSUME NEW m \in 1 .. n, h[1 .. (m - 1)] \in A[m - 1]
      PROVE  h[1 .. m] \in A[m]
  <2>1. PICK f \in RowSets :
          /\ f = h[1 .. (m - 1)]
          /\ \A b : b \in DOMAIN f <=> \E i \in 1 .. (m - 1) : b \in DOMAIN list[i].rows
    <3>1. h[1 .. (m - 1)] \in RowsTo(list, m - 1)
      BY <1>3, <1>6
    <3>2. QED BY ONLY <3>1 DEF RowsTo
  <2>2. PICK g : g = Deduped(f, list[m].rows)
    OBVIOUS
  <2>3. g \in RowSets /\ DOMAIN g = DOMAIN f \cup DOMAIN list[m].rows
    BY <1>4, <2>2, FullIs, DedupedIs
  <2>4. \A i \in 1 .. m : i = m \/ i \in 1 .. (m - 1)
    OBVIOUS
  <2>5. m \in 1 .. m /\ \A i \in 1 .. (m - 1) : i \in 1 .. m
    OBVIOUS
  <2>6. \A b : b \in DOMAIN g <=> \E i \in 1 .. m : b \in DOMAIN list[i].rows
    <3>1. ASSUME NEW b, b \in DOMAIN g PROVE \E i \in 1 .. m : b \in DOMAIN list[i].rows
      BY <2>1, <2>3, <2>5, <3>1
    <3>2. ASSUME NEW b, NEW i \in 1 .. m, b \in DOMAIN list[i].rows PROVE b \in DOMAIN g
      <4>1. CASE i = m
        BY <2>3, <3>2, <4>1
      <4>2. CASE i # m
        BY <2>1, <2>3, <2>4, <3>2, <4>2
      <4>3. QED BY <4>1, <4>2
    <3>3. QED BY ONLY <3>1, <3>2
  <2>7. g \in RowsTo(list, m)
    BY ONLY <2>3, <2>6 DEF RowsTo
  <2>8. h[1 .. m] = g
    BY <1>2, <2>1, <2>2
  <2>9. QED BY <1>3, <2>7, <2>8
<1>7. h[1 .. n] \in A[n]
  BY <1>5, <1>6, FoldPasses
<1>8. \A b : b \in DOMAIN h[1 .. n] <=> \E i \in 1 .. n : b \in DOMAIN list[i].rows
  <2>1. h[1 .. n] \in RowsTo(list, n)
    BY <1>3, <1>7
  <2>2. QED BY ONLY <2>1 DEF RowsTo
<1>9. \A i \in 1 .. n : /\ DOMAIN list[i].rows = list[i].from .. (list[i].to - 1)
                       /\ list[i].from \in Int /\ list[i].to \in Int
  BY <1>4, FullIs
<1>10. \A b \in Int : b \in DOMAIN h[1 .. n] <=> In(list, b)
  <2>1. \A b \in Int, i \in 1 .. n :
          b \in DOMAIN list[i].rows <=> list[i].from <= b /\ b < list[i].to
    BY <1>9
  <2>2. QED BY <1>4, <1>8, <2>1 DEF In
<1>11. ASSUME NEW b, b \in DOMAIN h[1 .. n] PROVE b \in Int
  <2>1. PICK i \in 1 .. n : b \in DOMAIN list[i].rows
    BY <1>8, <1>11
  <2>2. b \in list[i].from .. (list[i].to - 1)
    BY <1>9, <2>1
  <2>3. QED BY <2>2
<1>12. DOMAIN RowsIn(list, w) = DOMAIN h[1 .. n] \cap BarsOf(w)
  BY <1>2
<1>13. \A b \in BarsOf(w) : b \in Int
  BY DEF BarsOf
<1>14. QED BY <1>10, <1>12, <1>13

(***************************************************************************)
(* The market series itself.                                                *)
(***************************************************************************)
CacheInv == series \in Seq(FullChunks) /\ Apart(series) /\ Len(series) <= SeriesCap

LEMMA StoredAre ==
  ASSUME series \in Seq(FullChunks)
  PROVE  StoredBars = {b \in Int : In(series, b)}
<1>1. \A i \in DOMAIN series : series[i] \in FullChunks
  OBVIOUS
<1>2. \A i \in DOMAIN series :
        /\ DOMAIN series[i].rows = series[i].from .. (series[i].to - 1)
        /\ series[i].from \in Int /\ series[i].to \in Int
  BY <1>1, FullIs
<1>3. ASSUME NEW b, b \in StoredBars PROVE b \in Int /\ In(series, b)
  <2>1. PICK i \in DOMAIN series : b \in DOMAIN series[i].rows
    BY <1>3 DEF StoredBars
  <2>2. b \in series[i].from .. (series[i].to - 1)
    BY <1>2, <2>1
  <2>3. b \in Int /\ series[i].from <= b /\ b < series[i].to
    BY <1>2, <2>2
  <2>4. QED BY <2>3 DEF In
<1>4. ASSUME NEW b \in Int, In(series, b) PROVE b \in StoredBars
  <2>1. PICK i \in DOMAIN series : series[i].from <= b /\ b < series[i].to
    BY <1>4 DEF In
  <2>2. b \in DOMAIN series[i].rows
    BY <1>2, <2>1
  <2>3. QED BY <2>2 DEF StoredBars
<1>5. QED BY <1>3, <1>4

\* The chunk of a response has a row of each bar of its coverage.
LEMMA ResponseIsFull ==
  ASSUME NEW w \in Coverages, NEW v \in Values
  PROVE  /\ Chunk(w.from, w.to, RowsOf(w, v)) \in FullChunks
         /\ Chunk(w.from, w.to, RowsOf(w, v)).from = w.from
         /\ Chunk(w.from, w.to, RowsOf(w, v)).to = w.to
<1>1. w.from \in 0 .. Horizon /\ w.to \in 0 .. Horizon /\ w.from <= w.to
  BY DEF Coverages
<1>2. PICK rows : rows = RowsOf(w, v)
  OBVIOUS
<1>3. rows = [b \in DOMAIN rows |-> rows[b]] /\ DOMAIN rows = w.from .. (w.to - 1)
      /\ \A b \in DOMAIN rows : rows[b] = v
  BY <1>2 DEF RowsOf, BarsOf
<1>4. \A b \in DOMAIN rows : b \in 0 .. Horizon - 1 /\ rows[b] \in Values
  BY <1>1, <1>3, CacheAssumption
<1>5. rows \in RowSets
  <2>1. \A b \in DOMAIN rows : b \in Int /\ rows[b] \in Values
    BY <1>4
  <2>2. QED BY <1>3, <2>1, RowSetsAre
<1>6. PICK c : c = Chunk(w.from, w.to, rows)
  OBVIOUS
<1>7. c \in AnyChunks /\ c.from = w.from /\ c.to = w.to /\ c.rows = rows
  BY <1>1, <1>5, <1>6 DEF AnyChunks, Chunk
<1>8. c \in FullChunks
  BY <1>1, <1>3, <1>7 DEF FullChunks, BarsOf
<1>9. QED BY <1>2, <1>6, <1>7, <1>8

\* What a merge makes of the store: an Add of BarStore.
AddsOne(w) ==
  \E cut \in 0 .. Horizon : StoredBars' = {b \in StoredBars \cup BarsOf(w) : b >= cut}

LEMMA CutIs ==
  ASSUME NEW list \in Seq(FullChunks), NEW c \in FullChunks,
         NEW all, NEW new, Grown(FullChunks, list, c, SeriesCap, all, new)
  PROVE  \E cut \in 0 .. Horizon : \A b \in Int :
           In(new, b) <=> b >= cut /\ (In(list, b) \/ (c.from <= b /\ b < c.to))
<1>1. /\ all \in Seq(FullChunks) /\ SeriesCap \in Nat \ {0}
      /\ \A b \in Int : In(all, b) <=> In(list, b) \/ (c.from <= b /\ b < c.to)
  BY CacheAssumption DEF Grown
<1>2. PICK size \in Nat : size = Len(all)
  BY <1>1
<1>3. DOMAIN all = 1 .. size /\ \A i \in 1 .. size : all[i] \in FullChunks
  BY <1>1, <1>2
<1>4. \A i \in 1 .. size : all[i].from \in 0 .. Horizon
  BY <1>3, FullIs
<1>5. CASE size <= SeriesCap
  <2>1. new = all
    BY <1>1, <1>2, <1>5 DEF Grown
  <2>2. ASSUME NEW b \in Int, In(all, b) PROVE b >= 0
    <3>1. PICK i \in 1 .. size : all[i].from <= b
      BY <1>3, <2>2 DEF In
    <3>2. QED BY <1>4, <3>1
  <2>3. 0 \in 0 .. Horizon
    BY CacheAssumption
  <2>4. QED BY <1>1, <2>1, <2>2, <2>3
<1>6. CASE size > SeriesCap
  <2>1. PICK k \in 1 .. size : k = size - SeriesCap + 1
    BY <1>1, <1>6
  <2>2. \A b \in Int : In(new, b) <=> b >= all[k].from /\ In(all, b)
    BY <1>1, <1>2, <1>6, <2>1 DEF Grown
  <2>3. QED BY <1>1, <1>4, <2>2
<1>7. QED BY <1>1, <1>5, <1>6

LEMMA MergeKeeps ==
  ASSUME CacheInv, NEW w \in Coverages, NEW v \in Values,
         series' = MergedChunks(series, Chunk(w.from, w.to, RowsOf(w, v)), SeriesCap)
  PROVE  CacheInv' /\ AddsOne(w)
<1>1. series \in Seq(FullChunks)
  BY DEF CacheInv
<1>2. PICK c \in FullChunks : c = Chunk(w.from, w.to, RowsOf(w, v))
                             /\ c.from = w.from /\ c.to = w.to
  BY ResponseIsFull
<1>3. PICK all : Grown(FullChunks, series, c, SeriesCap, all, series')
  <2>1. SeriesCap \in Nat \ {0}
    BY CacheAssumption
  <2>2. QED BY <1>1, <1>2, <2>1, FullIsKind, MergeGrows
<1>4. CacheInv'
  BY <1>3 DEF Grown, CacheInv, Apart
<1>5. StoredBars = {b \in Int : In(series, b)}
  BY <1>1, StoredAre
<1>6. StoredBars' = {b \in Int : In(series', b)}
  <2>1. series' \in Seq(FullChunks)
    BY <1>3 DEF Grown
  <2>2. (series \in Seq(FullChunks) => StoredBars = {b \in Int : In(series, b)})'
    BY StoredAre, PTL
  <2>3. QED BY <2>1, <2>2 DEF FullChunks, AnyChunks, In
<1>7. AddsOne(w)
  <2>1. PICK cut \in 0 .. Horizon : \A b \in Int :
          In(series', b) <=> b >= cut /\ (In(series, b) \/ (c.from <= b /\ b < c.to))
    BY <1>1, <1>2, <1>3, CutIs
  <2>2. w.from \in Int /\ w.to \in Int
    BY DEF Coverages
  <2>3. \A b : b \in BarsOf(w) <=> b \in Int /\ w.from <= b /\ b < w.to
    BY <2>2 DEF BarsOf
  <2>4. StoredBars' = {b \in StoredBars \cup BarsOf(w) : b >= cut}
    BY <1>2, <1>5, <1>6, <2>1, <2>3
  <2>5. QED BY <2>4 DEF AddsOne
<1>8. QED BY <1>4, <1>7

LEMMA StepOfCache ==
  ASSUME CacheInv, [CacheNext]_series
  PROVE  CacheInv' /\ [Store!Add \/ Store!Clear]_StoredBars
<1>1. ASSUME NEW w \in Coverages, AddsOne(w) PROVE Store!Add
  <2>1. PICK cut \in 0 .. Horizon : StoredBars' = {b \in StoredBars \cup BarsOf(w) : b >= cut}
    BY <1>1 DEF AddsOne
  <2>2. BarsOf(w) \in {BarsOf(u) : u \in Coverages}
    OBVIOUS
  <2>3. QED BY <2>1, <2>2 DEF Store!Add
<1>2. CASE series' = series
  BY <1>2 DEF CacheInv, StoredBars
<1>3. CASE MergeBundle
  <2>1. PICK w \in Coverages : \E v \in Values :
          series' = MergedChunks(series, Chunk(w.from, w.to, RowsOf(w, v)), SeriesCap)
    BY <1>3 DEF MergeBundle
  <2>2. CacheInv' /\ AddsOne(w)
    BY <2>1, MergeKeeps
  <2>3. QED BY <1>1, <2>2
<1>4. CASE SetIfAbsent
  <2>1. PICK w \in Coverages : \E v \in Values :
          series' = IF Covers(Bounds(series), w) THEN series
                    ELSE MergedChunks(series, Chunk(w.from, w.to, RowsOf(w, v)), SeriesCap)
    BY <1>4 DEF SetIfAbsent
  <2>2. CASE Covers(Bounds(series), w)
    BY <1>2, <2>1, <2>2
  <2>3. CASE ~Covers(Bounds(series), w)
    <3>1. CacheInv' /\ AddsOne(w)
      BY <2>1, <2>3, MergeKeeps
    <3>2. QED BY <1>1, <3>1
  <2>4. QED BY <2>2, <2>3
<1>5. CASE Reset
  <2>1. series' = <<>>
    BY <1>5 DEF Reset
  <2>2. CacheInv'
    <3>1. <<>> \in Seq(FullChunks) /\ Len(<<>>) = 0 /\ DOMAIN <<>> = {}
      OBVIOUS
    <3>2. QED BY <2>1, <3>1, CacheAssumption DEF CacheInv, Apart
  <2>3. StoredBars' = {}
    BY <2>1 DEF StoredBars
  <2>4. QED BY <2>2, <2>3 DEF Store!Clear
<1>6. QED BY <1>2, <1>3, <1>4, <1>5 DEF CacheNext

LEMMA StartOfCache == CacheInit => CacheInv /\ Store!Init
<1> SUFFICES ASSUME CacheInit PROVE CacheInv /\ Store!Init
  OBVIOUS
<1>1. series = <<>>
  BY DEF CacheInit
<1>2. <<>> \in Seq(FullChunks) /\ Len(<<>>) = 0 /\ DOMAIN <<>> = {}
  OBVIOUS
<1>3. CacheInv
  BY <1>1, <1>2, CacheAssumption DEF CacheInv, Apart
<1>4. StoredBars = {}
  BY <1>1 DEF StoredBars
<1>5. QED BY <1>3, <1>4 DEF Store!Init

LEMMA AlwaysCacheInv == CacheSpec => []CacheInv
<1>1. CacheInv /\ [CacheNext]_series => CacheInv'
  BY StepOfCache
<1>2. QED BY <1>1, StartOfCache, PTL DEF CacheSpec

\* The covered parts of a window are its bars that are there.
LEMMA CoveredAre ==
  ASSUME NEW C, Kind(C), NEW list \in Seq(C), Apart(list), NEW w \in Stretches
  PROVE  UNION {BarsOf(r) : r \in CoveredRanges(Bounds(list), w)}
           = {b \in BarsOf(w) : In(list, b)}
<1>1. PICK n \in Nat : n = Len(list)
  OBVIOUS
<1>2. PICK ws : ws = Bounds(list)
  OBVIOUS
<1>3. w.from \in Int /\ w.to \in Int
  BY DEF Stretches
<1>4. Joined(ws) = ws
  <2>1. WalkedOver(list, ws, n, w.from, Reach(ws, w.from))
    BY <1>1, <1>2, <1>3, WalkOver
  <2>2. QED BY <2>1 DEF WalkedOver
<1>5. /\ ws \in Seq(Stretches) /\ Len(ws) = n /\ DOMAIN list = 1 .. n
      /\ \A i \in 1 .. n : /\ ws[i].from = list[i].from /\ ws[i].to = list[i].to
                          /\ ws[i].from \in Int /\ ws[i].to \in Int
  BY <1>1, <1>2, BoundsAre
<1>6. DOMAIN ws = 1 .. n /\ ToSet(ws) = {ws[i] : i \in 1 .. n}
  BY <1>5 DEF ToSet
<1>7. CoveredRanges(ws, w) = {v \in {Clip(ws[i], w) : i \in 1 .. n} : v.from < v.to}
  BY <1>4, <1>6 DEF CoveredRanges
<1>8. \A b : b \in BarsOf(w) <=> b \in Int /\ w.from <= b /\ b < w.to
  BY <1>3 DEF BarsOf
<1>9. ASSUME NEW i \in 1 .. n, NEW b
      PROVE  b \in BarsOf(Clip(ws[i], w)) <=> b \in BarsOf(w) /\ ws[i].from <= b /\ b < ws[i].to
  <2>1. ws[i].from \in Int /\ ws[i].to \in Int
    BY <1>5
  <2>2. PICK low \in Int : /\ low = Larger(ws[i].from, w.from)
                           /\ \A x \in Int : x >= low <=> x >= ws[i].from /\ x >= w.from
    BY <1>3, <2>1 DEF Larger
  <2>3. PICK high \in Int : /\ high = Smaller(ws[i].to, w.to)
                            /\ \A x \in Int : x < high <=> x < ws[i].to /\ x < w.to
    BY <1>3, <2>1 DEF Smaller
  <2>4. BarsOf(Clip(ws[i], w)) = low .. (high - 1)
    BY <2>2, <2>3 DEF Clip, Window, BarsOf
  <2>5. b \in low .. (high - 1) <=> b \in Int /\ b >= low /\ b < high
    OBVIOUS
  <2>6. QED BY <1>3, <1>8, <2>1, <2>2, <2>3, <2>4, <2>5
<1>10. ASSUME NEW b, NEW r \in CoveredRanges(ws, w), b \in BarsOf(r)
       PROVE  b \in BarsOf(w) /\ In(list, b)
  <2>1. PICK i \in 1 .. n : r = Clip(ws[i], w)
    BY <1>7
  <2>2. b \in BarsOf(w) /\ ws[i].from <= b /\ b < ws[i].to
    BY <1>9, <1>10, <2>1
  <2>3. QED BY <1>5, <2>2 DEF In
<1>11. ASSUME NEW b \in BarsOf(w), In(list, b)
       PROVE  \E r \in CoveredRanges(ws, w) : b \in BarsOf(r)
  <2>1. PICK i \in 1 .. n : ws[i].from <= b /\ b < ws[i].to
    BY <1>5, <1>11 DEF In
  <2>2. PICK r : r = Clip(ws[i], w)
    OBVIOUS
  <2>3. b \in BarsOf(r)
    BY <1>9, <2>1, <2>2
  <2>4. r.from < r.to
    <3>1. r.from \in Int /\ r.to \in Int
      BY <1>3, <1>5, <2>2 DEF Clip, Window, Larger, Smaller
    <3>2. b \in r.from .. (r.to - 1)
      BY <2>3 DEF BarsOf
    <3>3. QED BY <3>1, <3>2
  <2>5. r \in CoveredRanges(ws, w)
    BY <1>7, <2>2, <2>4
  <2>6. QED BY <2>3, <2>5
<1>12. QED BY <1>2, <1>10, <1>11

LEMMA InvWalks == CacheInv => WalksAgreeWithBars
<1> SUFFICES ASSUME CacheInv, NEW w \in Coverages
    PROVE  LET bounds == Bounds(series)
               hole == MissingRange(bounds, w)
               out == BarsOf(w) \ StoredBars
           IN  /\ Covers(bounds, w) <=> out = {}
               /\ out = {} => hole = NoHole
               /\ out # {} =>
                    /\ BarsOf(hole) # {} /\ BarsOf(hole) \subseteq out
                    /\ \A b \in out : b >= hole.from
                    /\ \/ hole.to \notin out
                       \/ \E i \in DOMAIN bounds : bounds[i] = Window(hole.to, hole.to)
               /\ UNION {BarsOf(r) : r \in CoveredRanges(bounds, w)} = BarsOf(w) \ out
  BY DEF WalksAgreeWithBars
<1>1. series \in Seq(FullChunks) /\ Apart(series)
  BY DEF CacheInv
<1>a. w \in Stretches
  BY DEF Coverages, Stretches
<1>2. \A b \in BarsOf(w) : b \in Int
  BY DEF BarsOf
<1>3. PICK out : out = {b \in BarsOf(w) : ~In(series, b)}
  OBVIOUS
<1>4. BarsOf(w) \ StoredBars = out
  BY <1>1, <1>2, <1>3, StoredAre
<1>5. Covers(Bounds(series), w) <=> out = {}
  BY <1>1, <1>3, <1>a, FullIsKind, CoversIs
<1>6. HoleIs(series, w, MissingRange(Bounds(series), w))
  BY <1>1, <1>a, FullIsKind, MissingIs
<1>7. PICK hole : hole = MissingRange(Bounds(series), w)
  OBVIOUS
<1>8. /\ out = {} => hole = NoHole
      /\ out # {} =>
           /\ BarsOf(hole) # {} /\ BarsOf(hole) \subseteq out
           /\ \A b \in out : b >= hole.from
           /\ \/ hole.to \notin out
              \/ \E i \in DOMAIN Bounds(series) :
                   Bounds(series)[i] = Window(hole.to, hole.to)
  BY <1>3, <1>6, <1>7 DEF HoleIs
<1>9. UNION {BarsOf(r) : r \in CoveredRanges(Bounds(series), w)} = BarsOf(w) \ out
  <2>1. UNION {BarsOf(r) : r \in CoveredRanges(Bounds(series), w)}
          = {b \in BarsOf(w) : In(series, b)}
    BY <1>1, <1>a, FullIsKind, CoveredAre
  <2>2. QED BY <1>3, <2>1
<1>10. QED BY <1>4, <1>5, <1>7, <1>8, <1>9

LEMMA InvServed == CacheInv => CoveredIsServed
<1> SUFFICES ASSUME CacheInv PROVE CoveredIsServed
  OBVIOUS
<1>1. series \in Seq(FullChunks) /\ Apart(series) /\ Len(series) <= SeriesCap
  BY DEF CacheInv
<1>2. \A i \in DOMAIN series : series[i] \in FullChunks
  BY <1>1
<1>3. ASSUME NEW i \in DOMAIN series
      PROVE  /\ Window(series[i].from, series[i].to) \in Coverages
             /\ \A b \in DOMAIN series[i].rows :
                  b \in 0 .. Horizon - 1 /\ series[i].rows[b] \in Values
  <2>1. /\ series[i].from \in 0 .. Horizon /\ series[i].to \in 0 .. Horizon
        /\ series[i].from <= series[i].to /\ series[i].rows \in RowSets
    BY <1>2, FullIs
  <2>2. Window(series[i].from, series[i].to) \in Coverages
    BY <2>1 DEF Window, Coverages
  <2>3. DOMAIN series[i].rows = series[i].from .. (series[i].to - 1)
    BY <1>2, FullIs
  <2>4. \A b \in DOMAIN series[i].rows : b \in 0 .. Horizon - 1
    BY <2>1, <2>3, CacheAssumption
  <2>5. QED BY <2>1, <2>2, <2>4, RowSetsAre
<1>4. ChunksApart
  BY <1>1, <1>3 DEF ChunksApart, SeriesTypeOK, Apart
<1>5. ASSUME NEW w \in Coverages, Covers(Bounds(series), w)
      PROVE  DOMAIN Served(series, w) = BarsOf(w)
  <2>1. \A b \in BarsOf(w) : In(series, b)
    <3>1. w \in Stretches
      BY DEF Coverages, Stretches
    <3>2. QED BY <1>1, <1>5, <3>1, FullIsKind, CoversIs
  <2>2. Served(series, w) = RowsIn(series, w)
    BY <1>5 DEF Served
  <2>3. DOMAIN RowsIn(series, w) = {b \in BarsOf(w) : In(series, b)}
    BY <1>1, RowsAreOfBars
  <2>4. QED BY <2>1, <2>2, <2>3
<1>6. QED BY <1>4, <1>5 DEF CoveredIsServed

\* The interval walks of marketIntervalCoverage.ts say of every window what
\* the bars of the store say: covered or not, where its first hole is, which
\* parts are there.
THEOREM WalksSayWhatIsThere == CacheSpec => []WalksAgreeWithBars
BY AlwaysCacheInv, InvWalks, PTL

\* Coalescing, deduplication and the cap of mergeChunk leave no coverage
\* without the rows behind it.
THEOREM CoverageIsServed == CacheSpec => []CoveredIsServed
BY AlwaysCacheInv, InvServed, PTL

\* The store implements a set of bars that responses add to and that loses
\* only its oldest part.
THEOREM StoreIsABarStore == CacheSpec => ImplementsStore
<1>1. CacheInv /\ [CacheNext]_series => [Store!Add \/ Store!Clear]_StoredBars
  BY StepOfCache
<1>2. QED BY <1>1, AlwaysCacheInv, StartOfCache, PTL DEF CacheSpec, ImplementsStore, Store!Spec

(***************************************************************************)
(* The chunks of the loader, which carry no rows.                           *)
(***************************************************************************)
BareChunks == {c \in AnyChunks : c.from <= c.to /\ DOMAIN c.rows = {}}

LEMMA BareIs ==
  ASSUME NEW c \in BareChunks
  PROVE  c \in AnyChunks /\ c.from \in Int /\ c.to \in Int /\ c.from <= c.to
BY DEF BareChunks, AnyChunks

LEMMA BareIsKind == Kind(BareChunks)
<1>1. ASSUME NEW last \in BareChunks, NEW c \in BareChunks,
             last.from <= c.from, c.from <= last.to
      PROVE  JoinedChunk(last, c) \in BareChunks
  <2>1. /\ last.from \in Int /\ last.to \in Int /\ last.from <= last.to
        /\ DOMAIN last.rows = {} /\ last \in AnyChunks /\ last.rows \in RowSets
    BY DEF BareChunks, AnyChunks
  <2>2. /\ c.from \in Int /\ c.to \in Int /\ c.from <= c.to
        /\ DOMAIN c.rows = {} /\ c \in AnyChunks /\ c.rows \in RowSets
    BY DEF BareChunks, AnyChunks
  <2>3. PICK to \in Int : to = Larger(last.to, c.to) /\ to >= last.to
    BY <2>1, <2>2 DEF Larger
  <2>4. PICK new : new = JoinedChunk(last, c)
    OBVIOUS
  <2>5. new \in AnyChunks
    BY <2>1, <2>2, <2>4, JoinedChunkIs
  <2>6. new.from = last.from /\ new.to = to /\ new.rows = Deduped(last.rows, c.rows)
    BY <2>3, <2>4 DEF Chunk, JoinedChunk
  <2>7. DOMAIN new.rows = {}
    BY <2>1, <2>2, <2>6, DedupedIs
  <2>8. new.from <= new.to
    BY <2>1, <2>3, <2>6
  <2>9. QED BY <2>4, <2>5, <2>7, <2>8 DEF BareChunks
<1>2. \A c \in BareChunks : c \in AnyChunks /\ c.from <= c.to
  BY BareIs
<1>3. QED BY <1>1, <1>2 DEF Kind

\* What is merged starts where one of the two did, and only there.
StartsAt(old, c, x) ==
  \/ x = c.from /\ ~In(old, c.from - 1)
  \/ /\ \E j \in DOMAIN old : old[j].from = x
     /\ ~(c.from <= x - 1 /\ x - 1 < c.to)

\* Chunks that are apart have no bar just before one of them.
LEMMA NoBarBefore ==
  ASSUME NEW all \in Seq(BareChunks), Apart(all), NEW i \in DOMAIN all
  PROVE  all[i].from \in Int /\ ~In(all, all[i].from - 1)
<1>1. \A k \in DOMAIN all : /\ all[k].from \in Int /\ all[k].to \in Int
                            /\ all[k].from <= all[k].to
  <2>1. \A k \in DOMAIN all : all[k] \in BareChunks
    OBVIOUS
  <2>2. QED BY <2>1, BareIs
<1>2. PICK x \in Int : x = all[i].from
  BY <1>1
<1>3. ~In(all, x - 1)
  <2> SUFFICES ASSUME In(all, x - 1) PROVE FALSE
    OBVIOUS
  <2>1. PICK k \in DOMAIN all : all[k].from <= x - 1 /\ x - 1 < all[k].to
    BY DEF In
  <2>2. k \in Int /\ i \in Int
    OBVIOUS
  <2>3. CASE k = i
    BY <1>2, <2>1, <2>3
  <2>4. CASE k < i
    <3>1. all[k].to < all[i].from
      BY <2>4 DEF Apart
    <3>2. all[k].to \in Int
      BY <1>1
    <3>3. QED BY <1>2, <2>1, <3>1, <3>2
  <2>5. CASE i < k
    <3>1. all[i].to < all[k].from
      BY <2>5 DEF Apart
    <3>2. all[i].to \in Int /\ all[k].from \in Int /\ all[i].from <= all[i].to
      BY <1>1
    <3>3. QED BY <1>2, <2>1, <3>1, <3>2
  <2>6. QED BY <2>2, <2>3, <2>4, <2>5
<1>4. QED BY <1>2, <1>3

LEMMA StartsAre ==
  ASSUME NEW old \in Seq(BareChunks), NEW c \in BareChunks,
         NEW all \in Seq(BareChunks), Apart(all), StartsOfBoth(all, old, c),
         \A b \in Int : In(all, b) <=> In(old, b) \/ (c.from <= b /\ b < c.to),
         NEW i \in DOMAIN all
  PROVE  StartsAt(old, c, all[i].from)
<1>1. PICK x \in Int : x = all[i].from /\ ~In(all, x - 1)
  BY NoBarBefore
<1>2. ~In(old, x - 1) /\ ~(c.from <= x - 1 /\ x - 1 < c.to)
  BY <1>1
<1>3. x = c.from \/ \E j \in DOMAIN old : old[j].from = x
  BY <1>1 DEF StartsOfBoth
<1>4. CASE x = c.from
  BY <1>1, <1>2, <1>4 DEF StartsAt
<1>5. CASE \E j \in DOMAIN old : old[j].from = x
  BY <1>1, <1>2, <1>5 DEF StartsAt
<1>6. QED BY <1>3, <1>4, <1>5

\* As many places as there are chunks that start at one of them.
Placed(all, size, T, at) == \A i \in 1 .. size : \E j \in T : at[j] = all[i].from

LEMMA NoMoreThan ==
  ASSUME NEW all \in Seq(BareChunks), Apart(all), NEW size \in Nat, size = Len(all),
         NEW T, IsFiniteSet(T), NEW at, Placed(all, size, T, at)
  PROVE  size <= Cardinality(T)
<1>1. Cardinality(T) \in Nat
  BY FS_CardinalityType
<1> SUFFICES ASSUME Cardinality(T) < size PROVE FALSE
  BY <1>1
<1>2. IsFiniteSet(1 .. size) /\ Cardinality(1 .. size) = size
  <2>1. /\ IsFiniteSet(1 .. size)
        /\ Cardinality(1 .. size) = IF 1 > size THEN 0 ELSE size - 1 + 1
    BY ONLY size \in Nat, FS_Interval
  <2>2. QED BY <2>1
<1>3. PICK f : f = [i \in 1 .. size |-> CHOOSE j \in T : at[j] = all[i].from]
  OBVIOUS
<1>4. f \in [1 .. size -> T] /\ \A i \in 1 .. size : at[f[i]] = all[i].from
  BY <1>3 DEF Placed
<1>5. PICK i \in 1 .. size : \E k \in 1 .. size : i # k /\ f[i] = f[k]
  BY <1>2, <1>4, FS_PigeonHole
<1>6. PICK k \in 1 .. size : i # k /\ f[i] = f[k]
  BY <1>5
<1>7. all[i].from = all[k].from
  BY <1>4, <1>6
<1>8. DOMAIN all = 1 .. size /\ all[i] \in BareChunks /\ all[k] \in BareChunks
  OBVIOUS
<1>9. /\ all[i].from \in Int /\ all[i].to \in Int /\ all[i].from <= all[i].to
      /\ all[k].from \in Int /\ all[k].to \in Int /\ all[k].from <= all[k].to
  BY <1>8, BareIs
<1>10. CASE i < k
  <2>1. all[i].to < all[k].from
    BY <1>8, <1>10 DEF Apart
  <2>2. QED BY <1>7, <1>9, <2>1
<1>11. CASE k < i
  <2>1. all[k].to < all[i].from
    BY <1>8, <1>11 DEF Apart
  <2>2. QED BY <1>7, <1>9, <2>1
<1>12. QED BY <1>6, <1>10, <1>11

\* A response that touches the chunks of a list leaves no more of them; one
\* that leaves more starts a chunk.
LEMMA TouchingAdds ==
  ASSUME NEW old \in Seq(BareChunks), NEW c \in BareChunks, NEW n \in Nat, n = Len(old),
         NEW all \in Seq(BareChunks), Apart(all), NEW size \in Nat, size = Len(all),
         StartsOfBoth(all, old, c),
         \A b \in Int : In(all, b) <=> In(old, b) \/ (c.from <= b /\ b < c.to)
  PROVE  /\ size <= n + 1
         /\ size > n => ~In(old, c.from - 1) /\ \A j \in DOMAIN old : old[j].from # c.to
         /\ size > n => \E i \in DOMAIN all : all[i].from = c.from
<1>1. PICK at : at = [j \in 1 .. n + 1 |-> IF j = n + 1 THEN c.from ELSE old[j].from]
  OBVIOUS
<1>2. DOMAIN all = 1 .. size /\ DOMAIN old = 1 .. n
  OBVIOUS
<1>3. \A i \in 1 .. size :
        \/ all[i].from = c.from /\ ~In(old, c.from - 1)
        \/ /\ \E j \in 1 .. n : old[j].from = all[i].from
           /\ ~(c.from <= all[i].from - 1 /\ all[i].from - 1 < c.to)
  <2>1. \A i \in 1 .. size : StartsAt(old, c, all[i].from)
    BY <1>2, StartsAre
  <2>2. QED BY <1>2, <2>1 DEF StartsAt
<1>4. at[n + 1] = c.from /\ \A j \in 1 .. n : at[j] = old[j].from
  <2>1. n + 1 \in 1 .. n + 1 /\ \A j \in 1 .. n : j \in 1 .. n + 1 /\ j # n + 1
    OBVIOUS
  <2>2. QED BY <1>1, <2>1
<1>5. IsFiniteSet(1 .. n + 1) /\ Cardinality(1 .. n + 1) = n + 1
  <2>1. PICK m \in Int : m = n + 1
    OBVIOUS
  <2>2. IsFiniteSet(1 .. m) /\ Cardinality(1 .. m) = IF 1 > m THEN 0 ELSE m - 1 + 1
    BY ONLY m \in Int, FS_Interval
  <2>3. QED BY <2>1, <2>2
<1>6. size <= n + 1
  <2>1. \A i \in 1 .. size : \E j \in 1 .. n + 1 : at[j] = all[i].from
    <3>1. ASSUME NEW i \in 1 .. size PROVE \E j \in 1 .. n + 1 : at[j] = all[i].from
      <4>1. CASE all[i].from = c.from
        BY <1>4, <4>1, n + 1 \in 1 .. n + 1
      <4>2. CASE \E j \in 1 .. n : old[j].from = all[i].from
        <5>1. PICK j \in 1 .. n : old[j].from = all[i].from
          BY <4>2
        <5>2. j \in 1 .. n + 1
          OBVIOUS
        <5>3. QED BY <1>4, <5>1, <5>2
      <4>3. QED BY <1>3, <4>1, <4>2
    <3>2. QED BY <3>1
  <2>2. Placed(all, size, 1 .. n + 1, at)
    BY <2>1 DEF Placed
  <2>3. QED BY <1>5, <2>2, NoMoreThan
<1>7. ASSUME \A i \in 1 .. size : \E j \in 1 .. n : old[j].from = all[i].from PROVE size <= n
  <2>1. ASSUME NEW i \in 1 .. size PROVE \E j \in 1 .. n : at[j] = all[i].from
    BY <1>4, <1>7
  <2>2. IsFiniteSet(1 .. n) /\ Cardinality(1 .. n) = n
    <3>1. IsFiniteSet(1 .. n) /\ Cardinality(1 .. n) = IF 1 > n THEN 0 ELSE n - 1 + 1
      BY ONLY n \in Nat, FS_Interval
    <3>2. QED BY <3>1
  <2>3. size <= Cardinality(1 .. n)
    <3>1. Placed(all, size, 1 .. n, at)
      BY <2>1 DEF Placed
    <3>2. QED BY <2>2, <3>1, NoMoreThan
  <2>4. QED BY <2>2, <2>3
<1>8. ASSUME NEW k \in 1 .. n, old[k].from = c.to PROVE size <= n
  <2>1. c.from \in Int /\ c.to \in Int /\ c.from <= c.to
    BY BareIs
  <2>2. PICK T : T = (1 .. n + 1) \ {k}
    OBVIOUS
  <2>3. \A i \in 1 .. size : \E j \in T : at[j] = all[i].from
    <3>1. ASSUME NEW i \in 1 .. size PROVE \E j \in T : at[j] = all[i].from
      <4>1. CASE all[i].from = c.from
        <5>1. n + 1 \in T
          BY <2>2
        <5>2. QED BY <1>4, <4>1, <5>1
      <4>2. CASE /\ \E j \in 1 .. n : old[j].from = all[i].from
                 /\ ~(c.from <= all[i].from - 1 /\ all[i].from - 1 < c.to)
        <5>1. PICK j \in 1 .. n : old[j].from = all[i].from
          BY <4>2
        <5>2. CASE j = k
          <6>1. all[i].from = c.to
            BY <1>8, <5>1, <5>2
          <6>2. c.from = c.to
            BY <2>1, <4>2, <6>1
          <6>3. at[n + 1] = all[i].from /\ n + 1 \in T
            BY <1>4, <2>2, <6>1, <6>2
          <6>4. QED BY <6>3
        <5>3. CASE j # k
          <6>1. j \in T
            BY <2>2, <5>3
          <6>2. QED BY <1>4, <5>1, <6>1
        <5>4. QED BY <5>2, <5>3
      <4>3. QED BY <1>3, <4>1, <4>2
    <3>2. QED BY <3>1
  <2>4. IsFiniteSet(T) /\ Cardinality(T) = n
    <3>1. k \in 1 .. n + 1
      OBVIOUS
    <3>2. /\ IsFiniteSet(T)
          /\ Cardinality(T) = IF k \in 1 .. n + 1 THEN Cardinality(1 .. n + 1) - 1
                              ELSE Cardinality(1 .. n + 1)
      BY <1>5, <2>2, FS_RemoveElement
    <3>3. QED BY <1>5, <3>1, <3>2
  <2>5. size <= Cardinality(T)
    <3>1. Placed(all, size, T, at)
      BY <2>3 DEF Placed
    <3>2. QED BY <2>4, <3>1, NoMoreThan
  <2>6. QED BY <2>4, <2>5
<1>9. ASSUME In(old, c.from - 1) PROVE size <= n
  <2>1. \A i \in 1 .. size : \E j \in 1 .. n : old[j].from = all[i].from
    BY <1>3, <1>9
  <2>2. QED BY <1>7, <2>1
<1>10. ASSUME ~\E i \in 1 .. size : all[i].from = c.from PROVE size <= n
  <2>1. \A i \in 1 .. size : \E j \in 1 .. n : old[j].from = all[i].from
    BY <1>3, <1>10
  <2>2. QED BY <1>7, <2>1
<1>11. size > n => ~In(old, c.from - 1) /\ \E i \in 1 .. size : all[i].from = c.from
  BY <1>9, <1>10
<1>12. size > n => \A j \in 1 .. n : old[j].from # c.to
  BY <1>8
<1>13. QED BY <1>2, <1>6, <1>11, <1>12

\* The chunks of a series, with no bar the server lacks.
Stocked(list, s) == \A b \in Int : In(list, b) => Stored[s].from <= b /\ b < Stored[s].to
ListSound(list) == list \in Seq(BareChunks) /\ Apart(list) /\ Len(list) <= ChunkCap

\* What the server answers is the part of the request that it has, and nothing,
\* at the start of the request, when it has none.
AnswerOf(s, hole, got) ==
  /\ got.from \in Int /\ got.to \in Int
  /\ hole.from <= got.from /\ got.from <= got.to /\ got.to <= hole.to
  /\ \A b \in Int : got.from <= b /\ b < got.to
       <=> hole.from <= b /\ b < hole.to /\ Stored[s].from <= b /\ b < Stored[s].to
  /\ got.from = got.to => got.from = hole.from
  /\ Stored[s].from <= hole.from => got.from = hole.from

LEMMA AnswerIs ==
  ASSUME NEW s \in Series, NEW hole, hole.from \in Int, hole.to \in Int, hole.from <= hole.to,
         NEW got, got = Answered(s, hole)
  PROVE  AnswerOf(s, hole, got)
<1>1. PICK stock : stock = Stored[s] /\ stock.from \in Int /\ stock.to \in Int
  BY LoadAssumption
<1>2. PICK from \in Int : from = Larger(stock.from, hole.from)
  BY <1>1 DEF Larger
<1>3. PICK to \in Int : to = Smaller(stock.to, hole.to)
  BY <1>1 DEF Smaller
<1>4. got = IF from < to THEN Window(from, to) ELSE Window(hole.from, hole.from)
  BY <1>1, <1>2, <1>3 DEF Answered, Clip, Window
<1>5. /\ from = stock.from \/ from = hole.from
      /\ from >= stock.from /\ from >= hole.from
      /\ to = stock.to \/ to = hole.to
      /\ to <= stock.to /\ to <= hole.to
  BY <1>1, <1>2, <1>3 DEF Larger, Smaller
<1>6. CASE from < to
  <2>1. got.from = from /\ got.to = to
    BY <1>4, <1>6 DEF Window
  <2>2. QED BY <1>1, <1>5, <1>6, <2>1 DEF AnswerOf
<1>7. CASE ~(from < to)
  <2>1. got.from = hole.from /\ got.to = hole.from
    BY <1>4, <1>7 DEF Window
  <2>2. QED BY <1>1, <1>5, <1>7, <2>1 DEF AnswerOf
<1>8. QED BY <1>6, <1>7

\* A chunk without rows.
LEMMA BareAnswer ==
  ASSUME NEW from \in Int, NEW to \in Int, from <= to, NEW c, c = Chunk(from, to, <<>>)
  PROVE  c.from = from /\ c.to = to /\ c \in BareChunks
<1>1. PICK rows : rows = <<>>
  OBVIOUS
<1>2. rows = [b \in DOMAIN rows |-> rows[b]] /\ DOMAIN rows = {}
  BY <1>1
<1>3. rows \in RowSets
  BY <1>2, RowSetsAre
<1>4. c.from = from /\ c.to = to /\ c.rows = rows /\ c \in AnyChunks
  BY <1>1, <1>3 DEF Chunk, AnyChunks
<1>5. QED BY <1>2, <1>4 DEF BareChunks

\* The answer for the first hole of a window leaves all of the window that is
\* there: the cap can drop a chunk only for an answer that touches none, and
\* then the window has none before the answer.
WindowKept(list, s, w, new) ==
  /\ ListSound(new) /\ Stocked(new, s)
  /\ \A b \in BarsOf(w) : In(list, b) => In(new, b)

LEMMA WindowStays ==
  ASSUME NEW s \in Series, NEW list, ListSound(list), Stocked(list, s),
         NEW w \in Stretches, NEW hole, HoleAt(list, w, hole),
         NEW got, got = Answered(s, hole)
  PROVE  WindowKept(list, s, w, MergedChunks(list, Chunk(got.from, got.to, <<>>), ChunkCap))
<1>1. /\ hole.from \in Int /\ hole.to \in Int
      /\ w.from <= hole.from /\ hole.from < hole.to /\ hole.to <= w.to
      /\ \A b \in w.from .. (hole.from - 1) : In(list, b)
      /\ \A b \in Int : hole.from <= b /\ b < hole.to => ~In(list, b)
  BY DEF HoleAt
<1>2. AnswerOf(s, hole, got)
  BY <1>1, AnswerIs
<1>3. PICK c : c = Chunk(got.from, got.to, <<>>)
  OBVIOUS
<1>4. /\ c.from \in Int /\ c.to \in Int /\ c \in BareChunks /\ c.from = got.from /\ c.to = got.to
      /\ hole.from <= c.from /\ c.from <= c.to /\ c.to <= hole.to
      /\ c.from = c.to => c.from = hole.from
      /\ Stored[s].from <= hole.from => c.from = hole.from
  BY <1>2, <1>3, BareAnswer DEF AnswerOf
<1>5. \A b \in Int : c.from <= b /\ b < c.to =>
        hole.from <= b /\ b < hole.to /\ Stored[s].from <= b /\ b < Stored[s].to
  BY <1>2, <1>4 DEF AnswerOf
<1>6. list \in Seq(BareChunks) /\ Apart(list) /\ Len(list) <= ChunkCap
  BY DEF ListSound
<1>7. ChunkCap \in Nat \ {0} /\ Stored[s].from \in Int
  BY LoadAssumption
<1>8. PICK new : new = MergedChunks(list, c, ChunkCap)
  OBVIOUS
<1>9. PICK all : Grown(BareChunks, list, c, ChunkCap, all, new)
  BY <1>4, <1>6, <1>7, <1>8, BareIsKind, MergeGrows
<1>10. /\ all \in Seq(BareChunks) /\ Apart(all) /\ StartsOfBoth(all, list, c)
       /\ \A b \in Int : In(all, b) <=> In(list, b) \/ (c.from <= b /\ b < c.to)
       /\ new \in Seq(BareChunks) /\ Apart(new) /\ Len(new) <= ChunkCap
  BY <1>9 DEF Grown
<1>11. \A b \in Int : In(new, b) => In(all, b)
  BY <1>9 DEF Grown
<1>12. Stocked(new, s)
  BY <1>5, <1>10, <1>11 DEF Stocked
<1>13. PICK size \in Nat : size = Len(all)
  BY <1>10
<1>14. PICK n \in Nat : n = Len(list)
  BY <1>6
<1>15. /\ size <= n + 1
       /\ size > n => ~In(list, c.from - 1) /\ \A j \in DOMAIN list : list[j].from # c.to
       /\ size > n => \E i \in DOMAIN all : all[i].from = c.from
  <2>1. list \in Seq(BareChunks) /\ c \in BareChunks
    BY <1>4, <1>6
  <2>2. /\ all \in Seq(BareChunks) /\ Apart(all) /\ StartsOfBoth(all, list, c)
        /\ \A b \in Int : In(all, b) <=> In(list, b) \/ (c.from <= b /\ b < c.to)
    BY <1>10
  <2>3. QED BY ONLY <2>1, <2>2, <1>13, <1>14, TouchingAdds
<1>16. CASE size <= ChunkCap
  <2>1. new = all
    BY <1>7, <1>9, <1>13, <1>16 DEF Grown
  <2>2. QED BY <1>10, <1>12, <2>1, <1>3, <1>8 DEF WindowKept, ListSound, BarsOf
<1>17. CASE size > ChunkCap
  <2>1. size = ChunkCap + 1 /\ size > n
    BY <1>6, <1>7, <1>14, <1>15, <1>17
  <2>2. DOMAIN all = 1 .. size /\ 2 \in DOMAIN all /\ 1 \in DOMAIN all
    <3>1. DOMAIN all = 1 .. size
      BY <1>10, <1>13
    <3>2. size \in Nat /\ size >= 2
      BY <1>7, <1>13, <2>1
    <3>3. QED BY <3>1, <3>2
  <2>3. \A b \in Int : In(new, b) <=> b >= all[2].from /\ In(all, b)
    <3>1. Len(all) - ChunkCap + 1 = 2 /\ ~(Len(all) <= ChunkCap)
      BY <1>7, <1>13, <2>1
    <3>2. QED BY <1>9, <3>1 DEF Grown
  <2>4. hole.from = w.from
    <3> SUFFICES ASSUME hole.from # w.from PROVE FALSE
      OBVIOUS
    <3>1. w.from \in Int /\ hole.from - 1 \in w.from .. (hole.from - 1)
      BY <1>1 DEF Stretches
    <3>2. In(list, hole.from - 1)
      BY <1>1, <3>1
    <3>3. Stored[s].from <= hole.from
      <4>1. Stored[s].from <= hole.from - 1
        BY <1>1, <3>2 DEF Stocked
      <4>2. QED BY <1>1, <1>7, <4>1
    <3>4. c.from = hole.from
      BY <1>4, <3>3
    <3>5. QED BY <1>15, <2>1, <3>2, <3>4
  <2>5. ASSUME NEW b \in BarsOf(w), In(list, b), ~In(new, b) PROVE FALSE
    <3>1. b \in Int /\ w.from <= b /\ b < w.to
      BY DEF BarsOf, Stretches
    <3>2. hole.to <= b
      BY <1>1, <2>4, <2>5, <3>1
    <3>3. In(all, b) /\ ~(b >= all[2].from)
      BY <1>10, <2>3, <2>5, <3>1
    <3>4. PICK i \in 1 .. size : all[i].from = c.from
      BY <1>15, <2>1, <2>2
    <3>5. \A k \in 1 .. size : /\ all[k].from \in Int /\ all[k].to \in Int
                               /\ all[k].from <= all[k].to
      <4>1. \A k \in 1 .. size : all[k] \in BareChunks
        BY <1>10, <2>2
      <4>2. QED BY <4>1, BareIs
    <3>6. ASSUME NEW k \in 1 .. size, k # 1 PROVE all[2].from <= all[k].from
      <4>1. k = 2 \/ 2 < k
        BY ONLY k \in 1 .. size, size \in Nat, k # 1
      <4>2. CASE 2 < k
        <5>1. all[2].to < all[k].from
          BY <1>10, <2>2, <4>2 DEF Apart
        <5>2. QED BY <2>2, <3>5, <5>1
      <4>3. CASE k = 2
        BY <2>2, <3>5, <4>3
      <4>4. QED BY <4>1, <4>2, <4>3
    <3>7. all[1].from = c.from
      <4>1. c.from <= b
        BY <1>1, <1>4, <3>1, <3>2
      <4>2. all[2].from \in Int
        BY <2>2, <3>5
      <4>3. ~(all[2].from <= c.from)
        BY <1>4, <3>1, <3>3, <4>1, <4>2
      <4>4. QED BY <3>4, <3>6, <4>3
    <3>8. b < all[1].to
      <4>1. PICK k \in 1 .. size : all[k].from <= b /\ b < all[k].to
        BY <2>2, <3>3 DEF In
      <4>2. all[2].from \in Int /\ all[k].from \in Int
        BY <2>2, <3>5
      <4>3. ~(all[2].from <= all[k].from)
        BY <3>1, <3>3, <4>1, <4>2
      <4>4. k = 1
        BY <3>6, <4>3
      <4>5. QED BY <4>1, <4>4
    <3>9. ASSUME NEW x \in Int, c.from <= x, x <= b PROVE In(all, x)
      <4>1. all[1].to \in Int
        BY <2>2, <3>5
      <4>2. all[1].from <= x /\ x < all[1].to
        BY <3>1, <3>7, <3>8, <3>9, <4>1
      <4>3. QED BY <2>2, <4>2 DEF In
    <3>10. CASE c.from = c.to
      <4>1. c.from = hole.from
        BY <1>4, <3>10
      <4>2. In(all, hole.from)
        BY <1>1, <3>1, <3>2, <3>9, <4>1
      <4>3. ~(c.from <= hole.from /\ hole.from < c.to)
        BY <1>1, <3>10, <4>1
      <4>4. In(list, hole.from)
        BY <1>1, <1>10, <4>2, <4>3
      <4>5. QED BY <1>1, <4>4
    <3>11. CASE c.from < c.to
      <4>1. In(all, c.to)
        BY <1>1, <1>4, <3>1, <3>2, <3>9, <3>11
      <4>2. In(list, c.to)
        BY <1>4, <1>10, <4>1
      <4>3. PICK j \in DOMAIN list : list[j].from <= c.to /\ c.to < list[j].to
        BY <4>2 DEF In
      <4>4. list[j].from \in Int /\ list[j].to \in Int
        BY <1>6, BareIs
      <4>5. list[j].from # c.to
        BY <1>15, <2>1
      <4>6. list[j].from <= c.to - 1 /\ c.to - 1 < list[j].to
        BY <1>4, <4>3, <4>4, <4>5
      <4>7. In(list, c.to - 1)
        BY <4>6 DEF In
      <4>8. c.to - 1 \in Int /\ hole.from <= c.to - 1 /\ c.to - 1 < hole.to
        BY <1>1, <1>4, <3>11
      <4>9. QED BY <1>1, <4>7, <4>8
    <3>12. QED BY <1>4, <3>10, <3>11
  <2>6. QED BY <1>3, <1>8, <1>10, <1>12, <2>5 DEF WindowKept, ListSound
<1>18. QED BY <1>7, <1>13, <1>16, <1>17

(***************************************************************************)
(* The loader itself.                                                       *)
(***************************************************************************)
StoreSound(store) ==
  DOMAIN store = Series /\ \A s \in Series : ListSound(store[s]) /\ Stocked(store[s], s)
Inside(v, w) == w.from <= v.from /\ v.to <= w.to
Controls == [status : {"idle", "loading", "ready", "error"}, ready : ReadyKeys \cup {Nothing},
             intended : RunViews \cup {Nothing}]

CycleTyped(c) ==
  /\ c \in [view : RunViews, focus : AnyWindows, coverage : AnyWindows, failed : BOOLEAN,
            candles : AnyWindows, overlays : [DOMAIN c.overlays -> AnyWindows]]
  /\ DOMAIN c.overlays \subseteq Overlays[c.view]
  /\ (c.candles = NoHole) # (DOMAIN c.overlays = {})

\* A cycle waits for the hole its series has now.
CycleSound(c, store) ==
  /\ CycleTyped(c)
  /\ Inside(c.focus, c.coverage)
  /\ c.candles # NoHole =>
       c.candles = MissingRange(Bounds(store[Candles[c.view]]), c.coverage)
  /\ \A s \in DOMAIN c.overlays :
       c.overlays[s] = MissingRange(Bounds(store[s]), c.coverage) /\ ~HasIn(store, s, c.coverage)
CycleFor(c, v, store) == c.view = v /\ CycleSound(c, store)

\* The window shown is there when it is called ready, and ready is of a view.
ReadySound(c, store, at, on) ==
  /\ on.view # Nothing /\ c.ready = Key(on.view, on.focus) =>
       HasIn(store, Candles[on.view], on.focus)
  /\ c.status = "ready" /\ c.ready # Nothing => c.ready.view = at

\* Before the first render nothing is shown; then the owner is of the focus
\* window shown, and what it covers contains that.
ShownSound ==
  /\ shown.view = Nothing => shown = NothingShown /\ ran = EffectKey /\ owner.reset = Nothing
  /\ shown.view # Nothing => owner.reset = Key(shown.view, shown.focus)
  /\ owner.target # Nothing => Inside(owner.reset.focus, owner.target)
  /\ Inside(shown.focus, shown.coverage)

Selected ==
  /\ wanted \in [view : RunViews \cup {Nothing}, trade : Entries \cup {Nothing}]
  /\ coming \in RunViews \cup {Nothing}
Framed ==
  /\ shown \in [view : RunViews \cup {Nothing}, focus : AnyWindows, coverage : AnyWindows]
  /\ owner \in [target : AnyWindows \cup {Nothing}, reset : ReadyKeys \cup {Nothing},
                expansion : AnyWindows \cup {Nothing}, sample : AnyWindows \cup {Nothing}]
  /\ ran \in [view : RunViews \cup {Nothing}, coverage : AnyWindows]
  /\ ShownSound
Told == ctl \in Controls /\ ctl.intended = ran.view /\ ReadySound(ctl, cache, ran.view, shown)
Loading == load # Nothing => CycleFor(load, ran.view, cache)
Unwinding == stale # Nothing => CycleTyped(stale)

\* The cycle in flight is for the focus window shown when that is ready, or
\* when the effect that began it has an older cycle to unwind.
LoadsFor(c, v, focus) == c # Nothing => c.view = v /\ c.focus = focus
Pointed ==
  /\ shown.view # Nothing /\ ctl.ready = Key(shown.view, shown.focus) =>
       LoadsFor(load, shown.view, shown.focus)
  /\ stale # Nothing => LoadsFor(load, shown.view, shown.focus)

\* The inductive invariant: the effect that last ran, the cycle that answers it
\* and what the chart is told are about one view, the cycle's windows are the
\* holes of the store as it is, and no cycle for another focus window can take
\* from the store what is called ready.
LoadSound == Selected /\ Framed /\ Told /\ Loading /\ Unwinding /\ StoreSound(cache)
LoadInv ==
  Selected /\ Framed /\ Told /\ Loading /\ Unwinding /\ StoreSound(cache) /\ Pointed

(* ---- windows ------------------------------------------------------------ *)
LEMMA FocusTyped ==
  ASSUME NEW v \in RunViews, NEW t \in Entries \cup {Nothing}
  PROVE  Focus(v, t) \in AnyWindows
<1>1. PICK report : report = Report[v] /\ report.from \in Int /\ report.to \in Int
  BY LoadAssumption
<1>2. Span \in Int
  BY LoadAssumption
<1>3. CASE t = Nothing
  <2>1. TargetWindow(report, t) = Window(Larger(report.from, report.to - Span), report.to)
    BY <1>3 DEF TargetWindow
  <2>2. Larger(report.from, report.to - Span) \in Int
    BY <1>1, <1>2 DEF Larger
  <2>3. QED BY <1>1, <2>1, <2>2 DEF Focus, Window, AnyWindows
<1>4. CASE t # Nothing
  <2>1. t \in Int
    BY <1>4, LoadAssumption
  <2>2. PICK start \in Int : start = Larger(report.from, t - (Span \div 2))
    BY <1>1, <1>2, <2>1 DEF Larger
  <2>3. PICK to \in Int : to = Smaller(report.to, start + Span)
    BY <1>1, <1>2 DEF Smaller
  <2>4. Larger(report.from, to - Span) \in Int
    BY <1>1, <1>2 DEF Larger
  <2>5. TargetWindow(report, t) = Window(Larger(report.from, to - Span), to)
    BY <1>4, <2>2, <2>3 DEF TargetWindow
  <2>6. QED BY <1>1, <2>4, <2>5 DEF Focus, Window, AnyWindows
<1>5. QED BY <1>3, <1>4

\* A widened window contains the one that was widened.
LEMMA ExpandedIs ==
  ASSUME NEW target \in AnyWindows, NEW visible, NEW v \in RunViews
  PROVE  /\ Expanded(target, visible, Report[v]) \in AnyWindows
         /\ Inside(target, Expanded(target, visible, Report[v]))
<1>1. PICK report : report = Report[v] /\ report.from \in Int /\ report.to \in Int
  BY LoadAssumption
<1>2. Span \in Int /\ Span > 0
  BY LoadAssumption
<1>3. target.from \in Int /\ target.to \in Int
  BY DEF AnyWindows
<1>4. PICK left : left = (visible.from - target.from <= Margin)
  OBVIOUS
<1>5. PICK right : right = (target.to - visible.to <= Margin)
  OBVIOUS
<1>6. PICK wider : wider = Expanded(target, visible, report)
  OBVIOUS
<1>7. wider = IF (left /\ target.from <= report.from) \/ (right /\ target.to >= report.to)
              THEN target
              ELSE Window(IF left THEN Larger(report.from, target.from - Span) ELSE target.from,
                          IF right THEN Smaller(report.to, target.to + Span) ELSE target.to)
  BY <1>4, <1>5, <1>6 DEF Expanded
<1>8. CASE (left /\ target.from <= report.from) \/ (right /\ target.to >= report.to)
  BY <1>1, <1>3, <1>6, <1>7, <1>8 DEF Inside
<1>9. CASE ~((left /\ target.from <= report.from) \/ (right /\ target.to >= report.to))
  <2>1. PICK from : from = IF left THEN Larger(report.from, target.from - Span) ELSE target.from
    OBVIOUS
  <2>2. PICK to : to = IF right THEN Smaller(report.to, target.to + Span) ELSE target.to
    OBVIOUS
  <2>3. from \in Int /\ from <= target.from
    BY <1>1, <1>2, <1>3, <1>9, <2>1 DEF Larger
  <2>4. to \in Int /\ target.to <= to
    BY <1>1, <1>2, <1>3, <1>9, <2>2 DEF Smaller
  <2>5. wider = Window(from, to)
    BY <1>7, <1>9, <2>1, <2>2
  <2>6. QED BY <1>1, <1>6, <2>3, <2>4, <2>5 DEF Window, AnyWindows, Inside
<1>10. QED BY <1>8, <1>9

(* ---- a store ------------------------------------------------------------ *)
LEMMA HasIs ==
  ASSUME NEW store, StoreSound(store), NEW s \in Series, NEW w \in AnyWindows
  PROVE  HasIn(store, s, w) <=> \A b \in BarsOf(w) : In(store[s], b)
<1>1. PICK list : list = store[s]
  OBVIOUS
<1>2. list \in Seq(BareChunks) /\ Apart(list)
  BY <1>1 DEF StoreSound, ListSound
<1>3. w \in Stretches
  BY DEF AnyWindows, Stretches
<1>4. Covers(Bounds(list), w) <=> \A b \in BarsOf(w) : In(list, b)
  BY <1>2, <1>3, BareIsKind, CoversIs
<1>5. QED BY <1>1, <1>4 DEF HasIn

LEMMA HasLess ==
  ASSUME NEW store, StoreSound(store), NEW s \in Series,
         NEW v \in AnyWindows, NEW w \in AnyWindows, Inside(v, w), HasIn(store, s, w)
  PROVE  HasIn(store, s, v)
<1>1. BarsOf(v) \subseteq BarsOf(w)
  BY DEF AnyWindows, Inside, BarsOf
<1>2. QED BY <1>1, HasIs

\* What is missing is a window, and none when nothing is.
LEMMA MissingTyped ==
  ASSUME NEW store, StoreSound(store), NEW s \in Series, NEW w \in AnyWindows,
         NEW hole, hole = MissingRange(Bounds(store[s]), w)
  PROVE  /\ hole \in AnyWindows
         /\ hole # NoHole <=> ~HasIn(store, s, w)
         /\ ~HasIn(store, s, w) => HoleAt(store[s], w, hole)
<1>1. PICK list : list = store[s]
  OBVIOUS
<1>2. list \in Seq(BareChunks) /\ Apart(list)
  BY <1>1 DEF StoreSound, ListSound
<1>3. w \in Stretches
  BY DEF AnyWindows, Stretches
<1>4. HasIn(store, s, w) <=> Covers(Bounds(list), w)
  BY <1>1 DEF HasIn
<1>5. CASE Covers(Bounds(list), w)
  <2>1. hole = NoHole
    BY <1>1, <1>5 DEF MissingRange
  <2>2. NoHole \in AnyWindows
    BY DEF NoHole, Window, AnyWindows
  <2>3. QED BY <1>4, <1>5, <2>1, <2>2
<1>6. CASE ~Covers(Bounds(list), w)
  <2>1. HoleAt(list, w, hole)
    BY <1>1, <1>2, <1>3, <1>6, BareIsKind, MissingAt
  <2>2. /\ hole = Window(hole.from, hole.to) /\ hole.from \in Int /\ hole.to \in Int
        /\ hole.from < hole.to
    BY <2>1 DEF HoleAt
  <2>3. hole \in AnyWindows
    BY <2>2 DEF Window, AnyWindows
  <2>4. hole # NoHole
    BY <2>2 DEF NoHole, Window
  <2>5. QED BY <1>1, <1>4, <1>6, <2>1, <2>3, <2>4
<1>7. QED BY <1>5, <1>6

\* Of a view: its candles, and overlays that are none.
LEMMA SeriesAre ==
  ASSUME NEW v \in RunViews
  PROVE  /\ Candles[v] \in Series
         /\ \A s \in Overlays[v] : s \in Series /\ \A u \in RunViews : Candles[u] # s
<1>1. Candles[v] \in Series
  BY DEF Series
<1>2. ASSUME NEW s \in Overlays[v] PROVE s \in Series
  BY DEF Series
<1>3. QED BY <1>1, <1>2, LoadAssumption

\* The answer for a hole: the store is sound, the other series are as they
\* were, and of the window that was asked for what was there is there still.
GrewAt(old, new, s, w) ==
  /\ StoreSound(new)
  /\ \A x \in Series \ {s} : new[x] = old[x]
  /\ \A b \in BarsOf(w) : In(old[s], b) => In(new[s], b)

LEMMA MergedSound ==
  ASSUME StoreSound(cache), NEW s \in Series, NEW w \in AnyWindows, ~HasIn(cache, s, w),
         NEW hole, hole = MissingRange(Bounds(cache[s]), w)
  PROVE  GrewAt(cache, Merged(s, hole), s, w)
<1>1. PICK list : list = cache[s]
  OBVIOUS
<1>2. ListSound(list) /\ Stocked(list, s) /\ DOMAIN cache = Series
  BY <1>1 DEF StoreSound
<1>3. HoleAt(list, w, hole)
  BY <1>1, MissingTyped
<1>4. w \in Stretches
  BY DEF AnyWindows, Stretches
<1>5. PICK got : got = Answered(s, hole)
  OBVIOUS
<1>6. PICK new : new = MergedChunks(list, Chunk(got.from, got.to, <<>>), ChunkCap)
  OBVIOUS
<1>7. WindowKept(list, s, w, new)
  BY <1>2, <1>3, <1>4, <1>5, <1>6, WindowStays
<1>8. PICK store : store = Merged(s, hole)
  OBVIOUS
<1>9. store = [cache EXCEPT ![s] = new]
  BY <1>1, <1>5, <1>6, <1>8 DEF Merged
<1>10. DOMAIN store = Series /\ store[s] = new /\ \A x \in Series \ {s} : store[x] = cache[x]
  BY <1>2, <1>9
<1>11. StoreSound(store)
  BY <1>7, <1>10 DEF StoreSound, WindowKept
<1>12. GrewAt(cache, store, s, w)
  BY <1>1, <1>7, <1>10, <1>11 DEF GrewAt, WindowKept
<1>13. QED BY <1>8, <1>12

\* What is there stays there: of the series that was asked for, inside the
\* window that was asked for.
LEMMA StaysThere ==
  ASSUME NEW old, NEW new, NEW s \in Series, NEW w \in AnyWindows,
         StoreSound(old), GrewAt(old, new, s, w),
         NEW x \in Series, NEW v \in AnyWindows, HasIn(old, x, v), x # s \/ Inside(v, w)
  PROVE  HasIn(new, x, v)
<1>1. StoreSound(new)
  BY DEF GrewAt
<1>2. CASE x # s
  BY <1>2 DEF GrewAt, HasIn
<1>3. CASE x = s /\ Inside(v, w)
  <2>1. BarsOf(v) \subseteq BarsOf(w)
    BY <1>3 DEF AnyWindows, Inside, BarsOf
  <2>2. \A b \in BarsOf(v) : In(old[x], b)
    BY HasIs
  <2>3. \A b \in BarsOf(v) : In(new[x], b)
    BY <1>3, <2>1, <2>2 DEF GrewAt
  <2>4. QED BY <1>1, <2>3, HasIs
<1>4. QED BY <1>2, <1>3

(* ---- cycles and the status ---------------------------------------------- *)
PlanSound(plan, S, store, coverage) ==
  \A s \in S : plan[s] = MissingRange(Bounds(store[s]), coverage) /\ ~HasIn(store, s, coverage)
HoleSound(candles, v, store, coverage) ==
  candles # NoHole => candles = MissingRange(Bounds(store[Candles[v]]), coverage)

\* A cycle as its parts.
LEMMA CycleIs ==
  ASSUME NEW store, NEW c, NEW v \in RunViews, NEW focus \in AnyWindows, NEW coverage \in AnyWindows,
         NEW candles \in AnyWindows, NEW S \in SUBSET Overlays[v], NEW plan \in [S -> AnyWindows],
         NEW failed \in BOOLEAN,
         c = [view |-> v, focus |-> focus, coverage |-> coverage,
              candles |-> candles, overlays |-> plan, failed |-> failed],
         Inside(focus, coverage),
         (candles = NoHole) # (S = {}),
         HoleSound(candles, v, store, coverage), PlanSound(plan, S, store, coverage)
  PROVE  CycleFor(c, v, store)
<1>1. /\ c.view = v /\ c.focus = focus /\ c.coverage = coverage /\ c.candles = candles
      /\ c.overlays = plan /\ DOMAIN c.overlays = S /\ c.failed = failed
  OBVIOUS
<1>2. c \in [view : RunViews, focus : AnyWindows, coverage : AnyWindows, failed : BOOLEAN,
             candles : AnyWindows, overlays : [DOMAIN c.overlays -> AnyWindows]]
  BY <1>1
<1>3. (c.candles = NoHole) # (DOMAIN c.overlays = {})
  BY <1>1
<1>4. QED BY <1>1, <1>2, <1>3 DEF CycleTyped, CycleSound, CycleFor, HoleSound, PlanSound

LEMMA StageSound ==
  ASSUME NEW store, StoreSound(store), NEW v \in RunViews,
         NEW focus \in AnyWindows, NEW coverage \in AnyWindows, Inside(focus, coverage),
         NEW c, c = OverlayStage(store, v, focus, coverage), c # Nothing
  PROVE  CycleFor(c, v, store)
<1>1. PICK S : S = {x \in Overlays[v] : ~HasIn(store, x, coverage)}
  OBVIOUS
<1>2. S \in SUBSET Overlays[v] /\ \A s \in S : ~HasIn(store, s, coverage)
  BY <1>1
<1>3. PICK plan : plan = [s \in S |-> MissingRange(Bounds(store[s]), coverage)]
  OBVIOUS
<1>4. OverlayPlan(store, v, coverage) = plan
  BY <1>1, <1>3 DEF OverlayPlan
<1>5. ASSUME NEW s \in S PROVE plan[s] = MissingRange(Bounds(store[s]), coverage) /\ plan[s] \in AnyWindows
  <2>1. s \in Series
    BY <1>2, SeriesAre
  <2>2. plan[s] = MissingRange(Bounds(store[s]), coverage)
    BY <1>3
  <2>3. PICK hole : hole = MissingRange(Bounds(store[s]), coverage)
    OBVIOUS
  <2>4. hole \in AnyWindows
    BY <2>1, <2>3, MissingTyped
  <2>5. QED BY <2>2, <2>3, <2>4
<1>6. plan \in [S -> AnyWindows] /\ DOMAIN plan = S
  BY <1>3, <1>5
<1>7. /\ S # {}
      /\ c = [view |-> v, focus |-> focus, coverage |-> coverage,
              candles |-> NoHole, overlays |-> plan, failed |-> FALSE]
  BY <1>4, <1>6 DEF OverlayStage
<1>8. NoHole \in AnyWindows
  BY DEF NoHole, Window, AnyWindows
<1>9. PICK candles \in AnyWindows : candles = NoHole
  BY <1>8
<1>10. PICK failed \in BOOLEAN : failed = FALSE
  OBVIOUS
<1>11. c = [view |-> v, focus |-> focus, coverage |-> coverage,
            candles |-> candles, overlays |-> plan, failed |-> failed]
  BY <1>7, <1>9, <1>10
<1>12. HoleSound(candles, v, store, coverage) /\ PlanSound(plan, S, store, coverage)
  BY <1>2, <1>5, <1>9 DEF HoleSound, PlanSound
<1>13. (candles = NoHole) # (S = {})
  BY <1>7, <1>9
<1>14. QED BY ONLY v \in RunViews, focus \in AnyWindows, coverage \in AnyWindows,
              Inside(focus, coverage), <1>2, <1>6, <1>9, <1>10, <1>11, <1>12, <1>13, CycleIs

LEMMA BegunSound ==
  ASSUME StoreSound(cache), shown.view \in RunViews, shown.focus \in AnyWindows,
         shown.coverage \in AnyWindows, Inside(shown.focus, shown.coverage),
         NEW c, c = Begun, c # Nothing
  PROVE  CycleFor(c, shown.view, cache)
<1>1. PICK v \in RunViews : v = shown.view
  OBVIOUS
<1>2. PICK focus \in AnyWindows : focus = shown.focus
  OBVIOUS
<1>3. PICK coverage \in AnyWindows : coverage = shown.coverage
  OBVIOUS
<1>4. PICK hole : hole = MissingRange(Bounds(cache[Candles[v]]), coverage)
  OBVIOUS
<1>5. hole = CandlesHole(shown.view, shown.coverage)
  BY <1>1, <1>3, <1>4 DEF CandlesHole
<1>6. Candles[v] \in Series
  BY SeriesAre
<1>7. hole \in AnyWindows
  BY <1>4, <1>6, MissingTyped
<1>8. Inside(focus, coverage)
  BY <1>2, <1>3
<1>9. CASE hole = NoHole
  <2>1. c = OverlayStage(cache, v, focus, coverage)
    BY <1>1, <1>2, <1>3, <1>5, <1>9 DEF Begun
  <2>2. CycleFor(c, v, cache)
    BY <1>8, <2>1, StageSound
  <2>3. QED BY <1>1, <2>2
<1>10. CASE hole # NoHole
  <2>1. PICK plan : plan = <<>>
    OBVIOUS
  <2>2. plan = [b \in DOMAIN plan |-> plan[b]] /\ DOMAIN plan = {}
    BY <2>1
  <2>3. PICK S \in SUBSET Overlays[v] : S = {}
    BY {} \in SUBSET Overlays[v]
  <2>4. plan \in [S -> AnyWindows] /\ (hole = NoHole) # (S = {})
    BY <1>10, <2>2, <2>3
  <2>5. PICK failed \in BOOLEAN : failed = FALSE
    OBVIOUS
  <2>6. c = [view |-> v, focus |-> focus, coverage |-> coverage,
             candles |-> hole, overlays |-> plan, failed |-> failed]
    BY <1>1, <1>2, <1>3, <1>5, <1>10, <2>1, <2>5 DEF Begun
  <2>7. HoleSound(hole, v, cache, coverage) /\ PlanSound(plan, S, cache, coverage)
    BY <1>4, <2>3 DEF HoleSound, PlanSound
  <2>8. CycleFor(c, v, cache)
    BY ONLY v \in RunViews, focus \in AnyWindows, coverage \in AnyWindows,
            <1>7, <1>8, <2>3, <2>4, <2>5, <2>6, <2>7, CycleIs
  <2>9. QED BY <1>1, <2>8
<1>11. QED BY <1>9, <1>10

\* Keys of two windows.
LEMMA KeyIs ==
  ASSUME NEW v \in RunViews, NEW focus \in AnyWindows
  PROVE  /\ Key(v, focus) \in ReadyKeys /\ Key(v, focus) # Nothing
         /\ Key(v, focus).view = v /\ Key(v, focus).focus = focus
<1>1. Key(v, focus) \in ReadyKeys
  BY DEF Key, ReadyKeys
<1>2. QED BY <1>1, LoadAssumption DEF Key

LEMMA KeysSame ==
  ASSUME NEW v, NEW focus, NEW u, NEW other, Key(v, focus) = Key(u, other)
  PROVE  v = u /\ focus = other
BY DEF Key

\* Marking keeps what is ready sound, for the view the effect last ran for.
LEMMA MarkedKeeps ==
  ASSUME NEW store, NEW c \in Controls, NEW v \in RunViews, NEW focus \in AnyWindows, NEW on,
         \/ ReadySound(c, store, v, on) \/ HasIn(store, Candles[v], focus),
         NEW new, new = Marked(c, store, v, focus)
  PROVE  new \in Controls /\ new.intended = c.intended /\ ReadySound(new, store, v, on)
<1>1. PICK key : key = Key(v, focus)
  OBVIOUS
<1>2. key \in ReadyKeys /\ key.view = v /\ key.focus = focus
  BY <1>1 DEF Key, ReadyKeys
<1>3. CASE HasIn(store, Candles[v], focus)
  <2>1. new \in Controls /\ new.intended = c.intended /\ new.ready = key
    <3>1. CASE c.ready = key
      BY <1>1, <3>1 DEF Marked
    <3>2. CASE c.ready # key
      <4>1. new = [c EXCEPT !.ready = key, !.status = "ready"]
        BY <1>1, <1>3, <3>2 DEF Marked
      <4>2. QED BY <1>2, <4>1 DEF Controls
    <3>3. QED BY <3>1, <3>2
  <2>2. ASSUME new.ready = Key(on.view, on.focus) PROVE HasIn(store, Candles[on.view], on.focus)
    <3>1. Key(v, focus) = Key(on.view, on.focus)
      BY <1>1, <2>1, <2>2
    <3>2. v = on.view /\ focus = on.focus
      BY <3>1, KeysSame
    <3>3. QED BY <1>3, <3>2
  <2>3. QED BY <1>2, <2>1, <2>2 DEF ReadySound
<1>4. CASE ~HasIn(store, Candles[v], focus)
  <2>1. new = c
    BY <1>4 DEF Marked
  <2>2. QED BY <1>4, <2>1
<1>5. QED BY <1>3, <1>4

(* ---- the invariant ------------------------------------------------------ *)
LEMMA TypesFollow == LoadInv => LoadTypeOK
<1> SUFFICES ASSUME LoadInv PROVE LoadTypeOK
  OBVIOUS
<1>1. Selected /\ Framed /\ Told /\ Loading /\ Unwinding /\ StoreSound(cache)
  BY DEF LoadInv
<1>2. /\ wanted \in [view : RunViews \cup {Nothing}, trade : Entries \cup {Nothing}]
      /\ coming \in RunViews \cup {Nothing}
  BY <1>1 DEF Selected
<1>3. /\ shown \in [view : RunViews \cup {Nothing}, focus : AnyWindows, coverage : AnyWindows]
      /\ owner \in [target : AnyWindows \cup {Nothing}, reset : ReadyKeys \cup {Nothing},
                    expansion : AnyWindows \cup {Nothing}, sample : AnyWindows \cup {Nothing}]
      /\ ran \in [view : RunViews \cup {Nothing}, coverage : AnyWindows]
  BY <1>1 DEF Framed
<1>4. ctl \in Controls
  BY <1>1 DEF Told
<1>5. ASSUME NEW c \in {load, stale} \ {Nothing} PROVE CycleTyped(c)
  BY <1>1 DEF Loading, Unwinding, CycleFor, CycleSound
<1>6. DOMAIN cache = Series
  BY <1>1 DEF StoreSound
<1>7. QED BY <1>2, <1>3, <1>4, <1>5, <1>6 DEF LoadTypeOK, Controls, CycleTyped

LEMMA LoadStarts == LoadInit => LoadInv
<1> SUFFICES ASSUME LoadInit PROVE LoadInv
  OBVIOUS
<1>1. NoHole \in AnyWindows /\ Inside(NoHole, NoHole)
  BY DEF NoHole, Window, AnyWindows, Inside
<1>2. Selected
  BY DEF LoadInit, Selected
<1>3. Framed
  <2>1. /\ shown.view = Nothing /\ shown.focus = NoHole /\ shown.coverage = NoHole
        /\ shown \in [view : RunViews \cup {Nothing}, focus : AnyWindows, coverage : AnyWindows]
    BY <1>1 DEF LoadInit, NothingShown
  <2>2. owner.target = Nothing /\ owner.reset = Nothing
    BY DEF LoadInit, FreshOwner
  <2>3. owner \in [target : AnyWindows \cup {Nothing}, reset : ReadyKeys \cup {Nothing},
                   expansion : AnyWindows \cup {Nothing}, sample : AnyWindows \cup {Nothing}]
    BY DEF LoadInit, FreshOwner
  <2>4. ran \in [view : RunViews \cup {Nothing}, coverage : AnyWindows] /\ ran = EffectKey
    BY <1>1, <2>1 DEF LoadInit, EffectKey
  <2>5. QED BY <1>1, <2>1, <2>2, <2>3, <2>4 DEF Framed, ShownSound, LoadInit
<1>4. Told
  <2>1. ctl.ready = Nothing /\ ctl.intended = Nothing /\ ctl \in Controls
    BY DEF LoadInit, FreshControl, Controls
  <2>2. ran.view = Nothing /\ shown.view = Nothing
    BY DEF LoadInit, NothingShown
  <2>3. QED BY <2>1, <2>2 DEF Told, ReadySound
<1>5. Loading /\ Unwinding
  BY DEF LoadInit, Loading, Unwinding
<1>6. StoreSound(cache)
  <2>1. PICK list : list = <<>>
    OBVIOUS
  <2>2. list \in Seq(BareChunks) /\ Len(list) = 0 /\ Apart(list)
    BY <2>1 DEF Apart
  <2>3. ListSound(list) /\ \A s \in Series : Stocked(list, s)
    BY <2>2, LoadAssumption DEF ListSound, Stocked, In
  <2>4. cache = [s \in Series |-> list]
    BY <2>1 DEF LoadInit
  <2>5. QED BY <2>3, <2>4 DEF StoreSound
<1>7. Pointed
  BY DEF LoadInit, Pointed, LoadsFor
<1>8. QED BY <1>2, <1>3, <1>4, <1>5, <1>6, <1>7 DEF LoadInv

LEMMA SelectionSteps ==
  ASSUME LoadInv, SelectTrade \/ SelectVariant \/ ReportArrives PROVE LoadSound'
<1>1. Selected /\ Framed /\ Told /\ Loading /\ Unwinding /\ StoreSound(cache)
  BY DEF LoadInv
<1>2. UNCHANGED <<shown, owner, ctl, ran, load, stale, cache>>
  BY DEF SelectTrade, SelectVariant, ReportArrives
<1>3. Selected'
  BY <1>1 DEF Selected, SelectTrade, SelectVariant, ReportArrives
<1>4. Framed'
  BY <1>1, <1>2 DEF Framed, ShownSound, EffectKey, NothingShown
<1>5. Told' /\ Loading' /\ Unwinding' /\ StoreSound(cache)'
  BY <1>1, <1>2 DEF Told, Loading, Unwinding
<1>6. QED BY <1>3, <1>4, <1>5 DEF LoadSound

LEMMA SelectRunSteps == ASSUME LoadInv, SelectRun PROVE LoadSound'
<1>1. Selected /\ Framed /\ Told /\ Loading /\ Unwinding /\ StoreSound(cache)
  BY DEF LoadInv
<1>2. /\ \E v \in RunViews : coming' = v
      /\ wanted' = [view |-> Nothing, trade |-> Nothing]
      /\ owner' = FreshOwner /\ ctl' = FreshControl
      /\ shown' = NothingShown /\ ran' = [view |-> Nothing, coverage |-> NoHole]
      /\ load' = Nothing /\ stale' = stale /\ cache' = cache
  BY DEF SelectRun
<1>3. NoHole \in AnyWindows /\ Inside(NoHole, NoHole)
  BY DEF NoHole, Window, AnyWindows, Inside
<1>4. Selected'
  BY <1>2 DEF Selected
<1>5. Framed'
  <2>1. /\ shown'.view = Nothing /\ shown'.focus = NoHole /\ shown'.coverage = NoHole
        /\ shown' \in [view : RunViews \cup {Nothing}, focus : AnyWindows, coverage : AnyWindows]
    BY <1>2, <1>3 DEF NothingShown
  <2>2. owner'.target = Nothing /\ owner'.reset = Nothing
    BY <1>2 DEF FreshOwner
  <2>3. owner' \in [target : AnyWindows \cup {Nothing}, reset : ReadyKeys \cup {Nothing},
                    expansion : AnyWindows \cup {Nothing}, sample : AnyWindows \cup {Nothing}]
    BY <1>2 DEF FreshOwner
  <2>4. /\ ran' \in [view : RunViews \cup {Nothing}, coverage : AnyWindows]
        /\ ran' = EffectKey'
    BY <1>2, <1>3, <2>1 DEF EffectKey
  <2>5. shown' = NothingShown'
    BY <1>2 DEF NothingShown
  <2>6. QED BY <1>3, <2>1, <2>2, <2>3, <2>4, <2>5 DEF Framed, ShownSound
<1>6. Told'
  <2>1. ctl'.ready = Nothing /\ ctl'.intended = Nothing /\ ctl' \in Controls
    BY <1>2 DEF FreshControl, Controls
  <2>2. ran'.view = Nothing /\ shown'.view = Nothing
    BY <1>2 DEF NothingShown
  <2>3. QED BY <2>1, <2>2 DEF Told, ReadySound
<1>7. Loading' /\ Unwinding' /\ StoreSound(cache)'
  BY <1>1, <1>2 DEF Loading, Unwinding
<1>8. QED BY <1>4, <1>5, <1>6, <1>7 DEF LoadSound

\* What the bundle is made of: a window shown, when the view is.
LEMMA DisplayedIs ==
  ASSUME LoadInv, Displayed # NoHole
  PROVE  /\ shown.view \in RunViews /\ HasIn(cache, Candles[shown.view], shown.focus)
         /\ Displayed \in {shown.focus, shown.coverage}
<1>1. shown.view \in RunViews \cup {Nothing}
  BY DEF LoadInv, Framed
<1>2. QED BY <1>1 DEF Displayed, ComposeWindow, Has, HasIn

LEMMA PanSteps == ASSUME LoadInv, PanPrefetch PROVE LoadSound'
<1>1. Selected /\ Framed /\ Told /\ Loading /\ Unwinding /\ StoreSound(cache)
  BY DEF LoadInv
<1>2. UNCHANGED <<wanted, coming, shown, ran, load, stale, cache>> /\ Displayed # NoHole
  BY DEF PanPrefetch
<1>3. PICK v \in RunViews : v = shown.view
  BY <1>2, DisplayedIs
<1>4. /\ shown.focus \in AnyWindows /\ shown.coverage \in AnyWindows
      /\ shown \in [view : RunViews \cup {Nothing}, focus : AnyWindows, coverage : AnyWindows]
  BY <1>1 DEF Framed
<1>5. PICK whole \in AnyWindows : whole = Displayed
  BY <1>2, <1>4, DisplayedIs
<1>6. PICK from \in Displayed.from .. Displayed.to, to \in Displayed.from .. Displayed.to :
        LET visible == Window(from, to)
            wider == PanDecision(visible)
        IN  /\ from < to /\ visible # owner.sample
            /\ owner' = IF wider = Nothing THEN [owner EXCEPT !.sample = visible]
                        ELSE [owner EXCEPT !.sample = visible, !.expansion = wider,
                                           !.target = wider]
            /\ ctl' = IF wider \in {Nothing, owner.target} THEN ctl
                      ELSE [ctl EXCEPT !.ready = Nothing]
  BY DEF PanPrefetch
<1>7. PICK visible : visible = Window(from, to)
  OBVIOUS
<1>8. visible \in AnyWindows
  <2>1. whole.from \in Int /\ whole.to \in Int
    BY DEF AnyWindows
  <2>2. from \in Int /\ to \in Int
    BY <1>5, <1>6, <2>1
  <2>3. QED BY <1>7, <2>2 DEF Window, AnyWindows
<1>9. PICK wider : wider = PanDecision(visible)
  OBVIOUS
<1>10. wider # Nothing => wider \in AnyWindows /\ Inside(shown.coverage, wider)
  <2>1. PICK target \in AnyWindows : target = shown.coverage
    BY <1>4
  <2>2. PICK new : new = Expanded(target, visible, Report[v])
    OBVIOUS
  <2>3. new \in AnyWindows /\ Inside(target, new)
    BY <2>2, ExpandedIs
  <2>4. wider # Nothing => wider = new
    BY <1>3, <1>9, <2>1, <2>2 DEF PanDecision
  <2>5. QED BY <2>1, <2>3, <2>4
<1>11. owner' = IF wider = Nothing THEN [owner EXCEPT !.sample = visible]
                ELSE [owner EXCEPT !.sample = visible, !.expansion = wider, !.target = wider]
  BY <1>6, <1>7, <1>9
<1>12. ctl' = ctl \/ ctl' = [ctl EXCEPT !.ready = Nothing]
  BY <1>6
<1>13. Framed'
  <2>1. owner \in [target : AnyWindows \cup {Nothing}, reset : ReadyKeys \cup {Nothing},
                   expansion : AnyWindows \cup {Nothing}, sample : AnyWindows \cup {Nothing}]
    BY <1>1 DEF Framed
  <2>2. /\ owner' \in [target : AnyWindows \cup {Nothing}, reset : ReadyKeys \cup {Nothing},
                       expansion : AnyWindows \cup {Nothing}, sample : AnyWindows \cup {Nothing}]
        /\ owner'.reset = owner.reset
        /\ owner'.target = owner.target \/ (wider # Nothing /\ owner'.target = wider)
    BY <1>8, <1>10, <1>11, <2>1
  <2>3. ShownSound
    BY <1>1 DEF Framed
  <2>4. owner.reset = Key(shown.view, shown.focus)
    BY <1>3, <2>3, LoadAssumption DEF ShownSound
  <2>5. owner.reset.focus = shown.focus
    BY <2>4 DEF Key
  <2>6. Inside(shown.focus, shown.coverage)
    BY <2>3 DEF ShownSound
  <2>7. ASSUME wider # Nothing PROVE Inside(shown.focus, wider)
    <3>1. /\ shown.focus.from \in Int /\ shown.focus.to \in Int
          /\ shown.coverage.from \in Int /\ shown.coverage.to \in Int
      BY <1>4 DEF AnyWindows
    <3>2. wider.from \in Int /\ wider.to \in Int
      BY <1>10, <2>7 DEF AnyWindows
    <3>3. QED BY <1>10, <2>6, <2>7, <3>1, <3>2 DEF Inside
  <2>8. owner'.target # Nothing => Inside(owner'.reset.focus, owner'.target)
    BY <2>2, <2>3, <2>5, <2>7 DEF ShownSound
  <2>9. ShownSound'
    BY <1>2, <1>3, <2>2, <2>3, <2>4, <2>8, LoadAssumption DEF ShownSound, Key
  <2>10. QED BY <1>1, <1>2, <2>2, <2>9 DEF Framed
<1>14. Told'
  <2>1. ctl \in Controls /\ ctl.intended = ran.view /\ ReadySound(ctl, cache, ran.view, shown)
    BY <1>1 DEF Told
  <2>2. ctl' \in Controls /\ ctl'.intended = ctl.intended /\ (ctl' = ctl \/ ctl'.ready = Nothing)
    BY <1>12, <2>1 DEF Controls
  <2>3. Key(shown.view, shown.focus) # Nothing
    BY <1>3, <1>4, KeyIs
  <2>4. ReadySound(ctl', cache, ran.view, shown)
    BY <2>1, <2>2, <2>3 DEF ReadySound
  <2>5. QED BY <1>2, <2>1, <2>2, <2>4 DEF Told
<1>15. Selected' /\ Loading' /\ Unwinding' /\ StoreSound(cache)'
  BY <1>1, <1>2 DEF Selected, Loading, Unwinding
<1>16. QED BY <1>13, <1>14, <1>15 DEF LoadSound

\* A render that does not move the focus window shows the one shown before.
LEMMA RenderStays ==
  ASSUME Framed, ~FocusMoved, NEW v \in RunViews, v = wanted.view,
         NEW focus \in AnyWindows, focus = Focus(wanted.view, wanted.trade)
  PROVE  shown.view = v /\ shown.focus = focus
<1>1. owner.reset = Key(v, focus)
  BY DEF FocusMoved
<1>2. owner.reset # Nothing
  BY <1>1, KeyIs
<1>3. owner.reset = Key(shown.view, shown.focus)
  <2>1. ShownSound
    BY DEF Framed
  <2>2. shown.view # Nothing
    BY <1>2, <2>1 DEF ShownSound
  <2>3. QED BY <2>1, <2>2 DEF ShownSound
<1>4. Key(v, focus) = Key(shown.view, shown.focus)
  BY <1>1, <1>3
<1>5. QED BY <1>4, KeysSame

LEMMA RenderSteps == ASSUME LoadInv, Render PROVE LoadSound'
<1>1. Selected /\ Framed /\ Told /\ Loading /\ Unwinding /\ StoreSound(cache)
  BY DEF LoadInv
<1>2. /\ RenderPending /\ shown' = NextShown
      /\ UNCHANGED <<wanted, coming, ran, load, stale, cache>>
  BY DEF Render
<1>3. PICK v \in RunViews : v = wanted.view
  BY <1>1, <1>2 DEF Selected, RenderPending
<1>4. PICK trade \in Entries \cup {Nothing} : trade = wanted.trade
  BY <1>1 DEF Selected
<1>5. PICK focus \in AnyWindows : focus = Focus(v, trade)
  BY FocusTyped
<1>6. PICK coverage : coverage = IF FocusMoved \/ owner.target = Nothing THEN focus ELSE owner.target
  OBVIOUS
<1>7. shown' = [view |-> v, focus |-> focus, coverage |-> coverage]
  BY <1>2, <1>3, <1>4, <1>5, <1>6 DEF NextShown
<1>8. NextShown.view = v /\ NextShown.focus = focus
  BY <1>3, <1>4, <1>5 DEF NextShown
<1>9. FocusMoved <=> owner.reset # Key(v, focus)
  BY <1>3, <1>4, <1>5 DEF FocusMoved
<1>10. Key(v, focus) \in ReadyKeys /\ Key(v, focus).focus = focus
  BY DEF Key, ReadyKeys
<1>11. owner \in [target : AnyWindows \cup {Nothing}, reset : ReadyKeys \cup {Nothing},
                  expansion : AnyWindows \cup {Nothing}, sample : AnyWindows \cup {Nothing}]
  BY <1>1 DEF Framed
<1>12. Inside(focus, focus)
  BY DEF Inside, AnyWindows
<1>13. /\ coverage \in AnyWindows /\ Inside(focus, coverage)
       /\ owner'.reset = Key(v, focus)
       /\ owner' \in [target : AnyWindows \cup {Nothing}, reset : ReadyKeys \cup {Nothing},
                      expansion : AnyWindows \cup {Nothing}, sample : AnyWindows \cup {Nothing}]
       /\ owner'.target # Nothing => Inside(focus, owner'.target)
  <2>1. CASE FocusMoved
    <3>1. owner' = [FreshOwner EXCEPT !.reset = Key(v, focus)]
      BY <1>8, <2>1 DEF Render
    <3>2. /\ owner'.reset = Key(v, focus) /\ owner'.target = Nothing
          /\ owner' \in [target : AnyWindows \cup {Nothing}, reset : ReadyKeys \cup {Nothing},
                         expansion : AnyWindows \cup {Nothing}, sample : AnyWindows \cup {Nothing}]
      BY <1>10, <3>1 DEF FreshOwner
    <3>3. coverage = focus
      BY <1>6, <2>1
    <3>4. QED BY <1>12, <3>2, <3>3
  <2>2. CASE ~FocusMoved
    <3>1. owner' = owner /\ owner.reset = Key(v, focus)
      BY <1>9, <2>2 DEF Render
    <3>2. owner.target # Nothing => Inside(focus, owner.target)
      BY <1>1, <1>10, <3>1 DEF Framed, ShownSound
    <3>3. coverage = IF owner.target = Nothing THEN focus ELSE owner.target
      BY <1>6, <2>2
    <3>4. QED BY <1>11, <1>12, <3>1, <3>2, <3>3
  <2>3. QED BY <2>1, <2>2
<1>14. Framed'
  <2>1. /\ shown'.view = v /\ shown'.view # Nothing
        /\ shown'.focus = focus /\ shown'.coverage = coverage
        /\ shown' \in [view : RunViews \cup {Nothing}, focus : AnyWindows, coverage : AnyWindows]
    BY <1>7, <1>13, LoadAssumption
  <2>2. owner'.reset = Key(shown'.view, shown'.focus) /\ owner'.reset.focus = focus
    BY <1>10, <1>13, <2>1
  <2>3. ShownSound'
    BY <1>13, <2>1, <2>2 DEF ShownSound, Key
  <2>4. QED BY <1>1, <1>2, <1>13, <2>1, <2>3 DEF Framed
<1>15. Told'
  <2>1. ctl \in Controls /\ ctl.intended = ran.view /\ ReadySound(ctl, cache, ran.view, shown)
    BY <1>1 DEF Told
  <2>2. PICK new : new = ctl'
    OBVIOUS
  <2>3. PICK on : on = shown'
    OBVIOUS
  <2>4. on.view = v /\ on.focus = focus
    BY <1>7, <2>3
  <2>5. CASE FocusMoved
    <3>1. new = [ctl EXCEPT !.ready = Nothing, !.status = "loading"]
      BY <2>2, <2>5 DEF Render
    <3>2. new \in Controls /\ new.intended = ctl.intended /\ new.ready = Nothing
      BY <2>1, <3>1 DEF Controls
    <3>3. Key(on.view, on.focus) # Nothing
      BY <2>4, KeyIs
    <3>4. ReadySound(new, cache, ran.view, on)
      BY <3>2, <3>3 DEF ReadySound
    <3>5. QED BY <1>2, <2>1, <2>2, <2>3, <3>2, <3>4 DEF Told
  <2>6. CASE ~FocusMoved
    <3>1. new = ctl /\ owner.reset = Key(v, focus)
      BY <1>9, <2>2, <2>6 DEF Render
    <3>2. shown.view = v /\ shown.focus = focus
      BY <1>1, <1>3, <1>4, <1>5, <2>6, RenderStays
    <3>3. ReadySound(new, cache, ran.view, on)
      BY <2>1, <2>4, <3>1, <3>2 DEF ReadySound
    <3>4. QED BY <1>2, <2>1, <2>2, <2>3, <3>1, <3>3 DEF Told
  <2>7. QED BY <2>5, <2>6
<1>16. Selected' /\ Loading' /\ Unwinding' /\ StoreSound(cache)'
  BY <1>1, <1>2 DEF Selected, Loading, Unwinding
<1>17. QED BY <1>14, <1>15, <1>16 DEF LoadSound

LEMMA RunEffectSteps == ASSUME LoadInv, RunLoadEffect PROVE LoadSound'
<1>1. Selected /\ Framed /\ Told /\ Loading /\ Unwinding /\ StoreSound(cache)
  BY DEF LoadInv
<1>2. /\ EffectPending /\ ran' = EffectKey /\ load' = Begun /\ ctl' = ControlAtStart
      /\ stale' = (IF load = Nothing \/ load.failed THEN Nothing ELSE load)
      /\ UNCHANGED <<wanted, coming, shown, owner, cache>>
  BY DEF RunLoadEffect
<1>3. ShownSound
  BY <1>1 DEF Framed
<1>4. PICK v \in RunViews : v = shown.view
  <2>1. shown.view # Nothing
    BY <1>2, <1>3 DEF ShownSound, EffectPending
  <2>2. QED BY <1>1, <2>1 DEF Framed
<1>5. PICK focus \in AnyWindows : focus = shown.focus
  BY <1>1 DEF Framed
<1>6. PICK coverage \in AnyWindows : coverage = shown.coverage
  BY <1>1 DEF Framed
<1>7. Inside(shown.focus, shown.coverage)
  BY <1>3 DEF ShownSound
<1>8. ran' = [view |-> v, coverage |-> coverage] /\ ran'.view = v
  BY <1>2, <1>4, <1>6 DEF EffectKey
<1>9. Framed'
  <2>1. ran' \in [view : RunViews \cup {Nothing}, coverage : AnyWindows]
    BY <1>8
  <2>2. ShownSound'
    <3>1. shown'.view # Nothing
      BY <1>2, <1>4, LoadAssumption
    <3>2. QED BY <1>2, <1>3, <3>1 DEF ShownSound, Key
  <2>3. QED BY <1>1, <1>2, <2>1, <2>2 DEF Framed
<1>10. Told'
  <2>1. PICK c : c = [ctl EXCEPT !.intended = v]
    OBVIOUS
  <2>2. ctl \in Controls /\ ReadySound(ctl, cache, ran.view, shown)
    BY <1>1 DEF Told
  <2>3. c \in Controls /\ c.intended = v /\ c.ready = ctl.ready
    BY <2>1, <2>2 DEF Controls
  <2>4. PICK new : new = ctl'
    OBVIOUS
  <2>5. Has(Candles[shown.view], shown.focus) <=> HasIn(cache, Candles[v], focus)
    BY <1>4, <1>5 DEF Has, HasIn
  <2>6. new = IF ~HasIn(cache, Candles[v], focus) /\ c.ready # Key(v, focus)
              THEN [c EXCEPT !.status = "loading"] ELSE Marked(c, cache, v, focus)
    BY <1>2, <1>4, <1>5, <2>1, <2>4, <2>5 DEF ControlAtStart
  <2>7. CASE ~HasIn(cache, Candles[v], focus) /\ c.ready # Key(v, focus)
    <3>1. new = [c EXCEPT !.status = "loading"]
      BY <2>6, <2>7
    <3>2. new \in Controls /\ new.intended = v /\ new.ready = ctl.ready /\ new.status = "loading"
      BY <2>3, <3>1 DEF Controls
    <3>3. ReadySound(new, cache, v, shown)
      BY <2>2, <3>2 DEF ReadySound
    <3>4. QED BY <1>2, <1>8, <2>4, <3>2, <3>3 DEF Told
  <2>8. CASE HasIn(cache, Candles[v], focus) \/ c.ready = Key(v, focus)
    <3>1. new = Marked(c, cache, v, focus)
      BY <2>6, <2>8
    <3>2. HasIn(cache, Candles[v], focus)
      BY <1>4, <1>5, <2>2, <2>3, <2>8, LoadAssumption DEF ReadySound
    <3>3. new \in Controls /\ new.intended = c.intended /\ ReadySound(new, cache, v, shown)
      BY <2>3, <3>1, <3>2, MarkedKeeps
    <3>4. QED BY <1>2, <1>8, <2>3, <2>4, <3>3 DEF Told
  <2>9. QED BY <2>7, <2>8
<1>11. Loading'
  <2>1. PICK new : new = load'
    OBVIOUS
  <2>2. new = Begun
    BY <1>2, <2>1
  <2>3. new # Nothing => CycleFor(new, shown.view, cache)
    BY <1>1, <1>4, <1>5, <1>6, <1>7, <2>2, BegunSound
  <2>4. QED BY <1>2, <1>4, <1>8, <2>1, <2>3 DEF Loading
<1>12. Unwinding'
  BY <1>1, <1>2 DEF Loading, Unwinding, CycleFor, CycleSound
<1>13. Selected' /\ StoreSound(cache)'
  BY <1>1, <1>2 DEF Selected
<1>14. QED BY <1>9, <1>10, <1>11, <1>12, <1>13 DEF LoadSound

LEMMA UnwindSteps == ASSUME LoadInv, UnwindLoad PROVE LoadSound'
<1>1. Selected /\ Framed /\ Told /\ Loading /\ Unwinding /\ StoreSound(cache)
  BY DEF LoadInv
<1>2. /\ stale # Nothing /\ stale' = Nothing
      /\ ctl' = (IF ctl.intended = stale.view
                 THEN Marked(ctl, cache, stale.view, stale.focus) ELSE ctl)
      /\ UNCHANGED <<wanted, coming, shown, owner, ran, load, cache>>
  BY DEF UnwindLoad
<1>3. Told'
  <2>1. PICK c : c = ctl
    OBVIOUS
  <2>2. c \in Controls /\ c.intended = ran.view /\ ReadySound(c, cache, ran.view, shown)
    BY <1>1, <2>1 DEF Told
  <2>3. CASE c.intended = stale.view
    <3>1. PICK v \in RunViews : v = stale.view
      BY <1>1, <1>2 DEF Unwinding, CycleTyped
    <3>2. PICK focus \in AnyWindows : focus = stale.focus
      BY <1>1, <1>2 DEF Unwinding, CycleTyped
    <3>3. PICK new : new = ctl'
      OBVIOUS
    <3>4. new = Marked(c, cache, v, focus)
      BY <1>2, <2>1, <2>3, <3>1, <3>2, <3>3
    <3>5. /\ ReadySound(c, cache, v, shown) \/ HasIn(cache, Candles[v], focus)
          /\ v = ran.view
      BY <2>2, <2>3, <3>1
    <3>6. new \in Controls /\ new.intended = c.intended /\ ReadySound(new, cache, v, shown)
      BY <2>2, <3>4, <3>5, MarkedKeeps
    <3>7. QED BY <1>2, <2>2, <3>3, <3>5, <3>6 DEF Told
  <2>4. CASE c.intended # stale.view
    BY <1>1, <1>2, <2>1, <2>4 DEF Told
  <2>5. QED BY <2>3, <2>4
<1>4. Framed'
  BY <1>1, <1>2 DEF Framed, ShownSound, EffectKey, NothingShown
<1>5. Selected' /\ Loading' /\ Unwinding' /\ StoreSound(cache)'
  BY <1>1, <1>2 DEF Selected, Loading, Unwinding
<1>6. QED BY <1>3, <1>4, <1>5 DEF LoadSound

\* What the answer for candles does to the store.
LEMMA CandlesGrow ==
  ASSUME LoadInv, AnswerCandles
  PROVE  /\ load.view \in RunViews /\ load.focus \in AnyWindows /\ load.coverage \in AnyWindows
         /\ Inside(load.focus, load.coverage)
         /\ GrewAt(cache, cache', Candles[load.view], load.coverage)
<1>1. CycleFor(load, ran.view, cache) /\ StoreSound(cache)
  BY DEF LoadInv, Loading, AnswerCandles
<1>2. /\ load.view \in RunViews /\ load.focus \in AnyWindows /\ load.coverage \in AnyWindows
      /\ load.candles \in AnyWindows /\ Inside(load.focus, load.coverage)
  BY <1>1 DEF CycleFor, CycleSound, CycleTyped
<1>3. PICK s \in Series : s = Candles[load.view]
  BY <1>2, SeriesAre
<1>4. PICK w \in AnyWindows : w = load.coverage
  BY <1>2
<1>5. PICK hole : hole = load.candles
  OBVIOUS
<1>6. hole # NoHole /\ hole = MissingRange(Bounds(cache[s]), w)
  BY <1>1, <1>3, <1>4, <1>5 DEF CycleFor, CycleSound, AnswerCandles
<1>7. ~HasIn(cache, s, w)
  BY <1>1, <1>6, MissingTyped
<1>8. GrewAt(cache, Merged(s, hole), s, w)
  BY <1>1, <1>6, <1>7, MergedSound
<1>9. cache' = Merged(s, hole)
  BY <1>3, <1>5 DEF AnswerCandles
<1>10. QED BY <1>2, <1>3, <1>4, <1>8, <1>9

LEMMA CandlesSteps == ASSUME LoadInv, AnswerCandles PROVE LoadSound'
<1>1. Selected /\ Framed /\ Told /\ Loading /\ Unwinding /\ StoreSound(cache)
  BY DEF LoadInv
<1>2. /\ load # Nothing
      /\ ctl' = Marked(ctl, cache', load.view, load.focus)
      /\ load' = OverlayStage(cache', load.view, load.focus, load.coverage)
      /\ UNCHANGED <<wanted, coming, shown, owner, ran, stale>>
  BY DEF AnswerCandles
<1>3. PICK v \in RunViews : v = load.view
  BY CandlesGrow
<1>4. PICK focus \in AnyWindows : focus = load.focus
  BY CandlesGrow
<1>5. PICK coverage \in AnyWindows : coverage = load.coverage
  BY CandlesGrow
<1>6. PICK store : store = cache'
  OBVIOUS
<1>7. Inside(focus, coverage) /\ GrewAt(cache, store, Candles[v], coverage)
  BY <1>3, <1>4, <1>5, <1>6, CandlesGrow
<1>8. StoreSound(store)
  BY <1>7 DEF GrewAt
<1>9. v = ran.view
  BY <1>1, <1>2, <1>3 DEF Loading, CycleFor
<1>10. Candles[v] \in Series
  BY SeriesAre
<1>11. Told'
  <2>1. PICK c : c = ctl
    OBVIOUS
  <2>2. c \in Controls /\ c.intended = v /\ ReadySound(c, cache, v, shown)
    BY <1>1, <1>9, <2>1 DEF Told
  <2>3. PICK new : new = ctl'
    OBVIOUS
  <2>4. new = Marked(c, store, v, focus)
    BY <1>2, <1>3, <1>4, <1>6, <2>1, <2>3
  <2>5. ReadySound(c, store, v, shown) \/ HasIn(store, Candles[v], focus)
    <3>1. SUFFICES ASSUME shown.view # Nothing, c.ready = Key(shown.view, shown.focus)
                   PROVE  HasIn(store, Candles[v], focus)
      BY <2>2 DEF ReadySound
    <3>2. shown.view = v /\ shown.focus = focus
      BY <1>2, <1>3, <1>4, <2>1, <3>1 DEF LoadInv, Pointed, LoadsFor
    <3>3. PICK s \in Series, x \in Series : s = Candles[v] /\ x = s
      BY <1>10
    <3>4. HasIn(cache, x, focus)
      BY <2>2, <3>1, <3>2, <3>3 DEF ReadySound
    <3>5. GrewAt(cache, store, s, coverage)
      BY <1>7, <3>3
    <3>6. HasIn(store, x, focus)
      BY <1>1, <1>7, <3>4, <3>5, StaysThere
    <3>7. QED BY <3>3, <3>6
  <2>6. PICK on : on = shown
    OBVIOUS
  <2>7. ReadySound(c, store, v, on) \/ HasIn(store, Candles[v], focus)
    BY <2>5, <2>6
  <2>8. new \in Controls /\ new.intended = c.intended /\ ReadySound(new, store, v, on)
    <3>1. c \in Controls
      BY <2>2
    <3>2. QED BY <2>4, <2>7, <3>1, MarkedKeeps
  <2>9. shown' = on /\ ran'.view = v /\ cache' = store /\ ctl' = new
    BY <1>2, <1>6, <1>9, <2>3, <2>6
  <2>10. QED BY <2>2, <2>8, <2>9 DEF Told
<1>12. Loading'
  <2>1. PICK new : new = load'
    OBVIOUS
  <2>2. new = OverlayStage(store, v, focus, coverage)
    BY <1>2, <1>3, <1>4, <1>5, <1>6, <2>1
  <2>3. new # Nothing => CycleFor(new, v, store)
    BY <1>7, <1>8, <2>2, StageSound
  <2>4. QED BY <1>2, <1>6, <1>9, <2>1, <2>3 DEF Loading
<1>13. Framed'
  BY <1>1, <1>2 DEF Framed, ShownSound, EffectKey, NothingShown
<1>14. Selected' /\ Unwinding' /\ StoreSound(cache)'
  BY <1>1, <1>2, <1>6, <1>8 DEF Selected, Unwinding
<1>15. QED BY <1>11, <1>12, <1>13, <1>14 DEF LoadSound

\* A cycle without one of its overlays, over a store that differs in that only.
LEMMA RestSound ==
  ASSUME LoadInv, load # Nothing, NEW s \in DOMAIN load.overlays, NEW store,
         \A x \in Series \ {s} : store[x] = cache[x],
         NEW rest, rest = Rest(s), rest # Nothing
  PROVE  CycleFor(rest, ran.view, store) /\ rest.failed = load.failed
<1>1. CycleFor(load, ran.view, cache)
  BY DEF LoadInv, Loading
<1>2. PICK v \in RunViews : v = load.view
  BY <1>1 DEF CycleFor, CycleSound, CycleTyped
<1>3. PICK focus \in AnyWindows : focus = load.focus
  BY <1>1 DEF CycleFor, CycleSound, CycleTyped
<1>4. PICK coverage \in AnyWindows : coverage = load.coverage
  BY <1>1 DEF CycleFor, CycleSound, CycleTyped
<1>5. PICK failed \in BOOLEAN : failed = load.failed
  BY <1>1 DEF CycleFor, CycleSound, CycleTyped
<1>6. PICK plan : plan = load.overlays
  OBVIOUS
<1>7. plan \in [DOMAIN plan -> AnyWindows] /\ DOMAIN plan \subseteq Overlays[v] /\ s \in DOMAIN plan
  BY <1>1, <1>2, <1>6 DEF CycleFor, CycleSound, CycleTyped
<1>8. load.candles = NoHole /\ load.candles \in AnyWindows
  BY <1>1 DEF CycleFor, CycleSound, CycleTyped
<1>9. PICK candles \in AnyWindows : candles = load.candles
  BY <1>8
<1>10. load = [view |-> v, focus |-> focus, coverage |-> coverage,
              candles |-> candles, overlays |-> plan, failed |-> failed]
  <2>1. load \in [view : RunViews, focus : AnyWindows, coverage : AnyWindows, failed : BOOLEAN,
                  candles : AnyWindows, overlays : [DOMAIN load.overlays -> AnyWindows]]
    BY <1>1 DEF CycleFor, CycleSound, CycleTyped
  <2>2. QED BY <1>2, <1>3, <1>4, <1>5, <1>6, <1>9, <2>1
<1>11. DOMAIN plan # {s}
  BY <1>6 DEF Rest
<1>12. PICK S \in SUBSET Overlays[v] : S = DOMAIN plan \ {s}
  BY <1>7
<1>13. PICK left : left = [x \in S |-> plan[x]]
  OBVIOUS
<1>14. left \in [S -> AnyWindows]
  BY <1>7, <1>12, <1>13
<1>15. S # {}
  BY <1>7, <1>11, <1>12
<1>16. rest = [view |-> v, focus |-> focus, coverage |-> coverage,
               candles |-> candles, overlays |-> left, failed |-> failed]
  <2>1. rest = [load EXCEPT !.overlays = [x \in DOMAIN load.overlays \ {s} |-> load.overlays[x]]]
    BY <1>6, <1>11 DEF Rest
  <2>2. rest = [load EXCEPT !.overlays = left]
    BY <1>6, <1>12, <1>13, <2>1
  <2>3. QED BY <1>10, <2>2
<1>17. PlanSound(left, S, store, coverage)
  <2>1. ASSUME NEW x \in S
        PROVE  left[x] = MissingRange(Bounds(store[x]), coverage) /\ ~HasIn(store, x, coverage)
    <3>1. x \in DOMAIN plan /\ x # s
      BY <1>12
    <3>2. left[x] = plan[x]
      BY <1>13
    <3>3. plan[x] = MissingRange(Bounds(cache[x]), coverage) /\ ~HasIn(cache, x, coverage)
      BY <1>1, <1>4, <1>6, <3>1 DEF CycleFor, CycleSound
    <3>4. x \in Series
      BY SeriesAre
    <3>5. store[x] = cache[x]
      BY <3>1, <3>4
    <3>6. QED BY <3>2, <3>3, <3>5 DEF HasIn
  <2>2. QED BY <2>1 DEF PlanSound
<1>18. HoleSound(candles, v, store, coverage) /\ (candles = NoHole) # (S = {})
  BY <1>8, <1>9, <1>15 DEF HoleSound
<1>19. Inside(focus, coverage) /\ v = ran.view
  BY <1>1, <1>2, <1>3, <1>4 DEF CycleFor, CycleSound
<1>20. CycleFor(rest, v, store)
  BY ONLY v \in RunViews, focus \in AnyWindows, coverage \in AnyWindows,
          <1>9, <1>12, <1>14, <1>16, <1>17, <1>18, <1>19, <1>5, CycleIs
<1>21. rest.failed = load.failed
  BY <1>5, <1>16
<1>22. QED BY <1>19, <1>20, <1>21

\* What the answer for an overlay does to the store: nothing to the candles.
LEMMA OverlayGrows ==
  ASSUME LoadInv, load # Nothing, NEW s \in DOMAIN load.overlays,
         NEW store, store = Merged(s, load.overlays[s])
  PROVE  /\ StoreSound(store)
         /\ \A x \in Series \ {s} : store[x] = cache[x]
         /\ \A v \in RunViews : store[Candles[v]] = cache[Candles[v]]
<1>1. CycleFor(load, ran.view, cache) /\ StoreSound(cache)
  BY DEF LoadInv, Loading
<1>2. load.view \in RunViews /\ s \in Overlays[load.view]
  BY <1>1 DEF CycleFor, CycleSound, CycleTyped
<1>3. s \in Series /\ \A v \in RunViews : Candles[v] # s
  BY <1>2, SeriesAre
<1>4. PICK w \in AnyWindows : w = load.coverage
  BY <1>1 DEF CycleFor, CycleSound, CycleTyped
<1>5. PICK hole : hole = load.overlays[s]
  OBVIOUS
<1>6. hole = MissingRange(Bounds(cache[s]), w) /\ ~HasIn(cache, s, w)
  BY <1>1, <1>4, <1>5 DEF CycleFor, CycleSound
<1>7. GrewAt(cache, Merged(s, hole), s, w)
  BY <1>1, <1>3, <1>6, MergedSound
<1>8. GrewAt(cache, store, s, w)
  BY <1>5, <1>7
<1>9. \A v \in RunViews : Candles[v] \in Series \ {s}
  BY <1>3, SeriesAre
<1>10. QED BY <1>8, <1>9 DEF GrewAt

LEMMA OverlaySteps == ASSUME LoadInv, AnswerOverlay PROVE LoadSound'
<1>1. Selected /\ Framed /\ Told /\ Loading /\ Unwinding /\ StoreSound(cache)
  BY DEF LoadInv
<1>2. load # Nothing /\ UNCHANGED <<wanted, coming, shown, owner, ran, stale>>
  BY DEF AnswerOverlay
<1>3. PICK s \in DOMAIN load.overlays :
        /\ cache' = Merged(s, load.overlays[s])
        /\ load' = Rest(s)
        /\ ctl' = IF Rest(s) = Nothing /\ ~load.failed
                  THEN Marked(ctl, cache', load.view, load.focus) ELSE ctl
  BY DEF AnswerOverlay
<1>4. PICK store : store = cache'
  OBVIOUS
<1>5. /\ StoreSound(store)
      /\ \A x \in Series \ {s} : store[x] = cache[x]
      /\ \A u \in RunViews : store[Candles[u]] = cache[Candles[u]]
  BY <1>2, <1>3, <1>4, OverlayGrows
<1>6. PICK v \in RunViews : v = load.view /\ v = ran.view
  BY <1>1, <1>2 DEF Loading, CycleFor, CycleSound, CycleTyped
<1>7. PICK focus \in AnyWindows : focus = load.focus
  BY <1>1, <1>2 DEF Loading, CycleFor, CycleSound, CycleTyped
<1>8. Told'
  <2>1. PICK c : c = ctl
    OBVIOUS
  <2>2. c \in Controls /\ c.intended = v /\ ReadySound(c, cache, v, shown)
    BY <1>1, <1>6, <2>1 DEF Told
  <2>3. ReadySound(c, store, v, shown)
    <3>1. shown.view # Nothing => shown.view \in RunViews
      BY <1>1 DEF Framed
    <3>2. QED BY <1>5, <2>2, <3>1 DEF ReadySound, HasIn
  <2>4. PICK new : new = ctl'
    OBVIOUS
  <2>5. new = Marked(c, store, v, focus) \/ new = c
    BY <1>3, <1>4, <1>6, <1>7, <2>1, <2>4
  <2>6. PICK marked : marked = Marked(c, store, v, focus)
    OBVIOUS
  <2>7. marked \in Controls /\ marked.intended = c.intended /\ ReadySound(marked, store, v, shown)
    BY <2>2, <2>3, <2>6, MarkedKeeps
  <2>8. new \in Controls /\ new.intended = v /\ ReadySound(new, store, v, shown)
    BY <2>2, <2>3, <2>5, <2>6, <2>7
  <2>9. QED BY <1>2, <1>4, <1>6, <2>4, <2>8 DEF Told
<1>9. Loading'
  <2>1. PICK rest : rest = load'
    OBVIOUS
  <2>2. rest = Rest(s)
    BY <1>3, <2>1
  <2>3. rest # Nothing => CycleFor(rest, ran.view, store)
    BY <1>2, <1>5, <2>2, RestSound
  <2>4. QED BY <1>2, <1>4, <2>1, <2>3 DEF Loading
<1>10. Framed'
  BY <1>1, <1>2 DEF Framed, ShownSound, EffectKey, NothingShown
<1>11. Selected' /\ Unwinding' /\ StoreSound(cache)'
  BY <1>1, <1>2, <1>4, <1>5 DEF Selected, Unwinding
<1>12. QED BY <1>8, <1>9, <1>10, <1>11 DEF LoadSound

LEMMA FailSteps == ASSUME LoadInv, FailRequest PROVE LoadSound'
<1>1. Selected /\ Framed /\ Told /\ Loading /\ Unwinding /\ StoreSound(cache)
  BY DEF LoadInv
<1>2. load # Nothing /\ UNCHANGED <<wanted, coming, shown, owner, ran, stale, cache>>
  BY DEF FailRequest
<1>3. ctl' \in {ctl, Failed}
  BY DEF FailRequest
<1>4. Told'
  <2>1. ctl \in Controls /\ ctl.intended = ran.view /\ ReadySound(ctl, cache, ran.view, shown)
    BY <1>1 DEF Told
  <2>2. PICK new : new = ctl'
    OBVIOUS
  <2>3. new \in Controls /\ new.intended = ctl.intended /\ (new = ctl \/ new.ready = Nothing)
    BY <1>3, <2>1, <2>2 DEF Failed, Controls
  <2>4. shown.view # Nothing => Key(shown.view, shown.focus) # Nothing
    BY <1>1, KeyIs DEF Framed
  <2>5. ReadySound(new, cache, ran.view, shown)
    BY <2>1, <2>3, <2>4 DEF ReadySound
  <2>6. QED BY <1>2, <2>1, <2>2, <2>3, <2>5 DEF Told
<1>5. Loading'
  <2>1. CASE load' = Nothing
    BY <2>1 DEF Loading
  <2>2. CASE load' # Nothing
    <3>1. PICK s \in DOMAIN load.overlays :
            load' = IF Rest(s) = Nothing THEN Nothing ELSE [Rest(s) EXCEPT !.failed = TRUE]
      BY <2>2 DEF FailRequest
    <3>2. PICK rest : rest = Rest(s)
      OBVIOUS
    <3>3. rest # Nothing
      BY <2>2, <3>1, <3>2
    <3>4. CycleFor(rest, ran.view, cache)
      BY <1>2, <3>2, <3>3, RestSound
    <3>5. PICK new : new = [rest EXCEPT !.failed = TRUE]
      OBVIOUS
    <3>6. CycleTyped(rest)
      BY <3>4 DEF CycleFor, CycleSound
    <3>7. /\ new.view = rest.view /\ new.focus = rest.focus /\ new.coverage = rest.coverage
          /\ new.candles = rest.candles /\ new.overlays = rest.overlays
      BY <3>5, <3>6 DEF CycleTyped
    <3>8. CycleTyped(new)
      BY <3>5, <3>6, <3>7 DEF CycleTyped
    <3>9. CycleFor(new, ran.view, cache)
      BY <3>4, <3>7, <3>8 DEF CycleFor, CycleSound
    <3>10. load' = new
      BY <3>1, <3>2, <3>3, <3>5
    <3>11. QED BY <1>2, <3>9, <3>10 DEF Loading
  <2>3. QED BY <2>1, <2>2
<1>6. Framed'
  BY <1>1, <1>2 DEF Framed, ShownSound, EffectKey, NothingShown
<1>7. Selected' /\ Unwinding' /\ StoreSound(cache)'
  BY <1>1, <1>2 DEF Selected, Unwinding
<1>8. QED BY <1>4, <1>5, <1>6, <1>7 DEF LoadSound

(* ---- what the cycle in flight is for ------------------------------------ *)
LEMMA MarkedReady ==
  ASSUME NEW store, NEW c \in Controls, NEW v, NEW focus, NEW new, new = Marked(c, store, v, focus)
  PROVE  new.ready = c.ready \/ new.ready = Key(v, focus)
<1>1. PICK key : key = Key(v, focus)
  OBVIOUS
<1>2. new = c \/ new = [c EXCEPT !.ready = key, !.status = "ready"]
  BY <1>1 DEF Marked
<1>3. QED BY <1>1, <1>2 DEF Controls

LEMMA RestFor ==
  ASSUME CycleTyped(load), NEW s, NEW rest, rest = Rest(s), rest # Nothing
  PROVE  rest.view = load.view /\ rest.focus = load.focus /\ rest.coverage = load.coverage
<1>1. PICK left : left = [x \in DOMAIN load.overlays \ {s} |-> load.overlays[x]]
  OBVIOUS
<1>2. rest = [load EXCEPT !.overlays = left]
  BY <1>1 DEF Rest
<1>3. QED BY <1>2 DEF CycleTyped

LEMMA StageFor ==
  ASSUME NEW store, NEW v, NEW focus, NEW coverage, NEW c, c = OverlayStage(store, v, focus, coverage)
  PROVE  LoadsFor(c, v, focus)
BY DEF OverlayStage, LoadsFor

LEMMA BegunFor == LoadsFor(Begun, shown.view, shown.focus)
<1>1. PICK hole : hole = CandlesHole(shown.view, shown.coverage)
  OBVIOUS
<1>2. CASE hole = NoHole
  <2>1. Begun = OverlayStage(cache, shown.view, shown.focus, shown.coverage)
    BY <1>1, <1>2 DEF Begun
  <2>2. QED BY <2>1, StageFor
<1>3. CASE hole # NoHole
  <2>1. Begun = [view |-> shown.view, focus |-> shown.focus, coverage |-> shown.coverage,
                 candles |-> hole, overlays |-> <<>>, failed |-> FALSE]
    BY <1>1, <1>3 DEF Begun
  <2>2. QED BY <2>1 DEF LoadsFor
<1>4. QED BY <1>2, <1>3

\* An answer marks, if anything, the focus window of its cycle.
LEMMA AnswerPoints ==
  ASSUME LoadInv, load # Nothing, stale = Nothing, stale' = Nothing, shown' = shown,
         LoadsFor(load', load.view, load.focus),
         ctl'.ready = ctl.ready \/ ctl'.ready = Key(load.view, load.focus) \/ ctl'.ready = Nothing
  PROVE  Pointed'
<1> SUFFICES ASSUME shown.view # Nothing, ctl'.ready = Key(shown.view, shown.focus)
             PROVE  LoadsFor(load', shown.view, shown.focus)
  BY DEF Pointed
<1>1. Key(shown.view, shown.focus) # Nothing
  BY KeyIs DEF LoadInv, Framed
<1>2. load.view = shown.view /\ load.focus = shown.focus
  <2>1. CASE ctl'.ready = ctl.ready
    BY <2>1 DEF LoadInv, Pointed, LoadsFor
  <2>2. CASE ctl'.ready = Key(load.view, load.focus)
    <3>1. Key(load.view, load.focus) = Key(shown.view, shown.focus)
      BY <2>2
    <3>2. QED BY <3>1, KeysSame
  <2>3. QED BY <1>1, <2>1, <2>2
<1>3. QED BY <1>2 DEF LoadsFor

LEMMA PointedSteps == ASSUME LoadInv, [LoadNext]_loadVars PROVE Pointed'
<1>1. Framed /\ ctl \in Controls /\ Pointed
  BY DEF LoadInv, Told
<1>2. load # Nothing => CycleTyped(load)
  BY DEF LoadInv, Loading, CycleFor, CycleSound
<1>3. CASE SelectTrade \/ SelectVariant \/ ReportArrives
  <2>1. UNCHANGED <<shown, ctl, load, stale>>
    BY <1>3 DEF SelectTrade, SelectVariant, ReportArrives
  <2>2. QED BY <1>1, <2>1 DEF Pointed, LoadsFor, Key
<1>4. CASE SelectRun
  <2>1. load' = Nothing
    BY <1>4 DEF SelectRun
  <2>2. QED BY <2>1 DEF Pointed, LoadsFor
<1>5. CASE PanPrefetch
  <2>1. UNCHANGED <<shown, load, stale>> /\ (ctl' = ctl \/ ctl' = [ctl EXCEPT !.ready = Nothing])
    BY <1>5 DEF PanPrefetch
  <2>2. ctl' = ctl \/ ctl'.ready = Nothing
    BY <1>1, <2>1 DEF Controls
  <2>3. shown.view # Nothing => Key(shown.view, shown.focus) # Nothing
    BY <1>1, KeyIs DEF Framed
  <2>4. QED BY <1>1, <2>1, <2>2, <2>3 DEF Pointed, LoadsFor, Key
<1>6. CASE Render
  <2>1. stale = Nothing /\ stale' = Nothing /\ load' = load /\ RenderPending /\ shown' = NextShown
    BY <1>6 DEF Render
  <2>2. PICK v \in RunViews : v = wanted.view
    BY <2>1 DEF LoadInv, Selected, RenderPending
  <2>3. PICK trade \in Entries \cup {Nothing} : trade = wanted.trade
    BY DEF LoadInv, Selected
  <2>4. PICK focus \in AnyWindows : focus = Focus(v, trade)
    BY FocusTyped
  <2>5. shown'.view = v /\ shown'.focus = focus
    BY <2>1, <2>2, <2>3, <2>4 DEF NextShown
  <2>6. CASE FocusMoved
    <3>1. ctl' = [ctl EXCEPT !.ready = Nothing, !.status = "loading"]
      BY <1>6, <2>6 DEF Render
    <3>2. ctl'.ready = Nothing
      BY <1>1, <3>1 DEF Controls
    <3>3. Key(v, focus) # Nothing
      BY KeyIs
    <3>4. Key(shown.view, shown.focus)' # Nothing
      BY <2>5, <3>3
    <3>5. QED BY <2>1, <3>2, <3>4 DEF Pointed
  <2>7. CASE ~FocusMoved
    <3>1. ctl' = ctl
      BY <1>6, <2>7 DEF Render
    <3>2. shown.view = v /\ shown.focus = focus
      BY <1>1, <2>2, <2>3, <2>4, <2>7, RenderStays
    <3>3. QED BY <1>1, <2>1, <2>5, <3>1, <3>2 DEF Pointed, LoadsFor, Key
  <2>8. QED BY <2>6, <2>7
<1>7. CASE RunLoadEffect
  <2>1. load' = Begun /\ shown' = shown
    BY <1>7 DEF RunLoadEffect
  <2>2. QED BY <2>1, BegunFor DEF Pointed, LoadsFor
<1>8. CASE UnwindLoad
  <2>1. stale # Nothing /\ stale' = Nothing /\ UNCHANGED <<shown, load>>
    BY <1>8 DEF UnwindLoad
  <2>2. QED BY <1>1, <2>1 DEF Pointed, LoadsFor
<1>9. CASE AnswerCandles
  <2>1. /\ stale = Nothing /\ load # Nothing /\ UNCHANGED <<shown, stale>>
        /\ ctl' = Marked(ctl, cache', load.view, load.focus)
        /\ load' = OverlayStage(cache', load.view, load.focus, load.coverage)
    BY <1>9 DEF AnswerCandles
  <2>2. ctl'.ready = ctl.ready \/ ctl'.ready = Key(load.view, load.focus)
    BY <1>1, <2>1, MarkedReady
  <2>3. LoadsFor(load', load.view, load.focus)
    BY <2>1, StageFor
  <2>4. QED BY <2>1, <2>2, <2>3, AnswerPoints
<1>10. CASE AnswerOverlay
  <2>1. stale = Nothing /\ load # Nothing /\ UNCHANGED <<shown, stale>>
    BY <1>10 DEF AnswerOverlay
  <2>2. PICK s \in DOMAIN load.overlays :
          /\ load' = Rest(s)
          /\ ctl' = IF Rest(s) = Nothing /\ ~load.failed
                    THEN Marked(ctl, cache', load.view, load.focus) ELSE ctl
    BY <1>10 DEF AnswerOverlay
  <2>3. ctl'.ready = ctl.ready \/ ctl'.ready = Key(load.view, load.focus)
    BY <1>1, <2>2, MarkedReady
  <2>4. PICK rest : rest = load'
    OBVIOUS
  <2>5. LoadsFor(rest, load.view, load.focus)
    BY <1>2, <2>1, <2>2, <2>4, RestFor DEF LoadsFor
  <2>6. QED BY <2>1, <2>3, <2>4, <2>5, AnswerPoints
<1>11. CASE FailRequest
  <2>1. /\ stale = Nothing /\ load # Nothing /\ UNCHANGED <<shown, stale>>
        /\ ctl' \in {ctl, Failed}
    BY <1>11 DEF FailRequest
  <2>2. ctl'.ready = ctl.ready \/ ctl'.ready = Nothing
    BY <1>1, <2>1 DEF Failed, Controls
  <2>3. LoadsFor(load', load.view, load.focus)
    <3> SUFFICES ASSUME load' # Nothing PROVE load'.view = load.view /\ load'.focus = load.focus
      BY DEF LoadsFor
    <3>1. PICK s \in DOMAIN load.overlays :
            load' = IF Rest(s) = Nothing THEN Nothing ELSE [Rest(s) EXCEPT !.failed = TRUE]
      BY <1>11 DEF FailRequest
    <3>2. PICK rest : rest = Rest(s)
      OBVIOUS
    <3>3. rest # Nothing /\ load' = [rest EXCEPT !.failed = TRUE]
      BY <3>1, <3>2
    <3>4. rest.view = load.view /\ rest.focus = load.focus
      BY <1>2, <2>1, <3>2, <3>3, RestFor
    <3>5. CycleFor(rest, ran.view, cache)
      BY <2>1, <3>2, <3>3, RestSound
    <3>6. load'.view = rest.view /\ load'.focus = rest.focus
      BY <3>3, <3>5 DEF CycleFor, CycleSound, CycleTyped
    <3>7. QED BY <3>4, <3>6
  <2>4. QED BY <2>1, <2>2, <2>3, AnswerPoints
<1>12. CASE UNCHANGED loadVars
  BY <1>1, <1>12 DEF loadVars, Pointed, LoadsFor, Key
<1>13. QED
  BY <1>3, <1>4, <1>5, <1>6, <1>7, <1>8, <1>9, <1>10, <1>11, <1>12
  DEF LoadNext, LoadMachine, User

LEMMA LoadSteps == ASSUME LoadInv, [LoadNext]_loadVars PROVE LoadInv'
<1>1. CASE LoadNext
  BY <1>1, SelectionSteps, SelectRunSteps, PanSteps, RenderSteps, RunEffectSteps, UnwindSteps,
     CandlesSteps, OverlaySteps, FailSteps, PointedSteps
  DEF LoadNext, LoadMachine, User, LoadInv, LoadSound
<1>2. CASE UNCHANGED loadVars
  <2>1. Pointed'
    BY PointedSteps
  <2>2. QED
    BY <1>2, <2>1 DEF loadVars, LoadInv, Selected, Framed, ShownSound, EffectKey, NothingShown,
                      Told, Loading, Unwinding
<1>3. QED BY <1>1, <1>2

LEMMA AlwaysLoadInv == LoadSpec => []LoadInv
BY LoadStarts, LoadSteps, PTL DEF LoadSpec

\* MarketLoad: the focus window called ready is there, and of the view that is shown
\* once the effects of a selection have run: neither a cycle cut short nor the
\* chunk cap can leave the chart ready for candles that are not there.
THEOREM ReadyIsAlwaysServed == LoadSpec => []ReadyIsServed
<1>1. ASSUME LoadInv PROVE ReadyIsServed
  <2>1. LoadTypeOK
    BY <1>1, TypesFollow
  <2>2. ctl \in Controls /\ ReadySound(ctl, cache, ran.view, shown)
    BY <1>1 DEF LoadInv, Told
  <2>3. EffectsRun => ran.view = shown.view
    BY DEF EffectsRun, EffectPending, EffectKey
  <2>4. QED BY <2>1, <2>2, <2>3 DEF ReadyIsServed, ReadySound, Has, HasIn
<1>2. QED BY <1>1, AlwaysLoadInv, PTL

\* The candles of the focus window shown stay, but for the answer of a cycle
\* for another focus window.
LEMMA FocusStays ==
  ASSUME LoadInv, [LoadNext]_loadVars, NEW v \in RunViews, NEW focus \in AnyWindows,
         HasIn(cache, Candles[v], focus), cache' # cache => load.focus = focus
  PROVE  HasIn(cache', Candles[v], focus)
<1>1. CASE cache' = cache
  BY <1>1
<1>2. CASE AnswerCandles
  <2>1. PICK s \in Series : s = Candles[load.view]
    BY <1>2, CandlesGrow, SeriesAre
  <2>2. PICK w \in AnyWindows : w = load.coverage
    BY <1>2, CandlesGrow
  <2>3. PICK store : store = cache'
    OBVIOUS
  <2>4. GrewAt(cache, store, s, w) /\ StoreSound(cache)
    BY <1>2, <2>1, <2>2, <2>3, CandlesGrow DEF LoadInv
  <2>5. PICK x \in Series : x = Candles[v]
    BY SeriesAre
  <2>6. CASE cache' # cache
    <3>1. Inside(focus, w)
      BY <1>2, <2>2, <2>6, CandlesGrow
    <3>2. HasIn(cache, x, focus)
      BY <2>5
    <3>3. HasIn(store, x, focus)
      BY <2>4, <3>1, <3>2, StaysThere
    <3>4. QED BY <2>3, <2>5, <3>3
  <2>7. QED BY <1>1, <2>6
<1>3. CASE AnswerOverlay
  <2>1. PICK s \in DOMAIN load.overlays : cache' = Merged(s, load.overlays[s])
    BY <1>3 DEF AnswerOverlay
  <2>2. cache'[Candles[v]] = cache[Candles[v]]
    BY <1>3, <2>1, OverlayGrows DEF AnswerOverlay
  <2>3. QED BY <2>2 DEF HasIn
<1>4. QED
  BY <1>1, <1>2, <1>3 DEF LoadNext, LoadMachine, User, loadVars, SelectTrade, SelectVariant,
     SelectRun, PanPrefetch, ReportArrives, Render, RunLoadEffect, UnwindLoad, FailRequest

\* MarketLoad: panning loads a wider window without taking from the chart what
\* it shows of the focus window.
THEOREM FocusNeverBlinks == LoadSpec => NoBlink
<1>1. ASSUME LoadInv, LoadInv', [LoadNext]_loadVars,
             Displayed # NoHole, shown'.view = shown.view, shown'.focus = shown.focus,
             ctl'.status # "error", cache' # cache => load.focus = shown.focus
      PROVE  BarsOf(shown.focus) \subseteq BarsOf(Displayed')
  <2>1. /\ shown.view \in RunViews /\ HasIn(cache, Candles[shown.view], shown.focus)
    BY <1>1, DisplayedIs
  <2>2. PICK v \in RunViews : v = shown.view
    BY <2>1
  <2>3. PICK focus \in AnyWindows : focus = shown.focus
    BY <1>1 DEF LoadInv, Framed
  <2>4. PICK coverage \in AnyWindows : coverage = shown'.coverage
    BY <1>1 DEF LoadInv, Framed
  <2>5. HasIn(cache', Candles[v], focus)
    BY <1>1, <2>1, <2>2, <2>3, FocusStays
  <2>6. Has(Candles[shown.view], shown.focus)'
    BY <1>1, <2>2, <2>3, <2>5 DEF Has, HasIn
  <2>7. Displayed' = ComposeWindow'
    BY <1>1, <2>2, <2>6, LoadAssumption DEF Displayed
  <2>8. Displayed' \in {focus, coverage}
    BY <1>1, <2>3, <2>4, <2>7 DEF ComposeWindow
  <2>9. Inside(focus, coverage)
    BY <1>1, <2>3, <2>4 DEF LoadInv, Framed, ShownSound
  <2>10. BarsOf(focus) \subseteq BarsOf(coverage)
    BY <2>9 DEF AnyWindows, Inside, BarsOf
  <2>11. QED BY <2>3, <2>8, <2>10
<1>2. LoadInv /\ LoadInv' /\ [LoadNext]_loadVars =>
        [Displayed # NoHole /\ shown'.view = shown.view /\ shown'.focus = shown.focus
           /\ ctl'.status # "error"
           /\ (cache' # cache => load.focus = shown.focus)
         => BarsOf(shown.focus) \subseteq BarsOf(Displayed')]_loadVars
  BY <1>1
<1>3. QED BY <1>2, AlwaysLoadInv, PTL DEF LoadSpec, NoBlink

(***************************************************************************)
(* The loader at rest: what became of the windows shown.  It needs reports  *)
(* that are at least a window wide.                                         *)
(***************************************************************************)
Wide(w) == w.to - w.from = Span
WideReports == \A v \in RunViews : Report[v].to - Report[v].from >= Span

\* Chunks are narrower than a window only where they end at what the server has.
InStore(s, b) == Stored[s].from <= b /\ b < Stored[s].to
SpreadAt(s, from, to) == to - from >= Span \/ ~InStore(s, from - 1) \/ ~InStore(s, to)
Spread(list, s) == \A i \in DOMAIN list : SpreadAt(s, list[i].from, list[i].to)

\* All chunks are right of a window; and there are as many as are kept.
AllRight(list, w) == \A i \in DOMAIN list : w.to < list[i].from
CutOff(list, w) == Len(list) = ChunkCap /\ AllRight(list, w)
Lost(list, s, w) == CutOff(list, w) \/ ~InStock(s, w)

\* What a window lacks is in what is asked for.
Fills(list, w, hole) == \A b \in BarsOf(w) : In(list, b) \/ b \in BarsOf(hole)
FillsStock(list, s, w, hole) == InStock(s, w) => Fills(list, w, hole)
StoreWide(store) == \A s \in Series : Spread(store[s], s)

\* The answers a cycle waits for fill its focus window, of what the server has.
CycleFits(c, store) ==
  /\ Wide(c.focus)
  /\ c.failed => c.candles = NoHole
  /\ c.candles # NoHole =>
       FillsStock(store[Candles[c.view]], Candles[c.view], c.focus, c.candles)
  /\ c.coverage = c.focus =>
       \A s \in DOMAIN c.overlays : FillsStock(store[s], s, c.focus, c.overlays[s])
LoadFits == load # Nothing => CycleFits(load, cache)

\* Once the effect has run the cycle is that of the windows shown, and says error
\* when one of its requests has failed.
LoadShown ==
  load # Nothing /\ ran = EffectKey =>
    /\ load.focus = shown.focus /\ load.coverage = shown.coverage
    /\ load.failed <=> ctl.status = "error"

\* A chart is panned only with its focus window there; if that is lost, it is
\* lost to chunks right of it, and no answer but its own is due.
PannedSound ==
  shown.view # Nothing /\ (owner.target # Nothing \/ shown.coverage # shown.focus) =>
    \/ ~InStock(Candles[shown.view], shown.focus)
    \/ HasIn(cache, Candles[shown.view], shown.focus)
    \/ /\ AllRight(cache[Candles[shown.view]], shown.focus)
       /\ load # Nothing /\ load.candles # NoHole =>
            load.view = shown.view /\ load.focus = shown.focus

\* Once the effect has run: where the candles are, and where each overlay is.
CandlesDue ==
  ran = EffectKey /\ shown.view # Nothing =>
    \/ ctl.status = "error"
    \/ ctl.status = "ready" /\ HasIn(cache, Candles[shown.view], shown.focus)
    \/ load # Nothing /\ load.candles # NoHole
    \/ Lost(cache[Candles[shown.view]], Candles[shown.view], shown.focus)
OverlayDue(s) ==
  \/ HasIn(cache, s, shown.focus) \/ Lost(cache[s], s, shown.focus)
  \/ load # Nothing /\ s \in DOMAIN load.overlays
OverlaysDue ==
  ran = EffectKey /\ shown.view # Nothing /\ shown.coverage = shown.focus =>
    \/ ctl.status = "error"
    \/ load # Nothing /\ load.candles # NoHole
    \/ \A s \in Overlays[shown.view] : OverlayDue(s)

Arriving == wanted.view = Nothing => coming # Nothing
FocusSound ==
  IF shown.view = Nothing THEN owner.target = Nothing /\ ctl.ready = Nothing
  ELSE Wide(shown.focus)
ReadyTold ==
  ctl.ready # Nothing /\ ctl.ready = Key(shown.view, shown.focus) => ctl.status = "ready"
StaleTold == stale # Nothing => ctl.status # "error" /\ shown.view # Nothing

\* The inductive invariant behind QuietMeansReady.
QuietInv ==
  /\ Arriving /\ FocusSound /\ StoreWide(cache) /\ ReadyTold /\ StaleTold
  /\ LoadFits /\ LoadShown /\ PannedSound /\ CandlesDue /\ OverlaysDue

LEMMA FocusIsWide ==
  ASSUME WideReports, NEW v \in RunViews, NEW t \in Entries \cup {Nothing}
  PROVE  Wide(Focus(v, t))
<1>1. PICK report : report = Report[v] /\ report.from \in Int /\ report.to \in Int
                    /\ report.to - report.from >= Span
  BY LoadAssumption DEF WideReports
<1>2. Span \in Nat \ {0}
  BY LoadAssumption
<1>3. CASE t = Nothing
  <2>1. TargetWindow(report, t) = Window(Larger(report.from, report.to - Span), report.to)
    BY <1>3 DEF TargetWindow
  <2>2. Larger(report.from, report.to - Span) = report.to - Span
    BY <1>1, <1>2 DEF Larger
  <2>3. QED BY <1>1, <1>2, <2>1, <2>2 DEF Focus, Window, Wide
<1>4. CASE t # Nothing
  <2>1. t \in Int
    BY <1>4, LoadAssumption
  <2>2. PICK start \in Int : start = Larger(report.from, t - (Span \div 2)) /\ start >= report.from
    BY <1>1, <1>2, <2>1 DEF Larger
  <2>3. PICK to \in Int : /\ to = Smaller(report.to, start + Span)
                          /\ to = report.to \/ to = start + Span
    BY <1>1, <1>2 DEF Smaller
  <2>4. Larger(report.from, to - Span) = to - Span
    BY <1>1, <1>2, <2>2, <2>3 DEF Larger
  <2>5. TargetWindow(report, t) = Window(Larger(report.from, to - Span), to)
    BY <1>4, <2>2, <2>3 DEF TargetWindow
  <2>6. QED BY <1>1, <1>2, <2>4, <2>5 DEF Focus, Window, Wide
<1>5. QED BY <1>3, <1>4

\* Bars that follow one another are of one chunk.
LEMMA RunOfBars ==
  ASSUME NEW all \in Seq(BareChunks), Apart(all), NEW i \in DOMAIN all,
         NEW x \in Int, NEW y \in Int, all[i].from <= x, x <= all[i].to,
         \A b \in Int : x <= b /\ b < y => In(all, b)
  PROVE  y <= all[i].to
<1>1. \A k \in DOMAIN all : all[k].from \in Int /\ all[k].to \in Int /\ all[k].from <= all[k].to
  <2>1. \A k \in DOMAIN all : all[k] \in BareChunks
    OBVIOUS
  <2>2. QED BY <2>1, BareIs
<1> SUFFICES ASSUME all[i].to < y PROVE FALSE
  BY <1>1
<1>2. PICK b \in Int : b = all[i].to
  BY <1>1
<1>3. PICK k \in DOMAIN all : all[k].from <= b /\ b < all[k].to
  BY <1>2 DEF In
<1>4. k \in Int /\ i \in Int
  OBVIOUS
<1>5. CASE k < i
  <2>1. all[k].to < all[i].from
    BY <1>5 DEF Apart
  <2>2. all[k].to \in Int /\ all[i].from \in Int /\ all[i].from <= all[i].to
    BY <1>1
  <2>3. QED BY <1>2, <1>3, <2>1, <2>2
<1>6. CASE k = i
  BY <1>1, <1>2, <1>3, <1>6
<1>7. CASE i < k
  <2>1. all[i].to < all[k].from
    BY <1>7 DEF Apart
  <2>2. all[k].from \in Int
    BY <1>1
  <2>3. QED BY <1>2, <1>3, <2>1, <2>2
<1>8. QED BY <1>4, <1>5, <1>6, <1>7

\* What the merge of an answer is made of.
AnswerGrown(list, c, all, new) ==
  /\ all \in Seq(BareChunks) /\ Apart(all) /\ StartsOfBoth(all, list, c)
  /\ \A b \in Int : In(all, b) <=> In(list, b) \/ (c.from <= b /\ b < c.to)
  /\ \/ new = all
     \/ \E k \in Nat :
          /\ TailOf(all, k, ChunkCap, new)
          /\ \A b \in Int : In(new, b) <=> b >= all[k + 1].from /\ In(all, b)

LEMMA AnswerGrows ==
  ASSUME NEW list \in Seq(BareChunks), NEW c \in BareChunks,
         NEW new, new = MergedChunks(list, c, ChunkCap)
  PROVE  new \in Seq(BareChunks) /\ \E all : AnswerGrown(list, c, all, new)
<1>1. PICK cap \in Nat \ {0} : cap = ChunkCap
  BY LoadAssumption
<1>2. PICK all : Grown(BareChunks, list, c, cap, all, MergedChunks(list, c, cap))
  BY BareIsKind, MergeGrows
<1>3. Grown(BareChunks, list, c, cap, all, new)
  BY <1>1, <1>2
<1>4. /\ all \in Seq(BareChunks) /\ Apart(all) /\ StartsOfBoth(all, list, c)
      /\ \A b \in Int : In(all, b) <=> In(list, b) \/ (c.from <= b /\ b < c.to)
  BY <1>3 DEF Grown
<1>5. ASSUME new = all PROVE AnswerGrown(list, c, all, new)
  BY <1>4, <1>5 DEF AnswerGrown
<1>6. ASSUME Len(all) > cap, TailOf(all, Len(all) - cap, cap, new),
             \A b \in Int : In(new, b) <=> b >= all[Len(all) - cap + 1].from /\ In(all, b)
      PROVE  AnswerGrown(list, c, all, new)
  <2>1. PICK k \in Nat : k = Len(all) - cap
    BY <1>4, <1>6
  <2>2. /\ TailOf(all, k, ChunkCap, new)
        /\ \A b \in Int : In(new, b) <=> b >= all[k + 1].from /\ In(all, b)
    BY <1>1, <1>6, <2>1
  <2>3. QED BY <1>4, <2>2 DEF AnswerGrown
<1>7. new \in Seq(BareChunks)
  BY <1>3 DEF Grown
<1>8. \/ new = all
      \/ /\ Len(all) > cap /\ TailOf(all, Len(all) - cap, cap, new)
         /\ \A b \in Int : In(new, b) <=> b >= all[Len(all) - cap + 1].from /\ In(all, b)
  BY <1>3 DEF Grown
<1>9. AnswerGrown(list, c, all, new)
  BY <1>5, <1>6, <1>8
<1>10. QED BY <1>7, <1>9

\* A window the list and the answer had between them is there after the merge,
\* or cut off.
LEMMA MergeHolds ==
  ASSUME NEW list \in Seq(BareChunks), NEW c \in BareChunks,
         NEW new, new = MergedChunks(list, c, ChunkCap),
         NEW v \in AnyWindows, v.from < v.to, Fills(list, v, c)
  PROVE  (\A b \in BarsOf(v) : In(new, b)) \/ CutOff(new, v)
<1>1. PICK all : AnswerGrown(list, c, all, new)
  BY AnswerGrows
<1>2. /\ all \in Seq(BareChunks) /\ Apart(all)
      /\ \A b \in Int : In(all, b) <=> In(list, b) \/ (c.from <= b /\ b < c.to)
  BY <1>1 DEF AnswerGrown
<1>3. v.from \in Int /\ v.to \in Int
  BY DEF AnyWindows
<1>4. ASSUME NEW b \in Int, v.from <= b, b < v.to PROVE In(all, b)
  <2>1. b \in BarsOf(v)
    BY <1>3, <1>4 DEF BarsOf
  <2>2. In(list, b) \/ b \in BarsOf(c)
    BY <2>1 DEF Fills
  <2>3. b \in BarsOf(c) => c.from <= b /\ b < c.to
    BY BareIs DEF BarsOf
  <2>4. QED BY <1>2, <2>2, <2>3
<1>5. PICK x \in Int : x = v.from
  BY <1>3
<1>6. PICK y \in Int : y = v.to
  BY <1>3
<1>7. \A k \in DOMAIN all : all[k].from \in Int /\ all[k].to \in Int
  <2>1. \A k \in DOMAIN all : all[k] \in BareChunks
    BY <1>2
  <2>2. QED BY <2>1, BareIs
<1>8. PICK i \in DOMAIN all : all[i].from <= x /\ x < all[i].to
  <2>1. In(all, x)
    BY <1>4, <1>5, <1>6
  <2>2. QED BY <2>1 DEF In
<1>9. y <= all[i].to
  <2>1. x <= all[i].to
    BY <1>7, <1>8
  <2>2. QED BY <1>2, <1>4, <1>5, <1>6, <1>8, <2>1, RunOfBars
<1>10. \A b \in BarsOf(v) : b \in Int /\ v.from <= b /\ In(all, b)
  BY <1>3, <1>4 DEF BarsOf
<1>11. CASE new = all
  BY <1>10, <1>11
<1>12. CASE new # all
  <2>1. PICK k \in Nat : /\ TailOf(all, k, ChunkCap, new)
                         /\ \A b \in Int : In(new, b) <=> b >= all[k + 1].from /\ In(all, b)
    BY <1>1, <1>12 DEF AnswerGrown
  <2>2. PICK cap \in Nat \ {0} : cap = ChunkCap
    BY LoadAssumption
  <2>3. /\ Len(new) = cap /\ Len(all) = k + cap
        /\ \A j \in 1 .. cap : j + k \in 1 .. Len(all) /\ new[j] = all[j + k]
    BY <2>1, <2>2 DEF TailOf
  <2>4. DOMAIN all = 1 .. k + cap /\ i \in 1 .. k + cap
    BY <1>2, <2>3
  <2>5. CASE i > k
    <3>1. all[k + 1].from <= all[i].from
      <4>1. k + 1 \in DOMAIN all
        BY <2>4, <2>5
      <4>2. CASE i = k + 1
        BY <1>7, <4>2
      <4>3. CASE i # k + 1
        <5>1. k + 1 < i
          BY <2>4, <2>5, <4>3
        <5>2. all[k + 1].to < all[i].from
          BY <1>2, <4>1, <5>1 DEF Apart
        <5>3. all[k + 1] \in BareChunks
          BY <1>2, <4>1
        <5>4. /\ all[k + 1].from \in Int /\ all[k + 1].to \in Int
              /\ all[k + 1].from <= all[k + 1].to /\ all[i].from \in Int
          BY <1>7, <5>3, BareIs
        <5>5. QED BY <5>2, <5>4
      <4>4. QED BY <4>2, <4>3
    <3>2. all[k + 1].from \in Int /\ all[i].from \in Int
      BY <1>7, <2>4, <2>5
    <3>3. \A b \in BarsOf(v) : b >= all[k + 1].from
      BY <1>5, <1>8, <1>10, <3>1, <3>2
    <3>4. QED BY <1>10, <2>1, <3>3
  <2>6. CASE i <= k
    <3>1. ASSUME NEW j \in 1 .. cap PROVE v.to < new[j].from
      <4>1. j + k \in DOMAIN all /\ i < j + k /\ new[j] = all[j + k]
        BY <2>3, <2>4, <2>6
      <4>2. all[i].to < all[j + k].from
        BY <1>2, <4>1 DEF Apart
      <4>3. all[i].to \in Int /\ all[j + k].from \in Int
        BY <1>7, <4>1
      <4>4. QED BY <1>6, <1>9, <4>1, <4>2, <4>3
    <3>2. DOMAIN new = 1 .. cap
      <4>1. new \in Seq(BareChunks)
        BY AnswerGrows
      <4>2. QED BY <2>3, <4>1
    <3>3. CutOff(new, v)
      BY <2>2, <2>3, <3>1, <3>2 DEF CutOff, AllRight
    <3>4. QED BY <3>3
  <2>7. QED BY <2>4, <2>5, <2>6
<1>13. QED BY <1>11, <1>12

\* A chunk that reaches past a bar the server lacks ends where the server ends.
LEMMA SpreadFrom ==
  ASSUME NEW s \in Series, NEW x \in Int, NEW q \in Int, NEW y \in Int, x <= q, q <= y,
         SpreadAt(s, x, q) \/ ~InStore(s, q)
  PROVE  SpreadAt(s, x, y)
<1>1. PICK stock : stock = Stored[s] /\ stock.from \in Int /\ stock.to \in Int
  BY LoadAssumption
<1>2. Span \in Int
  BY LoadAssumption
<1>3. QED BY <1>1, <1>2 DEF SpreadAt, InStore

\* The answer for a hole ends where the server ends, or is as wide as a window,
\* or touches a chunk that does or is.
LEMMA MergeWide ==
  ASSUME NEW s \in Series, NEW list \in Seq(BareChunks), Spread(list, s),
         NEW w \in Stretches, w.to - w.from >= Span, NEW hole, HoleAt(list, w, hole),
         NEW c \in BareChunks, AnswerOf(s, hole, c),
         NEW new, new = MergedChunks(list, c, ChunkCap)
  PROVE  Spread(new, s)
<1>1. /\ hole.from \in Int /\ hole.to \in Int
      /\ w.from <= hole.from /\ hole.from < hole.to /\ hole.to <= w.to
      /\ \A b \in w.from .. (hole.from - 1) : In(list, b)
      /\ hole.to = w.to \/ \E i \in DOMAIN list : list[i].from = hole.to
  BY DEF HoleAt
<1>2. PICK all : AnswerGrown(list, c, all, new)
  BY AnswerGrows
<1>3. /\ all \in Seq(BareChunks) /\ Apart(all) /\ StartsOfBoth(all, list, c)
      /\ \A b \in Int : In(all, b) <=> In(list, b) \/ (c.from <= b /\ b < c.to)
  BY <1>2 DEF AnswerGrown
<1>4. c.from \in Int /\ c.to \in Int /\ c.from <= c.to /\ hole.from <= c.from /\ c.to <= hole.to
  BY DEF AnswerOf
<1>5. \A b \in Int : c.from <= b /\ b < c.to <=> hole.from <= b /\ b < hole.to /\ InStore(s, b)
  BY DEF AnswerOf, InStore
<1>6. c.from = c.to => c.from = hole.from
  BY DEF AnswerOf
<1>7. \A k \in DOMAIN all : all[k].from \in Int /\ all[k].to \in Int /\ all[k].from <= all[k].to
  <2>1. \A k \in DOMAIN all : all[k] \in BareChunks
    BY <1>3
  <2>2. QED BY <2>1, BareIs
<1>8. \A k \in DOMAIN list : list[k].from \in Int /\ list[k].to \in Int /\ list[k].from <= list[k].to
  <2>1. \A k \in DOMAIN list : list[k] \in BareChunks
    OBVIOUS
  <2>2. QED BY <2>1, BareIs
<1>9. Span \in Int /\ w.from \in Int /\ w.to \in Int
  BY LoadAssumption DEF Stretches
<1>10. ASSUME NEW i \in DOMAIN all PROVE SpreadAt(s, all[i].from, all[i].to)
  <2>1. PICK x \in Int : x = all[i].from
    BY <1>7
  <2>2. PICK y \in Int : y = all[i].to /\ x <= y
    BY <1>7, <2>1
  <2>3. ASSUME NEW q \in Int, x <= q, \A b \in Int : x <= b /\ b < q => In(all, b)
        PROVE  q <= y
    BY <1>3, <2>1, <2>2, <2>3, RunOfBars
  <2>4. ASSUME NEW q \in Int, x <= q, \A b \in Int : x <= b /\ b < q => In(all, b),
               SpreadAt(s, x, q) \/ ~InStore(s, q)
        PROVE  SpreadAt(s, all[i].from, all[i].to)
    <3>1. q <= y
      BY <2>3, <2>4
    <3>2. SpreadAt(s, x, y)
      BY <2>4, <3>1, SpreadFrom
    <3>3. QED BY <2>1, <2>2, <3>2
  <2>5. ASSUME NEW j \in DOMAIN list, list[j].from = x
        PROVE  SpreadAt(s, all[i].from, all[i].to)
    <3>1. PICK q \in Int : q = list[j].to
      BY <1>8
    <3>2. x <= q
      BY <1>8, <2>5, <3>1
    <3>3. \A b \in Int : x <= b /\ b < q => In(list, b)
      BY <2>5, <3>1 DEF In
    <3>4. SpreadAt(s, x, q)
      BY <2>5, <3>1 DEF Spread
    <3>5. \A b \in Int : x <= b /\ b < q => In(all, b)
      BY <1>3, <3>3
    <3>6. QED BY <2>4, <3>2, <3>4, <3>5
  <2>6. CASE x = c.from /\ ~In(list, c.from - 1)
    <3>1. CASE ~InStore(s, x - 1)
      BY <2>1, <3>1 DEF SpreadAt
    <3>2. CASE InStore(s, x - 1)
      <4>1. c.from = hole.from
        <5>1. CASE hole.from <= x - 1
          <6>1. c.from <= x - 1
            <7>1. x - 1 \in Int /\ x - 1 < hole.to
              BY <1>1, <1>4, <2>6
            <7>2. QED BY <1>5, <3>2, <5>1, <7>1
          <6>2. QED BY <1>4, <2>6, <6>1
        <5>2. CASE ~(hole.from <= x - 1)
          BY <1>1, <1>4, <2>6, <5>2
        <5>3. QED BY <5>1, <5>2
      <4>2. hole.from = w.from
        <5>1. hole.from - 1 \notin w.from .. (hole.from - 1)
          BY <1>1, <2>6, <4>1
        <5>2. QED BY <1>1, <1>9, <5>1
      <4>3. \A b \in Int : x <= b /\ b < c.to => In(all, b)
        BY <1>3, <2>6
      <4>4. CASE c.to < hole.to
        <5>1. ~InStore(s, c.to)
          <6>1. ~(c.to < c.to) /\ hole.from <= c.to
            BY <1>4, <1>1, <4>1
          <6>2. QED BY <1>4, <1>5, <4>4, <6>1
        <5>2. QED BY <1>4, <2>4, <2>6, <4>3, <5>1
      <4>5. CASE c.to = hole.to /\ hole.to = w.to
        <5>1. SpreadAt(s, x, c.to)
          BY <2>6, <4>1, <4>2, <4>5 DEF SpreadAt
        <5>2. QED BY <1>4, <2>4, <2>6, <4>3, <5>1
      <4>6. CASE c.to = hole.to /\ \E j \in DOMAIN list : list[j].from = hole.to
        <5>1. PICK j \in DOMAIN list : list[j].from = hole.to
          BY <4>6
        <5>2. PICK q \in Int : q = list[j].to /\ hole.to <= q
          BY <1>8, <5>1
        <5>3. \A b \in Int : hole.to <= b /\ b < q => In(list, b)
          BY <5>1, <5>2 DEF In
        <5>4. \A b \in Int : x <= b /\ b < q => In(all, b)
          BY <1>1, <1>3, <2>6, <4>6, <5>3
        <5>5. x <= q
          BY <1>1, <2>6, <4>1, <5>2
        <5>6. InStore(s, hole.to - 1)
          <6>1. c.from <= hole.to - 1 /\ hole.to - 1 < c.to /\ hole.to - 1 \in Int
            BY <1>1, <4>1, <4>6
          <6>2. QED BY <1>5, <6>1
        <5>7. SpreadAt(s, hole.to, q)
          BY <5>1, <5>2 DEF Spread
        <5>8. q - hole.to >= Span \/ ~InStore(s, q)
          BY <5>6, <5>7 DEF SpreadAt
        <5>9. q - hole.to >= Span => q - x >= Span
          BY <1>1, <1>9, <2>6, <4>1
        <5>10. SpreadAt(s, x, q) \/ ~InStore(s, q)
          BY <5>8, <5>9 DEF SpreadAt
        <5>11. QED BY <2>4, <5>4, <5>5, <5>10
      <4>7. QED BY <1>1, <1>4, <4>4, <4>5, <4>6
    <3>3. QED BY <3>1, <3>2
  <2>7. StartsAt(list, c, all[i].from)
    BY <1>3, StartsAre
  <2>8. QED BY <2>1, <2>5, <2>6, <2>7 DEF StartsAt
<1>11. CASE new = all
  BY <1>10, <1>11 DEF Spread
<1>12. CASE new # all
  <2>1. PICK k \in Nat : TailOf(all, k, ChunkCap, new)
    BY <1>2, <1>12 DEF AnswerGrown
  <2>2. new \in Seq(BareChunks)
    BY AnswerGrows
  <2>3. DOMAIN new = 1 .. ChunkCap /\ DOMAIN all = 1 .. Len(all)
    BY <1>3, <2>1, <2>2 DEF TailOf
  <2>4. \A j \in 1 .. ChunkCap : j + k \in DOMAIN all /\ new[j] = all[j + k]
    BY <2>1, <2>3 DEF TailOf
  <2>5. QED BY <1>10, <2>3, <2>4 DEF Spread
<1>13. QED BY <1>11, <1>12

\* What the server has of a window it has all of is all of it.
LEMMA StockFills ==
  ASSUME NEW s \in Series, NEW list, NEW v \in AnyWindows, InStock(s, v),
         NEW hole, hole.from \in Int, hole.to \in Int, hole.from <= hole.to,
         Fills(list, v, hole)
  PROVE  Fills(list, v, Answered(s, hole))
<1>1. PICK got : got = Answered(s, hole)
  OBVIOUS
<1>2. /\ got.from \in Int /\ got.to \in Int
      /\ \A b \in Int : got.from <= b /\ b < got.to
           <=> hole.from <= b /\ b < hole.to /\ Stored[s].from <= b /\ b < Stored[s].to
  BY <1>1, AnswerIs DEF AnswerOf
<1>3. v.from \in Int /\ v.to \in Int /\ Stored[s].from \in Int /\ Stored[s].to \in Int
  <2>1. PICK stock : stock = Stored[s] /\ stock.from \in Int /\ stock.to \in Int
    BY LoadAssumption
  <2>2. QED BY <2>1 DEF AnyWindows
<1>4. ASSUME NEW b \in BarsOf(v), b \in BarsOf(hole) PROVE b \in BarsOf(got)
  <2>1. b \in BarsOf(Stored[s])
    BY DEF InStock
  <2>2. b \in Int /\ Stored[s].from <= b /\ b < Stored[s].to /\ hole.from <= b /\ b < hole.to
    BY <1>3, <1>4, <2>1 DEF BarsOf
  <2>3. got.from <= b /\ b < got.to
    BY <1>2, <2>2
  <2>4. QED BY <1>2, <2>2, <2>3 DEF BarsOf
<1>5. Fills(list, v, got)
  BY <1>4 DEF Fills
<1>6. QED BY <1>1, <1>5

\* The one hole of a focus window is all it lacks.
LEMMA FocusFills ==
  ASSUME NEW s \in Series, NEW list \in Seq(BareChunks), Spread(list, s),
         NEW w \in AnyWindows, Wide(w), InStock(s, w),
         NEW hole, HoleAt(list, w, hole)
  PROVE  Fills(list, w, hole)
<1>1. /\ hole.from \in Int /\ hole.to \in Int
      /\ w.from <= hole.from /\ hole.from < hole.to /\ hole.to <= w.to
      /\ \A b \in w.from .. (hole.from - 1) : In(list, b)
      /\ hole.to = w.to \/ \E i \in DOMAIN list : list[i].from = hole.to
  BY DEF HoleAt
<1>2. w.from \in Int /\ w.to \in Int /\ Span \in Int /\ w.to - w.from = Span
  BY LoadAssumption DEF AnyWindows, Wide
<1> SUFFICES ASSUME NEW b \in BarsOf(w) PROVE In(list, b) \/ b \in BarsOf(hole)
  BY DEF Fills
<1>3. b \in Int /\ w.from <= b /\ b < w.to
  BY <1>2 DEF BarsOf
<1>4. CASE b < hole.from
  <2>1. b \in w.from .. (hole.from - 1)
    BY <1>1, <1>2, <1>3, <1>4
  <2>2. QED BY <1>1, <2>1
<1>5. CASE hole.from <= b /\ b < hole.to
  BY <1>1, <1>3, <1>5 DEF BarsOf
<1>6. CASE hole.to <= b
  <2>1. PICK i \in DOMAIN list : list[i].from = hole.to
    BY <1>1, <1>2, <1>3, <1>6
  <2>2. PICK q \in Int : q = list[i].to /\ hole.to <= q
    <3>1. list[i] \in BareChunks
      OBVIOUS
    <3>2. QED BY <2>1, <3>1, BareIs
  <2>3. PICK stock : stock = Stored[s] /\ stock.from \in Int /\ stock.to \in Int
    BY LoadAssumption
  <2>4. ASSUME NEW a \in Int, w.from <= a, a < w.to PROVE stock.from <= a /\ a < stock.to
    <3>1. a \in BarsOf(w)
      BY <1>2, <2>4 DEF BarsOf
    <3>2. a \in BarsOf(stock)
      BY <2>3, <3>1 DEF InStock
    <3>3. QED BY <2>3, <3>2 DEF BarsOf
  <2>5. SpreadAt(s, hole.to, q)
    BY <2>1, <2>2 DEF Spread
  <2>6. InStore(s, hole.to - 1)
    <3>1. hole.to - 1 \in Int /\ w.from <= hole.to - 1 /\ hole.to - 1 < w.to
      BY <1>1, <1>2
    <3>2. QED BY <2>3, <2>4, <3>1 DEF InStore
  <2>7. CASE q - hole.to >= Span
    <3>1. b < q
      BY <1>1, <1>2, <1>3, <2>2, <2>7
    <3>2. QED BY <1>3, <1>6, <2>1, <2>2, <3>1 DEF In
  <2>8. CASE ~InStore(s, q)
    <3>1. b < q
      <4>1. stock.from <= b /\ b < stock.to
        BY <1>3, <2>4
      <4>2. stock.from <= hole.to - 1
        BY <2>3, <2>6 DEF InStore
      <4>3. stock.to <= q
        BY <1>1, <2>2, <2>3, <2>8, <4>2 DEF InStore
      <4>4. QED BY <1>3, <2>2, <2>3, <4>1, <4>3
    <3>2. QED BY <1>3, <1>6, <2>1, <2>2, <3>1 DEF In
  <2>9. QED BY <2>5, <2>6, <2>7, <2>8 DEF SpreadAt
<1>7. QED BY <1>1, <1>3, <1>4, <1>5, <1>6

\* A focus window left of all there is lies in the hole of what contains it.
LEMMA RightFills ==
  ASSUME NEW list \in Seq(BareChunks), NEW v \in AnyWindows, AllRight(list, v),
         NEW w \in AnyWindows, Inside(v, w), NEW hole, HoleAt(list, w, hole)
  PROVE  Fills(list, v, hole)
<1>1. /\ hole.from \in Int /\ hole.to \in Int
      /\ w.from <= hole.from /\ hole.from < hole.to /\ hole.to <= w.to
      /\ \A b \in w.from .. (hole.from - 1) : In(list, b)
      /\ hole.to = w.to \/ \E i \in DOMAIN list : list[i].from = hole.to
  BY DEF HoleAt
<1>2. /\ v.from \in Int /\ v.to \in Int /\ w.from \in Int /\ w.to \in Int
      /\ w.from <= v.from /\ v.to <= w.to
  BY DEF AnyWindows, Inside
<1> SUFFICES ASSUME NEW b \in BarsOf(v) PROVE b \in BarsOf(hole)
  BY DEF Fills
<1>3. b \in Int /\ v.from <= b /\ b < v.to
  BY <1>2 DEF BarsOf
<1>4. ASSUME NEW a \in Int, a <= v.to, In(list, a) PROVE FALSE
  <2>1. PICK i \in DOMAIN list : list[i].from <= a
    BY <1>4 DEF In
  <2>2. v.to < list[i].from /\ list[i].from \in Int
    BY BareIs DEF AllRight
  <2>3. QED BY <1>2, <1>4, <2>1, <2>2
<1>5. hole.from <= b
  <2> SUFFICES ASSUME b < hole.from PROVE FALSE
    BY <1>1, <1>3
  <2>1. b \in w.from .. (hole.from - 1) /\ b <= v.to
    BY <1>1, <1>2, <1>3
  <2>2. QED BY <1>1, <1>3, <1>4, <2>1
<1>6. v.to <= hole.to
  <2>1. CASE hole.to = w.to
    BY <1>2, <2>1
  <2>2. CASE \E i \in DOMAIN list : list[i].from = hole.to
    <3>1. PICK i \in DOMAIN list : list[i].from = hole.to
      BY <2>2
    <3>2. v.to < hole.to
      BY <3>1 DEF AllRight
    <3>3. QED BY <1>1, <1>2, <3>2
  <2>3. QED BY <1>1, <2>1, <2>2
<1>7. QED BY <1>1, <1>2, <1>3, <1>5, <1>6 DEF BarsOf

(* ---- stores and cycles -------------------------------------------------- *)
\* What a window and the hole had between them is there, or lost.
HoldsAt(old, new, s, hole) ==
  \A v \in AnyWindows :
    v.from < v.to /\ Fills(old[s], v, hole) => HasIn(new, s, v) \/ Lost(new[s], s, v)

LEMMA MergedFits ==
  ASSUME StoreSound(cache), StoreWide(cache), NEW s \in Series, NEW w \in AnyWindows,
         w.to - w.from >= Span, ~HasIn(cache, s, w),
         NEW hole, hole = MissingRange(Bounds(cache[s]), w),
         NEW store, store = Merged(s, hole)
  PROVE  StoreWide(store) /\ HoldsAt(cache, store, s, hole)
<1>1. PICK list : list = cache[s]
  OBVIOUS
<1>2. list \in Seq(BareChunks) /\ Apart(list) /\ DOMAIN cache = Series
  BY <1>1 DEF StoreSound, ListSound
<1>3. HoleAt(list, w, hole)
  BY <1>1, MissingTyped
<1>4. w \in Stretches
  BY DEF AnyWindows, Stretches
<1>5. hole.from \in Int /\ hole.to \in Int /\ hole.from < hole.to
  BY <1>3 DEF HoleAt
<1>6. PICK got : got = Answered(s, hole)
  OBVIOUS
<1>7. AnswerOf(s, hole, got)
  BY <1>5, <1>6, AnswerIs
<1>8. PICK c : c = Chunk(got.from, got.to, <<>>)
  OBVIOUS
<1>9. c \in BareChunks /\ c.from = got.from /\ c.to = got.to
  BY <1>7, <1>8, BareAnswer DEF AnswerOf
<1>10. AnswerOf(s, hole, c)
  BY <1>7, <1>9 DEF AnswerOf
<1>11. PICK new : new = MergedChunks(list, c, ChunkCap)
  OBVIOUS
<1>12. store = [cache EXCEPT ![s] = new]
  BY <1>1, <1>6, <1>8, <1>11 DEF Merged
<1>13. store[s] = new /\ \A x \in Series \ {s} : store[x] = cache[x]
  BY <1>2, <1>12
<1>14. GrewAt(cache, store, s, w)
  BY MergedSound
<1>15. StoreSound(store)
  BY <1>14 DEF GrewAt
<1>16. Spread(list, s)
  BY <1>1 DEF StoreWide
<1>17. Spread(new, s)
  BY <1>2, <1>3, <1>4, <1>9, <1>10, <1>11, <1>16, MergeWide
<1>18. StoreWide(store)
  BY <1>13, <1>17 DEF StoreWide
<1>19. ASSUME NEW v \in AnyWindows, v.from < v.to, Fills(list, v, hole)
       PROVE  HasIn(store, s, v) \/ Lost(new, s, v)
  <2>1. CASE ~InStock(s, v)
    BY <2>1 DEF Lost
  <2>2. CASE InStock(s, v)
    <3>1. Fills(list, v, Answered(s, hole))
      BY <1>5, <1>19, <2>2, StockFills
    <3>2. Fills(list, v, got)
      BY <1>6, <3>1
    <3>3. Fills(list, v, c)
      BY <1>9, <3>2 DEF Fills, BarsOf
    <3>4. (\A b \in BarsOf(v) : In(new, b)) \/ CutOff(new, v)
      BY <1>2, <1>9, <1>11, <1>19, <3>3, MergeHolds
    <3>5. QED BY <1>13, <1>15, <3>4, HasIs DEF Lost
  <2>3. QED BY <2>1, <2>2
<1>20. HoldsAt(cache, store, s, hole)
  BY <1>1, <1>13, <1>19 DEF HoldsAt
<1>21. QED BY <1>18, <1>20

\* What is there the server has.
LEMMA HasInStock ==
  ASSUME NEW store, StoreSound(store), NEW s \in Series, NEW w \in AnyWindows, HasIn(store, s, w)
  PROVE  InStock(s, w)
<1>1. \A b \in BarsOf(w) : In(store[s], b)
  BY HasIs
<1>2. Stocked(store[s], s)
  BY DEF StoreSound
<1>3. \A b \in BarsOf(w) : b \in Int
  BY DEF AnyWindows, BarsOf
<1>4. PICK stock : stock = Stored[s] /\ stock.from \in Int /\ stock.to \in Int
  BY LoadAssumption
<1>5. \A b \in BarsOf(w) : b \in BarsOf(Stored[s])
  BY <1>1, <1>2, <1>3, <1>4 DEF Stocked, BarsOf
<1>6. QED BY <1>5 DEF InStock

LEMMA WideIs ==
  ASSUME NEW w \in AnyWindows, Wide(w)
  PROVE  /\ w.from < w.to /\ w # NoHole
         /\ \A v \in AnyWindows : Inside(w, v) => v.to - v.from >= Span
<1>1. Span \in Int /\ Span > 0
  BY LoadAssumption
<1>2. w.from \in Int /\ w.to \in Int
  BY DEF AnyWindows
<1>3. w.from < w.to
  BY <1>1, <1>2 DEF Wide
<1>4. w # NoHole
  BY <1>3 DEF NoHole, Window
<1>5. ASSUME NEW v \in AnyWindows, Inside(w, v) PROVE v.to - v.from >= Span
  <2>1. v.from \in Int /\ v.to \in Int
    BY DEF AnyWindows
  <2>2. QED BY <1>1, <1>2, <1>5, <2>1 DEF Wide, Inside
<1>6. QED BY <1>3, <1>4, <1>5

\* No cycle is Nothing.
LEMMA CycleIsOne ==
  ASSUME NEW c, CycleTyped(c)
  PROVE  c # Nothing
<1>1. PICK S : S = DOMAIN c.overlays
  OBVIOUS
<1>2. c.view \in RunViews
  BY DEF CycleTyped
<1>3. S \in SUBSET Series
  BY <1>1, <1>2, SeriesAre DEF CycleTyped
<1>4. c.overlays \in [S -> AnyWindows]
  BY <1>1 DEF CycleTyped
<1>5. c.overlays \in UNION {[T -> AnyWindows] : T \in SUBSET Series}
  BY <1>3, <1>4
<1>6. c \in LoadCycles
  BY <1>5 DEF CycleTyped, LoadCycles
<1>7. QED BY <1>6, LoadAssumption

\* The stage of the overlays asks for those that are not there.
StageIs(c, store, v, focus, coverage) ==
  /\ c # Nothing => /\ c.focus = focus /\ c.coverage = coverage /\ c.failed = FALSE
                    /\ c.candles = NoHole /\ CycleFits(c, store)
  /\ \A s \in Overlays[v] :
       HasIn(store, s, coverage) \/ (c # Nothing /\ s \in DOMAIN c.overlays)

LEMMA StageFits ==
  ASSUME NEW store, StoreSound(store), StoreWide(store), NEW v \in RunViews,
         NEW focus \in AnyWindows, NEW coverage \in AnyWindows, Inside(focus, coverage),
         Wide(focus), NEW c, c = OverlayStage(store, v, focus, coverage)
  PROVE  StageIs(c, store, v, focus, coverage)
<1>1. PICK S : S = {x \in Overlays[v] : ~HasIn(store, x, coverage)}
  OBVIOUS
<1>2. PICK plan : plan = [s \in S |-> MissingRange(Bounds(store[s]), coverage)]
  OBVIOUS
<1>3. OverlayPlan(store, v, coverage) = plan /\ DOMAIN plan = S
  BY <1>1, <1>2 DEF OverlayPlan
<1>4. CASE S = {}
  <2>1. c = Nothing
    BY <1>3, <1>4 DEF OverlayStage
  <2>2. \A s \in Overlays[v] : HasIn(store, s, coverage)
    BY <1>1, <1>4
  <2>3. QED BY <2>1, <2>2 DEF StageIs
<1>5. CASE S # {}
  <2>1. c = [view |-> v, focus |-> focus, coverage |-> coverage,
             candles |-> NoHole, overlays |-> plan, failed |-> FALSE]
    BY <1>3, <1>5 DEF OverlayStage
  <2>2. /\ c.view = v /\ c.focus = focus /\ c.coverage = coverage /\ c.failed = FALSE
        /\ c.candles = NoHole /\ c.overlays = plan
    BY <2>1
  <2>3. ASSUME NEW s \in S PROVE plan[s] \in AnyWindows /\ (coverage = focus => FillsStock(store[s], s, focus, plan[s]))
    <3>1. s \in Series /\ s \in Overlays[v] /\ ~HasIn(store, s, coverage)
      BY <1>1, SeriesAre
    <3>2. PICK hole : hole = MissingRange(Bounds(store[s]), coverage)
      OBVIOUS
    <3>3. hole \in AnyWindows /\ HoleAt(store[s], coverage, hole)
      BY <3>1, <3>2, MissingTyped
    <3>4. PICK list : list = store[s]
      OBVIOUS
    <3>5. list \in Seq(BareChunks) /\ Spread(list, s)
      BY <3>1, <3>4 DEF StoreSound, ListSound, StoreWide
    <3>6. coverage = focus => FillsStock(list, s, focus, hole)
      BY <3>1, <3>3, <3>4, <3>5, FocusFills DEF FillsStock
    <3>7. plan[s] = hole
      BY <1>2, <3>2
    <3>8. QED BY <3>3, <3>4, <3>6, <3>7
  <2>4. c \in LoadCycles
    <3>1. S \in SUBSET Series
      BY <1>1, SeriesAre
    <3>2. plan \in [S -> AnyWindows]
      BY <1>2, <2>3
    <3>3. NoHole \in AnyWindows
      BY DEF NoHole, Window, AnyWindows
    <3>4. QED BY <2>1, <3>1, <3>2, <3>3 DEF LoadCycles
  <2>5. c # Nothing
    BY <2>4, LoadAssumption
  <2>6. CycleFits(c, store)
    BY <1>3, <2>2, <2>3 DEF CycleFits
  <2>7. \A s \in Overlays[v] : HasIn(store, s, coverage) \/ s \in DOMAIN c.overlays
    BY <1>1, <1>3, <2>2
  <2>8. QED BY <2>2, <2>5, <2>6, <2>7 DEF StageIs
<1>6. QED BY <1>4, <1>5

\* A cycle that begins asks for what the focus window lacks.
BegunIs(c) ==
  /\ c # Nothing => /\ c.view = shown.view /\ c.focus = shown.focus
                    /\ c.coverage = shown.coverage /\ c.failed = FALSE
                    /\ CycleFits(c, cache)
  /\ \/ c # Nothing /\ c.candles # NoHole
     \/ /\ HasIn(cache, Candles[shown.view], shown.coverage)
        /\ \A s \in Overlays[shown.view] :
             HasIn(cache, s, shown.coverage) \/ (c # Nothing /\ s \in DOMAIN c.overlays)

LEMMA BegunFits ==
  ASSUME StoreSound(cache), StoreWide(cache), shown.view \in RunViews, shown.focus \in AnyWindows,
         shown.coverage \in AnyWindows, Inside(shown.focus, shown.coverage), Wide(shown.focus),
         \/ ~InStock(Candles[shown.view], shown.focus)
         \/ shown.coverage = shown.focus \/ HasIn(cache, Candles[shown.view], shown.focus)
         \/ AllRight(cache[Candles[shown.view]], shown.focus),
         NEW c, c = Begun
  PROVE  BegunIs(c)
<1>1. PICK v \in RunViews : v = shown.view
  OBVIOUS
<1>2. PICK focus \in AnyWindows : focus = shown.focus
  OBVIOUS
<1>3. PICK coverage \in AnyWindows : coverage = shown.coverage
  OBVIOUS
<1>4. PICK s \in Series : s = Candles[v]
  BY SeriesAre
<1>5. PICK hole : hole = MissingRange(Bounds(cache[s]), coverage)
  OBVIOUS
<1>6. hole = CandlesHole(shown.view, shown.coverage)
  BY <1>1, <1>3, <1>4, <1>5 DEF CandlesHole
<1>7. /\ hole \in AnyWindows
      /\ hole # NoHole <=> ~HasIn(cache, s, coverage)
      /\ ~HasIn(cache, s, coverage) => HoleAt(cache[s], coverage, hole)
  BY <1>5, MissingTyped
<1>8. Inside(focus, coverage) /\ Wide(focus)
  BY <1>2, <1>3
<1>9. CASE hole = NoHole
  <2>1. c = OverlayStage(cache, v, focus, coverage)
    BY <1>1, <1>2, <1>3, <1>6, <1>9 DEF Begun
  <2>2. StageIs(c, cache, v, focus, coverage)
    BY <1>8, <2>1, StageFits
  <2>3. HasIn(cache, s, coverage)
    BY <1>7, <1>9
  <2>4. c # Nothing => c.view = v
    BY <1>8, <2>1, StageSound DEF CycleFor
  <2>5. QED BY <1>1, <1>2, <1>3, <1>4, <2>2, <2>3, <2>4 DEF BegunIs, StageIs
<1>10. CASE hole # NoHole
  <2>1. PICK plan : plan = <<>>
    OBVIOUS
  <2>2. plan = [b \in DOMAIN plan |-> plan[b]] /\ DOMAIN plan = {}
    BY <2>1
  <2>3. PICK S \in SUBSET Series : S = {}
    BY {} \in SUBSET Series
  <2>4. plan \in [S -> AnyWindows]
    BY <2>2, <2>3
  <2>5. c = [view |-> v, focus |-> focus, coverage |-> coverage,
             candles |-> hole, overlays |-> plan, failed |-> FALSE]
    BY <1>1, <1>2, <1>3, <1>6, <1>10, <2>1 DEF Begun
  <2>6. c \in LoadCycles
    <3>1. plan \in UNION {[T -> AnyWindows] : T \in SUBSET Series}
      BY <2>3, <2>4
    <3>2. QED BY <1>7, <2>5, <3>1 DEF LoadCycles
  <2>7. c # Nothing
    BY <2>6, LoadAssumption
  <2>8. /\ c.view = v /\ c.focus = focus /\ c.coverage = coverage /\ c.failed = FALSE
        /\ c.candles = hole /\ DOMAIN c.overlays = {}
    BY <2>2, <2>5
  <2>9. PICK list : list = cache[s]
    OBVIOUS
  <2>10. /\ list \in Seq(BareChunks) /\ Apart(list) /\ Spread(list, s)
         /\ HoleAt(list, coverage, hole)
    BY <1>7, <1>10, <2>9 DEF StoreSound, ListSound, StoreWide
  <2>11. FillsStock(list, s, focus, hole)
    <3> SUFFICES ASSUME InStock(s, focus) PROVE Fills(list, focus, hole)
      BY DEF FillsStock
    <3>1. CASE coverage = focus
      BY <1>8, <2>10, <3>1, FocusFills
    <3>2. CASE HasIn(cache, s, focus)
      BY <2>9, <3>2, HasIs DEF Fills
    <3>3. CASE AllRight(list, focus)
      BY <1>8, <2>10, <3>3, RightFills
    <3>4. QED BY <1>1, <1>2, <1>3, <1>4, <2>9, <3>1, <3>2, <3>3
  <2>12. CycleFits(c, cache)
    BY <1>4, <1>8, <2>8, <2>9, <2>11 DEF CycleFits
  <2>13. QED BY <1>1, <1>2, <1>3, <1>10, <2>7, <2>8, <2>12 DEF BegunIs
<1>11. QED BY <1>9, <1>10

(* ---- the invariant at rest ---------------------------------------------- *)
LEMMA MarkedIs ==
  ASSUME NEW c \in Controls, NEW store, NEW v, NEW focus, NEW new, new = Marked(c, store, v, focus)
  PROVE  /\ new = c \/ (new.status = "ready" /\ new.ready = Key(v, focus))
         /\ c.status # "error" => new.status # "error"
         /\ HasIn(store, Candles[v], focus) => new.ready = Key(v, focus)
BY DEF Marked, Controls

\* The frame of the steps that leave cycle, store and windows alone.
LEMMA FrameRests ==
  ASSUME QuietInv, UNCHANGED <<shown, owner, ran, load, stale, cache>>, Arriving',
         ctl'.status = ctl.status, ctl'.ready = ctl.ready \/ ctl'.ready = Nothing
  PROVE  QuietInv'
<1>1. /\ FocusSound /\ StoreWide(cache) /\ ReadyTold /\ StaleTold
      /\ LoadFits /\ LoadShown /\ PannedSound /\ CandlesDue /\ OverlaysDue
  BY DEF QuietInv
<1>2. FocusSound' /\ StoreWide(cache)' /\ ReadyTold' /\ StaleTold'
  BY <1>1 DEF FocusSound, ReadyTold, StaleTold, Key
<1>3. LoadFits' /\ LoadShown'
  BY <1>1 DEF LoadFits, LoadShown, EffectKey
<1>4. PannedSound'
  BY <1>1 DEF PannedSound
<1>5. CandlesDue' /\ OverlaysDue'
  BY <1>1 DEF CandlesDue, OverlaysDue, OverlayDue, EffectKey
<1>6. QED BY <1>2, <1>3, <1>4, <1>5 DEF QuietInv

LEMMA QuietStarts == LoadInit => QuietInv
<1> SUFFICES ASSUME LoadInit PROVE QuietInv
  OBVIOUS
<1>1. /\ wanted.view \in RunViews /\ shown.view = Nothing /\ owner.target = Nothing
      /\ ctl.ready = Nothing /\ load = Nothing /\ stale = Nothing
  BY DEF LoadInit, NothingShown, FreshOwner, FreshControl
<1>2. Arriving /\ FocusSound /\ ReadyTold /\ StaleTold
  BY <1>1, LoadAssumption DEF Arriving, FocusSound, ReadyTold, StaleTold
<1>3. StoreWide(cache)
  BY DEF LoadInit, StoreWide, Spread
<1>4. LoadFits /\ LoadShown /\ PannedSound /\ CandlesDue /\ OverlaysDue
  BY <1>1 DEF LoadFits, LoadShown, PannedSound, CandlesDue, OverlaysDue
<1>5. QED BY <1>2, <1>3, <1>4 DEF QuietInv

LEMMA SelectionRests ==
  ASSUME LoadInv, QuietInv, SelectTrade \/ SelectVariant \/ ReportArrives PROVE QuietInv'
<1>1. UNCHANGED <<shown, owner, ctl, ran, load, stale, cache>>
  BY DEF SelectTrade, SelectVariant, ReportArrives
<1>2. Arriving'
  <2>1. CASE SelectTrade
    <3>1. wanted.view # Nothing
      BY <2>1 DEF SelectTrade
    <3>2. wanted'.view = wanted.view
      BY <2>1 DEF SelectTrade, LoadInv, Selected
    <3>3. QED BY <3>1, <3>2 DEF Arriving
  <2>2. CASE SelectVariant
    BY <2>2, LoadAssumption DEF SelectVariant, Arriving
  <2>3. CASE ReportArrives
    <3>1. coming # Nothing /\ wanted'.view = coming
      BY <2>3 DEF ReportArrives
    <3>2. QED BY <3>1 DEF Arriving
  <2>4. QED BY <2>1, <2>2, <2>3
<1>3. QED BY <1>1, <1>2, FrameRests

LEMMA SelectRunRests == ASSUME LoadInv, QuietInv, SelectRun PROVE QuietInv'
<1>1. /\ \E v \in RunViews : coming' = v
      /\ stale = Nothing /\ stale' = stale /\ cache' = cache
      /\ owner' = FreshOwner /\ ctl' = FreshControl /\ shown' = NothingShown /\ load' = Nothing
  BY DEF SelectRun, Move
<1>2. shown'.view = Nothing /\ owner'.target = Nothing /\ ctl'.ready = Nothing
  BY <1>1 DEF NothingShown, FreshOwner, FreshControl
<1>3. Arriving' /\ FocusSound' /\ ReadyTold' /\ StaleTold'
  BY <1>1, <1>2, LoadAssumption DEF Arriving, FocusSound, ReadyTold, StaleTold
<1>4. StoreWide(cache)'
  BY <1>1 DEF QuietInv
<1>5. LoadFits' /\ LoadShown' /\ PannedSound' /\ CandlesDue' /\ OverlaysDue'
  BY <1>1, <1>2 DEF LoadFits, LoadShown, PannedSound, CandlesDue, OverlaysDue
<1>6. QED BY <1>3, <1>4, <1>5 DEF QuietInv

LEMMA PanRests == ASSUME LoadInv, QuietInv, PanPrefetch PROVE QuietInv'
<1>1. /\ FocusSound /\ StoreWide(cache) /\ ReadyTold /\ StaleTold /\ Arriving
      /\ LoadFits /\ LoadShown /\ CandlesDue /\ OverlaysDue
  BY DEF QuietInv
<1>2. UNCHANGED <<wanted, coming, shown, ran, load, stale, cache>> /\ Displayed # NoHole
  BY DEF PanPrefetch
<1>3. shown.view \in RunViews /\ HasIn(cache, Candles[shown.view], shown.focus)
  BY <1>2, DisplayedIs
<1>4. ctl' = ctl \/ ctl' = [ctl EXCEPT !.ready = Nothing]
  BY DEF PanPrefetch
<1>5. ctl'.status = ctl.status /\ (ctl'.ready = ctl.ready \/ ctl'.ready = Nothing)
  BY <1>4 DEF LoadInv, Told, Controls
<1>6. FocusSound' /\ StoreWide(cache)' /\ ReadyTold' /\ StaleTold' /\ Arriving'
  <2>1. shown.view # Nothing
    BY <1>3, LoadAssumption
  <2>2. QED BY <1>1, <1>2, <1>5, <2>1 DEF FocusSound, ReadyTold, StaleTold, Arriving, Key
<1>7. LoadFits' /\ LoadShown'
  BY <1>1, <1>2, <1>5 DEF LoadFits, LoadShown, EffectKey
<1>8. PannedSound'
  BY <1>2, <1>3 DEF PannedSound
<1>9. CandlesDue' /\ OverlaysDue'
  BY <1>1, <1>2, <1>5 DEF CandlesDue, OverlaysDue, OverlayDue, EffectKey
<1>10. QED BY <1>6, <1>7, <1>8, <1>9 DEF QuietInv

\* Windows that are rendered anew make the effect due.
LEMMA RenderMoves ==
  ASSUME WideReports, LoadInv, QuietInv, Render
  PROVE  /\ shown'.view \in RunViews /\ Wide(shown'.focus) /\ ran' # EffectKey'
         /\ shown'.focus = NextShown.focus /\ shown'.view = NextShown.view
<1>1. Selected /\ Framed /\ FocusSound
  BY DEF LoadInv, QuietInv
<1>2. RenderPending /\ shown' = NextShown /\ ran' = ran /\ ran = EffectKey
  BY DEF Render, EffectPending
<1>3. PICK v \in RunViews : v = wanted.view
  BY <1>1, <1>2 DEF Selected, RenderPending
<1>4. PICK trade \in Entries \cup {Nothing} : trade = wanted.trade
  BY <1>1 DEF Selected
<1>5. PICK focus \in AnyWindows : focus = Focus(v, trade)
  BY FocusTyped
<1>6. Wide(focus)
  BY <1>5, FocusIsWide
<1>7. PICK coverage : coverage = IF FocusMoved \/ owner.target = Nothing THEN focus ELSE owner.target
  OBVIOUS
<1>8. shown' = [view |-> v, focus |-> focus, coverage |-> coverage]
  BY <1>2, <1>3, <1>4, <1>5, <1>7 DEF NextShown
<1>9. shown'.view = v /\ shown'.focus = focus /\ shown'.coverage = coverage
  BY <1>8
<1>10. FocusMoved <=> owner.reset # Key(v, focus)
  BY <1>3, <1>4, <1>5 DEF FocusMoved
<1>11. ASSUME ran' = EffectKey' PROVE FALSE
  <2>1. v = shown.view /\ coverage = shown.coverage
    BY <1>2, <1>9, <1>11 DEF EffectKey
  <2>2. shown \in [view : RunViews \cup {Nothing}, focus : AnyWindows, coverage : AnyWindows]
    BY <1>1 DEF Framed
  <2>3. focus # shown.focus
    <3>1. shown' # shown
      BY <1>2 DEF RenderPending
    <3>2. QED BY <1>8, <2>1, <2>2, <3>1
  <2>4. owner.reset = Key(shown.view, shown.focus) /\ Inside(shown.focus, shown.coverage)
    BY <1>1, <2>1, LoadAssumption DEF Framed, ShownSound
  <2>5. FocusMoved
    BY <1>10, <2>3, <2>4 DEF Key
  <2>6. Inside(shown.focus, focus)
    BY <1>7, <2>1, <2>4, <2>5
  <2>7. Wide(shown.focus)
    BY <1>1, <2>1, LoadAssumption DEF FocusSound
  <2>8. shown.focus = focus
    <3>1. PICK old \in AnyWindows : old = shown.focus
      BY <2>2
    <3>2. old.from \in Int /\ old.to \in Int /\ focus.from \in Int /\ focus.to \in Int /\ Span \in Int
      BY LoadAssumption DEF AnyWindows
    <3>3. old.to - old.from = focus.to - focus.from /\ focus.from <= old.from /\ old.to <= focus.to
      BY <1>6, <2>6, <2>7, <3>1 DEF Wide, Inside
    <3>4. old.from = focus.from /\ old.to = focus.to
      BY <3>2, <3>3
    <3>5. QED BY <3>1, <3>4 DEF AnyWindows
  <2>9. QED BY <2>3, <2>8
<1>12. QED BY <1>2, <1>6, <1>9, <1>11

LEMMA RenderRests == ASSUME WideReports, LoadInv, QuietInv, Render PROVE QuietInv'
<1>1. /\ FocusSound /\ StoreWide(cache) /\ ReadyTold /\ StaleTold /\ Arriving
      /\ LoadFits /\ PannedSound /\ Framed
  BY DEF QuietInv, LoadInv
<1>2. /\ stale = Nothing /\ shown' = NextShown
      /\ UNCHANGED <<wanted, coming, ran, load, stale, cache>>
  BY DEF Render
<1>3. /\ shown'.view \in RunViews /\ Wide(shown'.focus) /\ ran' # EffectKey'
      /\ shown'.focus = NextShown.focus /\ shown'.view = NextShown.view
  BY RenderMoves
<1>4. shown'.view # Nothing
  BY <1>3, LoadAssumption
<1>5. Arriving' /\ FocusSound' /\ StoreWide(cache)' /\ StaleTold'
  BY <1>1, <1>2, <1>3, <1>4 DEF Arriving, FocusSound, StaleTold
<1>6. LoadFits' /\ LoadShown' /\ CandlesDue' /\ OverlaysDue'
  BY <1>1, <1>2, <1>3 DEF LoadFits, LoadShown, CandlesDue, OverlaysDue
<1>7. CASE FocusMoved
  <2>1. ctl'.ready = Nothing
    BY <1>7 DEF Render, LoadInv, Told, Controls
  <2>2. owner' = [FreshOwner EXCEPT !.reset = Key(NextShown.view, NextShown.focus)]
    BY <1>7 DEF Render
  <2>3. owner'.target = Nothing
    BY <2>2 DEF FreshOwner
  <2>4. shown'.coverage = shown'.focus
    BY <1>2, <1>7 DEF NextShown
  <2>5. ReadyTold' /\ PannedSound'
    BY <2>1, <2>3, <2>4 DEF ReadyTold, PannedSound
  <2>6. QED BY <1>5, <1>6, <2>5 DEF QuietInv
<1>8. CASE ~FocusMoved
  <2>1. owner' = owner /\ ctl' = ctl
    BY <1>8 DEF Render
  <2>2. owner.reset = Key(shown'.view, shown'.focus)
    BY <1>2, <1>8 DEF FocusMoved, NextShown
  <2>3. shown'.coverage = IF owner.target = Nothing THEN shown'.focus ELSE owner.target
    BY <1>2, <1>8 DEF NextShown
  <2>4. CASE shown.view = Nothing
    <3>1. owner.target = Nothing /\ ctl.ready = Nothing
      BY <1>1, <2>4 DEF FocusSound
    <3>2. ReadyTold' /\ PannedSound'
      BY <2>1, <2>3, <3>1 DEF ReadyTold, PannedSound
    <3>3. QED BY <1>5, <1>6, <3>2 DEF QuietInv
  <2>5. CASE shown.view # Nothing
    <3>1. owner.reset = Key(shown.view, shown.focus)
      BY <1>1, <2>5 DEF Framed, ShownSound
    <3>2. shown'.view = shown.view /\ shown'.focus = shown.focus
      BY <2>2, <3>1 DEF Key
    <3>3. ReadyTold'
      BY <1>1, <2>1, <3>2 DEF ReadyTold, Key
    <3>4. PannedSound'
      <4>1. SUFFICES ASSUME owner.target # Nothing PROVE PannedSound'
        BY <2>1, <2>3 DEF PannedSound
      <4>2. \/ ~InStock(Candles[shown.view], shown.focus)
            \/ HasIn(cache, Candles[shown.view], shown.focus)
            \/ /\ AllRight(cache[Candles[shown.view]], shown.focus)
               /\ load # Nothing /\ load.candles # NoHole =>
                    load.view = shown.view /\ load.focus = shown.focus
        BY <1>1, <2>5, <4>1 DEF PannedSound
      <4>3. QED BY <1>2, <3>2, <4>2 DEF PannedSound
    <3>5. QED BY <1>5, <1>6, <3>3, <3>4 DEF QuietInv
  <2>6. QED BY <2>4, <2>5
<1>9. QED BY <1>7, <1>8

LEMMA RunEffectRests == ASSUME LoadInv, QuietInv, RunLoadEffect PROVE QuietInv'
<1>1. /\ FocusSound /\ StoreWide(cache) /\ ReadyTold /\ StaleTold /\ Arriving
      /\ LoadFits /\ LoadShown /\ PannedSound /\ Framed /\ Told /\ Loading /\ StoreSound(cache)
  BY DEF QuietInv, LoadInv
<1>2. /\ EffectPending /\ ran' = EffectKey /\ load' = Begun /\ ctl' = ControlAtStart
      /\ stale' = (IF load = Nothing \/ load.failed THEN Nothing ELSE load)
      /\ UNCHANGED <<wanted, coming, shown, owner, cache>>
  BY DEF RunLoadEffect
<1>3. ShownSound
  BY <1>1 DEF Framed
<1>4. shown.view # Nothing
  BY <1>2, <1>3 DEF ShownSound, EffectPending
<1>5. PICK v \in RunViews : v = shown.view
  BY <1>1, <1>4 DEF Framed
<1>6. PICK focus \in AnyWindows : focus = shown.focus
  BY <1>1 DEF Framed
<1>7. PICK coverage \in AnyWindows : coverage = shown.coverage
  BY <1>1 DEF Framed
<1>8. Inside(focus, coverage) /\ Wide(focus)
  BY <1>1, <1>3, <1>4, <1>6, <1>7 DEF ShownSound, FocusSound
<1>9. ran' = EffectKey'
  BY <1>2 DEF EffectKey
<1>10. PICK c : c = Begun
  OBVIOUS
<1>11. BegunIs(c)
  <2>1. \/ ~InStock(Candles[shown.view], shown.focus)
        \/ shown.coverage = shown.focus \/ HasIn(cache, Candles[shown.view], shown.focus)
        \/ AllRight(cache[Candles[shown.view]], shown.focus)
    BY <1>1, <1>4 DEF PannedSound
  <2>2. shown.view \in RunViews /\ shown.focus \in AnyWindows /\ shown.coverage \in AnyWindows
        /\ Inside(shown.focus, shown.coverage) /\ Wide(shown.focus)
    BY <1>5, <1>6, <1>7, <1>8
  <2>3. QED BY <1>1, <1>10, <2>1, <2>2, BegunFits
<1>12. load' = c
  BY <1>2, <1>10
<1>13. Candles[v] \in Series /\ \A s \in Overlays[v] : s \in Series
  BY SeriesAre
\* What the chart is told.
<1>14. PICK new : new = ctl'
  OBVIOUS
<1>15. IF HasIn(cache, Candles[v], focus) THEN new.status = "ready"
       ELSE new.status = "loading" /\ new.ready # Key(v, focus)
  <2>1. PICK key \in ReadyKeys : key = Key(v, focus)
    BY DEF Key, ReadyKeys
  <2>2. PICK old \in Controls : old = [ctl EXCEPT !.intended = v]
    BY <1>1 DEF Told, Controls
  <2>3. old.ready = ctl.ready /\ old.status = ctl.status
    BY <1>1, <2>2 DEF Told, Controls
  <2>4. new = IF ~HasIn(cache, Candles[v], focus) /\ old.ready # key
              THEN [old EXCEPT !.status = "loading"] ELSE Marked(old, cache, v, focus)
    BY <1>2, <1>5, <1>6, <1>14, <2>1, <2>2 DEF ControlAtStart, Has, HasIn
  <2>5. key # Nothing /\ key.view = v /\ key.focus = focus
    BY <2>1, LoadAssumption DEF Key
  <2>6. CASE HasIn(cache, Candles[v], focus)
    <3>1. new = Marked(old, cache, v, focus)
      BY <2>4, <2>6
    <3>2. CASE old.ready = key
      <4>1. new = old
        BY <2>1, <3>1, <3>2 DEF Marked
      <4>2. ctl.status = "ready"
        BY <1>1, <1>5, <1>6, <2>1, <2>3, <2>5, <3>2 DEF ReadyTold
      <4>3. QED BY <2>3, <2>6, <4>1, <4>2
    <3>3. CASE old.ready # key
      <4>1. new = [old EXCEPT !.ready = key, !.status = "ready"]
        BY <2>1, <2>6, <3>1, <3>3 DEF Marked
      <4>2. new.status = "ready"
        BY <4>1 DEF Controls
      <4>3. QED BY <2>6, <4>2
    <3>4. QED BY <3>2, <3>3
  <2>7. CASE ~HasIn(cache, Candles[v], focus)
    <3>1. old.ready # key
      BY <1>1, <1>4, <1>5, <1>6, <2>1, <2>3, <2>7 DEF Told, ReadySound
    <3>2. new = [old EXCEPT !.status = "loading"]
      BY <2>4, <2>7, <3>1
    <3>3. new.status = "loading" /\ new.ready = old.ready
      BY <3>2 DEF Controls
    <3>4. QED BY <2>1, <2>7, <3>1, <3>3
  <2>8. QED BY <2>6, <2>7
<1>16. new.status \in {"ready", "loading"} /\ new.status # "error"
  BY <1>15
<1>17. Arriving' /\ FocusSound' /\ StoreWide(cache)' /\ StaleTold'
  BY <1>1, <1>2, <1>4, <1>14, <1>16 DEF Arriving, FocusSound, StaleTold
<1>18. ReadyTold'
  <2>1. shown'.view = v /\ shown'.focus = focus
    BY <1>2, <1>5, <1>6
  <2>2. QED BY <1>14, <1>15, <2>1 DEF ReadyTold
<1>19. LoadFits' /\ LoadShown'
  <2>1. LoadFits'
    BY <1>2, <1>11, <1>12 DEF LoadFits, BegunIs
  <2>2. LoadShown'
    BY <1>2, <1>11, <1>12, <1>14, <1>16 DEF LoadShown, BegunIs
  <2>3. QED BY <2>1, <2>2
<1>20. PannedSound'
  BY <1>1, <1>2, <1>11, <1>12 DEF PannedSound, BegunIs
<1>21. CandlesDue'
  <2>1. CASE HasIn(cache, Candles[v], focus)
    BY <1>2, <1>5, <1>6, <1>14, <1>15, <2>1 DEF CandlesDue
  <2>2. CASE ~HasIn(cache, Candles[v], focus)
    <3>1. ~HasIn(cache, Candles[v], coverage)
      BY <1>1, <1>8, <1>13, <2>2, HasLess
    <3>2. c # Nothing /\ c.candles # NoHole
      BY <1>5, <1>7, <1>11, <3>1 DEF BegunIs
    <3>3. QED BY <1>12, <3>2 DEF CandlesDue
  <2>3. QED BY <2>1, <2>2
<1>22. OverlaysDue'
  <2>1. CASE c # Nothing /\ c.candles # NoHole
    BY <1>12, <2>1 DEF OverlaysDue
  <2>2. CASE ~(c # Nothing /\ c.candles # NoHole)
    <3>1. \A s \in Overlays[v] : HasIn(cache, s, coverage) \/ (c # Nothing /\ s \in DOMAIN c.overlays)
      BY <1>5, <1>7, <1>11, <2>2 DEF BegunIs
    <3>2. QED BY <1>2, <1>5, <1>7, <1>12, <3>1 DEF OverlaysDue, OverlayDue
  <2>3. QED BY <2>1, <2>2
<1>23. QED BY <1>17, <1>18, <1>19, <1>20, <1>21, <1>22 DEF QuietInv

LEMMA UnwindRests == ASSUME LoadInv, QuietInv, UnwindLoad PROVE QuietInv'
<1>1. /\ FocusSound /\ StoreWide(cache) /\ ReadyTold /\ StaleTold /\ Arriving
      /\ LoadFits /\ LoadShown /\ PannedSound /\ CandlesDue /\ OverlaysDue /\ Told
  BY DEF QuietInv, LoadInv
<1>2. /\ stale # Nothing /\ stale' = Nothing
      /\ ctl' = (IF ctl.intended = stale.view
                 THEN Marked(ctl, cache, stale.view, stale.focus) ELSE ctl)
      /\ UNCHANGED <<wanted, coming, shown, owner, ran, load, cache>>
  BY DEF UnwindLoad
<1>3. ctl.status # "error" /\ shown.view # Nothing
  BY <1>1, <1>2 DEF StaleTold
<1>4. PICK c \in Controls : c = ctl
  BY <1>1 DEF Told
<1>5. PICK new : new = ctl'
  OBVIOUS
<1>6. PICK marked : marked = Marked(c, cache, stale.view, stale.focus)
  OBVIOUS
<1>7. /\ marked = c \/ marked.status = "ready"
      /\ c.status # "error" => marked.status # "error"
  BY <1>6, MarkedIs
<1>8. new \in {c, marked}
  BY <1>2, <1>4, <1>5, <1>6
<1>9. new.status # "error" /\ (new = ctl \/ new.status = "ready")
  BY <1>3, <1>4, <1>7, <1>8
<1>10. Arriving' /\ FocusSound' /\ StoreWide(cache)' /\ StaleTold'
  BY <1>1, <1>2, <1>3 DEF Arriving, FocusSound, StaleTold
<1>11. ReadyTold'
  BY <1>1, <1>2, <1>5, <1>9 DEF ReadyTold, Key
<1>12. LoadFits' /\ LoadShown' /\ PannedSound'
  BY <1>1, <1>2, <1>3, <1>5, <1>9 DEF LoadFits, LoadShown, PannedSound, EffectKey
<1>13. CandlesDue' /\ OverlaysDue'
  BY <1>1, <1>2, <1>3, <1>5, <1>9 DEF CandlesDue, OverlaysDue, OverlayDue, EffectKey
<1>14. QED BY <1>10, <1>11, <1>12, <1>13 DEF QuietInv

\* What the answer for candles does to the focus windows.
LEMMA CandlesFit ==
  ASSUME LoadInv, QuietInv, AnswerCandles
  PROVE  /\ Wide(load.focus) /\ load.failed = FALSE /\ StoreWide(cache')
         /\ HoldsAt(cache, cache', Candles[load.view], load.candles)
         /\ \/ HasIn(cache', Candles[load.view], load.focus)
            \/ Lost(cache'[Candles[load.view]], Candles[load.view], load.focus)
<1>1. /\ CycleFor(load, ran.view, cache) /\ StoreSound(cache) /\ StoreWide(cache)
      /\ CycleFits(load, cache)
  BY DEF LoadInv, Loading, AnswerCandles, QuietInv, LoadFits
<1>2. /\ load.view \in RunViews /\ load.focus \in AnyWindows /\ load.coverage \in AnyWindows
      /\ load.candles # NoHole /\ Inside(load.focus, load.coverage) /\ load.failed \in BOOLEAN
  BY <1>1 DEF CycleFor, CycleSound, CycleTyped, AnswerCandles
<1>3. PICK s \in Series : s = Candles[load.view]
  BY <1>2, SeriesAre
<1>4. PICK w \in AnyWindows : w = load.coverage
  BY <1>2
<1>5. PICK focus \in AnyWindows : focus = load.focus
  BY <1>2
<1>6. PICK hole : hole = load.candles
  OBVIOUS
<1>7. hole # NoHole /\ hole = MissingRange(Bounds(cache[s]), w)
  BY <1>1, <1>2, <1>3, <1>4, <1>6 DEF CycleFor, CycleSound
<1>8. ~HasIn(cache, s, w)
  BY <1>1, <1>7, MissingTyped
<1>9. Wide(focus) /\ load.failed = FALSE /\ FillsStock(cache[s], s, focus, hole)
  BY <1>1, <1>2, <1>3, <1>5, <1>6 DEF CycleFits
<1>10. w.to - w.from >= Span /\ focus.from < focus.to
  BY <1>2, <1>4, <1>5, <1>9, WideIs
<1>11. PICK store : store = Merged(s, hole)
  OBVIOUS
<1>12. StoreWide(store) /\ HoldsAt(cache, store, s, hole)
  BY <1>1, <1>7, <1>8, <1>10, <1>11, MergedFits
<1>13. HasIn(store, s, focus) \/ Lost(store[s], s, focus)
  <2>1. CASE InStock(s, focus)
    BY <1>9, <1>10, <1>12, <2>1 DEF HoldsAt, FillsStock
  <2>2. QED BY <2>1 DEF Lost
<1>14. cache' = store
  BY <1>3, <1>6, <1>11 DEF AnswerCandles
<1>15. QED BY <1>3, <1>5, <1>6, <1>9, <1>12, <1>13, <1>14

LEMMA CandlesRest == ASSUME LoadInv, QuietInv, AnswerCandles PROVE QuietInv'
<1>1. /\ FocusSound /\ ReadyTold /\ Arriving /\ LoadShown /\ PannedSound
      /\ Framed /\ Told /\ StoreSound(cache)
  BY DEF QuietInv, LoadInv
<1>2. /\ stale = Nothing /\ load # Nothing /\ load.candles # NoHole
      /\ ctl' = Marked(ctl, cache', load.view, load.focus)
      /\ load' = OverlayStage(cache', load.view, load.focus, load.coverage)
      /\ UNCHANGED <<wanted, coming, shown, owner, ran, stale>>
  BY DEF AnswerCandles
<1>3. PICK v \in RunViews : v = load.view
  BY CandlesGrow
<1>4. PICK focus \in AnyWindows : focus = load.focus
  BY CandlesGrow
<1>5. PICK coverage \in AnyWindows : coverage = load.coverage
  BY CandlesGrow
<1>6. PICK store : store = cache'
  OBVIOUS
<1>7. PICK s \in Series : s = Candles[v]
  BY SeriesAre
<1>8. Inside(focus, coverage) /\ GrewAt(cache, store, s, coverage)
  BY <1>3, <1>4, <1>5, <1>6, <1>7, CandlesGrow
<1>9. StoreSound(store)
  BY <1>8 DEF GrewAt
<1>10. PICK hole : hole = load.candles
  OBVIOUS
<1>11. /\ Wide(focus) /\ load.failed = FALSE /\ StoreWide(store) /\ HoldsAt(cache, store, s, hole)
       /\ HasIn(store, s, focus) \/ Lost(store[s], s, focus)
  BY <1>3, <1>4, <1>6, <1>7, <1>10, CandlesFit
<1>12. v = ran.view
  BY <1>2, <1>3 DEF LoadInv, Loading, CycleFor
<1>13. PICK stage : stage = load'
  OBVIOUS
<1>14. StageIs(stage, store, v, focus, coverage)
  <2>1. stage = OverlayStage(store, v, focus, coverage)
    BY <1>2, <1>3, <1>4, <1>5, <1>6, <1>13
  <2>2. QED BY <1>8, <1>9, <1>11, <2>1, StageFits
\* What the chart is told.
<1>15. PICK c \in Controls : c = ctl
  BY <1>1 DEF Told
<1>16. PICK new : new = ctl'
  OBVIOUS
<1>17. new = Marked(c, store, v, focus)
  BY <1>2, <1>3, <1>4, <1>6, <1>15, <1>16
<1>18. /\ new = c \/ (new.status = "ready" /\ new.ready = Key(v, focus))
       /\ c.status # "error" => new.status # "error"
       /\ HasIn(store, Candles[v], focus) => new.ready = Key(v, focus)
  BY <1>17, MarkedIs
<1>19. ASSUME ran = EffectKey
       PROVE  v = shown.view /\ focus = shown.focus /\ coverage = shown.coverage /\ ctl.status # "error"
  <2>1. v = shown.view
    BY <1>12, <1>19 DEF EffectKey
  <2>2. load.focus = shown.focus /\ load.coverage = shown.coverage /\ (load.failed <=> ctl.status = "error")
    BY <1>1, <1>2, <1>19 DEF LoadShown
  <2>3. QED BY <1>4, <1>5, <1>11, <2>1, <2>2
<1>20. shown.view # Nothing
  <2>1. shown.view = Nothing => ran.view = Nothing
    BY <1>1 DEF Framed, ShownSound, EffectKey
  <2>2. QED BY <1>12, <2>1, LoadAssumption
<1>21. Arriving' /\ FocusSound' /\ StoreWide(cache)' /\ StaleTold'
  BY <1>1, <1>2, <1>6, <1>11, <1>20 DEF Arriving, FocusSound, StaleTold
<1>22. ReadyTold'
  BY <1>1, <1>2, <1>15, <1>16, <1>18 DEF ReadyTold, Key
<1>23. LoadFits'
  BY <1>6, <1>13, <1>14 DEF LoadFits, StageIs
<1>24. LoadShown'
  <2>1. SUFFICES ASSUME stage # Nothing, ran = EffectKey
                 PROVE  stage.focus = shown.focus /\ stage.coverage = shown.coverage
                        /\ stage.failed = FALSE /\ new.status # "error"
    BY <1>2, <1>13, <1>16 DEF LoadShown, EffectKey
  <2>2. QED BY <1>14, <1>15, <1>18, <1>19, <2>1 DEF StageIs
<1>25. PannedSound'
  <2>1. PICK x \in Series : x = Candles[shown.view]
    <3>1. shown.view \in RunViews
      BY <1>1, <1>20 DEF Framed
    <3>2. QED BY <3>1, SeriesAre
  <2>2. PICK at \in AnyWindows : at = shown.focus
    BY <1>1 DEF Framed
  <2>3. stage # Nothing => stage.candles = NoHole
    BY <1>14 DEF StageIs
  <2>4. SUFFICES ASSUME owner.target # Nothing \/ shown.coverage # shown.focus
                 PROVE  ~InStock(x, at) \/ HasIn(store, x, at) \/ AllRight(store[x], at)
    BY <1>2, <1>6, <1>13, <2>1, <2>2, <2>3 DEF PannedSound
  <2>5. \/ ~InStock(x, at)
        \/ HasIn(cache, x, at)
        \/ AllRight(cache[x], at) /\ v = shown.view /\ focus = at
    BY <1>1, <1>2, <1>3, <1>4, <1>20, <2>1, <2>2, <2>4 DEF PannedSound
  <2>6. CASE x # s /\ HasIn(cache, x, at)
    BY <1>8, <2>6 DEF GrewAt, HasIn
  <2>7. CASE x = s /\ HasIn(cache, x, at)
    <3>1. Fills(cache[s], at, hole)
      BY <1>1, <2>7, HasIs DEF Fills
    <3>2. at.from < at.to
      BY <1>1, <1>20, <2>2, WideIs DEF FocusSound
    <3>3. HasIn(store, s, at) \/ Lost(store[s], s, at)
      BY <1>11, <3>1, <3>2 DEF HoldsAt
    <3>4. QED BY <2>7, <3>3 DEF Lost, CutOff
  <2>8. CASE v = shown.view /\ focus = at
    BY <1>7, <1>11, <2>1, <2>8 DEF Lost, CutOff
  <2>9. QED BY <2>5, <2>6, <2>7, <2>8
<1>26. CandlesDue'
  <2>1. SUFFICES ASSUME ran = EffectKey
                 PROVE  \/ new.status = "ready" /\ HasIn(store, Candles[shown.view], shown.focus)
                        \/ Lost(store[Candles[shown.view]], Candles[shown.view], shown.focus)
    BY <1>2, <1>6, <1>16 DEF CandlesDue, EffectKey
  <2>2. v = shown.view /\ focus = shown.focus
    BY <1>19, <2>1
  <2>3. CASE HasIn(store, s, focus)
    <3>1. PICK key \in ReadyKeys : key = Key(v, focus)
      BY DEF Key, ReadyKeys
    <3>2. key # Nothing
      BY LoadAssumption
    <3>3. new.ready = key
      BY <1>7, <1>18, <2>3, <3>1
    <3>4. new = c => new.status = "ready"
      BY <1>1, <1>15, <2>2, <3>1, <3>2, <3>3 DEF ReadyTold
    <3>5. new.status = "ready"
      BY <1>18, <3>4
    <3>6. QED BY <1>7, <2>2, <2>3, <3>5
  <2>4. CASE Lost(store[s], s, focus)
    BY <1>7, <2>2, <2>4
  <2>5. QED BY <1>11, <2>3, <2>4
<1>27. OverlaysDue'
  <2>1. SUFFICES ASSUME ran = EffectKey, shown.coverage = shown.focus, NEW x \in Overlays[shown.view]
                 PROVE  HasIn(store, x, shown.focus) \/ (stage # Nothing /\ x \in DOMAIN stage.overlays)
    BY <1>2, <1>6, <1>13 DEF OverlaysDue, OverlayDue, EffectKey
  <2>2. v = shown.view /\ focus = shown.focus /\ coverage = shown.coverage
    BY <1>19, <2>1
  <2>3. QED BY <1>14, <2>1, <2>2 DEF StageIs
<1>28. QED BY <1>21, <1>22, <1>23, <1>24, <1>25, <1>26, <1>27 DEF QuietInv

\* What is left of a cycle without one of its overlays.
LeftOver(rest, s) ==
  /\ rest # Nothing => /\ rest.view = load.view /\ rest.focus = load.focus
                       /\ rest.coverage = load.coverage /\ rest.failed = load.failed
                       /\ rest.candles = NoHole
  /\ \A x \in DOMAIN load.overlays \ {s} :
       rest # Nothing /\ x \in DOMAIN rest.overlays /\ rest.overlays[x] = load.overlays[x]
  /\ rest # Nothing => DOMAIN rest.overlays = DOMAIN load.overlays \ {s}

LEMMA RestIs ==
  ASSUME LoadInv, load # Nothing, NEW s \in DOMAIN load.overlays, NEW rest, rest = Rest(s)
  PROVE  LeftOver(rest, s) /\ load.candles = NoHole
<1>1. CycleTyped(load)
  BY DEF LoadInv, Loading, CycleFor, CycleSound
<1>2. load.candles = NoHole
  BY <1>1 DEF CycleTyped
<1>3. CASE DOMAIN load.overlays = {s}
  BY <1>2, <1>3 DEF Rest, LeftOver
<1>4. CASE DOMAIN load.overlays # {s}
  <2>1. PICK S : S = DOMAIN load.overlays \ {s}
    OBVIOUS
  <2>2. PICK left : left = [x \in S |-> load.overlays[x]]
    OBVIOUS
  <2>3. rest = [load EXCEPT !.overlays = left]
    BY <1>4, <2>1, <2>2 DEF Rest
  <2>4. DOMAIN left = S /\ \A x \in S : left[x] = load.overlays[x]
    BY <2>2
  <2>5. left \in [S -> AnyWindows] /\ S \subseteq Overlays[load.view] /\ S # {}
    BY <1>1, <1>4, <2>1, <2>2 DEF CycleTyped
  <2>6. /\ rest.view = load.view /\ rest.focus = load.focus /\ rest.coverage = load.coverage
        /\ rest.failed = load.failed /\ rest.candles = load.candles /\ rest.overlays = left
    BY <1>1, <2>3 DEF CycleTyped
  <2>7. rest \in [view : RunViews, focus : AnyWindows, coverage : AnyWindows, failed : BOOLEAN,
                  candles : AnyWindows, overlays : [DOMAIN rest.overlays -> AnyWindows]]
    BY <1>1, <2>3, <2>4, <2>5, <2>6 DEF CycleTyped
  <2>8. CycleTyped(rest)
    BY <1>2, <2>4, <2>5, <2>6, <2>7 DEF CycleTyped
  <2>9. rest # Nothing
    BY <2>8, CycleIsOne
  <2>10. QED BY <1>2, <2>1, <2>4, <2>6, <2>9 DEF LeftOver
<1>5. QED BY <1>3, <1>4

LEMMA RestFits ==
  ASSUME LoadInv, QuietInv, load # Nothing, NEW s \in DOMAIN load.overlays,
         NEW store, \A x \in Series \ {s} : store[x] = cache[x],
         NEW rest, rest = Rest(s), rest # Nothing
  PROVE  CycleFits(rest, store)
<1>1. CycleFits(load, cache) /\ CycleTyped(load)
  BY DEF QuietInv, LoadFits, LoadInv, Loading, CycleFor, CycleSound
<1>2. LeftOver(rest, s)
  BY RestIs
<1>3. rest.candles = NoHole /\ rest.focus = load.focus /\ rest.coverage = load.coverage
  BY <1>2 DEF LeftOver
<1>4. ASSUME rest.coverage = rest.focus, NEW x \in DOMAIN rest.overlays
      PROVE  FillsStock(store[x], x, rest.focus, rest.overlays[x])
  <2>1. x \in DOMAIN load.overlays \ {s}
    BY <1>2 DEF LeftOver
  <2>2. rest.overlays[x] = load.overlays[x]
    BY <1>2, <2>1 DEF LeftOver
  <2>3. x \in Series
    BY <1>1, <2>1, SeriesAre DEF CycleTyped
  <2>4. FillsStock(cache[x], x, load.focus, load.overlays[x])
    BY <1>1, <1>3, <1>4, <2>1 DEF CycleFits
  <2>5. store[x] = cache[x]
    BY <2>1, <2>3
  <2>6. QED BY <1>3, <2>2, <2>4, <2>5
<1>5. QED BY <1>1, <1>3, <1>4 DEF CycleFits

\* What the answer for an overlay does to the focus window.
LEMMA OverlayFits ==
  ASSUME LoadInv, QuietInv, load # Nothing, NEW s \in DOMAIN load.overlays,
         NEW store, store = Merged(s, load.overlays[s])
  PROVE  /\ StoreWide(store)
         /\ load.coverage = load.focus =>
              HasIn(store, s, load.focus) \/ Lost(store[s], s, load.focus)
<1>1. CycleFor(load, ran.view, cache) /\ StoreSound(cache) /\ StoreWide(cache) /\ CycleFits(load, cache)
  BY DEF LoadInv, Loading, QuietInv, LoadFits
<1>2. load.view \in RunViews /\ s \in Overlays[load.view]
  BY <1>1 DEF CycleFor, CycleSound, CycleTyped
<1>3. s \in Series
  BY <1>2, SeriesAre
<1>4. PICK w \in AnyWindows : w = load.coverage
  BY <1>1 DEF CycleFor, CycleSound, CycleTyped
<1>5. PICK focus \in AnyWindows : focus = load.focus
  BY <1>1 DEF CycleFor, CycleSound, CycleTyped
<1>6. PICK hole : hole = load.overlays[s]
  OBVIOUS
<1>7. hole = MissingRange(Bounds(cache[s]), w) /\ ~HasIn(cache, s, w)
  BY <1>1, <1>4, <1>6 DEF CycleFor, CycleSound
<1>8. Inside(focus, w) /\ Wide(focus)
  BY <1>1, <1>4, <1>5 DEF CycleFor, CycleSound, CycleFits
<1>9. w.to - w.from >= Span /\ focus.from < focus.to
  BY <1>8, WideIs
<1>10. store = Merged(s, hole)
  BY <1>6
<1>11. StoreWide(store) /\ HoldsAt(cache, store, s, hole)
  BY <1>1, <1>3, <1>7, <1>9, <1>10, MergedFits
<1>12. ASSUME w = focus PROVE HasIn(store, s, focus) \/ Lost(store[s], s, focus)
  <2>1. FillsStock(cache[s], s, focus, hole)
    BY <1>1, <1>4, <1>5, <1>6, <1>12 DEF CycleFits
  <2>2. CASE InStock(s, focus)
    BY <1>9, <1>11, <2>1, <2>2 DEF HoldsAt, FillsStock
  <2>3. QED BY <2>2 DEF Lost
<1>13. QED BY <1>4, <1>5, <1>11, <1>12

LEMMA OverlayRests == ASSUME LoadInv, QuietInv, AnswerOverlay PROVE QuietInv'
<1>1. /\ FocusSound /\ ReadyTold /\ Arriving /\ LoadShown /\ PannedSound /\ CandlesDue /\ OverlaysDue
      /\ Framed /\ Told
  BY DEF QuietInv, LoadInv
<1>2. stale = Nothing /\ load # Nothing /\ UNCHANGED <<wanted, coming, shown, owner, ran, stale>>
  BY DEF AnswerOverlay
<1>3. PICK s \in DOMAIN load.overlays :
        /\ cache' = Merged(s, load.overlays[s])
        /\ load' = Rest(s)
        /\ ctl' = IF Rest(s) = Nothing /\ ~load.failed
                  THEN Marked(ctl, cache', load.view, load.focus) ELSE ctl
  BY DEF AnswerOverlay
<1>4. PICK store : store = cache'
  OBVIOUS
<1>5. PICK rest : rest = Rest(s)
  OBVIOUS
<1>6. /\ \A x \in Series \ {s} : store[x] = cache[x]
      /\ \A u \in RunViews : store[Candles[u]] = cache[Candles[u]]
  BY <1>2, <1>3, <1>4, OverlayGrows
<1>7. /\ StoreWide(store)
      /\ load.coverage = load.focus => HasIn(store, s, load.focus) \/ Lost(store[s], s, load.focus)
  BY <1>2, <1>3, <1>4, OverlayFits
<1>8. LeftOver(rest, s) /\ load.candles = NoHole
  BY <1>2, <1>5, RestIs
<1>9. load' = rest
  BY <1>3, <1>5
<1>10. rest # Nothing => CycleFits(rest, store)
  BY <1>2, <1>5, <1>6, RestFits
<1>11. load.view \in RunViews /\ load.view = ran.view
  BY <1>2 DEF LoadInv, Loading, CycleFor, CycleSound, CycleTyped
<1>12. shown.view \in RunViews
  <2>1. shown.view = Nothing => ran.view = Nothing
    BY <1>1 DEF Framed, ShownSound, EffectKey
  <2>2. shown.view # Nothing
    BY <1>11, <2>1, LoadAssumption
  <2>3. QED BY <1>1, <2>2 DEF Framed
<1>13. shown.view # Nothing
  BY <1>12, LoadAssumption
<1>14. PICK c \in Controls : c = ctl
  BY <1>1 DEF Told
<1>15. PICK new : new = ctl'
  OBVIOUS
<1>16. PICK marked : marked = Marked(c, store, load.view, load.focus)
  OBVIOUS
<1>17. /\ marked = c \/ marked.status = "ready"
       /\ c.status # "error" => marked.status # "error"
  BY <1>16, MarkedIs
<1>18. new = c \/ (~load.failed /\ rest = Nothing /\ new = marked)
  BY <1>3, <1>4, <1>5, <1>14, <1>15, <1>16
\* Of the cycle of the windows shown the status is not taken back.
<1>19. ran = EffectKey => /\ load.view = shown.view /\ load.focus = shown.focus
                          /\ load.coverage = shown.coverage
                          /\ load.failed <=> ctl.status = "error"
  BY <1>1, <1>2, <1>11 DEF LoadShown, EffectKey
<1>20. ran = EffectKey => (new.status = "error" <=> c.status = "error")
  BY <1>14, <1>17, <1>18, <1>19
<1>21. Arriving' /\ FocusSound' /\ StoreWide(cache)' /\ StaleTold'
  BY <1>1, <1>2, <1>4, <1>7, <1>13 DEF Arriving, FocusSound, StaleTold
<1>22. new = c \/ new.status = "ready"
  BY <1>17, <1>18
<1>23. ReadyTold'
  BY <1>1, <1>2, <1>14, <1>15, <1>22 DEF ReadyTold, Key
<1>24. LoadFits'
  BY <1>4, <1>9, <1>10 DEF LoadFits
<1>25. LoadShown'
  <2>1. SUFFICES ASSUME rest # Nothing, ran = EffectKey
                 PROVE  rest.focus = shown.focus /\ rest.coverage = shown.coverage
                        /\ (rest.failed <=> new.status = "error")
    BY <1>2, <1>9, <1>15 DEF LoadShown, EffectKey
  <2>2. rest.focus = load.focus /\ rest.coverage = load.coverage /\ rest.failed = load.failed
    BY <1>8, <2>1 DEF LeftOver
  <2>3. QED BY <1>14, <1>19, <1>20, <2>1, <2>2
<1>26. PannedSound'
  <2>1. rest # Nothing => rest.candles = NoHole
    BY <1>8 DEF LeftOver
  <2>2. PICK list : list = cache[Candles[shown.view]] /\ list = store[Candles[shown.view]]
    BY <1>6, <1>12
  <2>3. owner.target # Nothing \/ shown.coverage # shown.focus =>
          \/ ~InStock(Candles[shown.view], shown.focus)
          \/ Covers(Bounds(list), shown.focus) \/ AllRight(list, shown.focus)
    BY <1>1, <1>13, <2>2 DEF PannedSound, HasIn
  <2>4. QED BY <1>2, <1>4, <1>9, <2>1, <2>2, <2>3 DEF PannedSound, HasIn
<1>27. CandlesDue'
  <2>1. SUFFICES ASSUME ran = EffectKey
                 PROVE  \/ new.status = "error"
                        \/ new.status = "ready" /\ HasIn(store, Candles[shown.view], shown.focus)
                        \/ Lost(store[Candles[shown.view]], Candles[shown.view], shown.focus)
    BY <1>2, <1>4, <1>15 DEF CandlesDue, EffectKey
  <2>2. PICK list : list = cache[Candles[shown.view]] /\ list = store[Candles[shown.view]]
    BY <1>6, <1>12
  <2>3. \/ c.status = "error"
        \/ c.status = "ready" /\ Covers(Bounds(list), shown.focus)
        \/ Lost(list, Candles[shown.view], shown.focus)
    BY <1>1, <1>8, <1>13, <1>14, <2>1, <2>2 DEF CandlesDue, HasIn
  <2>4. QED BY <1>20, <1>22, <2>1, <2>2, <2>3 DEF HasIn
<1>28. OverlaysDue'
  <2>1. SUFFICES ASSUME ran = EffectKey, shown.coverage = shown.focus, new.status # "error",
                        NEW x \in Overlays[shown.view]
                 PROVE  \/ HasIn(store, x, shown.focus) \/ Lost(store[x], x, shown.focus)
                        \/ rest # Nothing /\ x \in DOMAIN rest.overlays
    BY <1>2, <1>4, <1>9, <1>15 DEF OverlaysDue, OverlayDue, EffectKey
  <2>2. CASE x = s
    BY <1>7, <1>19, <2>1, <2>2
  <2>3. CASE x # s /\ x \in DOMAIN load.overlays
    BY <1>8, <2>3 DEF LeftOver
  <2>4. CASE x # s /\ x \notin DOMAIN load.overlays
    <3>1. store[x] = cache[x]
      BY <1>6, <1>12, <2>4, SeriesAre
    <3>2. OverlayDue(x)
      BY <1>1, <1>8, <1>13, <1>14, <1>20, <2>1 DEF OverlaysDue
    <3>3. QED BY <2>4, <3>1, <3>2 DEF OverlayDue, HasIn
  <2>5. QED BY <2>2, <2>3, <2>4
<1>29. QED BY <1>21, <1>23, <1>24, <1>25, <1>26, <1>27, <1>28 DEF QuietInv

LEMMA FailRests == ASSUME LoadInv, QuietInv, FailRequest PROVE QuietInv'
<1>1. /\ FocusSound /\ StoreWide(cache) /\ ReadyTold /\ Arriving /\ LoadShown /\ PannedSound
      /\ Framed /\ Told
  BY DEF QuietInv, LoadInv
<1>2. /\ stale = Nothing /\ load # Nothing
      /\ UNCHANGED <<wanted, coming, shown, owner, ran, stale, cache>>
  BY DEF FailRequest
<1>3. PICK c \in Controls : c = ctl
  BY <1>1 DEF Told
<1>4. PICK new : new = ctl'
  OBVIOUS
<1>5. (new = c /\ load.failed) \/ (new.status = "error" /\ new.ready = Nothing)
  <2>1. Failed.status = "error" /\ Failed.ready = Nothing
    BY <1>1 DEF Told, Controls, Failed
  <2>2. ctl' = Failed \/ (ctl' = ctl /\ load.failed)
    BY DEF FailRequest
  <2>3. QED BY <1>3, <1>4, <2>1, <2>2
<1>6. ran = EffectKey => new.status = "error"
  BY <1>1, <1>2, <1>3, <1>5 DEF LoadShown
<1>7. load' # Nothing => /\ load'.focus = load.focus /\ load'.coverage = load.coverage
                         /\ load'.failed = TRUE /\ load'.candles = NoHole
                         /\ CycleFits(load', cache)
  <2>1. SUFFICES ASSUME load' # Nothing
                 PROVE  /\ load'.focus = load.focus /\ load'.coverage = load.coverage
                        /\ load'.failed = TRUE /\ load'.candles = NoHole
                        /\ CycleFits(load', cache)
    OBVIOUS
  <2>2. PICK s \in DOMAIN load.overlays :
          load' = IF Rest(s) = Nothing THEN Nothing ELSE [Rest(s) EXCEPT !.failed = TRUE]
    BY <2>1 DEF FailRequest
  <2>3. PICK rest : rest = Rest(s)
    OBVIOUS
  <2>4. rest # Nothing
    BY <2>1, <2>2, <2>3
  <2>5. CycleFor(rest, ran.view, cache)
    BY <1>2, <2>3, <2>4, RestSound
  <2>6. CycleTyped(rest)
    BY <2>5 DEF CycleFor, CycleSound
  <2>7. LeftOver(rest, s)
    BY <1>2, <2>3, RestIs
  <2>8. CycleFits(rest, cache)
    BY <1>2, <2>3, <2>4, RestFits
  <2>9. PICK next : next = [rest EXCEPT !.failed = TRUE]
    OBVIOUS
  <2>10. /\ next.view = rest.view /\ next.focus = rest.focus /\ next.coverage = rest.coverage
         /\ next.candles = rest.candles /\ next.overlays = rest.overlays /\ next.failed = TRUE
    BY <2>6, <2>9 DEF CycleTyped
  <2>11. /\ rest.focus = load.focus /\ rest.coverage = load.coverage /\ rest.candles = NoHole
    BY <2>4, <2>7 DEF LeftOver
  <2>12. CycleFits(next, cache)
    BY <2>8, <2>10, <2>11 DEF CycleFits
  <2>13. load' = next
    BY <2>2, <2>3, <2>4, <2>9
  <2>14. QED BY <2>10, <2>11, <2>12, <2>13
<1>8. shown.view # Nothing
  <2>1. shown.view = Nothing => ran.view = Nothing
    BY <1>1 DEF Framed, ShownSound, EffectKey
  <2>2. ran.view \in RunViews
    BY <1>2 DEF LoadInv, Loading, CycleFor, CycleSound, CycleTyped
  <2>3. QED BY <2>1, <2>2, LoadAssumption
<1>9. Arriving' /\ FocusSound' /\ StoreWide(cache)' /\ StaleTold'
  BY <1>1, <1>2, <1>8 DEF Arriving, FocusSound, StaleTold
<1>10. ReadyTold'
  BY <1>1, <1>2, <1>3, <1>4, <1>5 DEF ReadyTold, Key
<1>11. LoadFits'
  BY <1>2, <1>7 DEF LoadFits
<1>12. LoadShown'
  BY <1>1, <1>2, <1>4, <1>6, <1>7 DEF LoadShown, EffectKey
<1>13. PannedSound'
  BY <1>1, <1>2, <1>7 DEF PannedSound
<1>14. CandlesDue' /\ OverlaysDue'
  BY <1>2, <1>4, <1>6 DEF CandlesDue, OverlaysDue, EffectKey
<1>15. QED BY <1>9, <1>10, <1>11, <1>12, <1>13, <1>14 DEF QuietInv

LEMMA QuietSteps ==
  ASSUME WideReports, LoadInv, QuietInv, [LoadNext]_loadVars PROVE QuietInv'
<1>1. CASE LoadNext
  BY <1>1, SelectionRests, SelectRunRests, PanRests, RenderRests, RunEffectRests, UnwindRests,
     CandlesRest, OverlayRests, FailRests DEF LoadNext, LoadMachine, User
<1>2. CASE UNCHANGED loadVars
  <2>1. UNCHANGED <<wanted, coming, shown, owner, ctl, ran, load, stale, cache>>
    BY <1>2 DEF loadVars
  <2>2. Arriving'
    BY <2>1 DEF QuietInv, Arriving
  <2>3. QED BY <2>1, <2>2, FrameRests
<1>3. QED BY <1>1, <1>2

\* What the invariant says of a store at rest.
LEMMA InvIsQuiet == ASSUME LoadInv, QuietInv, LoadQuiet PROVE
  \/ ctl.status = "error" \/ OutOfReach(Candles[shown.view])
  \/ /\ ctl.status = "ready" /\ Displayed # NoHole
     /\ owner.target = Nothing =>
          \A s \in Overlays[shown.view] : OverlayShown(s) \/ OutOfReach(s)
<1>1. Selected /\ Framed /\ FocusSound /\ CandlesDue /\ OverlaysDue /\ Arriving
  BY DEF LoadInv, QuietInv
<1>2. coming = Nothing /\ load = Nothing /\ ran = EffectKey /\ ~RenderPending
  BY DEF LoadQuiet, EffectPending
<1>3. wanted.view # Nothing /\ shown = NextShown
  BY <1>1, <1>2 DEF Arriving, RenderPending
<1>4. shown.view = wanted.view
  BY <1>3 DEF NextShown
<1>5. PICK v \in RunViews : v = shown.view
  BY <1>1, <1>3, <1>4 DEF Selected
<1>6. v # Nothing
  BY LoadAssumption
<1>7. PICK focus \in AnyWindows : focus = shown.focus
  BY <1>1 DEF Framed
<1>8. PICK coverage \in AnyWindows : coverage = shown.coverage
  BY <1>1 DEF Framed
<1>9. Inside(focus, coverage) /\ Wide(focus)
  BY <1>1, <1>5, <1>6, <1>7, <1>8 DEF Framed, ShownSound, FocusSound
<1>10. \A s : OutOfReach(s) <=> Lost(cache[s], s, focus)
  BY <1>7 DEF OutOfReach, LeftOut, Lost, CutOff, AllRight
<1>11. \/ ctl.status = "error" \/ OutOfReach(Candles[v])
       \/ ctl.status = "ready" /\ HasIn(cache, Candles[v], focus)
  BY <1>1, <1>2, <1>5, <1>6, <1>7, <1>10 DEF CandlesDue
<1> SUFFICES ASSUME ctl.status = "ready", ctl.status # "error", HasIn(cache, Candles[v], focus)
             PROVE  /\ Displayed # NoHole
                    /\ owner.target = Nothing =>
                         \A s \in Overlays[v] : OverlayShown(s) \/ OutOfReach(s)
  BY <1>5, <1>11
<1>12. Displayed = ComposeWindow
  BY <1>5, <1>6, <1>7 DEF Displayed, Has, HasIn
<1>13. Displayed \in {focus, coverage}
  BY <1>7, <1>8, <1>12 DEF ComposeWindow
<1>14. Displayed # NoHole
  <2>1. focus # NoHole
    BY <1>9, WideIs
  <2>2. coverage # NoHole
    <3>1. coverage.to - coverage.from >= Span
      BY <1>9, WideIs
    <3>2. Span > 0 /\ Span \in Int
      BY LoadAssumption
    <3>3. QED BY <3>1, <3>2 DEF NoHole, Window
  <2>3. QED BY <1>13, <2>1, <2>2
<1>15. ASSUME owner.target = Nothing, NEW s \in Overlays[v] PROVE OverlayShown(s) \/ OutOfReach(s)
  <2>1. shown.coverage = shown.focus
    BY <1>3, <1>15 DEF NextShown
  <2>2. OverlayDue(s)
    BY <1>1, <1>2, <1>5, <1>6, <1>15, <2>1 DEF OverlaysDue
  <2>3. HasIn(cache, s, focus) \/ Lost(cache[s], s, focus)
    BY <1>2, <1>7, <2>2 DEF OverlayDue
  <2>4. QED BY <1>7, <1>10, <1>14, <2>3 DEF OverlayShown, Has, HasIn
<1>16. QED BY <1>14, <1>15

\* MarketLoad: when nothing is left to do, the chart is ready with its candles
\* and overlays, or says error, or its window was dropped by the chunk cap, or
\* the server lacks a bar of it: no abort, late, short or empty answer, and no
\* pan, leaves it waiting for bars the server has.  It needs reports at least a
\* window wide: of shorter ones the stored chunks can leave several holes in
\* one window, and a cycle asks for the first.
THEOREM QuietIsReady == ASSUME WideReports PROVE LoadSpec => []QuietMeansReady
<1>1. LoadInit => LoadInv /\ QuietInv
  BY LoadStarts, QuietStarts
<1>2. LoadInv /\ QuietInv /\ [LoadNext]_loadVars => (LoadInv /\ QuietInv)'
  BY LoadSteps, QuietSteps
<1>3. LoadInv /\ QuietInv => QuietMeansReady
  BY InvIsQuiet DEF QuietMeansReady
<1>4. QED BY <1>1, <1>2, <1>3, PTL DEF LoadSpec
=============================================================================
