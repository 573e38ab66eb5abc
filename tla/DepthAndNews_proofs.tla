------------------------ MODULE DepthAndNews_proofs ------------------------
(***************************************************************************)
(* What passes over sequences leave behind: the volatility model after any *)
(* schedule of polls, and the plans and marks of any order books.          *)
(***************************************************************************)
EXTENDS DepthPlanning, VolatilityNews, FiniteSetTheorems, WellFoundedInduction, TLAPS

(***************************************************************************)
(* Induction over numbers, as a fact about sets of numbers.                *)
(***************************************************************************)
LEMMA LeastOfNaturals ==
  ASSUME NEW T, T \subseteq Nat, T # {}
  PROVE  \E n \in T : \A m \in T : n <= m
<1> DEFINE R == OpToRel(<, Nat)
<1>1. IsWellFoundedOn(R, Nat)
  BY NatLessThanWellFounded
<1>2. PICK n \in T : \A m \in T : ~ (<<m, n>> \in R)
  <2> HIDE DEF R
  <2> QED  BY <1>1, WFMin
<1>3. \A m \in T : <<m, n>> \in R <=> m < n
  BY DEF OpToRel
<1> HIDE DEF R
<1>4. \A m \in T : ~(m < n)
  BY <1>2, <1>3, Zenon
<1>5. \A m \in T : n <= m
  BY <1>4, SMT
<1> QED  BY <1>5

LEMMA NaturalsFollow ==
  ASSUME NEW P, 0 \in P, \A n \in Nat : n \in P => n + 1 \in P
  PROVE  Nat \subseteq P
<1> SUFFICES ASSUME Nat \ P # {} PROVE FALSE
  OBVIOUS
<1>1. PICK n \in Nat \ P : \A m \in Nat \ P : n <= m
  BY LeastOfNaturals
<1>2. n - 1 \in Nat /\ n - 1 \in P
  BY <1>1
<1> QED  BY <1>1, <1>2

(* Up to a bound, each from the one before.                                *)
LEMMA UpTo ==
  ASSUME NEW n \in Nat, NEW P, 0 \in P, \A i \in 1..n : i - 1 \in P => i \in P
  PROVE  0..n \subseteq P
<1> DEFINE Q == {k \in Nat : k <= n => k \in P}
<1>1. 0 \in Q /\ \A k \in Nat : k \in Q => k + 1 \in Q
  <2> SUFFICES ASSUME NEW k \in Nat, k \in Q, k + 1 <= n PROVE k + 1 \in P
    OBVIOUS
  <2>1. k + 1 \in 1..n /\ (k + 1) - 1 = k /\ k <= n
    OBVIOUS
  <2> QED  BY <2>1
<1> HIDE DEF Q
<1>2. Nat \subseteq Q
  BY <1>1, NaturalsFollow
<1> QED  BY <1>2 DEF Q

LEMMA MaxIs ==
  ASSUME NEW T, NEW x \in T, T \subseteq Int, \A y \in T : y <= x
  PROVE  Max(T) = x
<1>1. \A y \in T : x >= y
  OBVIOUS
<1>2. Max(T) \in T /\ \A y \in T : Max(T) >= y
  <2> DEFINE Top(z) == z \in T /\ \A y \in T : z >= y
  <2>1. Max(T) = CHOOSE z : Top(z)
    BY Zenon DEF Max
  <2>2. Top(x)
    BY <1>1
  <2> HIDE DEF Top
  <2>3. Top(Max(T))
    BY <2>1, <2>2, Zenon
  <2> QED  BY <2>3 DEF Top
<1>3. Max(T) \in Int /\ x \in Int /\ Max(T) >= x /\ Max(T) <= x
  BY <1>2
<1> QED  BY <1>3

LEMMA MaxOf ==
  ASSUME NEW n \in Nat, NEW T, T \subseteq 0..n, T # {}
  PROVE  Max(T) \in T /\ \A x \in T : x <= Max(T)
<1> DEFINE B == {k \in 0..n : \A x \in T : x <= k}
<1>1. B \subseteq Nat /\ n \in B
  OBVIOUS
<1>2. PICK b \in B : \A k \in B : b <= k
  <2> HIDE DEF B
  <2> QED  BY <1>1, LeastOfNaturals
<1>3. b \in T
  <2> SUFFICES ASSUME b \notin T PROVE FALSE
    OBVIOUS
  <2>1. \A x \in T : x <= b - 1
    BY <1>2
  <2>2. b - 1 \in 0..n
    <3>1. PICK x : x \in T
      OBVIOUS
    <3>2. x \in Nat /\ x <= b - 1 /\ b \in 0..n
      BY <1>2, <2>1, <3>1
    <3> QED  BY <3>2
  <2>3. b - 1 \in B
    BY <2>1, <2>2
  <2> QED  BY <1>2, <2>3
<1>4. T \subseteq Int /\ \A y \in T : y <= b
  BY <1>2
<1>5. Max(T) = b
  BY <1>3, <1>4, MaxIs
<1> QED  BY <1>3, <1>4, <1>5

(***************************************************************************)
(* A fold over a sequence. Accumulates is what a fold must satisfy for     *)
(* every set of positions, and Passes the accumulator before each position.*)
(***************************************************************************)
Accumulates(g, base, f, n) ==
  \A T \in SUBSET (1..n) : g[T] = IF T = {} THEN base ELSE f[<<g[T \ {Max(T)}], Max(T)>>]

LEMMA FoldExists ==
  ASSUME NEW n \in Nat, NEW A, NEW base \in A, NEW f \in [A \X (1..n) -> A]
  PROVE  \E g \in [SUBSET (1..n) -> A] : Accumulates(g, base, f, n)
<1> DEFINE FoldsTo(k) == \E g \in [SUBSET (1..k) -> A] : Accumulates(g, base, f, k)
           P == {k \in 0..n : FoldsTo(k)}
<1> HIDE DEF FoldsTo
<1>1. 0 \in P
  <2> DEFINE g == [T \in SUBSET (1..0) |-> base]
  <2>1. g \in [SUBSET (1..0) -> A] /\ 1..0 = {}
    OBVIOUS
  <2>2. \A T \in SUBSET (1..0) : T = {} /\ g[T] = base
    BY <2>1
  <2> HIDE DEF g
  <2>3. Accumulates(g, base, f, 0)
    BY <2>2 DEF Accumulates
  <2>4. FoldsTo(0)
    BY <2>1, <2>3 DEF FoldsTo
  <2> QED  BY <2>4
<1>2. ASSUME NEW i \in 1..n, i - 1 \in P PROVE i \in P
  <2> DEFINE k == i - 1
  <2>0. k \in 0..n /\ FoldsTo(k) /\ k + 1 = i /\ k \in Nat
    BY <1>2
  <2> HIDE DEF k
  <2>1. PICK g \in [SUBSET (1..k) -> A] : Accumulates(g, base, f, k)
    BY <2>0 DEF FoldsTo
  <2>2. \A T \in SUBSET (1..i) : T \ {i} \in SUBSET (1..k)
    BY <2>0
  <2>3. \A T \in SUBSET (1..k) : T \in SUBSET (1..i) /\ i \notin T
    BY <2>0
  <2> DEFINE h == [T \in SUBSET (1..i) |-> IF i \in T THEN f[<<g[T \ {i}], i>>] ELSE g[T]]
  <2>4. \A T \in SUBSET (1..i) : i \notin T => T \in SUBSET (1..k)
    BY <2>0
  <2>5. h \in [SUBSET (1..i) -> A]
    BY <2>1, <2>2, <2>4
  <2>6. \A T \in SUBSET (1..k) : h[T] = g[T]
    BY <2>3
  <2>7. \A T \in SUBSET (1..i) : i \in T => h[T] = f[<<g[T \ {i}], i>>]
    OBVIOUS
  <2> HIDE DEF h
  <2>8. ASSUME NEW T \in SUBSET (1..i)
        PROVE  h[T] = IF T = {} THEN base ELSE f[<<h[T \ {Max(T)}], Max(T)>>]
    <3>1. CASE i \in T
      <4>1. Max(T) = i
        <5>1. T \subseteq Int /\ \A y \in T : y <= i
          BY <2>0
        <5> QED  BY <3>1, <5>1, MaxIs
      <4>2. h[T \ {i}] = g[T \ {i}]
        BY <2>2, <2>6
      <4> QED  BY <2>7, <3>1, <4>1, <4>2
    <3>2. CASE i \notin T
      <4>1. T \in SUBSET (1..k) /\ T \ {Max(T)} \in SUBSET (1..k)
        BY <2>4, <3>2
      <4>2. h[T] = g[T] /\ h[T \ {Max(T)}] = g[T \ {Max(T)}]
        BY <2>6, <4>1
      <4> QED  BY <2>1, <4>1, <4>2 DEF Accumulates
    <3> QED  BY <3>1, <3>2
  <2>9. FoldsTo(i)
    BY <2>5, <2>8 DEF FoldsTo, Accumulates
  <2> QED  BY <2>9
<1> HIDE DEF P
<1>3. n \in P
  BY <1>1, <1>2, UpTo
<1> QED  BY <1>3 DEF P, FoldsTo

(* The accumulators of a fold on the way.                                  *)
LEMMA Segment ==
  ASSUME NEW i \in Nat \ {0}
  PROVE  Max(1..i) = i /\ (1..i) \ {i} = 1..(i - 1) /\ 1..i # {} /\ 1..0 = {}
<1>1. i \in 1..i /\ 1..i \subseteq Int /\ \A y \in 1..i : y <= i
  OBVIOUS
<1>2. Max(1..i) = i
  BY <1>1, MaxIs
<1> QED  BY <1>1, <1>2

(***************************************************************************)
(* A finite set in order, by a relation that puts any two elements in one. *)
(***************************************************************************)
PutsInOrder(R, S) ==
  /\ \A x, y \in S : x # y => <<x, y>> \in R \/ <<y, x>> \in R
  /\ \A x, y \in S : <<x, y>> \in R => <<y, x>> \notin R
  /\ \A x, y, z \in S : <<x, y>> \in R /\ <<y, z>> \in R => <<x, z>> \in R

Ordered(s, R) == \A i, j \in DOMAIN s : i < j => <<s[i], s[j]>> \in R

LEMMA SortedExists ==
  ASSUME NEW R, NEW S, IsFiniteSet(S), PutsInOrder(R, S)
  PROVE  \E s \in [1..Cardinality(S) -> S] :
           Ordered(s, R) /\ \A x \in S : \E i \in 1..Cardinality(S) : s[i] = x
<1> DEFINE Sorts(s, k, T) ==
             s \in [1..k -> T] /\ Ordered(s, R) /\ \A x \in T : \E i \in 1..k : s[i] = x
           Sortable(k) == \A T \in SUBSET S : Cardinality(T) = k => \E s : Sorts(s, k, T)
           P == {k \in Nat : Sortable(k)}
<1>0. \A T \in SUBSET S : IsFiniteSet(T) /\ Cardinality(T) \in Nat
  BY FS_Subset, FS_CardinalityType
<1>1. 0 \in P
  <2> SUFFICES ASSUME NEW T \in SUBSET S, Cardinality(T) = 0 PROVE \E s : Sorts(s, 0, T)
    OBVIOUS
  <2>1. T = {}
    BY <1>0, FS_EmptySet
  <2> DEFINE s == [i \in 1..0 |-> R]
  <2>2. s \in [1..0 -> T] /\ DOMAIN s = {}
    OBVIOUS
  <2> HIDE DEF s
  <2>3. Sorts(s, 0, T)
    BY <2>1, <2>2 DEF Ordered
  <2> QED  BY <2>3
<1>2. ASSUME NEW k \in Nat, k \in P PROVE k + 1 \in P
  <2> SUFFICES ASSUME NEW T \in SUBSET S, Cardinality(T) = k + 1
               PROVE  \E s : Sorts(s, k + 1, T)
    OBVIOUS
  <2>1. PICK x : x \in T
    <3>1. T # {}
      BY FS_EmptySet
    <3> QED  BY <3>1
  <2> DEFINE U == T \ {x}
  <2>2. U \in SUBSET S /\ Cardinality(U) = k
    <3>1. IsFiniteSet(T)
      BY <1>0
    <3>2. Cardinality(T \ {x}) = Cardinality(T) - 1
      BY <2>1, <3>1, FS_RemoveElement
    <3> QED  BY <3>2
  <2>3. PICK s : Sorts(s, k, U)
    <3>1. Sortable(k)
      BY <1>2
    <3> HIDE DEF Sorts, U
    <3> QED  BY <2>2, <3>1
  <2> HIDE DEF P, Sortable
  <2>3a. s \in [1..k -> U] /\ Ordered(s, R) /\ \A y \in U : \E i \in 1..k : s[i] = y
    BY <2>3
  <2> DEFINE Above == {i \in 1..(k + 1) : i = k + 1 \/ <<x, s[i]>> \in R}
  <2>4. PICK p \in Above : \A i \in Above : p <= i
    <3>1. Above \subseteq Nat /\ k + 1 \in Above
      OBVIOUS
    <3> HIDE DEF Above
    <3> QED  BY <3>1, LeastOfNaturals
  <2>5. \A i \in 1..k : i < p => <<s[i], x>> \in R
    <3> SUFFICES ASSUME NEW i \in 1..k, i < p PROVE <<s[i], x>> \in R
      OBVIOUS
    <3>1. i \notin Above
      BY <2>4
    <3>2. <<x, s[i]>> \notin R /\ s[i] \in U
      BY <2>3a, <3>1
    <3> QED  BY <2>1, <3>2 DEF PutsInOrder
  <2>6. \A i \in 1..k : i >= p => <<x, s[i]>> \in R
    <3> SUFFICES ASSUME NEW i \in 1..k, i >= p PROVE <<x, s[i]>> \in R
      OBVIOUS
    <3>1. p \in 1..k /\ <<x, s[p]>> \in R
      BY <2>4
    <3>2. CASE i = p
      BY <3>1, <3>2
    <3>3. CASE i > p
      <4>1. <<s[p], s[i]>> \in R
        BY <2>3a, <3>1, <3>3 DEF Ordered
      <4> QED  BY <2>1, <2>3a, <3>1, <4>1 DEF PutsInOrder
    <3> QED  BY <3>2, <3>3
  <2> DEFINE Old(i) == IF i < p THEN i ELSE i - 1
             t == [i \in 1..(k + 1) |-> IF i = p THEN x ELSE s[Old(i)]]
  <2>7. \A i \in 1..(k + 1) : i # p => Old(i) \in 1..k /\ (i < p <=> Old(i) < p)
    BY <2>4
  <2>8. \A i, j \in 1..(k + 1) : i < j /\ i # p /\ j # p => Old(i) < Old(j)
    BY <2>4
  <2>9. p \in 1..(k + 1)
    BY <2>4
  <2>10. /\ DOMAIN t = 1..(k + 1) /\ t[p] = x
         /\ \A i \in 1..(k + 1) : i # p => t[i] = s[Old(i)]
    BY <2>9
  <2>11. \A i \in 1..k : \E j \in 1..(k + 1) : j # p /\ Old(j) = i
    <3> SUFFICES ASSUME NEW i \in 1..k PROVE \E j \in 1..(k + 1) : j # p /\ Old(j) = i
      OBVIOUS
    <3>1. CASE i < p
      BY <2>9, <3>1
    <3>2. CASE i >= p
      <4>1. i + 1 \in 1..(k + 1) /\ i + 1 # p /\ Old(i + 1) = i
        BY <2>9, <3>2
      <4> QED  BY <4>1
    <3> QED  BY <2>9, <3>1, <3>2
  <2> HIDE DEF Old
  <2>12. t \in [1..(k + 1) -> T]
    BY <2>1, <2>3a, <2>7
  <2> HIDE DEF t
  <2>13. Ordered(t, R)
    <3> SUFFICES ASSUME NEW i \in 1..(k + 1), NEW j \in 1..(k + 1), i < j
                 PROVE  <<t[i], t[j]>> \in R
      BY <2>10 DEF Ordered
    <3>1. CASE i = p
      <4>1. Old(j) \in 1..k /\ ~(Old(j) < p)
        BY <2>7, <3>1
      <4>2. <<x, s[Old(j)]>> \in R
        BY <2>6, <2>9, <4>1
      <4> QED  BY <2>10, <3>1, <4>2
    <3>2. CASE j = p
      <4>1. Old(i) \in 1..k /\ Old(i) < p
        BY <2>7, <3>2
      <4> QED  BY <2>5, <2>10, <3>2, <4>1
    <3>3. CASE i # p /\ j # p
      <4>1. Old(i) \in 1..k /\ Old(j) \in 1..k /\ Old(i) < Old(j)
        BY <2>7, <2>8, <3>3
      <4> QED  BY <2>3a, <2>10, <3>3, <4>1 DEF Ordered
    <3> QED  BY <3>1, <3>2, <3>3
  <2>14. ASSUME NEW y \in T PROVE \E i \in 1..(k + 1) : t[i] = y
    <3>1. CASE y = x
      BY <2>9, <2>10, <3>1
    <3>2. CASE y # x
      <4>1. PICK i \in 1..k : s[i] = y
        BY <2>3a, <3>2
      <4>2. PICK j \in 1..(k + 1) : j # p /\ Old(j) = i
        BY <2>11
      <4> QED  BY <2>10, <4>1, <4>2
    <3> QED  BY <3>1, <3>2
  <2>15. Sorts(t, k + 1, T)
    BY <2>12, <2>13, <2>14
  <2> QED  BY <2>15
<1> HIDE DEF P
<1>3. Cardinality(S) \in P
  BY <1>0, <1>1, <1>2, NaturalsFollow
<1> QED  BY <1>3 DEF P

(***************************************************************************)
(* VolatilityModel.update, one item at a time.                             *)
(***************************************************************************)
Items == [id : Nat, text : Texts, tick : Nat, period : Nat, heat : Nat]
Observed == [tick : Nat, iv : Nat]
Told == UNION {ParseNews(item) : item \in Items}
WeekValues == {Week(t, s) : t \in Int, s \in Told} \cup {Week(-1, UnknownWeek)}
Models ==
  [weeks : [AllWeeks -> WeekValues], seen : SUBSET Items, observations : Seq(Observed),
   baseline : Nat, release : Int, exact : BOOLEAN]

Step(m, item) == Learned(Released(m, item), item)

Rewrites(m, item, w) ==
  \E s \in ParseNews(item) : s.week = w /\ m.weeks[w].tick <= item.tick /\ Overrides(m.weeks[w], s)

LEMMA BaselineIs ==
  ASSUME NEW m \in Models, NEW release \in Int
  PROVE  LET before == {i \in DOMAIN m.observations : PreNews(m.observations[i], release)} IN
         /\ Baseline(m, release) \in Nat
         /\ before = {} => Baseline(m, release) = 0
         /\ before # {} => /\ Max(before) \in before /\ \A i \in before : i <= Max(before)
                           /\ Baseline(m, release) = m.observations[Max(before)].iv
<1> DEFINE before == {i \in DOMAIN m.observations : PreNews(m.observations[i], release)}
           n == Len(m.observations)
<1>1. m.observations \in Seq(Observed)
  BY DEF Models
<1>2. /\ n \in Nat /\ DOMAIN m.observations = 1..n
      /\ \A i \in 1..n : m.observations[i] \in Observed
  BY <1>1
<1>3. Baseline(m, release) = IF before = {} THEN 0 ELSE m.observations[Max(before)].iv
  BY DEF Baseline
<1>4. before \subseteq 1..n /\ before \subseteq 0..n
  BY <1>2
<1> HIDE DEF before, n
<1>5. before # {} => Max(before) \in before /\ \A i \in before : i <= Max(before)
  <2> SUFFICES ASSUME before # {}
               PROVE  Max(before) \in before /\ \A i \in before : i <= Max(before)
    OBVIOUS
  <2>1. n \in Nat /\ before \subseteq 0..n
    BY <1>2, <1>4
  <2> QED  BY <2>1, MaxOf
<1>6. before # {} => m.observations[Max(before)] \in Observed
  BY <1>2, <1>4, <1>5
<1>7. Baseline(m, release) \in Nat
  BY <1>3, <1>6 DEF Observed
<1> QED  BY <1>3, <1>5, <1>7 DEF before

LEMMA ReleasedIs ==
  ASSUME NEW m \in Models, NEW item \in Items
  PROVE  /\ Released(m, item) \in Models
         /\ Released(m, item).weeks = m.weeks /\ Released(m, item).seen = m.seen
         /\ Released(m, item).observations = m.observations
         /\ item.tick < m.release => Released(m, item) = m
         /\ ~(item.tick < m.release) => /\ Released(m, item).release = item.tick
                                        /\ Released(m, item).baseline = Baseline(m, item.tick)
<1>1. item.tick \in Int /\ m.release \in Int /\ m.exact \in BOOLEAN
  BY DEF Items, Models
<1>2. Baseline(m, item.tick) \in Nat
  BY <1>1, BaselineIs
<1>3. Confident(m, item) \in BOOLEAN
  BY <1>1 DEF Confident
<1>4. CASE item.tick < m.release
  BY <1>4 DEF Released
<1>5. CASE ~(item.tick < m.release)
  <2>1. Released(m, item) =
          [m EXCEPT !.baseline = Baseline(m, item.tick), !.release = item.tick,
                    !.exact = Confident(m, item)]
    BY <1>5 DEF Released
  <2> QED  BY <1>1, <1>2, <1>3, <1>5, <2>1 DEF Models
<1> QED  BY <1>4, <1>5

LEMMA LearnedIs ==
  ASSUME NEW m \in Models, NEW item \in Items
  PROVE  /\ Learned(m, item) \in Models
         /\ Learned(m, item).seen = m.seen \cup {item}
         /\ Learned(m, item).observations = m.observations
         /\ Learned(m, item).release = m.release
         /\ Learned(m, item).baseline = m.baseline
         /\ \A w \in AllWeeks :
              Learned(m, item).weeks[w] =
                IF Rewrites(m, item, w)
                THEN Week(item.tick, CHOOSE s \in ParseNews(item) : s.week = w)
                ELSE m.weeks[w]
<1> DEFINE weeks == [w \in AllWeeks |->
                       IF Rewrites(m, item, w)
                       THEN Week(item.tick, CHOOSE s \in ParseNews(item) : s.week = w)
                       ELSE m.weeks[w]]
<1>1. Learned(m, item) = [m EXCEPT !.seen = m.seen \cup {item}, !.weeks = weeks]
  BY DEF Learned, Rewrites
<1>2. ASSUME NEW w \in AllWeeks, Rewrites(m, item, w)
      PROVE  Week(item.tick, CHOOSE s \in ParseNews(item) : s.week = w) \in WeekValues
  <2> DEFINE c == CHOOSE s \in ParseNews(item) : s.week = w
  <2>1. c \in ParseNews(item)
    BY <1>2 DEF Rewrites
  <2> HIDE DEF c
  <2>2. c \in Told /\ item.tick \in Int
    BY <2>1 DEF Told, Items
  <2>3. Week(item.tick, c) \in WeekValues
    BY <2>2 DEF WeekValues
  <2> QED  BY <2>3 DEF c
<1>3. m.weeks \in [AllWeeks -> WeekValues]
  BY DEF Models
<1>4. weeks \in [AllWeeks -> WeekValues]
  BY <1>2, <1>3
<1>5. \A w \in AllWeeks :
        weeks[w] = IF Rewrites(m, item, w)
                   THEN Week(item.tick, CHOOSE s \in ParseNews(item) : s.week = w)
                   ELSE m.weeks[w]
  OBVIOUS
<1> HIDE DEF weeks
<1>6. m.seen \cup {item} \in SUBSET Items
  BY DEF Models
<1>7. /\ Learned(m, item) \in Models
      /\ Learned(m, item).seen = m.seen \cup {item}
      /\ Learned(m, item).weeks = weeks
      /\ Learned(m, item).observations = m.observations
      /\ Learned(m, item).release = m.release
      /\ Learned(m, item).baseline = m.baseline
  <2> HIDE DEF Items, WeekValues, Observed
  <2> QED  BY <1>1, <1>4, <1>6 DEF Models
<1> QED  BY <1>5, <1>7

(* The models on the way through a sequence of items.                      *)
Updates(a, m, s, n) ==
  /\ a \in [0..n -> Models] /\ a[0] = m
  /\ \A i \in 1..n : a[i] = Step(a[i - 1], s[i])

LEMMA UpdateFolds ==
  ASSUME NEW m \in Models, NEW n \in Nat, NEW s \in [1..n -> Items]
  PROVE  \E a : Updates(a, m, s, n)
                /\ FoldLeft(LAMBDA k, item : Learned(Released(k, item), item), m, s) = a[n]
<1> DEFINE F(g) == [T \in SUBSET (1..n) |->
                      IF T = {} THEN m
                      ELSE Learned(Released(g[T \ {Max(T)}], s[Max(T)]), s[Max(T)])]
           iter == CHOOSE g : g = F(g)
           f == [p \in Models \X (1..n) |-> Step(p[1], s[p[2]])]
<1>1. FoldLeft(LAMBDA k, item : Learned(Released(k, item), item), m, s) = iter[1..n]
  <2>1. DOMAIN s = 1..n
    OBVIOUS
  <2> QED  BY <2>1, Zenon DEF FoldLeft, MapThenFoldSet
<1>2. \A k \in Models, item \in Items : Step(k, item) \in Models
  BY ReleasedIs, LearnedIs DEF Step
<1>3. f \in [Models \X (1..n) -> Models]
  BY <1>2
<1>4. \A k \in Models, i \in 1..n : f[<<k, i>>] = Step(k, s[i])
  OBVIOUS
<1> HIDE DEF f
<1>5. PICK g \in [SUBSET (1..n) -> Models] : Accumulates(g, m, f, n)
  BY <1>3, FoldExists
<1>6. \A T \in SUBSET (1..n) : T # {} => Max(T) \in 1..n /\ T \ {Max(T)} \in SUBSET (1..n)
  <2> SUFFICES ASSUME NEW T \in SUBSET (1..n), T # {} PROVE Max(T) \in T
    OBVIOUS
  <2>1. T \subseteq 0..n
    OBVIOUS
  <2> QED  BY <2>1, MaxOf
<1>7. g = F(g)
  <2>1. ASSUME NEW T \in SUBSET (1..n)
        PROVE  g[T] = IF T = {} THEN m
                      ELSE Learned(Released(g[T \ {Max(T)}], s[Max(T)]), s[Max(T)])
    BY <1>4, <1>5, <1>6 DEF Accumulates, Step
  <2>2. g = [T \in SUBSET (1..n) |-> g[T]]
    BY <1>5
  <2> QED  BY <2>1, <2>2
<1>8. iter = F(iter)
  <2> HIDE DEF F
  <2> QED  BY <1>7, Zenon
<1>9. ASSUME NEW T \in SUBSET (1..n)
      PROVE  iter[T] = IF T = {} THEN m ELSE Step(iter[T \ {Max(T)}], s[Max(T)])
  <2> DEFINE k == iter
  <2>1. k = F(k)
    BY <1>8
  <2> HIDE DEF k
  <2>2. k[T] = IF T = {} THEN m ELSE Learned(Released(k[T \ {Max(T)}], s[Max(T)]), s[Max(T)])
    BY <2>1, Zenon
  <2> QED  BY <2>2 DEF k, Step
<1> HIDE DEF iter, F
<1> DEFINE a == [i \in 0..n |-> iter[1..i]]
           P == {i \in 0..n : iter[1..i] \in Models}
<1>10. iter[1..0] = m
  BY <1>9, 1..0 = {}
<1>11. ASSUME NEW i \in 1..n PROVE iter[1..i] = Step(iter[1..(i - 1)], s[i])
  <2>1. 1..i \in SUBSET (1..n)
    OBVIOUS
  <2>2. i \in Nat \ {0}
    OBVIOUS
  <2>3. Max(1..i) = i /\ (1..i) \ {i} = 1..(i - 1) /\ 1..i # {}
    BY <2>2, Segment
  <2> QED  BY <1>9, <2>1, <2>3
<1>12. 0..n \subseteq P
  <2>1. 0 \in P
    BY <1>10
  <2>2. ASSUME NEW i \in 1..n, i - 1 \in P PROVE i \in P
    BY <1>2, <1>11, <2>2
  <2> HIDE DEF P
  <2> QED  BY <2>1, <2>2, UpTo
<1>13. Updates(a, m, s, n)
  <2>1. a \in [0..n -> Models]
    BY <1>12
  <2> QED  BY <2>1, <1>10, <1>11 DEF Updates
<1>14. a[n] = iter[1..n]
  OBVIOUS
<1> QED  BY <1>1, <1>13, <1>14

(***************************************************************************)
(* The baseline of a model whose observations are of ticks up to t.        *)
(***************************************************************************)
LastOf(T) == CHOOSE i \in T : \A j \in T : j <= i

BaselineFits(m) ==
  LET before == {i \in DOMAIN m.observations : m.observations[i].tick < m.release}
  IN m.baseline =
       IF before # {} /\ m.release - m.observations[LastOf(before)].tick <= MaxAge
       THEN m.observations[LastOf(before)].iv ELSE 0

Observes(m, t) ==
  /\ \A i, j \in DOMAIN m.observations :
       i <= j => m.observations[i].tick <= m.observations[j].tick
  /\ \A i \in DOMAIN m.observations : m.observations[i].tick <= t
  /\ m.release <= t

LEMMA LastIs ==
  ASSUME NEW n \in Nat, NEW T, T \subseteq 1..n, T # {}
  PROVE  LastOf(T) \in T /\ \A x \in T : x <= LastOf(T)
<1>1. T \subseteq 0..n
  OBVIOUS
<1>2. Max(T) \in T /\ \A x \in T : x <= Max(T)
  BY <1>1, MaxOf
<1> DEFINE Top(z) == z \in T /\ \A x \in T : x <= z
<1>3. LastOf(T) = CHOOSE z : Top(z)
  BY Zenon DEF LastOf
<1>4. Top(Max(T))
  BY <1>2
<1> HIDE DEF Top
<1>5. Top(LastOf(T))
  BY <1>3, <1>4, Zenon
<1> QED  BY <1>5 DEF Top

LEMMA ObservationsAre ==
  ASSUME NEW m \in Models
  PROVE  /\ Len(m.observations) \in Nat /\ DOMAIN m.observations = 1..Len(m.observations)
         /\ \A i \in DOMAIN m.observations :
              m.observations[i].tick \in Nat /\ m.observations[i].iv \in Nat
         /\ m.release \in Int /\ m.baseline \in Nat
<1>1. m.observations \in Seq(Observed) /\ m.release \in Int /\ m.baseline \in Nat
  BY DEF Models
<1>2. \A i \in DOMAIN m.observations : m.observations[i] \in Observed
  BY <1>1
<1> QED  BY <1>1, <1>2 DEF Observed

(* The last quote that is early and young enough is the last early one, as *)
(* the ones before it are older.                                           *)
LEMMA StepFits ==
  ASSUME NEW m \in Models, NEW t \in Int, Observes(m, t), BaselineFits(m),
         NEW item \in Items, item.tick <= t
  PROVE  /\ Step(m, item) \in Models
         /\ Observes(Step(m, item), t) /\ BaselineFits(Step(m, item))
         /\ Step(m, item).observations = m.observations
<1> DEFINE r == Released(m, item)
           k == Step(m, item)
<1>1. r \in Models /\ r.observations = m.observations
  BY ReleasedIs
<1>2. /\ k \in Models /\ k.observations = m.observations
      /\ k.release = r.release /\ k.baseline = r.baseline
  BY <1>1, LearnedIs DEF Step
<1>3. item.tick \in Int
  BY DEF Items
<1>4. CASE item.tick < m.release
  <2>1. r = m
    BY <1>4, ReleasedIs
  <2> HIDE DEF k, r
  <2>2. k.release = m.release /\ k.baseline = m.baseline
    BY <1>2, <2>1
  <2> QED  BY <1>2, <2>2 DEF Observes, BaselineFits, k
<1>5. CASE ~(item.tick < m.release)
  <2>1. k.release = item.tick /\ k.baseline = Baseline(m, item.tick)
    BY <1>2, <1>5, ReleasedIs
  <2> HIDE DEF k, r
  <2> DEFINE obs == m.observations
             before == {i \in DOMAIN obs : obs[i].tick < item.tick}
             young == {i \in DOMAIN obs : PreNews(obs[i], item.tick)}
             n == Len(obs)
  <2>2. /\ n \in Nat /\ DOMAIN obs = 1..n
        /\ \A i \in 1..n : obs[i].tick \in Nat /\ obs[i].iv \in Nat
    BY ObservationsAre
  <2>3. /\ young = {} => Baseline(m, item.tick) = 0
        /\ young # {} => /\ Max(young) \in young /\ \A i \in young : i <= Max(young)
                         /\ Baseline(m, item.tick) = obs[Max(young)].iv
    BY <1>3, BaselineIs
  <2>4. \A i, j \in 1..n : i <= j => obs[i].tick <= obs[j].tick
    BY <2>2 DEF Observes
  <2>5. before \subseteq 1..n /\ young \subseteq before /\ before \subseteq Int
    BY <2>2 DEF PreNews
  <2>6. \A i \in before : i \in young <=> item.tick - obs[i].tick <= MaxAge
    BY DEF PreNews
  <2>7. \A i \in 1..n : i \in before <=> obs[i].tick < item.tick
    BY <2>2
  <2> HIDE DEF before, young, n, obs
  <2>8. before # {} => LastOf(before) \in before /\ \A i \in before : i <= LastOf(before)
    <3> SUFFICES ASSUME before # {}
                 PROVE  LastOf(before) \in before /\ \A i \in before : i <= LastOf(before)
      OBVIOUS
    <3> QED  BY <2>2, <2>5, LastIs
  <2>9. Baseline(m, item.tick) =
          IF before # {} /\ item.tick - obs[LastOf(before)].tick <= MaxAge
          THEN obs[LastOf(before)].iv ELSE 0
    <3>1. CASE young = {}
      BY <2>3, <2>6, <2>8, <3>1
    <3>2. CASE young # {}
      <4>1. Max(young) \in before /\ LastOf(before) \in before /\ Max(young) <= LastOf(before)
        BY <2>3, <2>5, <2>8, <3>2
      <4>2. obs[Max(young)].tick <= obs[LastOf(before)].tick
        BY <2>4, <2>5, <4>1
      <4>3. item.tick - obs[Max(young)].tick <= MaxAge
        BY <2>3, <2>6, <3>2, <4>1
      <4>4. item.tick - obs[LastOf(before)].tick <= MaxAge
        <5>1. MaxAge \in Nat
          BY VolatilityNewsAssumption
        <5>2. obs[Max(young)].tick \in Nat /\ obs[LastOf(before)].tick \in Nat
          BY <2>2, <2>5, <4>1
        <5> QED  BY <1>3, <4>2, <4>3, <5>1, <5>2
      <4>5. LastOf(before) \in young
        BY <2>6, <4>1, <4>4
      <4>6. Max(young) = LastOf(before)
        <5>1. Max(young) \in Int /\ LastOf(before) \in Int
          BY <2>5, <4>1
        <5>2. LastOf(before) <= Max(young)
          BY <2>3, <3>2, <4>5
        <5> QED  BY <4>1, <5>1, <5>2
      <4> QED  BY <2>3, <3>2, <4>1, <4>4, <4>6
    <3> QED  BY <3>1, <3>2
  <2>10. BaselineFits(k)
    BY <1>2, <2>1, <2>9 DEF BaselineFits, before, obs
  <2>11. Observes(k, t)
    BY <1>2, <2>1 DEF Observes
  <2> QED  BY <1>2, <2>10, <2>11 DEF k
<1> QED  BY <1>4, <1>5

(* A quote of this tick is no earlier than any release there has been.     *)
LEMMA QuoteFits ==
  ASSUME NEW m \in Models, NEW t \in Nat, Observes(m, t), BaselineFits(m), NEW iv \in Nat
  PROVE  LET k == [m EXCEPT !.observations = Append(m.observations, [tick |-> t, iv |-> iv])]
         IN  k \in Models /\ Observes(k, t) /\ BaselineFits(k)
<1> DEFINE o == [tick |-> t, iv |-> iv]
           obs == m.observations
           new == Append(obs, o)
           k == [m EXCEPT !.observations = new]
           n == Len(obs)
<1>1. o \in Observed /\ o.tick = t
  BY DEF Observed
<1>2. obs \in Seq(Observed)
  BY DEF Models
<1> HIDE DEF o, obs
<1>3. /\ new \in Seq(Observed) /\ n \in Nat /\ DOMAIN obs = 1..n /\ DOMAIN new = 1..(n + 1)
      /\ new[n + 1] = o /\ \A i \in 1..n : new[i] = obs[i]
  BY <1>1, <1>2
<1> HIDE DEF new, n
<1>4. k \in Models /\ k.observations = new /\ k.release = m.release /\ k.baseline = m.baseline
  <2> HIDE DEF Observed, Items, WeekValues
  <2> QED  BY <1>3 DEF Models
<1> HIDE DEF k
<1>5. \A i \in 1..n : obs[i].tick \in Nat /\ obs[i].tick <= t
  BY <1>3, ObservationsAre DEF Observes, obs
<1>6. Observes(k, t)
  <2>1. \A i, j \in 1..n : i <= j => new[i].tick <= new[j].tick
    BY <1>3 DEF Observes, obs
  <2>2. \A i \in 1..(n + 1) : new[i].tick <= t
    BY <1>1, <1>3, <1>5
  <2>3. ASSUME NEW i \in 1..(n + 1), NEW j \in 1..(n + 1), i <= j
        PROVE  new[i].tick <= new[j].tick
    <3>1. CASE j = n + 1
      BY <1>1, <1>3, <2>2, <3>1
    <3>2. CASE j # n + 1
      BY <1>3, <2>1, <2>3, <3>2
    <3> QED  BY <3>1, <3>2
  <2> QED  BY <1>3, <1>4, <2>2, <2>3 DEF Observes
<1>7. {i \in DOMAIN new : new[i].tick < m.release} = {i \in DOMAIN obs : obs[i].tick < m.release}
  <2>1. m.release \in Int /\ m.release <= t
    BY ObservationsAre DEF Observes
  <2>2. ~(new[n + 1].tick < m.release)
    BY <1>1, <1>3, <2>1
  <2>3. \A i \in 1..(n + 1) : i = n + 1 \/ i \in 1..n
    BY <1>3
  <2> QED  BY <1>3, <2>2, <2>3
<1>8. BaselineFits(k)
  <2> DEFINE before == {i \in DOMAIN obs : obs[i].tick < m.release}
  <2>1. before \subseteq 1..n
    BY <1>3
  <2>2. m.baseline = IF before # {} /\ m.release - obs[LastOf(before)].tick <= MaxAge
                     THEN obs[LastOf(before)].iv ELSE 0
    BY DEF BaselineFits, obs
  <2>3. {i \in DOMAIN new : new[i].tick < m.release} = before
    BY <1>7
  <2> HIDE DEF before
  <2>4. before # {} => LastOf(before) \in 1..n
    <3> SUFFICES ASSUME before # {} PROVE LastOf(before) \in 1..n
      OBVIOUS
    <3> QED  BY <1>3, <2>1, LastIs
  <2>5. before # {} => new[LastOf(before)] = obs[LastOf(before)]
    BY <1>3, <2>4
  <2>6. m.baseline = IF before # {} /\ m.release - new[LastOf(before)].tick <= MaxAge
                     THEN new[LastOf(before)].iv ELSE 0
    BY <2>2, <2>5
  <2> QED  BY <1>4, <2>3, <2>6 DEF BaselineFits
<1> QED  BY <1>4, <1>6, <1>8 DEF k, new, o, obs

(***************************************************************************)
(* Items in order.                                                         *)
(***************************************************************************)
Distinct(news) == \A x, y \in news : x.id = y.id => x = y

Enumerates(s, news) ==
  /\ s \in [1..Cardinality(news) -> news]
  /\ \A i, j \in 1..Cardinality(news) : i < j => Before(s[i], s[j])
  /\ \A x \in news : \E i \in 1..Cardinality(news) : s[i] = x

Listable(news) == news \subseteq Items /\ IsFiniteSet(news) /\ Distinct(news)

LEMMA BeforeOrders ==
  ASSUME NEW news, Listable(news)
  PROVE  /\ \A x, y \in news : x # y => Before(x, y) \/ Before(y, x)
         /\ \A x, y \in news : Before(x, y) => ~Before(y, x)
         /\ \A x, y, z \in news : Before(x, y) /\ Before(y, z) => Before(x, z)
<1>1. \A x \in news : x.id \in Nat /\ x.tick \in Nat
  BY DEF Items, Listable
<1> QED  BY <1>1 DEF Before, Distinct, Listable

LEMMA InOrderEnumerates ==
  ASSUME NEW news, Listable(news)
  PROVE  Enumerates(InOrder(news), news)
<1> DEFINE n == Cardinality(news)
           R == {p \in news \X news : Before(p[1], p[2])}
           Sorts(q) == q \in [1..n -> news] /\ \A i, j \in DOMAIN q : i < j => Before(q[i], q[j])
<1>1. \A x, y \in news : <<x, y>> \in R <=> Before(x, y)
  OBVIOUS
<1> HIDE DEF R
<1>2. PutsInOrder(R, news)
  BY <1>1, BeforeOrders DEF PutsInOrder
<1>3. IsFiniteSet(news) /\ n \in Nat
  BY FS_CardinalityType DEF Listable
<1>4. PICK q \in [1..n -> news] : Ordered(q, R)
  BY <1>2, <1>3, SortedExists
<1>5. Sorts(q)
  BY <1>1, <1>4 DEF Ordered
<1> DEFINE o == InOrder(news)
<1>6. o = CHOOSE t : Sorts(t)
  BY Zenon DEF InOrder
<1> HIDE DEF Sorts, o
<1>7. Sorts(o)
  BY <1>5, <1>6, Zenon
<1>8. o \in [1..n -> news] /\ \A i, j \in 1..n : i < j => Before(o[i], o[j])
  BY <1>7 DEF Sorts
<1>9. o \in Surjection(1..n, news)
  <2>1. \A i, j \in 1..n : o[i] = o[j] => i = j
    <3> SUFFICES ASSUME NEW i \in 1..n, NEW j \in 1..n, o[i] = o[j], i # j PROVE FALSE
      OBVIOUS
    <3>1. o[i] \in news /\ (Before(o[i], o[j]) \/ Before(o[j], o[i]))
      BY <1>3, <1>8
    <3> QED  BY <3>1, BeforeOrders
  <2>2. o \in Injection(1..n, news)
    BY <1>8, <2>1 DEF Injection, IsInjective
  <2>3. Cardinality(1..n) = n
    BY <1>3, FS_Interval
  <2> QED  BY <1>3, <2>2, <2>3, FS_Injection
<1>10. \A x \in news : \E i \in 1..n : o[i] = x
  BY <1>9 DEF Surjection
<1> QED  BY <1>8, <1>10 DEF Enumerates, o, n

LEMMA OneOrder ==
  ASSUME NEW news, Listable(news), NEW s, NEW t, Enumerates(s, news), Enumerates(t, news)
  PROVE  s = t
<1> DEFINE n == Cardinality(news)
           Differ == {i \in 1..n : s[i] # t[i]}
<1>1. n \in Nat
  BY FS_CardinalityType DEF Listable
<1>2. /\ s \in [1..n -> news] /\ \A i, j \in 1..n : i < j => Before(s[i], s[j])
      /\ \A x \in news : \E i \in 1..n : s[i] = x
      /\ t \in [1..n -> news] /\ \A i, j \in 1..n : i < j => Before(t[i], t[j])
      /\ \A x \in news : \E i \in 1..n : t[i] = x
  BY DEF Enumerates
<1> HIDE DEF n
<1>3. Differ = {}
  <2> SUFFICES ASSUME Differ # {} PROVE FALSE
    OBVIOUS
  <2>1. PICK i \in Differ : \A j \in Differ : i <= j
    <3>1. Differ \subseteq Nat
      BY <1>1
    <3> HIDE DEF Differ
    <3> QED  BY <3>1, LeastOfNaturals
  <2>2. i \in 1..n /\ s[i] # t[i] /\ \A j \in 1..n : j < i => s[j] = t[j]
    BY <1>1, <2>1
  <2>3. PICK j \in 1..n : t[j] = s[i]
    BY <1>2, <2>2
  <2>4. PICK k \in 1..n : s[k] = t[i]
    BY <1>2, <2>2
  <2>5. s[i] \in news /\ t[i] \in news
    BY <1>2, <2>2
  <2>6. j > i
    <3>1. j # i
      BY <2>2, <2>3
    <3>2. ~(j < i)
      <4> SUFFICES ASSUME j < i PROVE FALSE
        OBVIOUS
      <4>1. s[j] = s[i] /\ Before(s[j], s[i])
        BY <1>2, <2>2, <2>3
      <4> QED  BY <2>5, <4>1, BeforeOrders
    <3> QED  BY <1>1, <3>1, <3>2
  <2>7. k > i
    <3>1. k # i
      BY <2>2, <2>4
    <3>2. ~(k < i)
      <4> SUFFICES ASSUME k < i PROVE FALSE
        OBVIOUS
      <4>1. t[k] = t[i] /\ Before(t[k], t[i])
        BY <1>2, <2>2, <2>4
      <4> QED  BY <2>5, <4>1, BeforeOrders
    <3> QED  BY <1>1, <3>1, <3>2
  <2>8. Before(t[i], s[i]) /\ Before(s[i], t[i])
    BY <1>2, <2>2, <2>3, <2>4, <2>6, <2>7
  <2> QED  BY <2>5, <2>8, BeforeOrders
<1>4. \A i \in 1..n : s[i] = t[i]
  BY <1>3
<1> HIDE DEF Differ
<1>5. s = [i \in 1..n |-> s[i]] /\ t = [i \in 1..n |-> t[i]]
  BY <1>2
<1> QED  BY <1>4, <1>5

(* The order of a set of which one part comes before the other.            *)
LEMMA InOrderJoins ==
  ASSUME NEW A, NEW B, Listable(A \cup B), \A x \in A, y \in B : Before(x, y)
  PROVE  LET m == Cardinality(A)
             n == Cardinality(B)
         IN  /\ m \in Nat /\ n \in Nat
             /\ InOrder(A \cup B) \in [1..(m + n) -> A \cup B]
             /\ Enumerates(InOrder(A), A) /\ Enumerates(InOrder(B), B)
             /\ \A i \in 1..m : InOrder(A \cup B)[i] = InOrder(A)[i]
             /\ \A i \in 1..n : InOrder(A \cup B)[m + i] = InOrder(B)[i]
<1> DEFINE m == Cardinality(A)
           n == Cardinality(B)
           a == InOrder(A)
           b == InOrder(B)
           t == [i \in 1..(m + n) |-> IF i <= m THEN a[i] ELSE b[i - m]]
<1>1. Listable(A) /\ Listable(B)
  <2>1. IsFiniteSet(A) /\ IsFiniteSet(B)
    BY FS_Subset DEF Listable
  <2> QED  BY <2>1 DEF Listable, Distinct
<1>2. m \in Nat /\ n \in Nat
  BY <1>1, FS_CardinalityType DEF Listable
<1>3. A \cap B = {}
  BY BeforeOrders
<1>4. Cardinality(A \cup B) = m + n
  <2>1. Cardinality(A \cap B) = 0
    BY <1>3, FS_EmptySet
  <2>2. Cardinality(A \cup B) = m + n - Cardinality(A \cap B)
    BY <1>1, FS_Union DEF Listable
  <2> QED  BY <1>2, <2>1, <2>2
<1>5. Enumerates(a, A) /\ Enumerates(b, B)
  BY <1>1, InOrderEnumerates
<1> HIDE DEF a, b
<1>6. /\ a \in [1..m -> A] /\ \A i, j \in 1..m : i < j => Before(a[i], a[j])
      /\ \A x \in A : \E i \in 1..m : a[i] = x
      /\ b \in [1..n -> B] /\ \A i, j \in 1..n : i < j => Before(b[i], b[j])
      /\ \A x \in B : \E i \in 1..n : b[i] = x
  BY <1>5 DEF Enumerates
<1> HIDE DEF m, n
<1>7. \A i \in 1..(m + n) : (i <= m => i \in 1..m) /\ (~(i <= m) => i - m \in 1..n)
  BY <1>2
<1>8. t \in [1..(m + n) -> A \cup B]
  BY <1>6, <1>7
<1>9. /\ \A i \in 1..m : i \in 1..(m + n) /\ i <= m /\ t[i] = a[i]
      /\ \A i \in 1..n : m + i \in 1..(m + n) /\ ~(m + i <= m) /\ (m + i) - m = i
  BY <1>2
<1>10. \A i \in 1..n : t[m + i] = b[i]
  BY <1>9
<1>11. \A i \in 1..(m + n) : t[i] = IF i <= m THEN a[i] ELSE b[i - m]
  OBVIOUS
<1> HIDE DEF t
<1>12. ASSUME NEW i \in 1..(m + n), NEW j \in 1..(m + n), i < j PROVE Before(t[i], t[j])
  <2>1. CASE j <= m
    <3>1. i \in 1..m /\ j \in 1..m
      BY <1>2, <1>12, <2>1
    <3> QED  BY <1>6, <1>9, <1>12, <3>1
  <2>2. CASE ~(j <= m) /\ i <= m
    <3>1. t[i] \in A /\ t[j] \in B
      BY <1>6, <1>7, <1>11, <2>2
    <3> QED  BY <3>1
  <2>3. CASE ~(i <= m)
    <3>1. /\ i - m \in 1..n /\ j - m \in 1..n /\ i - m < j - m
          /\ t[i] = b[i - m] /\ t[j] = b[j - m]
      BY <1>2, <1>7, <1>11, <1>12, <2>3
    <3> QED  BY <1>6, <3>1
  <2> QED  BY <1>2, <2>1, <2>2, <2>3
<1>13. ASSUME NEW x \in A \cup B PROVE \E i \in 1..(m + n) : t[i] = x
  <2>1. CASE x \in A
    BY <1>6, <1>9, <2>1
  <2>2. CASE x \in B
    <3>1. PICK i \in 1..n : b[i] = x
      BY <1>6, <2>2
    <3> QED  BY <1>9, <1>10, <3>1
  <2> QED  BY <2>1, <2>2
<1>14. Enumerates(t, A \cup B)
  BY <1>4, <1>8, <1>12, <1>13 DEF Enumerates, m, n
<1>15. InOrder(A \cup B) = t
  BY <1>14, InOrderEnumerates, OneOrder
<1> QED  BY <1>2, <1>5, <1>8, <1>9, <1>10, <1>15 DEF a, b, m, n

(***************************************************************************)
(* weekly_schedule, one item at a time.                                    *)
(***************************************************************************)
Readings == {Reading(s) : s \in Told} \cup {UnknownWeek}
Schedules == [AllWeeks -> Readings]
Unknown == [w \in AllWeeks |-> UnknownWeek]

Scheduling(a, base, s, n) ==
  /\ a \in [0..n -> Schedules] /\ a[0] = base
  /\ \A i \in 1..n : a[i] = Scheduled(a[i - 1], s[i])

LEMMA ScheduledIs ==
  ASSUME NEW k \in Schedules, NEW item \in Items
  PROVE  Scheduled(k, item) \in Schedules
<1>1. ASSUME NEW w \in AllWeeks, \E s \in ParseNews(item) : s.week = w
      PROVE  Reading(CHOOSE s \in ParseNews(item) : s.week = w) \in Readings
  <2> DEFINE c == CHOOSE s \in ParseNews(item) : s.week = w
  <2>1. c \in ParseNews(item)
    BY <1>1
  <2> HIDE DEF c
  <2>2. c \in Told
    BY <2>1 DEF Told
  <2>3. Reading(c) \in Readings
    BY <2>2 DEF Readings
  <2> QED  BY <2>3 DEF c
<1>2. \A w \in AllWeeks : k[w] \in Readings
  BY DEF Schedules
<1>3. ASSUME NEW w \in AllWeeks
      PROVE  (IF \E s \in ParseNews(item) :
                   s.week = w /\ (s.kind = "ACTUAL" \/ k[w].kind # "ACTUAL")
              THEN Reading(CHOOSE s \in ParseNews(item) : s.week = w)
              ELSE k[w]) \in Readings
  BY <1>1, <1>2
<1> QED  BY <1>3 DEF Scheduled, Schedules

LEMMA ScheduleFolds ==
  ASSUME NEW base \in Schedules, NEW n \in Nat, NEW s \in [1..n -> Items]
  PROVE  \E a : Scheduling(a, base, s, n) /\ FoldLeft(Scheduled, base, s) = a[n]
<1> DEFINE F(g) == [T \in SUBSET (1..n) |->
                      IF T = {} THEN base
                      ELSE Scheduled(g[T \ {Max(T)}], s[Max(T)])]
           iter == CHOOSE g : g = F(g)
           f == [p \in Schedules \X (1..n) |-> Scheduled(p[1], s[p[2]])]
<1>1. FoldLeft(Scheduled, base, s) = iter[1..n]
  <2>1. DOMAIN s = 1..n
    OBVIOUS
  <2> QED  BY <2>1, Zenon DEF FoldLeft, MapThenFoldSet
<1>2. \A k \in Schedules, item \in Items : Scheduled(k, item) \in Schedules
  BY ScheduledIs
<1>3. f \in [Schedules \X (1..n) -> Schedules]
  BY <1>2
<1>4. \A k \in Schedules, i \in 1..n : f[<<k, i>>] = Scheduled(k, s[i])
  OBVIOUS
<1> HIDE DEF f
<1>5. PICK g \in [SUBSET (1..n) -> Schedules] : Accumulates(g, base, f, n)
  BY <1>3, FoldExists
<1>6. \A T \in SUBSET (1..n) : T # {} => Max(T) \in 1..n /\ T \ {Max(T)} \in SUBSET (1..n)
  <2> SUFFICES ASSUME NEW T \in SUBSET (1..n), T # {} PROVE Max(T) \in T
    OBVIOUS
  <2>1. T \subseteq 0..n
    OBVIOUS
  <2> QED  BY <2>1, MaxOf
<1>7. g = F(g)
  <2>1. ASSUME NEW T \in SUBSET (1..n)
        PROVE  g[T] = IF T = {} THEN base ELSE Scheduled(g[T \ {Max(T)}], s[Max(T)])
    BY <1>4, <1>5, <1>6 DEF Accumulates
  <2>2. g = [T \in SUBSET (1..n) |-> g[T]]
    BY <1>5
  <2> QED  BY <2>1, <2>2
<1>8. iter = F(iter)
  <2> HIDE DEF F
  <2> QED  BY <1>7, Zenon
<1>9. ASSUME NEW T \in SUBSET (1..n)
      PROVE  iter[T] = IF T = {} THEN base ELSE Scheduled(iter[T \ {Max(T)}], s[Max(T)])
  <2> DEFINE k == iter
  <2>1. k = F(k)
    BY <1>8
  <2> HIDE DEF k
  <2>2. k[T] = IF T = {} THEN base ELSE Scheduled(k[T \ {Max(T)}], s[Max(T)])
    BY <2>1, Zenon
  <2> QED  BY <2>2 DEF k
<1> HIDE DEF iter, F
<1> DEFINE a == [i \in 0..n |-> iter[1..i]]
           P == {i \in 0..n : iter[1..i] \in Schedules}
<1>10. iter[1..0] = base
  BY <1>9, 1..0 = {}
<1>11. ASSUME NEW i \in 1..n PROVE iter[1..i] = Scheduled(iter[1..(i - 1)], s[i])
  <2>1. 1..i \in SUBSET (1..n)
    OBVIOUS
  <2>2. i \in Nat \ {0}
    OBVIOUS
  <2>3. Max(1..i) = i /\ (1..i) \ {i} = 1..(i - 1) /\ 1..i # {}
    BY <2>2, Segment
  <2> QED  BY <1>9, <2>1, <2>3
<1>12. 0..n \subseteq P
  <2>1. 0 \in P
    BY <1>10
  <2>2. ASSUME NEW i \in 1..n, i - 1 \in P PROVE i \in P
    BY <1>2, <1>11, <2>2
  <2> HIDE DEF P
  <2> QED  BY <2>1, <2>2, UpTo
<1>13. Scheduling(a, base, s, n)
  <2>1. a \in [0..n -> Schedules]
    BY <1>12
  <2> QED  BY <2>1, <1>10, <1>11 DEF Scheduling
<1>14. a[n] = iter[1..n]
  OBVIOUS
<1> QED  BY <1>1, <1>13, <1>14

(* Two passes over sequences that agree so far have come to the same.      *)
LEMMA SchedulesAgree ==
  ASSUME NEW base, NEW n \in Nat, NEW k \in 0..n, NEW s, NEW t, NEW a, NEW b,
         Scheduling(a, base, s, n), Scheduling(b, base, t, k),
         \A i \in 1..k : s[i] = t[i]
  PROVE  a[k] = b[k]
<1> DEFINE P == {i \in 0..k : a[i] = b[i]}
<1>1. 0 \in P
  BY DEF Scheduling
<1>2. ASSUME NEW i \in 1..k, i - 1 \in P PROVE i \in P
  <2>1. a[i] = Scheduled(a[i - 1], s[i]) /\ b[i] = Scheduled(b[i - 1], t[i])
    BY DEF Scheduling
  <2> QED  BY <1>2, <2>1
<1> HIDE DEF P
<1>3. 0..k \subseteq P
  BY <1>1, <1>2, UpTo
<1> QED  BY <1>3 DEF P

(***************************************************************************)
(* What the model knows of the weeks, next to the schedule of its items.   *)
(***************************************************************************)
ModelReadings(m) == [w \in AllWeeks |-> Reading(m.weeks[w])]

LEMMA ReadingOfWeek ==
  ASSUME NEW t, NEW s
  PROVE  Week(t, s).tick = t /\ Week(t, s).kind = s.kind /\ Reading(Week(t, s)) = Reading(s)
BY DEF Week, Reading

LEMMA WeekValuesAre ==
  ASSUME NEW v \in WeekValues
  PROVE  v.tick \in Int /\ Reading(v) \in Readings /\ Reading(v).kind = v.kind
<1>1. CASE v = Week(-1, UnknownWeek)
  <2>1. v.tick = -1 /\ Reading(v) = Reading(UnknownWeek) /\ v.kind = UnknownWeek.kind
    BY <1>1, ReadingOfWeek
  <2>2. Reading(UnknownWeek) = UnknownWeek /\ UnknownWeek \in Readings
    BY DEF Reading, UnknownWeek, Readings
  <2> QED  BY <2>1, <2>2
<1>2. CASE \E t \in Int, s \in Told : v = Week(t, s)
  <2>1. PICK t \in Int, s \in Told : v = Week(t, s)
    BY <1>2
  <2>2. v.tick = t /\ Reading(v) = Reading(s) /\ v.kind = s.kind
    BY <2>1, ReadingOfWeek
  <2>3. Reading(s) \in Readings /\ Reading(s).kind = s.kind
    BY DEF Reading, Readings
  <2> QED  BY <2>2, <2>3
<1> QED  BY <1>1, <1>2 DEF WeekValues

LEMMA ModelReadingsIs ==
  ASSUME NEW m \in Models
  PROVE  /\ ModelReadings(m) \in Schedules
         /\ \A w \in AllWeeks : /\ m.weeks[w].tick \in Int
                                /\ ModelReadings(m)[w] = Reading(m.weeks[w])
                                /\ ModelReadings(m)[w].kind = m.weeks[w].kind
<1>1. \A w \in AllWeeks : m.weeks[w] \in WeekValues
  <2>1. m.weeks \in [AllWeeks -> WeekValues]
    BY DEF Models
  <2> QED  BY <2>1
<1>2. \A w \in AllWeeks : /\ m.weeks[w].tick \in Int /\ Reading(m.weeks[w]) \in Readings
                          /\ Reading(m.weeks[w]).kind = m.weeks[w].kind
  BY <1>1, WeekValuesAre
<1> QED  BY <1>2 DEF ModelReadings, Schedules

(* An item no older than what is known changes the weeks as weekly_schedule*)
(* does.                                                                   *)
LEMMA StepSchedules ==
  ASSUME NEW m \in Models, NEW item \in Items,
         \A w \in AllWeeks : m.weeks[w].tick <= item.tick
  PROVE  /\ ModelReadings(Step(m, item)) = Scheduled(ModelReadings(m), item)
         /\ \A w \in AllWeeks : \/ Step(m, item).weeks[w].tick = m.weeks[w].tick
                                \/ Step(m, item).weeks[w].tick = item.tick
<1> DEFINE r == Released(m, item)
           k == Step(m, item)
           Stated(w) == CHOOSE s \in ParseNews(item) : s.week = w
<1>1. r \in Models /\ r.weeks = m.weeks
  BY ReleasedIs
<1>2. \A w \in AllWeeks :
        k.weeks[w] = IF Rewrites(r, item, w) THEN Week(item.tick, Stated(w)) ELSE r.weeks[w]
  BY <1>1, LearnedIs DEF Step
<1>3. ASSUME NEW w \in AllWeeks
      PROVE  Rewrites(r, item, w) <=>
               \E s \in ParseNews(item) :
                 s.week = w /\ (s.kind = "ACTUAL" \/ ModelReadings(m)[w].kind # "ACTUAL")
  <2>1. r.weeks[w] = m.weeks[w] /\ m.weeks[w].tick <= item.tick
    BY <1>1
  <2>2. ModelReadings(m)[w].kind = m.weeks[w].kind
    BY ModelReadingsIs
  <2> HIDE DEF r
  <2> QED  BY <2>1, <2>2 DEF Rewrites, Overrides
<1> HIDE DEF r, k, Stated
<1>4. ASSUME NEW w \in AllWeeks
      PROVE  /\ Reading(k.weeks[w]) = Scheduled(ModelReadings(m), item)[w]
             /\ k.weeks[w].tick = m.weeks[w].tick \/ k.weeks[w].tick = item.tick
  <2>1. Scheduled(ModelReadings(m), item)[w] =
          IF Rewrites(r, item, w) THEN Reading(Stated(w)) ELSE ModelReadings(m)[w]
    BY <1>3 DEF Scheduled, Stated
  <2>2. CASE Rewrites(r, item, w)
    <3>1. k.weeks[w] = Week(item.tick, Stated(w))
      BY <1>2, <2>2
    <3> QED  BY <2>1, <2>2, <3>1, ReadingOfWeek
  <2>3. CASE ~Rewrites(r, item, w)
    <3>1. k.weeks[w] = m.weeks[w]
      BY <1>1, <1>2, <2>3
    <3> QED  BY <2>1, <2>3, <3>1, ModelReadingsIs
  <2> QED  BY <2>2, <2>3
<1>5. Scheduled(ModelReadings(m), item) = [w \in AllWeeks |-> Scheduled(ModelReadings(m), item)[w]]
  BY DEF Scheduled
<1>6. ModelReadings(k) = Scheduled(ModelReadings(m), item)
  BY <1>4, <1>5 DEF ModelReadings
<1> QED  BY <1>4, <1>6 DEF k

(* A pass over the items that came in.                                     *)
Passed(m, s) == FoldLeft(LAMBDA k, item : Learned(Released(k, item), item), m, s)

LEMMA PassFolds ==
  ASSUME NEW m \in Models, NEW incoming, Listable(incoming)
  PROVE  LET n == Cardinality(incoming)
             v == InOrder(incoming)
         IN  /\ n \in Nat /\ Enumerates(v, incoming) /\ v \in [1..n -> incoming]
             /\ v \in [1..n -> Items]
             /\ \E a : Updates(a, m, v, n) /\ Passed(m, v) = a[n]
<1> DEFINE n == Cardinality(incoming)
           v == InOrder(incoming)
<1>1. Enumerates(v, incoming) /\ n \in Nat
  BY InOrderEnumerates, FS_CardinalityType DEF Listable
<1>2. v \in [1..n -> incoming] /\ incoming \subseteq Items
  BY <1>1 DEF Enumerates, Listable
<1>3. v \in [1..n -> Items]
  <2> HIDE DEF v, n, Items
  <2> QED  BY <1>2
<1> HIDE DEF v, n
<1>4. \E a : Updates(a, m, v, n) /\ Passed(m, v) = a[n]
  BY <1>1, <1>3, UpdateFolds DEF Passed
<1> QED  BY <1>1, <1>2, <1>3, <1>4 DEF v, n

LEMMA StepLearns ==
  ASSUME NEW m \in Models, NEW item \in Items
  PROVE  /\ Step(m, item) \in Models /\ Step(m, item).seen = m.seen \cup {item}
         /\ Step(m, item).observations = m.observations
<1>1. /\ Released(m, item) \in Models /\ Released(m, item).seen = m.seen
      /\ Released(m, item).observations = m.observations
  BY ReleasedIs
<1> QED  BY <1>1, LearnedIs DEF Step

LEMMA PassLearns ==
  ASSUME NEW m \in Models, NEW incoming, Listable(incoming)
  PROVE  LET k == Passed(m, InOrder(incoming))
         IN  k \in Models /\ k.seen = m.seen \cup incoming /\ k.observations = m.observations
<1> DEFINE n == Cardinality(incoming)
           v == InOrder(incoming)
<1>1. /\ n \in Nat /\ Enumerates(v, incoming) /\ v \in [1..n -> Items]
      /\ \E a : Updates(a, m, v, n) /\ Passed(m, v) = a[n]
  BY PassFolds
<1> HIDE DEF n, v
<1>2. PICK a : Updates(a, m, v, n) /\ Passed(m, v) = a[n]
  BY <1>1
<1> DEFINE P == {i \in 0..n : /\ a[i] \in Models /\ a[i].observations = m.observations
                              /\ a[i].seen = m.seen \cup {v[j] : j \in 1..i}}
<1>3. 0 \in P
  BY <1>1, <1>2 DEF Updates
<1>4. ASSUME NEW i \in 1..n, i - 1 \in P PROVE i \in P
  <2>1. a[i] = Step(a[i - 1], v[i]) /\ a[i - 1] \in Models /\ v[i] \in Items
    BY <1>1, <1>2, <1>4 DEF Updates
  <2>2. /\ a[i] \in Models /\ a[i].seen = a[i - 1].seen \cup {v[i]}
        /\ a[i].observations = a[i - 1].observations
    BY <2>1, StepLearns
  <2>3. {v[j] : j \in 1..(i - 1)} \cup {v[i]} = {v[j] : j \in 1..i}
    <3>1. i \in Nat /\ i >= 1
      OBVIOUS
    <3>2. \A j : j \in 1..i <=> j \in 1..(i - 1) \/ j = i
      BY <3>1
    <3> QED  BY <3>2
  <2>4. a[i - 1].seen = m.seen \cup {v[j] : j \in 1..(i - 1)} /\ a[i - 1].observations = m.observations
    BY <1>4
  <2>5. a[i].seen = m.seen \cup {v[j] : j \in 1..i}
    BY <2>2, <2>3, <2>4
  <2> QED  BY <2>2, <2>4, <2>5
<1>5. 0..n \subseteq P
  <2> HIDE DEF P
  <2> QED  BY <1>1, <1>3, <1>4, UpTo
<1>6. n \in P
  BY <1>1, <1>5
<1>7. {v[j] : j \in 1..n} = incoming
  BY <1>1 DEF Enumerates, n
<1> QED  BY <1>2, <1>6, <1>7 DEF v

(* The weeks after a pass over items that all follow the ones before: they *)
(* are the schedule of both.                                               *)
TicksOfSeen(m) ==
  \A w \in AllWeeks : m.weeks[w].tick = -1 \/ \E x \in m.seen : m.weeks[w].tick = x.tick

ScheduleOf(news) == FoldLeft(Scheduled, Unknown, InOrder(news))

LEMMA ScheduleOfIs ==
  ASSUME NEW news, Listable(news)
  PROVE  \E a : /\ Scheduling(a, Unknown, InOrder(news), Cardinality(news))
                /\ ScheduleOf(news) = a[Cardinality(news)]
<1>1. Unknown \in Schedules
  BY DEF Unknown, Schedules, Readings
<1>2. Enumerates(InOrder(news), news) /\ Cardinality(news) \in Nat
  BY InOrderEnumerates, FS_CardinalityType DEF Listable
<1> DEFINE v == InOrder(news)
           n == Cardinality(news)
<1>3. v \in [1..n -> news] /\ news \subseteq Items
  BY <1>2 DEF Enumerates, Listable
<1> HIDE DEF v, n
<1>4. v \in [1..n -> Items]
  <2> HIDE DEF Items
  <2> QED  BY <1>3
<1>5. n \in Nat
  BY <1>2 DEF n
<1>6. \E a : Scheduling(a, Unknown, v, n) /\ FoldLeft(Scheduled, Unknown, v) = a[n]
  BY <1>1, <1>4, <1>5, ScheduleFolds
<1> QED  BY <1>6 DEF ScheduleOf, v, n

LEMMA PassSchedules ==
  ASSUME NEW m \in Models, NEW incoming, Listable(m.seen \cup incoming),
         \A x \in m.seen, y \in incoming : Before(x, y),
         TicksOfSeen(m), ModelReadings(m) = ScheduleOf(m.seen)
  PROVE  LET k == Passed(m, InOrder(incoming))
         IN  TicksOfSeen(k) /\ ModelReadings(k) = ScheduleOf(m.seen \cup incoming)
<1> DEFINE both == m.seen \cup incoming
           p == Cardinality(m.seen)
           n == Cardinality(incoming)
           u == InOrder(both)
           s == InOrder(m.seen)
           v == InOrder(incoming)
<1>1. /\ p \in Nat /\ n \in Nat
      /\ \A i \in 1..p : u[i] = s[i]
      /\ \A i \in 1..n : u[p + i] = v[i]
      /\ u \in [1..(p + n) -> both] /\ Enumerates(v, incoming)
  <2>1. LET k == Cardinality(m.seen)
            l == Cardinality(incoming)
        IN  /\ k \in Nat /\ l \in Nat
            /\ InOrder(m.seen \cup incoming) \in [1..(k + l) -> m.seen \cup incoming]
            /\ Enumerates(InOrder(m.seen), m.seen) /\ Enumerates(InOrder(incoming), incoming)
            /\ \A i \in 1..k : InOrder(m.seen \cup incoming)[i] = InOrder(m.seen)[i]
            /\ \A i \in 1..l : InOrder(m.seen \cup incoming)[k + i] = InOrder(incoming)[i]
    BY InOrderJoins, Zenon
  <2> QED  BY <2>1, Zenon
<1>2. Listable(m.seen) /\ Listable(incoming)
  <2>1. IsFiniteSet(m.seen) /\ IsFiniteSet(incoming)
    BY FS_Subset DEF Listable
  <2> QED  BY <2>1 DEF Listable, Distinct
<1>3. Cardinality(both) = p + n
  <2>1. m.seen \cap incoming = {}
    BY BeforeOrders
  <2>2. Cardinality(m.seen \cap incoming) = 0
    BY <2>1, FS_EmptySet
  <2>3. Cardinality(both) = p + n - Cardinality(m.seen \cap incoming)
    BY <1>2, FS_Union DEF Listable
  <2> QED  BY <1>1, <2>2, <2>3
<1>4. \E c : Scheduling(c, Unknown, s, p) /\ ScheduleOf(m.seen) = c[p]
  BY <1>2, ScheduleOfIs
<1>5. \E b : Scheduling(b, Unknown, u, p + n) /\ ScheduleOf(both) = b[p + n]
  BY <1>3, ScheduleOfIs
<1>6. v \in [1..n -> Items] /\ \E a : Updates(a, m, v, n) /\ Passed(m, v) = a[n]
  BY <1>2, PassFolds
<1>7. v \in [1..n -> incoming] /\ \A i, j \in 1..n : i < j => Before(v[i], v[j])
  BY <1>1 DEF Enumerates
<1> HIDE DEF p, n, u, s, v
<1>8. PICK c : Scheduling(c, Unknown, s, p) /\ ScheduleOf(m.seen) = c[p]
  BY <1>4
<1>9. PICK b : Scheduling(b, Unknown, u, p + n) /\ ScheduleOf(both) = b[p + n]
  BY <1>5
<1>10. PICK a : Updates(a, m, v, n) /\ Passed(m, v) = a[n]
  BY <1>6
<1>11. b[p] = ModelReadings(m)
  <2>1. p + n \in Nat /\ p \in 0..(p + n)
    BY <1>1
  <2>2. b[p] = c[p]
    BY <1>1, <1>8, <1>9, <2>1, SchedulesAgree
  <2> QED  BY <1>8, <2>2
<1> DEFINE Ticks(i) == \A w \in AllWeeks :
                         \/ a[i].weeks[w].tick = -1
                         \/ \E x \in m.seen : a[i].weeks[w].tick = x.tick
                         \/ \E j \in 1..i : a[i].weeks[w].tick = v[j].tick
           P == {i \in 0..n : ModelReadings(a[i]) = b[p + i] /\ Ticks(i)}
<1>12. 0 \in P
  <2>1. a[0] = m /\ p + 0 = p /\ 0 \in 0..n
    BY <1>1, <1>10 DEF Updates
  <2>2. Ticks(0)
    BY <2>1 DEF TicksOfSeen
  <2> QED  BY <1>11, <2>1, <2>2
<1>13. ASSUME NEW i \in 1..n, i - 1 \in P PROVE i \in P
  <2> DEFINE h == i - 1
  <2>1. h \in 0..n /\ ModelReadings(a[h]) = b[p + h] /\ Ticks(h) /\ i \in 0..n
    BY <1>1, <1>13
  <2>2. a[i] = Step(a[h], v[i]) /\ a[h] \in Models /\ v[i] \in Items /\ v[i] \in incoming
    BY <1>6, <1>7, <1>10, <2>1 DEF Updates
  <2>3. \A j \in 1..h : j \in 1..n /\ j < i /\ j \in 1..i
    BY <1>1
  <2>4. p + i \in 1..(p + n) /\ (p + i) - 1 = p + h
    BY <1>1
  <2>5. b[p + i] = Scheduled(b[p + h], v[i])
    BY <1>1, <1>9, <2>4 DEF Scheduling
  <2> HIDE DEF P, h
  <2>6. \A x \in m.seen \cup incoming : x.tick \in Nat
    BY DEF Listable, Items
  <2>7. ASSUME NEW w \in AllWeeks PROVE a[h].weeks[w].tick <= v[i].tick
    <3>1. v[i].tick \in Nat
      BY <2>2, <2>6
    <3>2. CASE a[h].weeks[w].tick = -1
      BY <3>1, <3>2
    <3>3. CASE \E x \in m.seen : a[h].weeks[w].tick = x.tick
      <4>1. PICK x \in m.seen : a[h].weeks[w].tick = x.tick
        BY <3>3
      <4>2. Before(x, v[i]) /\ x.tick \in Nat
        BY <2>2, <2>6
      <4> QED  BY <3>1, <4>1, <4>2 DEF Before
    <3>4. CASE \E j \in 1..h : a[h].weeks[w].tick = v[j].tick
      <4>1. PICK j \in 1..h : a[h].weeks[w].tick = v[j].tick
        BY <3>4
      <4>2. j \in 1..n /\ j < i
        BY <2>3
      <4>3. Before(v[j], v[i]) /\ v[j] \in incoming
        BY <1>7, <4>2
      <4>4. v[j].tick \in Nat
        BY <2>6, <4>3
      <4> QED  BY <3>1, <4>1, <4>3, <4>4 DEF Before
    <3> QED  BY <2>1, <3>2, <3>3, <3>4
  <2>8. /\ ModelReadings(a[i]) = Scheduled(ModelReadings(a[h]), v[i])
        /\ \A w \in AllWeeks : \/ a[i].weeks[w].tick = a[h].weeks[w].tick
                               \/ a[i].weeks[w].tick = v[i].tick
    BY <2>2, <2>7, StepSchedules
  <2>9. Ticks(i)
    <3>1. i \in 1..i
      OBVIOUS
    <3> SUFFICES ASSUME NEW w \in AllWeeks
                 PROVE  \/ a[i].weeks[w].tick = -1
                        \/ \E x \in m.seen : a[i].weeks[w].tick = x.tick
                        \/ \E j \in 1..i : a[i].weeks[w].tick = v[j].tick
      OBVIOUS
    <3> QED  BY <2>1, <2>3, <2>8, <3>1
  <2> QED  BY <2>1, <2>5, <2>8, <2>9 DEF P
<1>14. n \in P
  <2> HIDE DEF P
  <2>1. 0..n \subseteq P
    BY <1>1, <1>12, <1>13, UpTo
  <2> QED  BY <1>1, <2>1
<1>15. Passed(m, v) = a[n] /\ ModelReadings(a[n]) = ScheduleOf(both)
  BY <1>9, <1>10, <1>14
<1>16. a[n].seen = both
  BY <1>2, <1>10, PassLearns DEF v
<1>17. TicksOfSeen(a[n])
  <2>1. Ticks(n) /\ \A j \in 1..n : v[j] \in both
    BY <1>7, <1>14
  <2> QED  BY <1>16, <2>1 DEF TicksOfSeen
<1> QED  BY <1>15, <1>17 DEF v

(* The update of a poll: the pass, and the quote behind the observations.  *)
LEMMA PassFits ==
  ASSUME NEW m \in Models, NEW t \in Int, Observes(m, t), BaselineFits(m),
         NEW incoming, Listable(incoming), \A x \in incoming : x.tick <= t
  PROVE  LET k == Passed(m, InOrder(incoming)) IN Observes(k, t) /\ BaselineFits(k)
<1> DEFINE n == Cardinality(incoming)
           v == InOrder(incoming)
<1>1. /\ n \in Nat /\ v \in [1..n -> incoming] /\ v \in [1..n -> Items]
      /\ \E a : Updates(a, m, v, n) /\ Passed(m, v) = a[n]
  BY PassFolds
<1> HIDE DEF n, v
<1>2. PICK a : Updates(a, m, v, n) /\ Passed(m, v) = a[n]
  BY <1>1
<1> DEFINE P == {i \in 0..n : a[i] \in Models /\ Observes(a[i], t) /\ BaselineFits(a[i])}
<1>3. 0 \in P
  BY <1>1, <1>2 DEF Updates
<1>4. ASSUME NEW i \in 1..n, i - 1 \in P PROVE i \in P
  <2> DEFINE h == a[i - 1]
  <2>1. /\ a[i] = Step(h, v[i]) /\ v[i] \in Items /\ v[i].tick <= t
        /\ h \in Models /\ Observes(h, t) /\ BaselineFits(h)
    BY <1>1, <1>2, <1>4 DEF Updates
  <2> HIDE DEF h
  <2>2. a[i] \in Models /\ Observes(a[i], t) /\ BaselineFits(a[i])
    BY <2>1, StepFits
  <2> QED  BY <2>2
<1>5. n \in P
  <2> HIDE DEF P
  <2>1. 0..n \subseteq P
    BY <1>1, <1>3, <1>4, UpTo
  <2> QED  BY <1>1, <2>1
<1> QED  BY <1>2, <1>5 DEF v

LEMMA UpdateIs ==
  ASSUME NEW m \in Models, NEW t \in Nat, Observes(m, t), BaselineFits(m),
         NEW news, NEW period, Listable(Applicable(news, t, period) \ m.seen), NEW iv \in Nat
  PROVE  LET k == Update(m, news, t, period, iv)
             p == Passed(m, InOrder(Applicable(news, t, period) \ m.seen))
         IN  /\ k \in Models /\ Observes(k, t) /\ BaselineFits(k)
             /\ p \in Models /\ k.weeks = p.weeks /\ k.seen = p.seen
<1> DEFINE incoming == Applicable(news, t, period) \ m.seen
           p == Passed(m, InOrder(incoming))
           k == Update(m, news, t, period, iv)
           q == [p EXCEPT !.observations = Append(p.observations, [tick |-> t, iv |-> iv])]
<1>1. \A x \in incoming : x.tick <= t
  BY DEF Applicable
<1> HIDE DEF incoming
<1>2. Listable(incoming)
  BY DEF incoming
<1>3. p \in Models /\ Observes(p, t) /\ BaselineFits(p)
  BY <1>1, <1>2, PassLearns, PassFits
<1>4. k = IF iv = 0 THEN p ELSE q
  BY DEF Update, Passed, incoming
<1> HIDE DEF p
<1>5. q \in Models /\ Observes(q, t) /\ BaselineFits(q)
  BY <1>3, QuoteFits
<1>6. q.weeks = p.weeks /\ q.seen = p.seen
  <2>1. p \in [weeks : [AllWeeks -> WeekValues], seen : SUBSET Items,
               observations : Seq(Observed), baseline : Nat, release : Int, exact : BOOLEAN]
    BY <1>3 DEF Models
  <2> QED  BY <2>1
<1> HIDE DEF q, k
<1>7. k \in Models /\ Observes(k, t) /\ BaselineFits(k) /\ k.weeks = p.weeks /\ k.seen = p.seen
  BY <1>3, <1>4, <1>5, <1>6
<1> QED  BY <1>3, <1>7 DEF k, p, incoming

(***************************************************************************)
(* The inductive invariant of the polls.                                   *)
(***************************************************************************)
Cases == [tick : Nat, period : Nat, heat : Nat]

NewsTypes ==
  /\ server \in Cases
  /\ Listable(feed)
  /\ case \in Cases \cup {NoCase} /\ known \in Cases \cup {NoCase}
  /\ read = NotRead \/ Listable(read)
  /\ model \in Models /\ Listable(model.seen) /\ overtaken \in BOOLEAN

(* Items are numbered, and those of a former heat are of a former period.  *)
FeedInShape ==
  /\ \A x \in feed : x.id <= Cardinality(feed)
  /\ \A x \in feed : /\ x.heat <= server.heat
                     /\ x.heat = server.heat => x.period = server.period /\ x.tick <= server.tick
                     /\ x.heat # server.heat => x.period < server.period

(* What was taken in another heat can be told from the server's clock.     *)
Younger(c) ==
  /\ c.heat <= server.heat
  /\ c.heat = server.heat => c.period = server.period /\ c.tick <= server.tick
  /\ c.heat # server.heat => c.period # server.period \/ server.tick < c.tick

PollsAreRecent == (case # NoCase => Younger(case)) /\ (known # NoCase => Younger(known))

ReadIsFed == read # NotRead => case # NoCase /\ (case.heat = server.heat => read \subseteq feed)

SeenIsKnown ==
  /\ \A x \in model.seen : /\ x.heat = known.heat /\ x.period = known.period
                           /\ x.tick <= known.tick /\ ParseNews(x) # {}
  /\ known.heat = server.heat => model.seen \subseteq feed

(* Without an overtaken item, what is still missed comes after what is     *)
(* known.                                                                  *)
MissedAreLater ==
  ~overtaken /\ known.heat = server.heat =>
    \A x \in Applicable(feed, known.tick, known.period) \ model.seen, y \in model.seen :
      ~Before(x, y)

WeeksAreScheduled ==
  ~overtaken => TicksOfSeen(model) /\ ModelReadings(model) = ScheduleOf(model.seen)

BaselineIsKnown == Observes(model, known.tick) /\ BaselineFits(model)

NewsInv ==
  /\ NewsTypes /\ FeedInShape /\ PollsAreRecent /\ ReadIsFed /\ SeenIsKnown
  /\ MissedAreLater /\ WeeksAreScheduled /\ BaselineIsKnown

LEMMA EmptyListable == Listable({}) /\ InOrder({}) \in [1..0 -> {}]
<1>1. IsFiniteSet({}) /\ Cardinality({}) = 0
  BY FS_EmptySet
<1>2. Listable({})
  BY <1>1 DEF Listable, Distinct
<1>3. InOrder({}) \in [1..Cardinality({}) -> {}]
  BY <1>2, InOrderEnumerates DEF Enumerates
<1> QED  BY <1>1, <1>2, <1>3

LEMMA FreshFits ==
  /\ Fresh \in Models /\ Fresh.seen = {} /\ BaselineFits(Fresh)
  /\ \A t \in Int : -1 <= t => Observes(Fresh, t)
  /\ TicksOfSeen(Fresh) /\ ModelReadings(Fresh) = ScheduleOf({})
<1>1. Fresh \in Models
  BY DEF Fresh, Models, WeekValues
<1>2. /\ Fresh.seen = {} /\ Fresh.observations = <<>> /\ Fresh.release = -1
      /\ Fresh.baseline = 0 /\ \A w \in AllWeeks : Fresh.weeks[w] = Week(-1, UnknownWeek)
  BY DEF Fresh
<1>3. DOMAIN Fresh.observations = {}
  BY <1>2
<1>4. BaselineFits(Fresh)
  BY <1>2, <1>3 DEF BaselineFits
<1>5. \A t \in Int : -1 <= t => Observes(Fresh, t)
  BY <1>2, <1>3 DEF Observes
<1>6. TicksOfSeen(Fresh)
  BY <1>2, ReadingOfWeek DEF TicksOfSeen
<1>7. ModelReadings(Fresh) = Unknown
  <2>1. Reading(UnknownWeek) = UnknownWeek
    BY DEF Reading, UnknownWeek
  <2> QED  BY <1>2, <2>1, ReadingOfWeek DEF ModelReadings, Unknown
<1>8. ScheduleOf({}) = Unknown
  <2>1. Cardinality({}) = 0
    BY FS_EmptySet
  <2>2. PICK a : Scheduling(a, Unknown, InOrder({}), 0) /\ ScheduleOf({}) = a[0]
    BY <2>1, EmptyListable, ScheduleOfIs
  <2> QED  BY <2>2 DEF Scheduling
<1> QED  BY <1>1, <1>2, <1>4, <1>5, <1>6, <1>7, <1>8

LEMMA NewsStarts == Init => NewsInv
<1> SUFFICES ASSUME Init PROVE NewsInv
  OBVIOUS
<1> USE DEF Init
<1>1. NewsTypes
  BY EmptyListable, FreshFits DEF NewsTypes, Cases
<1>2. FeedInShape /\ PollsAreRecent /\ ReadIsFed
  BY DEF FeedInShape, PollsAreRecent, ReadIsFed
<1>3. SeenIsKnown /\ MissedAreLater
  BY FreshFits DEF SeenIsKnown, MissedAreLater
<1>4. WeeksAreScheduled
  BY FreshFits DEF WeeksAreScheduled
<1>5. BaselineIsKnown
  BY FreshFits DEF BaselineIsKnown, NoCase
<1> QED  BY <1>1, <1>2, <1>3, <1>4, <1>5 DEF NewsInv

(* The parts about the model alone.                                        *)
LEMMA ModelStays ==
  ASSUME WeeksAreScheduled, BaselineIsKnown, UNCHANGED <<model, known, overtaken>>
  PROVE  WeeksAreScheduled' /\ BaselineIsKnown'
<1>1. model' = model /\ known' = known /\ overtaken' = overtaken
  OBVIOUS
<1> QED  BY <1>1 DEF WeeksAreScheduled, BaselineIsKnown

LEMMA AdvanceKeeps ==
  ASSUME NewsInv, Advance
  PROVE  NewsInv'
<1> USE DEF NewsInv
<1>1. /\ server' = [server EXCEPT !.tick = server.tick + 1] /\ Noticeable(server')
      /\ UNCHANGED <<feed, case, read, model, known, overtaken>>
  BY DEF Advance
<1>2. /\ server' \in Cases /\ server'.tick = server.tick + 1 /\ server'.period = server.period
      /\ server'.heat = server.heat
  BY <1>1 DEF NewsTypes, Cases
<1>3. NewsTypes'
  BY <1>1, <1>2 DEF NewsTypes
<1>4. \A x \in feed : x.tick \in Nat
  BY DEF NewsTypes, Listable, Items
<1>5. FeedInShape'
  BY <1>1, <1>2, <1>4 DEF FeedInShape, NewsTypes, Cases
<1>6. ASSUME NEW c \in {case, known}, c # NoCase PROVE Younger(c)'
  <2>1. c \in Cases /\ Younger(c)
    BY <1>6 DEF PollsAreRecent, NewsTypes
  <2>2. c.heat = server.heat \/ c.period # server.period \/ server'.tick < c.tick
    BY <1>1, <1>2, <1>6 DEF Noticeable
  <2> QED  BY <1>2, <2>1, <2>2 DEF Younger, Cases, NewsTypes
<1>7. PollsAreRecent'
  BY <1>1, <1>6 DEF PollsAreRecent
<1>8. ReadIsFed' /\ SeenIsKnown' /\ MissedAreLater'
  BY <1>1, <1>2 DEF ReadIsFed, SeenIsKnown, MissedAreLater
<1>9. WeeksAreScheduled' /\ BaselineIsKnown'
  BY <1>1, ModelStays
<1> QED  BY <1>3, <1>5, <1>7, <1>8, <1>9

(* A new item has the highest number and the server's tick.                *)
LEMMA PublishKeeps ==
  ASSUME NewsInv, Publish
  PROVE  NewsInv'
<1> USE DEF NewsInv
<1>1. PICK text \in Said :
        feed' = feed \cup {[id |-> Cardinality(feed) + 1, text |-> text,
                            tick |-> server.tick, period |-> server.period, heat |-> server.heat]}
  BY DEF Publish
<1>2. UNCHANGED <<server, case, read, model, known, overtaken>>
  BY DEF Publish
<1> DEFINE n == Cardinality(feed)
           e == [id |-> n + 1, text |-> text,
                 tick |-> server.tick, period |-> server.period, heat |-> server.heat]
<1>3. n \in Nat /\ IsFiniteSet(feed) /\ feed \subseteq Items /\ Distinct(feed)
  BY FS_CardinalityType DEF NewsTypes, Listable
<1>4. text \in Texts
  BY VolatilityNewsAssumption
<1>5. /\ e \in Items /\ e.id = n + 1 /\ e.tick = server.tick /\ e.period = server.period
      /\ e.heat = server.heat
  BY <1>3, <1>4 DEF NewsTypes, Cases, Items
<1>6. feed' = feed \cup {e}
  BY <1>1
<1>7. \A x \in feed : x.id <= n /\ x.id \in Nat /\ x.tick \in Nat
  BY <1>3 DEF FeedInShape, Items
<1> HIDE DEF e, n
<1>8. e \notin feed
  BY <1>3, <1>5, <1>7
<1>9. IsFiniteSet(feed') /\ Cardinality(feed') = n + 1
  BY <1>3, <1>6, <1>8, FS_AddElement DEF n
<1>10. Listable(feed')
  BY <1>3, <1>5, <1>6, <1>7, <1>9 DEF Listable, Distinct
<1>11. NewsTypes'
  BY <1>2, <1>10 DEF NewsTypes
<1>12. FeedInShape'
  <2>1. server \in Cases
    BY DEF NewsTypes
  <2>2. \A x \in feed' : x.id <= n + 1
    BY <1>3, <1>5, <1>6, <1>7
  <2>3. \A x \in feed' : /\ x.heat <= server.heat
                         /\ x.heat = server.heat => x.period = server.period /\ x.tick <= server.tick
                         /\ x.heat # server.heat => x.period < server.period
    BY <1>5, <1>6, <2>1 DEF FeedInShape, Cases
  <2> QED  BY <1>2, <1>9, <2>2, <2>3 DEF FeedInShape
<1>13. PollsAreRecent'
  BY <1>2 DEF PollsAreRecent, Younger
<1>14. ReadIsFed'
  BY <1>2, <1>6 DEF ReadIsFed
<1>15. SeenIsKnown'
  BY <1>2, <1>6 DEF SeenIsKnown
<1>16. MissedAreLater'
  <2> SUFFICES ASSUME ~overtaken, known.heat = server.heat,
                      NEW x \in Applicable(feed', known.tick, known.period) \ model.seen,
                      NEW y \in model.seen
               PROVE  ~Before(x, y)
    BY <1>2 DEF MissedAreLater
  <2>1. y \in feed /\ y.tick <= known.tick
    BY DEF SeenIsKnown
  <2>2. CASE x = e
    <3>1. e.tick <= known.tick
      BY <2>2 DEF Applicable
    <3>2. known # NoCase
      <4>1. e.tick \in Nat
        BY <1>5 DEF Items
      <4> QED  BY <3>1, <4>1 DEF NoCase
    <3>3. known \in Cases /\ known.tick <= server.tick
      BY <3>2 DEF PollsAreRecent, Younger, NewsTypes
    <3> QED  BY <1>3, <1>5, <1>7, <2>1, <2>2, <3>1, <3>3 DEF Before, Cases, NewsTypes
  <2>3. CASE x # e
    <3>1. x \in Applicable(feed, known.tick, known.period) \ model.seen
      BY <1>6, <2>3 DEF Applicable
    <3> QED  BY <3>1 DEF MissedAreLater
  <2> QED  BY <2>2, <2>3
<1>17. WeeksAreScheduled' /\ BaselineIsKnown'
  BY <1>2, ModelStays
<1> QED  BY <1>11, <1>12, <1>13, <1>14, <1>15, <1>16, <1>17

LEMMA NextHeatKeeps ==
  ASSUME NewsInv, NextHeat
  PROVE  NewsInv'
<1> USE DEF NewsInv
<1>1. /\ server' \in Cases /\ server'.tick = 0 /\ server'.heat = server.heat + 1
      /\ \/ server'.period = server.period /\ feed' = {}
         \/ server'.period = server.period + 1 /\ feed' = feed
  BY DEF NextHeat, NewsTypes, Cases
<1>2. Noticeable(server') /\ UNCHANGED <<case, read, model, known, overtaken>>
  BY DEF NextHeat
<1>3. server \in Cases
  BY DEF NewsTypes
<1>4. NewsTypes'
  BY <1>1, <1>2, EmptyListable DEF NewsTypes
<1>5. \A x \in feed : x.heat \in Nat /\ x.period \in Nat /\ x.tick \in Nat
  BY DEF NewsTypes, Listable, Items
<1>6. FeedInShape'
  <2>1. CASE feed' = {}
    BY <2>1 DEF FeedInShape
  <2>2. CASE server'.period = server.period + 1 /\ feed' = feed
    <3>1. \A x \in feed : x.heat < server'.heat /\ x.period < server'.period
      BY <1>1, <1>3, <1>5, <2>2 DEF FeedInShape, Cases
    <3>2. \A x \in feed : x.id <= Cardinality(feed)
      BY DEF FeedInShape
    <3>3. \A x \in feed : x.heat <= server'.heat /\ x.heat # server'.heat
      BY <1>1, <1>5, <3>1 DEF Cases
    <3> QED  BY <2>2, <3>1, <3>2, <3>3 DEF FeedInShape
  <2> QED  BY <1>1, <2>1, <2>2
<1>7. ASSUME NEW c \in {case, known}, c # NoCase
      PROVE  Younger(c)' /\ c.heat # server'.heat
  <2>1. c \in Cases /\ Younger(c)
    BY <1>7 DEF PollsAreRecent, NewsTypes
  <2>2. c.heat = server'.heat \/ c.period # server'.period \/ server'.tick < c.tick
    BY <1>2, <1>7 DEF Noticeable
  <2>3. c.heat <= server'.heat /\ c.heat # server'.heat
    BY <1>1, <1>3, <2>1 DEF Younger, Cases
  <2> QED  BY <1>2, <2>2, <2>3 DEF Younger
<1>8. PollsAreRecent'
  BY <1>2, <1>7 DEF PollsAreRecent
<1>9. ReadIsFed'
  BY <1>2, <1>7 DEF ReadIsFed
<1>10. known.heat = server'.heat => model.seen = {}
  <2> SUFFICES ASSUME known = NoCase PROVE model.seen = {}
    BY <1>7
  <2>1. \A x \in model.seen : x.tick \in Nat
    BY DEF NewsTypes, Listable, Items
  <2> QED  BY <2>1 DEF SeenIsKnown, NoCase
<1>11. SeenIsKnown' /\ MissedAreLater'
  BY <1>2, <1>10 DEF SeenIsKnown, MissedAreLater
<1>12. WeeksAreScheduled' /\ BaselineIsKnown'
  BY <1>2, ModelStays
<1> QED  BY <1>4, <1>6, <1>8, <1>9, <1>11, <1>12

LEMMA ReadCaseKeeps ==
  ASSUME NewsInv, ReadCase
  PROVE  NewsInv'
<1> USE DEF NewsInv
<1>1. case = NoCase /\ case' = server /\ UNCHANGED <<server, feed, read, model, known, overtaken>>
  BY DEF ReadCase
<1>2. NewsTypes'
  BY <1>1 DEF NewsTypes
<1>3. FeedInShape' /\ SeenIsKnown' /\ MissedAreLater'
  BY <1>1 DEF FeedInShape, SeenIsKnown, MissedAreLater
<1>4. PollsAreRecent'
  BY <1>1 DEF PollsAreRecent, Younger, NewsTypes, Cases
<1>5. ReadIsFed'
  BY <1>1 DEF ReadIsFed
<1>6. WeeksAreScheduled' /\ BaselineIsKnown'
  BY <1>1, ModelStays
<1> QED  BY <1>2, <1>3, <1>4, <1>5, <1>6

LEMMA ReadNewsKeeps ==
  ASSUME NewsInv, ReadNews
  PROVE  NewsInv'
<1> USE DEF NewsInv
<1>1. case # NoCase /\ read' \in SUBSET feed /\ UNCHANGED <<server, feed, case, model, known, overtaken>>
  BY DEF ReadNews
<1>2. Listable(read')
  <2>1. IsFiniteSet(read')
    BY <1>1, FS_Subset DEF NewsTypes, Listable
  <2> QED  BY <1>1, <2>1 DEF NewsTypes, Listable, Distinct
<1>3. NewsTypes'
  BY <1>1, <1>2 DEF NewsTypes
<1>4. FeedInShape' /\ SeenIsKnown' /\ MissedAreLater'
  BY <1>1 DEF FeedInShape, SeenIsKnown, MissedAreLater
<1>5. PollsAreRecent'
  BY <1>1 DEF PollsAreRecent, Younger
<1>6. ReadIsFed'
  BY <1>1 DEF ReadIsFed
<1>7. WeeksAreScheduled' /\ BaselineIsKnown'
  BY <1>1, ModelStays
<1> QED  BY <1>3, <1>4, <1>5, <1>6, <1>7

(* The model a consistent poll starts from: of this heat, and everything it*)
(* has seen is still in the feed.                                          *)
Continued == IF AnotherHeat THEN Fresh ELSE model

LEMMA ContinuedIs ==
  ASSUME NewsInv, case # NoCase, Consistent(server)
  PROVE  /\ case \in Cases /\ case.heat = server.heat
         /\ case.tick = server.tick /\ case.period = server.period
         /\ Continued \in Models /\ Continued.seen \subseteq feed
         /\ \A x \in Continued.seen : /\ x.heat = case.heat /\ x.period = case.period
                                      /\ x.tick <= case.tick /\ ParseNews(x) # {}
         /\ Observes(Continued, case.tick) /\ BaselineFits(Continued)
         /\ ~AnotherHeat /\ known # NoCase => /\ known.heat = server.heat
                                              /\ known.period = case.period
                                              /\ known.tick <= case.tick
         /\ AnotherHeat \/ known = NoCase => Continued.seen = {}
<1> USE DEF NewsInv
<1>1. case \in Cases /\ server \in Cases
  BY DEF NewsTypes
<1>2. case.tick = server.tick /\ case.period = server.period
  BY DEF Consistent
<1>3. case.heat = server.heat
  BY <1>1, <1>2 DEF PollsAreRecent, Younger, Cases
<1>4. ~AnotherHeat /\ known # NoCase =>
        known.heat = server.heat /\ known.period = case.period /\ known.tick <= case.tick
  BY <1>1, <1>2 DEF AnotherHeat, PollsAreRecent, Younger, NewsTypes, Cases
<1>5. known = NoCase => model.seen = {}
  <2>1. \A x \in model.seen : x.tick \in Nat
    BY DEF NewsTypes, Listable, Items
  <2> QED  BY <2>1 DEF SeenIsKnown, NoCase
<1>6. case.tick \in Int /\ -1 <= case.tick
  BY <1>1 DEF Cases
<1>7. CASE AnotherHeat
  <2>1. Continued = Fresh
    BY <1>7 DEF Continued
  <2> QED  BY <1>1, <1>2, <1>3, <1>6, <1>7, <2>1, FreshFits
<1>8. CASE ~AnotherHeat
  <2>1. Continued = model
    BY <1>8 DEF Continued
  <2>2. known.tick <= case.tick
    BY <1>4, <1>6, <1>8 DEF NoCase
  <2>3. Observes(model, case.tick) /\ BaselineFits(model) /\ model \in Models
    <3>1. model \in Models /\ Observes(model, known.tick) /\ BaselineFits(model)
      BY DEF NewsTypes, BaselineIsKnown
    <3>2. known.tick \in Int
      BY DEF NewsTypes, Cases, NoCase
    <3> QED  BY <1>6, <2>2, <3>1, <3>2, ObservationsAre DEF Observes
  <2>4. \A x \in model.seen : /\ x.heat = case.heat /\ x.period = case.period
                              /\ x.tick <= case.tick /\ ParseNews(x) # {}
    <3> SUFFICES ASSUME NEW x \in model.seen
                 PROVE  /\ x.heat = case.heat /\ x.period = case.period
                        /\ x.tick <= case.tick /\ ParseNews(x) # {}
      OBVIOUS
    <3>1. known # NoCase
      BY <1>5
    <3>2. /\ x.heat = known.heat /\ x.period = known.period
          /\ x.tick <= known.tick /\ ParseNews(x) # {}
      BY DEF SeenIsKnown
    <3>3. x.tick \in Int /\ known.tick \in Int
      BY DEF NewsTypes, Cases, NoCase, Listable, Items
    <3> QED  BY <1>3, <1>4, <1>6, <1>8, <2>2, <3>1, <3>2, <3>3
  <2>5. model.seen \subseteq feed
    BY <1>4, <1>5, <1>8 DEF SeenIsKnown
  <2> QED  BY <1>1, <1>2, <1>3, <1>4, <1>5, <1>8, <2>1, <2>3, <2>4, <2>5
<1> QED  BY <1>7, <1>8

LEMMA VerifyKeeps ==
  ASSUME NewsInv, Verify
  PROVE  NewsInv'
<1> USE DEF NewsInv
<1>1. /\ read # NotRead /\ case' = NoCase /\ read' = NotRead /\ UNCHANGED <<server, feed>>
      /\ case # NoCase /\ Listable(read)
  BY DEF Verify, ReadIsFed, NewsTypes
<1>2. PICK iv \in Readable \cup {0} :
        IF Consistent(server)
        THEN /\ model' = Update(Continued, read, case.tick, case.period, iv)
             /\ known' = [case EXCEPT !.heat = server.heat]
             /\ overtaken' = ((overtaken /\ ~AnotherHeat) \/ Overtaken(model'))
        ELSE UNCHANGED <<model, known, overtaken>>
  BY DEF Verify, Continued
<1>3. iv \in Nat
  BY VolatilityNewsAssumption DEF Readable
<1>4. FeedInShape' /\ ReadIsFed'
  BY <1>1 DEF FeedInShape, ReadIsFed
<1>5. CASE ~Consistent(server)
  <2>1. UNCHANGED <<model, known, overtaken>>
    BY <1>2, <1>5
  <2>2. NewsTypes'
    BY <1>1, <2>1 DEF NewsTypes
  <2>3. PollsAreRecent' /\ SeenIsKnown' /\ MissedAreLater'
    BY <1>1, <2>1 DEF PollsAreRecent, Younger, SeenIsKnown, MissedAreLater
  <2>4. WeeksAreScheduled' /\ BaselineIsKnown'
    BY <2>1, ModelStays
  <2> QED  BY <1>4, <2>2, <2>3, <2>4
<1>6. CASE Consistent(server)
  <2> DEFINE m == Continued
             incoming == Applicable(read, case.tick, case.period) \ m.seen
             p == Passed(m, InOrder(incoming))
  <2>1. /\ case \in Cases /\ case.heat = server.heat
        /\ case.tick = server.tick /\ case.period = server.period
        /\ m \in Models /\ m.seen \subseteq feed
        /\ \A x \in m.seen : /\ x.heat = case.heat /\ x.period = case.period
                             /\ x.tick <= case.tick /\ ParseNews(x) # {}
        /\ Observes(m, case.tick) /\ BaselineFits(m)
        /\ ~AnotherHeat /\ known # NoCase => /\ known.heat = server.heat
                                             /\ known.period = case.period
                                             /\ known.tick <= case.tick
        /\ AnotherHeat \/ known = NoCase => m.seen = {}
    BY <1>1, <1>6, ContinuedIs
  <2>2. known' = case
    BY <1>2, <1>6, <2>1 DEF Cases
  <2>3. incoming \subseteq feed
    BY <1>1, <2>1 DEF ReadIsFed, Applicable
  <2>4. \A x \in incoming : /\ x.heat = case.heat /\ x.period = case.period
                            /\ x.tick <= case.tick /\ ParseNews(x) # {} /\ x \notin m.seen
    <3> SUFFICES ASSUME NEW x \in incoming
                 PROVE  /\ x.heat = case.heat /\ x.period = case.period
                        /\ x.tick <= case.tick /\ ParseNews(x) # {} /\ x \notin m.seen
      OBVIOUS
    <3>1. x.period = case.period /\ x.tick <= case.tick /\ ParseNews(x) # {} /\ x \notin m.seen
      BY DEF Applicable
    <3>2. x.heat # server.heat => x.period < server.period
      BY <2>3 DEF FeedInShape
    <3> QED  BY <2>1, <3>1, <3>2 DEF NewsTypes, Cases
  <2>5. Listable(m.seen \cup incoming) /\ Listable(incoming) /\ Listable(m.seen)
    <3>1. ASSUME NEW T, T \subseteq feed PROVE Listable(T)
      <4>1. IsFiniteSet(T)
        BY <3>1, FS_Subset DEF NewsTypes, Listable
      <4> QED  BY <3>1, <4>1 DEF NewsTypes, Listable, Distinct
    <3> HIDE DEF incoming, m
    <3>2. m.seen \cup incoming \subseteq feed
      BY <2>1, <2>3
    <3> QED  BY <3>1, <3>2
  <2>6. case.tick \in Nat
    BY <2>1 DEF Cases
  <2>7. /\ model' \in Models /\ Observes(model', case.tick) /\ BaselineFits(model')
        /\ p \in Models /\ model'.weeks = p.weeks /\ model'.seen = p.seen
    <3>1. model' = Update(m, read, case.tick, case.period, iv)
      BY <1>2, <1>6
    <3> QED  BY <1>3, <2>1, <2>5, <2>6, <3>1, UpdateIs
  <2>8. p.seen = m.seen \cup incoming
    BY <2>1, <2>5, PassLearns
  <2>9. model'.seen = m.seen \cup incoming
    BY <2>7, <2>8
  <2> HIDE DEF p
  <2>10. NewsTypes'
    <3>1. overtaken' \in BOOLEAN
      BY <1>2, <1>6 DEF NewsTypes
    <3> HIDE DEF m, incoming
    <3> QED  BY <1>1, <2>1, <2>2, <2>5, <2>7, <2>9, <3>1 DEF NewsTypes
  <2>11. PollsAreRecent'
    BY <1>1, <2>2 DEF PollsAreRecent, Younger
  <2>12. SeenIsKnown'
    <3> HIDE DEF m, incoming
    <3> QED  BY <1>1, <2>1, <2>2, <2>3, <2>4, <2>9 DEF SeenIsKnown
  <2>13. ~overtaken' => ~Overtaken(model') /\ (AnotherHeat \/ ~overtaken)
    BY <1>2, <1>6 DEF NewsTypes
  <2>14. MissedAreLater'
    BY <1>1, <2>2, <2>13 DEF MissedAreLater, Overtaken
  <2>15. WeeksAreScheduled'
    <3> SUFFICES ASSUME AnotherHeat \/ ~overtaken
                 PROVE  TicksOfSeen(model') /\ ModelReadings(model') = ScheduleOf(model'.seen)
      BY <2>13 DEF WeeksAreScheduled
    <3>1. ASSUME NEW x \in m.seen, NEW y \in incoming PROVE Before(x, y)
      <4>1. ~AnotherHeat /\ known # NoCase /\ m = model
        BY <2>1, <3>1 DEF Continued
      <4>2. known.heat = server.heat /\ known.period = case.period /\ ~overtaken
        BY <2>1, <4>1
      <4>3. x \in feed /\ y \in feed /\ x # y
        BY <2>1, <2>3, <2>4
      <4>4. Listable(feed)
        BY DEF NewsTypes
      <4>5. Before(x, y) \/ Before(y, x)
        BY <4>3, <4>4, BeforeOrders
      <4>6. CASE y.tick <= known.tick
        <5>1. y \in Applicable(feed, known.tick, known.period) \ model.seen
          BY <2>4, <4>1, <4>2, <4>3, <4>6 DEF Applicable
        <5>2. ~Before(y, x)
          BY <4>1, <4>2, <5>1 DEF MissedAreLater
        <5> QED  BY <4>5, <5>2
      <4>7. CASE ~(y.tick <= known.tick)
        <5>1. x.tick <= known.tick
          BY <4>1 DEF SeenIsKnown
        <5>2. x.tick \in Nat /\ y.tick \in Nat /\ known.tick \in Nat
          BY <4>1, <4>3, <4>4 DEF Listable, Items, NewsTypes, Cases
        <5> QED  BY <4>7, <5>1, <5>2 DEF Before
      <4> QED  BY <4>6, <4>7
    <3>2. TicksOfSeen(m) /\ ModelReadings(m) = ScheduleOf(m.seen)
      <4>1. CASE AnotherHeat
        BY <4>1, FreshFits DEF Continued
      <4>2. CASE ~AnotherHeat
        BY <4>2 DEF Continued, WeeksAreScheduled
      <4> QED  BY <4>1, <4>2
    <3> HIDE DEF m, incoming
    <3>3. TicksOfSeen(p) /\ ModelReadings(p) = ScheduleOf(m.seen \cup incoming)
      BY <2>1, <2>5, <3>1, <3>2, PassSchedules DEF p
    <3> QED  BY <2>7, <2>9, <2>8, <3>3 DEF TicksOfSeen, ModelReadings
  <2>16. BaselineIsKnown'
    BY <2>2, <2>7 DEF BaselineIsKnown
  <2> QED  BY <1>4, <2>10, <2>11, <2>12, <2>14, <2>15, <2>16
<1> QED  BY <1>5, <1>6

LEMMA NewsStep == NewsInv /\ [Next]_vars => NewsInv'
<1> SUFFICES ASSUME NewsInv, [Next]_vars PROVE NewsInv'
  OBVIOUS
<1>1. CASE UNCHANGED vars
  <2>1. UNCHANGED <<server, feed, case, read, model, known, overtaken>>
    BY <1>1 DEF vars
  <2> USE DEF NewsInv
  <2>2. NewsTypes' /\ FeedInShape' /\ PollsAreRecent' /\ ReadIsFed'
    BY <2>1 DEF NewsTypes, FeedInShape, PollsAreRecent, Younger, ReadIsFed
  <2>3. SeenIsKnown' /\ MissedAreLater'
    BY <2>1 DEF SeenIsKnown, MissedAreLater
  <2>4. WeeksAreScheduled' /\ BaselineIsKnown'
    BY <2>1, ModelStays
  <2> QED  BY <2>2, <2>3, <2>4
<1> QED  BY <1>1, AdvanceKeeps, PublishKeeps, NextHeatKeeps, ReadCaseKeeps, ReadNewsKeeps,
            VerifyKeeps DEF Next

LEMMA NewsInvariant == Spec => []NewsInv
BY NewsStarts, NewsStep, PTL DEF Spec

(* The baseline of the model is the last quote before the release, unless  *)
(* that is too old, whatever polls found whichever items when              *)
(* (VolatilityModel.update).                                               *)
THEOREM BaselineCorrect == Spec => []BaselinePredatesRelease
<1>1. NewsInv => BaselinePredatesRelease
  BY DEF NewsInv, BaselineIsKnown, BaselineFits, LastOf, BaselinePredatesRelease
<1> QED  BY <1>1, NewsInvariant, PTL

(* As long as no item is found after a later one, folding items into the   *)
(* weeks as they arrive comes to what weekly_schedule computes at once from*)
(* all of them.                                                            *)
THEOREM ScheduleCorrect == Spec => []AgreesWithSchedule
<1>1. ASSUME NewsInv PROVE AgreesWithSchedule
  <2> SUFFICES ASSUME ~overtaken
               PROVE  [w \in AllWeeks |-> Reading(model.weeks[w])] =
                        WeeklySchedule({item \in model.seen : item.heat = known.heat},
                                       known.tick, known.period)
    BY DEF AgreesWithSchedule
  <2>1. Applicable({item \in model.seen : item.heat = known.heat}, known.tick, known.period) = model.seen
    BY <1>1 DEF Applicable, NewsInv, SeenIsKnown
  <2>2. ModelReadings(model) = ScheduleOf(model.seen)
    BY <1>1 DEF NewsInv, WeeksAreScheduled
  <2> QED  BY <2>1, <2>2 DEF ModelReadings, ScheduleOf, Unknown, WeeklySchedule
<1> QED  BY <1>1, NewsInvariant, PTL

(***************************************************************************)
(* The passes of the planning functions: over the orders of a side, the    *)
(* levels of a book and the quantities of a plan.                          *)
(***************************************************************************)
Runs(a, A, base, f, n) ==
  a \in [0..n -> A] /\ a[0] = base /\ \A i \in 1..n : a[i] = f[<<a[i - 1], i>>]

Iterates(iter, A, base, f, n) ==
  /\ iter[{}] = base
  /\ \A T \in SUBSET (1..n) :
       T # {} /\ iter[T \ {Max(T)}] \in A => iter[T] = f[<<iter[T \ {Max(T)}], Max(T)>>]

HasRun(A, base, f, n, end) == \E a : Runs(a, A, base, f, n) /\ a[n] = end

LEMMA RunExists ==
  ASSUME NEW n \in Nat, NEW A, NEW base \in A, NEW f \in [A \X (1..n) -> A], NEW iter,
         Iterates(iter, A, base, f, n)
  PROVE  HasRun(A, base, f, n, iter[1..n])
<1> DEFINE a == [i \in 0..n |-> iter[1..i]]
           P == {i \in 0..n : iter[1..i] \in A}
<1>1. iter[1..0] = base
  <2>1. 1..0 = {}
    OBVIOUS
  <2>2. iter[{}] = base
    BY DEF Iterates
  <2> QED  BY <2>1, <2>2
<1>2. ASSUME NEW i \in 1..n, iter[1..(i - 1)] \in A
      PROVE  iter[1..i] = f[<<iter[1..(i - 1)], i>>]
  <2>1. 1..i \in SUBSET (1..n) /\ i \in Nat \ {0}
    OBVIOUS
  <2>2. Max(1..i) = i /\ (1..i) \ {i} = 1..(i - 1) /\ 1..i # {}
    BY <2>1, Segment
  <2> QED  BY <1>2, <2>1, <2>2 DEF Iterates
<1>3. 0..n \subseteq P
  <2>1. 0 \in P
    BY <1>1
  <2>2. ASSUME NEW i \in 1..n, i - 1 \in P PROVE i \in P
    <3>1. i \in 0..n /\ iter[1..(i - 1)] \in A
      BY <2>2
    <3>2. f[<<iter[1..(i - 1)], i>>] \in A
      BY <3>1
    <3> QED  BY <1>2, <3>1, <3>2
  <2> HIDE DEF P
  <2> QED  BY <2>1, <2>2, UpTo
<1>4. Runs(a, A, base, f, n)
  <2>1. \A i \in 0..n : iter[1..i] \in A
    BY <1>3
  <2>2. \A i \in 1..n : i - 1 \in 0..n
    OBVIOUS
  <2> QED  BY <1>1, <1>2, <2>1, <2>2 DEF Runs
<1>5. a[n] = iter[1..n]
  OBVIOUS
<1> QED  BY <1>4, <1>5 DEF HasRun

(* The fixpoint a fold chooses, when there is one.                         *)
LEMMA Greatests ==
  ASSUME NEW n \in Nat
  PROVE  \A T \in SUBSET (1..n) : T # {} => Max(T) \in 1..n /\ T \ {Max(T)} \in SUBSET (1..n)
<1> SUFFICES ASSUME NEW T \in SUBSET (1..n), T # {} PROVE Max(T) \in T
  OBVIOUS
<1>1. T \subseteq 0..n
  OBVIOUS
<1> QED  BY <1>1, MaxOf

(* estimate_fill.                                                          *)
Entry == [price : Nat, quantity : Nat]
Fill == [remaining : Nat, filled : Nat, notional : Nat, worst : Nat]
Ordered0(quantity) == [remaining |-> quantity, filled |-> 0, notional |-> 0, worst |-> 0]

LEMMA ProductIsNatural == \A m, n \in Nat : m * n \in Nat
OBVIOUS

LEMMA TakenIs ==
  ASSUME NEW fill \in Fill, NEW level \in Entry
  PROVE  LET take == Least(fill.remaining, level.quantity) IN
         /\ take \in Nat /\ take <= fill.remaining /\ take <= level.quantity
         /\ Taken(fill, level) \in Fill
         /\ Taken(fill, level).remaining = fill.remaining - take
         /\ Taken(fill, level).notional = fill.notional + take * level.price
<1> DEFINE take == Least(fill.remaining, level.quantity)
<1>1. fill.remaining \in Nat /\ level.quantity \in Nat /\ level.price \in Nat
  BY DEF Fill, Entry
<1>2. take \in Nat /\ take <= fill.remaining /\ take <= level.quantity
  BY <1>1 DEF Least
<1>3. take * level.price \in Nat
  BY <1>1, <1>2, ProductIsNatural
<1>4. Taken(fill, level) =
        [remaining |-> fill.remaining - take, filled |-> fill.filled + take,
         notional |-> fill.notional + take * level.price,
         worst |-> IF take > 0 THEN level.price ELSE fill.worst]
  BY DEF Taken
<1> HIDE DEF take
<1>5. Taken(fill, level) \in Fill
  BY <1>1, <1>2, <1>3, <1>4 DEF Fill
<1> QED  BY <1>2, <1>4, <1>5 DEF take

LEMMA FillFolds ==
  ASSUME NEW n \in Nat, NEW s \in [1..n -> Entry], NEW x \in Nat
  PROVE  \E a : /\ a \in [0..n -> Fill] /\ a[0] = Ordered0(x)
                /\ \A i \in 1..n : a[i] = Taken(a[i - 1], s[i])
                /\ FoldLeft(Taken, Ordered0(x), s) = a[n]
<1> DEFINE base == Ordered0(x)
           F(g) == [T \in SUBSET (1..n) |->
                      IF T = {} THEN base ELSE Taken(g[T \ {Max(T)}], s[Max(T)])]
           iter == CHOOSE g : g = F(g)
           f == [p \in Fill \X (1..n) |-> Taken(p[1], s[p[2]])]
<1>1. FoldLeft(Taken, base, s) = iter[1..n]
  <2>1. DOMAIN s = 1..n
    OBVIOUS
  <2> QED  BY <2>1, Zenon DEF FoldLeft, MapThenFoldSet
<1>2. base \in Fill
  BY DEF Ordered0, Fill
<1>3. f \in [Fill \X (1..n) -> Fill] /\ \A k \in Fill, i \in 1..n : f[<<k, i>>] = Taken(k, s[i])
  BY TakenIs
<1> HIDE DEF f, base
<1>4. PICK g \in [SUBSET (1..n) -> Fill] : Accumulates(g, base, f, n)
  BY <1>2, <1>3, FoldExists
<1>5. g = F(g)
  <2>1. ASSUME NEW T \in SUBSET (1..n)
        PROVE  g[T] = IF T = {} THEN base ELSE Taken(g[T \ {Max(T)}], s[Max(T)])
    BY <1>3, <1>4, Greatests DEF Accumulates
  <2>2. g = [T \in SUBSET (1..n) |-> g[T]]
    BY <1>4
  <2> QED  BY <2>1, <2>2
<1>6. iter = F(iter)
  <2> HIDE DEF F
  <2> QED  BY <1>5, Zenon
<1>7. ASSUME NEW T \in SUBSET (1..n)
      PROVE  iter[T] = IF T = {} THEN base ELSE Taken(iter[T \ {Max(T)}], s[Max(T)])
  <2> DEFINE k == iter
  <2>1. k = F(k)
    BY <1>6
  <2> HIDE DEF k
  <2>2. k[T] = IF T = {} THEN base ELSE Taken(k[T \ {Max(T)}], s[Max(T)])
    BY <2>1, Zenon
  <2> QED  BY <2>2 DEF k
<1> HIDE DEF iter, F
<1>8. PICK a : Runs(a, Fill, base, f, n) /\ a[n] = iter[1..n]
  <2>1. iter[{}] = base
    BY <1>7
  <2>2. ASSUME NEW T \in SUBSET (1..n), T # {}, iter[T \ {Max(T)}] \in Fill
        PROVE  iter[T] = f[<<iter[T \ {Max(T)}], Max(T)>>]
    <3>1. Max(T) \in 1..n
      BY <2>2, Greatests
    <3> QED  BY <1>3, <1>7, <2>2, <3>1
  <2>3. f \in [Fill \X (1..n) -> Fill]
    BY <1>3
  <2>4. Iterates(iter, Fill, base, f, n)
    BY <2>1, <2>2 DEF Iterates
  <2>5. HasRun(Fill, base, f, n, iter[1..n])
    BY <1>2, <2>3, <2>4, RunExists
  <2> QED  BY <2>5 DEF HasRun
<1>9. \A i \in 1..n : a[i - 1] \in Fill
  BY <1>8 DEF Runs
<1>10. \A i \in 1..n : a[i] = Taken(a[i - 1], s[i])
  BY <1>3, <1>8, <1>9 DEF Runs
<1>11. a \in [0..n -> Fill] /\ a[0] = base
  BY <1>8 DEF Runs
<1>12. FoldLeft(Taken, base, s) = a[n]
  BY <1>1, <1>8, Zenon
<1> QED  BY <1>10, <1>11, <1>12, Zenon DEF base

(* evaluate_arbitrage.                                                     *)
Plans(d) == {NoPlan} \cup {Plan(d, q) : q \in 1..MaxQuantity}
Better(d, larger, best, q) ==
  IF Acceptable(d, q) /\ Improves(best, Plan(d, q), larger) THEN Plan(d, q) ELSE best

LEMMA PlanFolds ==
  ASSUME NEW d, NEW larger
  PROVE  \E a : /\ a \in [0..MaxQuantity -> Plans(d)] /\ a[0] = NoPlan
                /\ \A i \in 1..MaxQuantity : a[i] = Better(d, larger, a[i - 1], i)
                /\ EvaluateArbitrage(d, larger) = a[MaxQuantity]
<1> DEFINE n == MaxQuantity
           A == Plans(d)
           s == [q \in 1..n |-> q]
           F(g) == [T \in SUBSET (1..n) |->
                      IF T = {} THEN NoPlan
                      ELSE IF Acceptable(d, s[Max(T)]) /\ Improves(g[T \ {Max(T)}], Plan(d, s[Max(T)]), larger)
                           THEN Plan(d, s[Max(T)]) ELSE g[T \ {Max(T)}]]
           iter == CHOOSE g : g = F(g)
           f == [p \in A \X (1..n) |-> Better(d, larger, p[1], p[2])]
<1>0. n \in Nat
  BY DepthAssumption
<1>1. EvaluateArbitrage(d, larger) = iter[1..n]
  <2>1. DOMAIN s = 1..n
    OBVIOUS
  <2> QED  BY <2>1, Zenon DEF EvaluateArbitrage, FoldLeft, MapThenFoldSet
<1>2. NoPlan \in A /\ \A i \in 1..n : s[i] = i
  BY DEF Plans
<1>3. f \in [A \X (1..n) -> A] /\ \A k \in A, i \in 1..n : f[<<k, i>>] = Better(d, larger, k, i)
  BY DEF Better, Plans
<1> HIDE DEF f, A, n, s
<1>4. PICK g \in [SUBSET (1..n) -> A] : Accumulates(g, NoPlan, f, n)
  BY <1>0, <1>2, <1>3, FoldExists
<1>5. g = F(g)
  <2>1. ASSUME NEW T \in SUBSET (1..n)
        PROVE  g[T] = IF T = {} THEN NoPlan
                      ELSE IF Acceptable(d, s[Max(T)]) /\ Improves(g[T \ {Max(T)}], Plan(d, s[Max(T)]), larger)
                           THEN Plan(d, s[Max(T)]) ELSE g[T \ {Max(T)}]
    <3>1. CASE T = {}
      BY <1>4, <3>1 DEF Accumulates
    <3>2. CASE T # {}
      <4>1. Max(T) \in 1..n /\ T \ {Max(T)} \in SUBSET (1..n)
        BY <1>0, <3>2, Greatests
      <4>2. g[T] = Better(d, larger, g[T \ {Max(T)}], Max(T)) /\ s[Max(T)] = Max(T)
        BY <1>2, <1>3, <1>4, <3>2, <4>1 DEF Accumulates
      <4> QED  BY <3>2, <4>2 DEF Better
    <3> QED  BY <3>1, <3>2
  <2>2. g = [T \in SUBSET (1..n) |-> g[T]]
    BY <1>4
  <2> QED  BY <2>1, <2>2
<1>6. iter = F(iter)
  <2> HIDE DEF F
  <2> QED  BY <1>5, Zenon
<1>7. ASSUME NEW T \in SUBSET (1..n)
      PROVE  iter[T] = IF T = {} THEN NoPlan ELSE Better(d, larger, iter[T \ {Max(T)}], s[Max(T)])
  <2> DEFINE k == iter
  <2>1. k = F(k)
    BY <1>6
  <2> HIDE DEF k
  <2>2. k[T] = IF T = {} THEN NoPlan
               ELSE IF Acceptable(d, s[Max(T)]) /\ Improves(k[T \ {Max(T)}], Plan(d, s[Max(T)]), larger)
                    THEN Plan(d, s[Max(T)]) ELSE k[T \ {Max(T)}]
    BY <2>1, Zenon
  <2> QED  BY <2>2 DEF k, Better
<1> HIDE DEF iter, F
<1>8. PICK a : Runs(a, A, NoPlan, f, n) /\ a[n] = iter[1..n]
  <2>1. iter[{}] = NoPlan
    BY <1>7
  <2>2. ASSUME NEW T \in SUBSET (1..n), T # {}, iter[T \ {Max(T)}] \in A
        PROVE  iter[T] = f[<<iter[T \ {Max(T)}], Max(T)>>]
    <3>1. Max(T) \in 1..n
      BY <1>0, <2>2, Greatests
    <3>2. iter[T] = Better(d, larger, iter[T \ {Max(T)}], Max(T))
      BY <1>2, <1>7, <2>2, <3>1
    <3> QED  BY <1>3, <2>2, <3>1, <3>2
  <2>3. f \in [A \X (1..n) -> A]
    BY <1>3
  <2>4. Iterates(iter, A, NoPlan, f, n)
    BY <2>1, <2>2 DEF Iterates
  <2>5. HasRun(A, NoPlan, f, n, iter[1..n])
    BY <1>0, <1>2, <2>3, <2>4, RunExists
  <2> QED  BY <2>5 DEF HasRun
<1>9. \A i \in 1..n : a[i - 1] \in A
  BY <1>0, <1>8 DEF Runs
<1>10. \A i \in 1..n : a[i] = Better(d, larger, a[i - 1], i)
  BY <1>3, <1>8, <1>9 DEF Runs
<1>11. a \in [0..n -> A] /\ a[0] = NoPlan
  BY <1>8 DEF Runs
<1>12. EvaluateArbitrage(d, larger) = a[n]
  BY <1>1, <1>8, Zenon
<1> QED  BY <1>10, <1>11, <1>12, Zenon DEF A, n

(* aggregate_levels: the shares of a price, and all that is visible.        *)
Counted(m, e, prices) == IF e.price \in prices THEN m + e.quantity ELSE m
Counts(a, s, n, prices) ==
  /\ a \in [0..n -> Nat] /\ a[0] = 0
  /\ \A i \in 1..n : a[i] = Counted(a[i - 1], s[i], prices)

LEMMA SharesAtFolds ==
  ASSUME NEW n \in Nat, NEW s \in [1..n -> Entry], NEW price \in Nat
  PROVE  \E a : Counts(a, s, n, {price}) /\ SharesAt(s, price) = a[n]
<1> DEFINE F(g) == [T \in SUBSET (1..n) |->
                      IF T = {} THEN 0
                      ELSE IF s[Max(T)].price = price THEN g[T \ {Max(T)}] + s[Max(T)].quantity
                           ELSE g[T \ {Max(T)}]]
           iter == CHOOSE g : g = F(g)
           f == [p \in Nat \X (1..n) |-> Counted(p[1], s[p[2]], {price})]
<1>1. SharesAt(s, price) = iter[1..n]
  <2>1. DOMAIN s = 1..n
    OBVIOUS
  <2> QED  BY <2>1, Zenon DEF SharesAt, FoldLeft, MapThenFoldSet
<1>2. \A i \in 1..n : s[i].quantity \in Nat /\ s[i].price \in Nat
  BY DEF Entry
<1>3. \A k \in Nat, i \in 1..n : Counted(k, s[i], {price}) \in Nat
  BY <1>2 DEF Counted
<1>4. f \in [Nat \X (1..n) -> Nat]
  BY <1>3
<1>5. \A k \in Nat, i \in 1..n : f[<<k, i>>] = Counted(k, s[i], {price})
  OBVIOUS
<1>6. \A k, i : i \in 1..n => Counted(k, s[i], {price}) =
                 IF s[i].price = price THEN k + s[i].quantity ELSE k
  BY <1>2 DEF Counted
<1> HIDE DEF f
<1>7. PICK g \in [SUBSET (1..n) -> Nat] : Accumulates(g, 0, f, n)
  BY <1>4, FoldExists
<1>8. g = F(g)
  <2>1. ASSUME NEW T \in SUBSET (1..n)
        PROVE  g[T] = IF T = {} THEN 0
                      ELSE IF s[Max(T)].price = price THEN g[T \ {Max(T)}] + s[Max(T)].quantity
                           ELSE g[T \ {Max(T)}]
    <3>1. CASE T = {}
      BY <1>7, <3>1 DEF Accumulates
    <3>2. CASE T # {}
      <4>1. Max(T) \in 1..n /\ T \ {Max(T)} \in SUBSET (1..n)
        BY <3>2, Greatests
      <4>2. g[T] = f[<<g[T \ {Max(T)}], Max(T)>>] /\ g[T \ {Max(T)}] \in Nat
        BY <1>7, <3>2, <4>1 DEF Accumulates
      <4> QED  BY <1>5, <1>6, <3>2, <4>1, <4>2
    <3> QED  BY <3>1, <3>2
  <2>2. g = [T \in SUBSET (1..n) |-> g[T]]
    BY <1>7
  <2> QED  BY <2>1, <2>2
<1>9. iter = F(iter)
  <2> HIDE DEF F
  <2> QED  BY <1>8, Zenon
<1>10. ASSUME NEW T \in SUBSET (1..n)
       PROVE  /\ T = {} => iter[T] = 0
              /\ T # {} => iter[T] = Counted(iter[T \ {Max(T)}], s[Max(T)], {price})
  <2> DEFINE k == iter
  <2>1. k = F(k)
    BY <1>9
  <2> HIDE DEF k
  <2>2. k[T] = IF T = {} THEN 0
               ELSE IF s[Max(T)].price = price THEN k[T \ {Max(T)}] + s[Max(T)].quantity
                    ELSE k[T \ {Max(T)}]
    BY <2>1, Zenon
  <2>3. T # {} => Max(T) \in 1..n
    BY Greatests
  <2> DEFINE h == k[T \ {Max(T)}]
  <2>4. T # {} => Counted(h, s[Max(T)], {price}) =
                    IF s[Max(T)].price = price THEN h + s[Max(T)].quantity ELSE h
    BY <1>6, <2>3
  <2>5. T # {} => k[T] = IF s[Max(T)].price = price THEN h + s[Max(T)].quantity ELSE h
    BY <2>2, Zenon
  <2> HIDE DEF h
  <2>6. T # {} => k[T] = Counted(h, s[Max(T)], {price})
    BY <2>4, <2>5, Zenon
  <2> QED  BY <2>2, <2>6 DEF h, k
<1> HIDE DEF iter, F
<1>11. HasRun(Nat, 0, f, n, iter[1..n])
  <2>1. iter[{}] = 0
    BY <1>10
  <2>2. ASSUME NEW T \in SUBSET (1..n), T # {}, iter[T \ {Max(T)}] \in Nat
        PROVE  iter[T] = f[<<iter[T \ {Max(T)}], Max(T)>>]
    <3>1. Max(T) \in 1..n
      BY <2>2, Greatests
    <3> QED  BY <1>5, <1>10, <2>2, <3>1
  <2>3. Iterates(iter, Nat, 0, f, n)
    BY <2>1, <2>2 DEF Iterates
  <2> QED  BY <1>4, <2>3, RunExists
<1>12. PICK a : Runs(a, Nat, 0, f, n) /\ a[n] = iter[1..n]
  BY <1>11 DEF HasRun
<1>13. \A i \in 1..n : a[i - 1] \in Nat
  BY <1>12 DEF Runs
<1>14. Counts(a, s, n, {price})
  BY <1>5, <1>12, <1>13 DEF Runs, Counts
<1> QED  BY <1>1, <1>12, <1>14

LEMMA SharesFolds ==
  ASSUME NEW n \in Nat, NEW s \in [1..n -> Entry]
  PROVE  \E a : Counts(a, s, n, Nat) /\ Shares(s, LAMBDA p : TRUE) = a[n]
<1> DEFINE F(g) == [T \in SUBSET (1..n) |->
                      IF T = {} THEN 0
                      ELSE IF TRUE THEN g[T \ {Max(T)}] + s[Max(T)].quantity
                           ELSE g[T \ {Max(T)}]]
           iter == CHOOSE g : g = F(g)
           f == [p \in Nat \X (1..n) |-> Counted(p[1], s[p[2]], Nat)]
<1>1. Shares(s, LAMBDA p : TRUE) = iter[1..n]
  <2>1. DOMAIN s = 1..n
    OBVIOUS
  <2> QED  BY <2>1, Zenon DEF Shares, FoldLeft, MapThenFoldSet
<1>2. \A i \in 1..n : s[i].quantity \in Nat /\ s[i].price \in Nat
  BY DEF Entry
<1>3. \A k \in Nat, i \in 1..n : Counted(k, s[i], Nat) \in Nat
  BY <1>2 DEF Counted
<1>4. f \in [Nat \X (1..n) -> Nat]
  BY <1>3
<1>5. \A k \in Nat, i \in 1..n : f[<<k, i>>] = Counted(k, s[i], Nat)
  OBVIOUS
<1>6. \A k, i : i \in 1..n => Counted(k, s[i], Nat) =
                 IF TRUE THEN k + s[i].quantity ELSE k
  BY <1>2 DEF Counted
<1> HIDE DEF f
<1>7. PICK g \in [SUBSET (1..n) -> Nat] : Accumulates(g, 0, f, n)
  BY <1>4, FoldExists
<1>8. g = F(g)
  <2>1. ASSUME NEW T \in SUBSET (1..n)
        PROVE  g[T] = IF T = {} THEN 0
                      ELSE IF TRUE THEN g[T \ {Max(T)}] + s[Max(T)].quantity
                           ELSE g[T \ {Max(T)}]
    <3>1. CASE T = {}
      BY <1>7, <3>1 DEF Accumulates
    <3>2. CASE T # {}
      <4>1. Max(T) \in 1..n /\ T \ {Max(T)} \in SUBSET (1..n)
        BY <3>2, Greatests
      <4>2. g[T] = f[<<g[T \ {Max(T)}], Max(T)>>] /\ g[T \ {Max(T)}] \in Nat
        BY <1>7, <3>2, <4>1 DEF Accumulates
      <4> QED  BY <1>5, <1>6, <3>2, <4>1, <4>2
    <3> QED  BY <3>1, <3>2
  <2>2. g = [T \in SUBSET (1..n) |-> g[T]]
    BY <1>7
  <2> QED  BY <2>1, <2>2
<1>9. iter = F(iter)
  <2> HIDE DEF F
  <2> QED  BY <1>8, Zenon
<1>10. ASSUME NEW T \in SUBSET (1..n)
       PROVE  /\ T = {} => iter[T] = 0
              /\ T # {} => iter[T] = Counted(iter[T \ {Max(T)}], s[Max(T)], Nat)
  <2> DEFINE k == iter
  <2>1. k = F(k)
    BY <1>9
  <2> HIDE DEF k
  <2>2. k[T] = IF T = {} THEN 0
               ELSE IF TRUE THEN k[T \ {Max(T)}] + s[Max(T)].quantity
                    ELSE k[T \ {Max(T)}]
    BY <2>1, Zenon
  <2>3. T # {} => Max(T) \in 1..n
    BY Greatests
  <2> DEFINE h == k[T \ {Max(T)}]
  <2>4. T # {} => Counted(h, s[Max(T)], Nat) =
                    IF TRUE THEN h + s[Max(T)].quantity ELSE h
    BY <1>6, <2>3
  <2>5. T # {} => k[T] = IF TRUE THEN h + s[Max(T)].quantity ELSE h
    BY <2>2, Zenon
  <2> HIDE DEF h
  <2>6. T # {} => k[T] = Counted(h, s[Max(T)], Nat)
    BY <2>4, <2>5, Zenon
  <2> QED  BY <2>2, <2>6 DEF h, k
<1> HIDE DEF iter, F
<1>11. HasRun(Nat, 0, f, n, iter[1..n])
  <2>1. iter[{}] = 0
    BY <1>10
  <2>2. ASSUME NEW T \in SUBSET (1..n), T # {}, iter[T \ {Max(T)}] \in Nat
        PROVE  iter[T] = f[<<iter[T \ {Max(T)}], Max(T)>>]
    <3>1. Max(T) \in 1..n
      BY <2>2, Greatests
    <3> QED  BY <1>5, <1>10, <2>2, <3>1
  <2>3. Iterates(iter, Nat, 0, f, n)
    BY <2>1, <2>2 DEF Iterates
  <2> QED  BY <1>4, <2>3, RunExists
<1>12. PICK a : Runs(a, Nat, 0, f, n) /\ a[n] = iter[1..n]
  BY <1>11 DEF HasRun
<1>13. \A i \in 1..n : a[i - 1] \in Nat
  BY <1>12 DEF Runs
<1>14. Counts(a, s, n, Nat)
  BY <1>5, <1>12, <1>13 DEF Runs, Counts
<1> QED  BY <1>1, <1>12, <1>14

(***************************************************************************)
(* A walk down the levels of a book: what is still to be filled, and the   *)
(* value of what is, at values of a share that only get worse.             *)
(***************************************************************************)
Walk(r, v, q, c, k, x) ==
  /\ q \in [1..k -> Nat] /\ c \in [1..k -> Int]
  /\ r \in [0..k -> Nat] /\ v \in [0..k -> Int]
  /\ r[0] = x /\ v[0] = 0
  /\ \A i \in 1..k : LET take == Least(r[i - 1], q[i])
                     IN  r[i] = r[i - 1] - take /\ v[i] = v[i - 1] + take * c[i]

Worsening(c, k) == \A i, j \in 1..k : i < j => c[j] <= c[i]

LEMMA ProductGrows == \A n \in Nat : \A a, b \in Int : a <= b => n * a <= n * b
<1> DEFINE P == {n \in Nat : \A a, b \in Int : a <= b => n * a <= n * b}
<1>1. 0 \in P
  OBVIOUS
<1>2. ASSUME NEW n \in Nat, n \in P PROVE n + 1 \in P
  <2> SUFFICES ASSUME NEW a \in Int, NEW b \in Int, a <= b PROVE (n + 1) * a <= (n + 1) * b
    OBVIOUS
  <2>1. n * a <= n * b
    BY <1>2
  <2>2. (n + 1) * a = n * a + a /\ (n + 1) * b = n * b + b
    OBVIOUS
  <2>3. n * a \in Int /\ n * b \in Int
    OBVIOUS
  <2> QED  BY <2>1, <2>2, <2>3
<1> HIDE DEF P
<1>3. Nat \subseteq P
  BY <1>1, <1>2, NaturalsFollow
<1> QED  BY <1>3 DEF P

LEMMA LeastIs ==
  ASSUME NEW m \in Nat, NEW n \in Nat
  PROVE  /\ Least(m, n) \in Nat /\ Least(m, n) <= m /\ Least(m, n) <= n
         /\ Least(m, n) = m \/ Least(m, n) = n
BY DEF Least

LEMMA WalkStep ==
  ASSUME NEW k \in Nat, NEW x \in Nat, NEW r, NEW v, NEW q, NEW c, Walk(r, v, q, c, k, x),
         NEW i \in 1..k
  PROVE  LET take == Least(r[i - 1], q[i]) IN
         /\ i - 1 \in 0..k /\ i \in 0..k /\ r[i - 1] \in Nat /\ v[i - 1] \in Int
         /\ r[i] \in Nat /\ v[i] \in Int /\ c[i] \in Int /\ q[i] \in Nat
         /\ take \in Nat /\ take <= r[i - 1] /\ take <= q[i] /\ (take = r[i - 1] \/ take = q[i])
         /\ r[i] = r[i - 1] - take /\ v[i] = v[i - 1] + take * c[i]
<1>1. i - 1 \in 0..k /\ i \in 0..k
  OBVIOUS
<1>2. /\ r[i - 1] \in Nat /\ v[i - 1] \in Int /\ r[i] \in Nat /\ v[i] \in Int
      /\ c[i] \in Int /\ q[i] \in Nat
  BY <1>1 DEF Walk
<1>3. LET take == Least(r[i - 1], q[i])
      IN  r[i] = r[i - 1] - take /\ v[i] = v[i - 1] + take * c[i]
  BY DEF Walk
<1> QED  BY <1>1, <1>2, <1>3, LeastIs

(* No share is worth more than one of the best level.                      *)
LEMMA WalkBest ==
  ASSUME NEW k \in Nat \ {0}, NEW x \in Nat, NEW r, NEW v, NEW q, NEW c, Walk(r, v, q, c, k, x),
         Worsening(c, k)
  PROVE  /\ r[k] \in 0..x /\ v[k] \in Int /\ c[1] \in Int
         /\ v[k] <= (x - r[k]) * c[1]
         /\ q[1] >= x => r[k] = 0 /\ v[k] = x * c[1]
<1>1. 1 \in 1..k /\ c[1] \in Int /\ q[1] \in Nat
  BY DEF Walk
<1>2. \A i \in 1..k : c[i] <= c[1] /\ c[i] \in Int
  BY <1>1 DEF Worsening, Walk
<1> DEFINE P == {i \in 0..k : r[i] <= x /\ v[i] <= (x - r[i]) * c[1]}
           E == {i \in 0..k : i > 0 => r[i] = 0 /\ v[i] = x * c[1]}
<1>3. r[0] = x /\ v[0] = 0
  BY DEF Walk
<1>4. 0..k \subseteq P
  <2>1. 0 \in P
    <3>1. (x - x) * c[1] = 0
      BY <1>1
    <3> QED  BY <1>3, <3>1
  <2>2. ASSUME NEW i \in 1..k, i - 1 \in P PROVE i \in P
    <3> DEFINE t == Least(r[i - 1], q[i])
    <3>1. /\ i \in 0..k /\ r[i - 1] \in Nat /\ v[i - 1] \in Int /\ r[i] \in Nat /\ v[i] \in Int
          /\ t \in Nat /\ r[i] = r[i - 1] - t /\ v[i] = v[i - 1] + t * c[i]
      BY WalkStep
    <3> HIDE DEF t
    <3>2. t * c[i] <= t * c[1] /\ t * c[i] \in Int /\ t * c[1] \in Int
      BY <1>1, <1>2, <3>1, ProductGrows
    <3>3. (x - r[i]) * c[1] = (x - r[i - 1]) * c[1] + t * c[1]
      BY <1>1, <3>1
    <3>4. r[i - 1] <= x /\ v[i - 1] <= (x - r[i - 1]) * c[1] /\ (x - r[i - 1]) * c[1] \in Int
      BY <1>1, <2>2, <3>1
    <3> QED  BY <3>1, <3>2, <3>3, <3>4
  <2> HIDE DEF P
  <2> QED  BY <2>1, <2>2, UpTo
<1>5. q[1] >= x => 0..k \subseteq E
  <2> SUFFICES ASSUME q[1] >= x PROVE 0..k \subseteq E
    OBVIOUS
  <2>1. 0 \in E
    OBVIOUS
  <2>2. ASSUME NEW i \in 1..k, i - 1 \in E PROVE i \in E
    <3> DEFINE t == Least(r[i - 1], q[i])
    <3>1. /\ i \in 0..k /\ r[i - 1] \in Nat /\ v[i - 1] \in Int /\ r[i] \in Nat /\ v[i] \in Int
          /\ t \in Nat /\ r[i] = r[i - 1] - t /\ v[i] = v[i - 1] + t * c[i] /\ t <= r[i - 1]
          /\ (t = r[i - 1] \/ t = q[i])
      BY WalkStep
    <3> HIDE DEF t
    <3>2. CASE i = 1
      <4>1. r[i - 1] = x /\ v[i - 1] = 0 /\ c[i] = c[1] /\ q[i] = q[1]
        BY <1>3, <3>2
      <4>2. t = x
        BY <1>1, <3>1, <4>1
      <4> QED  BY <1>1, <3>1, <4>1, <4>2
    <3>3. CASE i # 1
      <4>1. r[i - 1] = 0 /\ v[i - 1] = x * c[1]
        BY <2>2, <3>3
      <4>2. t = 0 /\ t * c[i] = 0
        BY <1>2, <3>1, <4>1
      <4> QED  BY <3>1, <4>1, <4>2
    <3> QED  BY <3>2, <3>3
  <2> HIDE DEF E
  <2> QED  BY <2>1, <2>2, UpTo
<1>6. k \in P /\ r[k] \in Nat /\ v[k] \in Int
  BY <1>4 DEF Walk
<1>7. q[1] >= x => k \in E
  BY <1>5
<1> QED  BY <1>1, <1>6, <1>7

(* The larger of two walks gets no better value a share: its last shares   *)
(* are at the level where the smaller one stopped, or at worse ones.       *)
LEMMA WalkConcave ==
  ASSUME NEW k \in Nat, NEW x \in Nat \ {0}, NEW y \in Nat, x <= y,
         NEW r, NEW v, NEW R, NEW V, NEW q, NEW c,
         Walk(r, v, q, c, k, x), Walk(R, V, q, c, k, y), R[k] = 0, Worsening(c, k)
  PROVE  r[k] = 0 /\ x * V[k] <= y * v[k]
<1> DEFINE Going(i) == /\ R[i] = r[i] + (y - x) /\ V[i] = v[i]
                       /\ \A j \in 1..k : i < j => (x - r[i]) * c[j] <= v[i]
           Gone(i, w) == /\ x * w <= v[i] /\ V[i] - v[i] <= ((y - R[i]) - x) * w
                         /\ x <= y - R[i] /\ \A j \in 1..k : i < j => c[j] <= w
           P == {i \in 0..k : IF r[i] > 0 THEN Going(i) ELSE \E w \in Int : Gone(i, w)}
<1>0. x \in Nat /\ x > 0
  OBVIOUS
<1>1. /\ r[0] = x /\ v[0] = 0 /\ R[0] = y /\ V[0] = 0
      /\ \A i \in 1..k : c[i] \in Int
  BY DEF Walk
<1>2. 0 \in P
  <2>1. \A j \in 1..k : (x - x) * c[j] = 0
    BY <1>1
  <2>2. Going(0)
    BY <1>1, <2>1
  <2> QED  BY <1>1, <2>2
<1>3. ASSUME NEW i \in 1..k, i - 1 \in P PROVE i \in P
  <2> DEFINE h == i - 1
             t == Least(r[h], q[i])
             T == Least(R[h], q[i])
  <2>1. /\ h \in 0..k /\ i \in 0..k /\ r[h] \in Nat /\ v[h] \in Int /\ c[i] \in Int
        /\ r[i] \in Nat /\ v[i] \in Int /\ q[i] \in Nat
        /\ t \in Nat /\ t <= r[h] /\ t <= q[i] /\ (t = r[h] \/ t = q[i])
        /\ r[i] = r[h] - t /\ v[i] = v[h] + t * c[i]
    BY <1>0, WalkStep
  <2>2. /\ R[h] \in Nat /\ V[h] \in Int /\ R[i] \in Nat /\ V[i] \in Int
        /\ T \in Nat /\ T <= R[h] /\ T <= q[i] /\ (T = R[h] \/ T = q[i])
        /\ R[i] = R[h] - T /\ V[i] = V[h] + T * c[i]
    BY WalkStep
  <2>3. /\ \A j \in 1..k : i < j => h < j /\ c[j] <= c[i]
        /\ h < i
    BY DEF Worsening
  <2>4. IF r[h] > 0 THEN Going(h) ELSE \E w \in Int : Gone(h, w)
    BY <1>3
  <2> HIDE DEF h, t, T
  <2>5. CASE r[h] > 0 /\ r[i] > 0
    <3>1. R[h] = r[h] + (y - x) /\ V[h] = v[h]
      BY <2>4, <2>5
    <3>2. t = q[i] /\ T = q[i]
      BY <1>0, <2>1, <2>2, <2>5, <3>1
    <3>3. R[i] = r[i] + (y - x) /\ V[i] = v[i]
      BY <1>0, <2>1, <2>2, <3>1, <3>2
    <3>4. ASSUME NEW j \in 1..k, i < j PROVE (x - r[i]) * c[j] <= v[i]
      <4>1. c[j] \in Int /\ c[j] <= c[i] /\ (x - r[h]) * c[j] <= v[h]
        BY <1>1, <2>3, <2>4, <2>5, <3>4
      <4>2. t * c[j] <= t * c[i] /\ t * c[j] \in Int /\ t * c[i] \in Int
        BY <2>1, <4>1, ProductGrows
      <4>3. (x - r[i]) * c[j] = (x - r[h]) * c[j] + t * c[j] /\ (x - r[h]) * c[j] \in Int
        BY <1>0, <2>1, <4>1
      <4> QED  BY <2>1, <4>1, <4>2, <4>3
    <3>5. Going(i)
      BY <3>3, <3>4
    <3> QED  BY <2>1, <2>5, <3>5
  <2>6. CASE r[h] > 0 /\ ~(r[i] > 0)
    <3>1. /\ R[h] = r[h] + (y - x) /\ V[h] = v[h] /\ (x - r[h]) * c[i] <= v[h]
      BY <2>3, <2>4, <2>6
    <3>2. t = r[h] /\ T >= t /\ r[i] = 0
      <4>0. r[h] \in Nat /\ r[i] \in Nat /\ t \in Nat /\ t <= r[h] /\ r[i] = r[h] - t
        BY <2>1
      <4>1. r[i] = 0 /\ t = r[h]
        BY <2>6, <4>0
      <4>2. R[h] >= r[h]
        BY <1>0, <2>1, <3>1
      <4>3. T >= t
        BY <2>1, <2>2, <4>1, <4>2
      <4> QED  BY <4>1, <4>3
    <3>3. x * c[i] = (x - r[h]) * c[i] + t * c[i]
      BY <1>0, <2>1, <3>2
    <3>4. x * c[i] <= v[i]
      <4>1. (x - r[h]) * c[i] \in Int /\ t * c[i] \in Int
        BY <1>0, <2>1
      <4> QED  BY <2>1, <3>1, <3>3, <4>1
    <3>5. (y - R[i]) - x = T - t
      BY <1>0, <2>1, <2>2, <3>1, <3>2
    <3>6. V[i] - v[i] = T * c[i] - t * c[i] /\ (T - t) * c[i] = T * c[i] - t * c[i]
      <4>1. T * c[i] \in Int /\ t * c[i] \in Int
        BY <2>1, <2>2
      <4>2. (T - t) * c[i] = T * c[i] - t * c[i]
        BY <2>1, <2>2
      <4> QED  BY <2>1, <2>2, <3>1, <4>1, <4>2
    <3>7. V[i] - v[i] <= ((y - R[i]) - x) * c[i]
      <4>1. T * c[i] - t * c[i] \in Int
        BY <2>1, <2>2
      <4> QED  BY <3>5, <3>6, <4>1
    <3>8. x <= y - R[i]
      BY <1>0, <2>1, <2>2, <3>2, <3>5
    <3>9. Gone(i, c[i])
      BY <2>3, <3>4, <3>7, <3>8
    <3> QED  BY <2>1, <2>6, <3>9
  <2>7. CASE ~(r[h] > 0)
    <3>1. PICK w \in Int : Gone(h, w)
      BY <2>4, <2>7
    <3>2. r[h] = 0 /\ t = 0 /\ t * c[i] = 0 /\ r[i] = 0 /\ v[i] = v[h]
      BY <2>1, <2>7
    <3>3. c[i] <= w /\ \A j \in 1..k : i < j => c[j] <= w
      BY <2>3, <3>1
    <3>4. T * c[i] <= T * w /\ T * c[i] \in Int /\ T * w \in Int
      BY <2>1, <2>2, <3>3, ProductGrows
    <3>5. ((y - R[i]) - x) * w = ((y - R[h]) - x) * w + T * w
      BY <1>0, <2>2
    <3>6. V[h] - v[h] <= ((y - R[h]) - x) * w /\ ((y - R[h]) - x) * w \in Int
      BY <1>0, <2>2, <3>1
    <3>7. V[i] - v[i] <= ((y - R[i]) - x) * w
      <4>1. V[i] - v[i] = (V[h] - v[h]) + T * c[i]
        <5>1. V[i] = V[h] + T * c[i] /\ v[i] = v[h] /\ T * c[i] \in Int
          BY <2>2, <3>2, <3>4
        <5>2. V[h] \in Int /\ v[h] \in Int
          BY <2>1, <2>2
        <5> QED  BY <5>1, <5>2
      <4>2. V[h] - v[h] \in Int
        BY <2>1, <2>2
      <4> QED  BY <3>4, <3>5, <3>6, <4>1, <4>2
    <3>8. x <= y - R[i]
      BY <1>0, <2>2, <3>1
    <3>9. Gone(i, w)
      BY <3>1, <3>2, <3>3, <3>7, <3>8
    <3> QED  BY <2>1, <3>2, <3>9
  <2> QED  BY <2>5, <2>6, <2>7
<1>4. k \in P
  <2> HIDE DEF P
  <2>1. 0..k \subseteq P
    BY <1>2, <1>3, UpTo
  <2> QED  BY <2>1
<1>5. r[k] \in Nat /\ v[k] \in Int /\ V[k] \in Int
  BY DEF Walk
<1>6. r[k] = 0
  <2> SUFFICES ASSUME r[k] > 0 PROVE FALSE
    BY <1>5
  <2>1. R[k] = r[k] + (y - x)
    BY <1>4
  <2> QED  BY <1>0, <1>5, <2>1
<1>7. PICK w \in Int : x * w <= v[k] /\ V[k] - v[k] <= (y - x) * w
  <2>1. PICK w \in Int : Gone(k, w)
    BY <1>4, <1>6
  <2>2. (y - R[k]) - x = y - x
    BY <1>0
  <2> QED  BY <2>1, <2>2
<1>8. x * (V[k] - v[k]) <= x * ((y - x) * w)
  <2>1. (y - x) * w \in Int /\ V[k] - v[k] \in Int
    BY <1>0, <1>5
  <2> QED  BY <1>0, <1>7, <2>1, ProductGrows
<1>9. (y - x) * (x * w) <= (y - x) * v[k]
  <2>1. x * w \in Int /\ y - x \in Nat
    BY <1>0
  <2> QED  BY <1>5, <1>7, <2>1, ProductGrows
<1>10. x * V[k] <= y * v[k]
  <2>1. x * ((y - x) * w) = (y - x) * (x * w)
    BY <1>0
  <2>2. x * (V[k] - v[k]) = x * V[k] - x * v[k] /\ (y - x) * v[k] = y * v[k] - x * v[k]
    BY <1>0, <1>5
  <2>3. /\ x * V[k] \in Int /\ x * v[k] \in Int /\ y * v[k] \in Int
        /\ (y - x) * (x * w) \in Int
    BY <1>0, <1>5
  <2> QED  BY <1>8, <1>9, <2>1, <2>2, <2>3
<1> QED  BY <1>6, <1>10

(* The fill of an order as a walk: sold shares are worth their price, and  *)
(* bought ones cost it.                                                    *)
Signed(act, n) == IF act = "SELL" THEN n ELSE -n
Sizes(L, k) == [i \in 1..k |-> L[i].quantity]
Values(L, k, act) == [i \in 1..k |-> Signed(act, L[i].price)]

LEMMA FillWalks ==
  ASSUME NEW k \in Nat, NEW L \in [1..k -> Entry], NEW x \in Nat, NEW act
  PROVE  LET f == FoldLeft(Taken, Ordered0(x), L) IN
         /\ f \in Fill
         /\ \E r, v : /\ Walk(r, v, Sizes(L, k), Values(L, k, act), k, x)
                      /\ r[k] = f.remaining /\ v[k] = Signed(act, f.notional)
<1> DEFINE f == FoldLeft(Taken, Ordered0(x), L)
           q == Sizes(L, k)
           c == Values(L, k, act)
<1>1. PICK a : /\ a \in [0..k -> Fill] /\ a[0] = Ordered0(x)
               /\ \A i \in 1..k : a[i] = Taken(a[i - 1], L[i])
               /\ f = a[k]
  BY FillFolds
<1> HIDE DEF f
<1>2. \A i \in 0..k : a[i].remaining \in Nat /\ a[i].notional \in Nat
  BY <1>1 DEF Fill
<1>3. \A i \in 1..k : L[i].price \in Nat /\ L[i].quantity \in Nat
  BY DEF Entry
<1>4. q \in [1..k -> Nat] /\ c \in [1..k -> Int]
  BY <1>3 DEF Sizes, Values, Signed
<1>5. \A i \in 1..k : q[i] = L[i].quantity /\ c[i] = Signed(act, L[i].price)
  BY DEF Sizes, Values
<1> HIDE DEF q, c
<1> DEFINE r == [i \in 0..k |-> a[i].remaining]
           v == [i \in 0..k |-> Signed(act, a[i].notional)]
<1>6. r \in [0..k -> Nat] /\ v \in [0..k -> Int] /\ r[0] = x /\ v[0] = 0
  BY <1>1, <1>2 DEF Signed, Ordered0
<1>7. ASSUME NEW i \in 1..k
      PROVE  LET take == Least(r[i - 1], q[i])
             IN  r[i] = r[i - 1] - take /\ v[i] = v[i - 1] + take * c[i]
  <2> DEFINE h == a[i - 1]
             take == Least(h.remaining, L[i].quantity)
  <2>1. h \in Fill /\ L[i] \in Entry /\ i - 1 \in 0..k /\ i \in 0..k
    BY <1>1
  <2>2. /\ take \in Nat
        /\ Taken(h, L[i]).remaining = h.remaining - take
        /\ Taken(h, L[i]).notional = h.notional + take * L[i].price
    BY <2>1, TakenIs
  <2>3. a[i] = Taken(h, L[i])
    BY <1>1
  <2> HIDE DEF take
  <2>4. Signed(act, h.notional + take * L[i].price) = Signed(act, h.notional) + take * Signed(act, L[i].price)
    <3>1. h.notional \in Nat /\ L[i].price \in Nat
      BY <1>2, <1>3, <2>1
    <3> QED  BY <2>2, <3>1 DEF Signed
  <2>5. r[i] = a[i].remaining /\ v[i] = Signed(act, a[i].notional)
        /\ r[i - 1] = h.remaining /\ v[i - 1] = Signed(act, h.notional)
    BY <2>1
  <2> HIDE DEF h, r, v
  <2> QED  BY <1>5, <2>2, <2>3, <2>4, <2>5 DEF take
<1>8. Walk(r, v, q, c, k, x)
  <2> HIDE DEF r, v
  <2> QED  BY <1>4, <1>6, <1>7 DEF Walk
<1>9. r[k] = f.remaining /\ v[k] = Signed(act, f.notional) /\ f \in Fill
  BY <1>1
<1> QED  BY <1>8, <1>9 DEF f, q, c

(***************************************************************************)
(* The levels of a side.                                                   *)
(***************************************************************************)
LEMMA SortedIs ==
  ASSUME NEW prices, prices \subseteq Nat, IsFiniteSet(prices), NEW descending \in BOOLEAN
  PROVE  LET s == Sorted(prices, descending)
             k == Cardinality(prices)
         IN  /\ k \in Nat /\ s \in [1..k -> prices]
             /\ \A i, j \in 1..k : i < j => IF descending THEN s[i] > s[j] ELSE s[i] < s[j]
<1> DEFINE k == Cardinality(prices)
           R == {p \in prices \X prices : IF descending THEN p[1] > p[2] ELSE p[1] < p[2]}
           Sorts(s) == /\ s \in [1..k -> prices]
                       /\ \A i, j \in DOMAIN s :
                            i < j => IF descending THEN s[i] > s[j] ELSE s[i] < s[j]
           o == Sorted(prices, descending)
<1>1. \A x, y \in prices : <<x, y>> \in R <=> IF descending THEN x > y ELSE x < y
  OBVIOUS
<1>2. k \in Nat
  BY FS_CardinalityType
<1> HIDE DEF R, k
<1>3. PutsInOrder(R, prices)
  BY <1>1 DEF PutsInOrder
<1>4. PICK s \in [1..k -> prices] : Ordered(s, R)
  BY <1>3, SortedExists DEF k
<1>5. Sorts(s)
  BY <1>1, <1>4 DEF Ordered
<1>6. o = CHOOSE t : Sorts(t)
  BY Zenon DEF Sorted, k
<1> HIDE DEF Sorts, o
<1>7. Sorts(o)
  BY <1>5, <1>6, Zenon
<1>8. /\ o \in [1..k -> prices]
      /\ \A i, j \in 1..k : i < j => IF descending THEN o[i] > o[j] ELSE o[i] < o[j]
  BY <1>7 DEF Sorts
<1> QED  BY <1>2, <1>8 DEF k, o

IsLevels(L, k, s, descending) ==
  /\ L \in [1..k -> Entry]
  /\ \A i \in 1..k : L[i].quantity = SharesAt(s, L[i].price)
  /\ \A i, j \in 1..k : i < j => IF descending THEN L[i].price > L[j].price
                                 ELSE L[i].price < L[j].price

LEMMA AggregateLevelsIs ==
  ASSUME NEW n \in Nat, NEW s \in [1..n -> Entry], NEW descending \in BOOLEAN
  PROVE  \E k \in Nat : IsLevels(AggregateLevels(s, descending), k, s, descending)
<1> DEFINE prices == {e.price : e \in {e \in ToSet(s) : e.quantity > 0}}
           k == Cardinality(prices)
           o == Sorted(prices, descending)
           L == AggregateLevels(s, descending)
<1>1. ToSet(s) = {s[i] : i \in 1..n}
  BY DEF ToSet
<1>2. \A e \in ToSet(s) : e \in Entry /\ e.price \in Nat
  BY <1>1 DEF Entry
<1>3. prices \subseteq Nat
  BY <1>2
<1>4. IsFiniteSet(prices)
  <2> DEFINE all == {s[i].price : i \in 1..n}
             g == [i \in 1..n |-> s[i].price]
  <2>1. g \in Surjection(1..n, all)
    BY DEF Surjection
  <2>2. IsFiniteSet(1..n)
    BY FS_Interval
  <2> HIDE DEF g
  <2>3. IsFiniteSet(all)
    <3> HIDE DEF all
    <3> QED  BY <2>1, <2>2, FS_Surjection
  <2>4. prices \subseteq all
    BY <1>1
  <2> HIDE DEF all, prices
  <2> QED  BY <2>3, <2>4, FS_Subset
<1>5. L = [i \in DOMAIN o |-> [price |-> o[i], quantity |-> SharesAt(s, o[i])]]
  BY DEF AggregateLevels
<1> HIDE DEF prices
<1>6. /\ k \in Nat /\ o \in [1..k -> prices]
      /\ \A i, j \in 1..k : i < j => IF descending THEN o[i] > o[j] ELSE o[i] < o[j]
  BY <1>3, <1>4, SortedIs
<1> HIDE DEF o, k, L
<1>7. ASSUME NEW i \in 1..k PROVE o[i] \in Nat /\ SharesAt(s, o[i]) \in Nat
  <2>1. o[i] \in Nat
    BY <1>3, <1>6
  <2>2. PICK a : Counts(a, s, n, {o[i]}) /\ SharesAt(s, o[i]) = a[n]
    BY <2>1, SharesAtFolds
  <2> QED  BY <2>1, <2>2 DEF Counts
<1>8. L = [i \in 1..k |-> [price |-> o[i], quantity |-> SharesAt(s, o[i])]]
  BY <1>5, <1>6
<1>9. \A i \in 1..k : L[i] = [price |-> o[i], quantity |-> SharesAt(s, o[i])]
  BY <1>8
<1>10. L \in [1..k -> Entry]
  BY <1>7, <1>8 DEF Entry
<1>11. ASSUME NEW i \in 1..k PROVE L[i].price = o[i] /\ L[i].quantity = SharesAt(s, o[i])
  <2>1. L[i] = [price |-> o[i], quantity |-> SharesAt(s, o[i])]
    BY <1>9
  <2> QED  BY <2>1
<1>12. IsLevels(L, k, s, descending)
  BY <1>6, <1>10, <1>11 DEF IsLevels
<1> QED  BY <1>6, <1>12 DEF L

(***************************************************************************)
(* The books of a reachable state are what was recorded of lists of        *)
(* orders, and positions are whole numbers.                                *)
(***************************************************************************)
OrderList == UNION {[1..n -> Entry] : n \in Nat}

DepthInv ==
  /\ due \subseteq Moving
  /\ raw \in [Tickers -> OrderList \X OrderList]
  /\ books = [t \in Tickers |-> Recorded(raw[t][1], raw[t][2])]
  /\ holdings \in [Tickers -> Int]

LEMMA MinIs ==
  ASSUME NEW T, NEW x \in T, T \subseteq Int, \A y \in T : x <= y
  PROVE  Min(T) = x
<1>1. Min(T) \in T /\ \A y \in T : Min(T) <= y
  <2> DEFINE Bottom(z) == z \in T /\ \A y \in T : z <= y
  <2>1. Min(T) = CHOOSE z : Bottom(z)
    BY Zenon DEF Min
  <2>2. Bottom(x)
    OBVIOUS
  <2> HIDE DEF Bottom
  <2>3. Bottom(Min(T))
    BY <2>1, <2>2, Zenon
  <2> QED  BY <2>3 DEF Bottom
<1>2. Min(T) \in Int /\ x \in Int /\ Min(T) >= x /\ Min(T) <= x
  BY <1>1
<1> QED  BY <1>2

LEMMA PricesAre ==
  ASSUME NEW t \in Tickers
  PROVE  /\ Prices[t] \subseteq 0..110 /\ Prices[t] # {} /\ Lot[t] \in Nat
         /\ Min(Prices[t]) \in Nat /\ Max(Prices[t]) \in Nat
<1>1. Prices[t] \subseteq 0..110 /\ Prices[t] # {} /\ Lot[t] \in Nat
  BY DEF Tickers, Prices, Lot
<1>2. Max(Prices[t]) \in Nat
  <2>1. Max(Prices[t]) \in Prices[t]
    BY <1>1, MaxOf
  <2> QED  BY <1>1, <2>1
<1>3. Min(Prices[t]) \in Nat
  <2>1. Prices[t] \subseteq Nat
    BY <1>1
  <2>2. PICK x \in Prices[t] : \A y \in Prices[t] : x <= y
    BY <1>1, <2>1, LeastOfNaturals
  <2>3. Min(Prices[t]) = x
    BY <2>1, <2>2, MinIs
  <2> QED  BY <2>1, <2>3
<1> QED  BY <1>1, <1>2, <1>3

LEMMA DepthStarts == DepthInit => DepthInv
<1> SUFFICES ASSUME DepthInit PROVE DepthInv
  OBVIOUS
<1>1. ASSUME NEW t \in Tickers PROVE Deep(t) \in OrderList \X OrderList
  <2>1. Min(Prices[t]) \in Nat /\ Max(Prices[t]) \in Nat /\ 9 * Lot[t] \in Nat
    BY PricesAre
  <2>2. ASSUME NEW p \in Nat, NEW q \in Nat
        PROVE  <<[price |-> p, quantity |-> q]>> \in OrderList
    <3>1. [price |-> p, quantity |-> q] \in Entry
      BY DEF Entry
    <3>2. <<[price |-> p, quantity |-> q]>> \in [1..1 -> Entry]
      BY <3>1
    <3> QED  BY <3>2 DEF OrderList
  <2> QED  BY <2>1, <2>2 DEF Deep
<1>2. holdings \in [Tickers -> Int]
  <2>1. \A x \in {"FLAT", "LONG_BASKET", "SHORT_BASKET", "UNEVEN", "STOCKS"} : Portfolios[x] \in [Tickers -> Int]
    BY DEF Portfolios, Tickers
  <2> QED  BY <2>1, DepthAssumption DEF DepthInit
<1>3. raw = [t \in Tickers |-> Deep(t)]
  BY DEF DepthInit
<1>4. raw \in [Tickers -> OrderList \X OrderList]
  BY <1>1, <1>3
<1>5. books = [t \in Tickers |-> Recorded(raw[t][1], raw[t][2])]
  BY <1>3 DEF DepthInit
<1> QED  BY <1>2, <1>4, <1>5 DEF DepthInv, DepthInit

LEMMA DepthStep == DepthInv /\ [DepthNext]_depthVars => DepthInv'
<1> SUFFICES ASSUME DepthInv, [DepthNext]_depthVars PROVE DepthInv'
  OBVIOUS
<1>1. CASE UNCHANGED depthVars
  BY <1>1 DEF DepthInv, depthVars, Recorded
<1>2. ASSUME NEW ticker \in Tickers, RecordBook(ticker) PROVE DepthInv'
  <2>1. PICK s \in Snapshots[ticker] :
          /\ raw' = [raw EXCEPT ![ticker] = s]
          /\ books' = [books EXCEPT ![ticker] = Recorded(s[1], s[2])]
    BY <1>2 DEF RecordBook
  <2>2. ticker \in Moving /\ due' \subseteq Moving /\ holdings' = holdings
    BY <1>2 DEF RecordBook, DepthInv
  <2>3. s \in Sides(ticker) \X Sides(ticker)
    BY <2>1, <2>2 DEF Snapshots
  <2>4. Sides(ticker) \subseteq OrderList
    <3> DEFINE E == [price : Prices[ticker], quantity : {Lot[ticker] * q : q \in Quantities}]
    <3>1. \A q \in Quantities : Lot[ticker] * q \in Nat
      <4>1. Quantities \subseteq Nat
        BY DepthAssumption
      <4> QED  BY <4>1, PricesAre, ProductIsNatural
    <3>2. Prices[ticker] \subseteq Nat
      BY PricesAre
    <3>3. E \subseteq Entry
      BY <3>1, <3>2 DEF Entry
    <3>4. MaxEntries \in Nat
      BY DepthAssumption
    <3>5. Sides(ticker) = UNION {[1..n -> E] : n \in 0..MaxEntries}
      BY DEF Sides
    <3> HIDE DEF E
    <3>6. \A n : [1..n -> E] \subseteq [1..n -> Entry]
      BY <3>3
    <3>7. \A n \in 0..MaxEntries : n \in Nat
      BY <3>4
    <3> QED  BY <3>5, <3>6, <3>7, Zenon DEF OrderList
  <2>5. s \in OrderList \X OrderList
    BY <2>3, <2>4
  <2>6. raw' \in [Tickers -> OrderList \X OrderList]
    BY <2>1, <2>5 DEF DepthInv
  <2>7. books' = [t \in Tickers |-> Recorded(raw'[t][1], raw'[t][2])]
    BY <2>1 DEF DepthInv
  <2> QED  BY <2>2, <2>6, <2>7 DEF DepthInv
<1> QED  BY <1>1, <1>2 DEF DepthNext

LEMMA DepthInvariant == DepthSpec => []DepthInv
BY DepthStarts, DepthStep, PTL DEF DepthSpec

(***************************************************************************)
(* The other side of a book, and a fill in it.                             *)
(***************************************************************************)
LEMMA AgainstIs ==
  ASSUME DepthInv, NEW t \in Tickers, NEW act \in {"BUY", "SELL"}
  PROVE  /\ Orders(t, act) \in OrderList
         /\ \E k \in Nat : /\ IsLevels(Against(t, act), k, Orders(t, act), act = "SELL")
                          /\ Worsening(Values(Against(t, act), k, act), k)
<1>1. raw[t] \in OrderList \X OrderList /\ books[t] = Recorded(raw[t][1], raw[t][2])
  BY DEF DepthInv
<1>2. Orders(t, act) \in OrderList
  BY <1>1 DEF Orders
<1>3. Against(t, act) = AggregateLevels(Orders(t, act), act = "SELL")
  <2>1. CASE act = "BUY"
    <3>1. Orders(t, act) = raw[t][2] /\ Against(t, act) = books[t].asks /\ (act = "SELL") = FALSE
      BY <2>1 DEF Against, Orders
    <3>2. books[t].asks = AggregateLevels(raw[t][2], FALSE)
      BY <1>1 DEF Recorded
    <3> QED  BY <3>1, <3>2, Zenon
  <2>2. CASE act = "SELL"
    <3>1. Orders(t, act) = raw[t][1] /\ Against(t, act) = books[t].bids /\ (act = "SELL") = TRUE
      BY <2>2 DEF Against, Orders
    <3>2. books[t].bids = AggregateLevels(raw[t][1], TRUE)
      BY <1>1 DEF Recorded
    <3> QED  BY <3>1, <3>2, Zenon
  <2> QED  BY <2>1, <2>2
<1>4. PICK n \in Nat : Orders(t, act) \in [1..n -> Entry]
  BY <1>2 DEF OrderList
<1>5. PICK k \in Nat : IsLevels(Against(t, act), k, Orders(t, act), act = "SELL")
  BY <1>3, <1>4, AggregateLevelsIs
<1> DEFINE L == Against(t, act)
<1> HIDE DEF L
<1>6. ASSUME NEW i \in 1..k, NEW j \in 1..k, i < j
      PROVE  Values(L, k, act)[j] <= Values(L, k, act)[i]
  <2>1. /\ L[i].price \in Nat /\ L[j].price \in Nat
        /\ IF act = "SELL" THEN L[i].price > L[j].price ELSE L[i].price < L[j].price
    BY <1>5, <1>6 DEF IsLevels, L, Entry
  <2>2. Values(L, k, act)[j] = Signed(act, L[j].price) /\ Values(L, k, act)[i] = Signed(act, L[i].price)
    BY DEF Values
  <2> QED  BY <2>1, <2>2 DEF Signed
<1>7. Worsening(Values(L, k, act), k)
  BY <1>6 DEF Worsening
<1> QED  BY <1>2, <1>5, <1>7 DEF L

LEMMA FillIs ==
  ASSUME DepthInv, NEW t \in Tickers, NEW act \in {"BUY", "SELL"}, NEW x \in Nat
  PROVE  /\ EstimateFill(t, act, x) \in Fill
         /\ EstimateFill(t, act, x).remaining \in Nat /\ EstimateFill(t, act, x).notional \in Nat
<1>1. PICK k \in Nat : Against(t, act) \in [1..k -> Entry]
  BY AgainstIs DEF IsLevels
<1>2. EstimateFill(t, act, x) = FoldLeft(Taken, Ordered0(x), Against(t, act))
  BY DEF EstimateFill, Ordered0
<1>3. EstimateFill(t, act, x) \in Fill
  BY <1>1, <1>2, FillWalks
<1> QED  BY <1>3 DEF Fill

LEMMA QuotedIs ==
  ASSUME DepthInv, NEW t \in Tickers, Quoted(t)
  PROVE  BestBid(t) \in Nat /\ BestAsk(t) \in Nat
<1>1. ASSUME NEW act \in {"BUY", "SELL"}, Against(t, act) # <<>>
      PROVE  Against(t, act)[1].price \in Nat
  <2>1. PICK k \in Nat : Against(t, act) \in [1..k -> Entry]
    BY AgainstIs DEF IsLevels
  <2>2. k # 0
    <3> SUFFICES ASSUME k = 0 PROVE FALSE
      OBVIOUS
    <3>1. 1..k = {}
      OBVIOUS
    <3>2. Against(t, act) = <<>>
      BY <2>1, <3>1
    <3> QED  BY <1>1, <3>2
  <2>3. Against(t, act)[1] \in Entry
    BY <2>1, <2>2
  <2> QED  BY <2>3 DEF Entry
<1>2. Against(t, "BUY") = books[t].asks /\ Against(t, "SELL") = books[t].bids
  BY DEF Against
<1>3. books[t].asks[1].price \in Nat /\ books[t].bids[1].price \in Nat
  BY <1>1, <1>2 DEF Quoted
<1> QED  BY <1>3 DEF BestBid, BestAsk

LEMMA ActionIs ==
  ASSUME NEW d \in Directions, NEW t \in Assets
  PROVE  Action(d, t) \in {"BUY", "SELL"} /\ t \in Tickers
BY DEF Action, Assets, Tickers

LEMMA ExpectedIs ==
  ASSUME DepthInv, Quoted("USD"), NEW d \in Directions, NEW q \in Nat
  PROVE  Expected(d, q) \in Int
<1>1. ASSUME NEW t \in Assets PROVE Fills(d, q)[t].notional \in Nat
  <2>1. Fills(d, q)[t] = EstimateFill(t, Action(d, t), q)
    BY DEF Fills
  <2> QED  BY <2>1, ActionIs, FillIs
<1>2. Fills(d, q)["BULL"].notional \in Nat /\ Fills(d, q)["BEAR"].notional \in Nat /\ Fills(d, q)["RITC"].notional \in Nat
  BY <1>1 DEF Assets
<1>3. BestBid("USD") \in Nat /\ BestAsk("USD") \in Nat
  BY QuotedIs DEF Tickers
<1>4. Fees(q) \in Int
  <2>1. Fee \in Nat
    BY DepthAssumption
  <2>2. 2 * Rate + BestAsk("USD") \in Int /\ q * Fee \in Int
    BY <1>3, <2>1 DEF Rate
  <2> QED  BY <2>2 DEF Fees
<1>5. GrossProfit(d, Fills(d, q)) \in Int
  <2>1. ExchangeRate(d) \in Nat
    BY <1>3 DEF ExchangeRate
  <2>2. Fills(d, q)["RITC"].notional * ExchangeRate(d) \in Int
    BY <1>2, <2>1
  <2>3. (Fills(d, q)["BULL"].notional + Fills(d, q)["BEAR"].notional) * Rate \in Int
    BY <1>2 DEF Rate
  <2> QED  BY <2>2, <2>3 DEF GrossProfit
<1> QED  BY <1>4, <1>5 DEF Expected

(* The loop over the quantities: best so far of the acceptable ones.       *)
Better0(d, larger, q, r) == IF larger THEN r <= q ELSE Expected(d, r) <= Expected(d, q)

LEMMA BestOf ==
  ASSUME DepthInv, NEW d \in Directions, NEW larger \in BOOLEAN
  PROVE  LET acceptable == {q \in 1..MaxQuantity : Acceptable(d, q)} IN
         IF acceptable = {} THEN EvaluateArbitrage(d, larger) = NoPlan
         ELSE \E q \in acceptable : /\ EvaluateArbitrage(d, larger) = Plan(d, q)
                                    /\ \A r \in acceptable : Better0(d, larger, q, r)
<1> DEFINE S(i) == {q \in 1..i : Acceptable(d, q)}
           Best(p, i) == IF S(i) = {} THEN p = NoPlan
                         ELSE \E q \in S(i) : p = Plan(d, q) /\ \A r \in S(i) : Better0(d, larger, q, r)
           n == MaxQuantity
<1>1. n \in Nat
  BY DepthAssumption
<1>2. PICK a : /\ a \in [0..n -> Plans(d)] /\ a[0] = NoPlan
               /\ \A i \in 1..n : a[i] = Better(d, larger, a[i - 1], i)
               /\ EvaluateArbitrage(d, larger) = a[n]
  BY PlanFolds, ZenonT(30)
<1> HIDE DEF n
<1>3. ASSUME NEW q \in Nat, Acceptable(d, q) PROVE Expected(d, q) \in Int
  <2>1. Quoted("USD")
    BY <1>3 DEF Acceptable, Executable
  <2> QED  BY <2>1, ExpectedIs
<1>4. ASSUME NEW q \in 1..n, NEW r \in 1..n, Acceptable(d, q), Acceptable(d, r)
      PROVE  Improves(Plan(d, q), Plan(d, r), larger) <=> ~Better0(d, larger, q, r)
  <2>1. Expected(d, q) \in Int /\ Expected(d, r) \in Int
    BY <1>1, <1>3, <1>4
  <2>2. Plan(d, q).quantity = q /\ Plan(d, r).quantity = r
        /\ Plan(d, q).profit = Expected(d, q) /\ Plan(d, r).profit = Expected(d, r)
    BY DEF Plan
  <2>3. NoPlan.quantity = 0
    BY DEF NoPlan
  <2>4. Plan(d, q) # NoPlan
    BY <1>1, <2>2, <2>3
  <2> QED  BY <1>1, <2>1, <2>2, <2>4 DEF Improves, Better0
<1>5. ASSUME NEW i \in 1..n, Best(a[i - 1], i - 1) PROVE Best(a[i], i)
  <2> DEFINE p == a[i - 1]
  <2>1. a[i] = IF Acceptable(d, i) /\ Improves(p, Plan(d, i), larger) THEN Plan(d, i) ELSE p
    BY <1>2 DEF Better
  <2>2. S(i) = IF Acceptable(d, i) THEN S(i - 1) \cup {i} ELSE S(i - 1)
    BY <1>1
  <2>3. \A q \in S(i) : q \in 1..n /\ Acceptable(d, q) /\ Expected(d, q) \in Int
    BY <1>1, <1>3
  <2> HIDE DEF p
  <2>4. CASE ~Acceptable(d, i)
    <3>1. a[i] = p /\ S(i) = S(i - 1)
      BY <2>1, <2>2, <2>4
    <3> QED  BY <1>5, <3>1, Zenon DEF p
  <2>5. CASE Acceptable(d, i) /\ S(i - 1) = {}
    <3>1. p = NoPlan /\ S(i) = {i}
      BY <1>5, <2>2, <2>5 DEF p
    <3>2. a[i] = Plan(d, i)
      BY <2>1, <2>5, <3>1 DEF Improves
    <3>3. Better0(d, larger, i, i)
      BY <1>1, <2>3, <3>1 DEF Better0
    <3> QED  BY <3>1, <3>2, <3>3
  <2>6. CASE Acceptable(d, i) /\ S(i - 1) # {}
    <3>1. PICK q \in S(i - 1) : p = Plan(d, q) /\ \A r \in S(i - 1) : Better0(d, larger, q, r)
      BY <1>5, <2>6 DEF p
    <3>2. S(i) = S(i - 1) \cup {i}
      BY <2>2, <2>6
    <3>3. Improves(p, Plan(d, i), larger) <=> ~Better0(d, larger, q, i)
      BY <1>4, <2>3, <2>6, <3>1, <3>2
    <3> HIDE DEF S
    <3>4. CASE Better0(d, larger, q, i)
      <4>1. a[i] = Plan(d, q)
        BY <2>1, <3>1, <3>3, <3>4
      <4> QED  BY <3>1, <3>2, <3>4, <4>1
    <3>5. CASE ~Better0(d, larger, q, i)
      <4>1. a[i] = Plan(d, i)
        BY <2>1, <2>6, <3>3, <3>5
      <4>2. ASSUME NEW r \in S(i) PROVE Better0(d, larger, i, r)
        <5>1. /\ Expected(d, r) \in Int /\ Expected(d, i) \in Int /\ Expected(d, q) \in Int
              /\ r \in 1..n /\ q \in 1..n
          BY <2>3, <3>1, <3>2
        <5>2. r = i \/ Better0(d, larger, q, r)
          BY <3>1, <3>2
        <5> QED  BY <1>1, <3>5, <5>1, <5>2 DEF Better0
      <4> QED  BY <3>2, <4>1, <4>2
    <3> QED  BY <3>4, <3>5
  <2> QED  BY <2>4, <2>5, <2>6
<1>6. Best(a[n], n)
  <2> DEFINE P == {i \in 0..n : Best(a[i], i)}
  <2>1. 0 \in P
    <3>1. S(0) = {}
      OBVIOUS
    <3> QED  BY <1>1, <1>2, <3>1
  <2>2. \A i \in 1..n : i - 1 \in P => i \in P
    <3>1. \A i \in 1..n : Best(a[i - 1], i - 1) => Best(a[i], i)
      BY <1>5
    <3> HIDE DEF Best
    <3> QED  BY <1>1, <3>1
  <2> HIDE DEF P
  <2>3. n \in P
    BY <1>1, <2>1, <2>2, UpTo
  <2> QED  BY <2>3 DEF P
<1> QED  BY <1>2, <1>6, Zenon DEF n

(* What is chosen is the best there is, in either direction and of both.   *)
LEMMA BestInDirection ==
  ASSUME DepthInv, NEW d \in Directions
  PROVE  LET acceptable == {q \in 1..MaxQuantity : Acceptable(d, q)}
             best == EvaluateArbitrage(d, FALSE)
         IN  /\ best.profit \in Int /\ best.profit >= 0
             /\ IF acceptable = {} THEN best = NoPlan
                ELSE /\ EvaluateArbitrage(d, TRUE).quantity = Max(acceptable)
                     /\ best.profit = Max({Expected(d, q) : q \in acceptable})
<1> DEFINE S == {q \in 1..MaxQuantity : Acceptable(d, q)}
<1>1. \A q \in S : q \in Nat /\ Acceptable(d, q)
  BY DepthAssumption
<1>2. ASSUME NEW q \in S PROVE Expected(d, q) \in Int /\ Expected(d, q) >= 0
  <2>1. Quoted("USD") /\ Expected(d, q) >= Greatest(MinProfit, q * MinEdge)
    BY <1>1 DEF Acceptable, Executable
  <2>2. MinProfit \in Nat /\ MinEdge \in Nat /\ q * MinEdge \in Int
    BY <1>1, DepthAssumption
  <2>3. Greatest(MinProfit, q * MinEdge) \in Int /\ Greatest(MinProfit, q * MinEdge) >= 0
    BY <2>2 DEF Greatest
  <2>4. Expected(d, q) \in Int
    BY <1>1, <2>1, ExpectedIs
  <2> QED  BY <2>1, <2>3, <2>4
<1>3. CASE S = {}
  <2>1. EvaluateArbitrage(d, FALSE) = NoPlan
    BY <1>3, BestOf
  <2>2. NoPlan.profit \in Int /\ NoPlan.profit >= 0
    BY DEF NoPlan
  <2>3. EvaluateArbitrage(d, FALSE).profit \in Int /\ EvaluateArbitrage(d, FALSE).profit >= 0
    BY <2>1, <2>2
  <2> QED  BY <1>3, <2>1, <2>3, Zenon
<1>4. CASE S # {}
  <2>1. PICK q \in S : EvaluateArbitrage(d, FALSE) = Plan(d, q) /\ \A r \in S : Better0(d, FALSE, q, r)
    BY <1>4, BestOf
  <2>2. PICK l \in S : EvaluateArbitrage(d, TRUE) = Plan(d, l) /\ \A r \in S : Better0(d, TRUE, l, r)
    BY <1>4, BestOf
  <2> HIDE DEF S
  <2>3. Max(S) = l
    <3>1. \A r \in S : r <= l
      BY <2>2 DEF Better0
    <3>2. S \subseteq Int
      BY <1>1
    <3> QED  BY <3>1, <3>2, MaxIs
  <2>4. Max({Expected(d, r) : r \in S}) = Expected(d, q)
    <3>1. \A r \in S : Expected(d, r) <= Expected(d, q)
      BY <2>1 DEF Better0
    <3>2. Expected(d, q) \in {Expected(d, r) : r \in S} /\ {Expected(d, r) : r \in S} \subseteq Int
      BY <1>2
    <3>3. \A e \in {Expected(d, r) : r \in S} : e <= Expected(d, q)
      BY <3>1
    <3> QED  BY <3>2, <3>3, MaxIs
  <2>5. EvaluateArbitrage(d, FALSE).profit = Expected(d, q) /\ EvaluateArbitrage(d, TRUE).quantity = l
    <3>1. Plan(d, q).profit = Expected(d, q) /\ Plan(d, l).quantity = l
      BY DEF Plan
    <3>2. EvaluateArbitrage(d, FALSE) = Plan(d, q) /\ EvaluateArbitrage(d, TRUE) = Plan(d, l)
      BY <2>1, <2>2, Zenon
    <3> QED  BY <3>1, <3>2, Zenon
  <2>6. EvaluateArbitrage(d, FALSE).profit \in Int /\ EvaluateArbitrage(d, FALSE).profit >= 0
    BY <1>2, <2>5
  <2> QED  BY <1>4, <2>3, <2>4, <2>5, <2>6, Zenon DEF S
<1> QED  BY <1>3, <1>4

(* PlanIsBest: the arbitrage worked out from any books is the most         *)
(* profitable acceptable one, or the largest when that is preferred.       *)
THEOREM PlanIsBestAlways == DepthSpec => []PlanIsBest
<1>1. DepthInv => PlanIsBest
  <2> SUFFICES ASSUME DepthInv PROVE PlanIsBest
    OBVIOUS
  <2>1. /\ "BUY_ETF" \in Directions /\ "SELL_ETF" \in Directions
        /\ \A d \in Directions : d = "BUY_ETF" \/ d = "SELL_ETF"
    BY DEF Directions
  <2> DEFINE buy == EvaluateArbitrage("BUY_ETF", FALSE)
             sell == EvaluateArbitrage("SELL_ETF", FALSE)
  <2>2. buy.profit \in Int /\ buy.profit >= 0 /\ sell.profit \in Int /\ sell.profit >= 0
    BY <2>1, BestInDirection
  <2>3. BestArbitrage = IF buy = NoPlan \/ (sell # NoPlan /\ sell.profit > buy.profit) THEN sell ELSE buy
    BY DEF BestArbitrage
  <2>4. \A d \in Directions : EvaluateArbitrage(d, FALSE) = buy \/ EvaluateArbitrage(d, FALSE) = sell
    BY <2>1
  <2>5. NoPlan.profit = 0
    BY DEF NoPlan
  <2> HIDE DEF buy, sell
  <2>6. BestArbitrage.profit >= buy.profit /\ BestArbitrage.profit >= sell.profit
    <3>1. CASE buy = NoPlan \/ (sell # NoPlan /\ sell.profit > buy.profit)
      <4>1. BestArbitrage = sell
        BY <2>3, <3>1
      <4> QED  BY <2>2, <2>5, <3>1, <4>1
    <3>2. CASE ~(buy = NoPlan \/ (sell # NoPlan /\ sell.profit > buy.profit))
      <4>1. BestArbitrage = buy
        BY <2>3, <3>2
      <4> QED  BY <2>2, <2>5, <3>2, <4>1
    <3> QED  BY <3>1, <3>2
  <2>7. \A d \in Directions : BestArbitrage.profit >= EvaluateArbitrage(d, FALSE).profit
    BY <2>4, <2>6
  <2> QED  BY <2>7, BestInDirection, Zenon DEF PlanIsBest
<1> QED  BY <1>1, DepthInvariant, PTL

(***************************************************************************)
(* Closing at the quotes and closing down the books.                       *)
(***************************************************************************)
LEMMA FillBest ==
  ASSUME DepthInv, NEW t \in Tickers, NEW act \in {"BUY", "SELL"}, NEW x \in Nat,
         Against(t, act) # <<>>, Complete(EstimateFill(t, act, x))
  PROVE  LET best == Against(t, act)[1].price
             paid == EstimateFill(t, act, x).notional
         IN  /\ best \in Nat /\ paid \in Nat
             /\ Signed(act, paid) <= x * Signed(act, best)
             /\ Against(t, act)[1].quantity >= x => Signed(act, paid) = x * Signed(act, best)
<1> DEFINE L == Against(t, act)
           f == EstimateFill(t, act, x)
<1>1. PICK k \in Nat : L \in [1..k -> Entry] /\ Worsening(Values(L, k, act), k)
  BY AgainstIs DEF IsLevels
<1>2. k \in Nat \ {0} /\ 1 \in 1..k
  <2> SUFFICES ASSUME k = 0 PROVE FALSE
    OBVIOUS
  <2>1. 1..k = {}
    OBVIOUS
  <2>2. L = <<>>
    BY <1>1, <2>1
  <2> QED  BY <2>2
<1>3. f = FoldLeft(Taken, Ordered0(x), L)
  BY DEF EstimateFill, Ordered0
<1>4. f.remaining = 0 /\ f.notional \in Nat
  BY FillIs DEF Complete
<1> HIDE DEF f, L
<1>5. PICK r, v : /\ Walk(r, v, Sizes(L, k), Values(L, k, act), k, x)
                  /\ r[k] = f.remaining /\ v[k] = Signed(act, f.notional)
  BY <1>1, <1>3, FillWalks
<1>6. /\ v[k] <= (x - r[k]) * Values(L, k, act)[1]
      /\ Sizes(L, k)[1] >= x => v[k] = x * Values(L, k, act)[1]
  BY <1>1, <1>2, <1>5, WalkBest
<1>7. /\ Values(L, k, act)[1] = Signed(act, L[1].price) /\ Sizes(L, k)[1] = L[1].quantity
      /\ L[1].price \in Nat
  BY <1>1, <1>2 DEF Values, Sizes, Entry
<1>8. x - r[k] = x
  BY <1>4, <1>5
<1>9. /\ Signed(act, f.notional) <= x * Signed(act, L[1].price)
      /\ L[1].quantity >= x => Signed(act, f.notional) = x * Signed(act, L[1].price)
  BY <1>5, <1>6, <1>7, <1>8, Zenon
<1> QED  BY <1>4, <1>7, <1>9 DEF f, L

SideOf(n) == IF n > 0 THEN "SELL" ELSE "BUY"
Worth(n, fill) == IF n > 0 THEN fill.notional ELSE -fill.notional

LEMMA CloseBounds ==
  ASSUME DepthInv, NEW t \in Tickers, NEW n \in Int, Quoted(t),
         Complete(EstimateFill(t, SideOf(n), Magnitude(n)))
  PROVE  LET worth == Worth(n, EstimateFill(t, SideOf(n), Magnitude(n))) IN
         /\ worth \in Int /\ MarkedValue(t, n) \in Int /\ worth <= MarkedValue(t, n)
         /\ Against(t, SideOf(n))[1].quantity >= Magnitude(n) => worth = MarkedValue(t, n)
<1> DEFINE paid == EstimateFill(t, SideOf(n), Magnitude(n)).notional
           x == Magnitude(n)
           act == SideOf(n)
           best == Against(t, act)[1].price
<1>1. act \in {"BUY", "SELL"} /\ x \in Nat
  BY DEF SideOf, Magnitude
<1>2. Against(t, act) # <<>> /\ best = IF n > 0 THEN BestBid(t) ELSE BestAsk(t)
  BY DEF Against, Quoted, SideOf, BestBid, BestAsk
<1>3. /\ best \in Nat /\ paid \in Nat
      /\ Signed(act, paid) <= x * Signed(act, best)
      /\ Against(t, act)[1].quantity >= x => Signed(act, paid) = x * Signed(act, best)
  BY <1>1, <1>2, FillBest
<1>4. Worth(n, EstimateFill(t, SideOf(n), Magnitude(n))) = Signed(act, paid)
  BY DEF Worth, Signed, SideOf
<1> HIDE DEF paid, best
<1>5. x * Signed(act, best) = MarkedValue(t, n) /\ MarkedValue(t, n) \in Int
  <2>1. CASE n > 0
    <3>1. x = n /\ Signed(act, best) = best /\ MarkedValue(t, n) = n * best
      BY <1>2, <2>1 DEF Magnitude, Signed, SideOf, MarkedValue
    <3> QED  BY <1>3, <3>1
  <2>2. CASE n < 0
    <3>1. x = -n /\ Signed(act, best) = -best /\ MarkedValue(t, n) = n * best
      BY <1>2, <2>2 DEF Magnitude, Signed, SideOf, MarkedValue
    <3> QED  BY <1>3, <3>1
  <2>3. CASE n = 0
    <3>1. x = 0 /\ MarkedValue(t, n) = 0 /\ Signed(act, best) \in Int
      BY <1>3, <2>3 DEF Magnitude, MarkedValue, Signed
    <3> QED  BY <3>1
  <2> QED  BY <2>1, <2>2, <2>3
<1>6. Signed(act, paid) \in Int
  BY <1>3 DEF Signed
<1> QED  BY <1>3, <1>4, <1>5, <1>6

LEMMA DollarsGrow ==
  ASSUME DepthInv, Quoted("USD"), NEW m \in Int, NEW n \in Int, m <= n
  PROVE  /\ DollarValue(m) \in Int /\ DollarValue(n) \in Int /\ DollarValue(m) <= DollarValue(n)
         /\ DollarValue(m) = MarkedValue("USD", m)
<1> DEFINE bid == BestBid("USD")
           ask == BestAsk("USD")
<1>1. bid \in Nat /\ ask \in Nat
  BY QuotedIs DEF Tickers
<1> HIDE DEF bid, ask
<1>2. \A i \in Int : DollarValue(i) = IF i > 0 THEN i * bid ELSE IF i < 0 THEN i * ask ELSE 0
  BY DEF DollarValue, bid, ask
<1>3. /\ bid * m <= bid * n /\ ask * m <= ask * n
      /\ bid * 0 <= bid * n \/ n < 0
      /\ ask * m <= ask * 0 \/ m > 0
  BY <1>1, ProductGrows
<1>4. /\ bid * m \in Int /\ bid * n \in Int /\ ask * m \in Int /\ ask * n \in Int
      /\ bid * 0 = 0 /\ ask * 0 = 0
      /\ m * bid = bid * m /\ n * bid = bid * n /\ m * ask = ask * m /\ n * ask = ask * n
  BY <1>1
<1>5. DollarValue(m) \in Int /\ DollarValue(n) \in Int /\ DollarValue(m) <= DollarValue(n)
  <2> DEFINE bm == bid * m
             bn == bid * n
             am == ask * m
             an == ask * n
  <2>1. /\ bm \in Int /\ bn \in Int /\ am \in Int /\ an \in Int
        /\ bm <= bn /\ am <= an /\ (0 <= bn \/ n < 0) /\ (am <= 0 \/ m > 0)
    BY <1>3, <1>4
  <2>2. /\ DollarValue(m) = IF m > 0 THEN bm ELSE IF m < 0 THEN am ELSE 0
        /\ DollarValue(n) = IF n > 0 THEN bn ELSE IF n < 0 THEN an ELSE 0
    BY <1>2, <1>4
  <2> HIDE DEF bm, bn, am, an
  <2> QED  BY <2>1, <2>2
<1>6. DollarValue(m) = MarkedValue("USD", m)
  BY DEF DollarValue, MarkedValue
<1> QED  BY <1>5, <1>6

(* MarkBoundsProceeds: whatever the books and the positions, the value of  *)
(* a portfolio bounds what walking the books to close it would bring, and  *)
(* is that where no order reaches beyond the best level.                   *)
THEOREM MarkBoundsProceedsAlways == DepthSpec => []MarkBoundsProceeds
<1>1. ASSUME DepthInv PROVE MarkBoundsProceeds
  <2> DEFINE close(t, n) == EstimateFill(t, SideOf(n), Magnitude(n))
             proceeds(t) == Worth(holdings[t], close(t, holdings[t]))
             dollars == holdings["USD"] + proceeds("RITC")
             total == Rate * (proceeds("BULL") + proceeds("BEAR")) + Worth(dollars, close("USD", dollars))
             deep(t, n) == Against(t, SideOf(n))[1].quantity >= Magnitude(n)
             closable == /\ \A t \in Tickers : Quoted(t)
                         /\ \A t \in Assets : Complete(close(t, holdings[t]))
                         /\ Complete(close("USD", dollars))
             alwaysAtBest == deep("USD", dollars) /\ \A t \in Assets : deep(t, holdings[t])
  <2>1. (closable => /\ LiquidationValue >= total
                     /\ (alwaysAtBest => LiquidationValue = total)) => MarkBoundsProceeds
    BY Zenon DEF MarkBoundsProceeds, SideOf, Worth
  <2> SUFFICES ASSUME closable
               PROVE  LiquidationValue >= total /\ (alwaysAtBest => LiquidationValue = total)
    BY <2>1
  <2>2. "USD" \in Tickers /\ \A t \in Assets : t \in Tickers
    BY DEF Tickers, Assets
  <2>3. \A t \in Tickers : holdings[t] \in Int
    BY <1>1 DEF DepthInv
  <2>4. ASSUME NEW t \in Assets
        PROVE  /\ proceeds(t) \in Int /\ MarkedValue(t, holdings[t]) \in Int
               /\ proceeds(t) <= MarkedValue(t, holdings[t])
               /\ deep(t, holdings[t]) => proceeds(t) = MarkedValue(t, holdings[t])
    BY <1>1, <2>2, <2>3, CloseBounds
  <2>5. "BULL" \in Assets /\ "BEAR" \in Assets /\ "RITC" \in Assets
    BY DEF Assets
  <2>6. dollars \in Int
    BY <2>2, <2>3, <2>4, <2>5
  <2> DEFINE marked == holdings["USD"] + MarkedValue("RITC", holdings["RITC"])
  <2>7. /\ marked \in Int /\ dollars <= marked
        /\ deep("RITC", holdings["RITC"]) => marked = dollars
    BY <2>2, <2>3, <2>4, <2>5
  <2>8. /\ Worth(dollars, close("USD", dollars)) \in Int
        /\ Worth(dollars, close("USD", dollars)) <= MarkedValue("USD", dollars)
        /\ deep("USD", dollars) => Worth(dollars, close("USD", dollars)) = MarkedValue("USD", dollars)
    <3> HIDE DEF dollars
    <3> QED  BY <1>1, <2>2, <2>6, CloseBounds
  <2> HIDE DEF dollars, marked
  <2>9. /\ DollarValue(dollars) \in Int /\ DollarValue(marked) \in Int
        /\ DollarValue(dollars) <= DollarValue(marked)
        /\ DollarValue(dollars) = MarkedValue("USD", dollars)
    BY <1>1, <2>2, <2>6, <2>7, DollarsGrow
  <2>10. LiquidationValue = Rate * (MarkedValue("BULL", holdings["BULL"]) + MarkedValue("BEAR", holdings["BEAR"]))
                              + DollarValue(marked)
    BY DEF LiquidationValue, marked
  <2> DEFINE b == proceeds("BULL")
             e == proceeds("BEAR")
             B == MarkedValue("BULL", holdings["BULL"])
             E == MarkedValue("BEAR", holdings["BEAR"])
             w == Worth(dollars, close("USD", dollars))
  <2>11. /\ b \in Int /\ e \in Int /\ B \in Int /\ E \in Int /\ b <= B /\ e <= E
         /\ alwaysAtBest => b = B /\ e = E
    BY <2>4, <2>5
  <2>12. w \in Int /\ w <= DollarValue(marked) /\ DollarValue(marked) \in Int
         /\ (alwaysAtBest => w = DollarValue(marked))
    BY <2>5, <2>7, <2>8, <2>9
  <2>13. total = Rate * (b + e) + w /\ LiquidationValue = Rate * (B + E) + DollarValue(marked)
    BY <2>10
  <2> HIDE DEF b, e, B, E, w, total, alwaysAtBest
  <2> QED  BY <2>11, <2>12, <2>13 DEF Rate
<1> QED  BY <1>1, DepthInvariant, PTL

(***************************************************************************)
(* A complete fill takes no more than the orders of the side hold.         *)
(***************************************************************************)
Covers(s, n, prices, y) == \E b : Counts(b, s, n, prices) /\ y <= b[n]

LEMMA CountsNone ==
  ASSUME NEW n \in Nat, NEW s \in [1..n -> Entry]
  PROVE  Covers(s, n, {}, 0)
<1> DEFINE b == [j \in 0..n |-> 0]
<1>1. Counts(b, s, n, {})
  BY DEF Counts, Counted
<1>2. b[n] = 0
  OBVIOUS
<1> QED  BY <1>1, <1>2 DEF Covers

LEMMA CountsJoin ==
  ASSUME NEW n \in Nat, NEW s \in [1..n -> Entry], NEW b, NEW c, NEW prices, NEW p, p \notin prices,
         Counts(b, s, n, prices), Counts(c, s, n, {p})
  PROVE  Counts([j \in 0..n |-> b[j] + c[j]], s, n, prices \cup {p})
<1> DEFINE a == [j \in 0..n |-> b[j] + c[j]]
<1>1. \A j \in 0..n : b[j] \in Nat /\ c[j] \in Nat
  BY DEF Counts
<1>2. a \in [0..n -> Nat] /\ a[0] = 0
  BY <1>1 DEF Counts
<1>3. ASSUME NEW i \in 1..n PROVE a[i] = Counted(a[i - 1], s[i], prices \cup {p})
  <2>1. i - 1 \in 0..n /\ i \in 0..n /\ s[i].quantity \in Nat
    BY DEF Entry
  <2>2. /\ b[i] = IF s[i].price \in prices THEN b[i - 1] + s[i].quantity ELSE b[i - 1]
        /\ c[i] = IF s[i].price = p THEN c[i - 1] + s[i].quantity ELSE c[i - 1]
    BY DEF Counts, Counted
  <2>3. a[i] = b[i] + c[i] /\ a[i - 1] = b[i - 1] + c[i - 1]
    BY <2>1
  <2>4. /\ b[i] \in Nat /\ c[i] \in Nat /\ b[i - 1] \in Nat /\ c[i - 1] \in Nat
    BY <1>1, <2>1
  <2> HIDE DEF a
  <2>5. CASE s[i].price = p
    <3>1. s[i].price \notin prices /\ s[i].price \in prices \cup {p}
      BY <2>5
    <3> QED  BY <2>1, <2>2, <2>3, <2>4, <2>5, <3>1 DEF Counted
  <2>6. CASE s[i].price \in prices
    <3>1. s[i].price # p /\ s[i].price \in prices \cup {p}
      BY <2>6
    <3> QED  BY <2>1, <2>2, <2>3, <2>4, <2>6, <3>1 DEF Counted
  <2>7. CASE s[i].price \notin prices \cup {p}
    <3>1. s[i].price # p /\ s[i].price \notin prices
      BY <2>7
    <3> QED  BY <2>1, <2>2, <2>3, <2>4, <2>7, <3>1 DEF Counted
  <2> QED  BY <2>5, <2>6, <2>7
<1> QED  BY <1>2, <1>3 DEF Counts

LEMMA CountsWithin ==
  ASSUME NEW n \in Nat, NEW s \in [1..n -> Entry], NEW b, NEW a, NEW prices,
         Counts(b, s, n, prices), Counts(a, s, n, Nat)
  PROVE  b[n] <= a[n] /\ b[n] \in Nat /\ a[n] \in Nat
<1> DEFINE P == {i \in 0..n : b[i] <= a[i]}
<1>1. 0 \in P
  BY DEF Counts
<1>2. ASSUME NEW i \in 1..n, i - 1 \in P PROVE i \in P
  <2>1. i - 1 \in 0..n /\ i \in 0..n /\ s[i].quantity \in Nat /\ s[i].price \in Nat
    BY DEF Entry
  <2>2. /\ b[i] \in Nat /\ a[i] \in Nat /\ b[i - 1] \in Nat /\ a[i - 1] \in Nat
    BY <2>1 DEF Counts
  <2>3. a[i] = a[i - 1] + s[i].quantity
    BY <2>1 DEF Counts, Counted
  <2>4. b[i] = b[i - 1] + s[i].quantity \/ b[i] = b[i - 1]
    BY DEF Counts, Counted
  <2>5. b[i - 1] <= a[i - 1]
    BY <1>2
  <2> QED  BY <2>1, <2>2, <2>3, <2>4, <2>5
<1> HIDE DEF P
<1>3. n \in P
  BY <1>1, <1>2, UpTo
<1> QED  BY <1>3 DEF P, Counts

LEMMA WalkVisible ==
  ASSUME NEW k \in Nat, NEW x \in Nat, NEW r, NEW v, NEW c, NEW L, NEW n \in Nat, NEW s \in [1..n -> Entry],
         NEW descending \in BOOLEAN, IsLevels(L, k, s, descending), Walk(r, v, Sizes(L, k), c, k, x)
  PROVE  x - r[k] \in Int /\ x - r[k] <= Shares(s, LAMBDA p : TRUE)
<1> DEFINE Q(i) == {L[j].price : j \in 1..i}
           P == {i \in 0..k : Covers(s, n, Q(i), x - r[i])}
<1>1. \A i \in 0..k : r[i] \in Nat
  BY DEF Walk
<1>2. 0 \in P
  <2>1. Q(0) = {} /\ x - r[0] = 0
    BY DEF Walk
  <2>2. Covers(s, n, Q(0), x - r[0])
    BY <2>1, CountsNone, Zenon
  <2> QED  BY <2>2
<1>3. ASSUME NEW i \in 1..k, i - 1 \in P PROVE i \in P
  <2> DEFINE p == L[i].price
             t == Least(r[i - 1], Sizes(L, k)[i])
  <2>1. /\ i \in 0..k /\ r[i - 1] \in Nat /\ r[i] \in Nat /\ t \in Nat /\ t <= Sizes(L, k)[i]
        /\ r[i] = r[i - 1] - t
    BY WalkStep
  <2>2. Sizes(L, k)[i] = SharesAt(s, p) /\ p \in Nat
    BY DEF Sizes, IsLevels, Entry
  <2> HIDE DEF t
  <2>3. p \notin Q(i - 1)
    <3> SUFFICES ASSUME NEW j \in 1..(i - 1), L[j].price = L[i].price PROVE FALSE
      OBVIOUS
    <3>1. j \in 1..k /\ j < i
      OBVIOUS
    <3>2. L[i].price \in Nat
      BY <2>2
    <3>3. IF descending THEN L[j].price > L[i].price ELSE L[j].price < L[i].price
      BY <3>1 DEF IsLevels
    <3> QED  BY <3>2, <3>3
  <2>4. Q(i) = Q(i - 1) \cup {p}
    <3>1. 1..i = (1..(i - 1)) \cup {i}
      OBVIOUS
    <3> QED  BY <3>1
  <2> HIDE DEF p
  <2>5. PICK b : Counts(b, s, n, Q(i - 1)) /\ x - r[i - 1] <= b[n]
    BY <1>3 DEF Covers
  <2>6. PICK a : Counts(a, s, n, {p}) /\ SharesAt(s, p) = a[n]
    <3>1. p \in Nat
      BY <2>2
    <3> QED  BY <3>1, SharesAtFolds, Zenon
  <2> DEFINE h == [j \in 0..n |-> b[j] + a[j]]
  <2> HIDE DEF Q
  <2>7. Counts(h, s, n, Q(i))
    <3>1. Counts(h, s, n, Q(i - 1) \cup {p})
      <4>1. Counts(b, s, n, Q(i - 1)) /\ Counts(a, s, n, {p})
        BY <2>5, <2>6
      <4> QED  BY <2>3, <4>1, CountsJoin
    <3> QED  BY <2>4, <3>1, Zenon
  <2>8. h[n] = b[n] + a[n] /\ b[n] \in Nat /\ a[n] \in Nat
    BY <2>5, <2>6 DEF Counts
  <2> HIDE DEF h
  <2>9. x - r[i] <= h[n]
    <3>1. t \in Nat /\ t <= a[n]
      BY <2>1, <2>2, <2>6
    <3>2. x - r[i] = (x - r[i - 1]) + t
      BY <2>1
    <3>3. x - r[i - 1] <= b[n] /\ x - r[i - 1] \in Int /\ h[n] = b[n] + a[n] /\ b[n] \in Nat /\ a[n] \in Nat
      BY <2>1, <2>5, <2>8
    <3> QED  BY <3>1, <3>2, <3>3
  <2>10. Covers(s, n, Q(i), x - r[i])
    BY <2>7, <2>9 DEF Covers
  <2> QED  BY <2>1, <2>10
<1>4. k \in P
  <2> HIDE DEF P
  <2>1. 0..k \subseteq P
    BY <1>2, <1>3, UpTo
  <2> QED  BY <2>1
<1> HIDE DEF Q
<1>5. PICK b : Counts(b, s, n, Q(k)) /\ x - r[k] <= b[n]
  BY <1>4 DEF Covers
<1>6. PICK a : Counts(a, s, n, Nat) /\ Shares(s, LAMBDA p : TRUE) = a[n]
  BY SharesFolds
<1>7. b[n] <= a[n] /\ b[n] \in Nat /\ a[n] \in Nat
  BY <1>5, <1>6, CountsWithin
<1>8. x - r[k] \in Int /\ x - r[k] <= a[n]
  BY <1>1, <1>5, <1>7
<1> QED  BY <1>6, <1>8

LEMMA FillVisible ==
  ASSUME DepthInv, NEW t \in Tickers, NEW act \in {"BUY", "SELL"}, NEW x \in Nat,
         Complete(EstimateFill(t, act, x))
  PROVE  Visible(t, act) >= x
<1> DEFINE L == Against(t, act)
           f == EstimateFill(t, act, x)
           s == Orders(t, act)
<1>1. PICK n \in Nat : s \in [1..n -> Entry]
  BY AgainstIs DEF OrderList
<1>2. PICK k \in Nat : IsLevels(L, k, s, act = "SELL") /\ Worsening(Values(L, k, act), k)
  BY AgainstIs
<1>3. f = FoldLeft(Taken, Ordered0(x), L) /\ f.remaining = 0
  BY DEF EstimateFill, Ordered0, Complete
<1>4. L \in [1..k -> Entry] /\ Worsening(Values(L, k, act), k)
  BY <1>2 DEF IsLevels
<1> HIDE DEF f, L, s
<1>5. PICK r, v : /\ Walk(r, v, Sizes(L, k), Values(L, k, act), k, x)
                  /\ r[k] = f.remaining /\ v[k] = Signed(act, f.notional)
  BY <1>3, <1>4, FillWalks
<1>6. x - r[k] <= Shares(s, LAMBDA p : TRUE)
  BY <1>1, <1>2, <1>5, WalkVisible
<1>7. x - r[k] = x
  BY <1>3, <1>5
<1>8. Visible(t, act) = Shares(s, LAMBDA p : TRUE)
  BY Zenon DEF Visible, s
<1>9. x <= Visible(t, act)
  BY <1>6, <1>7, <1>8, Zenon
<1> QED  BY <1>9

(* A smaller order is filled when a larger one is, and no worse a share.   *)
LEMMA FillConcave ==
  ASSUME DepthInv, NEW t \in Tickers, NEW act \in {"BUY", "SELL"}, NEW x \in Nat \ {0}, NEW y \in Nat,
         x <= y, Complete(EstimateFill(t, act, y))
  PROVE  /\ Complete(EstimateFill(t, act, x))
         /\ x * Signed(act, EstimateFill(t, act, y).notional) <= y * Signed(act, EstimateFill(t, act, x).notional)
<1> DEFINE L == Against(t, act)
           f == EstimateFill(t, act, x)
           g == EstimateFill(t, act, y)
<1>1. PICK k \in Nat : L \in [1..k -> Entry] /\ Worsening(Values(L, k, act), k)
  BY AgainstIs DEF IsLevels
<1>2. f = FoldLeft(Taken, Ordered0(x), L) /\ g = FoldLeft(Taken, Ordered0(y), L) /\ g.remaining = 0
  BY DEF EstimateFill, Ordered0, Complete
<1> HIDE DEF f, g, L
<1>3. PICK r, v : /\ Walk(r, v, Sizes(L, k), Values(L, k, act), k, x)
                  /\ r[k] = f.remaining /\ v[k] = Signed(act, f.notional)
  BY <1>1, <1>2, FillWalks
<1>4. PICK R, V : /\ Walk(R, V, Sizes(L, k), Values(L, k, act), k, y)
                  /\ R[k] = g.remaining /\ V[k] = Signed(act, g.notional)
  BY <1>1, <1>2, FillWalks
<1>5. R[k] = 0
  BY <1>2, <1>4
<1>6. r[k] = 0 /\ x * V[k] <= y * v[k]
  BY <1>1, <1>3, <1>4, <1>5, WalkConcave
<1>7. f.remaining = 0 /\ x * Signed(act, g.notional) <= y * Signed(act, f.notional)
  BY <1>3, <1>4, <1>6, Zenon
<1> QED  BY <1>7 DEF f, g, Complete

(***************************************************************************)
(* What a trade of the ETF against the basket brings, at any smaller size. *)
(***************************************************************************)
Valued(d, t, q) == Signed(Action(d, t), EstimateFill(t, Action(d, t), q).notional)
FeePerShare == Fee * (2 * Rate + BestAsk("USD"))

LEMMA SumOfParts ==
  ASSUME NEW a \in Int, NEW b \in Int, NEW c \in Int, NEW e \in Nat, NEW q \in Int, NEW f \in Int, NEW z \in Int
  PROVE  z * (Rate * a + Rate * b + e * c - q * f) = Rate * (z * a) + Rate * (z * b) + e * (z * c) - (z * q) * f
<1>1. /\ z * (100 * a) = 100 * (z * a) /\ z * (100 * b) = 100 * (z * b)
  OBVIOUS
<1>2. z * (e * c) = e * (z * c)
  OBVIOUS
<1>3. z * (q * f) = (z * q) * f
  OBVIOUS
<1>4. e * c \in Int /\ q * f \in Int
  OBVIOUS
<1>5. \A m, n, o, p \in Int : z * (m + n + o - p) = z * m + z * n + z * o - z * p
  OBVIOUS
<1>6. z * (100 * a + 100 * b + e * c - q * f) = z * (100 * a) + z * (100 * b) + z * (e * c) - z * (q * f)
  BY <1>4, <1>5
<1> QED  BY <1>1, <1>2, <1>3, <1>6 DEF Rate

LEMMA ExpectedSums ==
  ASSUME DepthInv, Quoted("USD"), NEW d \in Directions, NEW q \in Nat
  PROVE  /\ \A t \in Assets : Valued(d, t, q) \in Int
         /\ ExchangeRate(d) \in Nat /\ FeePerShare \in Int
         /\ Expected(d, q) = Rate * Valued(d, "BULL", q) + Rate * Valued(d, "BEAR", q)
                               + ExchangeRate(d) * Valued(d, "RITC", q) - q * FeePerShare
<1> DEFINE paid(t) == EstimateFill(t, Action(d, t), q).notional
<1>1. ASSUME NEW t \in Assets PROVE paid(t) \in Nat /\ Fills(d, q)[t].notional = paid(t)
  BY ActionIs, FillIs DEF Fills
<1>2. "BULL" \in Assets /\ "BEAR" \in Assets /\ "RITC" \in Assets
  BY DEF Assets
<1>3. BestBid("USD") \in Nat /\ BestAsk("USD") \in Nat
  BY QuotedIs DEF Tickers
<1>4. ExchangeRate(d) \in Nat
  BY <1>3 DEF ExchangeRate
<1>5. Fee \in Nat /\ 2 * Rate + BestAsk("USD") \in Nat
  BY <1>3, DepthAssumption DEF Rate
<1>6. FeePerShare \in Int /\ Fees(q) = q * FeePerShare
  BY <1>5 DEF FeePerShare, Fees
<1>7. ASSUME NEW t \in Assets PROVE Valued(d, t, q) \in Int /\ Valued(d, t, q) = Signed(Action(d, t), paid(t))
  BY <1>1 DEF Valued, Signed
<1> DEFINE X == ExchangeRate(d)
           bull == paid("BULL")
           bear == paid("BEAR")
           etf == paid("RITC")
<1>8. bull \in Nat /\ bear \in Nat /\ etf \in Nat /\ X \in Nat
  BY <1>1, <1>2, <1>4
<1>9. GrossProfit(d, Fills(d, q)) =
        IF d = "BUY_ETF" THEN (bull + bear) * Rate - etf * X ELSE etf * X - (bull + bear) * Rate
  BY <1>1, <1>2 DEF GrossProfit
<1> HIDE DEF paid, bull, bear, etf, X
<1>10. GrossProfit(d, Fills(d, q)) = Rate * Valued(d, "BULL", q) + Rate * Valued(d, "BEAR", q)
                                       + X * Valued(d, "RITC", q)
  <2>1. CASE d = "BUY_ETF"
    <3>1. /\ Valued(d, "BULL", q) = bull /\ Valued(d, "BEAR", q) = bear /\ Valued(d, "RITC", q) = -etf
      BY <1>2, <1>7, <2>1 DEF Signed, Action, Sign, bull, bear, etf
    <3>2. X * (-etf) = -(etf * X) /\ etf * X \in Int
      BY <1>8
    <3> QED  BY <1>8, <1>9, <2>1, <3>1, <3>2 DEF Rate
  <2>2. CASE d = "SELL_ETF"
    <3>1. /\ Valued(d, "BULL", q) = -bull /\ Valued(d, "BEAR", q) = -bear /\ Valued(d, "RITC", q) = etf
      BY <1>2, <1>7, <2>2 DEF Signed, Action, Sign, bull, bear, etf
    <3>2. X * etf = etf * X /\ etf * X \in Int
      BY <1>8
    <3> QED  BY <1>8, <1>9, <2>2, <3>1, <3>2 DEF Rate
  <2> QED  BY <2>1, <2>2 DEF Directions
<1>11. Expected(d, q) = Rate * Valued(d, "BULL", q) + Rate * Valued(d, "BEAR", q)
                          + ExchangeRate(d) * Valued(d, "RITC", q) - q * FeePerShare
  <2>1. Expected(d, q) = GrossProfit(d, Fills(d, q)) - q * FeePerShare
    BY <1>6 DEF Expected
  <2> DEFINE gross == GrossProfit(d, Fills(d, q))
             m == Rate * Valued(d, "BULL", q)
             n == Rate * Valued(d, "BEAR", q)
             o == ExchangeRate(d) * Valued(d, "RITC", q)
             p == q * FeePerShare
  <2>2. gross = m + n + o /\ Expected(d, q) = gross - p
    BY <1>10, <2>1 DEF X
  <2>3. m \in Int /\ n \in Int /\ o \in Int /\ p \in Int
    BY <1>2, <1>4, <1>6, <1>7 DEF Rate
  <2> HIDE DEF gross, m, n, o, p
  <2>4. Expected(d, q) = m + n + o - p
    BY <2>2, <2>3
  <2> QED  BY <2>4, Zenon DEF m, n, o, p
<1> QED  BY <1>4, <1>6, <1>7, <1>11

LEMMA ExpectedConcave ==
  ASSUME DepthInv, NEW d \in Directions, NEW x \in Nat \ {0}, NEW y \in Nat, x <= y, Executable(d, y)
  PROVE  Executable(d, x) /\ x * Expected(d, y) <= y * Expected(d, x)
<1>1. Quoted("USD") /\ x \in Nat /\ x > 0
  BY DEF Executable
<1>2. ASSUME NEW t \in Assets
      PROVE  Complete(EstimateFill(t, Action(d, t), x)) /\ x * Valued(d, t, y) <= y * Valued(d, t, x)
  BY ActionIs, FillConcave DEF Executable, Valued
<1> DEFINE X == ExchangeRate(d)
           F == FeePerShare
           a == Valued(d, "BULL", x)
           b == Valued(d, "BEAR", x)
           c == Valued(d, "RITC", x)
           A == Valued(d, "BULL", y)
           B == Valued(d, "BEAR", y)
           C == Valued(d, "RITC", y)
<1>3. "BULL" \in Assets /\ "BEAR" \in Assets /\ "RITC" \in Assets
  BY DEF Assets
<1>4. /\ X \in Nat /\ F \in Int /\ a \in Int /\ b \in Int /\ c \in Int /\ A \in Int /\ B \in Int /\ C \in Int
      /\ Expected(d, x) = Rate * a + Rate * b + X * c - x * F
      /\ Expected(d, y) = Rate * A + Rate * B + X * C - y * F
  BY <1>1, <1>3, ExpectedSums
<1>5. x * A <= y * a /\ x * B <= y * b /\ x * C <= y * c
  BY <1>2, <1>3
<1> HIDE DEF X, F, a, b, c, A, B, C
<1>6. x * Expected(d, y) = Rate * (x * A) + Rate * (x * B) + X * (x * C) - (x * y) * F
  BY <1>1, <1>4, SumOfParts
<1>7. y * Expected(d, x) = Rate * (y * a) + Rate * (y * b) + X * (y * c) - (y * x) * F
  BY <1>1, <1>4, SumOfParts
<1>8. /\ x * A \in Int /\ x * B \in Int /\ x * C \in Int /\ y * a \in Int /\ y * b \in Int /\ y * c \in Int
  BY <1>1, <1>4
<1>9. X * (x * C) <= X * (y * c) /\ X * (x * C) \in Int /\ X * (y * c) \in Int
  BY <1>4, <1>5, <1>8, ProductGrows
<1>10. (x * y) * F = (y * x) * F /\ (y * x) * F \in Int
  BY <1>1, <1>4
<1>11. x * Expected(d, y) <= y * Expected(d, x)
  BY <1>5, <1>6, <1>7, <1>8, <1>9, <1>10 DEF Rate
<1>12. Executable(d, x)
  BY <1>1, <1>2 DEF Executable
<1> QED  BY <1>11, <1>12

(***************************************************************************)
(* The conversion proposed is one of those considered.                     *)
(***************************************************************************)
LEMMA BestAmong ==
  ASSUME NEW n \in Nat, NEW T, T \subseteq 1..n, T # {}, NEW g, \A i \in T : g[i] \in Int
  PROVE  \E best \in T : \A i \in T : g[best] > g[i] \/ (g[best] = g[i] /\ best <= i)
<1> DEFINE Beats(b, i) == g[b] > g[i] \/ (g[b] = g[i] /\ b <= i)
           S(k) == {i \in T : i <= k}
           P == {k \in 0..n : S(k) = {} \/ \E b \in S(k) : \A i \in S(k) : Beats(b, i)}
<1>0. \A i \in T : i \in Nat /\ 1 <= i /\ i <= n
  OBVIOUS
<1>1. 0 \in P
  <2>1. \A i \in T : ~(i <= 0)
    BY <1>0
  <2>2. S(0) = {}
    BY <2>1
  <2> QED  BY <2>2
<1>2. ASSUME NEW k \in 1..n, k - 1 \in P PROVE k \in P
  <2>1. S(k) = IF k \in T THEN S(k - 1) \cup {k} ELSE S(k - 1)
    <3>1. \A i \in T : i <= k <=> (i <= k - 1 \/ i = k)
      BY <1>0
    <3>2. ~(k <= k - 1) /\ k <= k
      OBVIOUS
    <3> QED  BY <3>1, <3>2
  <2>2. \A i \in S(k - 1) : i \in T /\ i < k /\ i \in Int
    BY <1>0
  <2>3. k \in 0..n
    OBVIOUS
  <2>4. CASE k \notin T
    <3>1. S(k) = S(k - 1)
      BY <2>1, <2>4
    <3> HIDE DEF S, Beats
    <3> QED  BY <1>2, <2>3, <3>1
  <2>5. CASE k \in T /\ S(k - 1) = {}
    <3>1. S(k) = {k}
      BY <2>1, <2>5
    <3>2. Beats(k, k)
      BY <2>5
    <3> HIDE DEF S, Beats
    <3> QED  BY <2>3, <3>1, <3>2
  <2>6. CASE k \in T /\ S(k - 1) # {}
    <3>1. PICK b \in S(k - 1) : \A i \in S(k - 1) : Beats(b, i)
      BY <1>2, <2>6
    <3>2. S(k) = S(k - 1) \cup {k}
      BY <2>1, <2>6
    <3>3. g[b] \in Int /\ g[k] \in Int /\ b < k /\ b \in Int
      BY <2>2, <2>6
    <3>4. CASE g[k] > g[b]
      <4>1. ASSUME NEW i \in S(k - 1) PROVE Beats(k, i)
        <5>1. g[i] \in Int /\ Beats(b, i)
          BY <2>2, <3>1
        <5> QED  BY <3>3, <3>4, <5>1
      <4>2. Beats(k, k)
        BY <3>3
      <4> HIDE DEF S, Beats
      <4> QED  BY <2>3, <3>2, <4>1, <4>2
    <3>5. CASE ~(g[k] > g[b])
      <4>1. Beats(b, k)
        BY <3>3, <3>5
      <4> HIDE DEF S, Beats
      <4> QED  BY <2>3, <3>1, <3>2, <4>1
    <3> QED  BY <3>4, <3>5
  <2> QED  BY <2>4, <2>5, <2>6
<1>3. n \in P
  <2> HIDE DEF P
  <2>1. 0..n \subseteq P
    BY <1>1, <1>2, UpTo
  <2> QED  BY <2>1
<1>4. S(n) = T
  BY <1>0
<1> HIDE DEF S
<1> QED  BY <1>3, <1>4

LEMMA DivisionIs == \A m \in Nat, n \in Nat \ {0} : m \div n \in Nat /\ n * (m \div n) <= m
OBVIOUS

LEMMA LeastHolding ==
  ASSUME DepthInv, NEW d \in Directions, Opposed(d)
  PROVE  /\ BalancedBlocks(d) \in Nat
         /\ \A t \in Assets : Block * BalancedBlocks(d) <= Magnitude(holdings[t])
<1> DEFINE S == {Magnitude(holdings[t]) : t \in Assets}
<1>1. \A t \in Assets : Magnitude(holdings[t]) \in Nat
  <2>1. \A t \in Assets : holdings[t] \in Int
    BY DEF DepthInv, Assets, Tickers
  <2> QED  BY <2>1 DEF Magnitude
<1>2. S \subseteq Nat /\ S # {}
  BY <1>1 DEF Assets
<1>3. PICK m \in S : \A x \in S : m <= x
  <2> HIDE DEF S
  <2> QED  BY <1>2, LeastOfNaturals
<1>4. Min(S) = m /\ m \in Nat
  <2> HIDE DEF S
  <2>1. S \subseteq Int /\ m \in S /\ m \in Nat
    BY <1>2, <1>3
  <2>2. \A x \in S : m <= x
    BY <1>3
  <2>3. Min(S) = m
    BY <2>1, <2>2, MinIs, Zenon
  <2> QED  BY <2>1, <2>3
<1>5. BalancedBlocks(d) = m \div Block
  BY <1>4 DEF BalancedBlocks
<1>6. Block \in Nat \ {0}
  BY DepthAssumption
<1>7. m \div Block \in Nat /\ Block * (m \div Block) <= m
  BY <1>4, <1>6, DivisionIs
<1>8. \A t \in Assets : m <= Magnitude(holdings[t])
  BY <1>3
<1>9. Block * (m \div Block) \in Int
  BY <1>6, <1>7
<1> HIDE DEF S
<1> QED  BY <1>1, <1>4, <1>5, <1>7, <1>8, <1>9

LEMMA ProposedIs ==
  ASSUME DepthInv, NEW d \in Directions, Proposals(d) # {}
  PROVE  /\ ProposeConversion(d) \in Proposals(d) /\ ProposeConversion(d) \in Nat \ {0}
         /\ ProposeConversion(d) <= BalancedBlocks(d) /\ Opposed(d)
         /\ Convertible(d, ProposeConversion(d))
<1> DEFINE T == Proposals(d)
           g == [i \in T |-> Advantage(d, i)]
           Top(n) == n \in T /\ \A k \in T : \/ Advantage(d, n) > Advantage(d, k)
                                             \/ Advantage(d, n) = Advantage(d, k) /\ n <= k
<1>0. Opposed(d) /\ BalancedBlocks(d) \in Nat /\ MaxBlocks \in Nat /\ Block \in Nat \ {0} /\ BlockFee \in Nat
  <2>1. MaxBlocks \in Nat /\ Block \in Nat \ {0} /\ BlockFee \in Nat
    BY DepthAssumption
  <2>2. Opposed(d)
    <3> SUFFICES ASSUME ~Opposed(d) PROVE FALSE
      OBVIOUS
    <3>1. BalancedBlocks(d) = 0
      BY DEF BalancedBlocks
    <3>2. Least(MaxBlocks, BalancedBlocks(d)) <= 0 /\ Least(MaxBlocks, BalancedBlocks(d)) \in Int
      BY <2>1, <3>1 DEF Least
    <3>3. 1..Least(MaxBlocks, BalancedBlocks(d)) = {}
      BY <3>2
    <3> QED  BY <3>3 DEF Proposals
  <2> QED  BY <2>1, <2>2, LeastHolding
<1>1. T \subseteq 1..MaxBlocks /\ \A n \in T : n \in Nat \ {0} /\ n <= BalancedBlocks(d) /\ Convertible(d, n)
  <2>1. Least(MaxBlocks, BalancedBlocks(d)) \in Nat
    BY <1>0, LeastIs
  <2>2. Least(MaxBlocks, BalancedBlocks(d)) <= MaxBlocks /\ Least(MaxBlocks, BalancedBlocks(d)) <= BalancedBlocks(d)
    BY <1>0, LeastIs
  <2>3. \A n \in T : n \in 1..Least(MaxBlocks, BalancedBlocks(d)) /\ Convertible(d, n)
    BY DEF Proposals
  <2> HIDE DEF T
  <2> QED  BY <1>0, <2>1, <2>2, <2>3
<1>2. \A n \in T : g[n] \in Int /\ g[n] = Advantage(d, n)
  <2> SUFFICES ASSUME NEW n \in T PROVE Advantage(d, n) \in Int
    OBVIOUS
  <2>1. Quoted("USD") /\ n \in Nat
    BY <1>1 DEF Convertible, Executable
  <2>2. n * Block \in Nat
    BY <1>0, <2>1, ProductIsNatural
  <2>3. Expected(d, n * Block) \in Int
    BY <2>1, <2>2, ExpectedIs
  <2>4. ConverterCost(n) \in Int
    <3>1. BestAsk("USD") \in Nat
      BY <2>1, QuotedIs DEF Tickers
    <3>2. BlockFee * n \in Int
      BY <1>0, <2>1
    <3> QED  BY <3>1, <3>2 DEF ConverterCost
  <2> QED  BY <2>3, <2>4 DEF Advantage
<1>3. T # {}
  OBVIOUS
<1> HIDE DEF T, g
<1>4. PICK best \in T : \A i \in T : g[best] > g[i] \/ (g[best] = g[i] /\ best <= i)
  <2>1. \A i \in T : g[i] \in Int
    BY <1>2
  <2>2. T \subseteq 1..MaxBlocks /\ MaxBlocks \in Nat
    BY <1>0, <1>1
  <2> QED  BY <1>3, <2>1, <2>2, BestAmong, Zenon
<1>5. Top(best)
  BY <1>2, <1>4
<1>6. ProposeConversion(d) = CHOOSE n : Top(n)
  BY Zenon DEF ProposeConversion, T
<1> HIDE DEF Top
<1>7. Top(ProposeConversion(d))
  BY <1>5, <1>6, Zenon
<1>8. ProposeConversion(d) \in T
  BY <1>7, Zenon DEF Top
<1> QED  BY <1>0, <1>1, <1>8 DEF T

(* AnyRemainderCanFallBack: a proposed conversion can be given up at any   *)
(* block, whatever the books and the positions.                            *)
THEOREM FallbackAlways == DepthSpec => []AnyRemainderCanFallBack
<1>1. ASSUME DepthInv, NEW d \in Directions, Proposals(d) # {}, NEW left \in 1..ProposeConversion(d)
      PROVE  /\ \A t \in Assets : Visible(t, Action(d, t)) >= left * Block
             /\ Expected(d, left * Block) >= -MaxLoss * left
             /\ \A t \in Assets :
                  Magnitude(Projected(d, left * Block)[t]) = Magnitude(holdings[t]) - left * Block
  <2> DEFINE m == ProposeConversion(d)
  <2>1. /\ m \in Nat \ {0} /\ m <= BalancedBlocks(d) /\ Opposed(d) /\ Convertible(d, m)
    BY <1>1, ProposedIs
  <2>2. Block \in Nat \ {0} /\ MaxLoss \in Nat
    BY DepthAssumption
  <2> HIDE DEF m
  <2>3. left \in Nat \ {0} /\ left <= m
    BY <1>1, <2>1 DEF m
  <2> DEFINE x == left * Block
             y == m * Block
  <2>4. x \in Nat \ {0} /\ y \in Nat \ {0} /\ x <= y
    <3>1. x \in Nat /\ y \in Nat /\ x = Block * left /\ y = Block * m
      BY <2>1, <2>2, <2>3
    <3>2. Block * left <= Block * m /\ Block * 1 <= Block * left
      BY <2>1, <2>2, <2>3, ProductGrows
    <3> HIDE DEF x, y
    <3>3. Block * 1 = Block
      BY <2>2
    <3> QED  BY <2>2, <3>1, <3>2, <3>3
  <2>5. Executable(d, y) /\ Expected(d, y) >= -MaxLoss * m
    BY <2>1 DEF Convertible, FallbackBounded
  <2> HIDE DEF x, y
  <2>6. Executable(d, x) /\ x * Expected(d, y) <= y * Expected(d, x)
    BY <1>1, <2>4, <2>5, ExpectedConcave
  <2>7. ASSUME NEW t \in Assets PROVE Visible(t, Action(d, t)) >= x
    <3>1. Complete(EstimateFill(t, Action(d, t), x)) /\ x \in Nat
      BY <2>4, <2>6 DEF Executable
    <3> QED  BY <1>1, <3>1, ActionIs, FillVisible
  <2>8. Expected(d, x) >= -MaxLoss * left
    <3>1. Expected(d, x) \in Int /\ Expected(d, y) \in Int
      BY <1>1, <2>4, <2>6, ExpectedIs DEF Executable
    <3> DEFINE bound == -MaxLoss * left
    <3>2. bound \in Int /\ -MaxLoss * m \in Int
      BY <2>1, <2>2, <2>3
    <3>3. x * (-MaxLoss * m) <= x * Expected(d, y)
      BY <2>4, <2>5, <3>1, <3>2, ProductGrows
    <3>4. x * (-MaxLoss * m) = y * bound
      <4>1. (left * Block) * (-MaxLoss * m) = (m * Block) * (-MaxLoss * left)
        BY <2>1, <2>2, <2>3
      <4> QED  BY <4>1 DEF x, y
    <3> HIDE DEF bound
    <3>5. y * bound <= y * Expected(d, x)
      <4>1. x * Expected(d, y) \in Int /\ y * Expected(d, x) \in Int /\ y * bound \in Int
        BY <2>4, <3>1, <3>2
      <4> QED  BY <2>6, <3>3, <3>4, <4>1
    <3>6. bound <= Expected(d, x)
      <4> SUFFICES ASSUME Expected(d, x) + 1 <= bound PROVE FALSE
        BY <3>1, <3>2
      <4>1. y * (Expected(d, x) + 1) <= y * bound
        BY <2>4, <3>1, <3>2, ProductGrows
      <4>2. y * (Expected(d, x) + 1) = y * Expected(d, x) + y
        BY <2>4, <3>1
      <4>3. y * Expected(d, x) \in Int /\ y * bound \in Int
        BY <2>4, <3>1, <3>2
      <4> QED  BY <2>4, <3>5, <4>1, <4>2, <4>3
    <3> QED  BY <3>1, <3>2, <3>6 DEF bound
  <2>9. ASSUME NEW t \in Assets PROVE Magnitude(Projected(d, x)[t]) = Magnitude(holdings[t]) - x
    <3>1. holdings[t] \in Int /\ Sign[d][t] \in {-1, 1} /\ holdings[t] * Sign[d][t] < 0
      <4>1. holdings[t] \in Int
        BY <1>1 DEF DepthInv, Assets, Tickers
      <4>2. Sign[d][t] \in {-1, 1}
        BY DEF Sign, Assets, Directions
      <4> QED  BY <2>1, <4>1, <4>2 DEF Opposed
    <3>2. x <= Magnitude(holdings[t])
      <4>1. BalancedBlocks(d) \in Nat /\ Block * BalancedBlocks(d) <= Magnitude(holdings[t])
        BY <1>1, <2>1, LeastHolding
      <4>2. Block * left <= Block * BalancedBlocks(d) /\ x = Block * left
        BY <2>1, <2>2, <2>3, <4>1, ProductGrows DEF x
      <4>3. Block * left \in Int /\ Block * BalancedBlocks(d) \in Int /\ Magnitude(holdings[t]) \in Int
        BY <2>2, <2>3, <3>1, <4>1 DEF Magnitude
      <4> QED  BY <4>1, <4>2, <4>3
    <3>3. Projected(d, x)[t] = holdings[t] + Sign[d][t] * x
      BY DEF Projected
    <3>4. CASE Sign[d][t] = 1
      <4>1. holdings[t] < 0 /\ Projected(d, x)[t] = holdings[t] + x
        BY <2>4, <3>1, <3>3, <3>4
      <4> QED  BY <2>4, <3>1, <3>2, <4>1 DEF Magnitude
    <3>5. CASE Sign[d][t] = -1
      <4>1. holdings[t] > 0 /\ Projected(d, x)[t] = holdings[t] - x
        BY <2>4, <3>1, <3>3, <3>5
      <4> QED  BY <2>4, <3>1, <3>2, <4>1 DEF Magnitude
    <3> QED  BY <3>1, <3>4, <3>5
  <2> QED  BY <2>7, <2>8, <2>9 DEF x
<1>2. DepthInv => AnyRemainderCanFallBack
  BY <1>1, Zenon DEF AnyRemainderCanFallBack
<1> QED  BY <1>2, DepthInvariant, PTL

=============================================================================
