-------------------------- MODULE Inventory_proofs --------------------------
(***************************************************************************)
(* The inventory never explains more lots than it holds, an exit finds its *)
(* lot, and a fallback trades no block that was converted: for every block *)
(* size, every level of inventory and any number of bundles.               *)
(***************************************************************************)
EXTENDS Inventory, FiniteSetTheorems, WellFoundedInduction, TLAPS

BundleRecord ==
  [kind : {"ARB", "TENDER", "EXIT", "REDUCE", "FALLBACK"}, dir : Directions,
   qty : Nat, offset : Nat, open : Nat, closes : {-1, 0, 1}, target : Nat,
   status : {"PLANNED", "FILLED", "INCOMPLETE"}, applied : BOOLEAN]

TypeOK ==
  /\ pc \in {"IDLE", "PROGRESS", "DECIDE", "FULFIL"}
  /\ account \in Int /\ position \in Int
  /\ bundles \in Seq(BundleRecord)
  /\ window \in [open : BOOLEAN, blocks : Nat, base : Int, confirmed : Nat, overdue : BOOLEAN]
  /\ fallback \in Int
  /\ offer \in [blocks : Nat, done : Nat, inTime : Nat]
  /\ reconciled \in BOOLEAN /\ blocked \in BOOLEAN
  /\ reducing \in BOOLEAN /\ instructed \in BOOLEAN
  /\ suppressed \subseteq Int /\ conversions \in Nat

(***************************************************************************)
(* The inductive invariant.                                                *)
(***************************************************************************)
(* A bundle closes lots of the other direction or none, and what has been  *)
(* filled has closed them, once.  Only an exit has a target, and it is a   *)
(* lot of that direction.                                                  *)
BundlesInShape ==
  \A i \in DOMAIN bundles :
    LET b == bundles[i]
    IN  /\ b.closes = IF b.offset > 0 THEN -b.dir ELSE 0
        /\ ~MustClose(bundles, i) /\ (b.status = "PLANNED" => ~b.applied)
        /\ b.kind = "ARB" /\ b.status = "PLANNED" => b.open = b.qty - b.offset
        /\ b.kind \notin {"ARB", "TENDER"} => b.offset = b.qty
        /\ IF b.kind = "EXIT" THEN b.target \in Lots(bundles, -b.dir) ELSE b.target = 0

(* One bundle is worked at a time, none while a person converts or a       *)
(* fallback is due, and what waits keeps decisions back.                   *)
OneThingAtATime ==
  /\ \A i, j \in Working : i = j
  /\ window.open => Working = {}
  /\ window.open /\ pc = "DECIDE" => blocked
  /\ fallback # 0 => pc = "DECIDE" /\ ~window.open /\ Working = {}

(* While the person keeps to the instruction, the inventory of an open     *)
(* window is what it was, less the blocks of the offer that were converted.*)
ConversionsBooked ==
  /\ pc # "IDLE" => position = account
  /\ offer.inTime <= offer.done /\ offer.done <= offer.blocks
  /\ window.open =>
       /\ offer.blocks = window.blocks
       /\ window.blocks * Block <= Size(window.base)
       /\ account = window.base + Toward(window.base) * (offer.done * Block)
       /\ window.confirmed <= offer.done
       /\ pc \in {"DECIDE", "FULFIL"} => window.confirmed = offer.done

(* The converted blocks that are still to be taken from the lots.          *)
Unconfirmed(d) ==
  IF window.open /\ Toward(window.base) = -d
    THEN offer.done * Block - window.confirmed * Block ELSE 0

Backed ==
  \A d \in Directions :
    OpenQuantity(bundles, Lots(bundles, d)) - Unconfirmed(d) <= AtLeastZero(d * account)

(* What a waiting arbitrage or tender offsets is the inventory there is.   *)
OffsetsInventory ==
  \A i \in Working :
    bundles[i].kind \in {"ARB", "TENDER"} =>
      bundles[i].offset = Least(bundles[i].qty, Opposing(account, bundles[i].dir))

IInv ==
  /\ TypeOK
  /\ BundlesInShape
  /\ OneThingAtATime
  /\ ExitFindsItsLot
  /\ instructed => ConversionsBooked /\ Backed /\ OffsetsInventory
  /\ FallbackOnlyForRemainder

(***************************************************************************)
(* Induction, stated with sets: every set of naturals has a least element. *)
(***************************************************************************)
LEMMA LeastOfNaturals ==
  ASSUME NEW T, T \subseteq Nat, T # {}
  PROVE  \E n \in T : \A m \in T : n <= m
<1> DEFINE R == OpToRel(<, Nat)
<1>1. IsWellFoundedOn(R, Nat)
  BY NatLessThanWellFounded
<1>2. PICK n \in T : \A m \in T : ~ (<<m, n>> \in R)
  <2> HIDE DEF R
  <2> QED  BY <1>1, WFMin
<1>3. \A m \in T : <<m, n>> \in R <=> m < n
  BY DEF OpToRel
<1> HIDE DEF R
<1>4. \A m \in T : ~(m < n)
  BY <1>2, <1>3, Zenon
<1>5. \A m \in T : n <= m
  BY <1>4, SMT
<1> QED  BY <1>5

LEMMA NaturalsFollow ==
  ASSUME NEW P, 0 \in P, \A n \in Nat : n \in P => n + 1 \in P
  PROVE  Nat \subseteq P
<1> SUFFICES ASSUME Nat \ P # {} PROVE FALSE
  OBVIOUS
<1>1. PICK n \in Nat \ P : \A m \in Nat \ P : n <= m
  BY LeastOfNaturals
<1>2. n - 1 \in Nat /\ n - 1 \in P
  BY <1>1
<1> QED  BY <1>1, <1>2

(* The sets of lots, built from the oldest lot on.                         *)
LEMMA SetsFollow ==
  ASSUME NEW n \in Nat, NEW P, {} \in P,
         \A S \in SUBSET (1..n), x \in 1..n :
           S \in P /\ (\A y \in S : y < x) => S \cup {x} \in P
  PROVE  SUBSET (1..n) \subseteq P
<1> DEFINE Q == {k \in Nat : k <= n => SUBSET (1..k) \subseteq P}
<1>1. 0 \in Q
  <2>1. SUBSET (1..0) \subseteq P
    <3>1. 1..0 = {}
      OBVIOUS
    <3>2. ASSUME NEW S \in SUBSET (1..0) PROVE S \in P
      <4>1. S = {}
        BY <3>1, <3>2
      <4> QED  BY <4>1
    <3> QED  BY <3>2
  <2> QED  BY <2>1
<1>2. ASSUME NEW k \in Nat, k \in Q PROVE k + 1 \in Q
  <2>1. ASSUME k + 1 <= n, NEW S \in SUBSET (1..(k + 1)) PROVE S \in P
    <3>1. S \ {k + 1} \in SUBSET (1..k) /\ k <= n
      BY <2>1
    <3>2. S \ {k + 1} \in P /\ S \ {k + 1} \in SUBSET (1..n) /\ k + 1 \in 1..n
      BY <1>2, <2>1, <3>1
    <3>3. \A y \in S \ {k + 1} : y < k + 1
      BY <3>1
    <3>4. CASE k + 1 \in S
      <4>1. (S \ {k + 1}) \cup {k + 1} = S
        BY <3>4
      <4> QED  BY <3>2, <3>3, <4>1
    <3>5. CASE k + 1 \notin S
      <4>1. S \ {k + 1} = S
        BY <3>5
      <4> QED  BY <3>2, <4>1
    <3> QED  BY <3>4, <3>5
  <2> QED  BY <1>2, <2>1
<1> HIDE DEF Q
<1>3. n \in Q
  BY <1>1, <1>2, NaturalsFollow
<1> QED  BY <1>3 DEF Q

(***************************************************************************)
(* OpenQuantity adds up what is open, in whatever order it is taken.       *)
(***************************************************************************)
Additive(g, v, D) ==
  g[{}] = 0 /\ \A S \in SUBSET D : \A x \in S : g[S] = v[x] + g[S \ {x}]

LEMMA SumExists ==
  ASSUME NEW n \in Nat, NEW v \in [1..n -> Int]
  PROVE  \E g \in [SUBSET (1..n) -> Int] : Additive(g, v, 1..n)
<1> DEFINE Summable(k) == \E g \in [SUBSET (1..k) -> Int] : Additive(g, v, 1..k)
           Q == {k \in Nat : k <= n => Summable(k)}
<1> HIDE DEF Summable
<1>1. 0 \in Q
  <2> DEFINE g == [S \in SUBSET (1..0) |-> 0]
  <2>0. 1..0 = {} /\ {} \in SUBSET (1..0)
    OBVIOUS
  <2>1. g \in [SUBSET (1..0) -> Int]
    <3>1. 0 \in Int
      OBVIOUS
    <3> QED  BY <3>1, Zenon
  <2>2. Additive(g, v, 1..0)
    <3>1. g[{}] = 0
      BY <2>0, Zenon
    <3>2. \A S \in SUBSET (1..0) : \A x \in S : FALSE
      BY <2>0, Zenon
    <3> HIDE DEF g
    <3> QED  BY <3>1, <3>2, Zenon DEF Additive
  <2> HIDE DEF g
  <2>3. Summable(0)
    BY <2>1, <2>2, Zenon DEF Summable
  <2> QED  BY <2>3
<1>2. ASSUME NEW k \in Nat, k \in Q PROVE k + 1 \in Q
  <2> SUFFICES ASSUME k + 1 <= n PROVE Summable(k + 1)
    OBVIOUS
  <2>0. Summable(k)
    BY <1>2
  <2>1. PICK g \in [SUBSET (1..k) -> Int] : Additive(g, v, 1..k)
    BY <2>0, Zenon DEF Summable
  <2> DEFINE last == k + 1
             h == [S \in SUBSET (1..last) |->
                     g[S \ {last}] + (IF last \in S THEN v[last] ELSE 0)]
  <2>2. v[last] \in Int /\ last \notin 1..k /\ 1..last = (1..k) \cup {last}
    OBVIOUS
  <2> HIDE DEF last
  <2>3. \A S \in SUBSET (1..last) : S \ {last} \in SUBSET (1..k)
    BY <2>2
  <2>4. h \in [SUBSET (1..last) -> Int]
    BY <2>2, <2>3
  <2>5. h[{}] = 0
    <3>1. {} \ {last} = {} /\ {} \in SUBSET (1..last)
      OBVIOUS
    <3> QED  BY <2>1, <3>1 DEF Additive
  <2>6. ASSUME NEW S \in SUBSET (1..last), NEW x \in S PROVE h[S] = v[x] + h[S \ {x}]
    <3>1. S \ {x} \in SUBSET (1..last) /\ S \ {last} \in SUBSET (1..k)
      BY <2>3
    <3>2. CASE x = last
      <4>1. (S \ {x}) \ {last} = S \ {last} /\ last \notin S \ {x}
        BY <3>2
      <4>2. g[S \ {last}] \in Int
        BY <2>1, <3>1
      <4>3. h[S] = g[S \ {last}] + v[last] /\ h[S \ {x}] = g[S \ {last}] + 0
        BY <3>1, <3>2, <4>1
      <4> HIDE DEF h
      <4> QED  BY <2>2, <3>2, <4>2, <4>3
    <3>3. CASE x # last
      <4>1. (S \ {x}) \ {last} = (S \ {last}) \ {x} /\ x \in S \ {last}
        BY <3>3
      <4>2. g[S \ {last}] = v[x] + g[(S \ {last}) \ {x}]
        BY <2>1, <3>1, <4>1 DEF Additive
      <4>3. /\ g[(S \ {last}) \ {x}] \in Int /\ v[x] \in Int
            /\ last \in S <=> last \in S \ {x}
        <5>1. (S \ {last}) \ {x} \in SUBSET (1..k) /\ x \in 1..k
          BY <3>1, <4>1
        <5>2. x \in 1..n
          BY <5>1 DEF last
        <5> QED  BY <2>1, <3>3, <5>1, <5>2
      <4>4. /\ h[S] = g[S \ {last}] + (IF last \in S THEN v[last] ELSE 0)
            /\ h[S \ {x}] = g[(S \ {last}) \ {x}] + (IF last \in S THEN v[last] ELSE 0)
        BY <3>1, <4>1, <4>3
      <4> HIDE DEF h
      <4> QED  BY <2>2, <4>2, <4>3, <4>4
    <3> QED  BY <3>2, <3>3
  <2>7. Additive(h, v, 1..last)
    BY <2>5, <2>6 DEF Additive
  <2> QED  BY <2>4, <2>7, Zenon DEF last, Summable
<1> HIDE DEF Q
<1>3. n \in Q
  BY <1>1, <1>2, NaturalsFollow
<1>4. Summable(n)
  BY <1>3 DEF Q
<1> QED  BY <1>4, Zenon DEF Summable

Opens(bs, v, n) == v \in [1..n -> Int] /\ \A i \in 1..n : bs[i].open = v[i]
Measures(g, v, n) == g \in [SUBSET (1..n) -> Int] /\ Additive(g, v, 1..n)

LEMMA SumIs ==
  ASSUME NEW n \in Nat, NEW bs, NEW v, Opens(bs, v, n), NEW g, Measures(g, v, n),
         NEW L \in SUBSET (1..n)
  PROVE  OpenQuantity(bs, L) = g[L]
<1>0. /\ v \in [1..n -> Int] /\ \A i \in 1..n : bs[i].open = v[i]
      /\ g \in [SUBSET (1..n) -> Int] /\ Additive(g, v, 1..n)
  BY DEF Opens, Measures
<1> DEFINE Any(S) == CHOOSE x \in S : TRUE
           F(f) == [S \in SUBSET L |->
                      IF S = {} THEN 0 ELSE bs[Any(S)].open + f[S \ {Any(S)}]]
           iter == CHOOSE f : f = F(f)
           h == [S \in SUBSET L |-> g[S]]
<1>1. OpenQuantity(bs, L) = iter[L]
  BY Zenon DEF OpenQuantity, MapThenSumSet, MapThenFoldSet
<1>2. ASSUME NEW S \in SUBSET L, S # {}
      PROVE  Any(S) \in S /\ Any(S) \in 1..n /\ S \ {Any(S)} \in SUBSET L /\ S \in SUBSET (1..n)
  BY <1>2
<1>3. h = F(h)
  <2> HIDE DEF Any
  <2>1. ASSUME NEW S \in SUBSET L
        PROVE  h[S] = IF S = {} THEN 0 ELSE bs[Any(S)].open + h[S \ {Any(S)}]
    <3>1. CASE S = {}
      BY <1>0, <3>1 DEF Additive
    <3>2. CASE S # {}
      <4>1. h[S] = g[S] /\ h[S \ {Any(S)}] = g[S \ {Any(S)}]
        BY <1>2, <2>1, <3>2
      <4>2. g[S] = v[Any(S)] + g[S \ {Any(S)}]
        BY <1>0, <1>2, <2>1, <3>2 DEF Additive
      <4>3. bs[Any(S)].open = v[Any(S)]
        BY <1>0, <1>2, <2>1, <3>2
      <4> HIDE DEF h
      <4> QED  BY <3>2, <4>1, <4>2, <4>3
    <3> QED  BY <3>1, <3>2
  <2> DEFINE k == h
  <2>2. k = [S \in SUBSET L |-> k[S]] /\ k = h
    OBVIOUS
  <2> HIDE DEF h, k
  <2>3. k = F(k)
    BY <2>1, <2>2
  <2> QED  BY <2>2, <2>3
<1>4. iter = F(iter)
  <2> HIDE DEF F, h
  <2> QED  BY <1>3, Zenon
<1>5. ASSUME NEW S \in SUBSET L
      PROVE  iter[S] = IF S = {} THEN 0 ELSE bs[Any(S)].open + iter[S \ {Any(S)}]
  <2> DEFINE k == iter
  <2>1. k = F(k)
    BY <1>4
  <2> HIDE DEF k, Any
  <2>2. k[S] = IF S = {} THEN 0 ELSE bs[Any(S)].open + k[S \ {Any(S)}]
    BY <2>1, Zenon
  <2> QED  BY <2>2 DEF k
<1> HIDE DEF iter, Any
<1>6. ASSUME NEW S \in SUBSET L PROVE IsFiniteSet(S) /\ Cardinality(S) \in Nat
  <2>1. IsFiniteSet(1..n) /\ S \in SUBSET (1..n)
    BY FS_Interval
  <2> QED  BY <2>1, FS_Subset, FS_CardinalityType
<1> DEFINE Wrong == {S \in SUBSET L : iter[S] # g[S]}
<1>7. Wrong = {}
  <2> SUFFICES ASSUME Wrong # {} PROVE FALSE
    OBVIOUS
  <2> DEFINE Sizes == {Cardinality(S) : S \in Wrong}
  <2>1. Sizes \subseteq Nat /\ Sizes # {}
    BY <1>6
  <2>2. PICK S \in Wrong : \A R \in Wrong : Cardinality(S) <= Cardinality(R)
    <3> HIDE DEF Wrong
    <3>1. PICK m \in Sizes : \A k \in Sizes : m <= k
      <4> HIDE DEF Sizes
      <4> QED  BY <2>1, LeastOfNaturals
    <3> QED  BY <3>1
  <2>3. S \in SUBSET L /\ iter[S] # g[S]
    BY <2>2
  <2>4. S # {}
    BY <1>0, <1>5, <2>3 DEF Additive
  <2>5. LET x == Any(S)
        IN  x \in S /\ x \in 1..n /\ S \ {x} \in SUBSET L /\ S \in SUBSET (1..n)
    BY <1>2, <2>3, <2>4
  <2>6. Cardinality(S \ {Any(S)}) = Cardinality(S) - 1
    BY <1>6, <2>3, <2>5, FS_RemoveElement
  <2>7. S \ {Any(S)} \notin Wrong
    <3>1. Cardinality(S) \in Nat
      BY <1>6, <2>3
    <3> HIDE DEF Wrong
    <3> QED  BY <2>2, <2>6, <3>1
  <2>8. iter[S \ {Any(S)}] = g[S \ {Any(S)}]
    BY <2>5, <2>7
  <2>9. iter[S] = bs[Any(S)].open + g[S \ {Any(S)}]
    BY <1>5, <2>3, <2>4, <2>8
  <2>10. g[S] = v[Any(S)] + g[S \ {Any(S)}]
    BY <1>0, <2>5 DEF Additive
  <2> QED  BY <1>0, <2>3, <2>5, <2>9, <2>10
<1>8. L \in SUBSET L
  OBVIOUS
<1> QED  BY <1>1, <1>7, <1>8

LEMMA BundleIs ==
  ASSUME NEW bs \in Seq(BundleRecord)
  PROVE  /\ Len(bs) \in Nat /\ DOMAIN bs = 1..Len(bs)
         /\ \A i \in DOMAIN bs : bs[i] \in BundleRecord /\ bs[i].open \in Nat
<1>1. Len(bs) \in Nat /\ DOMAIN bs = 1..Len(bs) /\ \A i \in DOMAIN bs : bs[i] \in BundleRecord
  OBVIOUS
<1>2. \A b \in BundleRecord : b.open \in Nat
  BY DEF BundleRecord
<1> QED  BY <1>1, <1>2

AddsUp(bs, D) ==
  /\ OpenQuantity(bs, {}) = 0
  /\ \A L \in SUBSET D :
       /\ OpenQuantity(bs, L) \in Int
       /\ \A x \in L : OpenQuantity(bs, L) = bs[x].open + OpenQuantity(bs, L \ {x})

LEMMA OpenIsSum ==
  ASSUME NEW n \in Nat, NEW bs, NEW v, Opens(bs, v, n)
  PROVE  AddsUp(bs, 1..n)
<1>0. v \in [1..n -> Int] /\ \A i \in 1..n : bs[i].open = v[i]
  BY DEF Opens
<1>1. PICK g : Measures(g, v, n)
  BY <1>0, SumExists, Zenon DEF Measures
<1>2. ASSUME NEW L \in SUBSET (1..n) PROVE OpenQuantity(bs, L) = g[L]
  BY <1>1, SumIs
<1>3. OpenQuantity(bs, {}) = 0
  BY <1>1, <1>2 DEF Measures, Additive
<1>4. ASSUME NEW L \in SUBSET (1..n), NEW x \in L
      PROVE  OpenQuantity(bs, L) = bs[x].open + OpenQuantity(bs, L \ {x})
  <2>1. g[L] = v[x] + g[L \ {x}] /\ L \ {x} \in SUBSET (1..n) /\ bs[x].open = v[x]
    BY <1>0, <1>1 DEF Measures, Additive
  <2> QED  BY <1>2, <2>1
<1>5. ASSUME NEW L \in SUBSET (1..n) PROVE OpenQuantity(bs, L) \in Int
  BY <1>1, <1>2 DEF Measures
<1> QED  BY <1>3, <1>4, <1>5 DEF AddsUp

LEMMA OpenIs ==
  ASSUME NEW bs \in Seq(BundleRecord)
  PROVE  AddsUp(bs, DOMAIN bs)
<1> DEFINE n == Len(bs)
           v == [i \in 1..n |-> bs[i].open]
<1>0. n \in Nat
  OBVIOUS
<1>1. DOMAIN bs = 1..n /\ \A i \in 1..n : bs[i].open \in Int
  BY BundleIs
<1> HIDE DEF n
<1>2. Opens(bs, v, n)
  BY <1>1 DEF Opens
<1> HIDE DEF v
<1>3. AddsUp(bs, 1..n)
  BY <1>0, <1>2, OpenIsSum, Zenon
<1> QED  BY <1>1, <1>3, Zenon

LEMMA OpenAdds ==
  ASSUME NEW bs \in Seq(BundleRecord), NEW S \in SUBSET DOMAIN bs, NEW x \in DOMAIN bs, x \notin S
  PROVE  OpenQuantity(bs, S \cup {x}) = bs[x].open + OpenQuantity(bs, S)
<1>1. S \cup {x} \in SUBSET DOMAIN bs /\ x \in S \cup {x} /\ (S \cup {x}) \ {x} = S
  OBVIOUS
<1> QED  BY <1>1, OpenIs DEF AddsUp

LEMMA OpenIsNat ==
  ASSUME NEW bs \in Seq(BundleRecord), NEW L \in SUBSET DOMAIN bs
  PROVE  OpenQuantity(bs, L) \in Nat
<1> DEFINE n == Len(bs)
           P == {S \in SUBSET (1..n) : OpenQuantity(bs, S) >= 0}
<1>1. n \in Nat /\ DOMAIN bs = 1..n
  OBVIOUS
<1>2. {} \in P
  BY OpenIs DEF AddsUp
<1>3. ASSUME NEW S \in SUBSET (1..n), NEW x \in 1..n, S \in P, \A y \in S : y < x
      PROVE  S \cup {x} \in P
  <2>1. x \notin S
    BY <1>3
  <2>2. OpenQuantity(bs, S \cup {x}) = bs[x].open + OpenQuantity(bs, S)
    BY <1>1, <2>1, OpenAdds
  <2>3. bs[x].open \in Nat /\ OpenQuantity(bs, S) \in Int
    BY <1>1, BundleIs, OpenIs DEF AddsUp
  <2> QED  BY <1>3, <2>2, <2>3
<1> HIDE DEF n
<1>4. SUBSET (1..n) \subseteq P
  <2> HIDE DEF P
  <2> QED  BY <1>1, <1>2, <1>3, SetsFollow
<1> QED  BY <1>1, <1>4, OpenIs DEF AddsUp

LEMMA SameOpen ==
  ASSUME NEW bs \in Seq(BundleRecord), NEW cs \in Seq(BundleRecord), DOMAIN bs \subseteq DOMAIN cs,
         NEW L \in SUBSET DOMAIN bs, \A i \in L : cs[i].open = bs[i].open
  PROVE  OpenQuantity(cs, L) = OpenQuantity(bs, L)
<1> DEFINE n == Len(bs)
           P == {S \in SUBSET (1..n) : S \subseteq L => OpenQuantity(cs, S) = OpenQuantity(bs, S)}
<1>1. n \in Nat /\ DOMAIN bs = 1..n
  OBVIOUS
<1>2. {} \in P
  BY OpenIs DEF AddsUp
<1>3. ASSUME NEW S \in SUBSET (1..n), NEW x \in 1..n, S \in P, \A y \in S : y < x
      PROVE  S \cup {x} \in P
  <2>1. x \notin S
    BY <1>3
  <2>2. /\ OpenQuantity(bs, S \cup {x}) = bs[x].open + OpenQuantity(bs, S)
        /\ OpenQuantity(cs, S \cup {x}) = cs[x].open + OpenQuantity(cs, S)
    BY <1>1, <2>1, OpenAdds
  <2> QED  BY <1>3, <2>2
<1> HIDE DEF n
<1>4. SUBSET (1..n) \subseteq P
  <2> HIDE DEF P
  <2> QED  BY <1>1, <1>2, <1>3, SetsFollow
<1> QED  BY <1>1, <1>4

(***************************************************************************)
(* Consume takes q in all, or all there is.                                *)
(***************************************************************************)
LEMMA ConsumeType ==
  ASSUME NEW bs \in Seq(BundleRecord), NEW L \in SUBSET DOMAIN bs, NEW q \in Int
  PROVE  /\ Consume(bs, L, q) \in Seq(BundleRecord)
         /\ DOMAIN Consume(bs, L, q) = DOMAIN bs /\ Len(Consume(bs, L, q)) = Len(bs)
         /\ \A i \in DOMAIN bs \ L : Consume(bs, L, q)[i] = bs[i]
         /\ \A i \in L :
              Consume(bs, L, q)[i] =
                [bs[i] EXCEPT !.open =
                   AtLeastZero(bs[i].open - AtLeastZero(q - OpenQuantity(bs, {j \in L : j < i})))]
<1> DEFINE left(i) == AtLeastZero(bs[i].open - AtLeastZero(q - OpenQuantity(bs, {j \in L : j < i})))
<1>1. ASSUME NEW i \in L PROVE left(i) \in Nat
  <2>1. {j \in L : j < i} \in SUBSET DOMAIN bs
    OBVIOUS
  <2>2. OpenQuantity(bs, {j \in L : j < i}) \in Int /\ bs[i].open \in Int
    BY <2>1, BundleIs, OpenIs DEF AddsUp
  <2> QED  BY <2>2 DEF AtLeastZero
<1> HIDE DEF left
<1>2. Consume(bs, L, q) =
        [i \in DOMAIN bs |-> IF i \notin L THEN bs[i] ELSE [bs[i] EXCEPT !.open = left(i)]]
  BY DEF Consume, left
<1>3. \A i \in DOMAIN bs : bs[i] \in BundleRecord
  OBVIOUS
<1>4. ASSUME NEW i \in L
      PROVE  [bs[i] EXCEPT !.open = left(i)] \in BundleRecord
  BY <1>1, <1>3, ZenonT(30) DEF BundleRecord
<1>5. Len(bs) \in Nat /\ DOMAIN bs = 1..Len(bs)
  OBVIOUS
<1>6. \A i \in DOMAIN bs : Consume(bs, L, q)[i] \in BundleRecord
  BY <1>2, <1>3, <1>4
<1>7. Consume(bs, L, q) \in [1..Len(bs) -> BundleRecord]
  BY <1>2, <1>5, <1>6
<1>8. /\ Consume(bs, L, q) \in Seq(BundleRecord)
      /\ DOMAIN Consume(bs, L, q) = DOMAIN bs /\ Len(Consume(bs, L, q)) = Len(bs)
  <2> HIDE DEF BundleRecord
  <2>1. \A s \in [1..Len(bs) -> BundleRecord] : s \in Seq(BundleRecord) /\ Len(s) = Len(bs)
    BY <1>5
  <2> QED  BY <1>5, <1>7, <2>1
<1>9. \A i \in L : Consume(bs, L, q)[i] = [bs[i] EXCEPT !.open = left(i)]
  BY <1>2
<1>10. \A i \in DOMAIN bs \ L : Consume(bs, L, q)[i] = bs[i]
  BY <1>2
<1> QED  BY <1>8, <1>9, <1>10 DEF left

LEMMA ConsumedIs ==
  ASSUME NEW bs \in Seq(BundleRecord), NEW L \in SUBSET DOMAIN bs, NEW q \in Int, NEW i \in L
  PROVE  Consume(bs, L, q)[i].open =
           AtLeastZero(bs[i].open - AtLeastZero(q - OpenQuantity(bs, {j \in L : j < i})))
<1>1. Consume(bs, L, q)[i] =
        [bs[i] EXCEPT !.open =
           AtLeastZero(bs[i].open - AtLeastZero(q - OpenQuantity(bs, {j \in L : j < i})))]
  BY DEF Consume
<1>2. bs[i] \in BundleRecord
  BY BundleIs
<1> QED  BY <1>1, <1>2 DEF BundleRecord

LEMMA ConsumeTakes ==
  ASSUME NEW bs \in Seq(BundleRecord), NEW L \in SUBSET DOMAIN bs, NEW q \in Nat
  PROVE  OpenQuantity(Consume(bs, L, q), L) = AtLeastZero(OpenQuantity(bs, L) - q)
<1> DEFINE n == Len(bs)
           cs == Consume(bs, L, q)
           Older(S) == S \subseteq L /\ \A x \in S, y \in L : y < x => y \in S
           P == {S \in SUBSET (1..n) :
                   Older(S) => OpenQuantity(cs, S) = AtLeastZero(OpenQuantity(bs, S) - q)}
<1>1. n \in Nat /\ DOMAIN bs = 1..n
  OBVIOUS
<1>2. q \in Int /\ cs \in Seq(BundleRecord) /\ DOMAIN cs = 1..n
  <2>1. q \in Int
    OBVIOUS
  <2> QED  BY <1>1, <2>1, ConsumeType, Zenon
<1>3. {} \in P
  BY <1>2, OpenIs DEF AddsUp, AtLeastZero
<1>4. ASSUME NEW S \in SUBSET (1..n), NEW x \in 1..n, S \in P, \A y \in S : y < x
      PROVE  S \cup {x} \in P
  <2> SUFFICES ASSUME Older(S \cup {x})
               PROVE  OpenQuantity(cs, S \cup {x}) = AtLeastZero(OpenQuantity(bs, S \cup {x}) - q)
    OBVIOUS
  <2>1. x \in L /\ x \notin S /\ S = {j \in L : j < x}
    <3>1. x \in L /\ S \subseteq L /\ \A y \in L : y < x => y \in S \cup {x}
      OBVIOUS
    <3>2. ~(x < x) /\ \A y \in S : y < x
      BY <1>4
    <3> QED  BY <3>1, <3>2, Zenon
  <2>2. Older(S)
    BY <1>1, <1>4, <2>1
  <2>3. OpenQuantity(cs, S) = AtLeastZero(OpenQuantity(bs, S) - q)
    BY <1>4, <2>2
  <2> DEFINE o == bs[x].open
             s == OpenQuantity(bs, S)
  <2>4. o \in Nat /\ s \in Nat
    <3>1. S \in SUBSET DOMAIN bs /\ x \in DOMAIN bs
      BY <1>1
    <3> QED  BY <3>1, BundleIs, OpenIsNat
  <2>5. cs[x].open = AtLeastZero(o - AtLeastZero(q - s))
    <3>1. Consume(bs, L, q)[x].open =
            AtLeastZero(bs[x].open - AtLeastZero(q - OpenQuantity(bs, {j \in L : j < x})))
      <4> HIDE DEF P, n, Older
      <4>1. q \in Int /\ x \in L
        BY <1>2, <2>1
      <4> QED  BY <4>1, ConsumedIs
    <3> QED  BY <2>1, <3>1, Zenon
  <2>6. /\ OpenQuantity(bs, S \cup {x}) = o + s
        /\ OpenQuantity(cs, S \cup {x}) = cs[x].open + OpenQuantity(cs, S)
    BY <1>1, <1>2, <2>1, OpenAdds
  <2> HIDE DEF o, s, cs
  <2> QED  BY <2>3, <2>4, <2>5, <2>6, SMTT(20) DEF AtLeastZero, s
<1>5. SUBSET (1..n) \subseteq P
  <2> HIDE DEF P, n
  <2> QED  BY <1>1, <1>3, <1>4, SetsFollow
<1> QED  BY <1>1, <1>5

(***************************************************************************)
(* ApplyInventoryCloses goes through the bundles from the oldest on.       *)
(***************************************************************************)
Close(bs, c, q) == [Consume(bs, LotsFor(bs, c), q) EXCEPT ![c].applied = TRUE]

Passes(g, bs) ==
  /\ g = [c \in 0..Len(bs) |-> g[c]]
  /\ g[0] = bs
  /\ \A c \in 1..Len(bs) :
       g[c] = IF MustClose(g[c - 1], c) THEN Close(g[c - 1], c, bs[c].offset) ELSE g[c - 1]

LEMMA LastPass ==
  ASSUME NEW bs, Len(bs) \in Nat, NEW g, Passes(g, bs)
  PROVE  ApplyInventoryCloses(bs) = g[Len(bs)]
<1> DEFINE n == Len(bs)
           F(f) == [c \in 0..n |->
                      IF c = 0 THEN bs
                      ELSE IF MustClose(f[c - 1], c) THEN Close(f[c - 1], c, bs[c].offset)
                      ELSE f[c - 1]]
           after == CHOOSE f : f = F(f)
<1>1. ApplyInventoryCloses(bs) = after[n]
  BY Zenon DEF ApplyInventoryCloses, Close
<1> HIDE DEF n
<1>2. g = F(g)
  <2>1. \A c \in 0..n : g[c] = IF c = 0 THEN bs
                               ELSE IF MustClose(g[c - 1], c) THEN Close(g[c - 1], c, bs[c].offset)
                               ELSE g[c - 1]
    <3>1. \A c \in 0..n : c = 0 \/ c \in 1..n
      BY DEF n
    <3> QED  BY <3>1, Zenon DEF Passes, n
  <2>2. g = [c \in 0..n |-> g[c]]
    BY Zenon DEF Passes, n
  <2> QED  BY <2>1, <2>2, Zenon
<1>3. after = F(after)
  <2> HIDE DEF F
  <2> QED  BY <1>2, Zenon
<1> HIDE DEF after
<1>4. ASSUME NEW c \in 0..n
      PROVE  after[c] = IF c = 0 THEN bs
                        ELSE IF MustClose(after[c - 1], c) THEN Close(after[c - 1], c, bs[c].offset)
                        ELSE after[c - 1]
  BY <1>3, <1>4, Zenon
<1> DEFINE P == {c \in Nat : c <= n => after[c] = g[c]}
<1>5. 0 \in P
  <2>1. 0 \in 0..n
    BY DEF n
  <2> QED  BY <1>4, <2>1 DEF Passes
<1>6. ASSUME NEW c \in Nat, c \in P PROVE c + 1 \in P
  <2> SUFFICES ASSUME c + 1 <= n PROVE after[c + 1] = g[c + 1]
    OBVIOUS
  <2>1. c + 1 \in 0..n /\ c + 1 \in 1..n /\ c <= n /\ c + 1 # 0 /\ (c + 1) - 1 = c
    BY DEF n
  <2>2. after[c] = g[c]
    BY <1>6, <2>1
  <2>3. after[c + 1] = IF MustClose(after[c], c + 1)
                       THEN Close(after[c], c + 1, bs[c + 1].offset) ELSE after[c]
    BY <1>4, <2>1, Zenon
  <2>4. g[c + 1] = IF MustClose(g[c], c + 1) THEN Close(g[c], c + 1, bs[c + 1].offset) ELSE g[c]
    BY <2>1, Zenon DEF Passes, n
  <2> HIDE DEF P, F
  <2> QED  BY <2>2, <2>3, <2>4
<1>7. n \in P
  <2>1. n \in Nat
    BY DEF n
  <2> HIDE DEF P
  <2> QED  BY <1>5, <1>6, <2>1, NaturalsFollow
<1>8. after[n] = g[n]
  <2>1. n <= n
    BY DEF n
  <2> QED  BY <1>7, <2>1
<1> QED  BY <1>1, <1>8 DEF n

(* Lots that differ only in what is open of them, or in having closed.     *)
Alike(cs, bs) ==
  /\ cs \in Seq(BundleRecord)
  /\ Len(cs) = Len(bs) /\ DOMAIN cs = DOMAIN bs
  /\ \A i \in DOMAIN bs :
       /\ cs[i].kind = bs[i].kind /\ cs[i].dir = bs[i].dir /\ cs[i].qty = bs[i].qty
       /\ cs[i].offset = bs[i].offset /\ cs[i].closes = bs[i].closes
       /\ cs[i].target = bs[i].target /\ cs[i].status = bs[i].status

LEMMA ConsumeAlike ==
  ASSUME NEW bs \in Seq(BundleRecord), NEW L \in SUBSET DOMAIN bs, NEW q \in Int
  PROVE  /\ Alike(Consume(bs, L, q), bs)
         /\ \A i \in DOMAIN bs : Consume(bs, L, q)[i].applied = bs[i].applied
<1>1. ASSUME NEW i \in DOMAIN bs
      PROVE  LET c == Consume(bs, L, q)[i]
             IN  /\ c.kind = bs[i].kind /\ c.dir = bs[i].dir /\ c.qty = bs[i].qty
                 /\ c.offset = bs[i].offset /\ c.closes = bs[i].closes
                 /\ c.target = bs[i].target /\ c.status = bs[i].status
                 /\ c.applied = bs[i].applied
  <2>1. CASE i \notin L
    <3>1. Consume(bs, L, q)[i] = bs[i]
      BY <2>1 DEF Consume
    <3> QED  BY <3>1
  <2>2. CASE i \in L
    <3> DEFINE o == AtLeastZero(bs[i].open - AtLeastZero(q - OpenQuantity(bs, {j \in L : j < i})))
    <3>1. Consume(bs, L, q)[i] = [bs[i] EXCEPT !.open = o]
      BY <2>2 DEF Consume
    <3>2. bs[i] \in BundleRecord
      BY BundleIs
    <3> HIDE DEF o
    <3> QED  BY <3>1, <3>2 DEF BundleRecord
  <2> QED  BY <2>1, <2>2
<1> QED  BY <1>1, ConsumeType DEF Alike

LEMMA AlikeLots ==
  ASSUME NEW bs, NEW cs, Alike(cs, bs)
  PROVE  \A d : Lots(cs, d) = Lots(bs, d)
BY DEF Alike, Lots

LEMMA SeqExcept ==
  ASSUME NEW R, NEW s \in Seq(R), NEW i \in DOMAIN s, NEW r \in R
  PROVE  /\ [s EXCEPT ![i] = r] \in Seq(R)
         /\ DOMAIN [s EXCEPT ![i] = r] = DOMAIN s /\ Len([s EXCEPT ![i] = r]) = Len(s)
<1>1. Len(s) \in Nat /\ s \in [1..Len(s) -> R]
  OBVIOUS
<1>2. [s EXCEPT ![i] = r] \in [1..Len(s) -> R]
  BY <1>1
<1>3. \A t \in [1..Len(s) -> R] : t \in Seq(R) /\ Len(t) = Len(s) /\ DOMAIN t = DOMAIN s
  BY <1>1
<1> QED  BY <1>2, <1>3

LEMMA CloseIs ==
  ASSUME NEW bs \in Seq(BundleRecord), NEW i \in DOMAIN bs
  PROVE  LET cs == Close(bs, i, bs[i].offset)
             us == Consume(bs, LotsFor(bs, i), bs[i].offset)
         IN  /\ Alike(cs, bs) /\ us \in Seq(BundleRecord) /\ DOMAIN us = DOMAIN bs
             /\ \A c \in DOMAIN bs : cs[c].open = us[c].open
             /\ cs[i].applied /\ \A c \in DOMAIN bs \ {i} : cs[c].applied = bs[c].applied
<1> DEFINE L == LotsFor(bs, i)
           us == Consume(bs, L, bs[i].offset)
           cs == Close(bs, i, bs[i].offset)
<1>1. L \in SUBSET DOMAIN bs /\ bs[i].offset \in Int
  <2>1. \A b \in BundleRecord : b.offset \in Int
    BY DEF BundleRecord
  <2> QED  BY <2>1, BundleIs DEF LotsFor, Lots
<1>2. Alike(us, bs) /\ \A c \in DOMAIN bs : us[c].applied = bs[c].applied
  BY <1>1, ConsumeAlike
<1>3. cs = [us EXCEPT ![i].applied = TRUE]
  BY DEF Close
<1> HIDE DEF us, cs
<1>4. us \in Seq(BundleRecord) /\ DOMAIN us = DOMAIN bs /\ Len(us) = Len(bs)
  BY <1>2 DEF Alike
<1>5. us[i] \in BundleRecord
  BY <1>4, BundleIs
<1>6. \A c \in DOMAIN bs \ {i} : cs[c] = us[c]
  BY <1>3, <1>4
<1>7. cs[i] = [us[i] EXCEPT !.applied = TRUE]
  BY <1>3, <1>4
<1>8. [us[i] EXCEPT !.applied = TRUE] \in BundleRecord
  BY <1>5 DEF BundleRecord
<1>9. /\ cs \in Seq(BundleRecord) /\ DOMAIN cs = DOMAIN bs /\ Len(cs) = Len(bs)
  <2>1. cs = [us EXCEPT ![i] = [us[i] EXCEPT !.applied = TRUE]]
    BY <1>3
  <2> DEFINE t == [us EXCEPT ![i] = [us[i] EXCEPT !.applied = TRUE]]
  <2>2. t \in Seq(BundleRecord) /\ DOMAIN t = DOMAIN us /\ Len(t) = Len(us)
    BY <1>4, <1>8, SeqExcept
  <2> HIDE DEF t
  <2>3. cs = t
    BY <2>1 DEF t
  <2> QED  BY <1>4, <2>2, <2>3
<1>10. LET a == [us[i] EXCEPT !.applied = TRUE]
       IN  /\ a.kind = us[i].kind /\ a.dir = us[i].dir /\ a.qty = us[i].qty
           /\ a.offset = us[i].offset /\ a.closes = us[i].closes /\ a.open = us[i].open
           /\ a.target = us[i].target /\ a.status = us[i].status /\ a.applied
  BY <1>5 DEF BundleRecord
<1>11. \A c \in DOMAIN bs :
         /\ cs[c].kind = us[c].kind /\ cs[c].dir = us[c].dir /\ cs[c].qty = us[c].qty
         /\ cs[c].offset = us[c].offset /\ cs[c].closes = us[c].closes /\ cs[c].open = us[c].open
         /\ cs[c].target = us[c].target /\ cs[c].status = us[c].status
  BY <1>6, <1>7, <1>10
<1>12. Alike(cs, bs)
  BY <1>2, <1>9, <1>11 DEF Alike
<1>13. cs[i].applied
  BY <1>7, <1>10
<1>14. \A c \in DOMAIN bs \ {i} : cs[c].applied = bs[c].applied
  BY <1>2, <1>6
<1> QED  BY <1>4, <1>11, <1>12, <1>13, <1>14 DEF cs, us

LEMMA NothingCloses ==
  ASSUME NEW bs \in Seq(BundleRecord), \A c \in DOMAIN bs : ~MustClose(bs, c)
  PROVE  ApplyInventoryCloses(bs) = bs
<1> DEFINE g == [c \in 0..Len(bs) |-> bs]
<1>1. Len(bs) \in Nat /\ DOMAIN bs = 1..Len(bs)
  OBVIOUS
<1>2. \A c \in 0..Len(bs) : g[c] = bs
  OBVIOUS
<1>3. 0 \in 0..Len(bs) /\ Len(bs) \in 0..Len(bs) /\ \A c \in 1..Len(bs) : c - 1 \in 0..Len(bs) /\ c \in 0..Len(bs)
  BY <1>1
<1>4. g = [c \in 0..Len(bs) |-> g[c]]
  OBVIOUS
<1> HIDE DEF g
<1>5. Passes(g, bs)
  BY <1>1, <1>2, <1>3, <1>4, Zenon DEF Passes
<1> QED  BY <1>1, <1>2, <1>3, <1>5, LastPass

LEMMA OneCloses ==
  ASSUME NEW bs \in Seq(BundleRecord), NEW i \in DOMAIN bs, MustClose(bs, i),
         \A c \in DOMAIN bs \ {i} : ~MustClose(bs, c)
  PROVE  ApplyInventoryCloses(bs) = Close(bs, i, bs[i].offset)
<1> DEFINE n == Len(bs)
           cs == Close(bs, i, bs[i].offset)
           g == [c \in 0..n |-> IF c < i THEN bs ELSE cs]
<1>1. n \in Nat /\ DOMAIN bs = 1..n /\ i \in 1..n /\ i \in Nat
  OBVIOUS
<1>2. \A c \in DOMAIN bs \ {i} : ~MustClose(cs, c)
  <2>1. Alike(cs, bs) /\ \A c \in DOMAIN bs \ {i} : cs[c].applied = bs[c].applied
    BY CloseIs
  <2> HIDE DEF cs
  <2>2. \A c \in DOMAIN bs \ {i} : cs[c].status = bs[c].status /\ cs[c].closes = bs[c].closes
    BY <2>1 DEF Alike
  <2> QED  BY <2>1, <2>2 DEF MustClose
<1>3. cs = Close(bs, i, bs[i].offset)
  OBVIOUS
<1> HIDE DEF n, cs
<1>4. /\ \A c \in 0..n : c < i => g[c] = bs
      /\ \A c \in 0..n : ~(c < i) => g[c] = cs
      /\ g = [c \in 0..n |-> g[c]]
  OBVIOUS
<1> HIDE DEF g
<1>5. g[0] = bs /\ g[n] = cs
  BY <1>1, <1>4
<1>6. ASSUME NEW c \in 1..n
      PROVE  g[c] = IF MustClose(g[c - 1], c) THEN Close(g[c - 1], c, bs[c].offset) ELSE g[c - 1]
  <2>1. c \in 0..n /\ c - 1 \in 0..n /\ c \in DOMAIN bs
    BY <1>1
  <2>2. CASE c < i
    <3>1. c - 1 < i /\ c # i
      BY <1>1, <2>2
    <3>2. g[c] = bs /\ g[c - 1] = bs
      BY <1>4, <2>1, <2>2, <3>1
    <3> QED  BY <2>1, <3>1, <3>2
  <2>3. CASE c = i
    <3>1. c - 1 < i /\ ~(c < i)
      BY <1>1, <2>3
    <3>2. g[c] = cs /\ g[c - 1] = bs
      BY <1>4, <2>1, <3>1
    <3> QED  BY <1>3, <2>3, <3>2
  <2>4. CASE c > i
    <3>1. ~(c - 1 < i) /\ ~(c < i) /\ c # i
      BY <1>1, <2>4
    <3>2. g[c] = cs /\ g[c - 1] = cs
      BY <1>4, <2>1, <3>1
    <3> QED  BY <1>2, <2>1, <3>1, <3>2
  <2> QED  BY <1>1, <2>2, <2>3, <2>4
<1>7. Passes(g, bs)
  BY <1>4, <1>5, <1>6, Zenon DEF Passes, n
<1>8. ApplyInventoryCloses(bs) = g[n]
  BY <1>1, <1>7, LastPass, Zenon DEF n
<1> QED  BY <1>3, <1>5, <1>8

(***************************************************************************)
(* Arithmetic of blocks.                                                   *)
(***************************************************************************)
LEMMA WholeBlocks ==
  ASSUME NEW n \in Nat
  PROVE  /\ Block \in Nat \ {0} /\ n * Block \in Nat
         /\ (n * Block) \div Block = n /\ (n * Block) % Block = 0
<1>1. Block \in Nat \ {0}
  BY InventoryAssumption
<1>2. n * Block \in Nat
  BY <1>1
<1>3. (n * Block) \div Block = n
  BY <1>1, <1>2, SMTT(30)
<1>4. (n * Block) % Block = 0
  BY <1>1, <1>2, SMTT(30)
<1> QED  BY <1>1, <1>2, <1>3, <1>4

LEMMA MoreBlocks ==
  ASSUME NEW m \in Nat, NEW n \in Nat
  PROVE  /\ (m + n) * Block = m * Block + n * Block
         /\ m <= n => m * Block <= n * Block
         /\ m <= n => (n - m) * Block = n * Block - m * Block
<1>1. Block \in Nat \ {0}
  BY InventoryAssumption
<1> QED  BY <1>1, SMTT(30)

LEMMA TowardIs ==
  ASSUME NEW n \in Int
  PROVE  /\ Toward(n) \in {1, -1} /\ Toward(n) \in Directions /\ -Toward(n) \in Directions
         /\ Size(n) \in Nat /\ n = (-Toward(n)) * Size(n)
<1>1. CASE n > 0
  <2>1. Toward(n) = -1 /\ Size(n) = n
    BY <1>1 DEF Toward, Size
  <2>2. -Toward(n) = 1
    <3>1. \A t \in Int : -t = 0 - t
      OBVIOUS
    <3>2. Toward(n) \in Int /\ 0 - Toward(n) = 1
      BY <2>1
    <3> QED  BY <3>1, <3>2, Zenon
  <2>3. (-Toward(n)) * Size(n) = n
    BY <2>1, <2>2
  <2> QED  BY <1>1, <2>1, <2>2, <2>3 DEF Directions
<1>2. CASE ~(n > 0)
  <2>1. Toward(n) = 1 /\ Size(n) = -n
    BY <1>2 DEF Toward, Size
  <2> QED  BY <1>2, <2>1 DEF Directions
<1> QED  BY <1>1, <1>2

LEMMA DirectionIs ==
  ASSUME NEW d \in Directions
  PROVE  d \in {1, -1} /\ d \in Int /\ -d \in Directions /\ -d # d /\ d # 0 /\ -(-d) = d
BY DEF Directions

LEMMA ObservedType ==
  ASSUME TypeOK
  PROVE  /\ Moved \in Int /\ Observed \in Int /\ (Expected => Observed \in Nat /\ Observed >= window.confirmed)
         /\ (Observed - window.confirmed) * Block \in Int
         /\ Toward(window.base) * Remaining * Block \in Int
<1>1. /\ window.base \in Int /\ window.blocks \in Nat /\ window.confirmed \in Nat
      /\ position \in Int /\ Block \in Nat \ {0}
  BY InventoryAssumption DEF TypeOK
<1>2. Toward(window.base) \in {1, -1}
  BY <1>1, TowardIs
<1>3. Moved \in Int
  BY <1>1, <1>2 DEF Moved
<1>4. Observed \in Int
  BY <1>1, <1>3 DEF Observed
<1>5. Expected => Observed \in Nat /\ Observed >= window.confirmed
  BY <1>1, <1>4 DEF Expected, Observed
<1>6. (Observed - window.confirmed) * Block \in Int
  BY <1>1, <1>4
<1>7. Toward(window.base) * Remaining * Block \in Int
  BY <1>1, <1>2, <1>4 DEF Remaining
<1> QED  BY <1>3, <1>4, <1>5, <1>6, <1>7

(***************************************************************************)
(* Steps that leave the bundles as they are.                               *)
(***************************************************************************)
LEMMA BundlesKept ==
  ASSUME UNCHANGED bundles
  PROVE  /\ Working' = Working /\ (BundlesInShape => BundlesInShape')
         /\ (ExitFindsItsLot => ExitFindsItsLot')
         /\ (UNCHANGED account => (OffsetsInventory => OffsetsInventory'))
<1>1. Working' = Working
  BY DEF Working
<1> QED  BY <1>1 DEF BundlesInShape, ExitFindsItsLot, OffsetsInventory

LEMMA BookedKept ==
  ASSUME UNCHANGED <<account, window, offer>>
  PROVE  /\ (UNCHANGED bundles => (Backed => Backed'))
         /\ (UNCHANGED fallback \/ fallback' = 0) /\ UNCHANGED instructed
               /\ offer \in [blocks : Nat, done : Nat, inTime : Nat]
               /\ (instructed => ConversionsBooked)
            => (FallbackOnlyForRemainder => FallbackOnlyForRemainder')
<1>1. UNCHANGED bundles => (Backed => Backed')
  BY DEF Backed, Unconfirmed
<1>2. CASE UNCHANGED fallback
  BY <1>1, <1>2 DEF FallbackOnlyForRemainder
<1>3. CASE fallback' = 0
  <2>1. ASSUME offer \in [blocks : Nat, done : Nat, inTime : Nat], ConversionsBooked
        PROVE  Size(fallback') <= (offer.blocks - offer.inTime) * Block
    <3> DEFINE n == offer.blocks - offer.inTime
    <3>1. n \in Nat
      BY <2>1 DEF ConversionsBooked
    <3>2. n * Block \in Nat
      BY <3>1, WholeBlocks
    <3> HIDE DEF n
    <3>3. Size(fallback') = 0
      BY <1>3 DEF Size
    <3> QED  BY <3>2, <3>3 DEF n
  <2> QED  BY <1>1, <2>1 DEF FallbackOnlyForRemainder
<1> QED  BY <1>1, <1>2, <1>3

LEMMA ReadsKeep ==
  ASSUME IInv, ReadPositions
  PROVE  IInv'
<1> USE DEF ReadPositions
<1>1. TypeOK /\ fallback = 0 /\ (window.open => Working = {})
  BY DEF IInv, OneThingAtATime
<1>2. TypeOK'
  BY <1>1 DEF TypeOK
<1>3. BundlesInShape' /\ ExitFindsItsLot' /\ Working' = Working
  BY BundlesKept DEF IInv
<1>4. OneThingAtATime'
  BY <1>1, <1>3 DEF IInv, OneThingAtATime
<1>5. instructed' => ConversionsBooked' /\ Backed' /\ OffsetsInventory'
  BY BundlesKept, BookedKept DEF IInv, ConversionsBooked
<1>6. FallbackOnlyForRemainder'
  BY <1>1, BookedKept DEF IInv, TypeOK
<1> QED  BY <1>2, <1>3, <1>4, <1>5, <1>6 DEF IInv

LEMMA NothingKeeps ==
  ASSUME IInv, NothingToProgress
  PROVE  IInv'
<1> USE DEF NothingToProgress
<1>0. TypeOK
  BY DEF IInv
<1>1. TypeOK'
  <2>1. blocked' \in BOOLEAN
    BY Zenon
  <2>2. /\ fallback' \in Int /\ pc' = "DECIDE"
        /\ UNCHANGED <<account, position, bundles, window, offer, reconciled, reducing,
                       instructed, suppressed, conversions>>
    OBVIOUS
  <2> HIDE DEF NothingToProgress
  <2> QED  BY <1>0, <2>1, <2>2 DEF TypeOK
<1>2. BundlesInShape' /\ ExitFindsItsLot' /\ Working' = Working
  BY BundlesKept DEF IInv
<1>3. OneThingAtATime'
  BY <1>2 DEF IInv, OneThingAtATime
<1>4. instructed' => ConversionsBooked' /\ Backed' /\ OffsetsInventory'
  BY BundlesKept, BookedKept DEF IInv, ConversionsBooked
<1>5. FallbackOnlyForRemainder'
  BY <1>0, BookedKept DEF IInv, TypeOK
<1> QED  BY <1>1, <1>2, <1>3, <1>4, <1>5 DEF IInv

LEMMA NoQuotesKeep ==
  ASSUME IInv, MissingQuotes \/ NoPlan
  PROVE  IInv'
<1> USE DEF MissingQuotes, NoPlan, Decided
<1>0. TypeOK
  BY DEF IInv
<1>1. TypeOK'
  <2>1. reducing' \in BOOLEAN
    <3>1. reducing \in BOOLEAN /\ StillReducing \in BOOLEAN
      BY <1>0 DEF TypeOK, StillReducing
    <3> QED  BY <3>1, Zenon
  <2>2. fallback' \in Int /\ pc' = "FULFIL"
    BY <1>0 DEF TypeOK
  <2>3. UNCHANGED <<account, position, bundles, window, offer, reconciled, blocked,
                    instructed, suppressed, conversions>>
    OBVIOUS
  <2> HIDE DEF MissingQuotes, NoPlan, Decided
  <2> QED  BY <1>0, <2>1, <2>2, <2>3 DEF TypeOK
<1>2. BundlesInShape' /\ ExitFindsItsLot' /\ Working' = Working /\ fallback' = 0
  BY BundlesKept DEF IInv
<1>3. OneThingAtATime'
  BY <1>2 DEF IInv, OneThingAtATime
<1>4. instructed' => ConversionsBooked' /\ Backed' /\ OffsetsInventory'
  BY BundlesKept, BookedKept DEF IInv, ConversionsBooked
<1>5. FallbackOnlyForRemainder'
  BY <1>0, <1>2, BookedKept DEF IInv, TypeOK
<1> QED  BY <1>1, <1>2, <1>3, <1>4, <1>5 DEF IInv

LEMMA AbortKeeps ==
  ASSUME IInv, AbortConversion
  PROVE  IInv'
<1> USE DEF AbortConversion, Progress
<1>0. TypeOK
  BY DEF IInv
<1>1. window' = NoWindow /\ window'.open = FALSE
  BY DEF CloseWindow, NoWindow
<1>2. TypeOK'
  <2>1. blocked' \in BOOLEAN
    BY Zenon
  <2>2. window' \in [open : BOOLEAN, blocks : Nat, base : Int, confirmed : Nat, overdue : BOOLEAN]
    BY <1>1 DEF NoWindow
  <2>3. /\ fallback' \in Int /\ pc' = "DECIDE" /\ suppressed' \subseteq Int
        /\ UNCHANGED <<account, position, bundles, offer, reconciled, reducing,
                       instructed, conversions>>
    BY <1>0 DEF TypeOK
  <2> HIDE DEF AbortConversion, Progress
  <2> QED  BY <1>0, <2>1, <2>2, <2>3 DEF TypeOK
<1>3. BundlesInShape' /\ ExitFindsItsLot' /\ Working' = Working
  BY BundlesKept DEF IInv
<1>4. OneThingAtATime'
  BY <1>1, <1>3 DEF IInv, OneThingAtATime
(* The person has kept to the instruction: the conversion is expected.     *)
<1>5. ~instructed
  <2> SUFFICES ASSUME instructed PROVE FALSE
    OBVIOUS
  <2> DEFINE t == Toward(window.base)
             n == offer.done * Block
  <2>1. /\ window.base \in Int /\ window.blocks \in Nat /\ window.confirmed \in Nat
        /\ offer.done \in Nat
    BY <1>0 DEF TypeOK
  <2>2. /\ position = window.base + t * n
        /\ offer.done <= window.blocks /\ window.confirmed <= offer.done
    BY DEF IInv, ConversionsBooked
  <2>3. t \in {1, -1} /\ n \in Nat
    BY <2>1, TowardIs, WholeBlocks
  <2>4. n \div Block = offer.done /\ n % Block = 0 /\ n <= window.blocks * Block
    BY <2>1, <2>2, WholeBlocks, MoreBlocks
  <2>5. Moved = t * (position - window.base)
    BY DEF Moved
  <2> HIDE DEF n, t
  <2>6. Moved = n
    <3>1. CASE t = 1
      BY <2>1, <2>2, <2>3, <2>5, <3>1
    <3>2. CASE t = -1
      BY <2>1, <2>2, <2>3, <2>5, <3>2
    <3> QED  BY <2>3, <3>1, <3>2
  <2>7. window.blocks * Block \in Nat
    BY <2>1, WholeBlocks
  <2>8. Expected
    BY <2>2, <2>3, <2>4, <2>6, <2>7 DEF Expected
  <2> QED  BY <2>8
<1>6. instructed' => ConversionsBooked' /\ Backed' /\ OffsetsInventory'
  BY <1>5
<1>7. FallbackOnlyForRemainder'
  BY <1>5 DEF FallbackOnlyForRemainder
<1> QED  BY <1>2, <1>3, <1>4, <1>6, <1>7 DEF IInv

LEMMA DeadlineKeeps ==
  ASSUME IInv, DeadlinePasses
  PROVE  IInv'
<1> USE DEF DeadlinePasses
<1>0. TypeOK
  BY DEF IInv
<1>1. /\ window' \in [open : BOOLEAN, blocks : Nat, base : Int, confirmed : Nat, overdue : BOOLEAN]
      /\ window'.open <=> window.open
      /\ window'.blocks = window.blocks /\ window'.base = window.base
      /\ window'.confirmed = window.confirmed
  BY <1>0 DEF TypeOK
<1>2. TypeOK'
  BY <1>0, <1>1 DEF TypeOK
<1>3. BundlesInShape' /\ ExitFindsItsLot' /\ Working' = Working
  BY BundlesKept DEF IInv
<1>4. OneThingAtATime'
  BY <1>1, <1>3 DEF IInv, OneThingAtATime
<1>5. instructed' => ConversionsBooked' /\ Backed' /\ OffsetsInventory'
  <2> SUFFICES ASSUME instructed PROVE ConversionsBooked' /\ Backed' /\ OffsetsInventory'
    OBVIOUS
  <2>1. ConversionsBooked'
    BY <1>1 DEF IInv, ConversionsBooked
  <2>2. \A d : Unconfirmed(d)' = Unconfirmed(d)
    BY <1>1 DEF Unconfirmed
  <2>3. Backed'
    BY <2>2 DEF IInv, Backed
  <2>4. OffsetsInventory'
    BY BundlesKept DEF IInv
  <2> QED  BY <2>1, <2>3, <2>4
<1>6. FallbackOnlyForRemainder'
  BY DEF IInv, FallbackOnlyForRemainder
<1> QED  BY <1>2, <1>3, <1>4, <1>5, <1>6 DEF IInv

LEMMA StartKeeps ==
  ASSUME IInv, NEW n \in 1..MaxBlocks, StartManualConverter(n)
  PROVE  IInv'
<1> USE DEF StartManualConverter, Decided, MayDecide
<1>0. TypeOK /\ n \in Nat
  BY DEF IInv
<1>1. /\ window'.open = TRUE /\ window'.blocks = n /\ window'.base = position
      /\ window'.confirmed = 0 /\ offer'.blocks = n /\ offer'.done = 0 /\ offer'.inTime = 0
  OBVIOUS
<1>2. TypeOK'
  <2>1. reducing' \in BOOLEAN
    BY Zenon
  <2>2. window' \in [open : BOOLEAN, blocks : Nat, base : Int, confirmed : Nat, overdue : BOOLEAN]
    BY <1>0 DEF TypeOK
  <2>3. offer' \in [blocks : Nat, done : Nat, inTime : Nat]
    BY <1>0
  <2>4. /\ fallback' \in Int /\ pc' = "FULFIL"
        /\ UNCHANGED <<account, position, bundles, reconciled, blocked,
                       instructed, suppressed, conversions>>
    BY <1>0 DEF TypeOK
  <2> HIDE DEF StartManualConverter, Decided, MayDecide
  <2> QED  BY <1>0, <2>1, <2>2, <2>3, <2>4 DEF TypeOK
<1>3. BundlesInShape' /\ ExitFindsItsLot' /\ Working' = Working /\ Working = {}
  BY BundlesKept DEF IInv, Busy, Working
<1>4. OneThingAtATime'
  BY <1>1, <1>3 DEF IInv, OneThingAtATime
<1>5. instructed' => ConversionsBooked' /\ Backed' /\ OffsetsInventory'
  <2> SUFFICES ASSUME instructed PROVE ConversionsBooked' /\ Backed' /\ OffsetsInventory'
    OBVIOUS
  <2>1. 0 * Block = 0 /\ Toward(position) * 0 = 0
    <3>1. Toward(position) \in {1, -1} /\ Block \in Nat
      BY <1>0, TowardIs, WholeBlocks DEF TypeOK
    <3> QED  BY <3>1
  <2>2. n * Block <= Size(position)
    <3>1. Size(position) \in Nat /\ Block \in Nat \ {0}
      BY <1>0, TowardIs, WholeBlocks DEF TypeOK
    <3> DEFINE s == Size(position)
    <3>2. n <= s \div Block
      OBVIOUS
    <3> HIDE DEF s
    <3>3. (s \div Block) \in Nat /\ (s \div Block) * Block <= s
      BY <3>1, SMTT(30) DEF s
    <3>4. n * Block <= (s \div Block) * Block
      BY <1>0, <3>2, <3>3, MoreBlocks
    <3>5. n * Block \in Nat /\ (s \div Block) * Block \in Nat /\ s \in Nat
      BY <1>0, <3>1, <3>3, WholeBlocks DEF s
    <3>6. n * Block <= s
      BY <3>3, <3>4, <3>5
    <3> QED  BY <3>6 DEF s
  <2>3. ConversionsBooked'
    <3>1. account = position /\ position \in Int
      BY <1>0 DEF IInv, ConversionsBooked, TypeOK
    <3> QED  BY <1>0, <1>1, <2>1, <2>2, <3>1 DEF ConversionsBooked
  <2>4. \A d : Unconfirmed(d)' = Unconfirmed(d)
    <3>1. \A d : Unconfirmed(d) = 0
      BY DEF Unconfirmed
    <3>2. \A d : Unconfirmed(d)' = 0
      BY <1>1, <2>1 DEF Unconfirmed
    <3> QED  BY <3>1, <3>2
  <2>5. Backed'
    BY <2>4 DEF IInv, Backed
  <2>6. OffsetsInventory'
    BY <1>3 DEF OffsetsInventory
  <2> QED  BY <2>3, <2>5, <2>6
<1>6. FallbackOnlyForRemainder'
  <2>1. fallback' = 0 /\ n * Block \in Nat /\ n - 0 = n
    BY <1>0, WholeBlocks
  <2> QED  BY <1>1, <2>1 DEF FallbackOnlyForRemainder, Size
<1> QED  BY <1>2, <1>3, <1>4, <1>5, <1>6 DEF IInv

(* The person converts: with the instruction, towards no inventory and no  *)
(* further than what there was.                                            *)
LEMMA ConversionStays ==
  ASSUME NEW base \in Int, NEW m \in Nat, NEW n \in Nat, m + n <= Size(base), n # 0,
         NEW a, a = base + Toward(base) * m
  PROVE  /\ a \in Int /\ Toward(a) = Toward(base)
         /\ a + Toward(a) * n = base + Toward(base) * (m + n)
         /\ \A d \in Directions :
              AtLeastZero(d * (a + Toward(a) * n)) =
                IF d = -Toward(base) THEN AtLeastZero(d * a) - n ELSE AtLeastZero(d * a)
<1>1. CASE base > 0
  <2>1. Toward(base) = -1 /\ Size(base) = base
    BY <1>1 DEF Toward, Size
  <2>2. a = base - m /\ a > 0 /\ a \in Int /\ a - n >= 0
    BY <1>1, <2>1
  <2>3. Toward(a) = -1
    BY <2>2 DEF Toward
  <2>4. a + Toward(a) * n = a - n /\ base + Toward(base) * (m + n) = base - m - n
    BY <2>1, <2>2, <2>3
  <2>5. ASSUME NEW d \in Directions
        PROVE  AtLeastZero(d * (a - n)) =
                 IF d = -Toward(base) THEN AtLeastZero(d * a) - n ELSE AtLeastZero(d * a)
    <3>1. -Toward(base) = 1
      <4>1. \A t \in Int : -t = 0 - t
        OBVIOUS
      <4>2. Toward(base) \in Int /\ 0 - Toward(base) = 1
        BY <2>1
      <4> QED  BY <4>1, <4>2, Zenon
    <3>2. CASE d = 1
      BY <2>2, <3>1, <3>2 DEF AtLeastZero
    <3>3. CASE d = -1
      BY <2>2, <3>1, <3>3 DEF AtLeastZero
    <3> QED  BY <3>2, <3>3 DEF Directions
  <2> QED  BY <2>1, <2>2, <2>3, <2>4, <2>5
<1>2. CASE ~(base > 0)
  <2>1. Toward(base) = 1 /\ Size(base) = -base
    BY <1>2 DEF Toward, Size
  <2>2. a = base + m /\ a < 0 /\ a \in Int /\ a + n <= 0
    BY <1>2, <2>1
  <2>3. Toward(a) = 1
    BY <2>2 DEF Toward
  <2>4. a + Toward(a) * n = a + n /\ base + Toward(base) * (m + n) = base + m + n
    BY <2>1, <2>2, <2>3
  <2>5. ASSUME NEW d \in Directions
        PROVE  AtLeastZero(d * (a + n)) =
                 IF d = -Toward(base) THEN AtLeastZero(d * a) - n ELSE AtLeastZero(d * a)
    <3>1. -Toward(base) = -1
      BY <2>1
    <3>2. CASE d = 1
      BY <2>2, <3>1, <3>2 DEF AtLeastZero
    <3>3. CASE d = -1
      BY <2>2, <3>1, <3>3 DEF AtLeastZero
    <3> QED  BY <3>2, <3>3 DEF Directions
  <2> QED  BY <2>1, <2>2, <2>3, <2>4, <2>5
<1> QED  BY <1>1, <1>2

LEMMA ConvertsKeep ==
  ASSUME IInv, NEW n \in 1..MaxBlocks + 1, PersonConverts(n)
  PROVE  IInv'
<1> USE DEF PersonConverts
<1>0. /\ TypeOK /\ n \in Nat /\ n # 0 /\ account \in Int
      /\ offer.done \in Nat /\ offer.inTime \in Nat /\ offer.blocks \in Nat
      /\ window.base \in Int /\ window.blocks \in Nat /\ window.confirmed \in Nat
  <2>1. TypeOK
    BY DEF IInv
  <2>2. n \in Nat /\ n # 0
    BY InventoryAssumption
  <2> HIDE DEF PersonConverts
  <2> QED  BY <2>1, <2>2 DEF TypeOK
<1>1. /\ offer' \in [blocks : Nat, done : Nat, inTime : Nat]
      /\ offer'.blocks = offer.blocks /\ offer'.done = offer.done + n
      /\ offer'.inTime \in {offer.inTime, offer.inTime + n}
  <2> DEFINE p == [offer EXCEPT !.done = @ + n]
             k == IF InTime THEN offer.inTime + n ELSE offer.inTime
  <2>1. offer \in [blocks : Nat, done : Nat, inTime : Nat]
    BY <1>0 DEF TypeOK
  <2>2. /\ p \in [blocks : Nat, done : Nat, inTime : Nat]
        /\ p.blocks = offer.blocks /\ p.done = offer.done + n /\ p.inTime = offer.inTime
    BY <1>0, <2>1
  <2>3. k \in Nat /\ k \in {offer.inTime, offer.inTime + n}
    BY <1>0
  <2>4. offer' = [p EXCEPT !.inTime = k]
    BY <2>1
  <2> HIDE DEF p, k, PersonConverts
  <2> QED  BY <2>2, <2>3, <2>4
<1>2. TypeOK'
  <2>1. instructed' \in BOOLEAN
    <3>1. instructed \in BOOLEAN /\ Follows(n) \in BOOLEAN
      BY <1>0 DEF TypeOK, Follows
    <3> QED  BY <3>1, Zenon
  <2>2. account' \in Int
    <3>1. Toward(account) \in {1, -1} /\ Block \in Nat
      BY <1>0, TowardIs, WholeBlocks
    <3>2. Toward(account) * n * Block \in Int
      BY <1>0, <3>1
    <3> QED  BY <1>0, <3>2
  <2>3. /\ conversions' \in Nat
        /\ UNCHANGED <<pc, position, bundles, reconciled, blocked, window, fallback,
                       reducing, suppressed>>
    BY <1>0 DEF TypeOK
  <2> HIDE DEF PersonConverts
  <2> QED  BY <1>0, <1>1, <2>1, <2>2, <2>3 DEF TypeOK
<1>3. BundlesInShape' /\ ExitFindsItsLot' /\ Working' = Working
  BY BundlesKept DEF IInv
<1>4. OneThingAtATime'
  BY <1>3 DEF IInv, OneThingAtATime
<1>5. ASSUME instructed'
      PROVE  /\ instructed /\ window.open /\ n <= offer.blocks - offer.done /\ pc = "IDLE"
             /\ Working = {} /\ fallback = 0
             /\ ConversionsBooked /\ Backed
  BY <1>5 DEF IInv, OneThingAtATime, Follows
<1>6. ASSUME instructed' PROVE ConversionsBooked' /\ Backed' /\ OffsetsInventory'
  <2> DEFINE m == offer.done * Block
             k == n * Block
             t == Toward(window.base)
  <2>1. m \in Nat /\ k \in Nat /\ k # 0 /\ (offer.done + n) * Block = m + k
    <3>1. k # 0
      <4>1. Block \in Nat \ {0}
        BY WholeBlocks
      <4> QED  BY <1>0, <4>1, SMTT(30)
    <3> QED  BY <1>0, <3>1, WholeBlocks, MoreBlocks
  <2>2. m + k <= Size(window.base)
    <3>1. window.blocks * Block <= Size(window.base) /\ offer.done + n <= window.blocks
      BY <1>0, <1>5, <1>6 DEF ConversionsBooked
    <3>2. offer.done + n \in Nat
      BY <1>0
    <3>3. (offer.done + n) * Block <= window.blocks * Block
      BY <1>0, <3>1, <3>2, MoreBlocks
    <3>4. Size(window.base) \in Nat /\ window.blocks * Block \in Nat
      BY <1>0, TowardIs, WholeBlocks
    <3> HIDE DEF m, k
    <3> QED  BY <2>1, <3>1, <3>3, <3>4
  <2>3. account = window.base + t * m
    BY <1>5, <1>6 DEF ConversionsBooked
  <2>4. account' = account + Toward(account) * k
    <3>1. Toward(account) \in {1, -1} /\ Block \in Nat
      BY <1>0, TowardIs, WholeBlocks
    <3>2. Toward(account) * n * Block = Toward(account) * (n * Block)
      <4>1. CASE Toward(account) = 1
        BY <1>0, <3>1, <4>1
      <4>2. CASE Toward(account) = -1
        BY <1>0, <3>1, <4>2
      <4> QED  BY <3>1, <4>1, <4>2
    <3> QED  BY <3>2
  <2> HIDE DEF m, k
  <2>5. /\ account' = window.base + t * (m + k)
        /\ \A d \in Directions :
             AtLeastZero(d * account') =
               IF d = -t THEN AtLeastZero(d * account) - k ELSE AtLeastZero(d * account)
    BY <1>0, <2>1, <2>2, <2>3, <2>4, ConversionStays
  <2>6. ConversionsBooked'
    <3>1. pc' = "IDLE" /\ UNCHANGED window
      BY <1>5, <1>6
    <3>2. offer'.inTime <= offer'.done /\ offer'.done <= offer'.blocks
      BY <1>0, <1>1, <1>5, <1>6 DEF ConversionsBooked
    <3>3. /\ offer.blocks = window.blocks
          /\ window.blocks * Block <= Size(window.base)
          /\ window.confirmed <= offer.done
      BY <1>5, <1>6 DEF ConversionsBooked
    <3>4. window.confirmed <= offer'.done
      BY <1>0, <1>1, <3>3
    <3>5. account' = window.base + t * (offer'.done * Block)
      BY <1>1, <2>1, <2>5
    <3> QED  BY <1>1, <3>1, <3>2, <3>3, <3>4, <3>5 DEF ConversionsBooked
  <2>7. Backed'
    <3> SUFFICES ASSUME NEW d \in Directions
                 PROVE  OpenQuantity(bundles', Lots(bundles', d)) - Unconfirmed(d)'
                          <= AtLeastZero(d * account')
      BY DEF Backed
    <3> DEFINE c == window.confirmed * Block
               o == OpenQuantity(bundles, Lots(bundles, d))
    <3>1. c \in Int /\ o \in Int /\ d * account \in Int
      <4>1. Lots(bundles, d) \in SUBSET DOMAIN bundles /\ bundles \in Seq(BundleRecord)
        BY <1>0 DEF Lots, TypeOK
      <4>2. o \in Nat
        BY <4>1, OpenIsNat
      <4>3. c \in Nat
        BY <1>0, WholeBlocks
      <4>4. d * account \in Int
        BY <1>0 DEF Directions
      <4> HIDE DEF o, c
      <4> QED  BY <4>2, <4>3, <4>4
    <3>2. o - Unconfirmed(d) <= AtLeastZero(d * account)
      BY <1>5, <1>6 DEF Backed
    <3>3. OpenQuantity(bundles', Lots(bundles', d)) = o
      OBVIOUS
    <3>4. /\ Unconfirmed(d) = IF t = -d THEN m - c ELSE 0
          /\ Unconfirmed(d)' = IF t = -d THEN m + k - c ELSE 0
      <4>1. UNCHANGED window /\ window.open /\ offer'.done * Block = m + k
        BY <1>1, <1>5, <1>6, <2>1
      <4>2. Unconfirmed(d) = IF t = -d THEN m - c ELSE 0
        BY <4>1 DEF Unconfirmed, m
      <4>3. Unconfirmed(d)' = IF t = -d THEN offer'.done * Block - c ELSE 0
        BY <4>1 DEF Unconfirmed
      <4> DEFINE x == offer'.done * Block
      <4>4. x = m + k
        BY <4>1
      <4> HIDE DEF PersonConverts, c, t, x
      <4>5. x - c = m + k - c
        BY <2>1, <3>1, <4>4
      <4> QED  BY <4>2, <4>3, <4>5 DEF x
    <3>5. t = -d <=> d = -t
      BY <1>0, TowardIs DEF Directions
    <3>6. AtLeastZero(d * account) \in Int
      BY <3>1 DEF AtLeastZero
    <3> HIDE DEF c, o, t, PersonConverts
    <3> QED  BY <2>1, <2>5, <3>1, <3>2, <3>3, <3>4, <3>5, <3>6
  <2>8. OffsetsInventory'
    BY <1>3, <1>5, <1>6 DEF OffsetsInventory
  <2> QED  BY <2>6, <2>7, <2>8
<1>7. FallbackOnlyForRemainder'
  <2> SUFFICES ASSUME instructed'
               PROVE  Size(fallback') <= (offer'.blocks - offer'.inTime) * Block
    BY DEF FallbackOnlyForRemainder
  <2>1. Size(fallback') = 0
    BY <1>5 DEF Size
  <2> DEFINE r == offer'.blocks - offer'.inTime
  <2>2. r \in Nat
    <3>1. offer'.inTime <= offer'.done /\ offer'.done <= offer'.blocks
      BY <1>6 DEF ConversionsBooked
    <3> HIDE DEF PersonConverts
    <3> QED  BY <1>1, <3>1
  <2>3. r * Block \in Nat
    BY <2>2, WholeBlocks
  <2> HIDE DEF r
  <2> QED  BY <2>1, <2>3 DEF r
<1> QED  BY <1>2, <1>3, <1>4, <1>6, <1>7 DEF IInv

(***************************************************************************)
(* Steps that add a bundle: it is worked, and opens no lot yet.            *)
(***************************************************************************)
LEMMA BundleTyped ==
  ASSUME NEW kind \in {"ARB", "TENDER", "EXIT", "REDUCE", "FALLBACK"}, NEW d \in Directions,
         NEW q \in Nat, NEW target \in Nat, position \in Int
  PROVE  LET b == Bundle(kind, d, q, target)
         IN  /\ b \in BundleRecord
             /\ b.kind = kind /\ b.dir = d /\ b.qty = q /\ b.target = target
             /\ b.status = "PLANNED" /\ ~b.applied
             /\ b.closes = IF b.offset > 0 THEN -b.dir ELSE 0
             /\ kind \in {"ARB", "TENDER"} => b.offset = Least(q, Opposing(position, d))
             /\ kind \notin {"ARB", "TENDER"} => b.offset = q
             /\ kind = "ARB" => b.open = q - b.offset
<1> DEFINE least == Least(q, Opposing(position, d))
           offset == IF kind \in {"ARB", "TENDER"} THEN least ELSE q
           open == IF kind = "ARB" THEN q - offset ELSE 0
           closes == IF offset > 0 THEN -d ELSE 0
           b == [kind |-> kind, dir |-> d, qty |-> q, offset |-> offset, open |-> open,
                 closes |-> closes, target |-> target, status |-> "PLANNED", applied |-> FALSE]
<1>1. least \in Nat /\ least <= q
  <2>1. -d * position \in Int
    BY DirectionIs
  <2>2. Opposing(position, d) \in Nat
    BY <2>1 DEF Opposing, AtLeastZero
  <2> QED  BY <2>2 DEF Least
<1> HIDE DEF least
<1>2. offset \in Nat /\ offset <= q
  BY <1>1
<1>3. open \in Nat
  BY <1>2
<1>4. closes \in {-1, 0, 1}
  <2>1. -d \in Directions
    BY DirectionIs
  <2> QED  BY <2>1 DEF Directions
<1>5. Bundle(kind, d, q, target) = b
  BY DEF Bundle, least
<1>6. /\ kind \in {"ARB", "TENDER"} => offset = least
      /\ kind \notin {"ARB", "TENDER"} => offset = q
      /\ kind = "ARB" => open = q - offset
      /\ closes = IF offset > 0 THEN -d ELSE 0
  OBVIOUS
<1> HIDE DEF offset, open, closes
<1>7. b \in BundleRecord
  BY <1>2, <1>3, <1>4 DEF BundleRecord
<1> QED  BY <1>5, <1>6, <1>7 DEF least

LEMMA AppendIs ==
  ASSUME NEW R, NEW s \in Seq(R), NEW r \in R
  PROVE  /\ Append(s, r) \in Seq(R) /\ Len(s) \in Nat /\ DOMAIN s = 1..Len(s)
         /\ DOMAIN Append(s, r) = 1..(Len(s) + 1)
         /\ \A i \in 1..Len(s) : Append(s, r)[i] = s[i]
         /\ Append(s, r)[Len(s) + 1] = r
OBVIOUS

LEMMA EnqueueIs ==
  ASSUME TypeOK, NEW kind \in {"ARB", "TENDER", "EXIT", "REDUCE", "FALLBACK"},
         NEW d \in Directions, NEW q \in Nat, NEW target \in Nat, Enqueue(kind, d, q, target)
  PROVE  LET n == Len(bundles) + 1
         IN  /\ bundles' \in Seq(BundleRecord)
             /\ DOMAIN bundles' = DOMAIN bundles \cup {n} /\ n \notin DOMAIN bundles /\ n \in Nat
             /\ \A i \in DOMAIN bundles : bundles'[i] = bundles[i]
             /\ bundles'[n] = Bundle(kind, d, q, target)
             /\ \A e : Lots(bundles', e) = Lots(bundles, e)
             /\ \A e : OpenQuantity(bundles', Lots(bundles', e)) =
                         OpenQuantity(bundles, Lots(bundles, e))
<1> DEFINE n == Len(bundles) + 1
           b == Bundle(kind, d, q, target)
<1>1. bundles \in Seq(BundleRecord) /\ position \in Int
  BY DEF TypeOK
<1>2. b \in BundleRecord /\ b.status = "PLANNED"
  BY <1>1, BundleTyped
<1>3. bundles' = Append(bundles, b)
  BY DEF Enqueue
<1> HIDE DEF b, n
<1>4. /\ bundles' \in Seq(BundleRecord)
      /\ DOMAIN bundles' = DOMAIN bundles \cup {n} /\ n \notin DOMAIN bundles /\ n \in Nat
      /\ \A i \in DOMAIN bundles : bundles'[i] = bundles[i]
      /\ bundles'[n] = b
  <2>1. /\ bundles' \in Seq(BundleRecord) /\ DOMAIN bundles = 1..Len(bundles)
        /\ Len(bundles) \in Nat
        /\ DOMAIN bundles' = 1..n /\ \A i \in 1..Len(bundles) : bundles'[i] = bundles[i]
        /\ bundles'[n] = b
    <3> DEFINE a == Append(bundles, b)
    <3>1. /\ a \in Seq(BundleRecord) /\ DOMAIN bundles = 1..Len(bundles)
          /\ Len(bundles) \in Nat
          /\ DOMAIN a = 1..n /\ \A i \in 1..Len(bundles) : a[i] = bundles[i]
          /\ a[n] = b
      BY <1>1, <1>2, AppendIs DEF n
    <3> HIDE DEF a
    <3>2. bundles' = a
      BY <1>3 DEF a
    <3> QED  BY <3>1, <3>2
  <2>2. 1..n = (1..Len(bundles)) \cup {n} /\ n \notin 1..Len(bundles) /\ n \in Nat
    BY <2>1 DEF n
  <2> QED  BY <2>1, <2>2
<1>5. ASSUME NEW e PROVE Lots(bundles', e) = Lots(bundles, e)
  BY <1>2, <1>4 DEF Lots
<1>6. ASSUME NEW e
      PROVE  OpenQuantity(bundles', Lots(bundles', e)) = OpenQuantity(bundles, Lots(bundles, e))
  <2>1. /\ Lots(bundles, e) \in SUBSET DOMAIN bundles
        /\ \A i \in Lots(bundles, e) : bundles'[i].open = bundles[i].open
    BY <1>4 DEF Lots
  <2>2. DOMAIN bundles \subseteq DOMAIN bundles'
    BY <1>4
  <2>3. OpenQuantity(bundles', Lots(bundles, e)) = OpenQuantity(bundles, Lots(bundles, e))
    BY <1>1, <1>4, <2>1, <2>2, SameOpen
  <2> QED  BY <1>5, <2>3
<1> QED  BY <1>4, <1>5, <1>6 DEF n, b

LEMMA EnqueueKeeps ==
  ASSUME IInv, Decided, Working = {}, ~window.open,
         fallback' = 0, UNCHANGED <<window, offer>>, reducing' \in BOOLEAN,
         NEW kind \in {"ARB", "TENDER", "EXIT", "REDUCE", "FALLBACK"},
         NEW d \in Directions, NEW q \in Nat, NEW target \in Nat, Enqueue(kind, d, q, target),
         IF kind = "EXIT" THEN target \in Lots(bundles, -d) /\ bundles[target].open >= q
                          ELSE target = 0
  PROVE  IInv'
<1> DEFINE n == Len(bundles) + 1
           b == Bundle(kind, d, q, target)
<1>1. /\ pc = "DECIDE" /\ pc' = "FULFIL"
      /\ UNCHANGED <<account, position, reconciled, suppressed, blocked, conversions, instructed>>
  BY DEF Decided
<1>2. TypeOK
  BY DEF IInv
<1>3. /\ bundles' \in Seq(BundleRecord)
      /\ DOMAIN bundles' = DOMAIN bundles \cup {n} /\ n \notin DOMAIN bundles /\ n \in Nat
      /\ \A i \in DOMAIN bundles : bundles'[i] = bundles[i]
      /\ bundles'[n] = b
      /\ \A e : Lots(bundles', e) = Lots(bundles, e)
      /\ \A e : OpenQuantity(bundles', Lots(bundles', e)) = OpenQuantity(bundles, Lots(bundles, e))
  BY <1>2, EnqueueIs
<1>4. /\ b.kind = kind /\ b.dir = d /\ b.qty = q /\ b.target = target
      /\ b.status = "PLANNED" /\ ~b.applied
      /\ b.closes = IF b.offset > 0 THEN -b.dir ELSE 0
      /\ kind \in {"ARB", "TENDER"} => b.offset = Least(q, Opposing(position, d))
      /\ kind \notin {"ARB", "TENDER"} => b.offset = q
      /\ kind = "ARB" => b.open = q - b.offset
  <2>1. position \in Int
    BY <1>2 DEF TypeOK
  <2> QED  BY <2>1, BundleTyped
<1> HIDE DEF n, b
<1>5. TypeOK'
  <2>1. fallback' \in Int
    OBVIOUS
  <2> QED  BY <1>1, <1>2, <1>3, <2>1 DEF TypeOK
<1>6. Working' = {n}
  <2>1. \A i \in DOMAIN bundles : bundles[i].status # "PLANNED"
    BY DEF Working
  <2> QED  BY <1>3, <1>4, <2>1 DEF Working
<1>7. BundlesInShape'
  <2> SUFFICES ASSUME NEW i \in DOMAIN bundles'
               PROVE  LET c == bundles'[i]
                      IN  /\ c.closes = IF c.offset > 0 THEN -c.dir ELSE 0
                          /\ ~MustClose(bundles', i) /\ (c.status = "PLANNED" => ~c.applied)
                          /\ c.kind = "ARB" /\ c.status = "PLANNED" => c.open = c.qty - c.offset
                          /\ c.kind \notin {"ARB", "TENDER"} => c.offset = c.qty
                          /\ IF c.kind = "EXIT" THEN c.target \in Lots(bundles', -c.dir)
                                                ELSE c.target = 0
    BY DEF BundlesInShape
  <2>1. CASE i = n
    <3>1. ~MustClose(bundles', n)
      BY <1>3, <1>4 DEF MustClose
    <3>2. IF b.kind = "EXIT" THEN b.target \in Lots(bundles', -b.dir) ELSE b.target = 0
      BY <1>3, <1>4
    <3> QED  BY <1>3, <1>4, <2>1, <3>1, <3>2
  <2>2. CASE i # n
    <3>1. i \in DOMAIN bundles /\ bundles'[i] = bundles[i]
      BY <1>3, <2>2
    <3>2. BundlesInShape
      BY DEF IInv
    <3>3. ~MustClose(bundles, i)
      BY <3>1, <3>2 DEF BundlesInShape
    <3>4. ~MustClose(bundles', i)
      BY <3>1, <3>3 DEF MustClose
    <3>5. \A e : Lots(bundles', e) = Lots(bundles, e)
      BY <1>3
    <3>6. IF bundles[i].kind = "EXIT" THEN bundles[i].target \in Lots(bundles, -bundles[i].dir)
                                      ELSE bundles[i].target = 0
      BY <3>1, <3>2 DEF BundlesInShape
    <3>7. LET c == bundles[i]
          IN  /\ c.closes = IF c.offset > 0 THEN -c.dir ELSE 0
              /\ (c.status = "PLANNED" => ~c.applied)
              /\ c.kind = "ARB" /\ c.status = "PLANNED" => c.open = c.qty - c.offset
              /\ c.kind \notin {"ARB", "TENDER"} => c.offset = c.qty
      BY <3>1, <3>2 DEF BundlesInShape
    <3> QED  BY <3>1, <3>4, <3>5, <3>6, <3>7
  <2> QED  BY <2>1, <2>2
<1>8. OneThingAtATime'
  BY <1>1, <1>6 DEF OneThingAtATime
<1>9. ExitFindsItsLot'
  <2>1. ASSUME kind = "EXIT" PROVE target \in DOMAIN bundles /\ bundles'[target].open >= q
    BY <1>3, <2>1 DEF Lots
  <2> QED  BY <1>3, <1>4, <1>6, <2>1 DEF ExitFindsItsLot
<1>10. ASSUME instructed' PROVE ConversionsBooked' /\ Backed' /\ OffsetsInventory'
  <2>1. ConversionsBooked /\ Backed /\ account = position
    BY <1>1, <1>10 DEF IInv, ConversionsBooked
  <2>2. ConversionsBooked'
    BY <1>1, <2>1 DEF ConversionsBooked
  <2>3. Backed'
    BY <1>1, <1>3, <2>1 DEF Backed, Unconfirmed
  <2>4. OffsetsInventory'
    BY <1>1, <1>3, <1>4, <1>6, <2>1 DEF OffsetsInventory
  <2> QED  BY <2>2, <2>3, <2>4
<1>11. FallbackOnlyForRemainder'
  BY <1>1, <1>2, BookedKept DEF IInv, TypeOK
<1> QED  BY <1>5, <1>7, <1>8, <1>9, <1>10, <1>11 DEF IInv

LEMMA DecisionsKeep ==
  ASSUME IInv,
         \/ FallBack
         \/ \E d \in Directions, q \in 1..MaxInventory : AcceptTender(d, q)
         \/ \E i \in DOMAIN bundles, q \in 1..MaxInventory : ConvergenceExit(i, q)
         \/ \E q \in 1..OrderQty : ReduceInventory(q)
         \/ \E d \in Directions, q \in 1..OrderQty : OpenArbitrage(d, q)
  PROVE  IInv'
<1>1. /\ reducing \in BOOLEAN /\ fallback \in Int /\ position \in Int
      /\ bundles \in Seq(BundleRecord)
      /\ (fallback # 0 => ~window.open /\ Working = {})
      /\ (window.open /\ pc = "DECIDE" => blocked)
  BY DEF IInv, TypeOK, OneThingAtATime
<1>2. 1 \in Directions /\ -1 \in Directions /\ 0 \in Nat
  BY DEF Directions
<1>3. ASSUME Decided, MayDecide PROVE Working = {} /\ ~window.open /\ fallback = 0
  BY <1>1, <1>3 DEF Decided, MayDecide, Busy, Working
<1>4. StillReducing \in BOOLEAN
  BY DEF StillReducing
<1>5. CASE FallBack
  <2> USE DEF FallBack
  <2> DEFINE d == IF fallback > 0 THEN 1 ELSE -1
  <2>1. Size(fallback) \in Nat /\ d \in Directions
    BY <1>1, <1>2, TowardIs
  <2>2. Enqueue("FALLBACK", d, Size(fallback), 0) /\ Decided /\ Working = {} /\ ~window.open
    BY <1>1, <1>5
  <2>3. fallback' = 0 /\ UNCHANGED <<window, offer>> /\ reducing' \in BOOLEAN
    BY <1>1, <1>5
  <2> HIDE DEF d, FallBack
  <2> QED  BY <1>2, <2>1, <2>2, <2>3, EnqueueKeeps
<1>6. ASSUME NEW d \in Directions, NEW q \in 1..MaxInventory, AcceptTender(d, q) PROVE IInv'
  <2> USE DEF AcceptTender
  <2>1. Enqueue("TENDER", d, q, 0) /\ Decided /\ Working = {} /\ ~window.open
    BY <1>3, <1>6
  <2>2. fallback' = 0 /\ UNCHANGED <<window, offer>>
    BY <1>3, <1>6
  <2>3. reducing' \in BOOLEAN
    BY <1>6, Zenon
  <2>4. q \in Nat
    OBVIOUS
  <2> HIDE DEF AcceptTender
  <2> QED  BY <1>2, <2>1, <2>2, <2>3, <2>4, EnqueueKeeps
<1>7. ASSUME NEW i \in DOMAIN bundles, NEW q \in 1..MaxInventory, ConvergenceExit(i, q)
      PROVE  IInv'
  <2> USE DEF ConvergenceExit
  <2> DEFINE d == -bundles[i].dir
  <2>0. \A b \in BundleRecord : b.dir \in Directions
    BY DEF BundleRecord
  <2>1. d \in Directions /\ -d = bundles[i].dir /\ i \in Nat /\ q \in Nat
    BY <1>1, <2>0, BundleIs, DirectionIs
  <2>2. Enqueue("EXIT", d, q, i) /\ Decided /\ Working = {} /\ ~window.open
    BY <1>3, <1>7
  <2>3. fallback' = 0 /\ UNCHANGED <<window, offer>> /\ reducing' \in BOOLEAN
    BY <1>1, <1>3, <1>7
  <2>4. i \in Lots(bundles, bundles[i].dir) /\ bundles[i].open >= q
    <3>1. bundles[i].open \in Nat
      BY <1>1, BundleIs
    <3> QED  BY <1>7, <3>1
  <2> HIDE DEF ConvergenceExit, d
  <2>5. i \in Lots(bundles, -d)
    BY <2>1, <2>4, Zenon
  <2> QED  BY <2>1, <2>2, <2>3, <2>4, <2>5, EnqueueKeeps
<1>8. ASSUME NEW q \in 1..OrderQty, ReduceInventory(q) PROVE IInv'
  <2> USE DEF ReduceInventory
  <2>1. Enqueue("REDUCE", Toward(position), q, 0) /\ Decided /\ Working = {} /\ ~window.open
    BY <1>3, <1>8
  <2>2. fallback' = 0 /\ UNCHANGED <<window, offer>>
    BY <1>3, <1>8
  <2>3. reducing' \in BOOLEAN
    BY <1>8, Zenon
  <2>4. q \in Nat /\ Toward(position) \in Directions
    BY <1>1, TowardIs
  <2> HIDE DEF ReduceInventory
  <2> QED  BY <1>2, <2>1, <2>2, <2>3, <2>4, EnqueueKeeps
<1>9. ASSUME NEW d \in Directions, NEW q \in 1..OrderQty, OpenArbitrage(d, q) PROVE IInv'
  <2> USE DEF OpenArbitrage
  <2>1. Enqueue("ARB", d, q, 0) /\ Decided /\ Working = {} /\ ~window.open
    BY <1>3, <1>9
  <2>2. fallback' = 0 /\ UNCHANGED <<window, offer>>
    BY <1>3, <1>9
  <2>3. reducing' \in BOOLEAN
    BY <1>4, <1>9, Zenon
  <2>4. q \in Nat
    OBVIOUS
  <2> HIDE DEF OpenArbitrage
  <2> QED  BY <1>2, <2>1, <2>2, <2>3, <2>4, EnqueueKeeps
<1> QED  BY <1>5, <1>6, <1>7, <1>8, <1>9

(***************************************************************************)
(* A conversion is confirmed.                                              *)
(***************************************************************************)
(* Lots in shape stay in shape when only what is open of them changes and  *)
(* none of them is worked.                                                 *)
LEMMA ShapeKept ==
  ASSUME BundlesInShape, Alike(bundles', bundles),
         \A i \in DOMAIN bundles : bundles'[i].applied <=> bundles[i].applied, Working = {}
  PROVE  BundlesInShape' /\ Working' = {}
<1>1. DOMAIN bundles' = DOMAIN bundles
  BY DEF Alike
<1>2. \A e : Lots(bundles', e) = Lots(bundles, e)
  BY AlikeLots
<1>3. ASSUME NEW i \in DOMAIN bundles
      PROVE  /\ bundles'[i].kind = bundles[i].kind /\ bundles'[i].dir = bundles[i].dir
             /\ bundles'[i].qty = bundles[i].qty /\ bundles'[i].offset = bundles[i].offset
             /\ bundles'[i].closes = bundles[i].closes /\ bundles'[i].target = bundles[i].target
             /\ bundles'[i].status = bundles[i].status
  BY DEF Alike
<1>4. \A i \in DOMAIN bundles : bundles[i].status # "PLANNED"
  BY DEF Working
<1>5. Working' = {}
  BY <1>1, <1>3, <1>4 DEF Working
<1>6. ASSUME NEW i \in DOMAIN bundles'
      PROVE  LET c == bundles'[i]
             IN  /\ c.closes = IF c.offset > 0 THEN -c.dir ELSE 0
                 /\ ~MustClose(bundles', i) /\ (c.status = "PLANNED" => ~c.applied)
                 /\ c.kind = "ARB" /\ c.status = "PLANNED" => c.open = c.qty - c.offset
                 /\ c.kind \notin {"ARB", "TENDER"} => c.offset = c.qty
                 /\ IF c.kind = "EXIT" THEN c.target \in Lots(bundles', -c.dir)
                                       ELSE c.target = 0
  <2>1. i \in DOMAIN bundles
    BY <1>1
  <2>2. ~MustClose(bundles', i)
    <3>1. ~MustClose(bundles, i)
      BY <2>1 DEF BundlesInShape
    <3> QED  BY <1>3, <2>1, <3>1 DEF MustClose
  <2>3. LET c == bundles[i]
        IN  /\ c.closes = IF c.offset > 0 THEN -c.dir ELSE 0
            /\ c.kind \notin {"ARB", "TENDER"} => c.offset = c.qty
            /\ IF c.kind = "EXIT" THEN c.target \in Lots(bundles, -c.dir) ELSE c.target = 0
    BY <2>1 DEF BundlesInShape
  <2> QED  BY <1>2, <1>3, <1>4, <2>1, <2>2, <2>3
<1> QED  BY <1>5, <1>6 DEF BundlesInShape

(* What the window and the fallback can be when it is.                     *)
LEMMA ConfirmsTo ==
  ASSUME TypeOK, ConfirmConversion
  PROVE  /\ window' \in [open : BOOLEAN, blocks : Nat, base : Int, confirmed : Nat, overdue : BOOLEAN]
         /\ suppressed' \subseteq Int /\ fallback' \in Int
         /\ window'.open => /\ window'.blocks = window.blocks /\ window'.base = window.base
                            /\ window'.confirmed = Observed /\ fallback' = 0
         /\ fallback' # 0 => fallback' = Toward(window.base) * Remaining * Block
<1>1. /\ window \in [open : BOOLEAN, blocks : Nat, base : Int, confirmed : Nat, overdue : BOOLEAN]
      /\ suppressed \subseteq Int /\ position \in Int
  BY DEF TypeOK
<1>2. Expected
  BY DEF ConfirmConversion
<1>3. Observed \in Nat /\ Toward(window.base) * Remaining * Block \in Int
  BY <1>2, ObservedType
<1>4. /\ NoWindow \in [open : BOOLEAN, blocks : Nat, base : Int, confirmed : Nat, overdue : BOOLEAN]
      /\ NoWindow.open = FALSE
  BY DEF NoWindow
<1>5. CASE window' = NoWindow /\ fallback' = 0 /\ UNCHANGED suppressed
  BY <1>1, <1>4, <1>5
<1>6. CASE window' = [window EXCEPT !.confirmed = Observed] /\ fallback' = 0 /\ UNCHANGED suppressed
  <2>1. /\ window' \in [open : BOOLEAN, blocks : Nat, base : Int, confirmed : Nat, overdue : BOOLEAN]
        /\ window'.blocks = window.blocks /\ window'.base = window.base
        /\ window'.confirmed = Observed
    BY <1>1, <1>3, <1>6
  <2> QED  BY <1>1, <1>6, <2>1
<1>7. CASE /\ suppressed' = {position} /\ window' = NoWindow
           /\ fallback' \in {0, Toward(window.base) * Remaining * Block}
  BY <1>1, <1>3, <1>4, <1>7
<1> QED  BY <1>5, <1>6, <1>7 DEF ConfirmConversion, CloseWindow

LEMMA ConfirmKeeps ==
  ASSUME IInv, ConfirmConversion
  PROVE  IInv'
<1> DEFINE t == Toward(window.base)
           L == Lots(bundles, -t)
           q == (Observed - window.confirmed) * Block
<1>1. /\ TypeOK /\ bundles \in Seq(BundleRecord) /\ window.base \in Int /\ offer.done \in Nat
      /\ offer.inTime \in Nat /\ offer.blocks \in Nat /\ window.confirmed \in Nat
      /\ window.blocks \in Nat /\ account \in Int /\ position \in Int
  <2>1. TypeOK
    BY DEF IInv
  <2> QED  BY <2>1 DEF TypeOK
<1>2. /\ pc = "PROGRESS" /\ pc' = "DECIDE" /\ window.open /\ blocked' = TRUE /\ Expected
      /\ bundles' = Consume(bundles, L, q)
      /\ UNCHANGED <<account, position, reconciled, reducing, offer, conversions, instructed>>
  BY DEF ConfirmConversion, Progress, ApplyConversionToOpenLots
<1>3. /\ window' \in [open : BOOLEAN, blocks : Nat, base : Int, confirmed : Nat, overdue : BOOLEAN]
      /\ suppressed' \subseteq Int /\ fallback' \in Int
      /\ window'.open => /\ window'.blocks = window.blocks /\ window'.base = window.base
                         /\ window'.confirmed = Observed /\ fallback' = 0
      /\ fallback' # 0 => fallback' = Toward(window.base) * Remaining * Block
  BY <1>1, ConfirmsTo
<1>4. Observed \in Nat /\ q \in Nat
  <2>1. Observed \in Nat /\ Observed >= window.confirmed
    BY <1>1, <1>2, ObservedType
  <2>2. Observed - window.confirmed \in Nat
    BY <1>1, <2>1
  <2> QED  BY <2>1, <2>2, WholeBlocks
<1>5. L \in SUBSET DOMAIN bundles
  BY DEF Lots
<1>6. t \in {1, -1} /\ t \in Directions /\ -t \in Directions
  BY <1>1, TowardIs
<1> HIDE DEF L, q, t
<1>7. /\ Alike(bundles', bundles)
      /\ \A i \in DOMAIN bundles : bundles'[i].applied <=> bundles[i].applied
  <2>1. q \in Int
    BY <1>4
  <2>2. /\ Alike(Consume(bundles, L, q), bundles)
        /\ \A i \in DOMAIN bundles : Consume(bundles, L, q)[i].applied = bundles[i].applied
    BY <1>1, <1>5, <2>1, ConsumeAlike
  <2> QED  BY <1>2, <2>2, Zenon
<1>8. TypeOK'
  <2>1. blocked' \in BOOLEAN
    BY <1>2, Zenon
  <2>2. bundles' \in Seq(BundleRecord)
    BY <1>7 DEF Alike
  <2> QED  BY <1>1, <1>2, <1>3, <2>1, <2>2 DEF TypeOK
<1>9. Working = {}
  BY <1>2 DEF IInv, OneThingAtATime
<1>10. BundlesInShape' /\ Working' = {}
  BY <1>7, <1>9, ShapeKept DEF IInv
<1>11. OneThingAtATime'
  BY <1>2, <1>3, <1>10 DEF OneThingAtATime
<1>12. ExitFindsItsLot'
  BY <1>10 DEF ExitFindsItsLot
(* With the instruction, what is observed is what was converted.           *)
<1>13. ASSUME instructed
       PROVE  /\ ConversionsBooked /\ Backed /\ Observed = offer.done
              /\ q = offer.done * Block - window.confirmed * Block
  <2> DEFINE n == offer.done * Block
  <2>1. ConversionsBooked /\ Backed
    BY <1>13 DEF IInv
  <2>2. position = window.base + t * n /\ window.confirmed <= offer.done
    BY <1>2, <2>1 DEF ConversionsBooked, t
  <2>3. n \in Nat /\ n \div Block = offer.done
    BY <1>1, WholeBlocks
  <2>4. Moved = t * (position - window.base)
    BY DEF Moved, t
  <2> HIDE DEF n
  <2>5. Moved = n
    <3>1. CASE t = 1
      BY <1>1, <2>2, <2>3, <2>4, <3>1
    <3>2. CASE t = -1
      BY <1>1, <2>2, <2>3, <2>4, <3>2
    <3> QED  BY <1>6, <3>1, <3>2
  <2>6. Observed = offer.done
    BY <2>3, <2>5 DEF Observed
  <2>7. q = offer.done * Block - window.confirmed * Block
    BY <1>1, <2>2, <2>6, MoreBlocks DEF q
  <2> QED  BY <2>1, <2>6, <2>7
<1>14. ASSUME instructed' PROVE ConversionsBooked' /\ Backed' /\ OffsetsInventory'
  <2>0. instructed
    BY <1>2, <1>14
  <2>1. ConversionsBooked'
    BY <1>1, <1>2, <1>3, <1>13, <2>0 DEF ConversionsBooked
  <2>2. \A d : Unconfirmed(d)' = 0
    <3>1. offer.done * Block \in Nat
      BY <1>1, WholeBlocks
    <3>2. CASE ~window'.open
      BY <3>2 DEF Unconfirmed
    <3>3. CASE window'.open
      <4>1. window'.confirmed * Block = offer.done * Block /\ UNCHANGED offer
        BY <1>2, <1>3, <1>13, <2>0, <3>3
      <4> QED  BY <3>1, <4>1 DEF Unconfirmed
    <3> QED  BY <3>2, <3>3
  <2>3. Backed'
    <3> SUFFICES ASSUME NEW d \in Directions
                 PROVE  OpenQuantity(bundles', Lots(bundles', d)) - Unconfirmed(d)'
                          <= AtLeastZero(d * account')
      BY DEF Backed
    <3> DEFINE M == Lots(bundles, d)
               o == OpenQuantity(bundles, M)
    <3>1. M \in SUBSET DOMAIN bundles
      BY DEF Lots
    <3>2. o \in Nat /\ d * account \in Int
      BY <1>1, <3>1, OpenIsNat DEF Directions
    <3>3. Lots(bundles', d) = M
      BY <1>7, AlikeLots
    <3>4. o - Unconfirmed(d) <= AtLeastZero(d * account)
      BY <1>13, <2>0 DEF Backed
    <3>5. CASE d = -t
      <4>1. M = L
        BY <3>5 DEF L
      <4>2. OpenQuantity(Consume(bundles, L, q), L) = AtLeastZero(OpenQuantity(bundles, L) - q)
        BY <1>1, <1>4, <1>5, ConsumeTakes
      <4>3. OpenQuantity(bundles', M) = AtLeastZero(o - q)
        BY <1>2, <4>1, <4>2, Zenon
      <4>4. Unconfirmed(d) = q
        BY <1>1, <1>2, <1>6, <1>13, <2>0, <3>5 DEF Unconfirmed, t, Directions
      <4> HIDE DEF o, M
      <4>5. OpenQuantity(bundles', M) <= AtLeastZero(d * account)
        BY <1>4, <3>2, <3>4, <4>3, <4>4 DEF AtLeastZero
      <4>6. OpenQuantity(bundles', M) \in Int
        BY <1>4, <3>2, <4>3 DEF AtLeastZero
      <4> QED  BY <1>2, <2>2, <3>3, <4>5, <4>6
    <3>6. CASE d # -t
      <4>1. M \cap L = {}
        BY <3>6 DEF L, Lots
      <4>2. bundles' \in Seq(BundleRecord) /\ \A i \in M : bundles'[i] = bundles[i]
        <5>1. q \in Int
          BY <1>4
        <5>2. \A i \in DOMAIN bundles \ L : bundles'[i] = bundles[i]
          <6>1. \A i \in DOMAIN bundles \ L : Consume(bundles, L, q)[i] = bundles[i]
            BY <1>1, <1>5, <5>1, ConsumeType, ZenonT(30)
          <6> QED  BY <1>2, <6>1, Zenon
        <5> QED  BY <1>7, <3>1, <4>1, <5>2 DEF Alike
      <4>3. OpenQuantity(bundles', M) = o
        <5>1. DOMAIN bundles \subseteq DOMAIN bundles'
          BY <1>7 DEF Alike
        <5> QED  BY <1>1, <3>1, <4>2, <5>1, SameOpen
      <4>4. Unconfirmed(d) = 0
        BY <1>6, <3>6 DEF Unconfirmed, t, Directions
      <4> HIDE DEF o, M
      <4> QED  BY <1>2, <2>2, <3>2, <3>3, <3>4, <4>3, <4>4
    <3> QED  BY <3>5, <3>6
  <2>4. OffsetsInventory'
    BY <1>10 DEF OffsetsInventory
  <2> QED  BY <2>1, <2>3, <2>4
<1>15. FallbackOnlyForRemainder'
  <2> SUFFICES ASSUME instructed
               PROVE  Size(fallback') <= (offer.blocks - offer.inTime) * Block
    BY <1>2 DEF FallbackOnlyForRemainder
  <2> DEFINE r == offer.blocks - offer.inTime
             k == offer.blocks - offer.done
  <2>1. r \in Nat /\ k \in Nat /\ k <= r /\ window.blocks = offer.blocks
    BY <1>1, <1>2, <1>13 DEF ConversionsBooked
  <2>2. r * Block \in Nat /\ k * Block \in Nat /\ k * Block <= r * Block
    BY <2>1, WholeBlocks, MoreBlocks
  <2>3. Remaining = k
    BY <1>13, <2>1 DEF Remaining
  <2> HIDE DEF r, k
  <2>4. CASE fallback' = 0
    <3>1. Size(fallback') = 0
      BY <2>4 DEF Size
    <3> QED  BY <2>2, <3>1 DEF r
  <2>5. CASE fallback' # 0
    <3>1. fallback' = t * k * Block /\ Block \in Nat
      BY <1>3, <2>3, <2>5, WholeBlocks DEF t
    <3>2. fallback' = k * Block \/ fallback' = -(k * Block)
      <4>1. CASE t = 1
        BY <2>1, <3>1, <4>1
      <4>2. CASE t = -1
        BY <2>1, <3>1, <4>2
      <4> QED  BY <1>6, <4>1, <4>2
    <3>3. Size(fallback') = k * Block
      BY <2>2, <3>2 DEF Size
    <3> QED  BY <2>2, <3>3 DEF r
  <2> QED  BY <2>4, <2>5
<1> QED  BY <1>8, <1>10, <1>11, <1>12, <1>14, <1>15 DEF IInv

(***************************************************************************)
(* fulfill_intents.                                                        *)
(***************************************************************************)
OnlyStatus(cs, bs, i, s) ==
  /\ cs \in Seq(BundleRecord) /\ DOMAIN cs = DOMAIN bs
  /\ \A c \in DOMAIN bs \ {i} : cs[c] = bs[c]
  /\ cs[i].status = s
  /\ cs[i].kind = bs[i].kind /\ cs[i].dir = bs[i].dir /\ cs[i].qty = bs[i].qty
  /\ cs[i].offset = bs[i].offset /\ cs[i].closes = bs[i].closes
  /\ cs[i].open = bs[i].open /\ cs[i].target = bs[i].target
  /\ (cs[i].applied <=> bs[i].applied)

LEMMA StatusIs ==
  ASSUME NEW bs \in Seq(BundleRecord), NEW i \in DOMAIN bs, NEW s \in {"FILLED", "INCOMPLETE"}
  PROVE  OnlyStatus([bs EXCEPT ![i].status = s], bs, i, s)
<1> DEFINE r == [bs[i] EXCEPT !.status = s]
           cs == [bs EXCEPT ![i].status = s]
<1>1. bs[i] \in BundleRecord
  BY BundleIs
<1>2. /\ r \in BundleRecord /\ r.status = s
      /\ r.kind = bs[i].kind /\ r.dir = bs[i].dir /\ r.qty = bs[i].qty
      /\ r.offset = bs[i].offset /\ r.closes = bs[i].closes
      /\ r.open = bs[i].open /\ r.target = bs[i].target
      /\ (r.applied <=> bs[i].applied)
  BY <1>1 DEF BundleRecord
<1>3. cs = [bs EXCEPT ![i] = r]
  OBVIOUS
<1> HIDE DEF r
<1>4. cs \in Seq(BundleRecord) /\ DOMAIN cs = DOMAIN bs
  <2> DEFINE t == [bs EXCEPT ![i] = r]
  <2>1. t \in Seq(BundleRecord) /\ DOMAIN t = DOMAIN bs
    BY <1>2, SeqExcept
  <2> HIDE DEF t, cs
  <2>2. cs = t
    BY <1>3 DEF t
  <2> QED  BY <2>1, <2>2
<1>5. cs[i] = r /\ \A c \in DOMAIN bs \ {i} : cs[c] = bs[c]
  BY <1>3
<1> HIDE DEF cs
<1>6. OnlyStatus(cs, bs, i, s)
  BY <1>2, <1>4, <1>5 DEF OnlyStatus
<1> QED  BY <1>6 DEF cs

(* A bundle that trades opens a lot if it is an arbitrage, and closes its  *)
(* offset in the lots of the other direction.                              *)
LEMMA TradeIs ==
  ASSUME IInv, NEW i \in Working, Traded(i)
  PROVE  LET b == bundles[i]
             bs == [bundles EXCEPT ![i].status = "FILLED"]
             extra == IF b.kind = "ARB" THEN b.open ELSE 0
         IN  /\ Alike(bundles', bs)
             /\ \A c \in DOMAIN bundles : ~MustClose(bundles', c)
             /\ \A c \in DOMAIN bundles \ {i} : bundles'[c].applied <=> bundles[c].applied
             /\ OpenQuantity(bundles', Lots(bundles', b.dir))
                  = OpenQuantity(bundles, Lots(bundles, b.dir)) + extra
             /\ OpenQuantity(bundles', Lots(bundles', -b.dir))
                  = AtLeastZero(OpenQuantity(bundles, Lots(bundles, -b.dir)) - b.offset)
<1> DEFINE b == bundles[i]
           bs == [bundles EXCEPT ![i].status = "FILLED"]
           extra == IF b.kind = "ARB" THEN b.open ELSE 0
           d == b.dir
           M == Lots(bundles, -d)
           N == Lots(bundles, d)
           N2 == IF b.kind = "ARB" THEN N \cup {i} ELSE N
           L == LotsFor(bs, i)
           us == Consume(bs, L, b.offset)
           cs == Close(bs, i, b.offset)
<1>1. bundles \in Seq(BundleRecord) /\ i \in DOMAIN bundles /\ b.status = "PLANNED"
  BY DEF IInv, TypeOK, Working
<1>2. b \in BundleRecord
  BY <1>1, BundleIs
<1>3. d \in Directions /\ b.offset \in Nat /\ b.qty \in Nat /\ b.open \in Nat /\ b.target \in Nat
  BY <1>2 DEF BundleRecord
<1>4. -d \in Directions /\ -d # d /\ -d # 0
  BY <1>3, DirectionIs
<1>5. /\ bs \in Seq(BundleRecord) /\ DOMAIN bs = DOMAIN bundles
      /\ \A c \in DOMAIN bundles \ {i} : bs[c] = bundles[c]
      /\ bs[i].status = "FILLED" /\ bs[i].kind = b.kind /\ bs[i].dir = d
      /\ bs[i].offset = b.offset /\ bs[i].closes = b.closes
      /\ bs[i].open = b.open /\ bs[i].target = b.target /\ (bs[i].applied <=> b.applied)
  <2>1. OnlyStatus(bs, bundles, i, "FILLED")
    BY <1>1, StatusIs
  <2> HIDE DEF bs
  <2> QED  BY <2>1 DEF OnlyStatus
<1>6. /\ b.closes = IF b.offset > 0 THEN -d ELSE 0
      /\ ~b.applied
      /\ b.kind \notin {"ARB", "TENDER"} => b.offset = b.qty
      /\ IF b.kind = "EXIT" THEN b.target \in M ELSE b.target = 0
      /\ \A c \in DOMAIN bundles : ~MustClose(bundles, c)
  BY <1>1 DEF IInv, BundlesInShape
<1>7. b.kind = "EXIT" => bundles[b.target].open >= b.qty
  BY DEF IInv, ExitFindsItsLot
<1>8. bundles' = ApplyInventoryCloses(bs)
  BY DEF Traded
<1> HIDE DEF bs
<1>9. /\ \A c \in DOMAIN bs \ {i} : ~MustClose(bs, c)
      /\ MustClose(bs, i) <=> b.offset > 0
  BY <1>1, <1>3, <1>4, <1>5, <1>6 DEF MustClose
<1>10. Lots(bs, -d) = M /\ Lots(bs, d) = N2 /\ i \notin M /\ i \notin N /\ M \cap N2 = {}
  BY <1>1, <1>4, <1>5 DEF Lots
<1>11. /\ M \in SUBSET DOMAIN bs /\ N \in SUBSET DOMAIN bundles /\ N2 \in SUBSET DOMAIN bs
       /\ M \in SUBSET DOMAIN bundles
  BY <1>1, <1>5 DEF Lots
<1> HIDE DEF M, N
<1>12. OpenQuantity(bs, M) = OpenQuantity(bundles, M)
  <2>1. \A c \in M : bs[c].open = bundles[c].open
    BY <1>5, <1>10, <1>11
  <2> QED  BY <1>1, <1>5, <1>11, <2>1, SameOpen
<1>13. OpenQuantity(bs, N2) = OpenQuantity(bundles, N) + extra
  <2>1. OpenQuantity(bs, N) = OpenQuantity(bundles, N)
    <3>1. \A c \in N : bs[c].open = bundles[c].open
      BY <1>5, <1>10, <1>11
    <3> QED  BY <1>1, <1>5, <1>11, <3>1, SameOpen
  <2>2. OpenQuantity(bundles, N) \in Nat
    BY <1>1, <1>11, OpenIsNat
  <2>3. CASE b.kind = "ARB"
    <3>1. OpenQuantity(bs, N \cup {i}) = bs[i].open + OpenQuantity(bs, N)
      BY <1>1, <1>5, <1>10, <1>11, OpenAdds
    <3> QED  BY <1>3, <1>5, <2>1, <2>2, <2>3, <3>1
  <2>4. CASE b.kind # "ARB"
    BY <2>1, <2>2, <2>4
  <2> QED  BY <2>3, <2>4
<1> DEFINE m == OpenQuantity(bundles, M)
<1>14. m \in Nat
  BY <1>1, <1>11, OpenIsNat
<1>15. CASE ~(b.offset > 0)
  <2>1. bundles' = bs
    BY <1>5, <1>8, <1>9, <1>15, NothingCloses
  <2>2. Alike(bundles', bs) /\ \A c \in DOMAIN bundles : ~MustClose(bundles', c)
    BY <1>5, <1>9, <1>15, <2>1 DEF Alike
  <2>3. \A c \in DOMAIN bundles \ {i} : bundles'[c].applied <=> bundles[c].applied
    BY <1>5, <2>1
  <2>4. OpenQuantity(bundles', Lots(bundles', d)) = OpenQuantity(bundles, N) + extra
    BY <1>10, <1>13, <2>1
  <2>5. OpenQuantity(bundles', Lots(bundles', -d)) = m
    BY <1>10, <1>12, <2>1
  <2>6. AtLeastZero(m - b.offset) = m
    <3> HIDE DEF m
    <3> QED  BY <1>3, <1>14, <1>15 DEF AtLeastZero
  <2> QED  BY <2>2, <2>3, <2>4, <2>5, <2>6 DEF bs, M, N
<1>16. CASE b.offset > 0
  <2>1. bundles' = cs
    BY <1>1, <1>5, <1>8, <1>9, <1>16, OneCloses
  <2>2. /\ Alike(cs, bs) /\ us \in Seq(BundleRecord) /\ DOMAIN us = DOMAIN bs
        /\ \A c \in DOMAIN bs : cs[c].open = us[c].open
        /\ cs[i].applied /\ \A c \in DOMAIN bs \ {i} : cs[c].applied = bs[c].applied
    BY <1>1, <1>5, CloseIs
  <2> HIDE DEF cs
  <2>3. \A c \in DOMAIN bundles : ~MustClose(cs, c)
    <3>1. \A c \in DOMAIN bs \ {i} : cs[c].status = bs[c].status /\ cs[c].closes = bs[c].closes
      BY <2>2 DEF Alike
    <3> QED  BY <1>5, <1>9, <2>2, <3>1 DEF MustClose
  <2>4. \A c \in DOMAIN bundles \ {i} : cs[c].applied <=> bundles[c].applied
    BY <1>5, <2>2
  <2>5. L = {j \in M : b.target \in {0, j}} /\ L \in SUBSET DOMAIN bs
    BY <1>5, <1>6, <1>10, <1>11, <1>16 DEF LotsFor
  <2> HIDE DEF L, us
  <2>6. ASSUME NEW S \in SUBSET DOMAIN bs PROVE OpenQuantity(cs, S) = OpenQuantity(us, S)
    <3>1. cs \in Seq(BundleRecord) /\ DOMAIN cs = DOMAIN bs
      BY <2>2 DEF Alike
    <3>2. \A c \in S : cs[c].open = us[c].open
      BY <2>2
    <3> QED  BY <2>2, <3>1, <3>2, SameOpen
  <2>7. \A c \in DOMAIN bs \ L : us[c] = bs[c]
    <3>1. b.offset \in Int
      BY <1>3
    <3> QED  BY <1>5, <2>5, <3>1, ConsumeType, ZenonT(30) DEF us
  <2>8. OpenQuantity(us, N2) = OpenQuantity(bs, N2)
    <3>1. \A c \in N2 : us[c].open = bs[c].open
      BY <1>10, <1>11, <2>5, <2>7
    <3> QED  BY <1>5, <1>11, <2>2, <3>1, SameOpen
  <2>9. OpenQuantity(us, L) = AtLeastZero(OpenQuantity(bs, L) - b.offset)
    BY <1>3, <1>5, <2>5, ConsumeTakes DEF us
  <2>10. OpenQuantity(us, M) = AtLeastZero(m - b.offset)
    <3>1. CASE b.kind # "EXIT"
      <4>1. L = M
        BY <1>6, <2>5, <3>1
      <4> QED  BY <1>12, <2>9, <4>1
    <3>2. CASE b.kind = "EXIT"
      <4> DEFINE x == b.target
                 R == M \ {x}
      <4>1. x \in M /\ b.offset = b.qty /\ bundles[x].open >= b.qty
        BY <1>6, <1>7, <3>2
      <4>2. L = {x} /\ x # 0
        <5>1. x # 0
          BY <1>1, <1>11, <4>1
        <5> QED  BY <2>5, <4>1, <5>1
      <4>3. /\ OpenQuantity(us, M) = us[x].open + OpenQuantity(us, R)
            /\ OpenQuantity(bs, M) = bs[x].open + OpenQuantity(bs, R)
            /\ OpenQuantity(us, {x}) = us[x].open + OpenQuantity(us, {})
            /\ OpenQuantity(bs, {x}) = bs[x].open + OpenQuantity(bs, {})
            /\ OpenQuantity(us, {}) = 0 /\ OpenQuantity(bs, {}) = 0
        <5>1. AddsUp(us, DOMAIN bs) /\ AddsUp(bs, DOMAIN bs)
          BY <1>5, <2>2, OpenIs, Zenon
        <5>2. x \in DOMAIN bs /\ {x} \in SUBSET DOMAIN bs /\ {x} \ {x} = {} /\ x \in {x}
          BY <1>11, <4>1
        <5> HIDE DEF x
        <5> QED  BY <1>11, <4>1, <5>1, <5>2, Zenon DEF AddsUp
      <4>4. OpenQuantity(us, R) = OpenQuantity(bs, R) /\ OpenQuantity(bs, R) \in Nat
        <5>1. R \in SUBSET DOMAIN bs /\ \A c \in R : us[c].open = bs[c].open
          BY <1>11, <2>7, <4>2
        <5> QED  BY <1>5, <2>2, <5>1, SameOpen, OpenIsNat
      <4>5. bs[x].open \in Nat /\ us[x].open \in Nat /\ bs[x].open >= b.offset
        <5>1. x \in DOMAIN bs /\ bs[x].open = bundles[x].open
          BY <1>5, <1>10, <1>11, <4>1
        <5>2. us[x].open \in Nat /\ bs[x].open \in Nat
          BY <1>5, <2>2, <5>1, BundleIs
        <5> QED  BY <4>1, <5>1, <5>2
      <4>6. us[x].open = bs[x].open - b.offset
        <5>1. us[x].open = AtLeastZero(bs[x].open - b.offset)
          BY <2>9, <4>2, <4>3, <4>5
        <5> QED  BY <1>3, <4>5, <5>1 DEF AtLeastZero
      <4> HIDE DEF R, x
      <4>7. OpenQuantity(us, M) = m - b.offset /\ m - b.offset >= 0
        BY <1>3, <1>12, <4>3, <4>4, <4>5, <4>6
      <4> HIDE DEF m
      <4> QED  BY <1>3, <1>14, <4>7 DEF AtLeastZero
    <3> QED  BY <3>1, <3>2
  <2>11. Lots(cs, -d) = M /\ Lots(cs, d) = N2
    BY <1>10, <2>2, AlikeLots
  <2>12. OpenQuantity(cs, M) = AtLeastZero(m - b.offset)
    BY <1>11, <2>6, <2>10
  <2>13. OpenQuantity(cs, N2) = OpenQuantity(bundles, N) + extra
    BY <1>11, <1>13, <2>6, <2>8
  <2> HIDE DEF N2
  <2> QED  BY <2>1, <2>2, <2>3, <2>4, <2>11, <2>12, <2>13 DEF bs, M, N
<1> QED  BY <1>15, <1>16

LEMMA FulfilEnds ==
  ASSUME IInv, pc = "FULFIL", pc' = "IDLE",
         UNCHANGED <<reconciled, window, suppressed, blocked, fallback, reducing,
                     offer, conversions, instructed>>,
         account' \in Int, position' \in Int, bundles' \in Seq(BundleRecord),
         window.open => UNCHANGED account,
         BundlesInShape', Working' \subseteq Working, ExitFindsItsLot',
         instructed => Backed' /\ OffsetsInventory'
  PROVE  IInv'
<1>1. TypeOK'
  BY DEF IInv, TypeOK
<1>2. OneThingAtATime'
  BY DEF IInv, OneThingAtATime
<1>3. instructed' => ConversionsBooked'
  BY DEF IInv, ConversionsBooked
<1>4. FallbackOnlyForRemainder'
  BY DEF IInv, FallbackOnlyForRemainder
<1> QED  BY <1>1, <1>2, <1>3, <1>4 DEF IInv

(* With one bundle settled, there is none to work and all are in shape.    *)
LEMMA SettledInShape ==
  ASSUME IInv, NEW i \in Working, NEW s \in {"FILLED", "INCOMPLETE"},
         Alike(bundles', [bundles EXCEPT ![i].status = s]),
         \A c \in DOMAIN bundles : ~MustClose(bundles', c)
  PROVE  BundlesInShape' /\ Working' = {} /\ bundles' \in Seq(BundleRecord)
<1> DEFINE bs == [bundles EXCEPT ![i].status = s]
<1>1. bundles \in Seq(BundleRecord) /\ i \in DOMAIN bundles
  BY DEF IInv, TypeOK, Working
<1>2. /\ bs \in Seq(BundleRecord) /\ DOMAIN bs = DOMAIN bundles
      /\ \A c \in DOMAIN bundles \ {i} : bs[c] = bundles[c]
      /\ bs[i].status = s
      /\ bs[i].kind = bundles[i].kind /\ bs[i].dir = bundles[i].dir
      /\ bs[i].qty = bundles[i].qty /\ bs[i].offset = bundles[i].offset
      /\ bs[i].closes = bundles[i].closes /\ bs[i].target = bundles[i].target
  <2>1. OnlyStatus(bs, bundles, i, s)
    BY <1>1, StatusIs, Zenon
  <2> HIDE DEF bs
  <2> QED  BY <2>1 DEF OnlyStatus
<1> HIDE DEF bs
<1>3. Alike(bundles', bs)
  BY DEF bs
<1>4. DOMAIN bundles' = DOMAIN bundles /\ bundles' \in Seq(BundleRecord)
  BY <1>2, <1>3 DEF Alike
<1>5. ASSUME NEW c \in DOMAIN bundles
      PROVE  /\ bundles'[c].kind = bundles[c].kind /\ bundles'[c].dir = bundles[c].dir
             /\ bundles'[c].qty = bundles[c].qty /\ bundles'[c].offset = bundles[c].offset
             /\ bundles'[c].closes = bundles[c].closes /\ bundles'[c].target = bundles[c].target
             /\ bundles'[c].status = IF c = i THEN s ELSE bundles[c].status
  BY <1>2, <1>3 DEF Alike
<1>6. \A c \in DOMAIN bundles \ {i} : bundles[c].status # "PLANNED"
  BY DEF IInv, OneThingAtATime, Working
<1>7. \A c \in DOMAIN bundles : bundles'[c].status # "PLANNED"
  BY <1>5, <1>6
<1>8. Working' = {}
  BY <1>4, <1>7 DEF Working
<1>9. \A e : Lots(bundles, e) \subseteq Lots(bundles', e)
  <2>1. i \notin {c \in DOMAIN bundles : bundles[c].status = "FILLED"}
    BY DEF Working
  <2> QED  BY <1>4, <1>5, <2>1 DEF Lots
<1>10. ASSUME NEW c \in DOMAIN bundles'
       PROVE  LET b == bundles'[c]
              IN  /\ b.closes = IF b.offset > 0 THEN -b.dir ELSE 0
                  /\ ~MustClose(bundles', c) /\ (b.status = "PLANNED" => ~b.applied)
                  /\ b.kind = "ARB" /\ b.status = "PLANNED" => b.open = b.qty - b.offset
                  /\ b.kind \notin {"ARB", "TENDER"} => b.offset = b.qty
                  /\ IF b.kind = "EXIT" THEN b.target \in Lots(bundles', -b.dir) ELSE b.target = 0
  <2>1. c \in DOMAIN bundles
    BY <1>4
  <2>2. LET b == bundles[c]
        IN  /\ b.closes = IF b.offset > 0 THEN -b.dir ELSE 0
            /\ b.kind \notin {"ARB", "TENDER"} => b.offset = b.qty
            /\ IF b.kind = "EXIT" THEN b.target \in Lots(bundles, -b.dir) ELSE b.target = 0
    BY <2>1 DEF IInv, BundlesInShape
  <2> QED  BY <1>5, <1>7, <1>9, <2>1, <2>2
<1> QED  BY <1>4, <1>8, <1>10 DEF BundlesInShape

LEMMA DropKeeps ==
  ASSUME IInv, NEW i \in Working, Dropped(i)
  PROVE  /\ BundlesInShape' /\ Working' = {} /\ bundles' \in Seq(BundleRecord)
         /\ UNCHANGED <<account, window, offer>> => (Backed => Backed')
<1> DEFINE bs == [bundles EXCEPT ![i].status = "INCOMPLETE"]
<1>1. bundles \in Seq(BundleRecord) /\ i \in DOMAIN bundles /\ bundles[i].status = "PLANNED"
  BY DEF IInv, TypeOK, Working
<1>2. /\ bs \in Seq(BundleRecord) /\ DOMAIN bs = DOMAIN bundles
      /\ \A c \in DOMAIN bundles \ {i} : bs[c] = bundles[c]
      /\ bs[i].status = "INCOMPLETE" /\ bs[i].open = bundles[i].open
  <2>1. OnlyStatus(bs, bundles, i, "INCOMPLETE")
    BY <1>1, StatusIs
  <2> HIDE DEF bs
  <2> QED  BY <2>1 DEF OnlyStatus
<1>3. bundles' = ApplyInventoryCloses(bs)
  BY DEF Dropped
<1> HIDE DEF bs
<1>4. \A c \in DOMAIN bs : ~MustClose(bs, c)
  <2>1. \A c \in DOMAIN bundles : ~MustClose(bundles, c)
    BY DEF IInv, BundlesInShape
  <2> QED  BY <1>2, <2>1 DEF MustClose
<1>5. bundles' = bs
  BY <1>2, <1>3, <1>4, NothingCloses
<1>6. Alike(bundles', bs)
  BY <1>2, <1>5 DEF Alike
<1>7. BundlesInShape' /\ Working' = {} /\ bundles' \in Seq(BundleRecord)
  BY <1>2, <1>4, <1>5, <1>6, SettledInShape DEF bs
<1>8. ASSUME NEW e PROVE OpenQuantity(bundles', Lots(bundles', e)) = OpenQuantity(bundles, Lots(bundles, e))
  <2>1. Lots(bs, e) = Lots(bundles, e) /\ Lots(bundles, e) \in SUBSET DOMAIN bundles
    BY <1>1, <1>2 DEF Lots
  <2>2. \A c \in Lots(bundles, e) : bs[c].open = bundles[c].open
    BY <1>2, <2>1
  <2>3. OpenQuantity(bs, Lots(bundles, e)) = OpenQuantity(bundles, Lots(bundles, e))
    BY <1>1, <1>2, <2>1, <2>2, SameOpen
  <2> QED  BY <1>5, <2>1, <2>3
<1>9. UNCHANGED <<account, window, offer>> => (Backed => Backed')
  BY <1>8 DEF Backed, Unconfirmed
<1> QED  BY <1>7, <1>9

LEMMA TradeBacks ==
  ASSUME NEW a \in Int, NEW q \in Nat, NEW o \in Nat, NEW n \in Nat, NEW m \in Nat, NEW x \in Nat,
         n <= AtLeastZero(a), m <= AtLeastZero(-a),
         \/ o = Least(q, AtLeastZero(-a)) /\ x \in {0, q - o}
         \/ o = q /\ x = 0
  PROVE  n + x <= AtLeastZero(a + q) /\ AtLeastZero(m - o) <= AtLeastZero(-(a + q))
BY DEF AtLeastZero, Least

LEMMA TradeKeeps ==
  ASSUME IInv, NEW i \in Working, Traded(i), UNCHANGED <<window, offer>>
  PROVE  /\ BundlesInShape' /\ Working' = {} /\ bundles' \in Seq(BundleRecord)
         /\ account' \in Int /\ position' \in Int
         /\ Backed /\ OffsetsInventory => Backed'
<1> DEFINE b == bundles[i]
           extra == IF b.kind = "ARB" THEN b.open ELSE 0
           d == b.dir
           n == OpenQuantity(bundles, Lots(bundles, d))
           m == OpenQuantity(bundles, Lots(bundles, -d))
           a == d * account
<1>1. bundles \in Seq(BundleRecord) /\ i \in DOMAIN bundles /\ b.status = "PLANNED"
  BY DEF IInv, TypeOK, Working
<1>2. b \in BundleRecord
  BY <1>1, BundleIs
<1>3. /\ d \in Directions /\ b.offset \in Nat /\ b.qty \in Nat /\ b.open \in Nat
      /\ b.kind \in {"ARB", "TENDER", "EXIT", "REDUCE", "FALLBACK"}
  BY <1>2 DEF BundleRecord
<1>4. d \in {1, -1} /\ -d \in Directions /\ \A e \in Directions : e = d \/ e = -d
  BY <1>3, DirectionIs DEF Directions
<1>5. account \in Int /\ position \in Int
  BY DEF IInv, TypeOK
<1>6. account' = account + d * b.qty /\ position' = position + d * b.qty
  BY DEF Traded
<1>7. /\ Alike(bundles', [bundles EXCEPT ![i].status = "FILLED"])
      /\ \A c \in DOMAIN bundles : ~MustClose(bundles', c)
      /\ OpenQuantity(bundles', Lots(bundles', d)) = n + extra
      /\ OpenQuantity(bundles', Lots(bundles', -d)) = AtLeastZero(m - b.offset)
  BY TradeIs
<1>8. BundlesInShape' /\ Working' = {} /\ bundles' \in Seq(BundleRecord)
  BY <1>7, SettledInShape
<1>9. n \in Nat /\ m \in Nat
  <2>1. Lots(bundles, d) \in SUBSET DOMAIN bundles /\ Lots(bundles, -d) \in SUBSET DOMAIN bundles
    BY DEF Lots
  <2> QED  BY <1>1, <2>1, OpenIsNat
<1>10. /\ b.kind = "ARB" => b.open = b.qty - b.offset
       /\ b.kind \notin {"ARB", "TENDER"} => b.offset = b.qty
  BY <1>1 DEF IInv, BundlesInShape
<1>11. /\ a \in Int /\ -d * account = -a /\ (-d) * account = -a
       /\ d * account' = a + b.qty /\ (-d) * account' = -(a + b.qty)
  <2> HIDE DEF d
  <2>1. CASE d = 1
    BY <1>3, <1>5, <1>6, <2>1
  <2>2. CASE d = -1
    BY <1>3, <1>5, <1>6, <2>2
  <2> QED  BY <1>4, <2>1, <2>2
<1>12. account' \in Int /\ position' \in Int
  <2> HIDE DEF d
  <2>1. d * b.qty \in Int
    BY <1>3, <1>4
  <2> QED  BY <1>5, <1>6, <2>1
<1>13. ASSUME Backed, OffsetsInventory PROVE Backed'
  <2>1. Working # {} /\ ~window.open
    BY DEF IInv, OneThingAtATime
  <2>2. \A e : Unconfirmed(e) = 0 /\ Unconfirmed(e)' = 0
    BY <2>1 DEF Unconfirmed
  <2>3. n <= AtLeastZero(a) /\ m <= AtLeastZero(-a)
    <3>1. \A e \in Directions : OpenQuantity(bundles, Lots(bundles, e)) - 0 <= AtLeastZero(e * account)
      BY <1>13, <2>2 DEF Backed
    <3>2. n - 0 <= AtLeastZero(d * account) /\ m - 0 <= AtLeastZero((-d) * account)
      BY <1>3, <1>4, <3>1
    <3> HIDE DEF n, m, a, d
    <3> QED  BY <1>9, <1>11, <3>2 DEF a
  <2>4. \/ b.offset = Least(b.qty, AtLeastZero(-a)) /\ extra \in {0, b.qty - b.offset}
        \/ b.offset = b.qty /\ extra = 0
    <3>1. CASE b.kind \in {"ARB", "TENDER"}
      <4>1. b.offset = Least(b.qty, AtLeastZero(-d * account))
        BY <1>13, <3>1 DEF OffsetsInventory, Opposing
      <4>2. extra \in {0, b.qty - b.offset}
        BY <1>10
      <4> HIDE DEF a, extra, b
      <4> QED  BY <1>11, <4>1, <4>2
    <3>2. CASE b.kind \notin {"ARB", "TENDER"}
      BY <1>10, <3>2
    <3> QED  BY <3>1, <3>2
  <2>5. extra \in Nat
    BY <1>3
  <2> HIDE DEF extra, n, m, a
  <2>6. n + extra <= AtLeastZero(a + b.qty) /\ AtLeastZero(m - b.offset) <= AtLeastZero(-(a + b.qty))
    BY <1>3, <1>9, <1>11, <2>3, <2>4, <2>5, TradeBacks
  <2>7. n + extra \in Int /\ AtLeastZero(m - b.offset) \in Int
    BY <1>3, <1>9, <2>5 DEF AtLeastZero
  <2>8. ASSUME NEW e \in Directions
        PROVE  OpenQuantity(bundles', Lots(bundles', e)) - Unconfirmed(e)' <= AtLeastZero(e * account')
    <3>1. CASE e = d
      BY <1>7, <1>11, <2>2, <2>6, <2>7, <3>1
    <3>2. CASE e = -d
      <4> DEFINE k == OpenQuantity(bundles', Lots(bundles', -d))
                 l == AtLeastZero(m - b.offset)
      <4>1. k = l /\ l \in Int /\ l <= AtLeastZero(-(a + b.qty))
        BY <1>7, <2>6, <2>7
      <4>2. AtLeastZero((-d) * account') = AtLeastZero(-(a + b.qty))
        BY <1>11
      <4>3. k - 0 <= AtLeastZero((-d) * account')
        <5> HIDE DEF k, l, d, b
        <5> QED  BY <4>1, <4>2
      <4> HIDE DEF d
      <4> QED  BY <2>2, <3>2, <4>3
    <3> QED  BY <1>4, <3>1, <3>2
  <2> QED  BY <2>8 DEF Backed
<1> QED  BY <1>8, <1>12, <1>13

LEMMA FulfilKeeps ==
  ASSUME IInv, Fulfil
  PROVE  IInv'
<1>1. /\ pc = "FULFIL" /\ pc' = "IDLE"
      /\ UNCHANGED <<reconciled, window, suppressed, blocked, fallback, reducing,
                     offer, conversions, instructed>>
  BY DEF Fulfil
<1>2. account \in Int /\ position \in Int /\ bundles \in Seq(BundleRecord)
  BY DEF IInv, TypeOK
<1>3. instructed => Backed /\ OffsetsInventory
  BY DEF IInv
<1>4. window.open => Working = {}
  BY DEF IInv, OneThingAtATime
<1>5. ASSUME NEW i \in Working, Traded(i) PROVE IInv'
  <2>1. /\ BundlesInShape' /\ Working' = {} /\ bundles' \in Seq(BundleRecord)
        /\ account' \in Int /\ position' \in Int
        /\ Backed /\ OffsetsInventory => Backed'
    BY <1>1, <1>5, TradeKeeps
  <2>2. ExitFindsItsLot' /\ OffsetsInventory'
    BY <2>1 DEF ExitFindsItsLot, OffsetsInventory
  <2> QED  BY <1>1, <1>3, <1>4, <2>1, <2>2, FulfilEnds
<1>6. ASSUME NEW i \in Working, Dropped(i), UNCHANGED <<account, position>> PROVE IInv'
  <2>1. /\ BundlesInShape' /\ Working' = {} /\ bundles' \in Seq(BundleRecord)
        /\ Backed => Backed'
    BY <1>1, <1>6, DropKeeps
  <2>2. ExitFindsItsLot' /\ OffsetsInventory'
    BY <2>1 DEF ExitFindsItsLot, OffsetsInventory
  <2> QED  BY <1>1, <1>2, <1>3, <1>6, <2>1, <2>2, FulfilEnds
<1>7. ASSUME bundles' = ApplyInventoryCloses(bundles), UNCHANGED <<account, position>> PROVE IInv'
  <2>1. \A c \in DOMAIN bundles : ~MustClose(bundles, c)
    BY DEF IInv, BundlesInShape
  <2>2. UNCHANGED bundles
    BY <1>2, <1>7, <2>1, NothingCloses
  <2>3. /\ BundlesInShape' /\ Working' = Working /\ ExitFindsItsLot'
        /\ OffsetsInventory => OffsetsInventory'
    BY <1>7, <2>2, BundlesKept DEF IInv
  <2>4. Backed => Backed'
    BY <1>1, <1>7, <2>2, BookedKept
  <2> QED  BY <1>1, <1>2, <1>3, <1>7, <2>2, <2>3, <2>4, FulfilEnds
<1> QED  BY <1>5, <1>6, <1>7 DEF Fulfil, Dropped

(***************************************************************************)
(* The theorems.                                                           *)
(***************************************************************************)
LEMMA InitHolds ==
  ASSUME Init
  PROVE  IInv
<1> USE DEF Init
<1>1. bundles = <<>> /\ DOMAIN bundles = {} /\ bundles \in Seq(BundleRecord)
  OBVIOUS
<1>2. /\ NoWindow \in [open : BOOLEAN, blocks : Nat, base : Int, confirmed : Nat, overdue : BOOLEAN]
      /\ NoWindow.open = FALSE
      /\ NoOffer \in [blocks : Nat, done : Nat, inTime : Nat]
      /\ NoOffer.blocks = 0 /\ NoOffer.done = 0 /\ NoOffer.inTime = 0
  BY DEF NoWindow, NoOffer
<1>3. TypeOK
  <2>1. reconciled \in BOOLEAN /\ blocked \in BOOLEAN /\ reducing \in BOOLEAN /\ instructed \in BOOLEAN
    BY Zenon
  <2>2. /\ pc = "IDLE" /\ account = 0 /\ position = 0 /\ window = NoWindow /\ suppressed = {}
        /\ fallback = 0 /\ offer = NoOffer /\ conversions = 0
    OBVIOUS
  <2> HIDE DEF Init
  <2> QED  BY <1>1, <1>2, <2>1, <2>2 DEF TypeOK
<1>4. Working = {}
  BY <1>1 DEF Working
<1>5. BundlesInShape /\ ExitFindsItsLot /\ OffsetsInventory
  BY <1>1, <1>4 DEF BundlesInShape, ExitFindsItsLot, OffsetsInventory
<1>6. OneThingAtATime
  BY <1>2, <1>4 DEF OneThingAtATime
<1>7. ConversionsBooked
  BY <1>2 DEF ConversionsBooked
<1>8. Backed
  <2>1. \A d : Lots(bundles, d) = {} /\ Unconfirmed(d) = 0
    BY <1>1, <1>2 DEF Lots, Unconfirmed
  <2>2. OpenQuantity(bundles, {}) = 0
    BY <1>1, OpenIs DEF AddsUp
  <2>3. \A d \in Directions : d * account = 0
    BY DEF Directions
  <2>4. AtLeastZero(0) = 0 /\ 0 - 0 <= 0
    BY DEF AtLeastZero
  <2>5. \A d \in Directions :
          OpenQuantity(bundles, Lots(bundles, d)) - Unconfirmed(d) <= AtLeastZero(d * account)
    <3> HIDE DEF Init
    <3> QED  BY <2>1, <2>2, <2>3, <2>4
  <2> HIDE DEF Init
  <2> QED  BY <2>5, Zenon DEF Backed
<1>9. FallbackOnlyForRemainder
  <2>1. 0 * Block = 0
    BY WholeBlocks
  <2> QED  BY <1>2, <2>1 DEF FallbackOnlyForRemainder, Size
<1> QED  BY <1>3, <1>5, <1>6, <1>7, <1>8, <1>9 DEF IInv

LEMMA StepKeeps ==
  ASSUME IInv, [Next]_vars
  PROVE  IInv'
<1>1. CASE ReadPositions
  BY <1>1, ReadsKeep
<1>2. CASE NothingToProgress
  BY <1>2, NothingKeeps
<1>3. CASE AbortConversion
  BY <1>3, AbortKeeps
<1>4. CASE ConfirmConversion
  BY <1>4, ConfirmKeeps
<1>5. CASE MissingQuotes \/ NoPlan
  BY <1>5, NoQuotesKeep
<1>6. CASE \/ FallBack
           \/ \E d \in Directions, q \in 1..MaxInventory : AcceptTender(d, q)
           \/ \E i \in DOMAIN bundles, q \in 1..MaxInventory : ConvergenceExit(i, q)
           \/ \E q \in 1..OrderQty : ReduceInventory(q)
           \/ \E d \in Directions, q \in 1..OrderQty : OpenArbitrage(d, q)
  BY <1>6, DecisionsKeep
<1>7. CASE \E n \in 1..MaxBlocks : StartManualConverter(n)
  BY <1>7, StartKeeps
<1>8. CASE Fulfil
  BY <1>8, FulfilKeeps
<1>9. CASE DeadlinePasses
  BY <1>9, DeadlineKeeps
<1>10. CASE \E n \in 1..MaxBlocks + 1 : PersonConverts(n)
  BY <1>10, ConvertsKeep
<1>11. CASE UNCHANGED vars
  <2> USE <1>11 DEF vars
  <2>1. TypeOK'
    BY DEF IInv, TypeOK
  <2>2. BundlesInShape' /\ ExitFindsItsLot' /\ Working' = Working
    BY BundlesKept DEF IInv
  <2>3. OneThingAtATime'
    BY <2>2 DEF IInv, OneThingAtATime
  <2>4. instructed' => ConversionsBooked' /\ Backed' /\ OffsetsInventory'
    BY BundlesKept, BookedKept DEF IInv, ConversionsBooked
  <2>5. FallbackOnlyForRemainder'
    BY DEF IInv, FallbackOnlyForRemainder
  <2> QED  BY <2>1, <2>2, <2>3, <2>4, <2>5 DEF IInv
<1> HIDE DEF ReadPositions, NothingToProgress, AbortConversion, ConfirmConversion
<1> QED  BY <1>1, <1>2, <1>3, <1>4, <1>5, <1>6, <1>7, <1>8, <1>9, <1>10, <1>11 DEF Next, Program

LEMMA BackedWhenDeciding == IInv => LotsBackedByAccount
<1> SUFFICES ASSUME IInv, pc = "DECIDE", instructed, NEW d \in Directions
             PROVE  OpenQuantity(bundles, Lots(bundles, d)) <= AtLeastZero(d * position)
  BY DEF LotsBackedByAccount
<1>1. ConversionsBooked /\ Backed /\ offer.done \in Nat /\ bundles \in Seq(BundleRecord)
  BY DEF IInv, TypeOK
<1>2. position = account /\ (window.open => window.confirmed = offer.done)
  BY <1>1 DEF ConversionsBooked
<1>3. Unconfirmed(d) = 0
  <2>1. offer.done * Block \in Nat
    BY <1>1, WholeBlocks
  <2> QED  BY <1>2, <2>1 DEF Unconfirmed
<1>4. OpenQuantity(bundles, Lots(bundles, d)) \in Nat
  <2>1. Lots(bundles, d) \in SUBSET DOMAIN bundles
    BY DEF Lots
  <2> QED  BY <1>1, <2>1, OpenIsNat
<1>5. OpenQuantity(bundles, Lots(bundles, d)) - 0 <= AtLeastZero(d * account)
  BY <1>1, <1>3 DEF Backed
<1> QED  BY <1>2, <1>4, <1>5

THEOREM InvariantHolds == Spec => []IInv
<1>1. Init => IInv
  BY InitHolds
<1>2. IInv /\ [Next]_vars => IInv'
  BY StepKeeps
<1> QED  BY <1>1, <1>2, PTL DEF Spec

(* Every field keeps its type, for every size of block, order and          *)
(* inventory: bundles are bundles, what is open of them is a natural.      *)
THEOREM TypeCorrect == Spec => []TypeOK
<1>1. IInv => TypeOK
  BY DEF IInv
<1> QED  BY <1>1, InvariantHolds, PTL

(* When a cycle decides, the lots that are open in a direction are covered *)
(* by inventory of that direction: every trade, every consumption of the   *)
(* oldest lots and every confirmed conversion has been taken from them     *)
(* once (_apply_inventory_closes, apply_conversion_to_open_lots), as long   *)
(* as the person has converted what the program asked for.                 *)
THEOREM LotsAreBacked == Spec => []LotsBackedByAccount
BY InvariantHolds, BackedWhenDeciding, PTL

(* The lot that an exit targets still has open what the exit trades when   *)
(* the exit is filled: nothing else consumes lots while it waits.          *)
THEOREM ExitsFindTheirLots == Spec => []ExitFindsItsLot
<1>1. IInv => ExitFindsItsLot
  BY DEF IInv
<1> QED  BY <1>1, InvariantHolds, PTL

(* The fallback after the deadline trades no block of the offer that was   *)
(* converted in time, by a person who follows the instruction, whatever    *)
(* the polls in between do.  Such a person does not convert between the    *)
(* read of the positions and the look at the clock of the same cycle: a    *)
(* block converted in that gap, in time, is traded again by the fallback,  *)
(* which counts the blocks in the positions read before.                   *)
THEOREM FallbacksOnlyForRemainder == Spec => []FallbackOnlyForRemainder
<1>1. IInv => FallbackOnlyForRemainder
  BY DEF IInv
<1> QED  BY <1>1, InvariantHolds, PTL
=============================================================================
