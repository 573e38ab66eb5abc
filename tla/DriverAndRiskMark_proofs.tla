---------------------- MODULE DriverAndRiskMark_proofs -----------------------
(***************************************************************************)
(* The loop of case2: what the risk policy does to the gross exposure for  *)
(* every value of the portfolio, every plan, every cap and every number of *)
(* ticks, and whose state a poll of the driver trades with, for every      *)
(* number of heats.                                                        *)
(***************************************************************************)
EXTENDS RiskMark, Driver, FiniteSetTheorems, SequenceTheorems, TLAPS

(***************************************************************************)
(* The median of up to three marks is a number.                            *)
(***************************************************************************)
(* Two of three indices are at least two.                                  *)
LEMMA AtLeastTwo ==
  ASSUME NEW T \in SUBSET (1..3), NEW i \in T, NEW j \in T, i # j
  PROVE  Cardinality(T) >= 2
<1>0. IsFiniteSet(1..3)
  <2>1. 1 \in Int /\ 3 \in Int
    OBVIOUS
  <2> QED  BY <2>1, FS_Interval, Zenon
<1>1. IsFiniteSet(T)
  BY <1>0, FS_Subset
<1>2. IsFiniteSet({i, j}) /\ Cardinality({i, j}) = 2
  <2>1. IsFiniteSet({i}) /\ Cardinality({i}) = 1
    BY FS_Singleton
  <2>2. {i} \cup {j} = {i, j}
    OBVIOUS
  <2> QED  BY <2>1, <2>2, FS_AddElement
<1>3. Cardinality({i, j}) <= Cardinality(T)
  BY <1>1, FS_Subset
<1>4. Cardinality(T) \in Nat
  BY <1>1, FS_CardinalityType
<1> QED  BY <1>2, <1>3, <1>4

(* Of three marks one is between the other two.                            *)
LEMMA MedianExists ==
  ASSUME NEW h \in [1..3 -> Int]
  PROVE  \E m \in {h[1], h[2], h[3]} :
           /\ Cardinality({i \in 1..3 : h[i] <= m}) >= 2
           /\ Cardinality({i \in 1..3 : h[i] >= m}) >= 2
<1>1. PICK j \in 1..3, k \in 1..3, l \in 1..3 :
        /\ j # k /\ k # l
        /\ h[j] <= h[k] /\ h[k] <= h[l]
  <2>1. h[1] \in Int /\ h[2] \in Int /\ h[3] \in Int
    OBVIOUS
  <2>2. CASE h[1] <= h[2] /\ h[2] <= h[3]  BY <2>2
  <2>3. CASE h[1] <= h[3] /\ h[3] <= h[2]  BY <2>3
  <2>4. CASE h[2] <= h[1] /\ h[1] <= h[3]  BY <2>4
  <2>5. CASE h[2] <= h[3] /\ h[3] <= h[1]  BY <2>5
  <2>6. CASE h[3] <= h[1] /\ h[1] <= h[2]  BY <2>6
  <2>7. CASE h[3] <= h[2] /\ h[2] <= h[1]  BY <2>7
  <2> QED  BY <2>1, <2>2, <2>3, <2>4, <2>5, <2>6, <2>7
<1>2. h[k] \in Int /\ h[k] \in {h[1], h[2], h[3]}
  <2>1. k = 1 \/ k = 2 \/ k = 3
    OBVIOUS
  <2> QED  BY <2>1
<1>3. Cardinality({i \in 1..3 : h[i] <= h[k]}) >= 2
  <2> DEFINE T == {i \in 1..3 : h[i] <= h[k]}
  <2>1. T \in SUBSET (1..3) /\ j \in T /\ k \in T
    BY <1>1, <1>2
  <2> QED  BY <1>1, <2>1, AtLeastTwo
<1>4. Cardinality({i \in 1..3 : h[i] >= h[k]}) >= 2
  <2> DEFINE T == {i \in 1..3 : h[i] >= h[k]}
  <2>1. T \in SUBSET (1..3) /\ l \in T /\ k \in T
    BY <1>1, <1>2
  <2> QED  BY <1>1, <2>1, AtLeastTwo
<1> QED  BY <1>2, <1>3, <1>4

Marks == {h \in Seq(Int) : Len(h) <= 3}

(* update_risk_mark never compares anything but numbers.                   *)
LEMMA MedianType ==
  ASSUME NEW h \in Marks, h # <<>>
  PROVE  Median(h) \in Int
<1>1. h \in Seq(Int) /\ Len(h) \in {1, 2, 3}
  <2>1. h \in Seq(Int) /\ Len(h) <= 3
    BY DEF Marks
  <2>2. \A seq \in Seq(Int) : seq # <<>> => Len(seq) \in Nat \ {0}
    BY EmptySeq
  <2>3. Len(h) \in Nat \ {0}
    BY <2>1, <2>2
  <2>4. \A n \in Nat \ {0} : n <= 3 => n \in {1, 2, 3}
    OBVIOUS
  <2> QED  BY <2>1, <2>3, <2>4, Zenon
<1>2. CASE Len(h) = 1
  <2>1. h[1] \in Int
    BY <1>1, <1>2
  <2> QED  BY <1>2, <2>1 DEF Median
<1>3. CASE Len(h) = 2
  <2>1. h[1] \in Int /\ h[2] \in Int
    BY <1>1, <1>3
  <2> QED  BY <1>3, <2>1 DEF Median
<1>4. CASE Len(h) = 3
  <2> DEFINE Between(m) == /\ Cardinality({i \in 1..3 : h[i] <= m}) >= 2
                           /\ Cardinality({i \in 1..3 : h[i] >= m}) >= 2
             middle == CHOOSE m \in {h[1], h[2], h[3]} : Between(m)
  <2>1. h \in [1..3 -> Int]
    BY <1>1, <1>4, LenProperties
  <2>2. \E m \in {h[1], h[2], h[3]} : Between(m)
    BY <2>1, MedianExists
  <2>3. middle \in {h[1], h[2], h[3]}
    <3> HIDE DEF Between
    <3> QED  BY <2>2
  <2>4. middle \in Int
    <3> HIDE DEF middle
    <3> QED  BY <2>1, <2>3
  <2>5. Median(h) = 2 * middle
    BY <1>4 DEF Median
  <2> HIDE DEF middle
  <2> QED  BY <2>4, <2>5
<1> QED  BY <1>1, <1>2, <1>3, <1>4

(* A mark more leaves up to three of them.                                 *)
LEMMA RememberedType ==
  ASSUME NEW h \in Marks, NEW m \in Int
  PROVE  Remembered(h, m) \in Marks /\ Remembered(h, m) # <<>>
<1>1. h \in Seq(Int) /\ Len(h) <= 3 /\ Len(h) \in Nat
  BY LenProperties DEF Marks
<1>2. CASE Len(h) < 3
  <2>1. /\ Append(h, m) \in Seq(Int) /\ Append(h, m) # <<>>
        /\ Len(Append(h, m)) = Len(h) + 1
    BY <1>1, AppendProperties
  <2>2. Remembered(h, m) = Append(h, m)
    BY <1>2 DEF Remembered
  <2> QED  BY <1>1, <1>2, <2>1, <2>2 DEF Marks
<1>3. CASE ~(Len(h) < 3)
  <2>1. h # <<>>
    BY <1>1, <1>3
  <2>2. Tail(h) \in Seq(Int) /\ Len(Tail(h)) = Len(h) - 1
    BY <1>1, <2>1, HeadTailProperties
  <2>3. /\ Append(Tail(h), m) \in Seq(Int) /\ Append(Tail(h), m) # <<>>
        /\ Len(Append(Tail(h), m)) = Len(h)
    <3> DEFINE t == Tail(h)
    <3>1. t \in Seq(Int) /\ Len(t) = Len(h) - 1
      BY <2>2
    <3> HIDE DEF t
    <3>2. /\ Append(t, m) \in Seq(Int) /\ Append(t, m) # <<>>
          /\ Len(Append(t, m)) = Len(t) + 1
      BY <3>1, AppendProperties
    <3>3. Len(Append(t, m)) = Len(h)
      BY <1>1, <3>1, <3>2
    <3> USE DEF t
    <3> QED  BY <3>2, <3>3
  <2>4. Remembered(h, m) = Append(Tail(h), m)
    BY <1>3 DEF Remembered
  <2> QED  BY <1>1, <2>3, <2>4 DEF Marks
<1> QED  BY <1>2, <1>3

(***************************************************************************)
(* Types, as far as the bounds need them.                                  *)
(***************************************************************************)
Typed ==
  /\ pnl \in Int /\ baseline \in Int /\ history \in Marks
  /\ gross \in Nat /\ flight \in Nat \cup {None} /\ ceiling \in Nat

(* A plan is one of the gross exposures it may project.                    *)
LEMMA GrossType == MaxGross \in Nat /\ Grosses \subseteq Nat
<1>1. MaxGross \in Nat
  BY RiskAssumption
<1>2. 0..MaxGross \subseteq Nat
  BY <1>1
<1> QED  BY <1>1, <1>2, RiskAssumption

(* The actions that choose a plan.                                         *)
Chooses(to) ==
  AcceptTender(to) \/ ConvergenceExit(to) \/ ReduceInventory(to) \/ Arbitrage(to)

(* They put a plan on its way, and leave the marks alone.                  *)
LEMMA PlanIsOnItsWay ==
  ASSUME NEW to \in Grosses, Chooses(to)
  PROVE  ~Busy /\ flight' = to /\ UNCHANGED <<marks, gross, stuck, ceiling>>
BY DEF Chooses, AcceptTender, ConvergenceExit, ReduceInventory, Arbitrage, Decided, Plan

(* Neither does a cycle without a plan.                                    *)
LEMMA NothingPlanned ==
  NoPlan \/ Wait => UNCHANGED <<marks, gross, flight, stuck, ceiling>>
BY DEF NoPlan, Wait, Decided

(* A bundle that is done is what the exposure has become.                  *)
LEMMA Fulfilled ==
  Fulfil => /\ UNCHANGED <<marks, ceiling>>
            /\ \/ UNCHANGED <<gross, flight>>
               \/ flight # None /\ gross' = flight /\ flight' = None
               \/ gross' = gross /\ flight' = None
BY DEF Fulfil

(* The marks of a cycle: with a bundle on its way, what they were.         *)
LEMMA MarksOfCycle ==
  ASSUME Typed, NEW t \in 0..MaxTick, NEW v \in Values \cup {None}, BeginCycle(t, v)
  PROVE  /\ UNCHANGED <<gross, flight, stuck>>
         /\ pnl' \in Int /\ baseline' \in Int /\ history' \in Marks
         /\ history' = history \/ history' # <<>>
         /\ Busy => UNCHANGED <<history, drawdown, ceiling>>
         /\ ceiling' = IF drawdown' /\ ~drawdown THEN gross ELSE ceiling
         /\ guard' = LossGuard(history')
<1>1. UNCHANGED <<gross, flight, stuck>> /\ guard' = LossGuard(history')
  BY DEF BeginCycle
<1>2. v \in Int
  BY RiskAssumption DEF None
<1>3. pnl' \in Int /\ baseline' \in Int
  BY <1>2 DEF BeginCycle, UpdatePortfolioValue, Typed
<1>4. CASE ~Eligible(v, t)
  BY <1>1, <1>3, <1>4 DEF BeginCycle, UpdateRiskMark, Typed
<1>5. CASE Eligible(v, t)
  <2>1. history' = Remembered(history, pnl')
    BY <1>5 DEF BeginCycle, UpdateRiskMark
  <2>2. history' \in Marks /\ history' # <<>>
    BY <1>3, <2>1, RememberedType DEF Typed
  <2>3. ceiling' = IF drawdown' /\ ~drawdown THEN gross ELSE ceiling
    BY <1>5 DEF BeginCycle, UpdateRiskMark
  <2>4. ~Busy
    BY <1>5 DEF Eligible
  <2> QED  BY <1>1, <1>3, <2>2, <2>3, <2>4
<1> QED  BY <1>4, <1>5

LEMMA TypeHolds == Spec => []Typed
<1>1. Init => Typed
  <2>1. <<>> \in Marks
    BY EmptySeq DEF Marks
  <2> QED  BY <2>1 DEF Init, Typed, None
<1>2. Typed /\ [Next]_vars => Typed'
  <2> SUFFICES ASSUME Typed, [Next]_vars PROVE Typed'
    OBVIOUS
  <2>1. CASE \E t \in 0..MaxTick, v \in Values \cup {None} : BeginCycle(t, v)
    <3>1. PICK t \in 0..MaxTick, v \in Values \cup {None} : BeginCycle(t, v)
      BY <2>1
    <3> QED  BY <3>1, MarksOfCycle DEF Typed
  <2>2. CASE \E to \in Grosses : Chooses(to)
    <3>1. PICK to \in Grosses : Chooses(to)
      BY <2>2
    <3> QED  BY <3>1, PlanIsOnItsWay, GrossType DEF Typed, marks
  <2>3. CASE NoPlan \/ Wait
    BY <2>3, NothingPlanned DEF Typed, marks
  <2>4. CASE Fulfil
    BY <2>4, Fulfilled DEF Typed, marks
  <2>5. CASE UNCHANGED vars
    BY <2>5 DEF vars, marks, Typed
  <2> QED  BY <2>1, <2>2, <2>3, <2>4, <2>5 DEF Next, Chooses
<1> QED  BY <1>1, <1>2, PTL DEF Spec

(***************************************************************************)
(* The loss guard.                                                         *)
(***************************************************************************)
(* The flag is what another look at the same marks would make of it: so a  *)
(* cycle that may not mark cannot turn it on.                              *)
GuardSteady ==
  /\ guard => history # <<>> /\ Median(history) <= -2
  /\ ~guard => history = <<>> \/ Median(history) > -4

GuardHolds ==
  /\ GuardSteady
  /\ guard /\ flight # None => flight <= gross

(* Every drawdown has the same target, a tenth of the cap.                 *)
LEMMA TargetInDrawdown ==
  ASSUME drawdown
  PROVE  TargetGross = (MaxGross * 10) \div 100 /\ TargetGross \in Nat
<1>1. Profile = Profiles[4]
  BY DEF Profile
<1>2. Profiles[4].target = 10
  BY DEF Profiles
<1>3. TargetGross = (MaxGross * 10) \div 100
  BY <1>1, <1>2 DEF TargetGross
<1>4. MaxGross \in Nat
  BY GrossType
<1> QED  BY <1>3, <1>4

(* What a plan may carry while the guard is on.                            *)
LEMMA GuardedPlan ==
  ASSUME Typed, guard, NEW to \in Grosses, Chooses(to)
  PROVE  to <= gross
<1>1. to \in Nat /\ gross \in Nat /\ MaxGross \in Nat
  BY GrossType DEF Typed
<1>2. CASE AcceptTender(to)
  <2>1. to <= CarryCap
    BY <1>2 DEF AcceptTender
  <2>2. CarryCap = IF drawdown THEN Smaller(gross, Larger(gross, TargetGross)) ELSE gross
    BY DEF CarryCap
  <2> HIDE DEF CarryCap
  <2>3. CASE ~drawdown
    BY <2>1, <2>2, <2>3
  <2>4. CASE drawdown
    <3> DEFINE most == Larger(gross, TargetGross)
    <3>1. CarryCap = gross \/ (CarryCap = most /\ ~(gross < most))
      BY <2>2, <2>4 DEF Smaller
    <3>2. CASE gross > TargetGross
      <4>1. most = gross
        BY <3>2 DEF Larger
      <4> HIDE DEF most
      <4> QED  BY <2>1, <3>1, <4>1
    <3>3. CASE ~(gross > TargetGross)
      <4>1. CarryCap = Smaller(gross, most) /\ most = TargetGross
        BY <2>2, <2>4, <3>3 DEF Larger
      <4> HIDE DEF most
      <4>2. CarryCap = IF gross < most THEN gross ELSE most
        BY <4>1 DEF Smaller
      <4>3. ~(gross > most)
        BY <3>3, <4>1
      <4>4. TargetGross \in Int
        BY <2>4, TargetInDrawdown
      <4> QED  BY <1>1, <2>1, <4>1, <4>2, <4>3, <4>4
    <3> QED  BY <3>2, <3>3
  <2> QED  BY <2>3, <2>4
<1>3. CASE ConvergenceExit(to)
  BY <1>1, <1>3 DEF ConvergenceExit
<1>4. CASE ReduceInventory(to)
  BY <1>1, <1>4 DEF ReduceInventory
<1>5. CASE Arbitrage(to)
  BY <1>5 DEF Arbitrage, ArbPlanAllowed
<1> QED  BY <1>2, <1>3, <1>4, <1>5 DEF Chooses

LEMMA GuardSurvivesCycle ==
  ASSUME Typed, GuardHolds,
         NEW t \in 0..MaxTick, NEW v \in Values \cup {None}, BeginCycle(t, v)
  PROVE  GuardHolds'
<1>1. /\ UNCHANGED <<gross, flight>> /\ history' \in Marks
      /\ history' = history \/ history' # <<>>
      /\ flight # None => history' = history
      /\ guard' = (history' # <<>> /\ Median(history') <= -GuardThreshold)
  BY MarksOfCycle DEF Busy, LossGuard
<1>2. history' # <<>> => Median(history') \in Int
  BY <1>1, MedianType
<1>3. GuardThreshold = IF guard THEN 2 ELSE 4
  BY DEF GuardThreshold
<1>4. CASE history' = <<>>
  <2>1. history = <<>> /\ ~guard'
    BY <1>1, <1>4
  <2> QED  BY <1>4, <2>1 DEF GuardHolds, GuardSteady
<1>5. CASE history' # <<>>
  <2>1. guard' <=> Median(history') <= -GuardThreshold
    BY <1>1, <1>5, Zenon
  <2>2. GuardSteady'
    <3> DEFINE m == Median(history')
    <3>1. m \in Int /\ (guard' <=> m <= -GuardThreshold)
      BY <1>2, <1>5, <2>1
    <3> HIDE DEF m
    <3>2. GuardThreshold = 2 \/ GuardThreshold = 4
      BY <1>3
    <3>3. guard' => m <= -2
      BY <3>1, <3>2
    <3>4. ~guard' => m > -4
      BY <3>1, <3>2
    <3> USE DEF m
    <3> QED  BY <1>5, <3>3, <3>4, Zenon DEF GuardSteady
  <2>3. ASSUME guard', flight # None PROVE flight <= gross
    <3>1. history' = history
      BY <1>1, <2>3
    <3>2. guard
      <4> DEFINE m == Median(history)
      <4>1. m \in Int /\ (guard' <=> m <= -GuardThreshold)
        BY <1>2, <1>5, <2>1, <3>1
      <4>2. ~guard => m > -4
        BY <1>5, <3>1 DEF GuardHolds, GuardSteady
      <4> HIDE DEF m
      <4> QED  BY <1>3, <2>3, <4>1, <4>2
    <3> QED  BY <2>3, <3>2 DEF GuardHolds
  <2> QED  BY <1>1, <2>2, <2>3 DEF GuardHolds
<1> QED  BY <1>4, <1>5

(* While the loss guard is on no bundle makes the exposure grow, whatever  *)
(* the marks and the plans were: a plan made under the guard does not let  *)
(* it grow, and the guard does not turn on while a bundle is on its way,   *)
(* because update_risk_mark does not mark then.                            *)
THEOREM GuardNeverLetsExposureGrow == Spec => GuardStopsGrowth
<1>1. Init => GuardHolds
  BY DEF Init, GuardHolds, GuardSteady, None
<1>2. Typed /\ GuardHolds /\ [Next]_vars =>
        GuardHolds' /\ ([guard => gross' <= gross]_vars)
  <2> SUFFICES ASSUME Typed, GuardHolds, [Next]_vars
               PROVE  GuardHolds' /\ (guard => gross' <= gross)
    OBVIOUS
  <2>0. gross <= gross
    BY DEF Typed
  <2>1. CASE \E t \in 0..MaxTick, v \in Values \cup {None} : BeginCycle(t, v)
    <3>1. PICK t \in 0..MaxTick, v \in Values \cup {None} : BeginCycle(t, v)
      BY <2>1
    <3>2. gross' = gross
      BY <3>1 DEF BeginCycle
    <3> QED  BY <2>0, <3>1, <3>2, GuardSurvivesCycle
  <2>2. CASE \E to \in Grosses : Chooses(to)
    <3>1. PICK to \in Grosses : Chooses(to)
      BY <2>2
    <3>2. flight' = to /\ UNCHANGED <<history, guard, gross>>
      BY <3>1, PlanIsOnItsWay DEF marks
    <3>3. guard => to <= gross
      BY <3>1, GuardedPlan
    <3> QED  BY <2>0, <3>2, <3>3 DEF GuardHolds, GuardSteady
  <2>3. CASE NoPlan \/ Wait
    BY <2>0, <2>3, NothingPlanned DEF marks, GuardHolds, GuardSteady
  <2>4. CASE Fulfil
    BY <2>0, <2>4, Fulfilled DEF marks, GuardHolds, GuardSteady
  <2>5. CASE UNCHANGED vars
    BY <2>0, <2>5 DEF vars, marks, GuardHolds, GuardSteady
  <2> QED  BY <2>1, <2>2, <2>3, <2>4, <2>5 DEF Next, Chooses
<1> QED  BY <1>1, <1>2, TypeHolds, PTL DEF Spec, GuardStopsGrowth

(***************************************************************************)
(* The drawdown.                                                           *)
(***************************************************************************)
(* What a plan may carry during a drawdown.                                *)
LEMMA DrawdownPlan ==
  ASSUME Typed, drawdown, NEW to \in Grosses, Chooses(to)
  PROVE  to <= Larger(gross, TargetGross)
<1>1. to \in Nat /\ gross \in Nat /\ TargetGross \in Nat
  BY GrossType, TargetInDrawdown DEF Typed
<1>2. gross <= Larger(gross, TargetGross) /\ TargetGross <= Larger(gross, TargetGross)
  BY <1>1 DEF Larger
<1>3. Larger(gross, TargetGross) \in Nat
  BY <1>1 DEF Larger
<1>4. CASE AcceptTender(to)
  <2>1. to <= CarryCap
    BY <1>4 DEF AcceptTender
  <2> DEFINE most == Larger(gross, TargetGross)
             normal == IF guard THEN gross
                       ELSE Larger(gross, (MaxGross * (IF tick >= LateTick THEN 60 ELSE 90)) \div 100)
  <2>2. CarryCap = Smaller(normal, most)
    BY DEF CarryCap
  <2>3. normal \in Int
    <3>1. MaxGross \in Nat
      BY GrossType
    <3>2. (MaxGross * 60) \div 100 \in Int /\ (MaxGross * 90) \div 100 \in Int
      BY <3>1
    <3> QED  BY <1>1, <3>2 DEF Larger
  <2> HIDE DEF CarryCap, normal, most
  <2>4. CarryCap <= most
    BY <1>3, <2>2, <2>3 DEF Smaller, most
  <2>5. CarryCap \in Int
    BY <1>3, <2>2, <2>3 DEF Smaller, most
  <2> QED  BY <1>1, <1>3, <2>1, <2>4, <2>5 DEF most
<1>5. CASE ConvergenceExit(to)
  BY <1>1, <1>2, <1>3, <1>5 DEF ConvergenceExit
<1>6. CASE ReduceInventory(to)
  BY <1>1, <1>2, <1>3, <1>6 DEF ReduceInventory
<1>7. CASE Arbitrage(to)
  <2>1. IF gross > TargetGross THEN to < gross ELSE to <= TargetGross
    BY <1>7 DEF Arbitrage, ArbPlanAllowed
  <2> QED  BY <1>1, <1>2, <1>3, <2>1
<1> QED  BY <1>4, <1>5, <1>6, <1>7 DEF Chooses

(* During a drawdown the exposure, and the bundle on its way, stay within  *)
(* a tenth of the cap or within what was held when the drawdown began,     *)
(* for every portfolio value and plan: the drawdown begins and ends while  *)
(* no bundle is on its way.                                                *)
THEOREM DrawdownIsBounded == Spec => []DrawdownBoundsGross
<1>1. Init => DrawdownBoundsGross
  BY DEF Init, DrawdownBoundsGross
<1>2. Typed /\ Typed' /\ DrawdownBoundsGross /\ [Next]_vars => DrawdownBoundsGross'
  <2> SUFFICES ASSUME Typed, Typed', DrawdownBoundsGross, [Next]_vars, drawdown'
               PROVE  /\ gross' <= Larger(ceiling, TargetGross)'
                      /\ flight' <= Larger(ceiling, TargetGross)'
    BY DEF DrawdownBoundsGross
  <2> DEFINE bound == Larger(ceiling, TargetGross)
  <2>1. TargetGross' = (MaxGross * 10) \div 100 /\ TargetGross' \in Nat
    <3>1. Profile' = Profiles[4]
      BY DEF Profile, Profiles
    <3>2. Profiles[4].target = 10
      BY DEF Profiles
    <3>3. TargetGross' = (MaxGross * 10) \div 100
      BY <3>1, <3>2 DEF TargetGross
    <3>4. MaxGross \in Nat
      BY GrossType
    <3> QED  BY <3>3, <3>4
  <2>2. ceiling' \in Nat /\ bound' \in Nat /\ ceiling' <= bound'
    BY <2>1 DEF Typed, Larger
  <2>3. ASSUME drawdown, ceiling' = ceiling
        PROVE  /\ bound' = bound /\ gross <= bound /\ flight <= bound
               /\ Larger(gross, TargetGross) <= bound
    <3>1. TargetGross' = TargetGross /\ TargetGross \in Nat
      BY <2>1, <2>3, TargetInDrawdown
    <3>2. gross <= bound /\ flight <= bound
      BY <2>3 DEF DrawdownBoundsGross
    <3> QED  BY <2>3, <3>1, <3>2 DEF Typed, Larger
  <2> HIDE DEF bound
  <2>4. CASE \E t \in 0..MaxTick, v \in Values \cup {None} : BeginCycle(t, v)
    <3>1. PICK t \in 0..MaxTick, v \in Values \cup {None} : BeginCycle(t, v)
      BY <2>4
    <3>2. /\ UNCHANGED <<gross, flight>>
          /\ Busy => UNCHANGED drawdown
          /\ ceiling' = IF drawdown' /\ ~drawdown THEN gross ELSE ceiling
      BY <3>1, MarksOfCycle
    <3>3. CASE drawdown
      BY <3>2, <3>3, <2>3 DEF bound
    <3>4. CASE ~drawdown
      <4>1. flight = None /\ ceiling' = gross
        BY <3>2, <3>4 DEF Busy
      <4> QED  BY <2>2, <3>2, <4>1 DEF None, bound
    <3> QED  BY <3>3, <3>4
  <2>5. CASE \E to \in Grosses : Chooses(to)
    <3>1. PICK to \in Grosses : Chooses(to)
      BY <2>5
    <3>2. flight' = to /\ UNCHANGED <<drawdown, gross, ceiling>>
      BY <3>1, PlanIsOnItsWay DEF marks
    <3>3. to <= Larger(gross, TargetGross)
      BY <3>1, <3>2, DrawdownPlan
    <3>4. to \in Nat /\ Larger(gross, TargetGross) \in Nat
      BY <3>2, GrossType, TargetInDrawdown DEF Typed, Larger
    <3> QED  BY <2>2, <2>3, <3>2, <3>3, <3>4 DEF bound
  <2>6. CASE NoPlan \/ Wait
    BY <2>3, <2>6, NothingPlanned DEF marks, bound
  <2>7. CASE Fulfil
    <3>1. UNCHANGED <<drawdown, ceiling>>
      BY <2>7, Fulfilled DEF marks
    <3>2. None <= bound'
      BY <2>2 DEF None
    <3> QED  BY <2>3, <2>7, <3>1, <3>2, Fulfilled DEF bound
  <2>8. CASE UNCHANGED vars
    BY <2>3, <2>8 DEF vars, marks, bound
  <2> QED  BY <2>4, <2>5, <2>6, <2>7, <2>8 DEF Next, Chooses
<1> QED  BY <1>1, <1>2, TypeHolds, PTL DEF Spec

(***************************************************************************)
(* The polling driver, which calls that policy once a tick: what holds for *)
(* any number of heats of any length.                                      *)
(***************************************************************************)
Case == [heat : Nat, tick : Nat, status : {"NONE", "STOPPED", "ACTIVE", "PAUSED"}]

CasesTyped == now \in Case /\ read \in Case /\ last \in Case /\ owner \in Nat

Compared == at \in {"COMPARE", "STEP"}

(* A heat is younger than the ACTIVE poll of another one, so that its tick *)
(* tells it apart; this holds of the heat that is played and of the one    *)
(* just read.                                                              *)
Younger(c, p) == p.status = "ACTIVE" /\ p.heat # c.heat => c.tick < p.tick

Distinguishable ==
  /\ Younger(now, last)
  /\ Compared => Younger(now, read)
  /\ at = "COMPARE" => Younger(read, last)

(* The heat remembered, the heat of the state, the heat read and the heat  *)
(* played come in this order.  The state may be ahead of what is           *)
(* remembered: a poll that raised has dropped the state before.            *)
InOrder ==
  /\ last.status = "ACTIVE" => last.heat <= owner
  /\ owner <= now.heat
  /\ Compared => owner <= read.heat /\ read.heat <= now.heat

OwnerIsRead ==
  /\ CasesTyped /\ Distinguishable /\ InOrder
  /\ StateBelongsToHeat

(* Whatever the simulator does next, a poll can tell the heats apart.      *)
LEMMA SimulatorKeeps == OwnerIsRead /\ Simulator => OwnerIsRead'
<1> SUFFICES ASSUME OwnerIsRead, Simulator PROVE OwnerIsRead'
  OBVIOUS
<1> USE DEF OwnerIsRead, CasesTyped
<1>1. PICK c \in Case : Becomes(c) /\ c.heat >= now.heat
  <2>1. CASE HeatStarts
    <3>1. [heat |-> now.heat + 1, tick |-> 0, status |-> "ACTIVE"] \in Case
      BY DEF Case
    <3> QED  BY <2>1, <3>1 DEF HeatStarts, Case
  <2>2. CASE TickAdvances
    <3>1. [now EXCEPT !.tick = @ + 1] \in Case /\ [now EXCEPT !.tick = @ + 1].heat = now.heat
      BY DEF Case
    <3> QED  BY <2>2, <3>1 DEF TickAdvances, Case
  <2>3. CASE HeatEnds
    <3>1. [now EXCEPT !.status = "STOPPED"] \in Case /\ [now EXCEPT !.status = "STOPPED"].heat = now.heat
      BY DEF Case
    <3> QED  BY <2>3, <3>1 DEF HeatEnds, Case
  <2>4. CASE HeatPauses
    <3>1. [now EXCEPT !.status = "PAUSED"] \in Case /\ [now EXCEPT !.status = "PAUSED"].heat = now.heat
      BY DEF Case
    <3> QED  BY <2>4, <3>1 DEF HeatPauses, Case
  <2>5. CASE HeatResumes
    <3>1. [now EXCEPT !.status = "ACTIVE"] \in Case /\ [now EXCEPT !.status = "ACTIVE"].heat = now.heat
      BY DEF Case
    <3> QED  BY <2>5, <3>1 DEF HeatResumes, Case
  <2> QED  BY <2>1, <2>2, <2>3, <2>4, <2>5 DEF Simulator
<1>2. now' = c /\ UNCHANGED <<at, read, last, owner>>
  BY <1>1 DEF Becomes
<1>3. Younger(c, last) /\ (Compared => Younger(c, read))
  BY <1>1 DEF Becomes, Timely, Polls, Younger, Compared
<1>4. Distinguishable'
  BY <1>2, <1>3 DEF Distinguishable, Compared, Younger
<1>5. InOrder'
  BY <1>1, <1>2 DEF InOrder, Compared, Case
<1>6. StateBelongsToHeat'
  BY <1>2 DEF StateBelongsToHeat
<1> QED  BY <1>2, <1>4, <1>5, <1>6

(* A poll that is not told a new heat finds the state of its own.          *)
LEMMA ContinueKeeps == OwnerIsRead /\ Continue => OwnerIsRead'
<1> SUFFICES ASSUME OwnerIsRead, Continue PROVE OwnerIsRead'
  OBVIOUS
<1> USE DEF OwnerIsRead, CasesTyped
<1>1. Compared /\ at = "COMPARE" /\ at' = "STEP" /\ UNCHANGED <<now, read, last, owner>>
  BY DEF Continue, Compared
<1>2. read.status = "ACTIVE" => owner = read.heat
  <2> SUFFICES ASSUME read.status = "ACTIVE" PROVE owner = read.heat
    OBVIOUS
  <2>1. last.status = "ACTIVE" /\ ~(read.tick < last.tick)
    BY DEF Continue, NewHeat
  <2>2. last.heat = read.heat
    BY <1>1, <2>1 DEF Distinguishable, Younger
  <2> QED  BY <1>1, <2>1, <2>2 DEF InOrder, Case
<1>3. Distinguishable' /\ InOrder'
  BY <1>1 DEF Distinguishable, InOrder, Compared, Younger
<1> QED  BY <1>1, <1>2, <1>3 DEF StateBelongsToHeat

(* What has been read is remembered with the state it was traded with.     *)
LEMMA RememberKeeps == OwnerIsRead /\ at = "STEP" /\ Remember => OwnerIsRead'
<1> SUFFICES ASSUME OwnerIsRead, at = "STEP", Remember PROVE OwnerIsRead'
  OBVIOUS
<1> USE DEF OwnerIsRead, CasesTyped
<1>1. last' = read /\ read' = NoCase /\ at' = "POLL" /\ UNCHANGED <<now, owner>>
  BY DEF Remember
<1>2. NoCase \in Case
  BY DEF NoCase, Case
<1>3. Distinguishable'
  BY <1>1 DEF Distinguishable, Compared, Younger
<1>4. InOrder'
  BY <1>1 DEF InOrder, Compared, Case, StateBelongsToHeat
<1> QED  BY <1>1, <1>2, <1>3, <1>4 DEF StateBelongsToHeat

(* Every other step of the program.                                        *)
LEMMA ProgramKeeps ==
  OwnerIsRead /\ (SignalHandler \/ GetTickStatus \/ EmptyAnswer \/ Begin
                  \/ CancelRaises \/ StepRaises \/ Stop) => OwnerIsRead'
<1> SUFFICES ASSUME OwnerIsRead PROVE
      SignalHandler \/ GetTickStatus \/ EmptyAnswer \/ Begin
        \/ CancelRaises \/ StepRaises \/ Stop => OwnerIsRead'
  OBVIOUS
<1> USE DEF OwnerIsRead, CasesTyped
<1>1. NoCase \in Case /\ NoCase.status = "NONE"
  BY DEF NoCase, Case
<1>2. CASE SignalHandler
  BY <1>2 DEF SignalHandler, Distinguishable, InOrder, Compared, Younger, StateBelongsToHeat
<1>3. CASE GetTickStatus
  BY <1>3 DEF GetTickStatus, Distinguishable, InOrder, Compared, Younger, StateBelongsToHeat, Case
<1>4. CASE EmptyAnswer
  <2>1. /\ read' \in Case /\ read'.status = "NONE" /\ read'.heat = now.heat
        /\ at = "POLL" /\ at' = "COMPARE" /\ UNCHANGED <<now, last, owner>>
    BY <1>4, <1>1 DEF EmptyAnswer, Case, NoCase
  <2>2. Younger(read', last)
    <3>1. read'.tick = 0
      BY <1>4 DEF EmptyAnswer, NoCase
    <3> QED  BY <2>1, <3>1 DEF Distinguishable, Younger, Case
  <2> QED
    BY <2>1, <2>2 DEF Distinguishable, InOrder, Compared, Younger, StateBelongsToHeat, Case
<1>5. CASE Begin
  BY <1>5 DEF Begin, Distinguishable, InOrder, Compared, Younger, StateBelongsToHeat, Case
<1>6. CASE CancelRaises
  BY <1>6, <1>1 DEF CancelRaises, Distinguishable, InOrder, Compared, Younger, StateBelongsToHeat
<1>7. CASE StepRaises
  BY <1>7, <1>1 DEF StepRaises, Distinguishable, InOrder, Compared, Younger, StateBelongsToHeat
<1>8. CASE Stop
  BY <1>8 DEF Stop, Distinguishable, InOrder, Compared, Younger, StateBelongsToHeat
<1> QED  BY <1>2, <1>3, <1>4, <1>5, <1>6, <1>7, <1>8

(* A cycle trades with the state of the heat it has read, however many     *)
(* heats there are and whichever requests fail: run() tells a heat from    *)
(* the one before by the status, or by a tick that has gone back.          *)
THEOREM StateIsOfThisHeat == DriverSpec => []StateBelongsToHeat
<1>1. DriverInit => OwnerIsRead
  <2> SUFFICES ASSUME DriverInit PROVE OwnerIsRead
    OBVIOUS
  <2>1. NoCase \in Case /\ [heat |-> 0, tick |-> 0, status |-> "STOPPED"] \in Case
    BY DEF NoCase, Case
  <2>2. CasesTyped
    BY <2>1 DEF DriverInit, CasesTyped
  <2>3. Distinguishable /\ InOrder /\ StateBelongsToHeat
    BY DEF DriverInit, NoCase, Distinguishable, InOrder, Compared, Younger, StateBelongsToHeat
  <2> QED  BY <2>2, <2>3 DEF OwnerIsRead
<1>2. OwnerIsRead /\ UNCHANGED driverVars => OwnerIsRead'
  BY DEF driverVars, OwnerIsRead, CasesTyped, Distinguishable, InOrder, Compared, Younger,
         StateBelongsToHeat
<1>3. OwnerIsRead /\ (Trade \/ Pass) => OwnerIsRead'
  BY RememberKeeps DEF Trade, Pass
<1>4. OwnerIsRead /\ [DriverNext]_driverVars => OwnerIsRead'
  BY <1>2, <1>3, SimulatorKeeps, ContinueKeeps, ProgramKeeps DEF DriverNext, Answered
<1>5. OwnerIsRead => StateBelongsToHeat
  BY DEF OwnerIsRead
<1> QED  BY <1>1, <1>4, <1>5, PTL DEF DriverSpec
=============================================================================
