----------------------- MODULE LimitExecution_proofs -----------------------
(***************************************************************************)
(* What the limit executor leaves at the exchange, for every value of its  *)
(* constants.                                                              *)
(***************************************************************************)
EXTENDS LimitExecution, TLAPS

(***************************************************************************)
(* Quantities.                                                             *)
(***************************************************************************)
(* What remains of a quantity has its sign and is no more than it.         *)
Within(r, q) == (0 <= r /\ r <= q) \/ (q <= r /\ r <= 0)

(* A fill of at most what remains leaves the rest.                         *)
LEMMA FillLeavesRest ==
  ASSUME NEW q \in Int, NEW r \in Int, Within(r, q), NEW n \in Nat, n <= Abs(r)
  PROVE  /\ r - Sign(q) * n \in Int /\ Within(r - Sign(q) * n, q)
         /\ Abs(r - Sign(q) * n) = Abs(r) - n
<1>1. CASE q < 0
  <2>1. Sign(q) * n = -n
    BY <1>1 DEF Sign
  <2> HIDE DEF Sign
  <2> QED  BY <1>1, <2>1 DEF Within, Abs
<1>2. CASE ~(q < 0)
  <2>1. Sign(q) * n = n
    BY <1>2 DEF Sign
  <2> HIDE DEF Sign
  <2> QED  BY <1>2, <2>1 DEF Within, Abs
<1> QED  BY <1>1, <1>2

(* An intent is a pair of a bundle and a leg.                              *)
LEMMA Pairs ==
  /\ \A i \in Intent : i[1] \in Bundle /\ i[2] \in Leg /\ i = <<i[1], i[2]>>
  /\ \A b \in Bundle, l \in Leg : <<b, l>> \in Intent /\ <<b, l>>[1] = b /\ <<b, l>>[2] = l
BY DEF Intent

(***************************************************************************)
(* The invariant.                                                          *)
(***************************************************************************)
Typed ==
  /\ DOMAIN kind = Bundle /\ DOMAIN istatus = Intent /\ DOMAIN mode = Intent
  /\ quantity \in [Intent -> Int] /\ remaining \in [Intent -> Int]
  /\ near \in [Leg -> Nat] /\ far \in [Leg -> Nat]
  /\ resting \in [Intent -> Nat] /\ unseen \in [Intent -> Nat]
  /\ stray \in [Intent -> Nat]

Ending == {"STOPPING", "STOPCONFIRM", "STOPPED"}

(* Of one intent: what may still trade for it, known or not, fits into     *)
(* what remains of it, an order that may still trade is one the program    *)
(* knows of and keeps the intent active, and a stray order ends the        *)
(* program, so that none is ever posted beside it.                         *)
Sound(i) ==
  /\ Within(remaining[i], quantity[i])
  /\ kind[i[1]] = "NONE" => quantity[i] = 0
  /\ unseen[i] + resting[i] + stray[i] <= Abs(remaining[i])
  /\ unseen[i] > 0 \/ resting[i] > 0 => IsActive(i)
  /\ mode[i] = "NONE" => unseen[i] = 0 /\ resting[i] = 0
  /\ pc \notin Ending => stray[i] = 0
  /\ pc = "LOOP" /\ i \in todo => IsActive(i)

OrdersFit == Typed /\ \A i \in Intent : Sound(i)

(* No order asks for more than what remains of its intent.                 *)
LEMMA OrderFitsIntent ==
  ASSUME Typed, NEW i \in Intent
  PROVE  PassiveSize(i) <= Abs(remaining[i]) /\ CrossSize(i) <= Abs(remaining[i])
<1> DEFINE a == Abs(remaining[i])
           c == Acceptable(i, Started(i[1]))
<1>1. a \in Int /\ MaxOrderSize \in Int
  BY SettingsAssumption DEF Typed, Abs
<1>2. c \in Int
  BY Pairs DEF Typed, Acceptable
<1> HIDE DEF a, c
<1>3. Least({a, MaxOrderSize}) <= a
  <2>1. \E n \in {a, MaxOrderSize} : \A m \in {a, MaxOrderSize} : n <= m
    BY <1>1
  <2> QED  BY <2>1 DEF Least
<1>4. Least({a, c, MaxOrderSize}) <= a
  <2>1. \E n \in {a, c, MaxOrderSize} : \A m \in {a, c, MaxOrderSize} : n <= m
    BY <1>1, <1>2
  <2> QED  BY <2>1 DEF Least
<1> QED  BY <1>3, <1>4 DEF PassiveSize, CrossSize, a, c

(* Steps that leave intents and orders alone.                              *)
LEMMA SameOrders ==
  ASSUME OrdersFit, UNCHANGED <<kind, quantity, remaining, istatus, mode, resting, unseen, stray>>,
         near' \in [Leg -> Nat], far' \in [Leg -> Nat],
         pc \in Ending => pc' \in Ending,
         pc' = "LOOP" => pc = "LOOP" /\ todo' \subseteq todo
  PROVE  OrdersFit'
<1>1. Typed'
  BY DEF OrdersFit, Typed
<1>2. ASSUME NEW i \in Intent PROVE Sound(i)'
  BY DEF OrdersFit, Sound, IsActive
<1> QED  BY <1>1, <1>2 DEF OrdersFit

(* Steps that change one intent and its orders.                            *)
LEMMA OneIntent ==
  ASSUME OrdersFit, NEW i \in Intent, Typed', UNCHANGED <<kind, quantity>>,
         \A j \in Intent \ {i} :
           UNCHANGED <<remaining[j], istatus[j], mode[j], resting[j], unseen[j], stray[j]>>,
         pc \in Ending => pc' \in Ending,
         pc' = "LOOP" => pc = "LOOP" /\ todo' \subseteq todo,
         Sound(i)'
  PROVE  OrdersFit'
<1>1. ASSUME NEW j \in Intent, j # i PROVE Sound(j)'
  BY <1>1 DEF OrdersFit, Sound, IsActive
<1> QED  BY <1>1 DEF OrdersFit

(***************************************************************************)
(* Steps that change no intent and no order.                               *)
(***************************************************************************)
LEMMA ForgetType == ForgetMarket => near' \in [Leg -> Nat] /\ far' \in [Leg -> Nat]
BY DEF ForgetMarket

LEMMA ReadType == ReadBooks => near' \in [Leg -> Nat] /\ far' \in [Leg -> Nat]
BY SettingsAssumption DEF ReadBooks

LEMMA CycleKeeps ==
  OrdersFit /\ (BeginCycle \/ PlaceNothing \/ CallRaises \/ Settle \/ Interrupt \/ Exit)
    => OrdersFit'
<1> SUFFICES ASSUME OrdersFit
             PROVE  BeginCycle \/ PlaceNothing \/ CallRaises \/ Settle \/ Interrupt \/ Exit
                      => OrdersFit'
  OBVIOUS
<1>0. near \in [Leg -> Nat] /\ far \in [Leg -> Nat]
  BY DEF OrdersFit, Typed
<1>1. CASE BeginCycle
  <2>1. near' \in [Leg -> Nat] /\ far' \in [Leg -> Nat]
    BY <1>0, <1>1, ReadType DEF BeginCycle
  <2> QED  BY <1>1, <2>1, SameOrders DEF BeginCycle, orderVars, Ending
<1>2. CASE PlaceNothing
  BY <1>0, <1>2, SameOrders DEF PlaceNothing, StartFulfilling, coreVars, orderVars, Ending
<1>3. CASE CallRaises
  BY <1>3, ForgetType, SameOrders DEF CallRaises, EndCycle, orderVars, Ending
<1>4. CASE Settle
  BY <1>4, ForgetType, SameOrders DEF Settle, SettleBundles, EndCycle, orderVars, Ending
<1>5. CASE Interrupt
  BY <1>5, ForgetType, SameOrders DEF Interrupt, orderVars, Ending
<1>6. CASE Exit
  BY <1>6, ForgetType, SameOrders DEF Exit, orderVars, Ending
<1> QED  BY <1>1, <1>2, <1>3, <1>4, <1>5, <1>6

(***************************************************************************)
(* Bundles.                                                                *)
(***************************************************************************)
(* A bundle is new: nothing can trade for an intent it does not have yet.  *)
LEMMA AddBundleKeeps ==
  ASSUME OrdersFit, NEW b \in Bundle, kind[b] = "NONE", NEW k \in Kind,
         NEW legs \in [Leg -> Int], NEW life, AddBundle(b, k, legs, life),
         UNCHANGED <<near, far, orderVars>>, pc \notin Ending, pc' # "LOOP"
  PROVE  OrdersFit'
<1> USE DEF OrdersFit
<1>1. \A i \in Intent : i[1] = b =>
         /\ quantity'[i] = legs[i[2]] /\ remaining'[i] = legs[i[2]]
  BY DEF AddBundle
<1>2. \A i \in Intent : i[1] # b => UNCHANGED <<quantity[i], remaining[i], istatus[i]>>
  BY DEF AddBundle, Typed
<1>3. kind'[b] = k /\ k # "NONE" /\ DOMAIN kind' = Bundle
      /\ \A a \in Bundle : a # b => kind'[a] = kind[a]
  BY DEF AddBundle, Typed, Kind
<1>4. DOMAIN istatus' = Intent
  BY DEF AddBundle
<1>5. quantity' \in [Intent -> Int] /\ remaining' \in [Intent -> Int]
  BY Pairs DEF AddBundle, Typed
<1>6. Typed'
  BY <1>3, <1>4, <1>5 DEF Typed, orderVars
<1>7. ASSUME NEW i \in Intent, i[1] = b PROVE Sound(i)'
  <2>1. quantity[i] = 0 /\ remaining[i] = 0
    BY <1>7 DEF Sound, Within, Typed
  <2>2. unseen[i] = 0 /\ resting[i] = 0 /\ stray[i] = 0
    BY <2>1 DEF Sound, Typed, Abs
  <2>3. UNCHANGED <<unseen, resting, stray, mode>>
    BY DEF orderVars
  <2>4. legs[i[2]] \in Int
    BY Pairs
  <2>5. Within(legs[i[2]], legs[i[2]]) /\ 0 <= Abs(legs[i[2]])
    BY <2>4 DEF Within, Abs
  <2> QED  BY <1>1, <1>3, <1>7, <2>2, <2>3, <2>5 DEF Sound
<1>8. ASSUME NEW i \in Intent, i[1] # b PROVE Sound(i)'
  <2>1. i[1] \in Bundle
    BY Pairs
  <2> QED  BY <1>2, <1>3, <1>8, <2>1 DEF Sound, orderVars, IsActive
<1> QED  BY <1>6, <1>7, <1>8

LEMMA PlansKeep == OrdersFit /\ (PlaceArb \/ TakeTender) => OrdersFit'
<1> SUFFICES ASSUME OrdersFit, PlaceArb \/ TakeTender PROVE OrdersFit'
  OBVIOUS
<1>1. pc = "DECIDE" /\ pc' # "LOOP" /\ UNCHANGED orderVars
  BY DEF PlaceArb, TakeTender, StartFulfilling
<1>2. pc \notin Ending
  BY <1>1 DEF Ending
<1>3. \E b \in Bundle, k \in Kind, legs \in [Leg -> Int] : \E life :
        kind[b] = "NONE" /\ AddBundle(b, k, legs, life) /\ UNCHANGED <<near, far>>
  <2>1. CASE PlaceArb
    <3>1. PICK b \in Bundle, k \in {"ARB", "CLOSE"}, dir \in {-1, 1}, q \in 1..OrderQty :
            EnqueueArb(b, k, dir, q)
      <4>1. \A dir \in Signs : dir \in {-1, 1} /\ -dir \in {-1, 1}
        BY DEF Signs
      <4> QED  BY <2>1, <4>1 DEF PlaceArb
    <3>2. dir * q \in Int /\ -dir * q \in Int
      BY <3>1
    <3>3. ArbLegs(dir, q) \in [Leg -> Int]
      BY <3>2 DEF ArbLegs
    <3>4. kind[b] = "NONE"
      BY <3>1 DEF EnqueueArb, IsNext, Created
    <3>5. AddBundle(b, k, ArbLegs(dir, q), ArbDeadline) /\ UNCHANGED <<near, far>>
      BY <3>1 DEF EnqueueArb
    <3>6. k \in Kind
      BY <3>1 DEF Kind
    <3> QED  BY <3>3, <3>4, <3>5, <3>6
  <2>2. CASE TakeTender
    <3>1. PICK b \in Bundle, sgn \in Signs, d \in 0..TenderQty, k \in 0..TenderQty :
            AcceptTender(b, sgn, d, k)
      BY <2>2 DEF TakeTender
    <3>2. sgn \in {-1, 1} /\ d \in Int /\ k \in Int
      BY SettingsAssumption DEF Signs
    <3>3. -sgn * d \in Int /\ -sgn * k \in Int
      BY <3>2
    <3>4. TenderLegs(sgn, d, k) \in [Leg -> Int]
      BY <3>3 DEF TenderLegs
    <3>5. kind[b] = "NONE"
      BY <3>1 DEF AcceptTender, IsNext, Created
    <3>6. AddBundle(b, "TENDER", TenderLegs(sgn, d, k), TenderLife) /\ UNCHANGED <<near, far>>
      BY <3>1 DEF AcceptTender
    <3> QED  BY <3>4, <3>5, <3>6 DEF Kind
  <2> QED  BY <2>1, <2>2
<1> QED  BY <1>1, <1>2, <1>3, AddBundleKeeps

(* The deadline cancels no intent whose bundle has an order.               *)
LEMMA PrepareKeeps == OrdersFit /\ Prepare => OrdersFit'
<1> SUFFICES ASSUME OrdersFit, Prepare PROVE OrdersFit'
  OBVIOUS
<1> USE DEF OrdersFit
<1>1. near' \in [Leg -> Nat] /\ far' \in [Leg -> Nat]
  BY ReadType DEF Prepare, Typed
<1>2. /\ UNCHANGED <<kind, quantity, remaining, orderVars>>
      /\ istatus' = [i \in Intent |->
           IF IsActive(i) /\ Overdue(i[1]) /\ i[1] \notin Held
             THEN "CANCELLED" ELSE istatus[i]]
      /\ todo' = {i \in Intent : istatus'[i] \in {"ACTIVE", "WORKING"}}
      /\ pc \notin Ending /\ pc' \notin Ending
  BY DEF Prepare, PrepareBundles, Ending
<1>3. Typed'
  BY <1>1, <1>2 DEF Typed, orderVars
<1>4. ASSUME NEW i \in Intent PROVE Sound(i)'
  <2>1. i \in todo' => IsActive(i)'
    BY <1>2 DEF IsActive
  <2>2. ASSUME unseen[i] > 0 \/ resting[i] > 0 PROVE IsActive(i)'
    <3>1. IsActive(i) /\ Live(i)
      BY <2>2 DEF Sound, Typed, Live
    <3>2. Abs(remaining[i]) > 0
      BY <2>2 DEF Sound, Typed, Abs
    <3>3. quantity[i] # 0
      BY <3>2 DEF Sound, Typed, Within, Abs
    <3>4. i[1] \in Held
      BY <3>1, <3>3, Pairs DEF Held, Members
    <3>5. istatus'[i] = istatus[i]
      BY <1>2, <3>4
    <3> QED  BY <3>1, <3>5 DEF IsActive
  <2> QED  BY <1>2, <2>1, <2>2 DEF Sound, orderVars
<1> QED  BY <1>3, <1>4

(***************************************************************************)
(* Orders.                                                                 *)
(***************************************************************************)
(* Shares move from resting to unseen, or are gone.                        *)
LEMMA ExchangeKeeps ==
  ASSUME OrdersFit, NEW i \in Intent, Exchange(i)
  PROVE  OrdersFit'
<1> USE DEF OrdersFit
<1>0. Abs(remaining[i]) \in Nat
  BY DEF Typed, Abs
<1>1. CASE ExchangeFills(i)
  <2>1. Typed'
    BY <1>1 DEF ExchangeFills, Typed
  <2>2. Sound(i)'
    BY <1>0, <1>1 DEF ExchangeFills, Sound, Typed, IsActive
  <2> QED  BY <1>1, <2>1, <2>2, OneIntent DEF ExchangeFills, Typed
<1>2. CASE ExchangeDrops(i)
  <2>1. Typed'
    BY <1>2 DEF ExchangeDrops, Typed, coreVars
  <2>2. Sound(i)'
    BY <1>0, <1>2 DEF ExchangeDrops, Sound, Typed, IsActive, coreVars
  <2> QED  BY <1>2, <2>1, <2>2, OneIntent DEF ExchangeDrops, Typed, coreVars
<1>3. CASE StrayFills(i)
  <2>1. Typed'
    BY <1>3 DEF StrayFills, Typed
  <2>2. Sound(i)'
    BY <1>0, <1>3 DEF StrayFills, Sound, Typed, IsActive
  <2> QED  BY <1>3, <2>1, <2>2, OneIntent DEF StrayFills, Typed
<1> QED  BY <1>1, <1>2, <1>3 DEF Exchange

(* What a fill of n shares leaves of an intent.                            *)
LEMMA RecordFillIs ==
  ASSUME OrdersFit, NEW i \in Intent, NEW n \in Nat, n <= Abs(remaining[i]), RecordFill(i, n)
  PROVE  /\ remaining' \in [Intent -> Int] /\ DOMAIN istatus' = Intent
         /\ Within(remaining'[i], quantity[i])
         /\ Abs(remaining'[i]) = Abs(remaining[i]) - n
         /\ n < Abs(remaining[i]) => istatus'[i] = "WORKING"
         /\ \A j \in Intent \ {i} : UNCHANGED <<remaining[j], istatus[j]>>
<1> USE DEF OrdersFit
<1>1. quantity[i] \in Int /\ remaining[i] \in Int /\ Within(remaining[i], quantity[i])
  BY DEF Typed, Sound
<1>2. LET r == remaining[i] - Sign(quantity[i]) * n
      IN  r \in Int /\ Within(r, quantity[i]) /\ Abs(r) = Abs(remaining[i]) - n
  BY <1>1, FillLeavesRest
<1>3. /\ remaining' = [remaining EXCEPT ![i] = remaining[i] - Sign(quantity[i]) * n]
      /\ istatus' = [istatus EXCEPT ![i] =
                       IF Abs(remaining[i]) = n THEN "FILLED" ELSE "WORKING"]
  BY DEF RecordFill
<1>4. remaining'[i] = remaining[i] - Sign(quantity[i]) * n /\ remaining' \in [Intent -> Int]
  BY <1>2, <1>3 DEF Typed
<1>5. n < Abs(remaining[i]) => istatus'[i] = "WORKING"
  <2>1. Abs(remaining[i]) \in Int
    BY <1>1 DEF Abs
  <2> QED  BY <1>3, <2>1 DEF Typed
<1>6. DOMAIN istatus' = Intent /\ \A j \in Intent \ {i} : UNCHANGED <<remaining[j], istatus[j]>>
  BY <1>3 DEF Typed
<1> QED  BY <1>2, <1>4, <1>5, <1>6

(* A look at an order books what it has filled.                            *)
LEMMA BookFillsKeeps ==
  ASSUME OrdersFit, NEW i \in Intent, BookFills(i) \/ NothingBooked,
         UNCHANGED <<kind, quantity, near, far, resting, stray>>,
         pc \in Ending <=> pc' \in Ending, pc' # "LOOP"
  PROVE  OrdersFit'
<1> USE DEF OrdersFit
<1>1. CASE NothingBooked
  BY <1>1, SameOrders DEF NothingBooked, Typed
<1>2. CASE BookFills(i)
  <2>1. unseen[i] \in Nat /\ resting[i] \in Nat /\ stray[i] \in Nat
        /\ unseen[i] + resting[i] + stray[i] <= Abs(remaining[i])
    BY DEF Typed, Sound
  <2>2. Abs(remaining[i]) \in Nat /\ unseen[i] <= Abs(remaining[i])
    BY <2>1 DEF Typed, Abs
  <2>3. /\ unseen' = [unseen EXCEPT ![i] = 0]
        /\ IF resting[i] > 0 THEN UNCHANGED mode ELSE mode' = [mode EXCEPT ![i] = "NONE"]
        /\ IF unseen[i] > 0 THEN RecordFill(i, unseen[i]) ELSE UNCHANGED <<remaining, istatus>>
    BY <1>2 DEF BookFills
  <2>4. /\ remaining' \in [Intent -> Int] /\ DOMAIN istatus' = Intent
        /\ Within(remaining'[i], quantity[i])
        /\ Abs(remaining'[i]) = Abs(remaining[i]) - unseen[i]
        /\ resting[i] > 0 => IsActive(i)'
        /\ \A j \in Intent \ {i} : UNCHANGED <<remaining[j], istatus[j]>>
    <3>1. CASE unseen[i] > 0
      BY <2>1, <2>2, <2>3, <3>1, RecordFillIs DEF IsActive
    <3>2. CASE ~(unseen[i] > 0)
      BY <2>1, <2>2, <2>3, <3>2 DEF Typed, Sound, IsActive
    <3> QED  BY <3>1, <3>2
  <2>5. Typed'
    BY <2>3, <2>4 DEF Typed
  <2>6. Sound(i)'
    <3>1. unseen'[i] = 0
      BY <2>3 DEF Typed
    <3>2. unseen'[i] + resting'[i] + stray'[i] <= Abs(remaining'[i])
      BY <2>1, <2>2, <2>4, <3>1
    <3>3. mode'[i] = "NONE" => resting'[i] = 0
      BY <2>1, <2>3 DEF Sound, Typed
    <3> QED  BY <2>4, <3>1, <3>2, <3>3 DEF Sound
  <2>7. \A j \in Intent \ {i} : UNCHANGED <<mode[j], resting[j], unseen[j], stray[j]>>
    BY <2>3 DEF Typed
  <2> QED  BY <2>4, <2>5, <2>6, <2>7, OneIntent
<1> QED  BY <1>1, <1>2

LEMMA VisitKeeps ==
  ASSUME OrdersFit, NEW i \in Intent, Visit(i)
  PROVE  OrdersFit'
<1>1. CASE \E answered \in BOOLEAN : Reconcile(i, answered)
  BY <1>1, BookFillsKeeps DEF Reconcile, Ending
<1>2. CASE \E answered \in BOOLEAN : Confirm(i, answered)
  BY <1>2, BookFillsKeeps DEF Confirm, Ending
<1>3. CASE \E answered \in BOOLEAN : StopConfirm(i, answered)
  BY <1>3, BookFillsKeeps DEF StopConfirm, Ending
<1>4. CASE \E works \in BOOLEAN : Cancel(i, works) \/ StopCancel(i, works)
  <2> USE DEF OrdersFit
  <2>1. /\ resting' = [resting EXCEPT ![i] = 0] \/ resting' = resting
        /\ UNCHANGED <<coreVars, mode, unseen, stray>>
        /\ pc \in Ending <=> pc' \in Ending
        /\ pc' # "LOOP"
    BY <1>4 DEF Cancel, StopCancel, Ending
  <2>2. Typed'
    BY <2>1 DEF Typed, coreVars
  <2>3. Sound(i)'
    <3>1. Abs(remaining[i]) \in Nat
      BY DEF Typed, Abs
    <3> QED  BY <2>1, <3>1 DEF Sound, Typed, IsActive, coreVars
  <2> QED  BY <2>1, <2>2, <2>3, OneIntent DEF Typed, coreVars
<1> QED  BY <1>1, <1>2, <1>3, <1>4 DEF Visit

(* A new order is for at most what remains, and the only one.              *)
LEMMA PostedKeeps ==
  ASSUME OrdersFit, NEW i \in Intent, NEW m \in {"PASSIVE", "AGGRESSIVE"},
         NEW n \in Nat, NEW f \in Nat, NEW terminal \in BOOLEAN,
         n <= Abs(remaining[i]), ~Live(i), pc = "LOOP", i \in todo,
         Posted(i, m, n, f, terminal)
  PROVE  OrdersFit'
<1> USE DEF OrdersFit
<1>1. unseen[i] = 0 /\ resting[i] = 0 /\ stray[i] = 0
  BY DEF Sound, Live, Ending
<1>2. Abs(remaining[i]) \in Nat /\ f <= n /\ f <= Abs(remaining[i])
  <2>1. Abs(remaining[i]) \in Nat
    BY DEF Typed, Abs
  <2>2. f <= n
    BY DEF Posted
  <2> QED  BY <2>1, <2>2
<1>3. /\ UNCHANGED <<kind, quantity, near, far, unseen, stray, pc>> /\ todo' = todo \ {i}
      /\ IF f > 0 THEN RecordFill(i, f) ELSE UNCHANGED <<remaining, istatus>>
      /\ IF terminal THEN UNCHANGED <<mode, resting>>
         ELSE /\ mode' = [mode EXCEPT ![i] = m]
              /\ resting' = [resting EXCEPT ![i] = @ + n - f]
  BY DEF Posted
<1>4. /\ remaining' \in [Intent -> Int] /\ DOMAIN istatus' = Intent
      /\ Within(remaining'[i], quantity[i])
      /\ Abs(remaining'[i]) = Abs(remaining[i]) - f
      /\ f < n => IsActive(i)'
      /\ \A j \in Intent \ {i} : UNCHANGED <<remaining[j], istatus[j]>>
  <2>1. CASE f > 0
    BY <1>2, <1>3, <2>1, RecordFillIs DEF IsActive
  <2>2. CASE ~(f > 0)
    BY <1>2, <1>3, <2>2 DEF Typed, Sound, IsActive
  <2> QED  BY <2>1, <2>2
<1>5. /\ resting'[i] \in {0, n - f} /\ DOMAIN mode' = Intent
      /\ mode'[i] = "NONE" => resting'[i] = 0
      /\ \A j \in Intent \ {i} : UNCHANGED <<mode[j], resting[j]>>
  BY <1>1, <1>2, <1>3 DEF Typed
<1>6. resting' \in [Intent -> Nat]
  <2>1. n - f \in Nat /\ resting[i] + n - f \in Nat
    BY <1>1, <1>2
  <2> QED  BY <1>3, <2>1 DEF Typed
<1>7. Typed'
  BY <1>3, <1>4, <1>5, <1>6 DEF Typed
<1>8. Sound(i)'
  <2>1. unseen'[i] = 0 /\ stray'[i] = 0
    BY <1>1, <1>3
  <2>2. unseen'[i] + resting'[i] + stray'[i] <= Abs(remaining'[i])
    BY <1>2, <1>4, <1>5, <2>1
  <2>3. resting'[i] > 0 => f < n
    BY <1>2, <1>5
  <2>4. i \notin todo'
    BY <1>3
  <2>5. kind'[i[1]] = "NONE" => quantity'[i] = 0
    BY <1>3 DEF Sound
  <2> QED  BY <1>3, <1>4, <1>5, <2>1, <2>2, <2>3, <2>4, <2>5 DEF Sound
<1> QED  BY <1>3, <1>4, <1>5, <1>7, <1>8, OneIntent

LEMMA TradeKeeps ==
  ASSUME OrdersFit, NEW i \in Intent, Trade(i)
  PROVE  OrdersFit'
<1>0. \A n \in 0..MaxOrderSize : n \in Nat
  BY SettingsAssumption
<1>1. CASE \E f \in 0..MaxOrderSize, terminal \in BOOLEAN : PostPassive(i, f, terminal)
  <2>1. PICK f \in 0..MaxOrderSize, terminal \in BOOLEAN : PostPassive(i, f, terminal)
    BY <1>1
  <2>2. ~Live(i) /\ pc = "LOOP" /\ i \in todo /\ Posted(i, "PASSIVE", PassiveSize(i), f, terminal)
    BY <2>1 DEF PostPassive, MayRest, MayTrade, IsTurn
  <2>3. PassiveSize(i) <= Abs(remaining[i])
    BY OrderFitsIntent DEF OrdersFit
  <2>4. PassiveSize(i) \in Nat
    <3>1. Abs(remaining[i]) \in Nat /\ MaxOrderSize \in Nat
      BY SettingsAssumption DEF OrdersFit, Typed, Abs
    <3> QED  BY <3>1 DEF PassiveSize, Least
  <2> QED  BY <1>0, <2>1, <2>2, <2>3, <2>4, PostedKeeps
<1>2. CASE \E f \in 0..MaxOrderSize, terminal \in BOOLEAN : PostAggressive(i, f, terminal)
  <2>1. PICK f \in 0..MaxOrderSize, terminal \in BOOLEAN : PostAggressive(i, f, terminal)
    BY <1>2
  <2>2. ~Live(i) /\ pc = "LOOP" /\ i \in todo /\ Posted(i, "AGGRESSIVE", CrossSize(i), f, terminal)
    BY <2>1 DEF PostAggressive, MayCross, MayTrade, IsTurn
  <2>3. CrossSize(i) <= Abs(remaining[i])
    BY OrderFitsIntent DEF OrdersFit
  <2>4. CrossSize(i) \in Nat
    <3>1. /\ Abs(remaining[i]) \in Nat /\ MaxOrderSize \in Nat
          /\ Acceptable(i, Started(i[1])) \in Nat
      BY SettingsAssumption, Pairs DEF OrdersFit, Typed, Abs, Acceptable
    <3> HIDE DEF Abs, Acceptable
    <3> QED  BY <3>1 DEF CrossSize, Least
  <2> QED  BY <1>0, <2>1, <2>2, <2>3, <2>4, PostedKeeps
<1>3. CASE \E n \in 0..MaxOrderSize : PostUncertain(i, n)
  <2> USE DEF OrdersFit
  <2>1. PICK n \in 0..MaxOrderSize : PostUncertain(i, n)
    BY <1>3
  <2>2. n \in Nat /\ n <= Abs(remaining[i])
    <3>1. Abs(remaining[i]) \in Nat
      BY DEF Typed, Abs
    <3>2. n = 0 \/ n = PassiveSize(i) \/ n = CrossSize(i)
      BY <2>1 DEF PostUncertain
    <3> QED  BY <1>0, <3>1, <3>2, OrderFitsIntent
  <2>3. /\ ~Live(i) /\ pc = "LOOP" /\ pc' = "STOPPING"
        /\ stray' = [stray EXCEPT ![i] = n] /\ ForgetMarket
        /\ UNCHANGED <<kind, quantity, remaining, istatus, mode, resting, unseen>>
    BY <2>1 DEF PostUncertain, MayRest, MayCross, MayTrade, IsTurn
  <2>4. Typed'
    BY <2>2, <2>3, ForgetType DEF Typed
  <2>5. unseen[i] = 0 /\ resting[i] = 0
    BY <2>3 DEF Sound, Live
  <2>6. stray'[i] = n /\ \A j \in Intent \ {i} : UNCHANGED stray[j]
    BY <2>3 DEF Typed
  <2>7. Sound(i)'
    BY <2>2, <2>3, <2>5, <2>6 DEF Sound, Ending
  <2> QED  BY <2>3, <2>4, <2>6, <2>7, OneIntent DEF Ending
<1>4. CASE Skip(i)
  BY <1>4, SameOrders DEF Skip, coreVars, orderVars, OrdersFit, Typed
<1> QED  BY <1>1, <1>2, <1>3, <1>4 DEF Trade

(***************************************************************************)
(* The theorems.                                                           *)
(***************************************************************************)
LEMMA OrdersFitInit == Init => OrdersFit
<1> SUFFICES ASSUME Init PROVE OrdersFit
  OBVIOUS
<1>1. Typed
  BY DEF Init, InitIntentions, Typed
<1>2. ASSUME NEW i \in Intent PROVE Sound(i)
  BY DEF Init, InitIntentions, Sound, Within, Abs
<1> QED  BY <1>1, <1>2 DEF OrdersFit

LEMMA OrdersFitStep == OrdersFit /\ [Next]_vars => OrdersFit'
<1>1. OrdersFit /\ UNCHANGED vars => OrdersFit'
  BY SameOrders DEF vars, OrdersFit, Typed
<1> QED
  BY <1>1, CycleKeeps, PlansKeep, PrepareKeeps, ExchangeKeeps, VisitKeeps, TradeKeeps DEF Next

LEMMA OrdersFitHolds == Spec => []OrdersFit
BY OrdersFitInit, OrdersFitStep, PTL DEF Spec

(* Whatever fills while an order is looked at, cancelled or replaced, and  *)
(* whichever request fails, an intent never trades more than its plan.     *)
THEOREM ExposureStaysWithinPlan == Spec => []ExposureWithinPlan
<1>1. OrdersFit => ExposureWithinPlan
  BY DEF OrdersFit, Typed, Sound, ExposureWithinPlan, Filled, Abs
<1> QED  BY <1>1, OrdersFitHolds, PTL

(* A fill that is still to be booked belongs to an active intent, so that  *)
(* record_fill never raises.                                               *)
THEOREM LateFillsAreBookable == Spec => []LateFillIsBookable
<1>1. OrdersFit => LateFillIsBookable
  BY DEF OrdersFit, Sound, LateFillIsBookable
<1> QED  BY <1>1, OrdersFitHolds, PTL

(***************************************************************************)
(* The account.                                                            *)
(***************************************************************************)
AccountTyped ==
  /\ kind \in [Bundle -> Kind \cup {"NONE"}] /\ istatus \in [Intent -> IntentStatus]
  /\ server \in [Leg -> Int] /\ deadline \in [Bundle -> Nat]
  /\ caseTick \in Nat /\ caseTick <= MaxTick /\ lost \in BOOLEAN

(* Of an added bundle.                                                     *)
LEMMA AddBundleType ==
  ASSUME AccountTyped, NEW b \in Bundle, NEW k \in Kind, NEW legs \in [Leg -> Int],
         NEW life \in Nat, AddBundle(b, k, legs, life)
  PROVE  /\ kind' \in [Bundle -> Kind \cup {"NONE"}] /\ istatus' \in [Intent -> IntentStatus]
         /\ deadline' \in [Bundle -> Nat]
BY DEF AddBundle, AccountTyped, IntentStatus

(* A sign is 1 or -1.                                                      *)
LEMMA SignIs == \A q \in Int : Sign(q) \in {-1, 1}
BY DEF Sign

(* Of the plans: a hedged trade of the equities, or the exit of a tender.  *)
LEMMA ArbIs ==
  ASSUME NEW dir \in {-1, 1}, NEW q \in Int
  PROVE  ArbLegs(dir, q) \in [Leg -> Int] /\ Hedged(ArbLegs(dir, q))
<1>2. dir * q \in Int /\ -dir * q \in Int /\ dir * q = -(-dir * q)
  OBVIOUS
<1>3. /\ ArbLegs(dir, q)["RITC"] = dir * q
      /\ ArbLegs(dir, q)["BULL"] = -dir * q /\ ArbLegs(dir, q)["BEAR"] = -dir * q
  BY DEF ArbLegs, Leg
<1> QED  BY <1>2, <1>3 DEF ArbLegs, Hedged

LEMMA TenderIs ==
  ASSUME NEW s \in Signs, NEW d \in Int, NEW k \in Int, NEW p \in [Leg -> Int]
  PROVE  /\ TenderLegs(s, d, k) \in [Leg -> Int] /\ Tendered(p, s, d + k) \in [Leg -> Int]
         /\ Hedged(p) => Hedged(Plus(Tendered(p, s, d + k), TenderLegs(s, d, k)))
<1>1. s \in {-1, 1}
  BY DEF Signs
<1>2. -s * d \in Int /\ -s * k \in Int /\ s * (d + k) \in Int
      /\ s * (d + k) + (-s * d) = -(-s * k)
  BY <1>1
<1>3. TenderLegs(s, d, k) \in [Leg -> Int] /\ Tendered(p, s, d + k) \in [Leg -> Int]
  BY <1>2 DEF TenderLegs, Tendered, Leg
<1>4. /\ TenderLegs(s, d, k)["RITC"] = -s * d
      /\ TenderLegs(s, d, k)["BULL"] = -s * k /\ TenderLegs(s, d, k)["BEAR"] = -s * k
  BY DEF TenderLegs, Leg
<1>5. /\ Tendered(p, s, d + k)["RITC"] = p["RITC"] + s * (d + k)
      /\ Tendered(p, s, d + k)["BULL"] = p["BULL"] /\ Tendered(p, s, d + k)["BEAR"] = p["BEAR"]
  BY DEF Tendered, Leg
<1>6. p["RITC"] \in Int /\ p["BULL"] \in Int /\ p["BEAR"] \in Int
  BY DEF Leg
<1>7. ASSUME Hedged(p) PROVE Hedged(Plus(Tendered(p, s, d + k), TenderLegs(s, d, k)))
  BY <1>2, <1>4, <1>5, <1>6, <1>7 DEF Hedged, Plus, Leg
<1> QED  BY <1>3, <1>7

(* What the two decisions that create a bundle have in common.             *)
LEMMA DecisionIs ==
  ASSUME AccountTyped, PlaceArb \/ TakeTender
  PROVE  /\ ~Busy /\ server' \in [Leg -> Int] /\ UNCHANGED <<caseTick, lost, orderVars>>
         /\ \E b \in Bundle, k \in Kind, legs \in [Leg -> Int], life \in Nat :
              /\ kind[b] = "NONE" /\ AddBundle(b, k, legs, life)
              /\ k \in {"ARB", "CLOSE"} => Hedged(legs)
              /\ k = "TENDER" => MaxTick <= life
              /\ Hedged(server) => Hedged(Plus(server', legs))
<1>0. server \in [Leg -> Int]
  BY DEF AccountTyped
<1>1. CASE PlaceArb
  <2>1. PICK b \in Bundle, k \in {"ARB", "CLOSE"}, dir \in {-1, 1}, q \in 1..OrderQty :
          EnqueueArb(b, k, dir, q)
    <3>1. \A dir \in Signs : dir \in {-1, 1} /\ -dir \in {-1, 1}
      BY DEF Signs
    <3> QED  BY <1>1, <3>1 DEF PlaceArb
  <2>2. /\ ~Busy /\ kind[b] = "NONE" /\ AddBundle(b, k, ArbLegs(dir, q), ArbDeadline)
        /\ UNCHANGED <<caseTick, server, lost>>
    BY <2>1 DEF EnqueueArb, IsNext, Created
  <2>3. ArbLegs(dir, q) \in [Leg -> Int] /\ Hedged(ArbLegs(dir, q))
    BY ArbIs
  <2>4. Hedged(server) => Hedged(Plus(server', ArbLegs(dir, q)))
    BY <1>0, <2>2, <2>3 DEF Hedged, Plus, Leg
  <2>5. k \in Kind /\ k # "TENDER" /\ ArbDeadline \in Nat
    BY SettingsAssumption DEF Kind
  <2>6. UNCHANGED orderVars
    BY <1>1 DEF PlaceArb, StartFulfilling
  <2> QED  BY <1>0, <2>2, <2>3, <2>4, <2>5, <2>6
<1>2. CASE TakeTender
  <2>1. PICK b \in Bundle, s \in Signs, d \in 0..TenderQty, k \in 0..TenderQty :
          AcceptTender(b, s, d, k)
    BY <1>2 DEF TakeTender
  <2>2. /\ ~Busy /\ kind[b] = "NONE"
        /\ AddBundle(b, "TENDER", TenderLegs(s, d, k), TenderLife)
        /\ server' = Tendered(server, s, d + k) /\ UNCHANGED <<caseTick, lost>>
    BY <2>1 DEF AcceptTender, TenderOffered, IsNext, Created
  <2>3. d \in Int /\ k \in Int
    BY SettingsAssumption
  <2>4. /\ TenderLegs(s, d, k) \in [Leg -> Int] /\ server' \in [Leg -> Int]
        /\ Hedged(server) => Hedged(Plus(server', TenderLegs(s, d, k)))
    BY <1>0, <2>2, <2>3, TenderIs
  <2>5. "TENDER" \in Kind /\ TenderLife \in Nat /\ MaxTick <= TenderLife
    BY SettingsAssumption, HeatAssumption DEF Kind
  <2>6. UNCHANGED orderVars
    BY <1>2 DEF TakeTender, StartFulfilling
  <2> QED  BY <2>2, <2>4, <2>5, <2>6
<1> QED  BY <1>1, <1>2

(* Fills move whole shares, and statuses are statuses.                     *)
LEMMA AccountStep ==
  ASSUME OrdersFit, AccountTyped, [Next]_vars
  PROVE  AccountTyped'
<1>1. CASE PlaceArb \/ TakeTender
  <2>1. \E b \in Bundle, k \in Kind, legs \in [Leg -> Int], life \in Nat :
          AddBundle(b, k, legs, life)
    BY <1>1, DecisionIs
  <2>2. server' \in [Leg -> Int] /\ UNCHANGED <<caseTick, lost>>
    BY <1>1, DecisionIs
  <2> QED  BY <2>1, <2>2, AddBundleType DEF AccountTyped
<1>2. CASE BeginCycle
  <2>1. caseTick' \in caseTick..MaxTick
    BY <1>2 DEF BeginCycle, ReadCase
  <2>2. caseTick' \in Nat /\ caseTick' <= MaxTick
    BY <2>1, SettingsAssumption DEF AccountTyped
  <2> QED  BY <1>2, <2>2 DEF BeginCycle, AccountTyped
<1>3. CASE PlaceNothing \/ CallRaises \/ Settle \/ Interrupt \/ Exit \/ UNCHANGED vars
  BY <1>3 DEF PlaceNothing, CallRaises, Settle, SettleBundles, EndCycle, Interrupt, Exit,
              coreVars, vars, AccountTyped
<1>4. CASE Prepare
  BY <1>4 DEF Prepare, PrepareBundles, AccountTyped, IntentStatus
<1>5. ASSUME NEW i \in Intent, Exchange(i) PROVE AccountTyped'
  <2>1. Sign(quantity[i]) \in {-1, 1} /\ i[2] \in Leg
    BY SignIs, Pairs DEF OrdersFit, Typed
  <2>2. server' \in [Leg -> Int]
    BY <1>5, <2>1 DEF Exchange, ExchangeFills, ExchangeDrops, StrayFills, coreVars, AccountTyped
  <2> QED
    BY <1>5, <2>2 DEF Exchange, ExchangeFills, ExchangeDrops, StrayFills, coreVars, AccountTyped
<1>6. ASSUME NEW i \in Intent, Visit(i) PROVE AccountTyped'
  <2>1. /\ UNCHANGED <<kind, server, deadline, caseTick, lost>>
        /\ BookFills(i) \/ NothingBooked \/ UNCHANGED istatus
    BY <1>6 DEF Visit, Reconcile, Confirm, StopConfirm, Cancel, StopCancel, coreVars
  <2>2. istatus' \in [Intent -> IntentStatus]
    BY <2>1 DEF BookFills, NothingBooked, RecordFill, AccountTyped, IntentStatus
  <2> QED  BY <2>1, <2>2 DEF AccountTyped
<1>7. ASSUME NEW i \in Intent, Trade(i) PROVE AccountTyped'
  <2>1. ASSUME NEW m, NEW n, NEW f \in 0..MaxOrderSize, NEW terminal, Posted(i, m, n, f, terminal)
        PROVE  AccountTyped'
    <3>1. Sign(quantity[i]) * f \in Int /\ i[2] \in Leg
      <4>1. Sign(quantity[i]) \in {-1, 1} /\ f \in Int /\ i[2] \in Leg
        BY SignIs, Pairs, SettingsAssumption DEF OrdersFit, Typed
      <4> QED  BY <4>1
    <3>2. server' \in [Leg -> Int]
      BY <2>1, <3>1 DEF Posted, AccountTyped
    <3>3. istatus' \in [Intent -> IntentStatus]
      BY <2>1 DEF Posted, RecordFill, AccountTyped, IntentStatus
    <3> QED  BY <2>1, <3>2, <3>3 DEF Posted, AccountTyped
  <2>2. ASSUME NEW n, PostUncertain(i, n) PROVE AccountTyped'
    BY <2>2 DEF PostUncertain, AccountTyped
  <2>3. CASE Skip(i)
    BY <2>3 DEF Skip, coreVars, AccountTyped
  <2> QED  BY <1>7, <2>1, <2>2, <2>3 DEF Trade, PostPassive, PostAggressive
<1> QED  BY <1>1, <1>2, <1>3, <1>4, <1>5, <1>6, <1>7 DEF Next

(* A stray order ends the program, and only a lost reply leaves one.       *)
LossEnds ==
  /\ lost => pc \in Ending
  /\ ~lost => \A i \in Intent : stray[i] = 0

LEMMA LossStep ==
  ASSUME OrdersFit, AccountTyped, LossEnds, [Next]_vars
  PROVE  LossEnds'
<1> USE DEF LossEnds
<1>1. CASE BeginCycle \/ PlaceNothing \/ CallRaises \/ Settle \/ Interrupt \/ Exit
           \/ Prepare \/ UNCHANGED vars
  <2>1. UNCHANGED <<lost, stray>>
    <3>1. CASE BeginCycle \/ Prepare
      BY <3>1 DEF BeginCycle, Prepare, orderVars
    <3>2. CASE PlaceNothing \/ UNCHANGED vars
      BY <3>2 DEF PlaceNothing, StartFulfilling, coreVars, orderVars, vars
    <3>3. CASE CallRaises \/ Settle \/ Interrupt \/ Exit
      BY <3>3 DEF CallRaises, Settle, Interrupt, Exit, orderVars
    <3> QED  BY <1>1, <3>1, <3>2, <3>3
  <2>2. pc \in Ending => pc' \in Ending
    BY <1>1 DEF BeginCycle, PlaceNothing, CallRaises, Settle, Interrupt, Exit, Prepare, vars,
                Ending
  <2> QED  BY <2>1, <2>2
<1>2. CASE PlaceArb \/ TakeTender
  <2>1. UNCHANGED <<lost, orderVars>>
    BY <1>2, DecisionIs
  <2>2. pc = "DECIDE"
    BY <1>2 DEF PlaceArb, TakeTender
  <2> QED  BY <2>1, <2>2 DEF orderVars, Ending
<1>3. ASSUME NEW i \in Intent, Exchange(i) PROVE LossEnds'
  <2>1. pc' = pc /\ lost' = lost /\ (stray[i] = 0 => UNCHANGED stray)
    BY <1>3 DEF Exchange, ExchangeFills, ExchangeDrops, StrayFills, coreVars
  <2> QED  BY <2>1
<1>4. ASSUME NEW i \in Intent, Visit(i) PROVE LossEnds'
  BY <1>4 DEF Visit, Reconcile, Confirm, StopConfirm, Cancel, StopCancel, coreVars, Ending
<1>5. ASSUME NEW i \in Intent, Trade(i) PROVE LossEnds'
  <2>1. pc = "LOOP" /\ ~lost /\ \A j \in Intent : stray[j] = 0
    BY <1>5 DEF Trade, PostPassive, PostAggressive, PostUncertain, Skip, IsTurn, Ending
  <2>2. ASSUME NEW n \in 0..MaxOrderSize, PostUncertain(i, n) PROVE LossEnds'
    <3>1. pc' = "STOPPING" /\ (n > 0 => lost') /\ stray' = [stray EXCEPT ![i] = n]
      BY <2>2, Zenon DEF PostUncertain
    <3>2. n \in Nat
      BY SettingsAssumption
    <3>3. pc' \in Ending
      BY <3>1 DEF Ending
    <3>4. ASSUME ~lost', NEW j \in Intent PROVE stray'[j] = 0
      <4>1. n = 0
        BY <3>1, <3>2, <3>4
      <4> QED  BY <2>1, <3>1, <4>1 DEF OrdersFit, Typed
    <3> QED  BY <3>3, <3>4
  <2> QED
    BY <1>5, <2>1, <2>2 DEF Trade, PostPassive, PostAggressive, Posted, Skip, coreVars, orderVars
<1> QED  BY <1>1, <1>2, <1>3, <1>4, <1>5 DEF Next

(* What an active intent will still change the account by, as far as its   *)
(* fills have not yet reached it.                                          *)
Owed(i) == IF IsActive(i) THEN remaining[i] - Sign(quantity[i]) * unseen[i] ELSE 0

Neat(i) ==
  /\ quantity[i] = 0 <=> istatus[i] = "NONE"
  /\ istatus[i] = "FILLED" => remaining[i] = 0
  /\ IsActive(i) => remaining[i] # 0
  /\ istatus[i] = "CANCELLED" => ~Working(i[1])

(* A plan is hedged, or the exit of a tender, which outlives the heat.     *)
PlansInShape ==
  \A b \in Bundle :
    /\ kind[b] \in {"ARB", "CLOSE"} => Hedged([l \in Leg |-> quantity[<<b, l>>]])
    /\ kind[b] = "TENDER" => MaxTick <= deadline[b]

OneBundleWorks == \A a, b \in Created : Working(a) /\ Working(b) => a = b

Balanced ==
  /\ \A i \in Intent : Neat(i)
  /\ PlansInShape
  /\ OneBundleWorks
  /\ HedgedOrBeingHedged

(* Steps that fill and change no intent.                                   *)
LEMMA SameBalance ==
  ASSUME Balanced, UNCHANGED <<kind, quantity, remaining, istatus, deadline, unseen>>,
         ~lost' => ~lost /\ server' = server
  PROVE  Balanced'
BY DEF Balanced, Neat, PlansInShape, OneBundleWorks, HedgedOrBeingHedged, Created, Working,
       Members, IsActive, Completed, Hedged

(* A fill, or the news of one, moves shares from what an intent owes to    *)
(* the account.                                                            *)
LEMMA FillBalances ==
  ASSUME OrdersFit, AccountTyped, Balanced, NEW i \in Intent, IsActive(i),
         UNCHANGED <<kind, quantity, deadline, lost>>,
         \A j \in Intent \ {i} : UNCHANGED <<remaining[j], istatus[j], unseen[j]>>,
         \/ istatus'[i] = "FILLED" /\ remaining'[i] = 0
         \/ IsActive(i)' /\ remaining'[i] # 0,
         Owed(i) \in Int, Owed(i)' \in Int,
         server' = [server EXCEPT ![i[2]] = @ + (Owed(i) - Owed(i)')]
  PROVE  Balanced'
<1> DEFINE b == i[1]
<1>1. b \in Bundle /\ i[2] \in Leg /\ i = <<b, i[2]>>
  BY Pairs
<1>2. \A j \in Intent : IsActive(j)' => IsActive(j)
  BY DEF IsActive
<1>3. \A a \in Bundle : Working(a)' => Working(a)
  BY <1>2 DEF Working, Members
<1>4. quantity[i] # 0
  BY DEF Balanced, Neat, IsActive
<1>5. Working(b) /\ b \in Created
  BY <1>1, <1>4 DEF Working, Members, Created, OrdersFit, Sound
<1>6. ASSUME NEW j \in Intent PROVE Neat(j)'
  <2>1. CASE j = i
    BY <1>4, <2>1 DEF Balanced, Neat, IsActive
  <2>2. CASE j # i
    BY <1>3, <2>2, Pairs DEF Balanced, Neat, IsActive
  <2> QED  BY <2>1, <2>2
<1>7. PlansInShape'
  BY DEF Balanced, PlansInShape, Hedged
<1>8. OneBundleWorks'
  BY <1>3 DEF Balanced, OneBundleWorks, Created
<1>9. HedgedOrBeingHedged'
  <2> SUFFICES ASSUME ~lost
               PROVE  /\ \A a \in Created : Working(a)' => Hedged(Completed(a))'
                      /\ (\A a \in Created : ~Working(a)') => Hedged(server')
    BY DEF HedgedOrBeingHedged, Created
  <2>1. \A a \in Created : Working(a) => a = b
    BY <1>5 DEF Balanced, OneBundleWorks
  <2>2. Hedged(Completed(b))
    BY <1>5 DEF Balanced, HedgedOrBeingHedged
  <2>3. ASSUME NEW l \in Leg PROVE Completed(b)'[l] = Completed(b)[l]
    <3>1. CASE l = i[2]
      <4>1. <<b, l>> = i /\ server[l] \in Int /\ server'[l] = server[l] + (Owed(i) - Owed(i)')
        BY <1>1, <3>1 DEF AccountTyped
      <4>2. Completed(b)[l] = server[l] + Owed(i) /\ Completed(b)'[l] = server'[l] + Owed(i)'
        BY <4>1 DEF Completed, Owed
      <4> QED  BY <4>1, <4>2
    <3>2. CASE l # i[2]
      <4>1. <<b, l>> \in Intent \ {i} /\ server'[l] = server[l]
        BY <1>1, <3>2, Pairs DEF AccountTyped
      <4> QED  BY <4>1 DEF Completed, IsActive
    <3> QED  BY <3>1, <3>2
  <2>4. Hedged(Completed(b))'
    BY <2>2, <2>3 DEF Hedged, Leg
  <2>5. ASSUME ~Working(b)' PROVE Hedged(server')
    <3>1. ASSUME NEW l \in Leg PROVE Completed(b)'[l] = server'[l]
      <4>1. <<b, l>> \in Intent /\ <<b, l>>[1] = b
        BY <1>1, Pairs
      <4>2. ~IsActive(<<b, l>>)'
        BY <1>6, <2>5, <4>1 DEF Neat, Working, Members, IsActive
      <4>3. server'[l] \in Int
        BY DEF AccountTyped
      <4> QED  BY <4>2, <4>3 DEF Completed
    <3> QED  BY <2>4, <3>1 DEF Hedged, Leg
  <2> QED  BY <1>3, <1>5, <2>1, <2>4, <2>5 DEF Created
<1> QED  BY <1>6, <1>7, <1>8, <1>9 DEF Balanced

(* A recorded fill ends an intent exactly when nothing remains of it.      *)
LEMMA RecordFillEnds ==
  ASSUME OrdersFit, NEW i \in Intent, NEW n \in Nat, n <= Abs(remaining[i]), RecordFill(i, n)
  PROVE  /\ remaining'[i] = remaining[i] - Sign(quantity[i]) * n /\ remaining'[i] \in Int
         /\ \/ istatus'[i] = "FILLED" /\ remaining'[i] = 0
            \/ istatus'[i] = "WORKING" /\ remaining'[i] # 0
<1>1. /\ remaining[i] \in Int /\ DOMAIN istatus = Intent /\ remaining \in [Intent -> Int]
  BY DEF OrdersFit, Typed
<1>2. remaining'[i] = remaining[i] - Sign(quantity[i]) * n
  BY <1>1 DEF RecordFill
<1>3. remaining'[i] \in Int /\ Abs(remaining'[i]) = Abs(remaining[i]) - n
  BY RecordFillIs
<1>4. Abs(remaining[i]) \in Int
  BY <1>1 DEF Abs
<1>5. IF Abs(remaining[i]) = n
        THEN istatus'[i] = "FILLED" /\ Abs(remaining'[i]) = 0
        ELSE istatus'[i] = "WORKING" /\ Abs(remaining'[i]) # 0
  BY <1>1, <1>3, <1>4 DEF RecordFill
<1>6. Abs(remaining'[i]) = 0 <=> remaining'[i] = 0
  BY <1>3 DEF Abs
<1> QED  BY <1>2, <1>3, <1>5, <1>6

(* A fill at the exchange is owed no more; booking one is no news to the   *)
(* account; a reply that reports a fill is both at once.                   *)
LEMMA ExchangeBalances ==
  ASSUME OrdersFit, AccountTyped, LossEnds, Balanced, NEW i \in Intent, Exchange(i)
  PROVE  Balanced'
<1>1. CASE ExchangeFills(i)
  <2>1. /\ resting[i] > 0 /\ unseen' = [unseen EXCEPT ![i] = unseen[i] + 1]
        /\ server' = [server EXCEPT ![i[2]] = @ + Sign(quantity[i])]
        /\ UNCHANGED <<kind, quantity, remaining, istatus, deadline, lost>>
    BY <1>1 DEF ExchangeFills
  <2>2. IsActive(i) /\ IsActive(i)' /\ remaining'[i] # 0
    BY <2>1 DEF OrdersFit, Sound, Balanced, Neat, IsActive
  <2>3. Sign(quantity[i]) \in {-1, 1} /\ remaining[i] \in Int /\ unseen[i] \in Nat
    BY SignIs DEF OrdersFit, Typed
  <2>4. unseen'[i] = unseen[i] + 1 /\ \A j \in Intent \ {i} : UNCHANGED unseen[j]
    BY <2>1 DEF OrdersFit, Typed
  <2>5. /\ Owed(i) = remaining[i] - Sign(quantity[i]) * unseen[i]
        /\ Owed(i)' = remaining[i] - Sign(quantity[i]) * (unseen[i] + 1)
    BY <2>1, <2>2, <2>4 DEF Owed
  <2>6. Owed(i) \in Int /\ Owed(i)' \in Int /\ Owed(i) - Owed(i)' = Sign(quantity[i])
    <3>1. \A s \in {-1, 1}, r \in Int, u \in Nat :
            /\ r - s * u \in Int /\ r - s * (u + 1) \in Int
            /\ (r - s * u) - (r - s * (u + 1)) = s
      <4>1. \A r \in Int, u \in Nat, s \in {-1, 1} :
              s * u = (IF s = 1 THEN u ELSE -u) /\ s * (u + 1) = (IF s = 1 THEN u + 1 ELSE -(u + 1))
        OBVIOUS
      <4> QED  BY <4>1
    <3> HIDE DEF Sign
    <3>2. /\ remaining[i] - Sign(quantity[i]) * unseen[i] \in Int
          /\ remaining[i] - Sign(quantity[i]) * (unseen[i] + 1) \in Int
          /\ (remaining[i] - Sign(quantity[i]) * unseen[i])
               - (remaining[i] - Sign(quantity[i]) * (unseen[i] + 1)) = Sign(quantity[i])
      BY <2>3, <3>1, ZenonT(30)
    <3> QED  BY <2>5, <3>2, ZenonT(30)
  <2> QED  BY <2>1, <2>2, <2>4, <2>6, FillBalances
<1>2. CASE ExchangeDrops(i)
  BY <1>2, SameBalance DEF ExchangeDrops, coreVars
<1>3. CASE StrayFills(i)
  <2>1. lost
    BY <1>3 DEF StrayFills, LossEnds
  <2> QED  BY <1>3, <2>1, SameBalance DEF StrayFills
<1> QED  BY <1>1, <1>2, <1>3 DEF Exchange

LEMMA VisitBalances ==
  ASSUME OrdersFit, AccountTyped, Balanced, NEW i \in Intent, Visit(i)
  PROVE  Balanced'
<1>1. /\ UNCHANGED <<kind, quantity, deadline, server, lost>>
      /\ BookFills(i) \/ UNCHANGED <<remaining, istatus, unseen>>
  BY DEF Visit, Reconcile, Confirm, StopConfirm, Cancel, StopCancel, coreVars, NothingBooked
<1>2. CASE UNCHANGED <<remaining, istatus, unseen>>
  BY <1>1, <1>2, SameBalance
<1>3. CASE BookFills(i) /\ ~(unseen[i] > 0)
  <2>1. unseen[i] = 0 /\ unseen' = unseen
    BY <1>3 DEF BookFills, OrdersFit, Typed
  <2> QED  BY <1>1, <1>3, <2>1, SameBalance DEF BookFills
<1>4. CASE BookFills(i) /\ unseen[i] > 0
  <2>1. unseen[i] \in Nat /\ resting[i] \in Nat /\ stray[i] \in Nat /\ remaining[i] \in Int
        /\ unseen[i] + resting[i] + stray[i] <= Abs(remaining[i]) /\ IsActive(i)
    BY <1>4 DEF OrdersFit, Typed, Sound
  <2>2. unseen[i] <= Abs(remaining[i])
    <3>1. Abs(remaining[i]) \in Int
      BY <2>1 DEF Abs
    <3> QED  BY <2>1, <3>1
  <2>3. RecordFill(i, unseen[i]) /\ unseen' = [unseen EXCEPT ![i] = 0]
    BY <1>4 DEF BookFills
  <2>4. /\ remaining'[i] = remaining[i] - Sign(quantity[i]) * unseen[i] /\ remaining'[i] \in Int
        /\ \/ istatus'[i] = "FILLED" /\ remaining'[i] = 0
           \/ istatus'[i] = "WORKING" /\ remaining'[i] # 0
        /\ \A j \in Intent \ {i} : UNCHANGED <<remaining[j], istatus[j]>>
    BY <2>1, <2>2, <2>3, RecordFillEnds, RecordFillIs
  <2>5. unseen'[i] = 0 /\ \A j \in Intent \ {i} : UNCHANGED unseen[j]
    BY <2>3 DEF OrdersFit, Typed
  <2>6. Owed(i) = remaining'[i] /\ Owed(i)' = remaining'[i]
    <3>1. Sign(quantity[i])' * 0 = 0
      BY <1>1, SignIs DEF OrdersFit, Typed
    <3> QED  BY <2>1, <2>4, <2>5, <3>1 DEF Owed, IsActive
  <2>7. server' = [server EXCEPT ![i[2]] = @ + (Owed(i) - Owed(i)')]
    BY <1>1, <2>4, <2>6, Pairs DEF AccountTyped
  <2> QED  BY <1>1, <2>1, <2>4, <2>5, <2>6, <2>7, FillBalances DEF IsActive
<1> QED  BY <1>1, <1>2, <1>3, <1>4

LEMMA PostedBalances ==
  ASSUME OrdersFit, AccountTyped, Balanced, NEW i \in Intent, NEW m,
         NEW n \in Nat, NEW f \in Nat, NEW terminal,
         n <= Abs(remaining[i]), ~Live(i), pc = "LOOP", i \in todo,
         Posted(i, m, n, f, terminal)
  PROVE  Balanced'
<1>1. unseen[i] = 0 /\ IsActive(i) /\ remaining[i] \in Int /\ quantity[i] \in Int
  BY DEF OrdersFit, Typed, Sound, Live
<1>2. f <= Abs(remaining[i])
  <2>1. Abs(remaining[i]) \in Int /\ f <= n
    BY <1>1 DEF Abs, Posted
  <2> QED  BY <2>1
<1>3. UNCHANGED <<kind, quantity, deadline, lost, unseen>>
  BY DEF Posted
<1>4. CASE f > 0
  <2>1. /\ RecordFill(i, f)
        /\ server' = [server EXCEPT ![i[2]] = @ + Sign(quantity[i]) * f]
    BY <1>4 DEF Posted
  <2>2. /\ remaining'[i] = remaining[i] - Sign(quantity[i]) * f /\ remaining'[i] \in Int
        /\ \/ istatus'[i] = "FILLED" /\ remaining'[i] = 0
           \/ istatus'[i] = "WORKING" /\ remaining'[i] # 0
        /\ \A j \in Intent \ {i} : UNCHANGED <<remaining[j], istatus[j]>>
    BY <1>2, <2>1, RecordFillEnds, RecordFillIs
  <2>3. Sign(quantity[i]) * 0 = 0 /\ Sign(quantity[i]) * f \in Int
    <3>1. Sign(quantity[i]) \in {-1, 1}
      BY <1>1, SignIs
    <3> HIDE DEF Sign
    <3> QED  BY <3>1
  <2>4. Owed(i) = remaining[i] /\ Owed(i)' = remaining'[i]
    BY <1>1, <1>3, <2>2, <2>3 DEF Owed, IsActive
  <2>5. Owed(i) - Owed(i)' = Sign(quantity[i]) * f
    <3> HIDE DEF Sign
    <3> QED  BY <1>1, <2>2, <2>3, <2>4
  <2> QED  BY <1>1, <1>3, <2>1, <2>2, <2>4, <2>5, FillBalances DEF IsActive
<1>5. CASE ~(f > 0)
  BY <1>3, <1>5, SameBalance DEF Posted
<1> QED  BY <1>4, <1>5

LEMMA TradeBalances ==
  ASSUME OrdersFit, AccountTyped, LossEnds, Balanced, NEW i \in Intent, Trade(i)
  PROVE  Balanced'
<1>1. ASSUME NEW m, NEW n \in {PassiveSize(i), CrossSize(i)}, NEW f \in 0..MaxOrderSize,
             NEW terminal, IsTurn(i), MayTrade(i), Posted(i, m, n, f, terminal)
      PROVE  Balanced'
  <2>1. f \in Nat /\ n <= Abs(remaining[i])
    BY SettingsAssumption, OrderFitsIntent DEF OrdersFit
  <2>2. n \in Nat
    <3>1. Abs(remaining[i]) \in Nat /\ MaxOrderSize \in Nat /\ Acceptable(i, Started(i[1])) \in Nat
      BY SettingsAssumption, Pairs DEF OrdersFit, Typed, Abs, Acceptable
    <3>2. PassiveSize(i) \in Nat
      <4> HIDE DEF Abs, Acceptable
      <4> QED  BY <3>1 DEF PassiveSize, Least
    <3>3. CrossSize(i) \in Nat
      <4> HIDE DEF Abs, Acceptable
      <4> QED  BY <3>1 DEF CrossSize, Least
    <3> QED  BY <3>2, <3>3
  <2> QED  BY <1>1, <2>1, <2>2, PostedBalances DEF IsTurn, MayTrade
<1>2. ASSUME NEW n \in 0..MaxOrderSize, PostUncertain(i, n) PROVE Balanced'
  <2>1. ~lost' => ~lost /\ server' = server
    BY <1>2 DEF PostUncertain, IsTurn, LossEnds, Ending
  <2> QED  BY <1>2, <2>1, SameBalance DEF PostUncertain
<1>3. CASE Skip(i)
  BY <1>3, SameBalance DEF Skip, coreVars, orderVars
<1> QED
  BY <1>1, <1>2, <1>3 DEF Trade, PostPassive, PostAggressive, MayRest, MayCross

(* A new bundle is the only one that works, and a hedge on top of one.     *)
LEMMA AddBundleBalances ==
  ASSUME OrdersFit, AccountTyped, Balanced, ~Busy, UNCHANGED <<lost, unseen>>,
         NEW b \in Bundle, kind[b] = "NONE", NEW k \in Kind, NEW legs \in [Leg -> Int],
         NEW life \in Nat, AddBundle(b, k, legs, life),
         k \in {"ARB", "CLOSE"} => Hedged(legs),
         k = "TENDER" => MaxTick <= life,
         server' \in [Leg -> Int],
         Hedged(server) => Hedged(Plus(server', legs))
  PROVE  Balanced'
<1> USE DEF Balanced
<1>1. \A i \in Intent : ~IsActive(i)
  BY DEF Busy
<1>2. \A i \in Intent : i[1] # b => UNCHANGED <<quantity[i], remaining[i], istatus[i]>>
  BY DEF AddBundle, OrdersFit, Typed
<1>3. \A i \in Intent : i[1] = b =>
         /\ quantity'[i] = legs[i[2]] /\ remaining'[i] = legs[i[2]]
         /\ legs[i[2]] # 0 => istatus'[i] = "ACTIVE"
         /\ legs[i[2]] = 0 => istatus'[i] = istatus[i]
  BY DEF AddBundle, OrdersFit, Typed
<1>4. kind'[b] = k /\ k # "NONE" /\ \A a \in Bundle : a # b => kind'[a] = kind[a]
  BY DEF AddBundle, AccountTyped, Kind
<1>5. \A i \in Intent : i[1] = b => quantity[i] = 0 /\ istatus[i] = "NONE" /\ unseen[i] = 0
  <2> SUFFICES ASSUME NEW i \in Intent, i[1] = b
               PROVE  quantity[i] = 0 /\ istatus[i] = "NONE" /\ unseen[i] = 0
    OBVIOUS
  <2>1. quantity[i] = 0 /\ istatus[i] = "NONE"
    BY DEF OrdersFit, Sound, Neat
  <2>2. unseen[i] = 0
    BY <1>1 DEF OrdersFit, Typed, Sound
  <2> QED  BY <2>1, <2>2
<1>6. \A i \in Intent : IsActive(i)' <=> i[1] = b /\ legs[i[2]] # 0
  BY <1>1, <1>2, <1>3, <1>5 DEF IsActive
<1>7. \A a \in Bundle : Working(a)' => a = b
  BY <1>6 DEF Working, Members
<1>8. ASSUME NEW i \in Intent PROVE Neat(i)'
  <2>1. CASE i[1] = b
    BY <1>3, <1>5, <2>1 DEF Neat, IsActive
  <2>2. CASE i[1] # b
    BY <1>2, <1>7, <2>2, Pairs DEF Neat, IsActive
  <2> QED  BY <2>1, <2>2
<1>9. PlansInShape'
  <2>1. \A a \in Bundle, l \in Leg :
          quantity'[<<a, l>>] = IF a = b THEN legs[l] ELSE quantity[<<a, l>>]
    BY <1>2, <1>3, Pairs
  <2>2. deadline'[b] = caseTick + life /\ \A a \in Bundle : a # b => deadline'[a] = deadline[a]
    BY DEF AddBundle, AccountTyped
  <2>3. k = "TENDER" => MaxTick <= deadline'[b]
    BY <2>2, SettingsAssumption DEF AccountTyped
  <2>4. k # "TENDER" => Hedged([l \in Leg |-> quantity'[<<b, l>>]])
    BY <2>1 DEF Kind, Hedged, Leg
  <2>5. \A a \in Bundle : a # b =>
          [l \in Leg |-> quantity'[<<a, l>>]] = [l \in Leg |-> quantity[<<a, l>>]]
    BY <2>1
  <2> QED  BY <1>4, <2>2, <2>3, <2>4, <2>5 DEF PlansInShape, Kind
<1>10. OneBundleWorks'
  BY <1>7 DEF OneBundleWorks, Created
<1>11. HedgedOrBeingHedged'
  <2> SUFFICES ASSUME ~lost
               PROVE  /\ \A a \in Bundle : Working(a)' => Hedged(Completed(a))'
                      /\ (\A a \in Created' : ~Working(a)') => Hedged(server')
    BY DEF HedgedOrBeingHedged, Created
  <2>1. \A a \in Bundle : ~Working(a)
    BY <1>1 DEF Working, Members
  <2>2. Hedged(Plus(server', legs))
    BY <2>1 DEF HedgedOrBeingHedged, Created
  <2>3. ASSUME NEW l \in Leg PROVE Completed(b)'[l] = server'[l] + legs[l]
    <3>1. <<b, l>> \in Intent /\ <<b, l>>[1] = b /\ <<b, l>>[2] = l
      BY Pairs
    <3>2. unseen'[<<b, l>>] = 0 /\ quantity'[<<b, l>>] = legs[l] /\ remaining'[<<b, l>>] = legs[l]
          /\ (IsActive(<<b, l>>)' <=> legs[l] # 0)
      BY <1>3, <1>5, <1>6, <3>1
    <3>3. Sign(legs[l]) * 0 = 0
      BY SignIs
    <3>4. server'[l] \in Int /\ legs[l] \in Int
      OBVIOUS
    <3> HIDE DEF Sign
    <3> QED  BY <3>2, <3>3, <3>4 DEF Completed
  <2>4. Hedged(Completed(b))'
    BY <2>2, <2>3 DEF Hedged, Plus, Leg
  <2>5. b \in Created'
    BY <1>4 DEF Created
  <2>6. ASSUME ~Working(b)' PROVE Hedged(server')
    <3>1. ASSUME NEW l \in Leg PROVE legs[l] = 0
      <4>1. <<b, l>> \in Intent /\ <<b, l>>[1] = b /\ <<b, l>>[2] = l
        BY Pairs
      <4>2. legs[l] # 0 => <<b, l>> \in Members(b)' /\ IsActive(<<b, l>>)'
        BY <1>3, <1>6, <4>1 DEF Members
      <4> QED  BY <2>6, <4>2 DEF Working
    <3>2. \A l \in Leg : Plus(server', legs)[l] = server'[l]
      BY <3>1 DEF Plus
    <3> QED  BY <2>2, <3>2 DEF Hedged, Leg
  <2> QED  BY <1>7, <2>4, <2>5, <2>6
<1> QED  BY <1>8, <1>9, <1>10, <1>11

(* A working bundle of which no share has traded, and of which no order    *)
(* may have, lacks its whole plan.                                         *)
LEMMA UnstartedIsWhole ==
  ASSUME OrdersFit, AccountTyped, Balanced, NEW b \in Bundle,
         Working(b), ~Started(b), b \notin Held, NEW l \in Leg
  PROVE  /\ quantity[<<b, l>>] # 0 =>
              IsActive(<<b, l>>) /\ remaining[<<b, l>>] = quantity[<<b, l>>]
         /\ unseen[<<b, l>>] = 0
<1> DEFINE i == <<b, l>>
<1>1. i \in Intent /\ i[1] = b
  BY Pairs
<1>2. quantity[i] \in Int /\ remaining[i] \in Int /\ Within(remaining[i], quantity[i])
  BY <1>1 DEF OrdersFit, Typed, Sound
<1>3. CASE quantity[i] = 0
  BY <1>1, <1>3 DEF OrdersFit, Sound, Balanced, Neat, IsActive, Typed
<1>4. CASE quantity[i] # 0
  <2>1. i \in Members(b)
    BY <1>1, <1>4 DEF Members
  <2>2. ~(Filled(i) > 0) /\ ~Live(i)
    BY <2>1 DEF Started, Held
  <2>3. unseen[i] = 0
    BY <1>1, <2>2 DEF OrdersFit, Sound, Live
  <2>4. remaining[i] = quantity[i]
    BY <1>2, <2>2 DEF Filled, Within, Abs
  <2>5. istatus[i] \notin {"NONE", "CANCELLED", "FILLED"}
    BY <1>1, <1>4, <2>4 DEF Balanced, Neat
  <2>6. IsActive(i)
    BY <1>1, <2>5 DEF AccountTyped, IntentStatus, IsActive
  <2> QED  BY <2>3, <2>4, <2>6
<1> QED  BY <1>3, <1>4

(* The deadline cancels whole plans, which are hedged themselves; the exit *)
(* of a tender does not reach it.                                          *)
LEMMA PrepareBalances ==
  ASSUME OrdersFit, AccountTyped, Balanced, Prepare
  PROVE  Balanced'
<1> DEFINE Gone(b) == Overdue(b) /\ b \notin Held
<1>1. UNCHANGED <<kind, quantity, remaining, deadline, server, lost, unseen>>
  BY DEF Prepare, PrepareBundles, orderVars
<1>2. \A i \in Intent :
        istatus'[i] = IF IsActive(i) /\ Gone(i[1]) THEN "CANCELLED" ELSE istatus[i]
  BY DEF Prepare, PrepareBundles
<1> HIDE DEF Gone
<1>3. \A i \in Intent : IsActive(i)' <=> IsActive(i) /\ ~Gone(i[1])
  BY <1>2 DEF IsActive
<1>4. \A b \in Bundle : Working(b)' <=> Working(b) /\ ~Gone(b)
  BY <1>1, <1>3 DEF Working, Members
<1>5. ASSUME NEW i \in Intent PROVE Neat(i)'
  <2>1. CASE IsActive(i) /\ Gone(i[1])
    BY <1>1, <1>2, <1>3, <1>4, <2>1, Pairs DEF Balanced, Neat, IsActive
  <2>2. CASE ~(IsActive(i) /\ Gone(i[1]))
    BY <1>1, <1>2, <1>3, <1>4, <2>2, Pairs DEF Balanced, Neat
  <2> QED  BY <2>1, <2>2
<1>6. PlansInShape'
  BY <1>1 DEF Balanced, PlansInShape, Hedged
<1>7. OneBundleWorks'
  BY <1>1, <1>4 DEF Balanced, OneBundleWorks, Created
<1>8. HedgedOrBeingHedged'
  <2> SUFFICES ASSUME ~lost
               PROVE  /\ \A b \in Created : Working(b)' => Hedged(Completed(b))'
                      /\ (\A b \in Created : ~Working(b)') => Hedged(server)
    BY <1>1 DEF HedgedOrBeingHedged, Created, Hedged
  <2>1. ASSUME NEW b \in Created, Working(b)' PROVE Hedged(Completed(b))'
    <3>1. b \in Bundle /\ Working(b) /\ ~Gone(b)
      BY <1>4, <2>1 DEF Created
    <3>2. \A l \in Leg : IsActive(<<b, l>>)' <=> IsActive(<<b, l>>)
      BY <1>3, <3>1, Pairs
    <3>3. Completed(b)' = Completed(b)
      BY <1>1, <3>2 DEF Completed
    <3> QED  BY <3>1, <3>3 DEF Balanced, HedgedOrBeingHedged, Hedged
  <2>2. ASSUME \A b \in Created : ~Working(b)' PROVE Hedged(server)
    <3>1. CASE \A b \in Created : ~Working(b)
      BY <3>1 DEF Balanced, HedgedOrBeingHedged
    <3>2. ASSUME NEW b \in Created, Working(b) PROVE Hedged(server)
      <4>1. b \in Bundle /\ Gone(b)
        BY <1>4, <2>2, <3>2 DEF Created
      <4>2. Overdue(b) /\ b \notin Held /\ ~Started(b)
        BY <4>1 DEF Gone, Overdue
      <4>3. kind[b] \in {"ARB", "CLOSE"}
        <5>1. PICK i \in Intent : i[1] = b /\ IsExpired(i)
          BY <4>2 DEF Overdue, Members
        <5>2. caseTick > deadline[b] /\ caseTick <= MaxTick
          BY <5>1 DEF IsExpired, AccountTyped
        <5>3. caseTick \in Nat /\ deadline[b] \in Nat /\ MaxTick \in Nat
          BY <4>1, SettingsAssumption DEF AccountTyped
        <5>4. kind[b] # "TENDER"
          <6>1. kind[b] = "TENDER" => MaxTick <= deadline[b]
            BY <4>1 DEF Balanced, PlansInShape
          <6> QED  BY <5>2, <5>3, <6>1
        <5>5. kind[b] \in Kind
          BY <4>1 DEF Created, AccountTyped
        <5> QED  BY <5>4, <5>5 DEF Kind
      <4>4. Hedged([l \in Leg |-> quantity[<<b, l>>]])
        BY <4>1, <4>3 DEF Balanced, PlansInShape
      <4>5. ASSUME NEW l \in Leg
            PROVE  /\ Completed(b)[l] = server[l] + quantity[<<b, l>>]
                   /\ server[l] \in Int /\ quantity[<<b, l>>] \in Int
        <5>1. <<b, l>> \in Intent
          BY <4>1, Pairs
        <5>2. server[l] \in Int /\ quantity[<<b, l>>] \in Int
          BY <5>1 DEF OrdersFit, Typed, AccountTyped
        <5>3. /\ quantity[<<b, l>>] # 0 =>
                    IsActive(<<b, l>>) /\ remaining[<<b, l>>] = quantity[<<b, l>>]
              /\ unseen[<<b, l>>] = 0
              /\ quantity[<<b, l>>] = 0 => ~IsActive(<<b, l>>)
          BY <3>2, <4>1, <4>2, <5>1, UnstartedIsWhole DEF Balanced, Neat, IsActive
        <5>4. Sign(quantity[<<b, l>>]) * 0 = 0
          BY <5>2, SignIs
        <5> HIDE DEF Sign
        <5> QED  BY <5>2, <5>3, <5>4 DEF Completed
      <4>6. Hedged(Completed(b))
        BY <3>2 DEF Balanced, HedgedOrBeingHedged
      <4>7. /\ quantity[<<b, "BULL">>] = quantity[<<b, "BEAR">>]
            /\ quantity[<<b, "RITC">>] = -quantity[<<b, "BULL">>]
        BY <4>4 DEF Hedged, Leg
      <4> QED  BY <4>5, <4>6, <4>7 DEF Hedged, Leg
    <3> QED  BY <3>1, <3>2
  <2> QED  BY <2>1, <2>2
<1> QED  BY <1>5, <1>6, <1>7, <1>8 DEF Balanced

(* What the invariant of the account is, and that every step keeps it.     *)
AccountFits == OrdersFit /\ AccountTyped /\ LossEnds /\ Balanced

LEMMA AccountInit == Init => AccountFits
<1> SUFFICES ASSUME Init PROVE AccountFits
  OBVIOUS
<1>1. OrdersFit
  BY OrdersFitInit
<1>2. AccountTyped
  <2>1. caseTick \in Nat /\ caseTick <= MaxTick /\ lost \in BOOLEAN
    <3>1. caseTick = 0 /\ lost = FALSE
      BY DEF Init, InitIntentions
    <3>2. 0 \in Nat /\ 0 <= MaxTick
      BY SettingsAssumption
    <3> QED  BY <3>1, <3>2, Zenon
  <2>2. /\ kind \in [Bundle -> Kind \cup {"NONE"}] /\ istatus \in [Intent -> IntentStatus]
        /\ server \in [Leg -> Int] /\ deadline \in [Bundle -> Nat]
    <3>1. "NONE" \in Kind \cup {"NONE"} /\ "NONE" \in IntentStatus /\ 0 \in Int /\ 0 \in Nat
      BY DEF IntentStatus
    <3> QED  BY <3>1 DEF Init, InitIntentions
  <2> QED  BY <2>1, <2>2 DEF AccountTyped
<1>3. LossEnds
  BY DEF Init, InitIntentions, LossEnds
<1>4. \A i \in Intent : istatus[i] = "NONE" /\ quantity[i] = 0
  BY DEF Init, InitIntentions
<1>5. \A b \in Bundle : kind[b] = "NONE"
  BY DEF Init, InitIntentions
<1>6. Created = {}
  BY <1>5 DEF Created
<1>7. Hedged(server)
  <2>1. server["BULL"] = 0 /\ server["BEAR"] = 0 /\ server["RITC"] = 0
    BY DEF Init, InitIntentions, Leg
  <2>2. \A m, n \in Int : m + n = 0 => m = -n
    OBVIOUS
  <2>3. /\ server["BULL"] \in Int /\ server["RITC"] \in Int
        /\ server["BULL"] = server["BEAR"] /\ server["RITC"] + server["BULL"] = 0
    BY <2>1
  <2>4. server["RITC"] = -server["BULL"]
    BY <2>2, <2>3
  <2> QED  BY <2>3, <2>4 DEF Hedged
<1>8. Balanced
  BY <1>4, <1>5, <1>6, <1>7
     DEF Balanced, Neat, PlansInShape, OneBundleWorks, HedgedOrBeingHedged, IsActive
<1> QED  BY <1>1, <1>2, <1>3, <1>8 DEF AccountFits

LEMMA BalanceStep ==
  ASSUME AccountFits, [Next]_vars
  PROVE  Balanced'
<1> USE DEF AccountFits
<1>1. CASE PlaceArb \/ TakeTender
  <2>1. /\ ~Busy /\ server' \in [Leg -> Int] /\ UNCHANGED <<lost, unseen>>
    BY <1>1, DecisionIs DEF orderVars
  <2>2. PICK b \in Bundle, k \in Kind, legs \in [Leg -> Int], life \in Nat :
          /\ kind[b] = "NONE" /\ AddBundle(b, k, legs, life)
          /\ k \in {"ARB", "CLOSE"} => Hedged(legs)
          /\ k = "TENDER" => MaxTick <= life
          /\ Hedged(server) => Hedged(Plus(server', legs))
    BY <1>1, DecisionIs
  <2> QED  BY <2>1, <2>2, AddBundleBalances
<1>2. CASE BeginCycle \/ PlaceNothing \/ UNCHANGED vars
  BY <1>2, SameBalance DEF BeginCycle, PlaceNothing, StartFulfilling, coreVars, orderVars, vars
<1>3. CASE CallRaises \/ Settle \/ Interrupt \/ Exit
  BY <1>3, SameBalance DEF CallRaises, Settle, SettleBundles, Interrupt, Exit, orderVars
<1>4. CASE Prepare
  BY <1>4, PrepareBalances
<1>5. ASSUME NEW i \in Intent, Exchange(i) \/ Visit(i) \/ Trade(i) PROVE Balanced'
  BY <1>5, ExchangeBalances, VisitBalances, TradeBalances
<1> QED  BY <1>1, <1>2, <1>3, <1>4, <1>5 DEF Next

LEMMA AccountStays == Spec => []AccountFits
<1>1. AccountFits /\ [Next]_vars => AccountFits'
  <2>1. OrdersFit /\ [Next]_vars => OrdersFit'
    BY OrdersFitStep
  <2> QED  BY <2>1, AccountStep, LossStep, BalanceStep DEF AccountFits
<1> QED  BY AccountInit, <1>1, PTL DEF Spec

(* While no reply was lost, the account is hedged or the open intents,     *)
(* less the fills the program has not seen yet, are exactly what is        *)
(* missing from a hedge, however resting orders fill, drop, survive their  *)
(* cancellation or outlive the deadline.                                   *)
THEOREM AlwaysHedgedOrBeingHedged == Spec => []HedgedOrBeingHedged
<1>1. AccountFits => HedgedOrBeingHedged
  BY DEF AccountFits, Balanced
<1> QED  BY AccountStays, <1>1, PTL

(***************************************************************************)
(* One leg at a time.                                                      *)
(***************************************************************************)
(* A share filled is never unfilled: a decision adds a bundle, the other   *)
(* steps book fills of active intents or cancel what is overdue.           *)
StepOfIntents ==
  \/ UNCHANGED <<remaining, istatus>>
  \/ \E i \in Intent, n \in Nat :
       n > 0 /\ n <= Abs(remaining[i]) /\ IsActive(i) /\ RecordFill(i, n)
  \/ Prepare

LEMMA BookingIs ==
  ASSUME OrdersFit, NEW i \in Intent, BookFills(i) \/ NothingBooked
  PROVE  StepOfIntents
<1>1. unseen[i] \in Nat /\ resting[i] \in Nat /\ stray[i] \in Nat
      /\ unseen[i] + resting[i] + stray[i] <= Abs(remaining[i]) /\ Abs(remaining[i]) \in Int
      /\ (unseen[i] > 0 => IsActive(i))
  BY DEF OrdersFit, Typed, Sound, Abs
<1>2. unseen[i] <= Abs(remaining[i])
  BY <1>1
<1> QED  BY <1>1, <1>2 DEF BookFills, NothingBooked, StepOfIntents

LEMMA PostIs ==
  ASSUME OrdersFit, NEW i \in Intent, NEW m, NEW f \in 0..MaxOrderSize, NEW terminal,
         NEW n \in {PassiveSize(i), CrossSize(i)}, IsTurn(i), Posted(i, m, n, f, terminal)
  PROVE  StepOfIntents /\ UNCHANGED <<kind, quantity>>
<1>1. f \in Nat /\ n <= Abs(remaining[i]) /\ IsActive(i) /\ Abs(remaining[i]) \in Int
  BY SettingsAssumption, OrderFitsIntent DEF OrdersFit, Sound, IsTurn, Typed, Abs
<1>2. f <= n /\ n \in Int
  <2>1. f \in 0..n
    BY DEF Posted
  <2>2. Acceptable(i, Started(i[1])) \in Nat /\ MaxOrderSize \in Nat
    BY SettingsAssumption, Pairs DEF OrdersFit, Typed, Acceptable
  <2>3. PassiveSize(i) \in Int /\ CrossSize(i) \in Int
    <3> HIDE DEF Abs, Acceptable
    <3>1. PassiveSize(i) \in Int
      BY <1>1, <2>2 DEF PassiveSize, Least
    <3>2. CrossSize(i) \in Int
      BY <1>1, <2>2 DEF CrossSize, Least
    <3> QED  BY <3>1, <3>2
  <2> QED  BY <2>1, <2>3
<1>3. f <= Abs(remaining[i])
  BY <1>1, <1>2
<1>4. UNCHANGED <<kind, quantity>>
      /\ IF f > 0 THEN RecordFill(i, f) ELSE UNCHANGED <<remaining, istatus>>
  BY DEF Posted
<1> QED  BY <1>1, <1>3, <1>4 DEF StepOfIntents

LEMMA StepOfIntentsIs ==
  ASSUME OrdersFit, [Next]_vars
  PROVE  PlaceArb \/ TakeTender \/ (StepOfIntents /\ UNCHANGED <<kind, quantity>>)
<1>1. CASE BeginCycle \/ PlaceNothing \/ CallRaises \/ Settle \/ Interrupt \/ Exit
           \/ UNCHANGED vars
  BY <1>1 DEF BeginCycle, PlaceNothing, CallRaises, Settle, SettleBundles, Interrupt, Exit,
              coreVars, vars, StepOfIntents
<1>2. CASE Prepare
  BY <1>2 DEF Prepare, StepOfIntents
<1>3. ASSUME NEW i \in Intent, Exchange(i) \/ Skip(i)
      PROVE  StepOfIntents /\ UNCHANGED <<kind, quantity>>
  BY <1>3 DEF Exchange, ExchangeFills, ExchangeDrops, StrayFills, Skip, coreVars, StepOfIntents
<1>4. ASSUME NEW i \in Intent, Visit(i) PROVE StepOfIntents /\ UNCHANGED <<kind, quantity>>
  <2>1. /\ UNCHANGED <<kind, quantity>>
        /\ BookFills(i) \/ NothingBooked \/ UNCHANGED <<remaining, istatus>>
    BY <1>4 DEF Visit, Reconcile, Confirm, StopConfirm, Cancel, StopCancel, coreVars
  <2> QED  BY <2>1, BookingIs DEF StepOfIntents
<1>5. ASSUME NEW i \in Intent, Trade(i) PROVE StepOfIntents /\ UNCHANGED <<kind, quantity>>
  <2>1. CASE \E f \in 0..MaxOrderSize, terminal \in BOOLEAN :
               PostPassive(i, f, terminal) \/ PostAggressive(i, f, terminal)
    BY <2>1, PostIs DEF PostPassive, PostAggressive
  <2>2. CASE \E n \in 0..MaxOrderSize : PostUncertain(i, n)
    BY <2>2 DEF PostUncertain, StepOfIntents
  <2> QED  BY <1>3, <1>5, <2>1, <2>2 DEF Trade
<1> QED  BY <1>1, <1>2, <1>3, <1>4, <1>5 DEF Next

LEMMA FillsGrow ==
  ASSUME OrdersFit, StepOfIntents, UNCHANGED quantity
  PROVE  /\ \A i \in Intent : Abs(remaining'[i]) <= Abs(remaining[i])
         /\ \A b \in Bundle : Started(b) => Started(b)'
<1>0. \A i \in Intent : remaining[i] \in Int /\ quantity[i] \in Int
  BY DEF OrdersFit, Typed
<1>1. \A i \in Intent : Abs(remaining[i]) \in Int /\ Abs(quantity[i]) \in Int
  BY <1>0 DEF Abs
<1>2. \A i \in Intent : Abs(remaining'[i]) <= Abs(remaining[i]) /\ Abs(remaining'[i]) \in Int
  <2>1. CASE UNCHANGED remaining
    BY <1>1, <2>1
  <2>2. ASSUME NEW i \in Intent, NEW n \in Nat, n <= Abs(remaining[i]), RecordFill(i, n)
        PROVE  \A j \in Intent :
                 Abs(remaining'[j]) <= Abs(remaining[j]) /\ Abs(remaining'[j]) \in Int
    <3>1. /\ Abs(remaining'[i]) = Abs(remaining[i]) - n
          /\ \A j \in Intent \ {i} : UNCHANGED remaining[j]
      BY <2>2, RecordFillIs
    <3> HIDE DEF Abs
    <3> QED  BY <1>1, <3>1
  <2> QED  BY <2>1, <2>2 DEF StepOfIntents, Prepare, PrepareBundles
<1>3. ASSUME NEW b \in Bundle, Started(b) PROVE Started(b)'
  <2>1. PICK i \in Intent : i \in Members(b) /\ Filled(i) > 0
    BY <1>3 DEF Started, Members
  <2>2. i \in Members(b)' /\ Filled(i)' > 0
    <3>1. i \in Members(b)'
      BY <2>1 DEF Members
    <3> HIDE DEF Abs
    <3> QED  BY <1>1, <1>2, <2>1, <3>1 DEF Filled
  <2> QED  BY <2>2 DEF Started
<1> QED  BY <1>2, <1>3

(* A bundle with an order was tried, and until a share of it has traded    *)
(* the orders of an arbitrage are one order.                               *)
LegsInTurn ==
  /\ \A i \in Intent : Live(i) => quantity[i] # 0 /\ i[1] \in tried
  /\ \A i, j \in Intent :
       i[1] = j[1] /\ kind[i[1]] = "ARB" /\ ~Started(i[1]) /\ Live(i) /\ Live(j) => i = j

(* Steps that post no order.                                               *)
LEMMA NoNewOrder ==
  ASSUME OrdersFit, LegsInTurn, StepOfIntents, UNCHANGED <<kind, quantity>>,
         tried \subseteq tried', \A i \in Intent : Live(i)' => Live(i)
  PROVE  LegsInTurn'
<1>1. \A b \in Bundle : Started(b) => Started(b)'
  BY FillsGrow
<1> QED  BY <1>1, Pairs DEF LegsInTurn

(* A first order is posted to a bundle that has none, and what waits for   *)
(* the first order waits until it is gone.                                 *)
LEMMA PostedInTurn ==
  ASSUME OrdersFit, LegsInTurn, StepOfIntents, UNCHANGED <<kind, quantity>>,
         NEW i \in Intent, quantity[i] # 0, MayRest(i) \/ MayCross(i),
         tried' = tried \cup {i[1]}, \A j \in Intent : Live(j)' => Live(j) \/ j = i
  PROVE  LegsInTurn'
<1>1. \A b \in Bundle : Started(b) => Started(b)'
  BY FillsGrow
<1>2. Fresh(i[1]) => \A j \in Intent : j[1] = i[1] => ~Live(j)
  BY Pairs DEF MayRest, MayCross, LegsInTurn, Held, Members
<1> QED  BY <1>1, <1>2, Pairs DEF LegsInTurn, Fresh

LEMMA LegsInTurnInit == Init => LegsInTurn
BY DEF Init, LegsInTurn, Live

LEMMA LegsInTurnStep ==
  ASSUME AccountFits, LegsInTurn, [Next]_vars
  PROVE  LegsInTurn'
<1>0. OrdersFit /\ AccountTyped /\ Balanced
  BY DEF AccountFits
<1>1. CASE PlaceArb \/ TakeTender
  <2>1. UNCHANGED <<mode, tried>>
    BY <1>0, <1>1, DecisionIs DEF orderVars
  <2>2. PICK b \in Bundle, k \in Kind, legs \in [Leg -> Int], life \in Nat :
          kind[b] = "NONE" /\ AddBundle(b, k, legs, life)
    BY <1>0, <1>1, DecisionIs
  <2>3. \A i \in Intent : i[1] # b => UNCHANGED <<quantity[i], remaining[i]>> /\ kind'[i[1]] = kind[i[1]]
    BY <1>0, <2>2, Pairs DEF AddBundle, AccountTyped
  <2>4. \A i \in Intent : i[1] = b => ~Live(i)
    BY <1>0, <2>2 DEF LegsInTurn, OrdersFit, Sound
  <2>5. \A i \in Intent : Live(i)' <=> Live(i)
    BY <2>1 DEF Live
  <2>6. \A a \in Bundle : a # b => (Started(a)' <=> Started(a))
    BY <2>3 DEF Started, Members, Filled
  <2> QED  BY <2>1, <2>3, <2>4, <2>5, <2>6, Pairs DEF LegsInTurn
<1>2. CASE ~(PlaceArb \/ TakeTender)
  <2>0. StepOfIntents /\ UNCHANGED <<kind, quantity>>
    BY <1>0, <1>2, StepOfIntentsIs
  <2>1. CASE UNCHANGED <<mode, tried>>
    BY <1>0, <2>0, <2>1, NoNewOrder DEF Live
  <2>2. CASE BeginCycle \/ PlaceNothing \/ CallRaises \/ Settle \/ Interrupt \/ Exit \/ Prepare
             \/ UNCHANGED vars
    BY <2>1, <2>2 DEF BeginCycle, PlaceNothing, StartFulfilling, CallRaises, Settle, Interrupt,
                      Exit, Prepare, orderVars, vars
  <2>3. ASSUME NEW i \in Intent, Exchange(i) PROVE LegsInTurn'
    BY <2>1, <2>3 DEF Exchange, ExchangeFills, ExchangeDrops, StrayFills
  <2>4. ASSUME NEW i \in Intent, Visit(i) PROVE LegsInTurn'
    <3>1. UNCHANGED tried /\ \/ UNCHANGED mode
                             \/ mode' = [mode EXCEPT ![i] = "NONE"]
      BY <2>4 DEF Visit, Reconcile, Confirm, StopConfirm, Cancel, StopCancel, BookFills,
                  NothingBooked
    <3>2. \A j \in Intent : Live(j)' => Live(j)
      BY <1>0, <3>1 DEF Live, OrdersFit, Typed
    <3> QED  BY <1>0, <2>0, <3>1, <3>2, NoNewOrder
  <2>5. ASSUME NEW i \in Intent, Trade(i) PROVE LegsInTurn'
    <3>1. ASSUME NEW m, NEW n, NEW f, NEW terminal, IsTurn(i), MayRest(i) \/ MayCross(i),
                 Posted(i, m, n, f, terminal)
          PROVE  LegsInTurn'
      <4>1. /\ tried' = tried \cup {i[1]}
            /\ UNCHANGED mode \/ mode' = [mode EXCEPT ![i] = m]
        BY <3>1 DEF Posted
      <4>2. \A j \in Intent : Live(j)' => Live(j) \/ j = i
        BY <1>0, <4>1 DEF Live, OrdersFit, Typed
      <4>3. IsActive(i)
        BY <1>0, <3>1 DEF OrdersFit, Sound, IsTurn
      <4>4. quantity[i] # 0
        BY <1>0, <4>3 DEF Balanced, Neat, IsActive
      <4> QED  BY <1>0, <2>0, <3>1, <4>1, <4>2, <4>4, PostedInTurn
    <3>2. CASE \E f \in 0..MaxOrderSize, terminal \in BOOLEAN :
                 PostPassive(i, f, terminal) \/ PostAggressive(i, f, terminal)
      BY <3>1, <3>2 DEF PostPassive, PostAggressive
    <3>3. CASE (\E n \in 0..MaxOrderSize : PostUncertain(i, n)) \/ Skip(i)
      BY <2>1, <3>3 DEF PostUncertain, Skip, orderVars
    <3> QED  BY <2>5, <3>2, <3>3 DEF Trade
  <2> QED  BY <1>2, <2>2, <2>3, <2>4, <2>5 DEF Next
<1> QED  BY <1>1, <1>2

(* The other legs of an arbitrage wait until the order that works its      *)
(* first one is gone or a share of the bundle has traded.                  *)
THEOREM LegsWaitTheirTurn == Spec => []OneLegAtATimeUntilStarted
<1>1. AccountFits /\ LegsInTurn => OneLegAtATimeUntilStarted
  <2>1. OrdersFit => \A i \in Intent : resting[i] > 0 => Live(i)
    BY DEF OrdersFit, Typed, Sound, Live
  <2> QED  BY <2>1 DEF AccountFits, LegsInTurn, OneLegAtATimeUntilStarted
<1>2. AccountFits /\ LegsInTurn /\ [Next]_vars => LegsInTurn'
  BY LegsInTurnStep
<1> QED  BY AccountStays, LegsInTurnInit, <1>1, <1>2, PTL DEF Spec

(***************************************************************************)
(* The promise.                                                            *)
(***************************************************************************)
(* What is left to trade is what the one working bundle lacks.             *)
Owing(b) == [l \in Leg |-> IF IsActive(<<b, l>>) THEN remaining[<<b, l>>] ELSE 0]
Begun == \E b \in Created : Working(b) /\ Started(b)

LeftIs ==
  /\ \A b \in Created : Working(b) =>
       /\ LeftToTrade = Owing(b) /\ LeftToTrade # Obligation!Nothing
       /\ Begun <=> Started(b)
  /\ (\A b \in Created : ~Working(b)) => LeftToTrade = Obligation!Nothing /\ ~Begun
  /\ LeftToTrade \in [Leg -> Int]

LEMMA LeftIsOwed == AccountFits => LeftIs
<1> SUFFICES ASSUME AccountFits PROVE LeftIs
  OBVIOUS
<1>0. OrdersFit /\ (\A i \in Intent : Neat(i)) /\ OneBundleWorks
  BY DEF AccountFits, Balanced
<1>1. ASSUME NEW b \in Created, NEW l \in Leg, IsActive(<<b, l>>) PROVE Working(b)
  <2>1. <<b, l>> \in Intent /\ <<b, l>>[1] = b
    BY Pairs DEF Created
  <2>2. <<b, l>> \in Members(b)
    BY <1>0, <1>1, <2>1 DEF Neat, Members, IsActive
  <2> QED  BY <1>1, <2>2 DEF Working
<1>2. ASSUME NEW b \in Created, Working(b)
      PROVE  /\ LeftToTrade = Owing(b) /\ LeftToTrade # Obligation!Nothing
             /\ Begun <=> Started(b)
  <2>1. \A a \in Created : Working(a) => a = b
    BY <1>0, <1>2 DEF OneBundleWorks
  <2>2. ASSUME NEW l \in Leg PROVE LeftToTrade[l] = Owing(b)[l]
    <3>1. \A a \in Created : IsActive(<<a, l>>) => a = b
      BY <1>1, <2>1
    <3>2. CASE IsActive(<<b, l>>)
      <4>1. (CHOOSE a \in Created : IsActive(<<a, l>>)) = b
        BY <3>1, <3>2
      <4> QED  BY <3>2, <4>1 DEF LeftToTrade, Owing
    <3>3. CASE ~IsActive(<<b, l>>)
      BY <3>1, <3>3 DEF LeftToTrade, Owing
    <3> QED  BY <3>2, <3>3
  <2>3. LeftToTrade = Owing(b)
    BY <2>2 DEF LeftToTrade, Owing
  <2>4. PICK i \in Intent : i[1] = b /\ IsActive(i) /\ i[2] \in Leg /\ i = <<b, i[2]>>
    BY <1>2, Pairs DEF Working, Members
  <2>5. remaining[i] # 0
    BY <1>0, <2>4 DEF Neat
  <2>6. Owing(b)[i[2]] # 0
    BY <2>4, <2>5 DEF Owing
  <2>7. LeftToTrade # Obligation!Nothing
    BY <2>3, <2>4, <2>6 DEF Obligation!Nothing
  <2>8. Begun <=> Started(b)
    BY <1>2, <2>1 DEF Begun
  <2> QED  BY <2>3, <2>7, <2>8
<1>3. ASSUME \A b \in Created : ~Working(b) PROVE LeftToTrade = Obligation!Nothing /\ ~Begun
  BY <1>1, <1>3 DEF LeftToTrade, Obligation!Nothing, Begun
<1>4. LeftToTrade \in [Leg -> Int]
  <2>1. Obligation!Nothing \in [Leg -> Int]
    BY DEF Obligation!Nothing
  <2>2. ASSUME NEW b \in Created PROVE Owing(b) \in [Leg -> Int]
    BY <1>0, Pairs DEF Owing, OrdersFit, Typed, Created
  <2> QED  BY <1>2, <1>3, <2>1, <2>2
<1> QED  BY <1>2, <1>3, <1>4 DEF LeftIs

(* A step that changes neither what is left nor whether it has begun.      *)
LEMMA SamePromise ==
  ASSUME LeftToTrade' = LeftToTrade, Begun' <=> Begun
  PROVE  [Obligation!Next]_(Obligation!vars)
<1>1. (\E b \in Created : Working(b) /\ Started(b))' =
      (\E b \in Created : Working(b) /\ Started(b))
  BY DEF Begun
<1> QED  BY <1>1 DEF Obligation!vars

(* A decision takes a plan when nothing is left of the last one.           *)
LEMMA DecisionTakes ==
  ASSUME AccountFits, LeftIs, LeftIs', PlaceArb \/ TakeTender
  PROVE  [Obligation!Next]_(Obligation!vars)
<1>0. OrdersFit /\ AccountTyped /\ Balanced
  BY DEF AccountFits
<1>1. \A i \in Intent : ~IsActive(i)
  BY <1>0, DecisionIs DEF Busy
<1>2. PICK b \in Bundle, k \in Kind, legs \in [Leg -> Int], life \in Nat :
        kind[b] = "NONE" /\ AddBundle(b, k, legs, life)
  BY <1>0, DecisionIs
<1>3. LeftToTrade = Obligation!Nothing /\ ~Begun
  BY <1>1 DEF LeftIs, Working, Members
<1>4. \A i \in Intent : IsActive(i)' => i[1] = b
  BY <1>0, <1>1, <1>2 DEF AddBundle, AccountTyped, IsActive
<1>5. \A a \in Bundle : Working(a)' => a = b
  BY <1>4 DEF Working, Members
<1>6. ~Started(b)'
  <2>1. \A i \in Intent : i[1] = b => remaining'[i] = quantity'[i] /\ quantity'[i] \in Int
    BY <1>2, Pairs DEF AddBundle
  <2>2. \A i \in Intent : i[1] = b => ~(Filled(i)' > 0)
    BY <2>1 DEF Filled, Abs
  <2> QED  BY <2>2 DEF Started, Members
<1>7. ~Begun'
  BY <1>5, <1>6 DEF Begun, Created
<1>8. (\E a \in Created : Working(a) /\ Started(a))' = FALSE
  BY <1>7 DEF Begun
<1>9. CASE LeftToTrade' = Obligation!Nothing
  <2>1. LeftToTrade' = LeftToTrade
    BY <1>3, <1>9
  <2> QED  BY <1>3, <1>7, <2>1, SamePromise
<1>10. CASE LeftToTrade' # Obligation!Nothing
  BY <1>3, <1>8, <1>10 DEF Obligation!Next, Obligation!Take, LeftIs
<1> QED  BY <1>9, <1>10

(* The deadline drops a plan no share of which has traded.                 *)
LEMMA DeadlineDrops ==
  ASSUME AccountFits, LeftIs, LeftIs', Prepare
  PROVE  [Obligation!Next]_(Obligation!vars)
<1> DEFINE Gone(b) == Overdue(b) /\ b \notin Held
<1>1. UNCHANGED <<kind, quantity, remaining>>
  BY DEF Prepare, PrepareBundles
<1>2. \A i \in Intent :
        istatus'[i] = IF IsActive(i) /\ Gone(i[1]) THEN "CANCELLED" ELSE istatus[i]
  BY DEF Prepare, PrepareBundles
<1>3. \A b \in Bundle : Gone(b) => ~Started(b)
  BY DEF Overdue
<1> HIDE DEF Gone
<1>4. \A i \in Intent : IsActive(i)' <=> IsActive(i) /\ ~Gone(i[1])
  BY <1>2 DEF IsActive
<1>5. \A b \in Bundle : (Working(b)' <=> Working(b) /\ ~Gone(b)) /\ (Started(b)' <=> Started(b))
  BY <1>1, <1>4 DEF Working, Started, Members, Filled
<1>6. Created' = Created /\ Created \subseteq Bundle
  BY <1>1 DEF Created
<1>7. CASE \A b \in Created : ~Working(b)
  <2>1. LeftToTrade = Obligation!Nothing /\ ~Begun
    BY <1>7 DEF LeftIs
  <2>2. LeftToTrade' = Obligation!Nothing /\ ~Begun'
    <3>1. \A b \in Created' : ~Working(b)'
      BY <1>5, <1>6, <1>7
    <3> QED  BY <3>1 DEF LeftIs, Obligation!Nothing
  <2>3. LeftToTrade' = LeftToTrade
    BY <2>1, <2>2
  <2> QED  BY <2>1, <2>2, <2>3, SamePromise
<1>8. ASSUME NEW b \in Created, Working(b) PROVE [Obligation!Next]_(Obligation!vars)
  <2>1. LeftToTrade = Owing(b) /\ (Begun <=> Started(b))
    BY <1>8 DEF LeftIs
  <2>2. CASE Gone(b)
    <3>1. ~Begun
      BY <1>3, <1>6, <2>1, <2>2
    <3>2. \A a \in Created' : ~Working(a)'
      BY <1>5, <1>6, <1>8, <2>2 DEF AccountFits, Balanced, OneBundleWorks
    <3>3. LeftToTrade' = Obligation!Nothing /\ ~Begun'
      BY <3>2 DEF LeftIs, Obligation!Nothing
    <3>4. /\ (\E a \in Created : Working(a) /\ Started(a))' = FALSE
          /\ ~(\E a \in Created : Working(a) /\ Started(a))
      BY <3>1, <3>3 DEF Begun
    <3> QED  BY <3>3, <3>4 DEF Obligation!Next, Obligation!Drop
  <2>3. CASE ~Gone(b)
    <3>1. b \in Created' /\ Working(b)' /\ (Started(b)' <=> Started(b))
      BY <1>5, <1>6, <1>8, <2>3
    <3>2. LeftToTrade' = Owing(b)' /\ (Begun' <=> Started(b)')
      BY <3>1 DEF LeftIs
    <3>3. \A l \in Leg : IsActive(<<b, l>>)' <=> IsActive(<<b, l>>)
      BY <1>4, <1>6, <2>3, Pairs
    <3>4. Owing(b)' = Owing(b)
      BY <1>1, <3>3 DEF Owing
    <3>5. LeftToTrade' = LeftToTrade
      BY <2>1, <3>2, <3>4
    <3> QED  BY <2>1, <3>1, <3>2, <3>5, SamePromise
  <2> QED  BY <2>2, <2>3
<1> QED  BY <1>7, <1>8

(* A fill brings one leg of a plan nearer to zero, and begins it.          *)
LEMMA FillFulfils ==
  ASSUME AccountFits, AccountFits', LeftIs, LeftIs', UNCHANGED <<kind, quantity>>,
         NEW i \in Intent, NEW n \in Nat, n > 0, n <= Abs(remaining[i]), IsActive(i),
         RecordFill(i, n)
  PROVE  Obligation!Fill
<1> DEFINE b == i[1]
           l == i[2]
<1>0. OrdersFit /\ Balanced /\ Balanced'
  BY DEF AccountFits
<1>1. b \in Bundle /\ l \in Leg /\ i = <<b, l>>
  BY Pairs
<1>2. quantity[i] # 0 /\ remaining[i] # 0
  BY <1>0 DEF Balanced, Neat, IsActive
<1>3. i \in Members(b) /\ i \in Members(b)' /\ Working(b) /\ b \in Created /\ Created' = Created
  BY <1>0, <1>1, <1>2 DEF Members, Working, Created, OrdersFit, Sound
<1>4. \A a \in Created : Working(a) => a = b
  BY <1>0, <1>3 DEF Balanced, OneBundleWorks
<1>5. LeftToTrade = Owing(b)
  BY <1>3 DEF LeftIs
<1>6. /\ remaining'[i] = remaining[i] - Sign(quantity[i]) * n /\ remaining'[i] \in Int
      /\ \/ istatus'[i] = "FILLED" /\ remaining'[i] = 0
         \/ istatus'[i] = "WORKING" /\ remaining'[i] # 0
      /\ \A j \in Intent \ {i} : UNCHANGED <<remaining[j], istatus[j]>>
      /\ Abs(remaining'[i]) = Abs(remaining[i]) - n /\ Within(remaining'[i], quantity[i])
  BY <1>0, RecordFillEnds, RecordFillIs
<1>7. remaining[i] \in Int /\ quantity[i] \in Int /\ Within(remaining[i], quantity[i])
  BY <1>0 DEF OrdersFit, Typed, Sound
<1>8. Obligation!Between(remaining'[i], remaining[i])
  BY <1>2, <1>6, <1>7 DEF Obligation!Between, Within, Abs
<1>9. Started(b)'
  <2>1. Filled(i)' > 0
    <3>1. Filled(i)' = Abs(quantity[i]) - Abs(remaining'[i])
      BY DEF Filled, Abs
    <3>2. Abs(remaining[i]) <= Abs(quantity[i]) /\ Abs(remaining[i]) \in Int /\ Abs(quantity[i]) \in Int
      BY <1>7 DEF Within, Abs
    <3> HIDE DEF Abs
    <3> QED  BY <1>6, <3>1, <3>2
  <2> QED  BY <1>3, <2>1 DEF Started
<1>10. \A j \in Intent : IsActive(j)' => IsActive(j)
  BY <1>6 DEF IsActive
<1>11. \A a \in Created : Working(a)' => Working(a)
  BY <1>10 DEF Working, Members
<1>12. IF IsActive(i)' THEN Owing(b)'[l] = remaining'[i] ELSE remaining'[i] = 0 /\ Owing(b)'[l] = 0
  BY <1>1, <1>6 DEF Owing, IsActive
<1>13. Owing(b)' = [Owing(b) EXCEPT ![l] = remaining'[i]]
  <2>1. Owing(b)'[l] = remaining'[i]
    BY <1>12
  <2>2. ASSUME NEW m \in Leg, m # l PROVE Owing(b)'[m] = Owing(b)[m]
    <3>1. <<b, m>> \in Intent \ {i}
      BY <1>1, <2>2, Pairs
    <3> QED  BY <1>6, <3>1 DEF Owing, IsActive
  <2>3. Owing(b)' = [m \in Leg |-> Owing(b)'[m]]
    BY DEF Owing
  <2> QED  BY <1>1, <2>1, <2>2, <2>3 DEF Owing
<1>14. Owing(b)[l] = remaining[i]
  BY <1>1 DEF Owing
<1>15. LeftToTrade' = Owing(b)' /\ (Begun' <=> LeftToTrade' # Obligation!Nothing)
  <2>1. CASE Working(b)'
    <3>1. LeftToTrade' = Owing(b)' /\ LeftToTrade' # Obligation!Nothing /\ (Begun' <=> Started(b)')
      BY <1>3, <2>1 DEF LeftIs, Obligation!Nothing
    <3> QED  BY <1>9, <3>1
  <2>2. CASE ~Working(b)'
    <3>1. \A a \in Created' : ~Working(a)'
      BY <1>3, <1>4, <1>11, <2>2
    <3>2. LeftToTrade' = Obligation!Nothing /\ ~Begun'
      BY <3>1 DEF LeftIs, Obligation!Nothing
    <3>3. ASSUME NEW m \in Leg PROVE ~IsActive(<<b, m>>)'
      <4>1. <<b, m>> \in Intent /\ <<b, m>>[1] = b
        BY <1>1, Pairs
      <4>2. IsActive(<<b, m>>)' => <<b, m>> \in Members(b)'
        BY <1>0, <4>1 DEF Balanced, Neat, Members, IsActive
      <4> QED  BY <2>2, <4>2 DEF Working
    <3>4. Owing(b)' = Obligation!Nothing
      BY <3>3 DEF Owing, Obligation!Nothing
    <3> QED  BY <3>2, <3>4
  <2> QED  BY <2>1, <2>2
<1>16. /\ LeftToTrade' = [LeftToTrade EXCEPT ![l] = LeftToTrade'[l]]
       /\ Obligation!Between(LeftToTrade'[l], LeftToTrade[l])
  <2>1. LeftToTrade'[l] = remaining'[i] /\ LeftToTrade[l] = remaining[i]
    BY <1>5, <1>12, <1>14, <1>15
  <2> QED  BY <1>5, <1>8, <1>13, <1>15, <2>1
<1>17. (\E a \in Created : Working(a) /\ Started(a))' = (LeftToTrade' # Obligation!Nothing)
  BY <1>15 DEF Begun
<1> QED  BY <1>1, <1>16, <1>17 DEF Obligation!Fill

LEMMA PromiseStep ==
  ASSUME AccountFits, AccountFits', LeftIs, LeftIs', [Next]_vars
  PROVE  [Obligation!Next]_(Obligation!vars)
<1>1. CASE PlaceArb \/ TakeTender
  BY <1>1, DecisionTakes
<1>2. CASE Prepare
  BY <1>2, DeadlineDrops
<1>3. CASE ~(PlaceArb \/ TakeTender) /\ ~Prepare
  <2>1. StepOfIntents /\ UNCHANGED <<kind, quantity>>
    BY <1>3, StepOfIntentsIs DEF AccountFits
  <2>2. CASE UNCHANGED <<remaining, istatus>>
    <3>1. LeftToTrade' = LeftToTrade
      BY <2>1, <2>2 DEF LeftToTrade, Created, IsActive
    <3>2. Begun' <=> Begun
      BY <2>1, <2>2 DEF Begun, Created, Working, Started, Members, IsActive, Filled
    <3> QED  BY <3>1, <3>2, SamePromise
  <2>3. CASE \E i \in Intent, n \in Nat :
               n > 0 /\ n <= Abs(remaining[i]) /\ IsActive(i) /\ RecordFill(i, n)
    BY <2>1, <2>3, FillFulfils DEF Obligation!Next
  <2> QED  BY <1>3, <2>1, <2>2, <2>3 DEF StepOfIntents
<1> QED  BY <1>1, <1>2, <1>3

(* The limit executor makes no step that HedgeObligation forbids: one plan *)
(* at a time, dropped only while no share of it has traded, and from then  *)
(* on every step brings one leg nearer to zero.                            *)
THEOREM PromiseIsKept == Spec => KeepsSafePromise
<1>1. Init /\ AccountFits => Obligation!Init
  <2> SUFFICES ASSUME Init, AccountFits PROVE Obligation!Init
    OBVIOUS
  <2>1. \A i \in Intent : ~IsActive(i)
    BY DEF Init, InitIntentions, IsActive
  <2>2. \A b \in Created : ~Working(b)
    BY <2>1 DEF Working, Members
  <2>3. LeftToTrade = Obligation!Nothing /\ ~Begun
    BY <2>2, LeftIsOwed DEF LeftIs
  <2>4. (\E b \in Created : Working(b) /\ Started(b)) = FALSE
    BY <2>3 DEF Begun
  <2> QED  BY <2>3, <2>4 DEF Obligation!Init
<1>2. AccountFits /\ AccountFits' /\ LeftIs /\ LeftIs' /\ [Next]_vars
        => [Obligation!Next]_(Obligation!vars)
  BY PromiseStep
<1> QED
  BY AccountStays, AccountInit, LeftIsOwed, <1>1, <1>2, PTL
     DEF Spec, KeepsSafePromise, Obligation!SafePromise
=============================================================================
