----------------------- MODULE MarketExecution_proofs -----------------------
(***************************************************************************)
(* Theorems about MarketExecution for every value of its constants.        *)
(***************************************************************************)
EXTENDS MarketExecution, FiniteSetTheorems, TLAPS

(* A sign is 1 or -1, and a signed quantity an integer. *)
LEMMA SignTimes ==
  ASSUME NEW a \in Int, NEW n \in Int
  PROVE  Sign(a) * n \in Int /\ Sign(a) \in {-1, 1}
BY DEF Sign

(* Shares are counted in natural numbers. *)
LEMMA AbsType == ASSUME NEW a \in Int PROVE Abs(a) \in Nat
BY DEF Abs

(* The legs of an arbitrage are a quantity per equity. *)
LEMMA ArbLegsType ==
  ASSUME NEW dir \in Signs, NEW q \in Int
  PROVE  ArbLegs(dir, q) \in [Leg -> Int]
<1>1. dir \in {-1, 1}  BY DEF Signs
<1>2. dir * q \in Int /\ -dir * q \in Int  BY <1>1
<1> QED  BY <1>2 DEF ArbLegs

(* So are the legs that exit a tender. *)
LEMMA TenderLegsType ==
  ASSUME NEW s \in Signs, NEW d \in Int, NEW k \in Int
  PROVE  TenderLegs(s, d, k) \in [Leg -> Int]
<1>1. s \in {-1, 1}  BY DEF Signs
<1>2. -s * d \in Int /\ -s * k \in Int  BY <1>1
<1> QED  BY <1>2 DEF TenderLegs

(* An accepted tender leaves positions per equity. *)
LEMMA TenderedType ==
  ASSUME NEW p \in [Leg -> Int], NEW dir \in Signs, NEW n \in Int
  PROVE  Tendered(p, dir, n) \in [Leg -> Int]
<1>1. dir \in {-1, 1}  BY DEF Signs
<1> QED  BY <1>1 DEF Tendered, Leg

(* A bundle is added with values of the right types. *)
LEMMA AddBundleType ==
  ASSUME TypeOK, NEW b \in Bundle, NEW k \in Kind,
         NEW legs \in [Leg -> Int], NEW life \in Nat, AddBundle(b, k, legs, life)
  PROVE  /\ kind' \in [Bundle -> Kind \cup {"NONE"}]
         /\ bstatus' \in [Bundle -> BundleStatus]
         /\ quantity' \in [Intent -> Int]
         /\ remaining' \in [Intent -> Int]
         /\ istatus' \in [Intent -> IntentStatus]
         /\ deadline' \in [Bundle -> Nat]
<1>1. \A i \in Intent : i[1] \in Bundle /\ i[2] \in Leg  BY DEF Intent
<1>2. kind' \in [Bundle -> Kind \cup {"NONE"}] /\ bstatus' \in [Bundle -> BundleStatus]
  BY DEF AddBundle, TypeOK, TypeOKIntentions, BundleStatus
<1>3. quantity' \in [Intent -> Int] /\ remaining' \in [Intent -> Int]
  BY <1>1 DEF AddBundle, TypeOK, TypeOKIntentions
<1>4. istatus' \in [Intent -> IntentStatus]
  BY <1>1 DEF AddBundle, TypeOK, TypeOKIntentions, IntentStatus
<1>5. deadline' \in [Bundle -> Nat]
  BY DEF AddBundle, TypeOK, TypeOKIntentions
<1> QED  BY <1>2, <1>3, <1>4, <1>5

(* record_fill leaves an intent with values of the right types. *)
LEMMA RecordFillType ==
  ASSUME TypeOK, NEW i \in Intent, NEW n \in Int, RecordFill(i, n)
  PROVE  remaining' \in [Intent -> Int] /\ istatus' \in [Intent -> IntentStatus]
<1>1. Sign(quantity[i]) * n \in Int  BY SignTimes DEF TypeOK, TypeOKIntentions
<1> QED  BY <1>1 DEF RecordFill, TypeOK, TypeOKIntentions, IntentStatus

(* A reset leaves every variable of its type. *)
LEMMA ResetType ==
  ASSUME TypeOK, ResetForNewHeat
  PROVE  /\ kind' \in [Bundle -> Kind \cup {"NONE"}] /\ bstatus' \in [Bundle -> BundleStatus]
         /\ quantity' \in [Intent -> Int] /\ remaining' \in [Intent -> Int]
         /\ istatus' \in [Intent -> IntentStatus] /\ deadline' \in [Bundle -> Nat]
         /\ shortfall' \subseteq Bundle /\ forgotten' \in [Leg -> Int] /\ gone' \in Nat
<1> USE DEF TypeOK, TypeOKIntentions
<1>1. /\ kind' \in [Bundle -> Kind \cup {"NONE"}] /\ bstatus' \in [Bundle -> BundleStatus]
      /\ istatus' \in [Intent -> IntentStatus]
  BY DEF ResetForNewHeat, BundleStatus, IntentStatus
<1>2. /\ quantity' \in [Intent -> Int] /\ remaining' \in [Intent -> Int]
      /\ deadline' \in [Bundle -> Nat] /\ shortfall' \subseteq Bundle
  BY DEF ResetForNewHeat
<1>3. forgotten' \in [Leg -> Int]
  <2>1. ASSUME NEW l \in Leg PROVE LeftToTrade[l] \in Int
    <3>1. CASE \E b \in Created : IsActive(<<b, l>>)
      <4>1. <<CHOOSE b \in Created : IsActive(<<b, l>>), l>> \in Intent
        BY <3>1 DEF Intent, Created
      <4> QED  BY <3>1, <4>1 DEF LeftToTrade
    <3>2. CASE ~ \E b \in Created : IsActive(<<b, l>>)
      BY <3>2 DEF LeftToTrade
    <3> QED  BY <3>1, <3>2
  <2>2. Plus(forgotten, LeftToTrade) \in [Leg -> Int]
    BY <2>1 DEF Plus
  <2> QED  BY <2>2 DEF ResetForNewHeat
<1>4. gone' \in Nat
  <2>1. IsFiniteSet(Bundle)
    BY FS_Interval, SettingsAssumption DEF Bundle
  <2>2. Created \subseteq Bundle
    BY DEF Created
  <2>3. Cardinality(Created) \in Nat
    BY <2>1, <2>2, FS_Subset, FS_CardinalityType
  <2> QED  BY <2>3 DEF ResetForNewHeat
<1> QED  BY <1>1, <1>2, <1>3, <1>4

(***************************************************************************)
(* Type correctness.                                                       *)
(***************************************************************************)
(* A new heat starts with every variable of its type. *)
LEMMA TypeInit == Init => TypeOK
<1> SUFFICES ASSUME Init PROVE TypeOK
  OBVIOUS
<1>1. /\ kind \in [Bundle -> Kind \cup {"NONE"}]
      /\ bstatus \in [Bundle -> BundleStatus]
      /\ istatus \in [Intent -> IntentStatus]
  BY DEF Init, InitIntentions, BundleStatus, IntentStatus
<1>2. /\ quantity \in [Intent -> Int] /\ remaining \in [Intent -> Int]
      /\ deadline \in [Bundle -> Nat] /\ caseTick \in Nat
  BY DEF Init, InitIntentions
<1>3. /\ position \in [Leg -> Int] /\ server \in [Leg -> Int]
  BY DEF Init, InitIntentions
<1>4. near \in [Leg -> Nat] /\ far \in [Leg -> Nat] /\ lost \in BOOLEAN
  BY DEF Init, InitIntentions
<1>5. remembered \in BOOLEAN /\ forgotten \in [Leg -> Int] /\ gone \in Nat
  <2>1. remembered = FALSE /\ forgotten = Nothing /\ gone = 0
    BY DEF Init
  <2>2. Nothing \in [Leg -> Int]
    BY DEF Nothing
  <2> QED  BY <2>1, <2>2
<1>6. /\ pc \in {"IDLE", "DECIDE", "FULFILL", "LOOP"}
      /\ todo \subseteq Intent /\ ready \subseteq Bundle /\ blocked \subseteq Bundle
      /\ shortfall \subseteq Bundle
  BY DEF Init
<1> QED  BY <1>1, <1>2, <1>3, <1>4, <1>5, <1>6 DEF TypeOK, TypeOKIntentions

(* No step of the program gives a variable a value of another type. *)
LEMMA TypeStep == TypeOK /\ [Next]_vars => TypeOK'
<1> SUFFICES ASSUME TypeOK, [Next]_vars PROVE TypeOK'
  OBVIOUS
<1> USE DEF TypeOK, TypeOKIntentions
<1>1. CASE BeginCycle
  <2>1. caseTick' \in Nat
    BY <1>1, SettingsAssumption DEF BeginCycle, ReadCase
  <2>2. near' \in [Leg -> Nat] /\ far' \in [Leg -> Nat]
    BY <1>1, SettingsAssumption DEF BeginCycle, ReadBooks
  <2>3. /\ kind' \in [Bundle -> Kind \cup {"NONE"}] /\ bstatus' \in [Bundle -> BundleStatus]
        /\ quantity' \in [Intent -> Int] /\ remaining' \in [Intent -> Int]
        /\ istatus' \in [Intent -> IntentStatus] /\ deadline' \in [Bundle -> Nat]
        /\ shortfall' \subseteq Bundle /\ forgotten' \in [Leg -> Int] /\ gone' \in Nat
    <3>1. CASE remembered  BY <1>1, <3>1 DEF BeginCycle, KeepState
    <3>2. CASE ~remembered  BY <1>1, <3>2, ResetType DEF BeginCycle
    <3> QED  BY <3>1, <3>2
  <2> QED  BY <1>1, <2>1, <2>2, <2>3 DEF BeginCycle, ReadCase
<1>10. CASE IdlePoll
  BY <1>10 DEF IdlePoll, coreVars
<1>2. CASE PlaceArb
  <2>1. PICK b \in Bundle, dir \in Signs, q \in 1..OrderQty :
          EnqueueArb(b, "ARB", dir, q)
    BY <1>2 DEF PlaceArb
  <2>2. q \in Int /\ ArbLegs(dir, q) \in [Leg -> Int]  BY ArbLegsType
  <2>3. /\ kind' \in [Bundle -> Kind \cup {"NONE"}]
        /\ bstatus' \in [Bundle -> BundleStatus]
        /\ quantity' \in [Intent -> Int]
        /\ remaining' \in [Intent -> Int]
        /\ istatus' \in [Intent -> IntentStatus]
        /\ deadline' \in [Bundle -> Nat]
    BY <2>1, <2>2, AddBundleType, SettingsAssumption DEF EnqueueArb, Kind
  <2> QED  BY <2>1, <2>3, <1>2 DEF PlaceArb, EnqueueArb, loopVars
<1>3. CASE TakeTender
  <2>1. PICK b \in Bundle, s \in Signs, d \in 0..TenderQty, k \in 0..TenderQty :
          AcceptTender(b, s, d, k)
    BY <1>3 DEF TakeTender
  <2>2. d \in Int /\ k \in Int /\ d + k \in Int  BY SettingsAssumption
  <2>3. TenderLegs(s, d, k) \in [Leg -> Int]  BY <2>2, TenderLegsType
  <2>4. /\ kind' \in [Bundle -> Kind \cup {"NONE"}]
        /\ bstatus' \in [Bundle -> BundleStatus]
        /\ quantity' \in [Intent -> Int]
        /\ remaining' \in [Intent -> Int]
        /\ istatus' \in [Intent -> IntentStatus]
        /\ deadline' \in [Bundle -> Nat]
    BY <2>1, <2>3, AddBundleType, SettingsAssumption DEF AcceptTender, Kind
  <2>5. position' \in [Leg -> Int] /\ server' \in [Leg -> Int]
    BY <2>1, <2>2, TenderedType DEF AcceptTender
  <2> QED  BY <2>1, <2>4, <2>5, <1>3 DEF TakeTender, AcceptTender, loopVars
<1>4. CASE LoseTenderReply
  <2>1. PICK s \in Signs, d \in 0..TenderQty, k \in 0..TenderQty :
          TenderReplyLost(s, d, k)
    BY <1>4 DEF LoseTenderReply
  <2>2. server' \in [Leg -> Int]
    BY <2>1, TenderedType, SettingsAssumption DEF TenderReplyLost
  <2> QED  BY <2>1, <2>2, <1>4 DEF LoseTenderReply, TenderReplyLost, loopVars
<1>5. CASE PlaceNothing
  BY <1>5 DEF PlaceNothing, coreVars, loopVars
<1>6. CASE Prepare
  <2>1. bstatus' \in [Bundle -> BundleStatus]
    BY <1>6 DEF Prepare, PrepareBundles, PreparedStatus, BundleStatus
  <2>2. istatus' \in [Intent -> IntentStatus]
    BY <1>6 DEF Prepare, PrepareBundles, IntentStatus
  <2>3. ready' \subseteq Bundle /\ todo' \subseteq Intent
    BY <1>6 DEF Prepare, ReadyBundles, Created
  <2> QED  BY <1>6, <2>1, <2>2, <2>3 DEF Prepare, PrepareBundles
<1>7. ASSUME NEW i \in Intent, Step(i) PROVE TypeOK'
  <2>1. i[1] \in Bundle /\ i[2] \in Leg  BY DEF Intent
  <2>2. \A x \in 0..MaxOrderSize : Sign(quantity[i]) * x \in Int /\ x \in Int
    BY SignTimes, SettingsAssumption
  <2>3. CASE Skip(i)
    BY <2>3 DEF Skip, coreVars
  <2>4. ASSUME NEW x \in 0..MaxOrderSize, NEW r \in 0..MaxOrderSize, Post(i, x, r)
        PROVE  TypeOK'
    <3>1. remaining' \in [Intent -> Int] /\ istatus' \in [Intent -> IntentStatus]
      <4>1. CASE r > 0  BY <4>1, <2>2, <2>4, RecordFillType DEF Post
      <4>2. CASE ~(r > 0)  BY <4>2, <2>4 DEF Post
      <4> QED  BY <4>1, <4>2
    <3>2. server' \in [Leg -> Int] /\ position' \in [Leg -> Int]
      BY <2>1, <2>2, <2>4 DEF Post
    <3>3. blocked' \subseteq Bundle /\ shortfall' \subseteq Bundle
      BY <2>1, <2>4 DEF Post
    <3>4. todo' \subseteq Intent /\ lost' \in BOOLEAN
      BY <2>4 DEF Post
    <3> QED  BY <2>4, <3>1, <3>2, <3>3, <3>4 DEF Post
  <2>5. ASSUME NEW x \in 0..MaxOrderSize, PostRaises(i, x)
        PROVE  TypeOK'
    <3>1. server' \in [Leg -> Int]
      BY <2>1, <2>2, <2>5 DEF PostRaises
    <3>2. shortfall' \subseteq Bundle /\ lost' \in BOOLEAN
      BY <2>1, <2>5 DEF PostRaises
    <3> QED  BY <2>5, <3>1, <3>2 DEF PostRaises, EndCycle, ForgetMarket
  <2> QED  BY <1>7, <2>3, <2>4, <2>5 DEF Step
<1>8. CASE Settle
  <2>1. bstatus' \in [Bundle -> BundleStatus]
    BY <1>8 DEF Settle, SettleBundles, SettledStatus, BundleStatus
  <2> QED  BY <1>8, <2>1 DEF Settle, SettleBundles, EndCycle, ForgetMarket
<1>9. CASE UNCHANGED vars
  BY <1>9 DEF vars
<1> QED  BY <1>1, <1>2, <1>3, <1>4, <1>5, <1>6, <1>7, <1>8, <1>9, <1>10 DEF Next

(* Every variable keeps its type. *)
THEOREM TypeCorrect == Spec => []TypeOK
BY TypeInit, TypeStep, PTL DEF Spec

(***************************************************************************)
(* The inductive invariant.                                                *)
(***************************************************************************)
(* The intents of a bundle carry the quantities of its plan, and an intent *)
(* is active as long as part of its quantity remains, unless the whole     *)
(* bundle was cancelled.                                                   *)
IntentsInShape ==
  \A i \in Intent :
    /\ quantity[i] = 0 => istatus[i] = "NONE"
    /\ kind[i[1]] = "NONE" => quantity[i] = 0
    /\ IsActive(i) => \/ 0 < remaining[i] /\ remaining[i] <= quantity[i]
                      \/ remaining[i] < 0 /\ quantity[i] <= remaining[i]
    /\ istatus[i] = "FILLED" => remaining[i] = 0
    /\ istatus[i] = "NONE" => quantity[i] = 0
    /\ istatus[i] = "CANCELLED" => ~Working(i[1])

(* The plan of an arbitrage is a hedged trade; the exit of a tender, which *)
(* is not, never expires.                                                  *)
PlansInShape ==
  /\ caseTick <= MaxTick
  /\ \A b \in Bundle :
       /\ kind[b] \in {"ARB", "CLOSE"} => Hedged([l \in Leg |-> quantity[<<b, l>>]])
       /\ kind[b] = "TENDER" => MaxTick <= deadline[b]

(* The loop of a cycle only meets active intents. *)
TodoIsActive == \A i \in todo : IsActive(i)

(* Between two cycles nothing is to do, and a reset that could drop a      *)
(* bundle is the first one.                                                *)
IdleInShape == pc = "IDLE" => todo = {} /\ (~remembered => forgotten = Nothing)

IInv ==
  /\ TypeOK
  /\ TodoIsActive
  /\ IntentsInShape
  /\ PlansInShape
  /\ OneWorkingBundle
  /\ HedgedOrBeingHedged
  /\ IdleInShape

(* An intent is a pair of a bundle and a leg. *)
LEMMA Pairs ==
  /\ \A i \in Intent : i[1] \in Bundle /\ i[2] \in Leg /\ i = <<i[1], i[2]>>
  /\ \A b \in Bundle, l \in Leg :
       <<b, l>> \in Intent /\ <<b, l>>[1] = b /\ <<b, l>>[2] = l
BY DEF Intent

(* The least of three integers is one of them. *)
LEMMA LeastType ==
  ASSUME NEW a \in Int, NEW b \in Int, NEW c \in Int
  PROVE  Least({a, b, c}) \in Int
<1>1. \E n \in {a, b, c} : \A m \in {a, b, c} : n <= m
  OBVIOUS
<1> QED  BY <1>1 DEF Least

(* An order never asks for more than the intent still lacks. *)
LEMMA OrderFitsIntent ==
  ASSUME TypeOK, NEW i \in Intent
  PROVE  OrderSize(i) <= Abs(remaining[i])
<1> DEFINE a == Abs(remaining[i])
           c == Acceptable(i, Started(i[1]))
<1>1. a \in Int  BY AbsType DEF TypeOK, TypeOKIntentions
<1>2. c \in Int  BY Pairs DEF TypeOK, TypeOKIntentions, Acceptable
<1>3. MaxOrderSize \in Int  BY SettingsAssumption
<1> HIDE DEF a, c
<1>4. \E n \in {a, c, MaxOrderSize} : \A m \in {a, c, MaxOrderSize} : n <= m
  BY <1>1, <1>2, <1>3
<1>5. Least({a, c, MaxOrderSize}) <= a
  BY <1>4 DEF Least
<1> QED  BY <1>5 DEF OrderSize, a, c

(* With nothing forgotten the account is all there is, and what moves the  *)
(* one moves the other.                                                    *)
LEMMA ForgottenIs ==
  ASSUME TypeOK
  PROVE  /\ WithForgotten \in [Leg -> Int]
         /\ forgotten = Nothing => WithForgotten = server
         /\ forgotten' = forgotten /\ server' = server => WithForgotten' = WithForgotten
<1>1. server \in [Leg -> Int] /\ forgotten \in [Leg -> Int]
  BY DEF TypeOK, TypeOKIntentions
<1>2. WithForgotten \in [Leg -> Int]
  BY <1>1 DEF WithForgotten, Plus
<1>3. ASSUME forgotten = Nothing PROVE WithForgotten = server
  <2>1. \A l \in Leg : WithForgotten[l] = server[l]
    BY <1>1, <1>3 DEF WithForgotten, Plus, Nothing
  <2> QED  BY <1>1, <1>2, <2>1
<1>4. forgotten' = forgotten /\ server' = server => WithForgotten' = WithForgotten
  BY DEF WithForgotten
<1> QED  BY <1>2, <1>3, <1>4

(* Steps that leave the intents and, unless something was lost, the        *)
(* account alone.                                                          *)
LEMMA SameIntents ==
  ASSUME IInv, caseTick' <= MaxTick, \A i \in todo' : IsActive(i),
         UNCHANGED <<kind, quantity, remaining, istatus, deadline>>,
         UNCHANGED forgotten, ~lost' => ~lost /\ server' = server
  PROVE  /\ TodoIsActive' /\ IntentsInShape' /\ PlansInShape'
         /\ OneWorkingBundle' /\ HedgedOrBeingHedged'
<1>1. TodoIsActive' BY DEF TodoIsActive, IsActive
<1>2. IntentsInShape'
  BY DEF IInv, IntentsInShape, IsActive, Working, Members
<1>3. PlansInShape'
  BY DEF IInv, PlansInShape, Hedged
<1>4. OneWorkingBundle'
  BY DEF IInv, OneWorkingBundle, IsActive, Working, Members, Created
<1>5. HedgedOrBeingHedged'
  <2>1. ~lost' => ~lost /\ WithForgotten' = WithForgotten
    BY DEF WithForgotten
  <2> QED
    BY <2>1 DEF IInv, HedgedOrBeingHedged, Completed, Hedged, IsActive, Working, Members, Created
<1> QED BY <1>1, <1>2, <1>3, <1>4, <1>5

(* A bundle is added when no intent is active; from then on what it lacks  *)
(* is what the account lacks.                                              *)
LEMMA AddBundleKeeps ==
  ASSUME IInv, ~Busy, UNCHANGED <<todo, caseTick, forgotten>>, UNCHANGED lost,
         NEW b \in Bundle, kind[b] = "NONE", NEW k \in Kind, NEW legs \in [Leg -> Int],
         NEW life \in Nat, AddBundle(b, k, legs, life),
         k \in {"ARB", "CLOSE"} => Hedged(legs),
         k = "TENDER" => MaxTick <= life,
         server' \in [Leg -> Int],
         Hedged(WithForgotten) => Hedged(Plus(WithForgotten', legs))
  PROVE  /\ TodoIsActive' /\ IntentsInShape' /\ PlansInShape'
         /\ OneWorkingBundle' /\ HedgedOrBeingHedged'
<1> USE DEF IInv
<1>1. \A i \in Intent : ~IsActive(i)  BY DEF Busy
<1>2. \A i \in Intent : i[1] # b => UNCHANGED <<quantity[i], remaining[i], istatus[i]>>
  BY DEF AddBundle, TypeOK, TypeOKIntentions
<1>3. \A i \in Intent : i[1] = b =>
         /\ quantity'[i] = legs[i[2]] /\ remaining'[i] = legs[i[2]]
         /\ legs[i[2]] # 0 => istatus'[i] = "ACTIVE"
         /\ legs[i[2]] = 0 => istatus'[i] = istatus[i]
  BY DEF AddBundle, TypeOK, TypeOKIntentions
<1>4. kind' \in [Bundle -> Kind \cup {"NONE"}] /\ kind'[b] = k
      /\ \A a \in Bundle : a # b => kind'[a] = kind[a]
  BY DEF AddBundle, TypeOK, TypeOKIntentions
<1>5. k # "NONE"  BY DEF Kind
<1>6. \A i \in Intent : i[1] = b => quantity[i] = 0 /\ istatus[i] = "NONE"
  BY DEF IntentsInShape
<1>7. \A i \in Intent : IsActive(i)' <=> i[1] = b /\ legs[i[2]] # 0
  BY <1>1, <1>2, <1>3, <1>6 DEF IsActive
<1>8. \A a \in Bundle : Working(a)' => a = b
  BY <1>7 DEF Working, Members
<1>9. IntentsInShape'
  <2> SUFFICES ASSUME NEW i \in Intent
               PROVE  /\ quantity'[i] = 0 => istatus'[i] = "NONE"
                      /\ kind'[i[1]] = "NONE" => quantity'[i] = 0
                      /\ IsActive(i)' =>
                           \/ 0 < remaining'[i] /\ remaining'[i] <= quantity'[i]
                           \/ remaining'[i] < 0 /\ quantity'[i] <= remaining'[i]
                      /\ istatus'[i] = "FILLED" => remaining'[i] = 0
                      /\ istatus'[i] = "NONE" => quantity'[i] = 0
                      /\ istatus'[i] = "CANCELLED" => ~Working(i[1])'
    BY DEF IntentsInShape
  <2>1. CASE i[1] = b
    BY <2>1, <1>3, <1>4, <1>5, <1>6, <1>7, Pairs
  <2>2. CASE i[1] # b
    BY <2>2, <1>2, <1>4, <1>7, <1>8, Pairs DEF IntentsInShape
  <2> QED  BY <2>1, <2>2
<1>10. PlansInShape'
  <2>1. caseTick' <= MaxTick  BY DEF PlansInShape
  <2>2. \A a \in Bundle, l \in Leg :
          quantity'[<<a, l>>] = IF a = b THEN legs[l] ELSE quantity[<<a, l>>]
    BY <1>2, <1>3, Pairs
  <2>3. deadline'[b] = caseTick + life /\ \A a \in Bundle : a # b => deadline'[a] = deadline[a]
    BY DEF AddBundle, TypeOK, TypeOKIntentions
  <2>4. k = "TENDER" => MaxTick <= deadline'[b]
    BY <2>3, SettingsAssumption DEF TypeOK, TypeOKIntentions
  <2>5. k # "TENDER" => Hedged([l \in Leg |-> quantity'[<<b, l>>]])
    BY <2>2 DEF Kind, Hedged, Leg
  <2>6. \A a \in Bundle : a # b =>
          [l \in Leg |-> quantity'[<<a, l>>]] = [l \in Leg |-> quantity[<<a, l>>]]
    BY <2>2
  <2> QED  BY <2>1, <2>3, <2>4, <2>5, <2>6, <1>4 DEF PlansInShape, Kind
<1>11. OneWorkingBundle'
  BY <1>8 DEF OneWorkingBundle, Created
<1>12. HedgedOrBeingHedged'
  <2> SUFFICES ASSUME ~lost
               PROVE  /\ \A a \in Bundle : Working(a)' => Hedged(Completed(a))'
                      /\ (\A a \in Created' : ~Working(a)') => Hedged(WithForgotten')
    BY DEF HedgedOrBeingHedged, Created
  <2>1. \A a \in Bundle : ~Working(a)  BY <1>1 DEF Working, Members
  <2>2. Hedged(WithForgotten)  BY <2>1 DEF HedgedOrBeingHedged, Created
  <2>3. Hedged(Plus(WithForgotten', legs))  BY <2>2
  <2>40. WithForgotten' \in [Leg -> Int]
    BY DEF WithForgotten, Plus, TypeOK
  <2>4. Completed(b)' = Plus(WithForgotten', legs)
    BY <1>3, <1>7, Pairs DEF Completed, Plus
  <2>5. b \in Created'  BY <1>4, <1>5 DEF Created
  <2>6. ASSUME ~Working(b)' PROVE Hedged(WithForgotten')
    <3>1. ASSUME NEW l \in Leg, legs[l] # 0 PROVE FALSE
      <4>1. <<b, l>> \in Members(b)' /\ IsActive(<<b, l>>)'
        BY <3>1, <1>3, <1>7, Pairs DEF Members
      <4> QED  BY <4>1, <2>6 DEF Working
    <3> QED  BY <3>1, <2>3, <2>40 DEF Hedged, Plus, Leg
  <2> QED  BY <2>3, <2>4, <2>5, <2>6, <1>8
<1>13. TodoIsActive'
  BY <1>1 DEF TodoIsActive, TypeOK
<1> QED  BY <1>9, <1>10, <1>11, <1>12, <1>13

(* The core of a fill: intent i goes on, or is filled and lacks nothing.   *)
LEMMA FillKeeps ==
  ASSUME IInv, NEW i \in Intent, IsActive(i), todo' \subseteq todo \ {i},
         UNCHANGED <<kind, quantity, deadline, caseTick, forgotten>>,
         \A j \in Intent : j # i => UNCHANGED <<remaining[j], istatus[j]>>,
         \/ istatus'[i] = "FILLED" /\ remaining'[i] = 0
         \/ /\ istatus'[i] = "WORKING"
            /\ \/ 0 < remaining'[i] /\ remaining'[i] <= quantity[i]
               \/ remaining'[i] < 0 /\ quantity[i] <= remaining'[i],
         remaining'[i] \in Int,
         ~lost' => /\ ~lost
                   /\ server' = [server EXCEPT ![i[2]] = @ + remaining[i] - remaining'[i]]
  PROVE  /\ TodoIsActive' /\ IntentsInShape' /\ PlansInShape'
         /\ OneWorkingBundle' /\ HedgedOrBeingHedged'
<1> USE DEF IInv
<1>1. i[1] \in Bundle /\ i[2] \in Leg /\ i = <<i[1], i[2]>>  BY Pairs
<1>2. \A j \in Intent : IsActive(j)' => IsActive(j)  BY DEF IsActive
<1>3. \A a \in Bundle : Working(a)' => Working(a)  BY <1>2 DEF Working, Members
<1>4. quantity[i] # 0  BY DEF IntentsInShape, IsActive
<1>5. Working(i[1])  BY <1>1, <1>4 DEF Working, Members
<1>6. TodoIsActive'
  BY DEF TodoIsActive, IsActive, TypeOK
<1>7. IntentsInShape'
  <2> SUFFICES ASSUME NEW j \in Intent
               PROVE  /\ quantity[j] = 0 => istatus'[j] = "NONE"
                      /\ kind[j[1]] = "NONE" => quantity[j] = 0
                      /\ IsActive(j)' =>
                           \/ 0 < remaining'[j] /\ remaining'[j] <= quantity[j]
                           \/ remaining'[j] < 0 /\ quantity[j] <= remaining'[j]
                      /\ istatus'[j] = "FILLED" => remaining'[j] = 0
                      /\ istatus'[j] = "NONE" => quantity[j] = 0
                      /\ istatus'[j] = "CANCELLED" => ~Working(j[1])'
    BY DEF IntentsInShape
  <2>1. CASE j = i
    BY <2>1, <1>4 DEF IntentsInShape, IsActive
  <2>2. CASE j # i
    BY <2>2, <1>3, Pairs DEF IntentsInShape, IsActive
  <2> QED  BY <2>1, <2>2
<1>8. PlansInShape'  BY DEF PlansInShape, Hedged
<1>9. OneWorkingBundle'  BY <1>3 DEF OneWorkingBundle, Created
<1>10. HedgedOrBeingHedged'
  <2> SUFFICES ASSUME ~lost'
               PROVE  /\ \A a \in Created : Working(a)' => Hedged(Completed(a))'
                      /\ (\A a \in Created : ~Working(a)') => Hedged(WithForgotten')
    BY DEF HedgedOrBeingHedged, Created
  <2> DEFINE b == i[1]
  <2>1. ~lost /\ server' = [server EXCEPT ![i[2]] = @ + remaining[i] - remaining'[i]]
    OBVIOUS
  <2>10. /\ WithForgotten \in [Leg -> Int]
         /\ WithForgotten' = [WithForgotten EXCEPT ![i[2]] = @ + remaining[i] - remaining'[i]]
    <3>1. /\ server \in [Leg -> Int] /\ forgotten \in [Leg -> Int] /\ forgotten' = forgotten
          /\ remaining[i] \in Int
      BY DEF TypeOK, TypeOKIntentions
    <3>2. \A l \in Leg : WithForgotten[l] = server[l] + forgotten[l] /\ WithForgotten[l] \in Int
      BY <3>1 DEF WithForgotten, Plus
    <3>3. \A l \in Leg : WithForgotten'[l] = server'[l] + forgotten[l]
      BY <3>1 DEF WithForgotten, Plus
    <3>4. \A l \in Leg : WithForgotten'[l] =
            IF l = i[2] THEN WithForgotten[l] + remaining[i] - remaining'[i] ELSE WithForgotten[l]
      BY <1>1, <2>1, <3>1, <3>2, <3>3
    <3>5. WithForgotten = [l \in Leg |-> WithForgotten[l]] /\ WithForgotten' = [l \in Leg |-> WithForgotten'[l]]
      BY DEF WithForgotten, Plus
    <3> QED  BY <1>1, <3>2, <3>4, <3>5
  <2>2. b \in Created  BY <1>1, <1>4 DEF Created, IntentsInShape
  <2>3. \A a \in Created : Working(a) => a = b
    BY <2>2, <1>5 DEF OneWorkingBundle
  <2>4. Hedged(Completed(b))  BY <2>1, <2>2, <1>5 DEF HedgedOrBeingHedged
  <2>5. \A l \in Leg : Completed(b)'[l] = Completed(b)[l]
    <3> SUFFICES ASSUME NEW l \in Leg PROVE Completed(b)'[l] = Completed(b)[l]
      OBVIOUS
    <3>0. WithForgotten[l] \in Int /\ remaining[i] \in Int
      BY <2>10 DEF TypeOK, TypeOKIntentions
    <3>1. CASE l = i[2]
      <4>1. <<b, l>> = i  BY <3>1, <1>1
      <4>2. WithForgotten'[l] = WithForgotten[l] + remaining[i] - remaining'[i]
        BY <3>1, <2>10
      <4>3. IF IsActive(i)' THEN TRUE ELSE remaining'[i] = 0
        BY DEF IsActive
      <4> QED  BY <4>1, <4>2, <4>3, <3>0 DEF Completed
    <3>2. CASE l # i[2]
      <4>1. <<b, l>> \in Intent /\ <<b, l>> # i  BY <3>2, <1>1, Pairs
      <4>2. WithForgotten'[l] = WithForgotten[l]
        BY <3>2, <2>10
      <4> QED  BY <4>1, <4>2 DEF Completed, IsActive
    <3> QED  BY <3>1, <3>2
  <2>6. Hedged(Completed(b)')  BY <2>4, <2>5 DEF Hedged, Leg
  <2>7. ASSUME ~Working(b)' PROVE Hedged(WithForgotten')
    <3>1. \A l \in Leg : ~IsActive(<<b, l>>)'
      <4> SUFFICES ASSUME NEW l \in Leg, IsActive(<<b, l>>)' PROVE FALSE
        OBVIOUS
      <4>1. <<b, l>> \in Members(b)'
        BY <1>1, <1>2, Pairs DEF Members, IntentsInShape, IsActive
      <4> QED  BY <4>1, <2>7 DEF Working
    <3>2. \A l \in Leg : Completed(b)'[l] = WithForgotten'[l]
      <4>1. \A l \in Leg : WithForgotten'[l] \in Int
        BY <1>1, <2>10 DEF TypeOK, TypeOKIntentions
      <4> QED  BY <4>1, <3>1 DEF Completed
    <3> QED  BY <3>2, <2>6 DEF Hedged, Leg
  <2> QED  BY <2>2, <2>3, <2>6, <2>7, <1>3 DEF Created
<1> QED  BY <1>6, <1>7, <1>8, <1>9, <1>10

(* A reply moves as much out of an intent as it moves into the account, so *)
(* what the account will hold once the bundle is done stays the same.      *)
LEMMA PostKeeps ==
  ASSUME IInv, NEW i \in Intent, NEW x \in Int, NEW r \in Int, Post(i, x, r)
  PROVE  /\ TodoIsActive' /\ IntentsInShape' /\ PlansInShape'
         /\ OneWorkingBundle' /\ HedgedOrBeingHedged'
<1> USE DEF IInv
<1>1. i[1] \in Bundle /\ i[2] \in Leg  BY Pairs
<1>2. quantity[i] \in Int /\ remaining[i] \in Int /\ server \in [Leg -> Int]
  BY DEF TypeOK, TypeOKIntentions
<1>3. IsActive(i)  BY DEF Post, IsTurn, TodoIsActive
<1>4. 0 <= r /\ r <= x /\ x <= Abs(remaining[i])
  <2>1. OrderSize(i) \in Int /\ x <= OrderSize(i) /\ 0 <= r /\ r <= x
    <3>1. Acceptable(i, Started(i[1])) \in Int
      BY Pairs DEF TypeOK, TypeOKIntentions, Acceptable
    <3>2. Abs(remaining[i]) \in Int /\ MaxOrderSize \in Int
      BY <1>2, AbsType, SettingsAssumption
    <3>3. OrderSize(i) \in Int  BY <3>1, <3>2, OrderFitsIntent, LeastType DEF OrderSize
    <3> QED  BY <3>3 DEF Post
  <2> QED  BY <2>1, <1>2, AbsType, OrderFitsIntent
<1>5. todo' \subseteq todo \ {i}  BY DEF Post
<1>6. CASE r = 0
  <2>1. UNCHANGED <<remaining, istatus, kind, quantity, deadline, caseTick, forgotten>>
    BY <1>6 DEF Post
  <2>2. ~lost' => ~lost /\ server' = server
    <3> SUFFICES ASSUME ~lost' PROVE ~lost /\ server' = server
      OBVIOUS
    <3>1. ~lost /\ x = r  BY DEF Post, TypeOK, TypeOKIntentions
    <3>2. server' = [server EXCEPT ![i[2]] = @ + Sign(quantity[i]) * 0]
      BY <3>1, <1>6 DEF Post
    <3>3. Sign(quantity[i]) * 0 = 0  BY <1>2 DEF Sign
    <3>4. server[i[2]] + 0 = server[i[2]]  BY <1>1, <1>2
    <3> QED  BY <3>1, <3>2, <3>3, <3>4, <1>1, <1>2
  <2>3. caseTick' <= MaxTick  BY <2>1 DEF PlansInShape
  <2> QED  BY <2>1, <2>2, <2>3, <1>5, SameIntents DEF TodoIsActive
<1>7. CASE r > 0
  <2>1. RecordFill(i, r)  BY <1>7 DEF Post
  <2>2. /\ remaining'[i] = remaining[i] - Sign(quantity[i]) * r
        /\ istatus'[i] = IF Abs(remaining[i]) = r THEN "FILLED" ELSE "WORKING"
        /\ \A j \in Intent : j # i => UNCHANGED <<remaining[j], istatus[j]>>
    BY <2>1 DEF RecordFill, TypeOK, TypeOKIntentions
  <2>3. UNCHANGED <<kind, quantity, deadline, caseTick, forgotten>>  BY DEF Post
  <2>4. /\ 0 < remaining[i] /\ remaining[i] <= quantity[i]
             => Sign(quantity[i]) * r = r
        /\ remaining[i] < 0 /\ quantity[i] <= remaining[i]
             => Sign(quantity[i]) * r = -r
    BY <1>2, <1>4 DEF Sign
  <2>5. \/ 0 < remaining[i] /\ remaining[i] <= quantity[i]
        \/ remaining[i] < 0 /\ quantity[i] <= remaining[i]
    BY <1>3 DEF IntentsInShape
  <2>6. ASSUME ~lost'
        PROVE  /\ ~lost
               /\ server' = [server EXCEPT ![i[2]] = @ + remaining[i] - remaining'[i]]
    <3>1. ~lost /\ x = r  BY <2>6 DEF Post, TypeOK, TypeOKIntentions
    <3>2. server' = [server EXCEPT ![i[2]] = @ + Sign(quantity[i]) * r]
      BY <3>1 DEF Post
    <3>3. Sign(quantity[i]) * r \in Int  BY <1>2, SignTimes
    <3>4. server[i[2]] + Sign(quantity[i]) * r = server[i[2]] + remaining[i] - remaining'[i]
      BY <3>3, <2>2, <1>1, <1>2
    <3> QED  BY <3>1, <3>2, <3>4
  <2>7. remaining'[i] \in Int
    <3>1. Sign(quantity[i]) * r \in Int  BY <1>2, SignTimes
    <3>2. remaining'[i] = remaining[i] - Sign(quantity[i]) * r  BY <2>2
    <3> QED  BY <3>1, <3>2, <1>2
  <2>8. CASE Abs(remaining[i]) = r
    <3>1. istatus'[i] = "FILLED" /\ remaining'[i] = 0
      BY <2>2, <2>4, <2>5, <2>8, <1>2 DEF Abs
    <3> QED  BY <3>1, <2>2, <2>3, <2>6, <2>7, <1>3, <1>5, FillKeeps
  <2>9. CASE Abs(remaining[i]) # r
    <3>1. /\ istatus'[i] = "WORKING"
          /\ \/ 0 < remaining'[i] /\ remaining'[i] <= quantity[i]
             \/ remaining'[i] < 0 /\ quantity[i] <= remaining'[i]
      BY <2>2, <2>4, <2>5, <2>9, <1>2, <1>4 DEF Abs
    <3> QED  BY <3>1, <2>2, <2>3, <2>6, <2>7, <1>3, <1>5, FillKeeps
  <2> QED  BY <2>8, <2>9
<1> QED  BY <1>4, <1>6, <1>7

(* A working bundle of which no share has traded lacks its whole plan. *)
LEMMA UnstartedIsWhole ==
  ASSUME IInv, NEW b \in Bundle, Working(b), ~Started(b),
         NEW l \in Leg, quantity[<<b, l>>] # 0
  PROVE  IsActive(<<b, l>>) /\ remaining[<<b, l>>] = quantity[<<b, l>>]
<1> USE DEF IInv
<1> DEFINE i == <<b, l>>
<1>1. i \in Intent /\ i[1] = b  BY Pairs
<1>2. i \in Members(b)  BY <1>1 DEF Members
<1>3. quantity[i] \in Int /\ remaining[i] \in Int
  BY <1>1 DEF TypeOK, TypeOKIntentions
<1>4. ~(Filled(i) > 0)  BY <1>2 DEF Started
<1>5. istatus[i] # "NONE" /\ istatus[i] # "CANCELLED"
  BY <1>1 DEF IntentsInShape
<1>6. istatus[i] # "FILLED"
  BY <1>1, <1>3, <1>4 DEF IntentsInShape, Filled, Abs
<1>7. IsActive(i)
  BY <1>1, <1>5, <1>6 DEF TypeOK, TypeOKIntentions, IntentStatus, IsActive
<1>8. \/ 0 < remaining[i] /\ remaining[i] <= quantity[i]
      \/ remaining[i] < 0 /\ quantity[i] <= remaining[i]
  BY <1>1, <1>7 DEF IntentsInShape
<1>9. remaining[i] = quantity[i]
  BY <1>3, <1>4, <1>8 DEF Filled, Abs
<1> QED  BY <1>7, <1>9

(* Preparing cancels whole bundles none of which has traded, and only of   *)
(* arbitrages: the exit of a tender does not expire within a heat.         *)
LEMMA PrepareKeeps ==
  ASSUME IInv, Prepare
  PROVE  /\ TodoIsActive' /\ IntentsInShape' /\ PlansInShape'
         /\ OneWorkingBundle' /\ HedgedOrBeingHedged'
<1> USE DEF IInv
<1>0. UNCHANGED WithForgotten /\ WithForgotten \in [Leg -> Int]
  BY ForgottenIs DEF Prepare
<1>1. UNCHANGED <<kind, quantity, remaining, deadline, caseTick, server, lost, forgotten>>
  BY DEF Prepare, PrepareBundles
<1>2. \A i \in Intent :
        istatus'[i] = IF IsActive(i) /\ Overdue(i[1]) THEN "CANCELLED" ELSE istatus[i]
  BY DEF Prepare, PrepareBundles
<1>3. \A i \in Intent : IsActive(i)' <=> IsActive(i) /\ ~Overdue(i[1])
  BY <1>2 DEF IsActive
<1>4. \A b \in Bundle : Working(b)' <=> Working(b) /\ ~Overdue(b)
  BY <1>1, <1>3 DEF Working, Members
<1>5. TodoIsActive'  BY DEF Prepare, TodoIsActive, IsActive
<1>6. IntentsInShape'
  <2> SUFFICES ASSUME NEW i \in Intent
               PROVE  /\ quantity[i] = 0 => istatus'[i] = "NONE"
                      /\ kind[i[1]] = "NONE" => quantity[i] = 0
                      /\ IsActive(i)' =>
                           \/ 0 < remaining[i] /\ remaining[i] <= quantity[i]
                           \/ remaining[i] < 0 /\ quantity[i] <= remaining[i]
                      /\ istatus'[i] = "FILLED" => remaining[i] = 0
                      /\ istatus'[i] = "NONE" => quantity[i] = 0
                      /\ istatus'[i] = "CANCELLED" => ~Working(i[1])'
    BY <1>1 DEF IntentsInShape
  <2>1. CASE IsActive(i) /\ Overdue(i[1])
    BY <2>1, <1>2, <1>3, <1>4, Pairs DEF IntentsInShape, IsActive
  <2>2. CASE ~(IsActive(i) /\ Overdue(i[1]))
    BY <2>2, <1>2, <1>3, <1>4, Pairs DEF IntentsInShape
  <2> QED  BY <2>1, <2>2
<1>7. PlansInShape'  BY <1>1 DEF PlansInShape, Hedged
<1>8. OneWorkingBundle'  BY <1>1, <1>4 DEF OneWorkingBundle, Created
<1>9. HedgedOrBeingHedged'
  <2> SUFFICES ASSUME ~lost
               PROVE  /\ \A b \in Created : Working(b)' => Hedged(Completed(b)')
                      /\ (\A b \in Created : ~Working(b)') => Hedged(WithForgotten)
    BY <1>0, <1>1 DEF HedgedOrBeingHedged, Created
  <2>1. ASSUME NEW b \in Created, Working(b)' PROVE Hedged(Completed(b)')
    <3>1. Working(b) /\ ~Overdue(b)  BY <2>1, <1>4 DEF Created
    <3>2. \A l \in Leg : IsActive(<<b, l>>)' <=> IsActive(<<b, l>>)
      BY <3>1, <1>3, Pairs DEF Created
    <3>3. Completed(b)' = Completed(b)
      BY <3>2, <1>0, <1>1 DEF Completed
    <3> QED  BY <3>1, <3>3 DEF HedgedOrBeingHedged
  <2>2. ASSUME \A b \in Created : ~Working(b)' PROVE Hedged(WithForgotten)
    <3>1. CASE \A b \in Created : ~Working(b)
      BY <3>1 DEF HedgedOrBeingHedged
    <3>2. ASSUME NEW b \in Created, Working(b) PROVE Hedged(WithForgotten)
      <4>1. b \in Bundle /\ Overdue(b)  BY <2>2, <3>2, <1>4 DEF Created
      <4>2. Hedged(Completed(b))  BY <3>2 DEF HedgedOrBeingHedged
      <4>3. \A l \in Leg : <<b, l>> \in Intent /\ <<b, l>>[1] = b /\ <<b, l>>[2] = l
        BY <4>1, Pairs
      <4>4. \A l \in Leg : quantity[<<b, l>>] # 0 =>
              IsActive(<<b, l>>) /\ remaining[<<b, l>>] = quantity[<<b, l>>]
        BY <4>1, <4>3, <3>2, UnstartedIsWhole DEF Overdue
      <4>5. kind[b] \in {"ARB", "CLOSE"}
        <5>1. PICK i \in Intent : i[1] = b /\ IsExpired(i)
          BY <4>1 DEF Overdue, Members
        <5>2. caseTick \in Nat /\ deadline[b] \in Nat /\ MaxTick \in Nat
          BY <4>1, SettingsAssumption DEF TypeOK, TypeOKIntentions
        <5>3. caseTick > deadline[b]  BY <5>1 DEF IsExpired
        <5>4. caseTick <= MaxTick /\ (kind[b] = "TENDER" => MaxTick <= deadline[b])
          BY <4>1 DEF PlansInShape
        <5>5. kind[b] # "TENDER"  BY <5>2, <5>3, <5>4
        <5>6. kind[b] \in Kind /\ kind[b] # "NONE"
          BY <4>1 DEF Created, TypeOK, TypeOKIntentions
        <5> QED  BY <5>5, <5>6 DEF Kind
      <4>6. Hedged([l \in Leg |-> quantity[<<b, l>>]])
        BY <4>1, <4>5 DEF PlansInShape
      <4>7. \A l \in Leg : Completed(b)[l] = WithForgotten[l] + quantity[<<b, l>>]
        BY <1>0, <4>3, <4>4 DEF Completed, IntentsInShape, IsActive
      <4>8. \A l \in Leg : WithForgotten[l] \in Int /\ quantity[<<b, l>>] \in Int
        BY <1>0, <4>3 DEF TypeOK, TypeOKIntentions
      <4>9. /\ quantity[<<b, "BULL">>] = quantity[<<b, "BEAR">>]
            /\ quantity[<<b, "RITC">>] = -quantity[<<b, "BULL">>]
        BY <4>6 DEF Hedged, Leg
      <4>10. /\ \A l \in Leg : WithForgotten[l] = Completed(b)[l] - quantity[<<b, l>>]
             /\ Completed(b)["BULL"] = Completed(b)["BEAR"]
             /\ Completed(b)["RITC"] = -Completed(b)["BULL"]
        BY <4>2, <4>7, <4>8 DEF Hedged
      <4>11. \A l \in Leg : Completed(b)[l] \in Int /\ quantity[<<b, l>>] \in Int
        BY <4>7, <4>8
      <4> QED  BY <4>9, <4>10, <4>11 DEF Hedged, Leg
    <3> QED  BY <3>1, <3>2
  <2> QED  BY <2>1, <2>2
<1> QED  BY <1>5, <1>6, <1>7, <1>8, <1>9

(***************************************************************************)
(* What is left to trade is what the one working bundle lacks.             *)
(***************************************************************************)
Owing(b) == [l \in Leg |-> IF IsActive(<<b, l>>) THEN remaining[<<b, l>>] ELSE 0]
Begun == \E b \in Created : Working(b) /\ Started(b)

LeftIs ==
  /\ \A b \in Created : Working(b) =>
       /\ LeftToTrade = Owing(b) /\ LeftToTrade # Obligation!Nothing
       /\ Begun <=> Started(b)
  /\ (\A b \in Created : ~Working(b)) => LeftToTrade = Obligation!Nothing /\ ~Begun
  /\ LeftToTrade \in [Leg -> Int]

LEMMA LeftIsOwed == IInv => LeftIs
<1> SUFFICES ASSUME IInv PROVE LeftIs
  OBVIOUS
<1> USE DEF IInv
<1>1. ASSUME NEW b \in Created, NEW l \in Leg, IsActive(<<b, l>>) PROVE Working(b)
  <2>1. <<b, l>> \in Intent /\ <<b, l>>[1] = b
    BY Pairs DEF Created
  <2>2. <<b, l>> \in Members(b)
    BY <1>1, <2>1 DEF IntentsInShape, Members, IsActive
  <2> QED  BY <1>1, <2>2 DEF Working
<1>2. ASSUME NEW b \in Created, Working(b)
      PROVE  /\ LeftToTrade = Owing(b) /\ LeftToTrade # Obligation!Nothing
             /\ Begun <=> Started(b)
  <2>1. \A a \in Created : Working(a) => a = b
    BY <1>2 DEF OneWorkingBundle
  <2>2. ASSUME NEW l \in Leg PROVE LeftToTrade[l] = Owing(b)[l]
    <3>1. \A a \in Created : IsActive(<<a, l>>) => a = b
      BY <1>1, <2>1
    <3>2. CASE IsActive(<<b, l>>)
      <4>1. (CHOOSE a \in Created : IsActive(<<a, l>>)) = b
        BY <3>1, <3>2
      <4> QED  BY <3>2, <4>1 DEF LeftToTrade, Owing
    <3>3. CASE ~IsActive(<<b, l>>)
      BY <3>1, <3>3 DEF LeftToTrade, Owing
    <3> QED  BY <3>2, <3>3
  <2>3. LeftToTrade = Owing(b)
    BY <2>2 DEF LeftToTrade, Owing
  <2>4. PICK i \in Intent : i[1] = b /\ IsActive(i) /\ i[2] \in Leg /\ i = <<b, i[2]>>
    BY <1>2, Pairs DEF Working, Members
  <2>5. remaining[i] # 0
    BY <2>4 DEF IntentsInShape, TypeOK, TypeOKIntentions
  <2>6. Owing(b)[i[2]] # 0
    BY <2>4, <2>5 DEF Owing
  <2>7. LeftToTrade # Obligation!Nothing
    BY <2>3, <2>4, <2>6 DEF Obligation!Nothing
  <2>8. Begun <=> Started(b)
    BY <1>2, <2>1 DEF Begun
  <2> QED  BY <2>3, <2>7, <2>8
<1>3. ASSUME \A b \in Created : ~Working(b) PROVE LeftToTrade = Obligation!Nothing /\ ~Begun
  BY <1>1, <1>3 DEF LeftToTrade, Obligation!Nothing, Begun
<1>4. LeftToTrade \in [Leg -> Int]
  <2>1. Obligation!Nothing \in [Leg -> Int]
    BY DEF Obligation!Nothing
  <2>2. ASSUME NEW b \in Created PROVE Owing(b) \in [Leg -> Int]
    BY Pairs DEF Owing, TypeOK, TypeOKIntentions, Created
  <2> QED  BY <1>2, <1>3, <2>1, <2>2
<1> QED  BY <1>2, <1>3, <1>4 DEF LeftIs

(* What the account will hold once what is left has traded, with what was  *)
(* forgotten.                                                              *)
Aim == Plus(WithForgotten, LeftToTrade)

(* The account and its aim, per bundle at work.                            *)
LEMMA AimIs ==
  ASSUME IInv, LeftIs
  PROVE  /\ Aim \in [Leg -> Int] /\ server \in [Leg -> Int] /\ LeftToTrade \in [Leg -> Int]
         /\ WithForgotten \in [Leg -> Int]
         /\ \A b \in Created : Working(b) => Completed(b) = Aim
         /\ (\A b \in Created : ~Working(b)) => Aim = WithForgotten
         /\ ~lost => Hedged(Aim)
<1>1. server \in [Leg -> Int] /\ LeftToTrade \in [Leg -> Int] /\ WithForgotten \in [Leg -> Int]
  BY ForgottenIs DEF IInv, TypeOK, TypeOKIntentions, LeftIs
<1>2. Aim \in [Leg -> Int]
  BY <1>1 DEF Aim, Plus
<1>3. ASSUME NEW b \in Created, Working(b) PROVE Completed(b) = Aim
  <2>1. LeftToTrade = Owing(b)
    BY <1>3 DEF LeftIs
  <2> QED  BY <2>1 DEF Completed, Aim, Plus, Owing
<1>4. ASSUME \A b \in Created : ~Working(b) PROVE Aim = WithForgotten
  <2>1. LeftToTrade = Obligation!Nothing
    BY <1>4 DEF LeftIs
  <2>2. \A l \in Leg : Aim[l] = WithForgotten[l]
    BY <1>1, <2>1 DEF Aim, Plus, Obligation!Nothing
  <2> QED  BY <1>1, <1>2, <2>2
<1>5. ~lost => Hedged(Aim)
  BY <1>3, <1>4 DEF IInv, HedgedOrBeingHedged
<1> QED  BY <1>1, <1>2, <1>3, <1>4, <1>5

(* What a plan none of which has traded still lacks is its whole plan,     *)
(* which is a hedged trade unless it exits a tender.                       *)
LEMMA UnstartedIsHedged ==
  ASSUME IInv, LeftIs, NEW b \in Created, Working(b), ~Started(b), kind[b] # "TENDER"
  PROVE  Hedged(LeftToTrade)
<1> USE DEF IInv
<1>1. b \in Bundle /\ LeftToTrade = Owing(b)
  BY DEF LeftIs, Created
<1>2. kind[b] \in {"ARB", "CLOSE"}
  BY DEF Created, TypeOK, TypeOKIntentions, Kind
<1>3. Hedged([l \in Leg |-> quantity[<<b, l>>]])
  BY <1>1, <1>2 DEF PlansInShape
<1>4. ASSUME NEW l \in Leg PROVE Owing(b)[l] = quantity[<<b, l>>]
  <2>1. <<b, l>> \in Intent
    BY <1>1, Pairs
  <2>2. CASE quantity[<<b, l>>] # 0
    BY <1>1, <2>2, UnstartedIsWhole DEF Owing
  <2>3. CASE quantity[<<b, l>>] = 0
    BY <2>1, <2>3 DEF Owing, IntentsInShape, IsActive
  <2> QED  BY <2>2, <2>3
<1> QED  BY <1>1, <1>3, <1>4 DEF Hedged, Leg

(* A reset puts down what the dropped bundle lacks, unless the bundle is a *)
(* hedged trade that never began.                                          *)
LEMMA ResetLeaves ==
  ASSUME IInv, LeftIs, ResetForNewHeat
  PROVE  \/ forgotten' = Plus(forgotten, LeftToTrade)
         \/ forgotten' = forgotten /\ Hedged(LeftToTrade)
<1>1. CASE \E b \in Created : Owes(b)
  BY <1>1 DEF ResetForNewHeat
<1>2. CASE ~ \E b \in Created : Owes(b)
  <2>1. forgotten' = forgotten
    BY <1>2 DEF ResetForNewHeat
  <2>2. CASE \A b \in Created : ~Working(b)
    <3>1. LeftToTrade = Nothing
      BY <2>2 DEF LeftIs, Nothing, Obligation!Nothing
    <3>2. Hedged(Nothing)
      <4>1. \A m, n \in Int : m + n = 0 => m = -n
        OBVIOUS
      <4>2. /\ Nothing["BULL"] \in Int /\ Nothing["RITC"] \in Int
            /\ Nothing["BULL"] = Nothing["BEAR"] /\ Nothing["RITC"] + Nothing["BULL"] = 0
        BY DEF Nothing, Leg
      <4>3. Nothing["RITC"] = -Nothing["BULL"]
        BY <4>1, <4>2
      <4> QED  BY <4>2, <4>3 DEF Hedged
    <3> QED  BY <2>1, <3>1, <3>2
  <2>3. ASSUME NEW b \in Created, Working(b) PROVE Hedged(LeftToTrade)
    <3>1. ~Started(b) /\ kind[b] # "TENDER"
      BY <1>2, <2>3 DEF Owes
    <3> QED  BY <2>3, <3>1, UnstartedIsHedged
  <2> QED  BY <2>1, <2>2, <2>3
<1> QED  BY <1>1, <1>2

(* After a reset no bundle is left, and with what it forgot the account is *)
(* where it was going.                                                     *)
LEMMA ResetKeeps ==
  ASSUME IInv, LeftIs, ResetForNewHeat, caseTick' <= MaxTick, todo' = {},
         UNCHANGED <<server, lost>>
  PROVE  /\ TodoIsActive' /\ IntentsInShape' /\ PlansInShape'
         /\ OneWorkingBundle' /\ HedgedOrBeingHedged'
<1>1. /\ \A b \in Bundle : kind'[b] = "NONE"
      /\ \A i \in Intent : quantity'[i] = 0 /\ istatus'[i] = "NONE"
  BY DEF ResetForNewHeat
<1>2. Created' = {}
  BY <1>1 DEF Created
<1>3. TodoIsActive' /\ OneWorkingBundle'
  BY <1>2 DEF TodoIsActive, OneWorkingBundle
<1>4. IntentsInShape'
  BY <1>1 DEF IntentsInShape, IsActive
<1>5. PlansInShape'
  BY <1>1 DEF PlansInShape
<1>6. ASSUME ~lost PROVE Hedged(WithForgotten')
  <2>1. /\ Hedged(Aim) /\ Aim \in [Leg -> Int] /\ LeftToTrade \in [Leg -> Int]
        /\ server \in [Leg -> Int] /\ WithForgotten \in [Leg -> Int] /\ forgotten \in [Leg -> Int]
    BY <1>6, AimIs DEF IInv, TypeOK
  <2>2. CASE forgotten' = Plus(forgotten, LeftToTrade)
    <3>1. \A l \in Leg : WithForgotten'[l] = server[l] + (forgotten[l] + LeftToTrade[l])
      BY <2>2 DEF WithForgotten, Plus
    <3>2. \A l \in Leg : Aim[l] = (server[l] + forgotten[l]) + LeftToTrade[l]
      BY DEF Aim, WithForgotten, Plus
    <3>3. \A l \in Leg : WithForgotten'[l] = Aim[l]
      BY <2>1, <3>1, <3>2
    <3> QED  BY <2>1, <3>3 DEF Hedged, Leg
  <2>3. CASE forgotten' = forgotten /\ Hedged(LeftToTrade)
    <3>1. WithForgotten' = WithForgotten
      BY <2>3 DEF WithForgotten
    <3>2. \A l \in Leg : Aim[l] = WithForgotten[l] + LeftToTrade[l]
      BY DEF Aim, Plus
    <3> QED  BY <2>1, <2>3, <3>1, <3>2 DEF Hedged, Leg
  <2> QED  BY <2>2, <2>3, ResetLeaves
<1>7. HedgedOrBeingHedged'
  BY <1>2, <1>6 DEF HedgedOrBeingHedged
<1> QED  BY <1>3, <1>4, <1>5, <1>7

(***************************************************************************)
(* The inductive invariant holds in every state.                           *)
(***************************************************************************)
(* A new heat has no bundle and a flat account. *)
LEMMA InvInit == Init => IInv
<1> SUFFICES ASSUME Init PROVE IInv
  OBVIOUS
<1>1. TypeOK  BY TypeInit
<1>2. \A i \in Intent : istatus[i] = "NONE" /\ quantity[i] = 0
  BY DEF Init, InitIntentions
<1>3. \A b \in Bundle : kind[b] = "NONE"  BY DEF Init, InitIntentions
<1>4. TodoIsActive  BY DEF Init, TodoIsActive
<1>5. IntentsInShape  BY <1>2 DEF IntentsInShape, IsActive
<1>6. PlansInShape
  <2>1. caseTick <= MaxTick
    BY SettingsAssumption DEF Init, InitIntentions
  <2>2. \A b \in Bundle : kind[b] \notin {"ARB", "CLOSE", "TENDER"}  BY <1>3
  <2> QED  BY <2>1, <2>2 DEF PlansInShape
<1>7. Created = {}  BY <1>3 DEF Created
<1>8. OneWorkingBundle  BY <1>7 DEF OneWorkingBundle
<1>9. HedgedOrBeingHedged
  <2>1. \A m, n \in Int : m + n = 0 => m = -n  OBVIOUS
  <2>2. /\ server["BULL"] \in Int /\ server["RITC"] \in Int
        /\ server["BULL"] = server["BEAR"] /\ server["RITC"] + server["BULL"] = 0
    BY DEF Init, InitIntentions, Leg
  <2>3. server["RITC"] = -server["BULL"]  BY <2>1, <2>2
  <2>4. Hedged(server)  BY <2>2, <2>3 DEF Hedged
  <2>5. WithForgotten = server  BY <1>1, ForgottenIs DEF Init
  <2> QED  BY <2>4, <2>5, <1>7 DEF HedgedOrBeingHedged
<1>10. IdleInShape  BY DEF Init, IdleInShape
<1> QED  BY <1>1, <1>4, <1>5, <1>6, <1>8, <1>9, <1>10 DEF IInv

LEMMA IdleStep == IInv /\ [Next]_vars => IdleInShape'
<1> SUFFICES ASSUME IInv, [Next]_vars PROVE IdleInShape'
  OBVIOUS
<1>0. IdleInShape
  BY DEF IInv
<1>1. CASE BeginCycle \/ PlaceArb \/ TakeTender \/ LoseTenderReply \/ PlaceNothing \/ Prepare
  <2>1. pc' # "IDLE"
    BY <1>1 DEF BeginCycle, PlaceArb, TakeTender, LoseTenderReply, PlaceNothing, Prepare
  <2> QED  BY <2>1 DEF IdleInShape
<1>2. CASE IdlePoll
  BY <1>0, <1>2 DEF IdleInShape, IdlePoll, MayPause, MayForget
<1>3. ASSUME NEW i \in Intent, Step(i) PROVE IdleInShape'
  <2>1. CASE Skip(i)
    BY <2>1 DEF IdleInShape, Skip, IsTurn
  <2>2. CASE \E x, r \in 0..MaxOrderSize : Post(i, x, r)
    <3>1. pc' # "IDLE"
      BY <2>2 DEF Post, IsTurn
    <3> QED  BY <3>1 DEF IdleInShape
  <2>3. CASE \E x \in 0..MaxOrderSize : PostRaises(i, x)
    <3>1. /\ todo' = {} /\ remembered' = remembered /\ forgotten' = forgotten
          /\ remembered \/ forgotten = Nothing
      BY <2>3 DEF PostRaises, EndCycle, MayForget
    <3> QED  BY <3>1 DEF IdleInShape
  <2> QED  BY <1>3, <2>1, <2>2, <2>3 DEF Step
<1>4. CASE Settle
  BY <1>4 DEF IdleInShape, Settle, EndCycle
<1>5. CASE UNCHANGED vars
  BY <1>0, <1>5 DEF IdleInShape, vars
<1> QED  BY <1>1, <1>2, <1>3, <1>4, <1>5 DEF Next

(* Every step of the program keeps the inductive invariant. *)
LEMMA InvStep == IInv /\ [Next]_vars => IInv'
<1> SUFFICES ASSUME IInv, [Next]_vars
             PROVE  /\ TodoIsActive' /\ IntentsInShape' /\ PlansInShape'
                    /\ OneWorkingBundle' /\ HedgedOrBeingHedged'
  BY TypeStep, IdleStep DEF IInv
<1>1. TypeOK /\ TodoIsActive /\ caseTick <= MaxTick
  BY DEF IInv, PlansInShape
<1>2. CASE BeginCycle
  <2>1. caseTick' <= MaxTick
    BY <1>1, <1>2, SettingsAssumption DEF BeginCycle, ReadCase, TypeOK, TypeOKIntentions
  <2>2. CASE remembered
    BY <1>1, <1>2, <2>1, <2>2, SameIntents DEF BeginCycle, KeepState, TodoIsActive
  <2>3. CASE ~remembered
    <3>1. todo' = {} /\ LeftIs
      BY <1>2, LeftIsOwed DEF BeginCycle, IInv, IdleInShape
    <3> QED  BY <1>2, <2>1, <2>3, <3>1, ResetKeeps DEF BeginCycle
  <2> QED  BY <2>2, <2>3
<1>11. CASE IdlePoll
  BY <1>1, <1>11, SameIntents DEF IdlePoll, coreVars, TodoIsActive
<1>3. CASE PlaceArb
  <2>1. PICK b \in Bundle, dir \in Signs, q \in 1..OrderQty :
          EnqueueArb(b, "ARB", dir, q)
    BY <1>3 DEF PlaceArb
  <2>2. q \in Int /\ ArbLegs(dir, q) \in [Leg -> Int]  BY ArbLegsType
  <2>3. Hedged(ArbLegs(dir, q))
    <3>1. dir \in {-1, 1} /\ q \in Int  BY DEF Signs
    <3> QED  BY <3>1 DEF ArbLegs, Hedged, Leg
  <2>4. server \in [Leg -> Int]  BY <1>1 DEF TypeOK, TypeOKIntentions
  <2>6. /\ ~Busy /\ kind[b] = "NONE" /\ UNCHANGED <<caseTick, server, lost, todo, forgotten>>
        /\ AddBundle(b, "ARB", ArbLegs(dir, q), ArbDeadline)
    BY <1>3, <2>1 DEF PlaceArb, EnqueueArb, IsNext, Created, loopVars
  <2>5. Hedged(WithForgotten) => Hedged(Plus(WithForgotten', ArbLegs(dir, q)))
    <3>1. WithForgotten' = WithForgotten /\ WithForgotten \in [Leg -> Int]
      BY <1>1, <2>6, ForgottenIs
    <3> QED  BY <2>2, <2>3, <3>1 DEF Hedged, Plus, Leg
  <2>7. "ARB" \in Kind /\ ArbDeadline \in Nat  BY SettingsAssumption DEF Kind
  <2> QED  BY <2>2, <2>3, <2>4, <2>5, <2>6, <2>7, AddBundleKeeps
<1>4. CASE TakeTender
  <2>1. PICK b \in Bundle, s \in Signs, d \in 0..TenderQty, k \in 0..TenderQty :
          AcceptTender(b, s, d, k)
    BY <1>4 DEF TakeTender
  <2>2. d \in Int /\ k \in Int /\ s \in {-1, 1}  BY SettingsAssumption DEF Signs
  <2>3. TenderLegs(s, d, k) \in [Leg -> Int]  BY <2>2, TenderLegsType
  <2>4. server \in [Leg -> Int]  BY <1>1 DEF TypeOK, TypeOKIntentions
  <2>5. server' = Tendered(server, s, d + k) /\ server' \in [Leg -> Int]
    BY <2>1, <2>2, <2>4, TenderedType DEF AcceptTender
  <2>7. /\ ~Busy /\ kind[b] = "NONE" /\ UNCHANGED <<caseTick, lost, todo, forgotten>>
        /\ AddBundle(b, "TENDER", TenderLegs(s, d, k), TenderLife)
    BY <1>4, <2>1 DEF TakeTender, AcceptTender, TenderOffered, IsNext, Created, loopVars
  <2>6. Hedged(WithForgotten) => Hedged(Plus(WithForgotten', TenderLegs(s, d, k)))
    <3>1. forgotten \in [Leg -> Int] /\ forgotten' = forgotten
      BY <1>1, <2>7 DEF TypeOK
    <3>2. s * (d + k) \in Int /\ s * d \in Int /\ s * k \in Int /\ s * (d + k) = s * d + s * k
          /\ -s * d = -(s * d) /\ -s * k = -(s * k)
      BY <2>2
    <3> QED  BY <2>4, <2>5, <3>1, <3>2 DEF Hedged, WithForgotten, Plus, TenderLegs, Tendered, Leg
  <2>8. "TENDER" \in Kind /\ TenderLife \in Nat /\ MaxTick <= TenderLife
    BY SettingsAssumption, HeatAssumption DEF Kind
  <2> QED  BY <2>3, <2>5, <2>6, <2>7, <2>8, AddBundleKeeps
<1>5. CASE LoseTenderReply
  BY <1>1, <1>5, SameIntents DEF LoseTenderReply, TenderReplyLost, TodoIsActive, loopVars
<1>6. CASE PlaceNothing
  BY <1>1, <1>6, SameIntents DEF PlaceNothing, coreVars, TodoIsActive, loopVars
<1>7. CASE Prepare
  BY <1>7, PrepareKeeps
<1>8. ASSUME NEW i \in Intent, Step(i)
      PROVE  /\ TodoIsActive' /\ IntentsInShape' /\ PlansInShape'
             /\ OneWorkingBundle' /\ HedgedOrBeingHedged'
  <2>1. CASE Skip(i)
    BY <1>1, <2>1, SameIntents DEF Skip, coreVars, TodoIsActive
  <2>2. ASSUME NEW x \in 0..MaxOrderSize, NEW r \in 0..MaxOrderSize, Post(i, x, r)
        PROVE  /\ TodoIsActive' /\ IntentsInShape' /\ PlansInShape'
               /\ OneWorkingBundle' /\ HedgedOrBeingHedged'
    BY <2>2, PostKeeps
  <2>3. ASSUME NEW x \in 0..MaxOrderSize, PostRaises(i, x)
        PROVE  /\ TodoIsActive' /\ IntentsInShape' /\ PlansInShape'
               /\ OneWorkingBundle' /\ HedgedOrBeingHedged'
    <3>1. ~lost' => ~lost /\ server' = server
      <4> SUFFICES ASSUME ~lost' PROVE ~lost /\ server' = server
        OBVIOUS
      <4>1. ~lost /\ x = 0  BY <2>3 DEF PostRaises
      <4>2. i[2] \in Leg /\ quantity[i] \in Int /\ server \in [Leg -> Int]
        BY <1>1, Pairs DEF TypeOK, TypeOKIntentions
      <4>3. Sign(quantity[i]) * 0 = 0  BY <4>2 DEF Sign
      <4>4. server' = [server EXCEPT ![i[2]] = @ + Sign(quantity[i]) * 0]
        BY <2>3, <4>1 DEF PostRaises
      <4>5. server[i[2]] + 0 = server[i[2]]  BY <4>2
      <4> QED  BY <4>1, <4>2, <4>3, <4>4, <4>5
    <3>2. /\ UNCHANGED <<kind, quantity, remaining, istatus, deadline, caseTick, forgotten>>
          /\ todo' = {}
      BY <2>3 DEF PostRaises, EndCycle
    <3> QED  BY <1>1, <3>1, <3>2, SameIntents
  <2> QED  BY <1>8, <2>1, <2>2, <2>3 DEF Step
<1>9. CASE Settle
  <2>1. /\ UNCHANGED <<kind, quantity, remaining, istatus, deadline, caseTick, server, lost,
                       forgotten>>
        /\ todo' = {}
    BY <1>9 DEF Settle, SettleBundles, EndCycle
  <2> QED  BY <1>1, <2>1, SameIntents
<1>10. CASE UNCHANGED vars
  BY <1>1, <1>10, SameIntents DEF vars, TodoIsActive
<1> QED
  BY <1>2, <1>3, <1>4, <1>5, <1>6, <1>7, <1>8, <1>9, <1>10, <1>11 DEF Next

(* Exposure is never opened on top of a bundle that is still being worked. *)
THEOREM BundlesOneAtATime == Spec => []OneWorkingBundle
<1>1. IInv => OneWorkingBundle  BY DEF IInv
<1> QED  BY InvInit, InvStep, <1>1, PTL DEF Spec

(* While no reply was lost, the account is hedged or the open intents are  *)
(* exactly what is missing from a hedge, whatever the market, the tenders, *)
(* the refusals and the deadlines do, once what the resets of main.run     *)
(* have forgotten is counted in.  A request that fails before any cycle of *)
(* the heat went through leads to such a reset: what the dropped bundle    *)
(* still lacked is then missing from the account, and nobody trades it.    *)
THEOREM AlwaysHedgedOrBeingHedged == Spec => []HedgedOrBeingHedged
<1>1. IInv => HedgedOrBeingHedged  BY DEF IInv
<1> QED  BY InvInit, InvStep, <1>1, PTL DEF Spec

LEMMA InvStays == Spec => []IInv
BY InvInit, InvStep, PTL DEF Spec

(***************************************************************************)
(* What a step does to the account and to what is left to trade.           *)
(***************************************************************************)
(* A request for intent i trades x shares, of which r are booked: fewer    *)
(* only if the reply was lost, in whole or in part.                        *)
Traded(i, x, r) ==
  /\ IsActive(i)
  /\ x \in Nat /\ r \in Nat /\ r <= x /\ x <= Abs(remaining[i]) /\ x <= MaxOrderSize
  /\ server' = [server EXCEPT ![i[2]] = @ + Sign(quantity[i]) * x]
  /\ IF r > 0 THEN RecordFill(i, r) ELSE UNCHANGED <<remaining, istatus>>
  /\ \/ x = r /\ (lost' <=> lost)
     \/ ~lost /\ lost'

LEMMA SizeIs ==
  ASSUME TypeOK, NEW i \in Intent
  PROVE  /\ OrderSize(i) \in Nat /\ OrderSize(i) <= MaxOrderSize
         /\ OrderSize(i) <= Abs(remaining[i]) /\ OrderSize(i) <= Acceptable(i, Started(i[1]))
         /\ OrderSize(i) \in {Abs(remaining[i]), Acceptable(i, Started(i[1])), MaxOrderSize}
<1> DEFINE a == Abs(remaining[i])
           c == Acceptable(i, Started(i[1]))
<1>1. a \in Nat  BY AbsType DEF TypeOK, TypeOKIntentions
<1>2. c \in Nat  BY Pairs DEF TypeOK, TypeOKIntentions, Acceptable
<1>3. MaxOrderSize \in Nat  BY SettingsAssumption
<1> HIDE DEF a, c
<1>4. \E n \in {a, c, MaxOrderSize} : \A m \in {a, c, MaxOrderSize} : n <= m
  BY <1>1, <1>2, <1>3
<1>5. LET n == Least({a, c, MaxOrderSize})
      IN  n \in {a, c, MaxOrderSize} /\ n <= a /\ n <= c /\ n <= MaxOrderSize
  BY <1>4 DEF Least
<1> QED  BY <1>1, <1>2, <1>3, <1>5 DEF OrderSize, a, c

LEMMA RequestTrades ==
  ASSUME IInv, NEW i \in Intent, NEW x \in Int, NEW r \in Int,
         \/ Post(i, x, r)
         \/ PostRaises(i, x) /\ r = 0
  PROVE  Traded(i, x, r)
<1>1. IsActive(i)
  BY DEF Post, PostRaises, IsTurn, IInv, TodoIsActive
<1>2. x \in 0..OrderSize(i) /\ r \in 0..x
  <2>1. PostRaises(i, x) /\ r = 0 => r \in 0..x
    BY SizeIs DEF PostRaises, IInv
  <2> QED  BY <2>1 DEF Post, PostRaises
<1>3. Abs(remaining[i]) \in Int /\ MaxOrderSize \in Int
  BY AbsType, SettingsAssumption DEF IInv, TypeOK, TypeOKIntentions
<1>4. x \in Nat /\ r \in Nat /\ r <= x /\ x <= Abs(remaining[i]) /\ x <= MaxOrderSize
  BY <1>2, <1>3, SizeIs DEF IInv
<1>5. server' = [server EXCEPT ![i[2]] = @ + Sign(quantity[i]) * x]
  BY DEF Post, PostRaises
<1>6. IF r > 0 THEN RecordFill(i, r) ELSE UNCHANGED <<remaining, istatus>>
  BY DEF Post, PostRaises
<1>7. (x = r /\ (lost' <=> lost)) \/ (~lost /\ lost')
  <2>1. x = r \/ ~lost
    BY DEF Post, PostRaises, MayLose
  <2>2. lost' <=> lost \/ x # r
    BY DEF Post, PostRaises
  <2> QED  BY <2>1, <2>2
<1> QED  BY <1>1, <1>4, <1>5, <1>6, <1>7 DEF Traded

Quiet == UNCHANGED <<kind, quantity, remaining, istatus, server, lost, forgotten>>

Reset == ResetForNewHeat /\ ~remembered /\ forgotten = Nothing /\ UNCHANGED <<server, lost, remembered>>

(* Every step decides, cancels, trades, forgets or does nothing of the     *)
(* kind.                                                                   *)
LEMMA StepIs ==
  ASSUME IInv, [Next]_vars
  PROVE  \/ PlaceArb \/ TakeTender \/ LoseTenderReply \/ Prepare \/ Quiet \/ Reset
         \/ /\ UNCHANGED <<kind, quantity, forgotten, remembered>>
            /\ \E i \in Intent, x, r \in Int : Traded(i, x, r)
<1>0. CASE BeginCycle
  <2>1. CASE remembered
    BY <1>0, <2>1 DEF BeginCycle, KeepState, Quiet
  <2>2. CASE ~remembered
    BY <1>0, <2>2 DEF BeginCycle, Reset, IInv, IdleInShape
  <2> QED  BY <2>1, <2>2
<1>1. CASE IdlePoll \/ PlaceNothing \/ Settle \/ UNCHANGED vars
  BY <1>1 DEF IdlePoll, PlaceNothing, Settle, SettleBundles, coreVars, vars, Quiet, loopVars
<1>2. ASSUME NEW i \in Intent, Step(i)
      PROVE  \/ Quiet
             \/ /\ UNCHANGED <<kind, quantity, forgotten, remembered>>
                /\ \E x, r \in Int : Traded(i, x, r)
  <2>0. 0..MaxOrderSize \subseteq Int
    BY SettingsAssumption
  <2>1. CASE Skip(i)
    BY <2>1 DEF Skip, coreVars, Quiet
  <2>2. CASE \E x, r \in 0..MaxOrderSize : Post(i, x, r)
    <3>1. PICK x \in Int, r \in Int : Post(i, x, r)
      BY <2>0, <2>2
    <3> QED  BY <3>1, RequestTrades DEF Post
  <2>3. CASE \E x \in 0..MaxOrderSize : PostRaises(i, x)
    <3>1. PICK x \in Int : PostRaises(i, x)
      BY <2>0, <2>3
    <3>2. Traded(i, x, 0)
      BY <3>1, RequestTrades
    <3> QED  BY <3>1, <3>2 DEF PostRaises
  <2> QED  BY <1>2, <2>1, <2>2, <2>3 DEF Step
<1> QED  BY <1>0, <1>1, <1>2 DEF Next

(* What a recorded fill leaves of an active intent.                        *)
LEMMA RecordFillIs ==
  ASSUME IInv, NEW i \in Intent, IsActive(i), NEW n \in Nat, n > 0, n <= Abs(remaining[i]),
         RecordFill(i, n)
  PROVE  /\ remaining'[i] \in Int /\ remaining'[i] = remaining[i] - Sign(quantity[i]) * n
         /\ \/ istatus'[i] = "FILLED" /\ remaining'[i] = 0
            \/ istatus'[i] = "WORKING" /\ remaining'[i] # 0
         /\ \A j \in Intent \ {i} : UNCHANGED <<remaining[j], istatus[j]>>
         /\ Obligation!Between(remaining'[i], remaining[i])
         /\ Abs(remaining'[i]) = Abs(remaining[i]) - n
<1>1. quantity[i] \in Int /\ remaining[i] \in Int
  BY DEF IInv, TypeOK, TypeOKIntentions
<1>2. \/ 0 < remaining[i] /\ remaining[i] <= quantity[i]
      \/ remaining[i] < 0 /\ quantity[i] <= remaining[i]
  BY DEF IInv, IntentsInShape
<1>3. /\ remaining'[i] = remaining[i] - Sign(quantity[i]) * n
      /\ istatus'[i] = IF Abs(remaining[i]) = n THEN "FILLED" ELSE "WORKING"
      /\ \A j \in Intent \ {i} : UNCHANGED <<remaining[j], istatus[j]>>
  BY DEF RecordFill, IInv, TypeOK, TypeOKIntentions
<1>4. /\ 0 < remaining[i] => Sign(quantity[i]) * n = n
      /\ remaining[i] < 0 => Sign(quantity[i]) * n = -n
  BY <1>1, <1>2 DEF Sign
<1> HIDE DEF Sign
<1>5. CASE 0 < remaining[i]
  BY <1>1, <1>3, <1>4, <1>5 DEF Abs, Obligation!Between
<1>6. CASE remaining[i] < 0
  BY <1>1, <1>3, <1>4, <1>6 DEF Abs, Obligation!Between
<1> QED  BY <1>2, <1>5, <1>6

(* Two positions that are equally far from a hedge.                        *)
SameGap(p, q) ==
  /\ p["BULL"] - p["BEAR"] = q["BULL"] - q["BEAR"]
  /\ p["BULL"] + p["RITC"] = q["BULL"] + q["RITC"]

(* A decision adds a plan that, once done, leaves the account as far from  *)
(* a hedge as it is.                                                       *)
LEMMA DecisionIs ==
  ASSUME IInv, PlaceArb \/ TakeTender
  PROVE  /\ ~Busy /\ (lost' <=> lost) /\ server' \in [Leg -> Int]
         /\ UNCHANGED <<forgotten, remembered>>
         /\ \E b \in Bundle, k \in Kind, legs \in [Leg -> Int], life \in Nat :
              /\ kind[b] = "NONE" /\ AddBundle(b, k, legs, life)
              /\ SameGap(Plus(server', legs), server)
<1>0. server \in [Leg -> Int]
  BY DEF IInv, TypeOK, TypeOKIntentions
<1>00. UNCHANGED <<forgotten, remembered>>
  BY DEF PlaceArb, TakeTender, loopVars
<1>1. CASE PlaceArb
  <2>1. PICK b \in Bundle, dir \in Signs, q \in 1..OrderQty : EnqueueArb(b, "ARB", dir, q)
    BY <1>1 DEF PlaceArb
  <2>2. q \in Int /\ ArbLegs(dir, q) \in [Leg -> Int]  BY ArbLegsType
  <2>3. /\ ~Busy /\ kind[b] = "NONE" /\ UNCHANGED <<server, lost>>
        /\ AddBundle(b, "ARB", ArbLegs(dir, q), ArbDeadline)
    BY <2>1 DEF EnqueueArb, IsNext, Created
  <2>4. SameGap(Plus(server', ArbLegs(dir, q)), server)
    <3>1. dir \in {-1, 1} /\ q \in Int  BY DEF Signs
    <3>2. dir * q \in Int /\ -dir * q = -(dir * q)  BY <3>1
    <3> QED  BY <1>0, <2>3, <3>2 DEF SameGap, Plus, ArbLegs, Leg
  <2>5. "ARB" \in Kind /\ ArbDeadline \in Nat  BY SettingsAssumption DEF Kind
  <2> QED  BY <1>0, <1>00, <2>2, <2>3, <2>4, <2>5
<1>2. CASE TakeTender
  <2>1. PICK b \in Bundle, s \in Signs, d \in 0..TenderQty, k \in 0..TenderQty :
          AcceptTender(b, s, d, k)
    BY <1>2 DEF TakeTender
  <2>2. d \in Int /\ k \in Int /\ s \in {-1, 1}  BY SettingsAssumption DEF Signs
  <2>3. TenderLegs(s, d, k) \in [Leg -> Int]  BY <2>2, TenderLegsType
  <2>4. /\ ~Busy /\ kind[b] = "NONE" /\ UNCHANGED lost
        /\ AddBundle(b, "TENDER", TenderLegs(s, d, k), TenderLife)
        /\ server' = Tendered(server, s, d + k)
    BY <2>1 DEF AcceptTender, TenderOffered, IsNext, Created
  <2>5. server' \in [Leg -> Int]
    BY <1>0, <2>2, <2>4, TenderedType
  <2>6. SameGap(Plus(server', TenderLegs(s, d, k)), server)
    <3>1. /\ s * (d + k) \in Int /\ -s * d \in Int /\ -s * k \in Int
          /\ s * (d + k) + (-s * d) + (-s * k) = 0
      BY <2>2
    <3> QED  BY <1>0, <2>4, <3>1 DEF SameGap, Plus, TenderLegs, Tendered, Leg
  <2>7. "TENDER" \in Kind /\ TenderLife \in Nat  BY SettingsAssumption DEF Kind
  <2> QED  BY <1>00, <2>3, <2>4, <2>5, <2>6, <2>7
<1> QED  BY <1>1, <1>2

(* A new plan is all that is left, and has not begun.                      *)
LEMMA PlanLeaves ==
  ASSUME IInv, IInv', LeftIs, LeftIs', ~Busy, NEW b \in Bundle, kind[b] = "NONE",
         NEW k \in Kind, NEW legs \in [Leg -> Int], NEW life, AddBundle(b, k, legs, life)
  PROVE  LeftToTrade = Obligation!Nothing /\ ~Begun /\ LeftToTrade' = legs /\ ~Begun'
<1> USE DEF IInv
<1>1. \A i \in Intent : ~IsActive(i)
  BY DEF Busy
<1>2. LeftToTrade = Obligation!Nothing /\ ~Begun
  BY <1>1 DEF LeftIs, Working, Members
<1>3. \A i \in Intent : i[1] = b =>
         /\ quantity'[i] = legs[i[2]] /\ remaining'[i] = legs[i[2]]
         /\ IsActive(i)' <=> legs[i[2]] # 0
  BY <1>1 DEF AddBundle, TypeOK, TypeOKIntentions, IsActive
<1>4. \A i \in Intent : IsActive(i)' => i[1] = b
  BY <1>1 DEF AddBundle, TypeOK, TypeOKIntentions, IsActive
<1>5. \A a \in Bundle : Working(a)' => a = b
  BY <1>4 DEF Working, Members
<1>6. ~Started(b)'
  <2>1. \A i \in Intent : i[1] = b => remaining'[i] = quantity'[i] /\ quantity'[i] \in Int
    BY <1>3, Pairs
  <2>2. \A i \in Intent : i[1] = b => ~(Filled(i)' > 0)
    BY <2>1 DEF Filled, Abs
  <2> QED  BY <2>2 DEF Started, Members
<1>7. ~Begun'
  BY <1>5, <1>6 DEF Begun, Created
<1>8. b \in Created'
  BY DEF AddBundle, Created, TypeOK, TypeOKIntentions, Kind
<1>9. LeftToTrade' = legs
  <2>1. CASE Working(b)'
    <3>1. LeftToTrade' = Owing(b)'
      BY <1>8, <2>1 DEF LeftIs
    <3>2. \A l \in Leg : Owing(b)'[l] = legs[l]
      BY <1>3, Pairs DEF Owing
    <3>3. Owing(b)' = [l \in Leg |-> Owing(b)'[l]]
      BY DEF Owing
    <3> QED  BY <3>1, <3>2, <3>3
  <2>2. CASE ~Working(b)'
    <3>1. LeftToTrade' = Obligation!Nothing
      BY <1>5, <2>2 DEF LeftIs, Obligation!Nothing, Created
    <3>2. ASSUME NEW l \in Leg PROVE legs[l] = 0
      <4>1. <<b, l>> \in Intent /\ <<b, l>>[1] = b /\ <<b, l>>[2] = l
        BY Pairs
      <4>2. legs[l] # 0 => <<b, l>> \in Members(b)' /\ IsActive(<<b, l>>)'
        BY <1>3, <4>1 DEF Members
      <4> QED  BY <2>2, <4>2 DEF Working
    <3> QED  BY <3>1, <3>2 DEF Obligation!Nothing
  <2> QED  BY <2>1, <2>2
<1> QED  BY <1>2, <1>7, <1>9

(* The deadline drops a plan none of which has traded, and which is a      *)
(* hedged trade, or drops nothing.                                         *)
LEMMA DeadlineLeaves ==
  ASSUME IInv, LeftIs, LeftIs', Prepare
  PROVE  \/ LeftToTrade' = LeftToTrade /\ (Begun' <=> Begun)
         \/ ~Begun /\ LeftToTrade' = Obligation!Nothing /\ ~Begun' /\ Hedged(LeftToTrade)
<1> USE DEF IInv
<1>1. UNCHANGED <<kind, quantity, remaining>>
  BY DEF Prepare, PrepareBundles
<1>2. \A i \in Intent : IsActive(i)' <=> IsActive(i) /\ ~Overdue(i[1])
  BY DEF Prepare, PrepareBundles, IsActive
<1>3. \A b \in Bundle :
        (Working(b)' <=> Working(b) /\ ~Overdue(b)) /\ (Started(b)' <=> Started(b))
  BY <1>1, <1>2 DEF Working, Started, Members, Filled
<1>4. Created' = Created /\ Created \subseteq Bundle
  BY <1>1 DEF Created
<1>5. CASE \A b \in Created : ~Working(b)
  <2>1. LeftToTrade = Obligation!Nothing /\ ~Begun
    BY <1>5 DEF LeftIs
  <2>2. LeftToTrade' = Obligation!Nothing /\ ~Begun'
    <3>1. \A b \in Created' : ~Working(b)'
      BY <1>3, <1>4, <1>5
    <3> QED  BY <3>1 DEF LeftIs, Obligation!Nothing
  <2> QED  BY <2>1, <2>2
<1>6. ASSUME NEW b \in Created, Working(b), Overdue(b)
      PROVE  ~Begun /\ LeftToTrade' = Obligation!Nothing /\ ~Begun' /\ Hedged(LeftToTrade)
  <2>1. b \in Bundle /\ LeftToTrade = Owing(b) /\ (Begun <=> Started(b)) /\ ~Started(b)
    BY <1>4, <1>6 DEF LeftIs, Overdue
  <2>2. LeftToTrade' = Obligation!Nothing /\ ~Begun'
    <3>1. \A a \in Created' : ~Working(a)'
      BY <1>3, <1>4, <1>6 DEF OneWorkingBundle
    <3> QED  BY <3>1 DEF LeftIs, Obligation!Nothing
  <2>3. kind[b] \in {"ARB", "CLOSE"}
    <3>1. PICK i \in Intent : i[1] = b /\ IsExpired(i)
      BY <1>6 DEF Overdue, Members
    <3>2. caseTick \in Nat /\ deadline[b] \in Nat /\ MaxTick \in Nat
      BY <2>1, SettingsAssumption DEF TypeOK, TypeOKIntentions
    <3>3. caseTick > deadline[b]
      BY <3>1 DEF IsExpired
    <3>4. caseTick <= MaxTick /\ (kind[b] = "TENDER" => MaxTick <= deadline[b])
      BY <2>1 DEF PlansInShape
    <3>5. kind[b] # "TENDER"
      BY <3>2, <3>3, <3>4
    <3>6. kind[b] \in Kind
      BY <2>1 DEF Created, TypeOK, TypeOKIntentions
    <3> QED  BY <3>5, <3>6 DEF Kind
  <2>4. Hedged(LeftToTrade)
    BY <1>6, <2>1, <2>3, UnstartedIsHedged
  <2> QED  BY <2>1, <2>2, <2>4
<1>7. ASSUME NEW b \in Created, Working(b), ~Overdue(b)
      PROVE  LeftToTrade' = LeftToTrade /\ (Begun' <=> Begun)
  <2>1. b \in Created' /\ Working(b)' /\ (Started(b)' <=> Started(b))
    BY <1>3, <1>4, <1>7
  <2>2. LeftToTrade = Owing(b) /\ (Begun <=> Started(b))
    BY <1>7 DEF LeftIs
  <2>3. LeftToTrade' = Owing(b)' /\ (Begun' <=> Started(b)')
    BY <2>1 DEF LeftIs
  <2>4. \A l \in Leg : IsActive(<<b, l>>)' <=> IsActive(<<b, l>>)
    BY <1>2, <1>4, <1>7, Pairs
  <2>5. Owing(b)' = Owing(b)
    BY <1>1, <2>4 DEF Owing
  <2> QED  BY <2>1, <2>2, <2>3, <2>5
<1> QED  BY <1>5, <1>6, <1>7

(* A fill changes one leg of what is left, and begins it.                  *)
LEMMA FillLeaves ==
  ASSUME IInv, IInv', LeftIs, LeftIs', UNCHANGED <<kind, quantity>>, NEW i \in Intent,
         IsActive(i), NEW n \in Nat, n > 0, n <= Abs(remaining[i]), RecordFill(i, n)
  PROVE  /\ i[2] \in Leg /\ LeftToTrade[i[2]] = remaining[i] /\ LeftToTrade'[i[2]] = remaining'[i]
         /\ LeftToTrade' = [LeftToTrade EXCEPT ![i[2]] = remaining'[i]]
         /\ Begun' <=> LeftToTrade' # Obligation!Nothing
<1> USE DEF IInv
<1> DEFINE b == i[1]
           l == i[2]
<1>1. b \in Bundle /\ l \in Leg /\ i = <<b, l>>
  BY Pairs
<1>2. quantity[i] # 0 /\ remaining[i] \in Int /\ quantity[i] \in Int
  BY DEF IntentsInShape, IsActive, TypeOK, TypeOKIntentions
<1>3. i \in Members(b) /\ i \in Members(b)' /\ Working(b) /\ b \in Created /\ Created' = Created
  BY <1>1, <1>2 DEF Members, Working, Created, IntentsInShape
<1>4. \A a \in Created : Working(a) => a = b
  BY <1>3 DEF OneWorkingBundle
<1>5. LeftToTrade = Owing(b)
  BY <1>3 DEF LeftIs
<1>6. /\ remaining'[i] \in Int
      /\ \/ istatus'[i] = "FILLED" /\ remaining'[i] = 0
         \/ istatus'[i] = "WORKING" /\ remaining'[i] # 0
      /\ \A j \in Intent \ {i} : UNCHANGED <<remaining[j], istatus[j]>>
      /\ Abs(remaining'[i]) = Abs(remaining[i]) - n
  BY RecordFillIs
<1>7. Started(b)'
  <2>1. Filled(i)' = Abs(quantity[i]) - Abs(remaining'[i])
    BY DEF Filled, Abs
  <2>2. Abs(remaining[i]) <= Abs(quantity[i]) /\ Abs(remaining[i]) \in Int /\ Abs(quantity[i]) \in Int
    BY <1>2 DEF IntentsInShape, Abs
  <2>3. Filled(i)' > 0
    <3> HIDE DEF Abs
    <3> QED  BY <1>6, <2>1, <2>2
  <2> QED  BY <1>3, <2>3 DEF Started
<1>8. \A j \in Intent : IsActive(j)' => IsActive(j)
  BY <1>6 DEF IsActive
<1>9. \A a \in Created : Working(a)' => Working(a)
  BY <1>8 DEF Working, Members
<1>10. Owing(b)' = [Owing(b) EXCEPT ![l] = remaining'[i]]
  <2>1. Owing(b)'[l] = remaining'[i]
    BY <1>1, <1>6 DEF Owing, IsActive
  <2>2. ASSUME NEW m \in Leg, m # l PROVE Owing(b)'[m] = Owing(b)[m]
    <3>1. <<b, m>> \in Intent \ {i}
      BY <1>1, <2>2, Pairs
    <3> QED  BY <1>6, <3>1 DEF Owing, IsActive
  <2>3. Owing(b)' = [m \in Leg |-> Owing(b)'[m]]
    BY DEF Owing
  <2> QED  BY <1>1, <2>1, <2>2, <2>3 DEF Owing
<1>11. LeftToTrade[l] = remaining[i]
  BY <1>1, <1>5 DEF Owing
<1>12. LeftToTrade' = Owing(b)' /\ (Begun' <=> LeftToTrade' # Obligation!Nothing)
  <2>1. CASE Working(b)'
    <3>1. LeftToTrade' = Owing(b)' /\ LeftToTrade' # Obligation!Nothing /\ (Begun' <=> Started(b)')
      BY <1>3, <2>1 DEF LeftIs, Obligation!Nothing
    <3> QED  BY <1>7, <3>1
  <2>2. CASE ~Working(b)'
    <3>1. \A a \in Created' : ~Working(a)'
      BY <1>3, <1>4, <1>9, <2>2
    <3>2. LeftToTrade' = Obligation!Nothing /\ ~Begun'
      BY <3>1 DEF LeftIs, Obligation!Nothing
    <3>3. ASSUME NEW m \in Leg PROVE ~IsActive(<<b, m>>)'
      <4>1. <<b, m>> \in Intent /\ <<b, m>>[1] = b
        BY <1>1, Pairs
      <4>2. IsActive(<<b, m>>)' => <<b, m>> \in Members(b)'
        BY <4>1 DEF IntentsInShape, Members, IsActive
      <4> QED  BY <2>2, <4>2 DEF Working
    <3>4. Owing(b)' = Obligation!Nothing
      BY <3>3 DEF Owing, Obligation!Nothing
    <3> QED  BY <3>2, <3>4
  <2> QED  BY <2>1, <2>2
<1>13. LeftToTrade'[l] = remaining'[i]
  BY <1>1, <1>10, <1>12 DEF Owing
<1> QED  BY <1>1, <1>5, <1>10, <1>11, <1>12, <1>13

LEMMA QuietLeaves ==
  ASSUME UNCHANGED <<kind, quantity, remaining, istatus>>
  PROVE  LeftToTrade' = LeftToTrade /\ (Begun' <=> Begun)
BY DEF LeftToTrade, Begun, Created, IsActive, Working, Started, Members, Filled

(***************************************************************************)
(* The promise.                                                            *)
(***************************************************************************)
LEMMA PromiseStep ==
  ASSUME IInv, IInv', LeftIs, LeftIs', [Next]_vars
  PROVE  [Obligation!Next]_(Obligation!vars)
<1>1. /\ Begun = (\E b \in Created : Working(b) /\ Started(b))
      /\ Begun' = (\E b \in Created : Working(b) /\ Started(b))'
  BY DEF Begun
<1>2. ASSUME LeftToTrade' = LeftToTrade, Begun' <=> Begun
      PROVE  [Obligation!Next]_(Obligation!vars)
  <2>1. (\E b \in Created : Working(b) /\ Started(b))' =
        (\E b \in Created : Working(b) /\ Started(b))
    BY <1>2 DEF Begun
  <2>2. remembered \in BOOLEAN /\ remembered' \in BOOLEAN
    BY DEF IInv, TypeOK
  <2>3. CASE remembered' = remembered
    BY <1>2, <2>1, <2>3 DEF Obligation!vars
  <2>4. CASE remembered' = TRUE /\ ~remembered
    BY <1>2, <2>1, <2>4 DEF Obligation!Next, Obligation!SeeThrough
  <2>5. CASE remembered' = FALSE /\ remembered
    BY <1>2, <2>1, <2>5 DEF Obligation!Next, Obligation!Interrupt
  <2> QED  BY <2>2, <2>3, <2>4, <2>5
<1>3. CASE PlaceArb \/ TakeTender
  <2>1. /\ LeftToTrade = Obligation!Nothing /\ ~Begun /\ ~Begun' /\ LeftToTrade' \in [Leg -> Int]
        /\ remembered' = remembered
    BY <1>3, DecisionIs, PlanLeaves
  <2>2. CASE LeftToTrade' = Obligation!Nothing
    <3>1. LeftToTrade' = LeftToTrade
      BY <2>1, <2>2
    <3> QED  BY <1>2, <2>1, <3>1
  <2>3. CASE LeftToTrade' # Obligation!Nothing
    <3>1. (\E b \in Created : Working(b) /\ Started(b))' = FALSE
      BY <2>1 DEF Begun
    <3> QED  BY <2>1, <2>3, <3>1 DEF Obligation!Next, Obligation!Take
  <2> QED  BY <2>2, <2>3
<1>4. CASE Prepare
  <2>1. CASE ~Begun /\ LeftToTrade' = Obligation!Nothing /\ ~Begun'
    <3>1. /\ (\E b \in Created : Working(b) /\ Started(b))' = FALSE
          /\ ~(\E b \in Created : Working(b) /\ Started(b))
      BY <2>1 DEF Begun
    <3>2. remembered' = remembered
      BY <1>4 DEF Prepare
    <3> QED  BY <2>1, <3>1, <3>2 DEF Obligation!Next, Obligation!Drop
  <2> QED  BY <1>2, <1>4, <2>1, DeadlineLeaves
<1>5. CASE LoseTenderReply \/ Quiet
  BY <1>2, <1>5, QuietLeaves DEF LoseTenderReply, TenderReplyLost, Quiet
<1>6. ASSUME NEW i \in Intent, NEW x, NEW r, Traded(i, x, r),
             UNCHANGED <<kind, quantity, forgotten, remembered>>
      PROVE  [Obligation!Next]_(Obligation!vars)
  <2>1. CASE ~(r > 0)
    BY <1>2, <1>6, <2>1, QuietLeaves DEF Traded
  <2>2. CASE r > 0
    <3>1. IsActive(i) /\ r \in Nat /\ r <= Abs(remaining[i]) /\ RecordFill(i, r)
      <4>1. Abs(remaining[i]) \in Int
        BY AbsType DEF IInv, TypeOK, TypeOKIntentions
      <4> QED  BY <1>6, <2>2, <4>1 DEF Traded
    <3>2. /\ i[2] \in Leg /\ LeftToTrade[i[2]] = remaining[i] /\ LeftToTrade'[i[2]] = remaining'[i]
          /\ LeftToTrade' = [LeftToTrade EXCEPT ![i[2]] = LeftToTrade'[i[2]]]
          /\ Begun' <=> LeftToTrade' # Obligation!Nothing
      BY <1>6, <2>2, <3>1, FillLeaves
    <3>3. Obligation!Between(LeftToTrade'[i[2]], LeftToTrade[i[2]])
      BY <2>2, <3>1, <3>2, RecordFillIs
    <3>4. (\E b \in Created : Working(b) /\ Started(b))' = (LeftToTrade' # Obligation!Nothing)
      BY <3>2 DEF Begun
    <3>5. Obligation!Fill
      BY <1>6, <3>2, <3>3, <3>4 DEF Obligation!Fill
    <3> QED  BY <3>5 DEF Obligation!Next
  <2> QED  BY <2>1, <2>2
<1>7. CASE Reset
  <2>1. \A b \in Created' : ~Working(b)'
    BY <1>7 DEF Reset, ResetForNewHeat, Created
  <2>2. LeftToTrade' = Obligation!Nothing /\ ~Begun'
    BY <2>1 DEF LeftIs, Obligation!Nothing
  <2>3. (\E b \in Created : Working(b) /\ Started(b))' = FALSE
    BY <2>2 DEF Begun
  <2>4. Obligation!Forget
    BY <1>7, <2>2, <2>3 DEF Reset, Obligation!Forget
  <2> QED  BY <2>4 DEF Obligation!Next
<1> QED  BY <1>3, <1>4, <1>5, <1>6, <1>7, StepIs

(* The market executor makes no step that HedgeObligation forbids: one     *)
(* plan at a time, and once a share of it has traded every step brings one *)
(* leg nearer to zero.  A plan that has begun is dropped by the reset of   *)
(* main.run only, and that only before a cycle went through since the heat *)
(* began or a poll was not ACTIVE.  That the legs do reach zero needs      *)
(* fairness and stays with the model checker.                              *)
THEOREM PromiseIsKeptSafely == Spec => Obligation!SafePromise
<1>1. Init /\ IInv => Obligation!Init
  <2> SUFFICES ASSUME Init, IInv PROVE Obligation!Init
    OBVIOUS
  <2>1. \A i \in Intent : ~IsActive(i)
    BY DEF Init, InitIntentions, IsActive
  <2>2. \A b \in Created : ~Working(b)
    BY <2>1 DEF Working, Members
  <2>3. LeftToTrade = Obligation!Nothing /\ ~Begun
    BY <2>2, LeftIsOwed DEF LeftIs
  <2>4. (\E b \in Created : Working(b) /\ Started(b)) = FALSE
    BY <2>3 DEF Begun
  <2>5. remembered \in BOOLEAN
    BY DEF IInv, TypeOK
  <2> QED  BY <2>3, <2>4, <2>5 DEF Obligation!Init
<1>2. IInv /\ IInv' /\ LeftIs /\ LeftIs' /\ [Next]_vars => [Obligation!Next]_(Obligation!vars)
  BY PromiseStep
<1> QED
  BY InvStays, InvInit, LeftIsOwed, <1>1, <1>2, PTL DEF Spec, Obligation!SafePromise

(***************************************************************************)
(* The gap a loss leaves.                                                  *)
(***************************************************************************)
LargestLoss == IF MaxOrderSize > TenderQty THEN MaxOrderSize ELSE TenderQty
Even(p) ==
  /\ Abs(p["BULL"] - p["BEAR"]) <= LargestLoss
  /\ Abs(p["BULL"] + p["RITC"]) <= LargestLoss
  /\ Abs(p["BEAR"] + p["RITC"]) <= LargestLoss

(* A position as far from a hedge as another is as even.                   *)
LEMMA SameGapEven ==
  ASSUME NEW p \in [Leg -> Int], NEW q \in [Leg -> Int], SameGap(p, q), Even(q)
  PROVE  Even(p)
<1>1. /\ p["BULL"] \in Int /\ p["BEAR"] \in Int /\ p["RITC"] \in Int
      /\ q["BULL"] \in Int /\ q["BEAR"] \in Int /\ q["RITC"] \in Int
  BY DEF Leg
<1>2. p["BEAR"] + p["RITC"] = q["BEAR"] + q["RITC"]
  BY <1>1 DEF SameGap
<1> QED  BY <1>2 DEF SameGap, Even

(* A hedge with one leg off by n is n from a hedge.                        *)
LEMMA OffByEven ==
  ASSUME NEW p \in [Leg -> Int], Hedged(p), NEW l \in Leg, NEW n \in Int, Abs(n) <= LargestLoss,
         NEW q \in [Leg -> Int], q[l] = p[l] + n, \A m \in Leg \ {l} : q[m] = p[m]
  PROVE  Even(q)
<1>1. /\ p["BULL"] \in Int /\ p["BEAR"] \in Int /\ p["RITC"] \in Int
      /\ q["BULL"] \in Int /\ q["BEAR"] \in Int /\ q["RITC"] \in Int
      /\ MaxOrderSize \in Nat /\ TenderQty \in Nat
  BY SettingsAssumption DEF Leg
<1>2. LargestLoss \in Nat
  BY <1>1 DEF LargestLoss
<1> HIDE DEF LargestLoss
<1>3. CASE l = "BULL"
  BY <1>1, <1>2, <1>3 DEF Hedged, Even, Abs, Leg
<1>4. CASE l = "BEAR"
  BY <1>1, <1>2, <1>4 DEF Hedged, Even, Abs, Leg
<1>5. CASE l = "RITC"
  BY <1>1, <1>2, <1>5 DEF Hedged, Even, Abs, Leg
<1> QED  BY <1>3, <1>4, <1>5 DEF Leg

(* A request moves what it trades and does not book out of the aim.        *)
LEMMA TradedAims ==
  ASSUME IInv, IInv', LeftIs, LeftIs', UNCHANGED <<kind, quantity, forgotten>>,
         NEW i \in Intent, NEW x \in Nat, NEW r \in Nat, Traded(i, x, r)
  PROVE  /\ i[2] \in Leg
         /\ Aim'[i[2]] = Aim[i[2]] + Sign(quantity[i]) * (x - r)
         /\ \A m \in Leg \ {i[2]} : Aim'[m] = Aim[m]
         /\ server'[i[2]] = server[i[2]] + Sign(quantity[i]) * x
         /\ \A m \in Leg \ {i[2]} : server'[m] = server[m]
         /\ LeftToTrade'[i[2]] = LeftToTrade[i[2]] - Sign(quantity[i]) * r
         /\ \A m \in Leg \ {i[2]} : LeftToTrade'[m] = LeftToTrade[m]
<1> DEFINE l == i[2]
           s == Sign(quantity[i])
<1>1. server \in [Leg -> Int] /\ forgotten \in [Leg -> Int] /\ LeftToTrade \in [Leg -> Int] /\ LeftToTrade' \in [Leg -> Int]
  BY DEF IInv, TypeOK, TypeOKIntentions, LeftIs
<1>2. l \in Leg
  BY Pairs
<1>3. s \in {-1, 1}
  BY SignTimes DEF IInv, TypeOK, TypeOKIntentions
<1>4. server'[l] = server[l] + s * x /\ \A m \in Leg \ {l} : server'[m] = server[m]
  BY <1>1, <1>2 DEF Traded
<1>5. LeftToTrade'[l] = LeftToTrade[l] - s * r /\ \A m \in Leg \ {l} : LeftToTrade'[m] = LeftToTrade[m]
  <2>1. CASE r = 0
    <3>1. LeftToTrade' = LeftToTrade
      BY <2>1, QuietLeaves DEF Traded
    <3>2. s * r = 0
      BY <1>3, <2>1
    <3> HIDE DEF s
    <3> QED  BY <1>1, <1>2, <3>1, <3>2
  <2>2. CASE r > 0
    <3>1. IsActive(i) /\ RecordFill(i, r) /\ r <= Abs(remaining[i])
      <4>1. Abs(remaining[i]) \in Int
        BY AbsType DEF IInv, TypeOK, TypeOKIntentions
      <4> QED  BY <2>2, <4>1 DEF Traded
    <3>2. /\ LeftToTrade[l] = remaining[i] /\ LeftToTrade'[l] = remaining'[i]
          /\ LeftToTrade' = [LeftToTrade EXCEPT ![l] = remaining'[i]]
      BY <2>2, <3>1, FillLeaves
    <3>3. remaining'[i] = remaining[i] - s * r
      BY <2>2, <3>1, RecordFillIs
    <3> HIDE DEF s
    <3> QED  BY <1>1, <1>2, <3>2, <3>3
  <2> QED  BY <2>1, <2>2
<1> HIDE DEF s
<1>6. s * x \in Int /\ s * r \in Int /\ s * (x - r) = s * x - s * r
  BY <1>3
<1>7. Aim'[l] = Aim[l] + s * (x - r) /\ \A m \in Leg \ {l} : Aim'[m] = Aim[m]
  <2>1. \A m \in Leg : /\ Aim[m] = server[m] + forgotten[m] + LeftToTrade[m]
                        /\ Aim'[m] = server'[m] + forgotten[m] + LeftToTrade'[m]
    BY DEF Aim, WithForgotten, Plus
  <2>2. \A m \in Leg : server[m] \in Int /\ forgotten[m] \in Int /\ LeftToTrade[m] \in Int
    BY <1>1
  <2> QED  BY <1>2, <1>4, <1>5, <1>6, <2>1, <2>2
<1> QED  BY <1>2, <1>4, <1>5, <1>7 DEF s

LEMMA EvenStep ==
  ASSUME IInv, IInv', LeftIs, LeftIs', Even(Aim), [Next]_vars
  PROVE  Even(Aim)'
<1>0. /\ Aim \in [Leg -> Int] /\ server \in [Leg -> Int] /\ LeftToTrade \in [Leg -> Int]
      /\ forgotten \in [Leg -> Int]
      /\ ~lost => Hedged(Aim)
  BY AimIs DEF IInv, TypeOK
<1>00. /\ server' \in [Leg -> Int] /\ LeftToTrade' \in [Leg -> Int] /\ Aim' \in [Leg -> Int]
       /\ forgotten' \in [Leg -> Int]
  BY DEF IInv, TypeOK, TypeOKIntentions, LeftIs, Aim, WithForgotten, Plus
<1>ints. \A l \in Leg : /\ server[l] \in Int /\ forgotten[l] \in Int /\ LeftToTrade[l] \in Int
                        /\ server'[l] \in Int /\ forgotten'[l] \in Int /\ LeftToTrade'[l] \in Int
  BY <1>0, <1>00
<1>sums. \A l \in Leg : /\ Aim[l] = server[l] + forgotten[l] + LeftToTrade[l]
                        /\ Aim'[l] = server'[l] + forgotten'[l] + LeftToTrade'[l]
  BY DEF Aim, WithForgotten, Plus
<1>000. LargestLoss \in Nat
  BY SettingsAssumption DEF LargestLoss
<1>1. ASSUME SameGap(Aim', Aim) PROVE Even(Aim')
  BY <1>0, <1>00, <1>1, SameGapEven
<1>2. CASE PlaceArb \/ TakeTender
  <2>1. PICK legs \in [Leg -> Int] :
          /\ LeftToTrade = Obligation!Nothing /\ LeftToTrade' = legs
          /\ SameGap(Plus(server', legs), server) /\ forgotten' = forgotten
    <3>1. /\ ~Busy /\ forgotten' = forgotten
          /\ \E b \in Bundle, k \in Kind, legs \in [Leg -> Int], life \in Nat :
               /\ kind[b] = "NONE" /\ AddBundle(b, k, legs, life)
               /\ SameGap(Plus(server', legs), server)
      BY <1>2, DecisionIs
    <3>2. PICK b \in Bundle, k \in Kind, legs \in [Leg -> Int], life \in Nat :
            /\ kind[b] = "NONE" /\ AddBundle(b, k, legs, life)
            /\ SameGap(Plus(server', legs), server)
      BY <3>1
    <3>3. LeftToTrade = Obligation!Nothing /\ LeftToTrade' = legs
      BY <3>1, <3>2, PlanLeaves
    <3> QED  BY <3>1, <3>2, <3>3
  <2>2. \A l \in Leg : Aim[l] = server[l] + forgotten[l]
    BY <1>ints, <1>sums, <2>1 DEF Obligation!Nothing
  <2>3. \A l \in Leg : Aim'[l] = server'[l] + forgotten[l] + legs[l]
    BY <1>sums, <2>1
  <2>4. SameGap(Aim', Aim)
    <3>1. /\ \A l \in Leg : legs[l] \in Int
          /\ (server'["BULL"] + legs["BULL"]) - (server'["BEAR"] + legs["BEAR"])
               = server["BULL"] - server["BEAR"]
          /\ (server'["BULL"] + legs["BULL"]) + (server'["RITC"] + legs["RITC"])
               = server["BULL"] + server["RITC"]
      BY <2>1 DEF SameGap, Plus, Leg
    <3>2. "BULL" \in Leg /\ "BEAR" \in Leg /\ "RITC" \in Leg
      BY DEF Leg
    <3>3. Aim'["BULL"] - Aim'["BEAR"] = Aim["BULL"] - Aim["BEAR"]
      BY <1>ints, <2>2, <2>3, <3>1, <3>2
    <3>4. Aim'["BULL"] + Aim'["RITC"] = Aim["BULL"] + Aim["RITC"]
      <4>1. /\ server["BULL"] \in Int /\ server["RITC"] \in Int
            /\ forgotten["BULL"] \in Int /\ forgotten["RITC"] \in Int
            /\ server'["BULL"] \in Int /\ server'["RITC"] \in Int
            /\ legs["BULL"] \in Int /\ legs["RITC"] \in Int
        BY <1>ints, <3>1, <3>2
      <4>2. /\ Aim["BULL"] = server["BULL"] + forgotten["BULL"]
            /\ Aim["RITC"] = server["RITC"] + forgotten["RITC"]
        BY <2>2, <3>2
      <4>3. /\ Aim'["BULL"] = server'["BULL"] + forgotten["BULL"] + legs["BULL"]
            /\ Aim'["RITC"] = server'["RITC"] + forgotten["RITC"] + legs["RITC"]
        BY <2>3, <3>2
      <4> QED  BY <3>1, <4>1, <4>2, <4>3
    <3> QED  BY <3>3, <3>4 DEF SameGap
  <2> QED  BY <1>1, <2>4
<1>3. CASE Prepare
  <2>1. server' = server /\ forgotten' = forgotten
    BY <1>3 DEF Prepare
  <2>2. CASE LeftToTrade' = LeftToTrade
    <3>1. Aim' = Aim
      BY <2>1, <2>2 DEF Aim, WithForgotten
    <3> QED  BY <3>1
  <2>3. CASE LeftToTrade' = Obligation!Nothing /\ Hedged(LeftToTrade)
    <3>1. SameGap(Aim', Aim)
      <4>1. /\ \A l \in Leg : Aim'[l] = server[l] + forgotten[l]
            /\ \A l \in Leg : Aim[l] = server[l] + forgotten[l] + LeftToTrade[l]
        BY <1>ints, <1>sums, <2>1, <2>3 DEF Obligation!Nothing
      <4> QED  BY <1>ints, <2>3, <4>1 DEF SameGap, Hedged, Leg
    <3> QED  BY <1>1, <3>1
  <2> QED  BY <1>3, <2>2, <2>3, DeadlineLeaves
<1>4. CASE LoseTenderReply
  <2>1. PICK s \in Signs, d \in 0..TenderQty, k \in 0..TenderQty : TenderReplyLost(s, d, k)
    BY <1>4 DEF LoseTenderReply
  <2>2. /\ ~lost /\ d + k <= TenderQty /\ server' = Tendered(server, s, d + k)
        /\ UNCHANGED <<kind, quantity, remaining, istatus, forgotten>>
    BY <1>4, <2>1 DEF LoseTenderReply, loopVars, TenderReplyLost, MayLose, TenderOffered
  <2>3. LeftToTrade' = LeftToTrade
    BY <2>2, QuietLeaves
  <2>4. s \in {-1, 1} /\ d \in Nat /\ k \in Nat /\ TenderQty \in Nat /\ MaxOrderSize \in Nat
    BY SettingsAssumption DEF Signs
  <2>5. s * (d + k) \in Int /\ Abs(s * (d + k)) <= LargestLoss
    BY <2>2, <2>4 DEF Abs, LargestLoss
  <2>6. Aim'["RITC"] = Aim["RITC"] + s * (d + k) /\ \A m \in Leg \ {"RITC"} : Aim'[m] = Aim[m]
    <3>1. /\ server'["RITC"] = server["RITC"] + s * (d + k) /\ "RITC" \in Leg
          /\ \A m \in Leg \ {"RITC"} : server'[m] = server[m]
      BY <1>0, <2>2 DEF Tendered, Leg
    <3> QED  BY <1>ints, <1>sums, <2>2, <2>3, <2>5, <3>1
  <2>7. "RITC" \in Leg
    BY DEF Leg
  <2> QED  BY <1>0, <1>00, <2>2, <2>5, <2>6, <2>7, OffByEven
<1>5. CASE Quiet
  <2>1. Aim' = Aim
    BY <1>5, QuietLeaves DEF Quiet, Aim, WithForgotten
  <2> QED  BY <2>1
<1>6. ASSUME NEW i \in Intent, NEW x, NEW r, Traded(i, x, r),
             UNCHANGED <<kind, quantity, forgotten>>
      PROVE  Even(Aim')
  <2>1. x \in Nat /\ r \in Nat /\ r <= x /\ x <= MaxOrderSize /\ MaxOrderSize \in Nat
    BY <1>6, SettingsAssumption DEF Traded
  <2>2. /\ i[2] \in Leg /\ Aim'[i[2]] = Aim[i[2]] + Sign(quantity[i]) * (x - r)
        /\ \A m \in Leg \ {i[2]} : Aim'[m] = Aim[m]
    BY <1>6, <2>1, TradedAims
  <2>3. Sign(quantity[i]) \in {-1, 1}
    BY SignTimes DEF IInv, TypeOK, TypeOKIntentions
  <2>4. /\ Sign(quantity[i]) * (x - r) \in Int
        /\ Abs(Sign(quantity[i]) * (x - r)) <= LargestLoss
        /\ x = r => Sign(quantity[i]) * (x - r) = 0
    <3>1. \A s \in {-1, 1} : /\ s * (x - r) \in Int /\ Abs(s * (x - r)) <= MaxOrderSize
                             /\ x = r => s * (x - r) = 0
      BY <2>1 DEF Abs
    <3>2. MaxOrderSize <= LargestLoss
      BY SettingsAssumption DEF LargestLoss
    <3>3. \A n \in Int : Abs(n) <= MaxOrderSize => Abs(n) <= LargestLoss
      BY <1>000, <2>1, <3>2 DEF Abs
    <3> HIDE DEF Sign, Abs
    <3> QED  BY <2>3, <3>1, <3>3
  <2>5. CASE x = r
    <3>1. \A l \in Leg : Aim'[l] = Aim[l]
      BY <1>0, <2>2, <2>4, <2>5
    <3>2. Aim' = Aim
      BY <1>0, <1>00, <3>1
    <3> QED  BY <3>2
  <2>6. CASE ~lost
    <3> HIDE DEF Sign, Abs
    <3>1. Hedged(Aim) /\ Aim \in [Leg -> Int] /\ Aim' \in [Leg -> Int]
      BY <1>0, <1>00, <2>6
    <3> QED  BY <2>2, <2>4, <3>1, OffByEven
  <2> QED  BY <1>6, <2>5, <2>6 DEF Traded
<1>7. CASE Reset
  <2>1. \A b \in Created' : ~Working(b)'
    BY <1>7 DEF Reset, ResetForNewHeat, Created
  <2>2. LeftToTrade' = Obligation!Nothing /\ server' = server
    BY <1>7, <2>1 DEF LeftIs, Obligation!Nothing, Reset
  <2>3. \A l \in Leg : Aim'[l] = server[l] + forgotten'[l]
    BY <1>0, <1>00, <1>sums, <2>2 DEF Obligation!Nothing
  <2>4. CASE forgotten' = Plus(forgotten, LeftToTrade)
    <3>1. \A l \in Leg : Aim'[l] = Aim[l]
      BY <1>ints, <1>sums, <2>3, <2>4 DEF Plus
    <3>2. Aim' = Aim
      BY <1>0, <1>00, <3>1
    <3> QED  BY <3>2
  <2>5. CASE forgotten' = forgotten /\ Hedged(LeftToTrade)
    <3>1. SameGap(Aim', Aim)
      <4>1. /\ \A l \in Leg : Aim'[l] = server[l] + forgotten[l]
            /\ \A l \in Leg : Aim[l] = server[l] + forgotten[l] + LeftToTrade[l]
        BY <1>sums, <2>3, <2>5
      <4> QED  BY <1>ints, <2>5, <4>1 DEF SameGap, Hedged, Leg
    <3> QED  BY <1>1, <3>1
  <2> QED  BY <1>7, <2>4, <2>5, ResetLeaves DEF Reset
<1> QED
  BY <1>2, <1>3, <1>4, <1>5, <1>6, <1>7, StepIs

(* One lost reply leaves the account, with what the resets have forgotten, *)
(* at most one order, or one tender, away from a hedge, however often the  *)
(* intent is retried and whatever is opened on top of it.  The gap of the  *)
(* account itself is that of the loss plus what the resets have dropped:   *)
(* a reset needs no lost reply.                                            *)
THEOREM LossIsBounded == Spec => []OneLossOneOrder
<1>1. Init /\ IInv => Even(Aim)
  <2> SUFFICES ASSUME Init, IInv PROVE Even(Aim)
    OBVIOUS
  <2>1. Hedged(Aim) /\ Aim \in [Leg -> Int]
    BY LeftIsOwed, AimIs DEF Init, InitIntentions
  <2>2. "RITC" \in Leg /\ Abs(0) <= LargestLoss
    BY SettingsAssumption DEF Leg, Abs, LargestLoss
  <2>3. Aim["RITC"] = Aim["RITC"] + 0
    BY <2>1, <2>2
  <2> QED  BY <2>1, <2>2, <2>3, OffByEven
<1>2. IInv /\ LeftIs /\ Even(Aim) => OneLossOneOrder
  BY AimIs DEF OneLossOneOrder, Even, LargestLoss
<1>3. IInv /\ IInv' /\ LeftIs /\ LeftIs' /\ Even(Aim) /\ [Next]_vars => Even(Aim)'
  BY EvenStep
<1> QED  BY InvStays, InvInit, LeftIsOwed, <1>1, <1>2, <1>3, PTL DEF Spec

(***************************************************************************)
(* The risk limits.                                                        *)
(***************************************************************************)
(* A position with the legs in S done.                                     *)
Corner(p, q, S) == [l \in Leg |-> IF l \in S THEN p[l] + q[l] ELSE p[l]]

(* Whichever of the open legs trade first, and however far, the position   *)
(* stays in the box between the account and its aim, whose corners are     *)
(* within the limits, as long as nothing was lost and nothing forgotten.   *)
BoxIsSafe ==
  ~lost /\ forgotten = Nothing => \A S \in SUBSET Leg : WithinLimits(Corner(server, LeftToTrade, S))

(* The positions that the decisions are made on are the account's.         *)
DecidesOnAccount == pc = "DECIDE" /\ ~lost => position = server

(* Gross and net exposure of a position between two others on one leg.     *)
LEMMA BetweenIsWithin ==
  ASSUME NEW p \in [Leg -> Int], NEW q \in [Leg -> Int], NEW r \in [Leg -> Int], NEW l \in Leg,
         \A m \in Leg \ {l} : p[m] = r[m] /\ q[m] = r[m],
         \/ p[l] <= r[l] /\ r[l] <= q[l]
         \/ q[l] <= r[l] /\ r[l] <= p[l],
         WithinLimits(p), WithinLimits(q)
  PROVE  WithinLimits(r)
<1>1. /\ p["BULL"] \in Int /\ p["BEAR"] \in Int /\ p["RITC"] \in Int
      /\ q["BULL"] \in Int /\ q["BEAR"] \in Int /\ q["RITC"] \in Int
      /\ r["BULL"] \in Int /\ r["BEAR"] \in Int /\ r["RITC"] \in Int
      /\ MaxGross \in Int /\ MaxNet \in Int
  BY SettingsAssumption DEF Leg
<1>2. \A a, b, c \in Int : (a <= c /\ c <= b) \/ (b <= c /\ c <= a)
        => Abs(c) <= Abs(a) \/ Abs(c) <= Abs(b)
  BY DEF Abs
<1>3. \A m \in Leg : Abs(p[m]) \in Int /\ Abs(q[m]) \in Int /\ Abs(r[m]) \in Int
  BY AbsType
<1>4. /\ Abs(r[l]) <= Abs(p[l]) \/ Abs(r[l]) <= Abs(q[l])
      /\ \A m \in Leg \ {l} : p[m] = r[m] /\ q[m] = r[m]
  BY <1>2
<1>5. /\ Abs(p["BULL"]) \in Int /\ Abs(p["BEAR"]) \in Int /\ Abs(p["RITC"]) \in Int
      /\ Abs(q["BULL"]) \in Int /\ Abs(q["BEAR"]) \in Int /\ Abs(q["RITC"]) \in Int
      /\ Abs(r["BULL"]) \in Int /\ Abs(r["BEAR"]) \in Int /\ Abs(r["RITC"]) \in Int
  BY <1>3 DEF Leg
<1> HIDE DEF Abs
<1>6. Gross(p) <= MaxGross /\ Gross(q) <= MaxGross
      /\ -MaxNet <= Net(p) /\ Net(p) <= MaxNet /\ -MaxNet <= Net(q) /\ Net(q) <= MaxNet
  BY DEF WithinLimits
<1>7. Gross(r) <= Gross(p) \/ Gross(r) <= Gross(q)
  <2>1. CASE l = "BULL"
    BY <1>4, <1>5, <2>1 DEF Gross, Leg
  <2>2. CASE l = "BEAR"
    BY <1>4, <1>5, <2>2 DEF Gross, Leg
  <2>3. CASE l = "RITC"
    BY <1>4, <1>5, <2>3 DEF Gross, Leg
  <2> QED  BY <2>1, <2>2, <2>3 DEF Leg
<1>8. (Net(p) <= Net(r) /\ Net(r) <= Net(q)) \/ (Net(q) <= Net(r) /\ Net(r) <= Net(p))
  <2>1. CASE l = "BULL"
    BY <1>1, <1>4, <2>1 DEF Net, Leg
  <2>2. CASE l = "BEAR"
    BY <1>1, <1>4, <2>2 DEF Net, Leg
  <2>3. CASE l = "RITC"
    BY <1>1, <1>4, <2>3 DEF Net, Leg
  <2> QED  BY <2>1, <2>2, <2>3 DEF Leg
<1>9. Gross(p) \in Int /\ Gross(q) \in Int /\ Gross(r) \in Int
      /\ Net(p) \in Int /\ Net(q) \in Int /\ Net(r) \in Int
  BY <1>1, <1>5 DEF Gross, Net
<1>10. Gross(r) <= MaxGross /\ -MaxNet <= Net(r) /\ Net(r) <= MaxNet
  <2> HIDE DEF Gross, Net
  <2> QED  BY <1>1, <1>6, <1>7, <1>8, <1>9
<1> QED  BY <1>10 DEF WithinLimits

(* Every way from one hedge to another that is within the limits stays     *)
(* within them, if the whole trade fits into the net limit.                *)
LEMMA HedgeToHedge ==
  ASSUME NEW p \in [Leg -> Int], Hedged(p), WithinLimits(p),
         NEW q \in [Leg -> Int], Hedged(q), WithinLimits(Plus(p, q)),
         2 * Abs(q["BULL"]) <= MaxNet, NEW S \in SUBSET Leg
  PROVE  WithinLimits(Corner(p, q, S))
<1> DEFINE n == p["BULL"]
           e == q["BULL"]
           c == Corner(p, q, S)
           w == Plus(p, q)
<1>1. n \in Int /\ e \in Int /\ MaxGross \in Int /\ MaxNet \in Int
  BY SettingsAssumption DEF Leg
<1>2. p["BEAR"] = n /\ p["RITC"] = -n /\ q["BEAR"] = e /\ q["RITC"] = -e
  BY DEF Hedged
<1>3. /\ c["BULL"] \in {n, n + e} /\ c["BEAR"] \in {n, n + e} /\ c["RITC"] \in {-n, -n + (-e)}
      /\ w["BULL"] = n + e /\ w["BEAR"] = n + e /\ w["RITC"] = -n + (-e)
  BY <1>2 DEF Corner, Plus, Leg
<1>4. Abs(n) + Abs(n) + 2 * Abs(-n) <= MaxGross
  BY <1>2 DEF WithinLimits, Gross
<1>5. Abs(n + e) + Abs(n + e) + 2 * Abs(-n + (-e)) <= MaxGross
  BY <1>3 DEF WithinLimits, Gross
<1> HIDE DEF n, e, c, w
<1>6. \A a \in Int : Abs(-a) = Abs(a) /\ Abs(a) \in Int
  BY DEF Abs
<1>7. Abs(-n) = Abs(n) /\ Abs(-n + (-e)) = Abs(n + e) /\ Abs(n) \in Int /\ Abs(n + e) \in Int
  <2>1. -n + (-e) = -(n + e) /\ n + e \in Int
    BY <1>1
  <2> QED  BY <1>1, <1>6, <2>1
<1>8. Gross(c) <= MaxGross
  <2>1. /\ Abs(c["BULL"]) \in {Abs(n), Abs(n + e)} /\ Abs(c["BEAR"]) \in {Abs(n), Abs(n + e)}
        /\ Abs(c["RITC"]) \in {Abs(n), Abs(n + e)}
    BY <1>3, <1>7
  <2> HIDE DEF Abs
  <2> QED  BY <1>1, <1>4, <1>5, <1>7, <2>1 DEF Gross
<1>9. -MaxNet <= Net(c) /\ Net(c) <= MaxNet
  <2>1. 2 * e <= MaxNet /\ -(2 * e) <= MaxNet
    BY <1>1 DEF Abs, e
  <2> QED  BY <1>1, <1>3, <2>1 DEF Net
<1> QED  BY <1>8, <1>9 DEF WithinLimits, c

LEMMA BoxStep ==
  ASSUME 2 * OrderQty <= MaxNet, IInv, IInv', LeftIs, LeftIs', BoxIsSafe, DecidesOnAccount,
         [Next]_vars
  PROVE  BoxIsSafe'
<1>0. /\ server \in [Leg -> Int] /\ LeftToTrade \in [Leg -> Int]
      /\ server' \in [Leg -> Int] /\ LeftToTrade' \in [Leg -> Int]
  BY DEF IInv, TypeOK, TypeOKIntentions, LeftIs
<1>00. Corner(server, LeftToTrade, {}) = server
  BY <1>0 DEF Corner
<1> SUFFICES ASSUME ~lost', forgotten' = Nothing, NEW S \in SUBSET Leg
             PROVE  WithinLimits(Corner(server', LeftToTrade', S))
  BY DEF BoxIsSafe, Nothing
<1>000. ASSUME ~lost, forgotten = Nothing, NEW T \in SUBSET Leg
        PROVE  WithinLimits(Corner(server, LeftToTrade, T))
  BY <1>000 DEF BoxIsSafe
<1>1. CASE PlaceArb
  <2>1. PICK b \in Bundle, dir \in Signs, q \in 1..OrderQty : EnqueueArb(b, "ARB", dir, q)
    BY <1>1 DEF PlaceArb
  <2>2. /\ ~Busy /\ kind[b] = "NONE" /\ server' = server /\ ~lost /\ forgotten = Nothing
        /\ AddBundle(b, "ARB", ArbLegs(dir, q), ArbDeadline)
        /\ WithinLimits(Plus(position, ArbLegs(dir, q)))
    BY <1>1, <2>1 DEF PlaceArb, loopVars, EnqueueArb, IsNext, Created
  <2>3. position = server
    BY <1>1, <2>2 DEF DecidesOnAccount, PlaceArb
  <2>4. ArbLegs(dir, q) \in [Leg -> Int]
    BY ArbLegsType
  <2>5. LeftToTrade = Obligation!Nothing /\ LeftToTrade' = ArbLegs(dir, q)
    <3>1. "ARB" \in Kind
      BY DEF Kind
    <3> QED  BY <2>2, <2>4, <3>1, PlanLeaves
  <2>6. Hedged(server) /\ WithinLimits(server)
    <3>1. \A b1 \in Created : ~Working(b1)
      BY <2>2 DEF Busy, Working, Members
    <3>2. Hedged(WithForgotten) /\ WithForgotten = server
      BY <2>2, <3>1, ForgottenIs DEF IInv, HedgedOrBeingHedged
    <3>3. WithinLimits(Corner(server, LeftToTrade, {}))
      BY <1>000, <2>2
    <3> QED  BY <1>00, <3>2, <3>3
  <2>7. Hedged(ArbLegs(dir, q)) /\ 2 * Abs(ArbLegs(dir, q)["BULL"]) <= MaxNet
    <3>1. dir \in {-1, 1} /\ q \in Nat /\ q <= OrderQty /\ OrderQty \in Nat /\ MaxNet \in Nat
      BY SettingsAssumption DEF Signs
    <3>2. -dir * q \in Int /\ dir * q = -(-dir * q) /\ Abs(-dir * q) = q
      BY <3>1 DEF Abs
    <3>3. /\ ArbLegs(dir, q)["RITC"] = dir * q
          /\ ArbLegs(dir, q)["BULL"] = -dir * q /\ ArbLegs(dir, q)["BEAR"] = -dir * q
      BY DEF ArbLegs, Leg
    <3> HIDE DEF Abs
    <3> QED  BY <3>1, <3>2, <3>3 DEF Hedged
  <2> QED  BY <1>0, <2>2, <2>3, <2>4, <2>5, <2>6, <2>7, HedgeToHedge
<1>2. CASE TakeTender
  <2>1. PICK b \in Bundle, s \in Signs, d \in 0..TenderQty, k \in 0..TenderQty :
          AcceptTender(b, s, d, k)
    BY <1>2 DEF TakeTender
  <2>2. /\ ~Busy /\ kind[b] = "NONE" /\ ~lost /\ server' = Tendered(server, s, d + k)
        /\ AddBundle(b, "TENDER", TenderLegs(s, d, k), TenderLife)
        /\ RouteIsSafe(position, s, d, k)
    BY <2>1 DEF AcceptTender, TenderOffered, IsNext, Created
  <2>3. position = server
    BY <1>2, <2>2 DEF DecidesOnAccount, TakeTender
  <2>4. TenderLegs(s, d, k) \in [Leg -> Int]
    BY SettingsAssumption, TenderLegsType
  <2>5. LeftToTrade' = TenderLegs(s, d, k)
    <3>1. "TENDER" \in Kind
      BY DEF Kind
    <3> QED  BY <2>2, <2>4, <3>1, PlanLeaves
  <2> DEFINE done == [l \in Leg |-> IF l \in S THEN 1 ELSE 0]
  <2>6. WithinLimits([l \in Leg |-> server'[l] + done[l] * LeftToTrade'[l]])
    <3>1. done \in [Leg -> {0, 1}]
      OBVIOUS
    <3> HIDE DEF done
    <3>2. WithinLimits([l \in Leg |-> Tendered(position, s, d + k)[l]
                                      + done[l] * TenderLegs(s, d, k)[l]])
      BY <2>2, <3>1 DEF RouteIsSafe
    <3> QED  BY <2>2, <2>3, <2>5, <3>2
  <2>7. [l \in Leg |-> server'[l] + done[l] * LeftToTrade'[l]] = Corner(server', LeftToTrade', S)
    <3>1. ASSUME NEW l \in Leg
          PROVE  server'[l] + done[l] * LeftToTrade'[l] = Corner(server', LeftToTrade', S)[l]
      <4>1. server'[l] \in Int /\ LeftToTrade'[l] \in Int
        BY <1>0
      <4>2. CASE l \in S
        <5>1. done[l] = 1
          BY <4>2
        <5>2. done[l] * LeftToTrade'[l] = LeftToTrade'[l]
          BY <4>1, <5>1
        <5> QED  BY <4>2, <5>2 DEF Corner
      <4>3. CASE l \notin S
        <5>1. done[l] = 0
          BY <4>3
        <5>2. done[l] * LeftToTrade'[l] = 0
          BY <4>1, <5>1
        <5> QED  BY <4>1, <4>3, <5>2 DEF Corner
      <4> QED  BY <4>2, <4>3
    <3> QED  BY <3>1 DEF Corner
  <2> QED  BY <2>6, <2>7
<1>3. CASE Prepare
  <2>1. server' = server /\ ~lost /\ forgotten = Nothing
    BY <1>3 DEF Prepare
  <2>2. CASE LeftToTrade' = LeftToTrade
    BY <1>000, <2>1, <2>2
  <2>3. CASE LeftToTrade' = Obligation!Nothing
    <3>1. Corner(server', LeftToTrade', S) = server
      BY <1>0, <2>1, <2>3 DEF Corner, Obligation!Nothing
    <3> QED  BY <1>00, <1>000, <2>1, <3>1
  <2> QED  BY <1>3, <2>2, <2>3, DeadlineLeaves
<1>4. CASE LoseTenderReply
  BY <1>4 DEF LoseTenderReply, TenderReplyLost
<1>5. CASE Quiet
  BY <1>000, <1>5, QuietLeaves DEF Quiet
<1>6. ASSUME NEW i \in Intent, NEW x, NEW r, Traded(i, x, r),
             UNCHANGED <<kind, quantity, forgotten>>
      PROVE  WithinLimits(Corner(server', LeftToTrade', S))
  <2> DEFINE l == i[2]
             t == Sign(quantity[i]) * x
             new == Corner(server', LeftToTrade', S)
             out == Corner(server, LeftToTrade, S \ {l})
             in == Corner(server, LeftToTrade, S \cup {l})
  <2>1. ~lost /\ forgotten = Nothing /\ x = r /\ x \in Nat /\ IsActive(i) /\ x <= Abs(remaining[i])
    BY <1>6 DEF Traded
  <2>2. /\ l \in Leg /\ server'[l] = server[l] + t /\ LeftToTrade'[l] = LeftToTrade[l] - t
        /\ \A m \in Leg \ {l} : server'[m] = server[m] /\ LeftToTrade'[m] = LeftToTrade[m]
    BY <1>6, <2>1, TradedAims
  <2>3. t \in Int
    BY <2>1, SignTimes DEF IInv, TypeOK, TypeOKIntentions
  <2>4. (0 <= t /\ t <= LeftToTrade[l]) \/ (LeftToTrade[l] <= t /\ t <= 0)
    <3>1. CASE x = 0
      <4>1. t = 0
        <5>1. Sign(quantity[i]) \in {-1, 1}
          BY SignTimes DEF IInv, TypeOK, TypeOKIntentions
        <5> HIDE DEF Sign
        <5> QED  BY <3>1, <5>1
      <4>2. LeftToTrade[l] \in Int
        BY <1>0, <2>2
      <4> QED  BY <4>1, <4>2
    <3>2. CASE x > 0
      <4>1. RecordFill(i, x)
        BY <1>6, <2>1, <3>2 DEF Traded
      <4>2. /\ remaining'[i] = remaining[i] - t
            /\ Obligation!Between(remaining'[i], remaining[i])
        BY <2>1, <3>2, <4>1, RecordFillIs
      <4>3. LeftToTrade[l] = remaining[i]
        BY <1>6, <2>1, <3>2, <4>1, FillLeaves
      <4>4. remaining[i] \in Int
        BY DEF IInv, TypeOK, TypeOKIntentions
      <4> HIDE DEF t
      <4> QED  BY <2>3, <4>2, <4>3, <4>4 DEF Obligation!Between
    <3> QED  BY <2>1, <3>1, <3>2
  <2> HIDE DEF t
  <2>5. WithinLimits(out) /\ WithinLimits(in)
    BY <1>000, <2>1, <2>2
  <2>6. out \in [Leg -> Int] /\ in \in [Leg -> Int] /\ new \in [Leg -> Int]
    BY <1>0 DEF Corner
  <2>7. \A m \in Leg \ {l} : out[m] = new[m] /\ in[m] = new[m]
    BY <2>2 DEF Corner
  <2>8. /\ out[l] = server[l] /\ in[l] = server[l] + LeftToTrade[l]
        /\ new[l] = IF l \in S THEN server[l] + t + (LeftToTrade[l] - t) ELSE server[l] + t
    BY <2>2 DEF Corner
  <2>9. (out[l] <= new[l] /\ new[l] <= in[l]) \/ (in[l] <= new[l] /\ new[l] <= out[l])
    <3>1. server[l] \in Int /\ LeftToTrade[l] \in Int
      BY <1>0, <2>2
    <3> HIDE DEF out, in, new
    <3> QED  BY <2>3, <2>4, <2>8, <3>1
  <2> HIDE DEF out, in, new
  <2>10. WithinLimits(new)
    BY <2>2, <2>5, <2>6, <2>7, <2>9, BetweenIsWithin
  <2> QED  BY <2>10 DEF new
<1>7. CASE Reset
  <2>1. ~lost /\ forgotten = Nothing /\ server' = server
    BY <1>7 DEF Reset
  <2>2. \A b \in Created' : ~Working(b)'
    BY <1>7 DEF Reset, ResetForNewHeat, Created
  <2>3. LeftToTrade' = Obligation!Nothing
    BY <2>2 DEF LeftIs, Obligation!Nothing
  <2>4. Corner(server', LeftToTrade', S) = server
    BY <1>0, <2>1, <2>3 DEF Corner, Obligation!Nothing
  <2>5. WithinLimits(Corner(server, LeftToTrade, {}))
    BY <1>000, <2>1
  <2> QED  BY <1>00, <2>4, <2>5
<1> QED  BY <1>1, <1>2, <1>3, <1>4, <1>5, <1>6, <1>7, StepIs

LEMMA DecidesOnAccountStep ==
  ASSUME DecidesOnAccount, [Next]_vars
  PROVE  DecidesOnAccount'
BY DEF DecidesOnAccount, Next, vars, BeginCycle, ReadCase, PlaceArb, TakeTender, LoseTenderReply,
       TenderReplyLost, PlaceNothing, Prepare, Step, Skip, Post, PostRaises, IsTurn, EndCycle,
       Settle, coreVars, IdlePoll

(* While no reply was lost and no reset dropped a bundle that owed the     *)
(* account something, no fill of any bundle, partial or not, takes the     *)
(* account out of the gross and net limits, although an arbitrage is only  *)
(* checked against its final position.  The net limit must hold the two    *)
(* shares of RITC exposure per share that its first leg may open.  After a *)
(* forgotten tender the fills may pass the limits.                         *)
THEOREM LimitsHoldAtEveryFill ==
  ASSUME 2 * OrderQty <= MaxNet
  PROVE  Spec => []RiskLimitsHold
<1>1. Init /\ LeftIs => BoxIsSafe /\ DecidesOnAccount
  <2> SUFFICES ASSUME Init, LeftIs, NEW S \in SUBSET Leg
               PROVE  WithinLimits(Corner(server, LeftToTrade, S))
    BY DEF BoxIsSafe, DecidesOnAccount, Init
  <2>1. LeftToTrade = Obligation!Nothing
    BY DEF Init, InitIntentions, LeftIs, Working, Members
  <2>2. \A l \in Leg : Corner(server, LeftToTrade, S)[l] = 0
    BY <2>1 DEF Corner, Obligation!Nothing, Init, InitIntentions
  <2> QED  BY <2>2, SettingsAssumption DEF WithinLimits, Gross, Net, Abs, Leg
<1>2. IInv /\ BoxIsSafe => RiskLimitsHold
  <2> SUFFICES ASSUME IInv, BoxIsSafe, ~lost, forgotten = Nothing PROVE WithinLimits(server)
    BY DEF RiskLimitsHold
  <2>1. Corner(server, LeftToTrade, {}) = server
    BY DEF Corner, IInv, TypeOK, TypeOKIntentions
  <2> QED  BY <2>1 DEF BoxIsSafe
<1>3. IInv /\ IInv' /\ LeftIs /\ LeftIs' /\ BoxIsSafe /\ DecidesOnAccount /\ [Next]_vars
        => BoxIsSafe' /\ DecidesOnAccount'
  BY BoxStep, DecidesOnAccountStep
<1> QED  BY InvStays, LeftIsOwed, <1>1, <1>2, <1>3, PTL DEF Spec

(***************************************************************************)
(* The start rule.                                                         *)
(***************************************************************************)
Small(b) == \A i \in Members(b) : Abs(quantity[i]) <= MaxOrderSize

(* A loop that fills what it asks for leaves no leg of the bundle behind:  *)
(* each is filled, or waits for its turn with its full depth in sight.     *)
InOneGo(b) ==
  /\ b \in ready /\ b \notin blocked
  /\ \A i \in Members(b) :
       istatus[i] = "FILLED" \/ (i \in todo /\ Abs(remaining[i]) <= near[i[2]])

Untouched(b) == ~Started(b) /\ (b \notin ready \/ ~Working(b))

Whole(b) ==
  /\ bstatus[b] # "HEDGING"
  /\ pc # "LOOP" => ~Started(b) \/ AllFilled(b)
  /\ pc = "LOOP" => AllFilled(b) \/ InOneGo(b) \/ Untouched(b)

StartsWhole == \A b \in Created : Small(b) /\ b \notin shortfall => Whole(b)

(* Steps that change no intent and no bundle, outside the loop.            *)
LEMMA SameWhole ==
  ASSUME StartsWhole, UNCHANGED <<kind, quantity, remaining, istatus, bstatus, shortfall>>,
         pc # "LOOP", pc' # "LOOP"
  PROVE  StartsWhole'
<1>1. Created' = Created
  BY DEF Created
<1>2. ASSUME NEW b \in Created
      PROVE  /\ Small(b)' <=> Small(b)
             /\ Started(b)' <=> Started(b)
             /\ AllFilled(b)' <=> AllFilled(b)
  BY DEF Small, Started, AllFilled, Members, Filled
<1>3. ASSUME NEW b \in Created', Small(b)', b \notin shortfall' PROVE Whole(b)'
  <2>1. b \in Created /\ Small(b) /\ b \notin shortfall
    BY <1>1, <1>2, <1>3
  <2>2. Whole(b)
    BY <2>1 DEF StartsWhole
  <2> QED  BY <1>2, <2>1, <2>2 DEF Whole
<1> QED  BY <1>3 DEF StartsWhole

LEMMA AddBundleWhole ==
  ASSUME IInv, StartsWhole, pc # "LOOP", pc' # "LOOP", UNCHANGED shortfall,
         NEW b \in Bundle, kind[b] = "NONE", NEW k \in Kind, NEW legs \in [Leg -> Int], NEW life,
         AddBundle(b, k, legs, life)
  PROVE  StartsWhole'
<1>1. \A i \in Intent : i[1] # b => UNCHANGED <<quantity[i], remaining[i], istatus[i]>>
  BY DEF AddBundle, IInv, TypeOK, TypeOKIntentions
<1>2. \A i \in Intent : i[1] = b => remaining'[i] = quantity'[i] /\ quantity'[i] \in Int
  BY Pairs DEF AddBundle
<1>3. bstatus'[b] = "PLANNED" /\ \A a \in Bundle \ {b} : UNCHANGED <<kind[a], bstatus[a]>>
  BY DEF AddBundle, IInv, TypeOK, TypeOKIntentions
<1>4. ~Started(b)'
  <2>1. \A i \in Intent : i[1] = b => ~(Filled(i)' > 0)
    BY <1>2 DEF Filled, Abs
  <2> QED  BY <2>1 DEF Started, Members
<1>5. ASSUME NEW a \in Bundle, a # b
      PROVE  /\ Small(a)' <=> Small(a)
             /\ Started(a)' <=> Started(a)
             /\ AllFilled(a)' <=> AllFilled(a)
             /\ a \in Created' <=> a \in Created
  <2>1. Members(a)' = Members(a)
    BY <1>1, <1>5 DEF Members
  <2>2. \A i \in Members(a) : i \in Intent /\ UNCHANGED <<quantity[i], remaining[i], istatus[i]>>
    BY <1>1, <1>5 DEF Members
  <2>3. \A i \in Members(a) : Filled(i)' = Filled(i)
    BY <2>2 DEF Filled
  <2> QED  BY <1>3, <1>5, <2>1, <2>2, <2>3 DEF Small, Started, AllFilled, Created
<1>6. ASSUME NEW a \in Created', Small(a)', a \notin shortfall' PROVE Whole(a)'
  <2>1. CASE a = b
    BY <1>3, <1>4, <2>1 DEF Whole
  <2>2. CASE a # b
    <3>1. a \in Bundle
      BY DEF Created
    <3>2. a \in Created /\ Small(a) /\ a \notin shortfall
      BY <1>5, <1>6, <2>2, <3>1
    <3>3. Whole(a)
      BY <3>2 DEF StartsWhole
    <3> QED  BY <1>3, <1>5, <2>2, <3>1, <3>3 DEF Whole
  <2> QED  BY <2>1, <2>2
<1> QED  BY <1>6 DEF StartsWhole

(* The loop starts with bundles that are done or untouched; a ready one    *)
(* has its full depth on every leg.                                        *)
LEMMA PrepareWhole ==
  ASSUME IInv, StartsWhole, Prepare
  PROVE  StartsWhole'
<1> USE DEF IInv
<1>1. /\ UNCHANGED <<kind, quantity, remaining, near>> /\ pc = "FULFILL" /\ pc' = "LOOP"
      /\ bstatus' = [b \in Bundle |->
           IF b \in Created THEN PreparedStatus(b, {}) ELSE bstatus[b]]
      /\ ready' = ReadyBundles(near) /\ blocked' = {}
      /\ todo' = {i \in Intent : istatus'[i] \in {"ACTIVE", "WORKING"}}
      /\ shortfall' = {b \in shortfall : Started(b)}
  BY DEF Prepare, PrepareBundles
<1>2. \A i \in Intent :
        istatus'[i] = IF IsActive(i) /\ Overdue(i[1]) THEN "CANCELLED" ELSE istatus[i]
  BY DEF Prepare, PrepareBundles
<1>3. Created' = Created /\ Created \subseteq Bundle
  BY <1>1 DEF Created
<1>4. ASSUME NEW b \in Created
      PROVE  Members(b)' = Members(b) /\ (Small(b)' <=> Small(b)) /\ (Started(b)' <=> Started(b))
  BY <1>1 DEF Members, Small, Started, Filled
<1>5. ASSUME NEW b \in Created', Small(b)', b \notin shortfall' PROVE Whole(b)'
  <2>1. b \in Created /\ b \in Bundle /\ Small(b) /\ (b \notin shortfall \/ ~Started(b))
    BY <1>1, <1>3, <1>4, <1>5
  <2>2. ~Started(b) \/ AllFilled(b)
    BY <1>1, <2>1 DEF StartsWhole, Whole
  <2>3. bstatus'[b] # "HEDGING"
    BY <1>1, <2>1, <2>2 DEF PreparedStatus
  <2>4. CASE AllFilled(b)
    <3>1. AllFilled(b)'
      BY <1>2, <1>4, <2>1, <2>4 DEF AllFilled, Members, IsActive
    <3> QED  BY <1>1, <2>3, <3>1 DEF Whole
  <2>5. CASE ~AllFilled(b) /\ ~Started(b)
    <3>1. ~Started(b)'
      BY <1>4, <2>1, <2>5
    <3>2. CASE b \notin ready' \/ ~Working(b)'
      BY <1>1, <2>3, <3>1, <3>2 DEF Whole, Untouched
    <3>3. CASE b \in ready' /\ Working(b)'
      <4>1. ~Overdue(b) /\ ReadyToStart(b, near)
        BY <1>1, <3>3 DEF ReadyBundles
      <4>2. Working(b)
        BY <1>2, <1>4, <2>1, <3>3 DEF Working, Members, IsActive
      <4>3. ASSUME NEW i \in Members(b) PROVE i \in todo' /\ Abs(remaining[i]) <= near[i[2]]
        <5>1. i \in Intent /\ i[1] = b /\ quantity[i] # 0 /\ i[2] \in Leg
          BY Pairs DEF Members
        <5>2. quantity[i] \in Int /\ remaining[i] \in Int /\ istatus[i] \in IntentStatus
              /\ near[i[2]] \in Nat
          BY <5>1 DEF TypeOK, TypeOKIntentions
        <5>3. istatus[i] # "FILLED"
          <6>1. ~(Filled(i) > 0)
            BY <2>5 DEF Started
          <6> QED  BY <5>1, <5>2, <6>1 DEF IntentsInShape, Filled, Abs
        <5>4. IsActive(i)
          BY <4>2, <5>1, <5>2, <5>3 DEF IntentsInShape, IntentStatus, IsActive
        <5>5. i \in todo'
          BY <1>1, <1>2, <4>1, <5>1, <5>4 DEF IsActive
        <5>6. Abs(remaining[i]) <= near[i[2]]
          <6>1. near[i[2]] >= Abs(remaining[i])
            BY <4>1, <5>4 DEF ReadyToStart
          <6>2. Abs(remaining[i]) \in Int
            BY <5>2, AbsType
          <6> HIDE DEF Abs
          <6> QED  BY <5>2, <6>1, <6>2
        <5> QED  BY <5>5, <5>6
      <4>4. InOneGo(b)'
        BY <1>1, <1>4, <2>1, <3>3, <4>3 DEF InOneGo, Abs
      <4> QED  BY <1>1, <2>3, <4>4 DEF Whole
    <3> QED  BY <3>2, <3>3
  <2> QED  BY <2>2, <2>4, <2>5
<1> QED  BY <1>5 DEF StartsWhole

(* What an order asks for of a bundle worked in one go is all its intent   *)
(* still lacks.                                                            *)
LEMMA AsksForAll ==
  ASSUME IInv, NEW i \in Intent, i \in todo, Small(i[1]), InOneGo(i[1])
  PROVE  /\ MayTrade(i) /\ OrderSize(i) = Abs(remaining[i])
         /\ Abs(remaining[i]) \in Nat /\ Abs(remaining[i]) > 0
<1>1. IsActive(i)
  BY DEF IInv, TodoIsActive
<1>2. quantity[i] \in Int /\ remaining[i] \in Int /\ i[2] \in Leg /\ near[i[2]] \in Nat /\ far[i[2]] \in Nat
  BY Pairs DEF IInv, TypeOK, TypeOKIntentions
<1>3. \/ 0 < remaining[i] /\ remaining[i] <= quantity[i]
      \/ remaining[i] < 0 /\ quantity[i] <= remaining[i]
  BY <1>1 DEF IInv, IntentsInShape
<1>4. i \in Members(i[1])
  BY <1>2, <1>3 DEF Members
<1>5. istatus[i] # "FILLED"
  BY <1>1 DEF IsActive
<1>6. Abs(remaining[i]) <= near[i[2]]
  BY <1>4, <1>5 DEF InOneGo
<1>7. /\ Abs(remaining[i]) \in Nat /\ Abs(remaining[i]) > 0 /\ Abs(quantity[i]) \in Nat
      /\ Abs(remaining[i]) <= Abs(quantity[i])
  BY <1>2, <1>3 DEF Abs
<1>8. Abs(quantity[i]) <= MaxOrderSize /\ MaxOrderSize \in Nat
  BY <1>4, SettingsAssumption DEF Small
<1>9. Abs(remaining[i]) <= Acceptable(i, Started(i[1])) /\ Acceptable(i, Started(i[1])) \in Nat
  <2>1. Acceptable(i, Started(i[1])) \in {near[i[2]], near[i[2]] + far[i[2]]}
    BY <1>2 DEF Acceptable
  <2> HIDE DEF Abs, Acceptable
  <2> QED  BY <1>2, <1>6, <1>7, <2>1
<1>10. OrderSize(i) = Abs(remaining[i])
  <2>1. /\ OrderSize(i) \in Nat /\ OrderSize(i) <= Abs(remaining[i])
        /\ OrderSize(i) \in {Abs(remaining[i]), Acceptable(i, Started(i[1])), MaxOrderSize}
    BY SizeIs DEF IInv
  <2> HIDE DEF Abs, Acceptable
  <2> QED  BY <1>7, <1>8, <1>9, <2>1
<1>11. MayTrade(i)
  BY DEF MayTrade, InOneGo
<1> QED  BY <1>7, <1>10, <1>11

(* The loop leaves every other bundle as it was.                           *)
LEMMA OthersStayWhole ==
  ASSUME IInv, StartsWhole, pc = "LOOP", pc' = "LOOP",
         UNCHANGED <<kind, quantity, bstatus, near, ready>>,
         NEW i \in Intent, todo' = todo \ {i},
         \A j \in Intent \ {i} : UNCHANGED <<remaining[j], istatus[j]>>,
         blocked' \subseteq blocked \cup {i[1]}, shortfall \subseteq shortfall',
         i[1] \in Created /\ Small(i[1]) /\ i[1] \notin shortfall' => Whole(i[1])'
  PROVE  StartsWhole'
<1>1. Created' = Created
  BY DEF Created
<1>2. ASSUME NEW a \in Created', Small(a)', a \notin shortfall' PROVE Whole(a)'
  <2>1. Members(a)' = Members(a) /\ a \in Created /\ Small(a) /\ a \notin shortfall
    BY <1>1, <1>2 DEF Small, Members
  <2>2. CASE a = i[1]
    BY <1>2, <2>1, <2>2
  <2>3. CASE a # i[1]
    <3>1. \A j \in Members(a) : j \in Intent \ {i} /\ UNCHANGED <<quantity[j], remaining[j], istatus[j]>>
      BY <2>3 DEF Members
    <3>2. \A j \in Members(a) : Filled(j)' = Filled(j)
      BY <3>1 DEF Filled
    <3>3. (Started(a)' <=> Started(a)) /\ (AllFilled(a)' <=> AllFilled(a))
      BY <2>1, <3>1, <3>2 DEF Started, AllFilled
    <3>4. Working(a)' <=> Working(a)
      BY <2>1, <3>1 DEF Working, IsActive
    <3>5. InOneGo(a) => InOneGo(a)'
      BY <2>1, <2>3, <3>1 DEF InOneGo, Abs
    <3>6. Whole(a)
      BY <2>1 DEF StartsWhole
    <3> QED  BY <3>3, <3>4, <3>5, <3>6 DEF Whole, Untouched
  <2> QED  BY <2>2, <2>3
<1> QED  BY <1>2 DEF StartsWhole

(* A passed over intent is of no bundle that is worked in one go.          *)
LEMMA SkipWhole ==
  ASSUME IInv, StartsWhole, NEW i \in Intent, Skip(i)
  PROVE  StartsWhole'
<1> DEFINE b == i[1]
<1>1. /\ pc = "LOOP" /\ i \in todo /\ (~MayTrade(i) \/ OrderSize(i) = 0)
      /\ todo' = todo \ {i}
      /\ UNCHANGED <<kind, bstatus, quantity, remaining, istatus, near, pc, ready, blocked, shortfall>>
  BY DEF Skip, IsTurn, coreVars
<1>2. ASSUME b \in Created, Small(b), b \notin shortfall' PROVE Whole(b)'
  <2>1. Whole(b)
    BY <1>1, <1>2 DEF StartsWhole
  <2>2. ~InOneGo(b)
    <3>1. ASSUME InOneGo(b) PROVE MayTrade(i) /\ OrderSize(i) > 0
      <4>1. /\ MayTrade(i) /\ OrderSize(i) = Abs(remaining[i])
            /\ Abs(remaining[i]) \in Nat /\ Abs(remaining[i]) > 0
        BY <1>1, <1>2, <3>1, AsksForAll
      <4> HIDE DEF Abs, OrderSize
      <4> QED  BY <4>1
    <3> QED  BY <1>1, <3>1
  <2>3. /\ Started(b)' <=> Started(b)
        /\ AllFilled(b)' <=> AllFilled(b)
        /\ Working(b)' <=> Working(b)
    BY <1>1 DEF Started, AllFilled, Working, Members, Filled, IsActive
  <2> QED  BY <1>1, <2>1, <2>2, <2>3 DEF Whole, Untouched
<1> QED  BY <1>1, <1>2, OthersStayWhole

(* An order that fills in full completes its leg; one that does not is a   *)
(* shortfall of its bundle.                                                *)
LEMMA PostWhole ==
  ASSUME IInv, StartsWhole, NEW i \in Intent, NEW x \in Int, NEW r \in Int, Post(i, x, r)
  PROVE  StartsWhole'
<1> DEFINE b == i[1]
<1>1. /\ pc = "LOOP" /\ i \in todo /\ MayTrade(i) /\ OrderSize(i) > 0
      /\ todo' = todo \ {i}
      /\ shortfall' = IF r < OrderSize(i) THEN shortfall \cup {b} ELSE shortfall
      /\ UNCHANGED <<kind, bstatus, quantity, near, pc, ready>>
  BY DEF Post, IsTurn
<1>2. IsActive(i)
  BY <1>1 DEF IInv, TodoIsActive
<1>3. /\ IF r > 0 THEN RecordFill(i, r) /\ blocked' = blocked
                  ELSE UNCHANGED <<remaining, istatus>>
      /\ blocked' \subseteq blocked \cup {b}
  BY DEF Post
<1>4. \A j \in Intent \ {i} : UNCHANGED <<remaining[j], istatus[j]>>
  BY <1>3 DEF RecordFill, IInv, TypeOK, TypeOKIntentions
<1>5. ASSUME b \in Created, Small(b), b \notin shortfall' PROVE Whole(b)'
  <2>1. Whole(b) /\ OrderSize(i) \in Nat /\ r >= OrderSize(i)
    BY <1>1, <1>5, SizeIs DEF StartsWhole, IInv
  <2>2. r > 0
    <3> HIDE DEF OrderSize
    <3> QED  BY <1>1, <2>1
  <2>3. i \in Members(b) /\ istatus[i] # "FILLED"
    BY <1>2 DEF Members, IsActive, IInv, IntentsInShape
  <2>4. InOneGo(b)
    <3>1. ~AllFilled(b)
      BY <2>3 DEF AllFilled
    <3>2. ~Untouched(b)
      BY <1>1, <1>2, <2>3 DEF Untouched, MayTrade, Working
    <3> QED  BY <1>1, <2>1, <3>1, <3>2 DEF Whole
  <2>5. istatus'[i] = "FILLED"
    <3>1. OrderSize(i) = Abs(remaining[i])
      BY <1>1, <1>5, <2>4, AsksForAll
    <3>2. Traded(i, x, r)
      BY RequestTrades
    <3>3. Abs(remaining[i]) \in Int
      BY AbsType DEF IInv, TypeOK, TypeOKIntentions
    <3>4. Abs(remaining[i]) = r
      <4>1. r <= x /\ x <= Abs(remaining[i])
        BY <3>2 DEF Traded
      <4> HIDE DEF Abs, OrderSize
      <4> QED  BY <2>1, <3>1, <3>3, <4>1
    <3> HIDE DEF Abs
    <3> QED  BY <1>3, <2>2, <3>4 DEF RecordFill, IInv, TypeOK, TypeOKIntentions
  <2>6. InOneGo(b)'
    <3>1. Members(b)' = Members(b) /\ b \in ready' /\ b \notin blocked'
      BY <1>1, <1>3, <2>2, <2>4 DEF Members, InOneGo
    <3>2. ASSUME NEW j \in Members(b), j # i
          PROVE  istatus'[j] = "FILLED" \/ (j \in todo' /\ Abs(remaining'[j]) <= near'[j[2]])
      <4>1. j \in Intent
        BY DEF Members
      <4> HIDE DEF Abs
      <4> QED  BY <1>1, <1>4, <2>4, <3>2, <4>1 DEF InOneGo
    <3> QED  BY <2>5, <3>1, <3>2 DEF InOneGo, Abs
  <2> QED  BY <1>1, <2>1, <2>6 DEF Whole
<1>6. shortfall \subseteq shortfall'
  BY <1>1
<1> QED  BY <1>1, <1>3, <1>4, <1>5, <1>6, OthersStayWhole

(* A failed request is a shortfall of its bundle, the only one at work.    *)
LEMMA PostRaisesWhole ==
  ASSUME IInv, StartsWhole, NEW i \in Intent, NEW x \in Int, PostRaises(i, x)
  PROVE  StartsWhole'
<1>1. /\ pc = "LOOP" /\ pc' = "IDLE" /\ i \in todo /\ shortfall' = shortfall \cup {i[1]}
      /\ UNCHANGED <<kind, bstatus, quantity, remaining, istatus>>
  BY DEF PostRaises, EndCycle, IsTurn
<1>2. Created' = Created
  BY <1>1 DEF Created
<1>3. Working(i[1]) /\ i[1] \in Created
  BY <1>1, Pairs DEF IInv, TodoIsActive, IntentsInShape, IsActive, Working, Members, Created
<1>4. ASSUME NEW a \in Created', Small(a)', a \notin shortfall' PROVE Whole(a)'
  <2>1. a \in Created /\ a # i[1] /\ Small(a) /\ a \notin shortfall
    BY <1>1, <1>2, <1>4 DEF Small, Members
  <2>2. Whole(a)
    BY <2>1 DEF StartsWhole
  <2>3. ~Working(a)
    BY <1>3, <2>1 DEF IInv, OneWorkingBundle
  <2>4. InOneGo(a) => AllFilled(a)
    BY <2>3 DEF InOneGo, AllFilled, Working, IInv, TodoIsActive
  <2>5. (Started(a)' <=> Started(a)) /\ (AllFilled(a)' <=> AllFilled(a))
    BY <1>1 DEF Started, AllFilled, Members, Filled
  <2> QED  BY <1>1, <2>2, <2>4, <2>5 DEF Whole, Untouched
<1> QED  BY <1>4 DEF StartsWhole

(* The loop ends with every such bundle done or untouched.                 *)
LEMMA SettleWhole ==
  ASSUME StartsWhole, Settle
  PROVE  StartsWhole'
<1>1. /\ pc = "LOOP" /\ pc' = "IDLE" /\ todo = {}
      /\ bstatus' = [b \in Bundle |->
           IF b \in Created THEN SettledStatus(b) ELSE bstatus[b]]
      /\ UNCHANGED <<kind, quantity, remaining, istatus, shortfall>>
  BY DEF Settle, EndCycle, SettleBundles
<1>2. Created' = Created /\ Created \subseteq Bundle
  BY <1>1 DEF Created
<1>3. ASSUME NEW a \in Created', Small(a)', a \notin shortfall' PROVE Whole(a)'
  <2>1. a \in Created /\ a \in Bundle /\ Small(a) /\ a \notin shortfall
    BY <1>1, <1>2, <1>3 DEF Small, Members
  <2>2. ~Started(a) \/ AllFilled(a)
    BY <1>1, <2>1 DEF StartsWhole, Whole, InOneGo, AllFilled, Untouched
  <2>3. bstatus'[a] # "HEDGING"
    <3>1. CASE AllFilled(a)
      <4>1. ~Working(a)
        BY <3>1 DEF AllFilled, Working, IsActive
      <4> QED  BY <1>1, <2>1, <3>1, <4>1 DEF SettledStatus
    <3>2. CASE ~AllFilled(a)
      BY <1>1, <2>1, <2>2, <3>2 DEF SettledStatus
    <3> QED  BY <3>1, <3>2
  <2>4. (Started(a)' <=> Started(a)) /\ (AllFilled(a)' <=> AllFilled(a))
    BY <1>1 DEF Started, AllFilled, Members, Filled
  <2> QED  BY <1>1, <2>2, <2>3, <2>4 DEF Whole
<1> QED  BY <1>3 DEF StartsWhole

LEMMA StartsWholeStep == IInv /\ StartsWhole /\ [Next]_vars => StartsWhole'
<1> SUFFICES ASSUME IInv, StartsWhole, [Next]_vars PROVE StartsWhole'
  OBVIOUS
<1>0. CASE BeginCycle /\ ~remembered
  <2>1. Created' = {}
    BY <1>0 DEF BeginCycle, ResetForNewHeat, Created
  <2> QED  BY <2>1 DEF StartsWhole
<1>1. CASE (BeginCycle /\ remembered) \/ IdlePoll \/ PlaceNothing \/ LoseTenderReply
  <2>1. pc # "LOOP" /\ pc' # "LOOP"
    BY <1>1 DEF BeginCycle, IdlePoll, PlaceNothing, LoseTenderReply
  <2>2. UNCHANGED <<kind, quantity, remaining, istatus, bstatus, shortfall>>
    BY <1>1 DEF BeginCycle, KeepState, IdlePoll, PlaceNothing, LoseTenderReply, TenderReplyLost,
                coreVars, loopVars
  <2> QED  BY <2>1, <2>2, SameWhole
<1>2. CASE PlaceArb \/ TakeTender
  <2>1. pc # "LOOP" /\ pc' # "LOOP" /\ UNCHANGED shortfall
    BY <1>2 DEF PlaceArb, TakeTender, loopVars
  <2>2. PICK b \in Bundle, k \in Kind, legs \in [Leg -> Int], life \in Nat :
          kind[b] = "NONE" /\ AddBundle(b, k, legs, life)
    BY <1>2, DecisionIs
  <2> QED  BY <2>1, <2>2, AddBundleWhole
<1>3. CASE Prepare
  BY <1>3, PrepareWhole
<1>4. ASSUME NEW i \in Intent, Step(i) PROVE StartsWhole'
  <2>1. 0..MaxOrderSize \subseteq Int
    BY SettingsAssumption
  <2> QED  BY <1>4, <2>1, SkipWhole, PostWhole, PostRaisesWhole DEF Step
<1>5. CASE Settle
  BY <1>5, SettleWhole
<1>6. CASE UNCHANGED vars
  BY <1>6 DEF vars, StartsWhole, Small, Whole, InOneGo, Untouched, Created, Members,
              Started, AllFilled, Filled, Working, IsActive
<1> QED  BY <1>0, <1>1, <1>2, <1>3, <1>4, <1>5, <1>6 DEF Next

(* A bundle that fits one order per leg is never left half filled unless   *)
(* one of its orders fell short: fulfill_market_intents starts it only     *)
(* with the full depth of every leg in sight, and then works every leg in  *)
(* the same loop.                                                          *)
THEOREM StartedInOneGo == Spec => []HedgingOnlyAfterShortfall
<1>1. Init => StartsWhole
  BY DEF Init, InitIntentions, StartsWhole, Created
<1>2. StartsWhole => HedgingOnlyAfterShortfall
  BY DEF StartsWhole, HedgingOnlyAfterShortfall, Small, Whole
<1> QED  BY InvStays, StartsWholeStep, <1>1, <1>2, PTL DEF Spec
=============================================================================
