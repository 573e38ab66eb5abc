-------------------------- MODULE PairBroker_proofs --------------------------
(***************************************************************************)
(* The safety of the pair broker, for every batch, target, hedge, number   *)
(* of attempts and number of starts.                                       *)
(***************************************************************************)
EXTENDS PairBroker, TLAPS

(***************************************************************************)
(* The invariant.                                                          *)
(***************************************************************************)
Typed ==
  /\ plan \in [kind : {"NONE", "ENTRY", "EXIT", "TRIM", "HEDGE"}, leg : Leg, size : Int]
  /\ order \in [leg : Leg, size : Int]
  /\ pair \in [first : Int, second : Int, repair : Int]
  /\ working \in [Leg -> Int] /\ pos \in [Leg -> Int] /\ expected \in [Leg -> Int]
  /\ filled \in Nat /\ starts \in Nat \ {0}

(* Nothing works at the exchange but the order that is being watched, or   *)
(* one that a process which stopped has left there.                        *)
Quiet == {"REFRESH", "VERIFY", "POST", "CONFIRM", "COMPLETE", "SETTLE", "REPAIR", "HEDGE"}
Watching == {"POLL", "RECHECK"}

AtMostOneWorks ==
  /\ pc \in Quiet \/ (starts = 1 /\ pc \in {"IDLE", "OPENCHECK"}) => working = Flat
  /\ pc \in Watching => \A l \in Leg \ {order.leg} : working[l] = 0
  /\ \A l, k \in Leg : working[l] # 0 /\ working[k] # 0 => l = k

(* Filled or not, what works takes no position beyond its bounds.          *)
Apart == pos["CALL"] - pos["PUT"]

InBounds ==
  /\ \A l \in Leg : 0 <= pos[l] /\ 0 <= pos[l] + working[l]
  /\ pos["RTM"] <= MaxHedge /\ pos["RTM"] + working["RTM"] <= MaxHedge
  /\ -Batch <= Apart /\ Apart <= Batch
  /\ -Batch <= Apart + working["CALL"] /\ Apart + working["CALL"] <= Batch
  /\ -Batch <= Apart - working["PUT"] /\ Apart - working["PUT"] <= Batch

(* The plan was made for the account p.                                    *)
PlanFits(p) ==
  \/ /\ plan.kind = "ENTRY" /\ p["CALL"] = p["PUT"] /\ plan.size \in 1..Batch
  \/ /\ plan.kind = "EXIT" /\ p["CALL"] = p["PUT"] /\ plan.leg \in Option
     /\ plan.size \in 1..Batch /\ plan.size <= p["CALL"]
  \/ /\ plan.kind = "TRIM" /\ plan.leg \in Option
     /\ plan.size >= 1 /\ plan.size <= p[plan.leg] - p[Other(plan.leg)]
  \/ /\ plan.kind = "HEDGE" /\ plan.leg = "RTM" /\ plan.size # 0
     /\ p["RTM"] + plan.size \in 0..MaxHedge

(* The legs are as far apart as the book of the pair says.                 *)
PairStands(p) ==
  /\ plan.kind \in {"ENTRY", "EXIT"} /\ plan.leg \in Option
  /\ 0 <= Missing /\ Missing <= Batch
  /\ plan.kind = "ENTRY" => p[plan.leg] - p[Second] = Missing
  /\ plan.kind = "EXIT" => p[Second] - p[plan.leg] = Missing

(* The order opens or reduces a pair, completes it or takes it back, trims *)
(* what is unmatched, or brings the stock within its bounds.               *)
OrderFits(p) ==
  \/ /\ job = "FIRST" /\ p["CALL"] = p["PUT"] /\ plan.leg \in Option /\ order.leg = plan.leg
     /\ \/ plan.kind = "ENTRY" /\ order.size \in 1..Batch
        \/ plan.kind = "EXIT" /\ -order.size \in 1..Batch /\ -order.size <= p["CALL"]
  \/ /\ job = "SECOND" /\ PairStands(p) /\ Missing # 0 /\ order.leg = Second
     /\ order.size = IF Entering THEN Missing ELSE -Missing
  \/ /\ job = "REPAIR" /\ PairStands(p) /\ Missing # 0 /\ pair.repair = Missing
     /\ order.leg = RepairSide.leg /\ order.size = -Missing
  \/ /\ job = "SINGLE" /\ plan.kind = "TRIM" /\ order.leg \in Option /\ order.size <= -1
     /\ -order.size <= p[order.leg] - p[Other(order.leg)]
  \/ /\ job = "HEDGE" \/ (job = "SINGLE" /\ plan.kind = "HEDGE")
     /\ order.leg = "RTM" /\ order.size # 0
     /\ p["RTM"] + order.size \in 0..MaxHedge

(* While an order is watched, the account is the expected one and what it  *)
(* filled, and no more than its rest works.                                *)
Followed ==
  /\ pos = [expected EXCEPT ![order.leg] = @ + Signed]
  /\ IF order.size < 0
       THEN working[order.leg] <= 0 /\ filled - working[order.leg] <= -order.size
       ELSE 0 <= working[order.leg] /\ filled + working[order.leg] <= order.size

Standing == {"COMPLETE", "SETTLE", "REPAIR"}

AccountFits ==
  /\ pc \in {"OPENCHECK", "REFRESH", "VERIFY"} => PlanFits(expected)
  /\ pc \in {"VERIFY", "POST"} => pos = expected
  /\ pc \in {"VERIFY", "POST", "CONFIRM"} \cup Watching => OrderFits(expected)
  /\ pc \in Watching \cup {"CONFIRM"} => Followed
  /\ pc \in Standing => PairStands(pos)
  /\ pc = "REPAIR" => pair.repair = Missing

(* In the process started first the legs are only apart while their pair   *)
(* is being traded.                                                        *)
FirstProcess ==
  starts = 1 =>
    /\ plan.kind # "TRIM"
    /\ pc \in {"IDLE", "OPENCHECK", "REFRESH", "VERIFY", "HEDGE"} => Apart = 0
    /\ pc \in {"POST", "CONFIRM"} \cup Watching /\ job \in {"SINGLE", "HEDGE"} => Apart = 0

IInv ==
  /\ Typed
  /\ AtMostOneWorks
  /\ InBounds
  /\ AccountFits
  /\ FirstProcess

(***************************************************************************)
(* Orders and their bounds.                                                *)
(***************************************************************************)
(* The other leg of an option is an option, and its other leg is the first.*)
LEMMA OtherIs == \A l \in Option : Other(l) \in Option /\ Other(l) # l /\ Other(Other(l)) = l
BY DEF Option, Other

LEMMA LegIs == "CALL" \in Leg /\ "PUT" \in Leg /\ "RTM" \in Leg /\ Option \subseteq Leg
BY DEF Leg, Option

(* An order of an option brings the legs no further apart than one batch,  *)
(* and sells no more than there is.                                        *)
LEMMA OptionOrder ==
  ASSUME Typed, InBounds, OrderFits(pos), order.leg # "RTM"
  PROVE  /\ order.leg \in Option /\ order.size \in Int
         /\ 0 <= pos[order.leg] + order.size
         /\ -Batch <= pos[order.leg] - pos[Other(order.leg)] + order.size
         /\ pos[order.leg] - pos[Other(order.leg)] + order.size <= Batch
<1>1. order.size \in Int /\ Batch \in Nat /\ \A l \in Option : pos[l] \in Int /\ 0 <= pos[l]
  BY BrokerAssumption, LegIs DEF Typed, InBounds
<1>2. \A l \in Option : pos[l] - pos[Other(l)] <= Batch
  BY <1>1, LegIs DEF InBounds, Apart, Typed, Option, Other
<1>3. CASE job = "FIRST"
  <2>1. /\ order.leg \in Option /\ pos[order.leg] = pos[Other(order.leg)]
        /\ \/ order.size \in 1..Batch
           \/ -order.size \in 1..Batch /\ -order.size <= pos[order.leg]
    BY <1>3 DEF OrderFits, Option, Other
  <2> QED  BY <1>1, <2>1, OtherIs
<1>4. CASE job = "SECOND"
  <2>1. /\ PairStands(pos) /\ order.leg = Second
        /\ order.size = IF Entering THEN Missing ELSE -Missing
    BY <1>4 DEF OrderFits
  <2>2. plan.leg \in Option /\ Second \in Option /\ Other(Second) = plan.leg
    BY <2>1, OtherIs DEF PairStands, Second
  <2>3. Missing \in Int
    BY DEF Missing, Typed
  <2>4. CASE plan.kind = "ENTRY"
    BY <1>1, <2>1, <2>2, <2>3, <2>4 DEF PairStands, Entering
  <2>5. CASE plan.kind = "EXIT"
    BY <1>1, <2>1, <2>2, <2>3, <2>5 DEF PairStands, Entering
  <2> QED  BY <2>1, <2>4, <2>5 DEF PairStands
<1>5. CASE job = "REPAIR"
  <2>1. PairStands(pos) /\ order.leg = RepairSide.leg /\ order.size = -Missing
    BY <1>5 DEF OrderFits
  <2>2. plan.leg \in Option /\ Second \in Option /\ Other(Second) = plan.leg
        /\ Other(plan.leg) = Second
    BY <2>1, OtherIs DEF PairStands, Second
  <2>3. Missing \in Int
    BY DEF Missing, Typed
  <2>4. CASE plan.kind = "ENTRY"
    <3>1. order.leg = plan.leg
      BY <2>1, <2>4 DEF RepairSide, Entering
    <3> QED  BY <1>1, <2>1, <2>2, <2>3, <2>4, <3>1 DEF PairStands
  <2>5. CASE plan.kind = "EXIT"
    <3>1. order.leg = Second
      BY <2>1, <2>5 DEF RepairSide, Entering
    <3> QED  BY <1>1, <2>1, <2>2, <2>3, <2>5, <3>1 DEF PairStands
  <2> QED  BY <2>1, <2>4, <2>5 DEF PairStands
<1>6. CASE job = "SINGLE" /\ plan.kind = "TRIM"
  <2>1. /\ order.leg \in Option /\ order.size <= -1
        /\ -order.size <= pos[order.leg] - pos[Other(order.leg)]
    BY <1>6 DEF OrderFits
  <2> QED  BY <1>1, <1>2, <2>1, OtherIs
<1> QED  BY <1>3, <1>4, <1>5, <1>6 DEF OrderFits

(* An order for the stock keeps it within its bounds.                      *)
LEMMA StockOrder ==
  ASSUME OrderFits(pos), order.leg = "RTM"
  PROVE  pos["RTM"] + order.size \in 0..MaxHedge
<1>1. job \in {"SINGLE", "HEDGE"}
  BY OtherIs DEF OrderFits, PairStands, RepairSide, Second, Option
<1> QED  BY <1>1 DEF OrderFits, Option

(* So whatever of it fills, the account stays in its bounds.               *)
LEMMA OrderStaysInBounds ==
  ASSUME Typed, InBounds, OrderFits(pos), working = Flat, pos' = pos,
         working' = [working EXCEPT ![order.leg] = order.size]
  PROVE  InBounds' /\ working' \in [Leg -> Int]
<1>1. order.leg \in Leg /\ order.size \in Int /\ \A l \in Leg : pos[l] \in Int /\ working[l] = 0
  BY DEF Typed, Flat
<1>2. /\ working' \in [Leg -> Int] /\ working'[order.leg] = order.size
      /\ \A l \in Leg \ {order.leg} : working'[l] = 0
  BY <1>1 DEF Typed
<1>3. CASE order.leg = "RTM"
  <2>1. pos["RTM"] + order.size \in 0..MaxHedge
    BY <1>3, StockOrder
  <2>2. working'["CALL"] = 0 /\ working'["PUT"] = 0 /\ working'["RTM"] = order.size
    BY <1>2, <1>3, LegIs
  <2>3. \A l \in Leg : 0 <= pos[l] /\ 0 <= pos[l] + working'[l]
    BY <1>1, <1>2, <1>3, <2>1 DEF InBounds
  <2>4. MaxHedge \in Int /\ pos["RTM"] + order.size <= MaxHedge
    BY <1>1, <2>1, BrokerAssumption, LegIs
  <2> QED  BY <1>1, <1>2, <2>2, <2>3, <2>4, LegIs DEF InBounds, Apart
<1>4. CASE order.leg # "RTM"
  <2>1. /\ order.leg \in Option
        /\ 0 <= pos[order.leg] + order.size
        /\ -Batch <= pos[order.leg] - pos[Other(order.leg)] + order.size
        /\ pos[order.leg] - pos[Other(order.leg)] + order.size <= Batch
    BY <1>4, OptionOrder
  <2>2. \A l \in Leg : 0 <= pos[l] /\ 0 <= pos[l] + working'[l]
    BY <1>1, <1>2, <2>1 DEF InBounds
  <2>3. working'["RTM"] = 0 /\ pos["CALL"] \in Int /\ pos["PUT"] \in Int /\ pos["RTM"] \in Int
        /\ Batch \in Nat
    BY <1>1, <1>2, <1>4, BrokerAssumption, LegIs
  <2>4. CASE order.leg = "CALL"
    <3>1. working'["CALL"] = order.size /\ working'["PUT"] = 0 /\ Other(order.leg) = "PUT"
      BY <1>2, <2>4, LegIs DEF Other
    <3> QED  BY <1>1, <1>2, <2>1, <2>2, <2>3, <2>4, <3>1 DEF InBounds, Apart
  <2>5. CASE order.leg = "PUT"
    <3>1. working'["PUT"] = order.size /\ working'["CALL"] = 0 /\ Other(order.leg) = "CALL"
      BY <1>2, <2>5, LegIs DEF Other
    <3> QED  BY <1>1, <1>2, <2>1, <2>2, <2>3, <2>5, <3>1 DEF InBounds, Apart
  <2> QED  BY <2>1, <2>4, <2>5 DEF Option
<1> QED  BY <1>3, <1>4

(***************************************************************************)
(* Ends of an evaluation.                                                  *)
(***************************************************************************)
(* What every end of an evaluation forgets.                                *)
LEMMA ForgetTyped ==
  ASSUME Typed, Forget, working' \in [Leg -> Int], pos' \in [Leg -> Int],
         UNCHANGED starts
  PROVE  Typed' /\ plan'.kind = "NONE"
<1>1. NoPlan \in [kind : {"NONE", "ENTRY", "EXIT", "TRIM", "HEDGE"}, leg : Leg, size : Int]
      /\ NoPlan.kind = "NONE"
  BY DEF NoPlan, Leg, Option
<1>2. NoOrder \in [leg : Leg, size : Int] /\ Flat \in [Leg -> Int]
  BY DEF NoOrder, Flat, Leg, Option
<1>3. NoPair \in [first : Int, second : Int, repair : Int]
  BY DEF NoPair
<1> QED  BY <1>1, <1>2, <1>3 DEF Forget, Typed

(* The process stops, with whatever works left at the exchange.            *)
LEMMA StopKeeps ==
  ASSUME IInv, Stop, UNCHANGED starts, InBounds',
         working' \in [Leg -> Int], pos' \in [Leg -> Int],
         \A l, k \in Leg : working'[l] # 0 /\ working'[k] # 0 => l = k
  PROVE  IInv'
<1>1. Typed' /\ plan'.kind = "NONE" /\ pc' = "STOPPED"
  BY ForgetTyped DEF IInv, Stop
<1>2. AtMostOneWorks'
  BY <1>1 DEF AtMostOneWorks, Quiet, Watching
<1>3. AccountFits'
  BY <1>1 DEF AccountFits, Watching, Standing
<1>4. FirstProcess'
  BY <1>1 DEF FirstProcess, Watching
<1> QED  BY <1>1, <1>2, <1>3, <1>4 DEF IInv

LEMMA StopInPlace ==
  ASSUME IInv, Stop, UNCHANGED <<working, pos, starts>>
  PROVE  IInv'
<1>1. InBounds'
  BY DEF IInv, InBounds, Apart
<1> QED  BY <1>1, StopKeeps DEF IInv, Typed, AtMostOneWorks

(* The evaluation ends and the strategy goes on.                           *)
LEMMA ReturnKeeps ==
  ASSUME IInv, Return, UNCHANGED <<working, pos, starts>>, working = Flat,
         starts = 1 => Apart = 0
  PROVE  IInv'
<1>1. Typed' /\ plan'.kind = "NONE" /\ pc' = "IDLE"
  BY ForgetTyped DEF IInv, Return, Typed
<1>2. AtMostOneWorks'
  BY <1>1 DEF IInv, AtMostOneWorks, Quiet, Watching
<1>3. InBounds'
  BY DEF IInv, InBounds, Apart
<1>4. AccountFits'
  BY <1>1 DEF AccountFits, Watching, Standing
<1>5. FirstProcess'
  BY <1>1 DEF FirstProcess, Watching, Apart
<1> QED  BY <1>1, <1>2, <1>3, <1>4, <1>5 DEF IInv

(* Only a hedge is left to look for.                                       *)
LEMMA HedgeNextKeeps ==
  ASSUME IInv, pc' = "HEDGE", UNCHANGED <<working, pos, starts>>, Typed', working = Flat,
         starts = 1 => Apart = 0 /\ plan'.kind # "TRIM"
  PROVE  IInv'
<1>1. AtMostOneWorks'
  BY DEF IInv, AtMostOneWorks, Watching
<1>2. InBounds'
  BY DEF IInv, InBounds, Apart
<1>3. AccountFits'
  BY DEF AccountFits, Watching, Standing
<1>4. FirstProcess'
  BY DEF FirstProcess, Apart, Watching
<1> QED  BY <1>1, <1>2, <1>3, <1>4 DEF IInv

LEMMA GoToHedgeTyped == Typed /\ GoToHedge /\ UNCHANGED <<plan, working, pos, expected, pair, starts>> => Typed'
<1>1. NoOrder \in [leg : Leg, size : Int]
  BY DEF NoOrder, Leg, Option
<1> QED  BY <1>1 DEF GoToHedge, Typed

(***************************************************************************)
(* The environment.                                                        *)
(***************************************************************************)
(* A fill moves the account towards where it is bound anyway.              *)
LEMMA FillStaysInBounds ==
  ASSUME Typed, InBounds, NEW l \in Leg, working[l] # 0,
         \A k \in Leg \ {l} : working[k] = 0,
         working' = [working EXCEPT ![l] = @ - Sign(@)],
         pos' = [pos EXCEPT ![l] = @ + Sign(working[l])]
  PROVE  InBounds'
<1>1. /\ pos[l] \in Int /\ working[l] \in Int
      /\ working'[l] = working[l] - Sign(working[l]) /\ pos'[l] = pos[l] + Sign(working[l])
      /\ \A k \in Leg \ {l} : working'[k] = working[k] /\ pos'[k] = pos[k]
  BY DEF Typed
<1>2. \/ pos[l] < pos'[l] /\ pos'[l] <= pos[l] + working[l]
      \/ pos[l] + working[l] <= pos'[l] /\ pos'[l] < pos[l]
  BY <1>1 DEF Sign
<1>3. pos'[l] + working'[l] = pos[l] + working[l] /\ pos'[l] \in Int /\ working'[l] \in Int
  BY <1>1 DEF Sign
<1>4. \A k \in Leg : pos[k] \in Int /\ working[k] \in Int
  BY DEF Typed
<1>5. \A k \in Leg : 0 <= pos'[k] /\ 0 <= pos'[k] + working'[k]
  BY <1>1, <1>2, <1>3, <1>4 DEF InBounds
<1>6. Batch \in Nat /\ MaxHedge \in Nat
  BY BrokerAssumption
<1>7. /\ pos["CALL"] \in Int /\ pos["PUT"] \in Int /\ pos["RTM"] \in Int
      /\ working["CALL"] \in Int /\ working["PUT"] \in Int /\ working["RTM"] \in Int
  BY <1>4, LegIs
<1>8. ASSUME NEW k \in Leg, k # l
      PROVE  pos'[k] = pos[k] /\ working'[k] = working[k] /\ l \in Leg
  BY <1>1, <1>8
<1>9. CASE l = "RTM"
  <2>1. /\ pos'["CALL"] = pos["CALL"] /\ working'["CALL"] = working["CALL"]
        /\ pos'["PUT"] = pos["PUT"] /\ working'["PUT"] = working["PUT"]
    BY <1>8, <1>9, LegIs
  <2>2. pos'["RTM"] <= MaxHedge /\ pos'["RTM"] + working'["RTM"] <= MaxHedge
    BY <1>2, <1>3, <1>6, <1>7, <1>9 DEF InBounds
  <2> QED  BY <1>5, <2>1, <2>2 DEF InBounds, Apart
<1>10. CASE l = "CALL"
  <2>1. /\ pos'["RTM"] = pos["RTM"] /\ working'["RTM"] = working["RTM"]
        /\ pos'["PUT"] = pos["PUT"] /\ working'["PUT"] = working["PUT"]
    BY <1>8, <1>10, LegIs
  <2>2. /\ -Batch <= Apart' /\ Apart' <= Batch
        /\ -Batch <= Apart' + working'["CALL"] /\ Apart' + working'["CALL"] <= Batch
    BY <1>2, <1>3, <1>6, <1>7, <1>10, <2>1 DEF InBounds, Apart
  <2>3. -Batch <= Apart' - working'["PUT"] /\ Apart' - working'["PUT"] <= Batch
    BY <1>2, <1>3, <1>6, <1>7, <1>10, <2>1, <2>2, LegIs DEF InBounds, Apart
  <2> QED  BY <1>5, <2>1, <2>2, <2>3 DEF InBounds
<1>11. CASE l = "PUT"
  <2>1. /\ pos'["RTM"] = pos["RTM"] /\ working'["RTM"] = working["RTM"]
        /\ pos'["CALL"] = pos["CALL"] /\ working'["CALL"] = working["CALL"]
    BY <1>8, <1>11, LegIs
  <2>2. /\ -Batch <= Apart' /\ Apart' <= Batch
        /\ -Batch <= Apart' - working'["PUT"] /\ Apart' - working'["PUT"] <= Batch
    BY <1>2, <1>3, <1>6, <1>7, <1>11, <2>1 DEF InBounds, Apart
  <2>3. -Batch <= Apart' + working'["CALL"] /\ Apart' + working'["CALL"] <= Batch
    BY <1>2, <1>3, <1>6, <1>7, <1>11, <2>1, <2>2, LegIs DEF InBounds, Apart
  <2> QED  BY <1>5, <2>1, <2>2, <2>3 DEF InBounds
<1> QED  BY <1>9, <1>10, <1>11 DEF Leg, Option

LEMMA ExchangeFillsKeeps ==
  ASSUME IInv, NEW l \in Leg, ExchangeFills(l)
  PROVE  IInv'
<1> USE DEF IInv
<1>1. /\ working[l] # 0 /\ working' = [working EXCEPT ![l] = @ - Sign(@)]
      /\ pos' = [pos EXCEPT ![l] = @ + Sign(working[l])]
      /\ UNCHANGED <<pc, plan, job, order, expected, pending, pair, starts>>
      /\ filled' = IF pc \in {"POLL", "RECHECK"} /\ l = order.leg THEN filled + 1 ELSE filled
  BY DEF ExchangeFills
<1>2. InBounds'
  <2>1. \A k \in Leg \ {l} : working[k] = 0
    BY <1>1 DEF AtMostOneWorks
  <2> QED  BY <1>1, <2>1, FillStaysInBounds
<1>3. working[l] \in Int /\ pos[l] \in Int /\ filled \in Nat /\ Sign(working[l]) \in {-1, 1}
  BY DEF Typed, Sign
<1>4. working' \in [Leg -> Int] /\ pos' \in [Leg -> Int] /\ filled' \in Nat
  BY <1>1, <1>3 DEF Typed
<1>5. Typed'
  BY <1>1, <1>4 DEF Typed
<1>6. pc \notin Quiet /\ ~(starts = 1 /\ pc \in {"IDLE", "OPENCHECK"})
  BY <1>1 DEF AtMostOneWorks, Flat
<1>7. \A k \in Leg : working[k] = 0 => working'[k] = 0
  BY <1>1 DEF Typed
<1>8. AtMostOneWorks'
  BY <1>1, <1>6, <1>7 DEF AtMostOneWorks, Typed
<1>9. AccountFits'
  <2>1. CASE pc \in Watching
    <3>1. l = order.leg /\ filled' = filled + 1
      BY <1>1, <2>1 DEF AtMostOneWorks, Watching
    <3>2. Followed /\ OrderFits(expected)
      BY <2>1 DEF AccountFits
    <3>3. /\ working'[l] = working[l] - Sign(working[l]) /\ order.size \in Int
          /\ pos'[l] = pos[l] + Sign(working[l])
          /\ \A k \in Leg \ {l} : pos'[k] = pos[k]
      BY <1>1, <1>3 DEF Typed
    <3>4. pos[l] = expected[l] + Signed /\ \A k \in Leg \ {l} : pos[k] = expected[k]
      BY <3>1, <3>2 DEF Followed, Typed
    <3>5. /\ order.size < 0 <=> working[l] < 0
          /\ Sign(order.size) = Sign(working[l])
      BY <1>1, <1>3, <3>1, <3>2, <3>3 DEF Followed, Sign
    <3>6. Signed' = Signed + Sign(working[l]) /\ Signed \in Int /\ Signed' \in Int
      BY <1>1, <1>3, <3>1, <3>5 DEF Signed, Sign
    <3>7. pos'[l] = expected[l] + Signed' /\ expected[l] \in Int
      <4>1. expected[l] \in Int
        BY DEF Typed
      <4> QED  BY <1>3, <3>3, <3>4, <3>6, <4>1
    <3>8. pos' = [expected EXCEPT ![order.leg] = @ + Signed']
      BY <1>4, <3>1, <3>3, <3>4, <3>7 DEF Typed
    <3>9. IF order.size < 0
            THEN working'[l] <= 0 /\ filled' - working'[l] <= -order.size
            ELSE 0 <= working'[l] /\ filled' + working'[l] <= order.size
      BY <1>1, <1>3, <3>1, <3>2, <3>3, <3>5 DEF Followed, Sign
    <3>10. Followed'
      BY <1>1, <3>1, <3>8, <3>9 DEF Followed
    <3>11. OrderFits(expected)'
      BY <1>1, <3>2 DEF OrderFits, PairStands, Missing, Second, Entering, RepairSide
    <3> QED  BY <1>1, <2>1, <3>10, <3>11 DEF AccountFits, Watching, Standing
  <2>2. CASE pc \notin Watching
    <3>1. pc \in {"IDLE", "OPENCHECK", "STOPPED"} \/ pc \notin Standing \cup {"REFRESH", "VERIFY", "POST", "CONFIRM"}
      BY <1>6 DEF Quiet, Standing
    <3>2. PlanFits(expected)' <=> PlanFits(expected)
      BY <1>1 DEF PlanFits
    <3> QED  BY <1>1, <1>6, <2>2, <3>2 DEF AccountFits, Quiet, Standing
  <2> QED  BY <2>1, <2>2
<1>10. FirstProcess'
  <2>1. ASSUME starts = 1 PROVE pc \notin {"IDLE", "OPENCHECK", "REFRESH", "VERIFY", "HEDGE", "POST", "CONFIRM"}
    BY <1>6, <2>1 DEF Quiet
  <2>2. ASSUME starts = 1, pc \in Watching, job \in {"SINGLE", "HEDGE"} PROVE Apart' = 0
    <3>1. plan.kind # "TRIM" /\ OrderFits(expected) /\ Apart = 0
      BY <2>2 DEF FirstProcess, AccountFits
    <3>2. order.leg = "RTM"
      BY <2>2, <3>1 DEF OrderFits
    <3>3. l = "RTM"
      BY <1>1, <2>2, <3>2 DEF AtMostOneWorks
    <3>4. pos'["CALL"] = pos["CALL"] /\ pos'["PUT"] = pos["PUT"]
      BY <1>1, <3>3, LegIs DEF Typed
    <3> QED  BY <3>1, <3>4 DEF Apart
  <2> QED  BY <1>1, <2>1, <2>2 DEF FirstProcess
<1> QED  BY <1>2, <1>5, <1>8, <1>9, <1>10

(* An order that is gone, or about to be.                                  *)
LEMMA DropStaysInBounds ==
  ASSUME Typed, InBounds, NEW l \in Leg, working' = [working EXCEPT ![l] = 0], pos' = pos
  PROVE  InBounds' /\ working' \in [Leg -> Int]
<1>1. /\ \A k \in Leg : pos[k] \in Int /\ working[k] \in Int
      /\ \A k \in Leg : working'[k] = working[k] \/ working'[k] = 0
      /\ working' \in [Leg -> Int]
  BY DEF Typed
<1>2. \A k \in Leg : 0 <= pos'[k] /\ 0 <= pos'[k] + working'[k]
  BY <1>1 DEF InBounds
<1> QED  BY <1>1, <1>2, LegIs DEF InBounds, Apart

LEMMA ExchangeDropsKeeps ==
  ASSUME IInv, NEW l \in Leg, ExchangeDrops(l)
  PROVE  IInv'
<1> USE DEF IInv
<1>1. /\ working[l] # 0 /\ working' = [working EXCEPT ![l] = 0]
      /\ UNCHANGED <<pc, plan, job, order, filled, pos, expected, pending, pair, starts>>
  BY DEF ExchangeDrops
<1>2. InBounds' /\ working' \in [Leg -> Int]
  BY <1>1, DropStaysInBounds
<1>3. Typed'
  BY <1>1, <1>2 DEF Typed
<1>4. \A k \in Leg : working'[k] = working[k] \/ working'[k] = 0
  BY <1>1 DEF Typed
<1>5. AtMostOneWorks'
  <2>1. working # Flat
    BY <1>1 DEF Flat
  <2> QED  BY <1>1, <1>4, <2>1 DEF AtMostOneWorks
<1>6. AccountFits'
  <2>1. ASSUME Followed PROVE Followed'
    <3>1. order.leg \in Leg /\ order.size \in Int /\ filled \in Nat /\ working[order.leg] \in Int
      BY DEF Typed
    <3>2. working'[order.leg] = working[order.leg] \/ working'[order.leg] = 0
      BY <1>4, <3>1
    <3> QED  BY <1>1, <2>1, <3>1, <3>2 DEF Followed, Signed, Sign
  <2>2. /\ PlanFits(expected)' <=> PlanFits(expected)
        /\ OrderFits(expected)' <=> OrderFits(expected)
        /\ PairStands(pos)' <=> PairStands(pos)
        /\ Missing' = Missing
    BY <1>1 DEF PlanFits, OrderFits, PairStands, Missing, Second, Entering, RepairSide
  <2> QED  BY <1>1, <2>1, <2>2 DEF AccountFits
<1>7. FirstProcess'
  BY <1>1 DEF FirstProcess, Apart
<1> QED  BY <1>2, <1>3, <1>5, <1>6, <1>7

LEMMA EnvironmentKeeps == IInv /\ Environment => IInv'
<1> SUFFICES ASSUME IInv, Environment PROVE IInv'
  OBVIOUS
<1>1. CASE \E l \in Leg : ExchangeFills(l) \/ ExchangeDrops(l)
  BY <1>1, ExchangeFillsKeeps, ExchangeDropsKeeps
<1>2. CASE CaseEnds
  BY <1>2 DEF CaseEnds, IInv, Typed, AtMostOneWorks, InBounds, Apart, AccountFits, PlanFits,
              OrderFits, PairStands, Missing, Second, Entering, RepairSide, Followed, Signed,
              FirstProcess
<1>3. CASE Abort
  BY <1>3, StopInPlace DEF Abort
<1>4. CASE Restart
  <2>1. pc = "STOPPED" /\ pc' = "IDLE" /\ starts' = starts + 1 /\ starts < MaxStarts
        /\ UNCHANGED <<plan, job, order, filled, working, pos, expected, pending, pair>>
    BY <1>4 DEF Restart
  <2>2. starts \in Nat \ {0}
    BY DEF IInv, Typed
  <2>3. starts' # 1 /\ starts' \in Nat \ {0}
    BY <2>1, <2>2
  <2>4. Typed' /\ InBounds'
    BY <2>1, <2>3 DEF IInv, Typed, InBounds, Apart
  <2>5. AtMostOneWorks' /\ AccountFits' /\ FirstProcess'
    BY <2>1, <2>3 DEF IInv, AtMostOneWorks, AccountFits, FirstProcess, Quiet, Watching, Standing
  <2> QED  BY <2>4, <2>5 DEF IInv
<1> QED  BY <1>1, <1>2, <1>3, <1>4 DEF Environment

(***************************************************************************)
(* Steps before an order.                                                  *)
(***************************************************************************)
LEMMA EvaluateKeeps == IInv /\ Evaluate => IInv'
<1> SUFFICES ASSUME IInv, Evaluate PROVE IInv'
  OBVIOUS
<1> USE DEF IInv
<1>1. /\ pc = "IDLE" /\ pc' = "OPENCHECK" /\ expected' = pos
      /\ UNCHANGED <<job, order, filled, working, pos, pending, pair, starts>>
  BY DEF Evaluate
<1>2. /\ pos["CALL"] \in Int /\ pos["PUT"] \in Int /\ pos["RTM"] \in Int
      /\ Batch \in Nat /\ MaxHedge \in Nat
  BY BrokerAssumption, LegIs DEF Typed
<1>3. /\ plan' \in [kind : {"NONE", "ENTRY", "EXIT", "TRIM", "HEDGE"}, leg : Leg, size : Int]
      /\ PlanFits(expected)'
      /\ plan'.kind = "TRIM" => Apart # 0
  <2>1. CASE plan' \in [kind : {"ENTRY", "EXIT", "TRIM"}, leg : Option, size : 1..Batch]
             /\ Planned(plan')
    <3>1. plan'.leg \in Option /\ plan'.size \in 1..Batch /\ plan'.kind \in {"ENTRY", "EXIT", "TRIM"}
      BY <2>1
    <3>2. plan' \in [kind : {"NONE", "ENTRY", "EXIT", "TRIM", "HEDGE"}, leg : Leg, size : Int]
      BY <2>1, LegIs
    <3>3. CASE plan'.kind = "ENTRY"
      BY <1>1, <1>2, <2>1, <3>1, <3>2, <3>3 DEF Planned, PlanFits, Unmatched
    <3>4. CASE plan'.kind = "EXIT"
      <4>1. Unmatched = 0 /\ plan'.size <= pos["CALL"]
        BY <1>2, <2>1, <3>1, <3>4 DEF Planned, Least
      <4> QED  BY <1>1, <1>2, <3>1, <3>2, <3>4, <4>1 DEF PlanFits, Unmatched
    <3>5. CASE plan'.kind = "TRIM"
      <4>1. /\ plan'.size >= 1 /\ plan'.size <= Abs(Unmatched)
            /\ plan'.leg = (IF Unmatched > 0 THEN "CALL" ELSE "PUT")
        BY <1>2, <2>1, <3>1, <3>5 DEF Planned, Least, Abs, Unmatched
      <4>2. Unmatched # 0 /\ plan'.size <= pos[plan'.leg] - pos[Other(plan'.leg)]
        BY <1>2, <3>1, <4>1 DEF Abs, Unmatched, Other
      <4> QED  BY <1>1, <3>1, <3>2, <3>5, <4>1, <4>2 DEF PlanFits, Apart, Unmatched
    <3> QED  BY <3>1, <3>3, <3>4, <3>5
  <2>2. CASE \E h \in Hedges : plan' = [kind |-> "HEDGE", leg |-> "RTM", size |-> h]
    <3>1. PICK h \in Hedges : plan' = [kind |-> "HEDGE", leg |-> "RTM", size |-> h]
      BY <2>2
    <3>2. h \in Int /\ h # 0 /\ pos["RTM"] + h \in 0..MaxHedge
      BY <1>2 DEF Hedges
    <3>3. plan'.kind = "HEDGE" /\ plan'.leg = "RTM" /\ plan'.size = h
      BY <3>1
    <3>4. plan' \in [kind : {"NONE", "ENTRY", "EXIT", "TRIM", "HEDGE"}, leg : Leg, size : Int]
      BY <3>1, <3>2, LegIs
    <3> QED  BY <1>1, <3>2, <3>3, <3>4 DEF PlanFits
  <2> QED  BY <2>1, <2>2 DEF Evaluate
<1>4. Typed' /\ InBounds'
  BY <1>1, <1>3 DEF Typed, InBounds, Apart
<1>5. AtMostOneWorks'
  BY <1>1 DEF AtMostOneWorks, Quiet, Watching
<1>6. AccountFits'
  BY <1>1, <1>3 DEF AccountFits, Watching, Standing
<1>7. FirstProcess'
  BY <1>1, <1>3 DEF FirstProcess, Apart, Watching
<1> QED  BY <1>4, <1>5, <1>6, <1>7

LEMMA CheckOpenOrdersKeeps == IInv /\ CheckOpenOrders => IInv'
<1> SUFFICES ASSUME IInv, CheckOpenOrders PROVE IInv'
  OBVIOUS
<1>1. CASE working = Flat
  <2>1. /\ pc = "OPENCHECK" /\ pc' = "REFRESH"
        /\ UNCHANGED <<plan, job, order, filled, working, pos, expected, pending, pair, starts>>
    BY <1>1 DEF CheckOpenOrders
  <2>2. Typed' /\ InBounds' /\ AtMostOneWorks'
    BY <1>1, <2>1 DEF IInv, Typed, InBounds, Apart, AtMostOneWorks, Watching
  <2>3. PlanFits(expected)'
    BY <2>1 DEF IInv, AccountFits, PlanFits
  <2>4. AccountFits' /\ FirstProcess'
    BY <2>1, <2>3 DEF IInv, AccountFits, FirstProcess, Watching, Standing, Apart
  <2> QED  BY <2>2, <2>4 DEF IInv
<1>2. CASE working # Flat
  BY <1>2, StopInPlace DEF CheckOpenOrders
<1> QED  BY <1>1, <1>2

(* The order that is made from a plan fits the account as the plan does.   *)
LEMMA RefreshKeeps == IInv /\ Refresh => IInv'
<1> SUFFICES ASSUME IInv, Refresh PROVE IInv'
  OBVIOUS
<1> USE DEF IInv
<1>1. /\ pc = "REFRESH" /\ pc' = "VERIFY" /\ pos = expected
      /\ UNCHANGED <<filled, working, pos, expected, pending, pair, starts>>
      /\ job' = (IF plan.kind \in {"ENTRY", "EXIT"} THEN "FIRST" ELSE "SINGLE")
  BY DEF Refresh
<1>2. PlanFits(expected)
  BY <1>1 DEF AccountFits
<1>3. CASE plan.kind = "ENTRY"
  <2>1. PICK n \in 1..plan.size, l \in Option :
          order' = [leg |-> l, size |-> n] /\ plan' = [plan EXCEPT !.leg = l]
    BY <1>3 DEF Refresh
  <2>2. plan.size \in 1..Batch /\ expected["CALL"] = expected["PUT"] /\ Batch \in Nat
    BY <1>2, <1>3, BrokerAssumption DEF PlanFits
  <2>3. n \in 1..Batch /\ n \in Int /\ l \in Leg
    BY <2>2, LegIs
  <2>4. /\ plan'.kind = "ENTRY" /\ plan'.leg = l /\ plan'.size = plan.size
        /\ order'.leg = l /\ order'.size = n
        /\ plan' \in [kind : {"NONE", "ENTRY", "EXIT", "TRIM", "HEDGE"}, leg : Leg, size : Int]
        /\ order' \in [leg : Leg, size : Int]
    BY <1>3, <2>1, <2>3 DEF Typed
  <2>5. Typed' /\ InBounds' /\ AtMostOneWorks'
    BY <1>1, <2>4 DEF Typed, InBounds, Apart, AtMostOneWorks, Quiet, Watching
  <2>6. PlanFits(expected)'
    BY <1>1, <2>2, <2>4 DEF PlanFits
  <2>7. OrderFits(expected)'
    BY <1>1, <1>3, <2>2, <2>3, <2>4 DEF OrderFits
  <2>8. AccountFits' /\ FirstProcess'
    BY <1>1, <1>3, <2>4, <2>6, <2>7 DEF AccountFits, FirstProcess, Watching, Standing, Apart
  <2> QED  BY <2>5, <2>8
<1>4. CASE plan.kind # "ENTRY"
  <2>1. order' = [leg |-> plan.leg, size |-> Reduction(plan)] /\ plan' = plan
    BY <1>4 DEF Refresh
  <2>2. plan.leg \in Leg /\ plan.size \in Int /\ Reduction(plan) \in Int
    BY DEF Typed, Reduction
  <2>3. /\ order'.leg = plan.leg /\ order'.size = Reduction(plan)
        /\ order' \in [leg : Leg, size : Int]
    BY <2>1, <2>2
  <2>4. Typed' /\ InBounds' /\ AtMostOneWorks'
    BY <1>1, <2>1, <2>3 DEF Typed, InBounds, Apart, AtMostOneWorks, Quiet, Watching
  <2>5. PlanFits(expected)'
    BY <1>1, <1>2, <2>1 DEF PlanFits
  <2>6. OrderFits(expected)'
    BY <1>1, <1>2, <1>4, <2>1, <2>2, <2>3 DEF PlanFits, OrderFits, Reduction
  <2>7. AccountFits' /\ FirstProcess'
    BY <1>1, <2>1, <2>5, <2>6 DEF AccountFits, FirstProcess, Watching, Standing, Apart
  <2> QED  BY <2>4, <2>7
<1> QED  BY <1>3, <1>4

LEMMA RefuseKeeps == IInv /\ (RefuseEntry \/ RefuseReduction \/ Disturbed) => IInv'
<1> SUFFICES ASSUME IInv, RefuseEntry \/ RefuseReduction \/ Disturbed PROVE IInv'
  OBVIOUS
<1>1. pc = "REFRESH" /\ UNCHANGED <<working, pos, starts>>
  BY DEF RefuseEntry, RefuseReduction, Disturbed
<1>2. working = Flat /\ (starts = 1 => Apart = 0 /\ plan.kind # "TRIM")
  BY <1>1 DEF IInv, AtMostOneWorks, Quiet, FirstProcess
<1>3. CASE RefuseEntry
  BY <1>2, <1>3, ReturnKeeps DEF RefuseEntry
<1>4. CASE RefuseReduction
  <2>1. Typed' /\ pc' = "HEDGE" /\ plan' = plan
    BY <1>1, <1>4, GoToHedgeTyped DEF RefuseReduction, GoToHedge, IInv
  <2> QED  BY <1>1, <1>2, <2>1, HedgeNextKeeps
<1>5. CASE Disturbed
  BY <1>5, StopInPlace DEF Disturbed
<1> QED  BY <1>3, <1>4, <1>5

LEMMA VerifyKeeps == ASSUME IInv, NEW same \in BOOLEAN, Verify(same) PROVE IInv'
<1>1. pc = "VERIFY" /\ UNCHANGED <<working, pos, starts>>
  BY DEF Verify
<1>2. working = Flat /\ (starts = 1 => Apart = 0 /\ plan.kind # "TRIM")
  BY <1>1 DEF IInv, AtMostOneWorks, Quiet, FirstProcess
<1>3. CASE pc' \in {"POST", "REFRESH"} /\ UNCHANGED <<plan, job, order, filled, expected, pending, pair>>
  <2>1. Typed' /\ InBounds' /\ AtMostOneWorks'
    BY <1>1, <1>2, <1>3 DEF IInv, Typed, InBounds, Apart, AtMostOneWorks, Quiet, Watching
  <2>2. /\ PlanFits(expected)' <=> PlanFits(expected)
        /\ OrderFits(expected)' <=> OrderFits(expected)
    BY <1>3 DEF PlanFits, OrderFits, PairStands, Missing, Second, Entering, RepairSide
  <2>3. AccountFits' /\ FirstProcess'
    BY <1>1, <1>2, <1>3, <2>2 DEF IInv, AccountFits, FirstProcess, Watching, Standing, Apart
  <2> QED  BY <2>1, <2>3 DEF IInv
<1>4. CASE GoToHedge /\ UNCHANGED <<plan, expected, pair>>
  <2>1. Typed' /\ pc' = "HEDGE" /\ plan' = plan
    BY <1>1, <1>4, GoToHedgeTyped DEF GoToHedge, IInv
  <2> QED  BY <1>1, <1>2, <2>1, HedgeNextKeeps
<1>5. CASE Return
  BY <1>1, <1>2, <1>5, ReturnKeeps
<1> QED  BY <1>3, <1>4, <1>5 DEF Verify

(***************************************************************************)
(* The life of an order.                                                   *)
(***************************************************************************)
LEMMA OrderSame ==
  ASSUME UNCHANGED <<plan, job, order, expected, pair>>
  PROVE  OrderFits(expected)' <=> OrderFits(expected)
BY DEF OrderFits, PairStands, Missing, Second, Entering, RepairSide

LEMMA OneOrderWorks ==
  ASSUME Typed, working = Flat, working' = [working EXCEPT ![order.leg] = order.size]
  PROVE  /\ \A l \in Leg \ {order.leg} : working'[l] = 0
         /\ \A l, k \in Leg : working'[l] # 0 /\ working'[k] # 0 => l = k
         /\ working'[order.leg] = order.size
<1>1. order.leg \in Leg /\ \A l \in Leg : working[l] = 0
  BY DEF Typed, Flat
<1> QED  BY <1>1 DEF Typed

LEMMA PostKeeps == IInv /\ Post => IInv'
<1> SUFFICES ASSUME IInv, Post PROVE IInv'
  OBVIOUS
<1> USE DEF IInv
<1>1. /\ pc = "POST" /\ pc' = "POLL" /\ filled' = 0
      /\ working' = [working EXCEPT ![order.leg] = order.size]
      /\ UNCHANGED <<plan, job, order, pos, expected, pending, pair, starts>>
  BY DEF Post
<1>2. pos = expected /\ OrderFits(expected) /\ working = Flat
  BY <1>1 DEF AccountFits, AtMostOneWorks, Quiet
<1>3. InBounds' /\ working' \in [Leg -> Int]
  BY <1>1, <1>2, OrderStaysInBounds
<1>4. Typed'
  BY <1>1, <1>3 DEF Typed
<1>5. AtMostOneWorks'
  BY <1>1, <1>2, OneOrderWorks DEF AtMostOneWorks, Quiet, Watching
<1>6. Followed'
  <2>1. order.leg \in Leg /\ order.size \in Int /\ expected[order.leg] \in Int
    BY DEF Typed
  <2>2. Signed' = 0
    BY <1>1, <2>1 DEF Signed, Sign
  <2>3. pos' = [expected' EXCEPT ![order'.leg] = @ + Signed']
    BY <1>1, <1>2, <2>1, <2>2 DEF Typed
  <2>4. working'[order.leg] = order.size
    BY <1>1, <1>2, OneOrderWorks
  <2> QED  BY <1>1, <2>1, <2>3, <2>4 DEF Followed
<1>7. AccountFits'
  BY <1>1, <1>2, <1>6, OrderSame DEF AccountFits, Watching, Standing
<1>8. FirstProcess'
  BY <1>1 DEF FirstProcess, Apart, Watching
<1> QED  BY <1>3, <1>4, <1>5, <1>7, <1>8

LEMMA PostRaisesKeeps == IInv /\ PostRaises => IInv'
<1> SUFFICES ASSUME IInv, PostRaises PROVE IInv'
  OBVIOUS
<1>1. pc = "POST" /\ Stop /\ UNCHANGED <<pos, starts>>
  BY DEF PostRaises
<1>2. CASE UNCHANGED working
  BY <1>1, <1>2, StopInPlace
<1>3. CASE working' = [working EXCEPT ![order.leg] = order.size]
  <2>1. pos = expected /\ OrderFits(expected) /\ working = Flat /\ Typed
    BY <1>1 DEF IInv, AccountFits, AtMostOneWorks, Quiet
  <2>2. InBounds' /\ working' \in [Leg -> Int] /\ pos' \in [Leg -> Int]
    BY <1>1, <1>3, <2>1, OrderStaysInBounds DEF IInv, Typed
  <2> QED  BY <1>1, <1>3, <2>1, <2>2, OneOrderWorks, StopKeeps
<1> QED  BY <1>2, <1>3 DEF PostRaises

(* A look at an order that has ended; one that has not is stopped at.      *)
LEMMA WatchKeeps ==
  ASSUME IInv, pc \in Watching, pc' \in {"CONFIRM", "RECHECK"},
         UNCHANGED <<plan, job, order, filled, pos, expected, pending, pair, starts>>,
         \/ pc' = "RECHECK" /\ working' = working
         \/ pc' = "RECHECK" /\ working' = [working EXCEPT ![order.leg] = 0]
         \/ working' = working /\ working[order.leg] = 0
  PROVE  IInv'
<1> USE DEF IInv
<1>1. order.leg \in Leg /\ order.size \in Int /\ filled \in Nat /\ working[order.leg] \in Int
  BY DEF Typed
<1>2. InBounds' /\ working' \in [Leg -> Int]
  <2>1. CASE working' = working
    BY <2>1 DEF Typed, InBounds, Apart
  <2>2. CASE working' = [working EXCEPT ![order.leg] = 0]
    BY <1>1, <2>2, DropStaysInBounds
  <2> QED  BY <2>1, <2>2
<1>3. Typed'
  BY <1>2 DEF Typed
<1>4. \A l \in Leg : working'[l] = working[l] \/ working'[l] = 0
  BY DEF Typed
<1>5. AtMostOneWorks'
  <2>1. \A l \in Leg \ {order.leg} : working[l] = 0 /\ working'[l] = 0
    BY <1>4 DEF AtMostOneWorks
  <2>2. pc' = "CONFIRM" => working' = Flat
    BY <1>1, <2>1 DEF Flat, Typed
  <2> QED  BY <1>4, <2>1, <2>2 DEF AtMostOneWorks, Quiet, Watching
<1>6. Followed /\ OrderFits(expected)
  BY DEF AccountFits
<1>7. Followed'
  <2>1. working'[order.leg] = working[order.leg] \/ working'[order.leg] = 0
    BY <1>1, <1>4
  <2> QED  BY <1>1, <1>6, <2>1 DEF Followed, Signed, Sign
<1>8. AccountFits'
  BY <1>6, <1>7, OrderSame DEF AccountFits, Watching, Standing
<1>9. FirstProcess'
  BY DEF FirstProcess, Apart, Watching
<1> QED  BY <1>2, <1>3, <1>5, <1>8, <1>9

LEMMA LookKeeps == IInv /\ (Poll \/ Recheck \/ \E works \in BOOLEAN : TimeOut(works)) => IInv'
<1>1. IInv /\ Poll => IInv'
  BY WatchKeeps DEF Poll, Watching
<1>2. ASSUME IInv, Recheck PROVE IInv'
  <2>1. CASE working[order.leg] = 0
    BY <1>2, <2>1, WatchKeeps DEF Recheck, Watching
  <2>2. CASE working[order.leg] # 0
    BY <1>2, <2>2, StopInPlace DEF Recheck
  <2> QED  BY <2>1, <2>2
<1>3. ASSUME IInv, NEW works \in BOOLEAN, TimeOut(works) PROVE IInv'
  BY <1>3, WatchKeeps DEF TimeOut, Watching
<1> QED  BY <1>1, <1>2, <1>3

(***************************************************************************)
(* A confirmed order.                                                      *)
(***************************************************************************)
(* What a confirmed order has done: its fills, in its leg alone.           *)
LEMMA ConfirmedFill ==
  ASSUME IInv, pc = "CONFIRM"
  PROVE  /\ working = Flat /\ OrderFits(expected) /\ filled \in Nat
         /\ order.leg \in Leg /\ order.size \in Int
         /\ pos[order.leg] = expected[order.leg] + Signed
         /\ \A l \in Leg \ {order.leg} : pos[l] = expected[l]
         /\ IF order.size < 0 THEN filled <= -order.size /\ Signed = -filled
                              ELSE filled <= order.size /\ Signed = filled
<1> USE DEF IInv
<1>1. Followed /\ OrderFits(expected) /\ working = Flat
  BY DEF AccountFits, AtMostOneWorks, Quiet
<1>2. order.leg \in Leg /\ order.size \in Int /\ filled \in Nat /\ working[order.leg] = 0
  BY <1>1 DEF Typed, Flat
<1>3. IF order.size < 0 THEN filled <= -order.size /\ Signed = -filled
                        ELSE filled <= order.size /\ Signed = filled
  BY <1>1, <1>2 DEF Followed, Signed, Sign
<1>4. pos[order.leg] = expected[order.leg] + Signed
      /\ \A l \in Leg \ {order.leg} : pos[l] = expected[l]
  BY <1>1, <1>2 DEF Followed, Typed
<1> QED  BY <1>1, <1>2, <1>3, <1>4

(* A rollback is booked in two fields at once.                             *)
Book == [first : Int, second : Int, repair : Int]

LEMMA RepairField ==
  ASSUME NEW q \in Book, NEW n \in Int
  PROVE  /\ [q EXCEPT !.repair = n] \in Book /\ [q EXCEPT !.repair = n].repair = n
         /\ [q EXCEPT !.repair = n].first = q.first
         /\ [q EXCEPT !.repair = n].second = q.second
BY DEF Book

LEMMA RepairBook ==
  ASSUME Typed, job = "REPAIR"
  PROVE  /\ Booked \in Book /\ Booked.repair = pair.repair - filled
         /\ Booked.first - Booked.second = Missing - filled
<1> DEFINE a == [pair EXCEPT !.first = pair.first - filled]
           b == [pair EXCEPT !.second = pair.second + filled]
           r == [pair EXCEPT !.first = pair.first - filled, !.repair = pair.repair - filled]
           t == [pair EXCEPT !.second = pair.second + filled, !.repair = pair.repair - filled]
<1>1. pair \in Book /\ filled \in Int /\ pair.first \in Int /\ pair.second \in Int
      /\ pair.repair - filled \in Int
  BY DEF Typed, Book
<1>2. a \in Book /\ a.first = pair.first - filled /\ a.second = pair.second
  BY <1>1 DEF Book
<1>3. b \in Book /\ b.first = pair.first /\ b.second = pair.second + filled
  BY <1>1 DEF Book
<1>4. /\ r = [a EXCEPT !.repair = pair.repair - filled]
      /\ t = [b EXCEPT !.repair = pair.repair - filled]
  OBVIOUS
<1>5. Booked = IF Entering THEN r ELSE t
  BY DEF Booked
<1> HIDE DEF a, b, r, t
<1>6. /\ r \in Book /\ r.repair = pair.repair - filled
      /\ r.first = pair.first - filled /\ r.second = pair.second
  BY <1>1, <1>2, <1>4, RepairField
<1>7. /\ t \in Book /\ t.repair = pair.repair - filled
      /\ t.first = pair.first /\ t.second = pair.second + filled
  BY <1>1, <1>3, <1>4, RepairField
<1>8. CASE Entering
  BY <1>1, <1>5, <1>6, <1>8 DEF Missing
<1>9. CASE ~Entering
  BY <1>1, <1>5, <1>7, <1>9 DEF Missing
<1> QED  BY <1>8, <1>9

(* The book of the pair moves with the account.                            *)
LEMMA BookMoves ==
  ASSUME IInv, pc = "CONFIRM", job \in {"FIRST", "SECOND", "REPAIR"},
         pair' = Booked, UNCHANGED <<plan, pos>>
  PROVE  /\ PairStands(pos)'
         /\ job = "REPAIR" => pair'.repair = Missing'
<1> USE DEF IInv
<1>1. /\ OrderFits(expected) /\ filled \in Nat /\ order.leg \in Leg /\ order.size \in Int
      /\ pos[order.leg] = expected[order.leg] + Signed
      /\ \A l \in Leg \ {order.leg} : pos[l] = expected[l]
      /\ IF order.size < 0 THEN filled <= -order.size /\ Signed = -filled
                           ELSE filled <= order.size /\ Signed = filled
  BY ConfirmedFill
<1>2. /\ pair \in [first : Int, second : Int, repair : Int] /\ Batch \in Nat
      /\ \A l \in Leg : pos[l] \in Int /\ expected[l] \in Int
  BY BrokerAssumption DEF Typed
<1>3. CASE job = "FIRST"
  <2>1. /\ expected["CALL"] = expected["PUT"] /\ plan.leg \in Option /\ order.leg = plan.leg
        /\ \/ plan.kind = "ENTRY" /\ order.size \in 1..Batch
           \/ plan.kind = "EXIT" /\ -order.size \in 1..Batch
    BY <1>1, <1>3 DEF OrderFits
  <2>2. NoPair \in [first : Int, second : Int, repair : Int] /\ NoPair.second = 0
    BY DEF NoPair
  <2>3. pair' = [NoPair EXCEPT !.first = filled]
    BY <1>3 DEF Booked
  <2>4. Missing' = filled
    BY <1>1, <2>2, <2>3 DEF Missing
  <2>5. /\ Second \in Option /\ Second # plan.leg /\ expected[Second] = expected[plan.leg]
    BY <2>1, OtherIs DEF Second, Other, Option
  <2>6. /\ pos[Second] = expected[plan.leg] /\ pos[plan.leg] = expected[plan.leg] + Signed
    BY <1>1, <2>1, <2>5, LegIs
  <2>7. expected[plan.leg] \in Int
    BY <1>2, <2>1, LegIs
  <2>8. 0 <= filled /\ filled <= Batch
    BY <1>1, <1>2, <2>1
  <2>9. /\ plan.kind = "ENTRY" => pos[plan.leg] - pos[Second] = filled
        /\ plan.kind = "EXIT" => pos[Second] - pos[plan.leg] = filled
    BY <1>1, <1>2, <2>1, <2>6, <2>7
  <2> QED  BY <1>3, <2>1, <2>4, <2>8, <2>9 DEF PairStands, Second
<1>4. CASE job = "SECOND"
  <2>1. /\ PairStands(expected) /\ order.leg = Second
        /\ order.size = IF Entering THEN Missing ELSE -Missing
    BY <1>1, <1>4 DEF OrderFits
  <2>2. Missing \in Int
    BY <1>2 DEF Missing
  <2>3. pair' = [pair EXCEPT !.second = @ + filled]
    BY <1>4 DEF Booked
  <2>4. Missing' = Missing - filled
    BY <1>1, <1>2, <2>3 DEF Missing
  <2>5. plan.leg \in Option /\ Second \in Option /\ Second # plan.leg
    BY <2>1, OtherIs DEF PairStands, Second
  <2>6. pos[Second] = expected[Second] + Signed /\ pos[plan.leg] = expected[plan.leg]
        /\ expected[Second] \in Int /\ expected[plan.leg] \in Int
    BY <1>1, <1>2, <2>1, <2>5, LegIs
  <2>7. 0 <= Missing - filled /\ Missing - filled <= Batch
    BY <1>1, <1>2, <2>1, <2>2 DEF PairStands, Entering
  <2>8. /\ plan.kind = "ENTRY" => pos[plan.leg] - pos[Second] = Missing - filled
        /\ plan.kind = "EXIT" => pos[Second] - pos[plan.leg] = Missing - filled
    <3>1. CASE plan.kind = "ENTRY"
      BY <1>1, <2>1, <2>2, <2>6, <3>1 DEF PairStands, Entering
    <3>2. CASE plan.kind = "EXIT"
      <4>1. Signed = -filled
        BY <1>1, <2>1, <2>2, <3>2 DEF PairStands, Entering
      <4> QED  BY <1>1, <2>1, <2>2, <2>6, <3>2, <4>1 DEF PairStands
    <3> QED  BY <3>1, <3>2
  <2> QED  BY <1>4, <2>1, <2>4, <2>7, <2>8 DEF PairStands, Second
<1>5. CASE job = "REPAIR"
  <2>1. /\ PairStands(expected) /\ order.leg = RepairSide.leg /\ order.size = -Missing
        /\ pair.repair = Missing
    BY <1>1, <1>5 DEF OrderFits
  <2>2. Missing \in Int
    BY <1>2 DEF Missing
  <2>3. Missing' = Missing - filled /\ pair'.repair = pair.repair - filled
    <3>1. Missing' = pair'.first - pair'.second
      BY DEF Missing
    <3> QED  BY <1>5, <3>1, RepairBook
  <2>4. plan.leg \in Option /\ Second \in Option /\ Second # plan.leg
        /\ expected[Second] \in Int /\ expected[plan.leg] \in Int
    BY <1>2, <2>1, OtherIs, LegIs DEF PairStands, Second
  <2>5. 0 <= Missing - filled /\ Missing - filled <= Batch /\ Signed = -filled
    BY <1>1, <1>2, <2>1, <2>2 DEF PairStands
  <2>6. CASE plan.kind = "ENTRY"
    <3>1. order.leg = plan.leg
      BY <2>1, <2>6 DEF RepairSide, Entering
    <3>2. pos[plan.leg] = expected[plan.leg] + Signed /\ pos[Second] = expected[Second]
      BY <1>1, <2>4, <3>1, LegIs
    <3>3. pos[plan.leg] - pos[Second] = Missing - filled
      BY <1>1, <2>1, <2>2, <2>4, <2>5, <2>6, <3>2 DEF PairStands
    <3> QED  BY <2>1, <2>3, <2>5, <2>6, <3>3 DEF PairStands, Second
  <2>7. CASE plan.kind = "EXIT"
    <3>1. order.leg = Second
      BY <2>1, <2>7 DEF RepairSide, Entering
    <3>2. pos[Second] = expected[Second] + Signed /\ pos[plan.leg] = expected[plan.leg]
      BY <1>1, <2>4, <3>1, LegIs
    <3>3. pos[Second] - pos[plan.leg] = Missing - filled
      BY <1>1, <2>1, <2>2, <2>4, <2>5, <2>7, <3>2 DEF PairStands
    <3> QED  BY <2>1, <2>3, <2>5, <2>7, <3>3 DEF PairStands, Second
  <2> QED  BY <2>1, <2>6, <2>7 DEF PairStands
<1> QED  BY <1>3, <1>4, <1>5

LEMMA BookedTyped == ASSUME Typed PROVE Booked \in Book
<1>1. NoPair \in Book
  BY DEF NoPair, Book
<1>2. pair \in Book /\ filled \in Int
  BY DEF Typed, Book
<1>3. [NoPair EXCEPT !.first = filled] \in Book
  BY <1>1, <1>2 DEF Book
<1>4. [pair EXCEPT !.second = @ + filled] \in Book
  BY <1>2 DEF Book
<1>5. CASE job = "REPAIR"
  BY <1>5, RepairBook
<1>6. CASE job # "REPAIR"
  BY <1>2, <1>3, <1>4, <1>6 DEF Booked
<1> QED  BY <1>5, <1>6

LEMMA ConfirmKeeps == IInv /\ Confirm => IInv'
<1> SUFFICES ASSUME IInv, Confirm PROVE IInv'
  OBVIOUS
<1>1. pc = "CONFIRM" /\ UNCHANGED <<working, pos, starts>>
  BY DEF Confirm
<1>2. /\ working = Flat /\ OrderFits(expected) /\ filled \in Nat
      /\ order.leg \in Leg /\ order.size \in Int
      /\ pos[order.leg] = expected[order.leg] + Signed
      /\ \A l \in Leg \ {order.leg} : pos[l] = expected[l]
      /\ IF order.size < 0 THEN filled <= -order.size /\ Signed = -filled
                           ELSE filled <= order.size /\ Signed = filled
  BY <1>1, ConfirmedFill
<1>3. job \in {"FIRST", "SECOND", "REPAIR", "SINGLE", "HEDGE"}
  BY <1>2 DEF OrderFits
<1>4. starts = 1 /\ job \in {"SINGLE", "HEDGE"} => Apart = 0 /\ plan.kind # "TRIM"
  BY <1>1 DEF IInv, FirstProcess, Watching
<1>5. CASE Return /\ filled = 0 /\ job = "FIRST"
  <2>1. expected["CALL"] = expected["PUT"] /\ \A l \in Leg : expected[l] \in Int
    BY <1>2, <1>5 DEF OrderFits, IInv, Typed
  <2>2. Signed = 0
    BY <1>2, <1>5
  <2>3. pos["CALL"] = expected["CALL"] /\ pos["PUT"] = expected["PUT"]
    BY <1>2, <2>1, <2>2, LegIs
  <2>4. Apart = 0
    BY <2>1, <2>3, LegIs DEF Apart
  <2> QED  BY <1>1, <1>2, <1>5, <2>4, ReturnKeeps
<1>6. CASE Return /\ job = "HEDGE"
  BY <1>1, <1>2, <1>4, <1>6, ReturnKeeps
<1>7. CASE /\ pc' = AfterOrder /\ pair' = Booked /\ UNCHANGED plan
           /\ expected' = [expected EXCEPT ![order.leg] = @ + Signed]
           /\ job' = "NONE" /\ order' = NoOrder /\ filled' = 0
  <2>1. Typed'
    <3>1. NoOrder \in [leg : Leg, size : Int]
      BY DEF NoOrder, Leg, Option
    <3>2. Signed \in Int
      BY <1>2
    <3>3. expected' \in [Leg -> Int]
      BY <1>2, <1>7, <3>2 DEF IInv, Typed
    <3> QED  BY <1>1, <1>7, <3>1, <3>3, BookedTyped DEF IInv, Typed, Book
  <2>2. CASE job \in {"FIRST", "SECOND", "REPAIR"}
    <3>1. PairStands(pos)' /\ (job = "REPAIR" => pair'.repair = Missing')
      BY <1>1, <1>7, <2>2, BookMoves
    <3>2. pc' = IF job = "REPAIR" THEN "REPAIR" ELSE "COMPLETE"
      BY <1>7, <2>2 DEF AfterOrder
    <3>3. AtMostOneWorks' /\ InBounds'
      BY <1>1, <1>2, <3>2 DEF IInv, AtMostOneWorks, InBounds, Apart, Watching
    <3>4. AccountFits' /\ FirstProcess'
      BY <1>1, <1>7, <3>1, <3>2 DEF IInv, AccountFits, FirstProcess, Watching, Standing
    <3> QED  BY <2>1, <3>3, <3>4 DEF IInv
  <2>3. CASE job \in {"SINGLE", "HEDGE"}
    <3>1. pc' = "HEDGE"
      BY <1>7, <2>3 DEF AfterOrder
    <3> QED  BY <1>1, <1>2, <1>4, <1>7, <2>1, <2>3, <3>1, HedgeNextKeeps
  <2> QED  BY <1>3, <2>2, <2>3
<1>8. CASE Stop
  BY <1>1, <1>8, StopInPlace
<1> QED  BY <1>5, <1>6, <1>7, <1>8 DEF Confirm

(***************************************************************************)
(* The pair, and the hedge after it.                                       *)
(***************************************************************************)
(* An order that fits the account is the next to be sent.                  *)
LEMMA NextOrderKeeps ==
  ASSUME IInv, working = Flat, pc' = "POST", UNCHANGED <<working, pos, starts>>, Typed',
         pos = expected', OrderFits(pos)',
         starts = 1 => plan'.kind # "TRIM" /\ (job' \in {"SINGLE", "HEDGE"} => Apart = 0)
  PROVE  IInv'
<1>1. AtMostOneWorks' /\ InBounds'
  BY DEF IInv, AtMostOneWorks, InBounds, Apart, Watching
<1>2. pos' = expected'
  OBVIOUS
<1>3. OrderFits(expected)'
  BY <1>2 DEF OrderFits, PairStands
<1>4. AccountFits' /\ FirstProcess'
  BY <1>2, <1>3 DEF AccountFits, FirstProcess, Watching, Standing, Apart
<1> QED  BY <1>1, <1>4 DEF IInv

LEMMA CompleteKeeps == IInv /\ Complete => IInv'
<1> SUFFICES ASSUME IInv, Complete PROVE IInv'
  OBVIOUS
<1>1. pc = "COMPLETE" /\ UNCHANGED <<working, pos, starts>>
  BY DEF Complete
<1>2. working = Flat /\ PairStands(pos)
  BY <1>1 DEF IInv, AtMostOneWorks, Quiet, AccountFits, Standing
<1>3. CASE Stop
  BY <1>1, <1>3, StopInPlace
<1>4. CASE Proceed("SETTLE")
  <2>1. pc' = "SETTLE" /\ UNCHANGED <<plan, job, order, filled, expected, pending, pair>>
    BY <1>4 DEF Proceed
  <2>2. Typed' /\ InBounds' /\ AtMostOneWorks'
    BY <1>1, <1>2, <2>1 DEF IInv, Typed, InBounds, Apart, AtMostOneWorks, Watching
  <2>3. PairStands(pos)'
    BY <1>1, <1>2, <2>1 DEF PairStands, Missing, Second
  <2>4. AccountFits' /\ FirstProcess'
    BY <1>1, <2>1, <2>3 DEF IInv, AccountFits, FirstProcess, Watching, Standing
  <2> QED  BY <2>2, <2>4 DEF IInv
<1>5. CASE /\ Checked /\ Missing # 0 /\ UNCHANGED pair
           /\ Place("SECOND", Second, IF Entering THEN Missing ELSE -Missing)
  <2>1. /\ pc' = "POST" /\ job' = "SECOND" /\ UNCHANGED <<plan, filled, expected, pair>>
        /\ order' = [leg |-> Second, size |-> IF Entering THEN Missing ELSE -Missing]
        /\ pos = expected
    BY <1>5 DEF Place, Checked
  <2>2. Second \in Leg /\ Missing \in Int
    BY <1>2, OtherIs, LegIs DEF PairStands, Second, IInv, Typed, Missing
  <2>3. /\ order'.leg = Second /\ order'.size = (IF Entering THEN Missing ELSE -Missing)
        /\ order' \in [leg : Leg, size : Int]
    BY <2>1, <2>2
  <2>4. Typed'
    BY <1>1, <2>1, <2>3 DEF IInv, Typed
  <2>5. /\ Missing' = Missing /\ Second' = Second /\ (Entering' <=> Entering)
    BY <2>1 DEF Missing, Second, Entering
  <2>6. PairStands(pos)'
    BY <1>1, <1>2, <2>1 DEF PairStands, Missing, Second
  <2>7. OrderFits(pos)'
    BY <1>5, <2>1, <2>3, <2>5, <2>6 DEF OrderFits
  <2>8. plan.kind # "TRIM"
    BY <1>2 DEF PairStands
  <2> QED  BY <1>1, <1>2, <2>1, <2>4, <2>7, <2>8, NextOrderKeeps
<1> QED  BY <1>3, <1>4, <1>5 DEF Complete

(* What is missing of the pair is sold again, or nothing is missing.       *)
LEMMA RepairedKeeps ==
  ASSUME IInv, pc \in {"SETTLE", "REPAIR"}, UNCHANGED <<working, pos, starts>>, Checked,
         NEW attempt, Repaired(Missing, attempt)
  PROVE  IInv'
<1>1. working = Flat /\ PairStands(pos) /\ pos = expected
  BY DEF IInv, AtMostOneWorks, Quiet, AccountFits, Standing, Checked
<1>2. Missing \in Int /\ plan.leg \in Option /\ Second \in Option /\ plan.kind \in {"ENTRY", "EXIT"}
  BY <1>1, OtherIs DEF PairStands, Second, IInv, Typed, Missing
<1>3. CASE Missing = 0
  <2>1. GoToHedge /\ pair' = NoPair /\ UNCHANGED <<plan, expected>>
    BY <1>3 DEF Repaired
  <2>2. NoPair \in [first : Int, second : Int, repair : Int] /\ NoOrder \in [leg : Leg, size : Int]
    BY DEF NoPair, NoOrder, Leg, Option
  <2>3. Typed' /\ pc' = "HEDGE"
    BY <2>1, <2>2 DEF IInv, Typed, GoToHedge
  <2>4. Apart = 0
    <3>1. pos["CALL"] \in Int /\ pos["PUT"] \in Int
      BY LegIs DEF IInv, Typed
    <3> QED  BY <1>1, <1>2, <1>3, <3>1 DEF PairStands, Apart, Second, Other, Option
  <2> QED  BY <1>1, <1>2, <2>1, <2>3, <2>4, HedgeNextKeeps
<1>4. CASE Missing # 0 /\ Stop
  BY <1>4, StopInPlace
<1>5. CASE /\ Missing # 0 /\ Place("REPAIR", RepairSide.leg, RepairSide.sign * Missing)
           /\ pair' = [pair EXCEPT !.repair = Missing]
  <2>1. /\ pc' = "POST" /\ job' = "REPAIR" /\ UNCHANGED <<plan, filled, expected>>
        /\ order' = [leg |-> RepairSide.leg, size |-> RepairSide.sign * Missing]
    BY <1>5 DEF Place
  <2>2. RepairSide.leg \in Leg /\ RepairSide.sign * Missing = -Missing
    BY <1>2, LegIs DEF RepairSide
  <2>3. order'.leg = RepairSide.leg /\ order'.size = -Missing /\ order' \in [leg : Leg, size : Int]
    BY <1>2, <2>1, <2>2
  <2>4. /\ pair' \in Book /\ pair'.repair = Missing
        /\ pair'.first = pair.first /\ pair'.second = pair.second
    BY <1>2, <1>5, RepairField DEF IInv, Typed, Book
  <2>5. Typed'
    BY <2>1, <2>3, <2>4 DEF IInv, Typed, Book
  <2>6. Missing' = Missing /\ RepairSide' = RepairSide
    BY <2>1, <2>4 DEF Missing, RepairSide, Entering, Second
  <2>7. PairStands(pos)'
    BY <1>1, <2>1, <2>6 DEF PairStands, Second
  <2>8. OrderFits(pos)'
    BY <1>5, <2>1, <2>3, <2>4, <2>6, <2>7 DEF OrderFits
  <2> QED  BY <1>1, <1>2, <2>1, <2>5, <2>8, NextOrderKeeps
<1> QED  BY <1>3, <1>4, <1>5 DEF Repaired

LEMMA PairKeeps == IInv /\ (Settle \/ Repair) => IInv'
<1> SUFFICES ASSUME IInv, Settle \/ Repair PROVE IInv'
  OBVIOUS
<1>1. UNCHANGED <<working, pos, starts>>
  BY DEF Settle, Repair
<1>2. CASE Stop
  BY <1>1, <1>2, StopInPlace
<1>3. CASE Settle /\ Checked
  BY <1>1, <1>3, RepairedKeeps DEF Settle
<1>4. CASE Repair /\ Checked
  <2>1. pc = "REPAIR" /\ pair.repair = Missing
    BY <1>4 DEF Repair, IInv, AccountFits
  <2> QED  BY <1>1, <1>4, <2>1, RepairedKeeps DEF Repair
<1> QED  BY <1>2, <1>3, <1>4 DEF Settle, Repair

LEMMA HedgeAfterBatchKeeps == IInv /\ HedgeAfterBatch => IInv'
<1> SUFFICES ASSUME IInv, HedgeAfterBatch PROVE IInv'
  OBVIOUS
<1>1. pc = "HEDGE" /\ UNCHANGED <<working, pos, starts>>
  BY DEF HedgeAfterBatch
<1>2. working = Flat /\ (starts = 1 => Apart = 0 /\ plan.kind # "TRIM")
  BY <1>1 DEF IInv, AtMostOneWorks, Quiet, FirstProcess
<1>3. CASE Return
  BY <1>1, <1>2, <1>3, ReturnKeeps
<1>4. CASE pc' = "HEDGE" /\ UNCHANGED <<plan, job, order, filled, expected, pair>>
  <2>1. Typed'
    BY <1>1, <1>4 DEF IInv, Typed
  <2> QED  BY <1>1, <1>2, <1>4, <2>1, HedgeNextKeeps
<1>5. CASE /\ expected' = pos /\ UNCHANGED <<plan, filled, pair>>
           /\ \E h \in Hedges :
                pc' = "POST" /\ job' = "HEDGE" /\ order' = [leg |-> "RTM", size |-> h]
  <2>1. PICK h \in Hedges :
          pc' = "POST" /\ job' = "HEDGE" /\ order' = [leg |-> "RTM", size |-> h]
    BY <1>5
  <2>2. h \in Int /\ h # 0 /\ pos["RTM"] + h \in 0..MaxHedge
    BY BrokerAssumption, LegIs DEF Hedges, IInv, Typed
  <2>3. order'.leg = "RTM" /\ order'.size = h /\ order' \in [leg : Leg, size : Int]
    BY <2>1, <2>2, LegIs
  <2>4. Typed'
    BY <1>1, <1>5, <2>3 DEF IInv, Typed
  <2>5. OrderFits(pos)'
    BY <1>1, <2>1, <2>2, <2>3 DEF OrderFits
  <2> QED  BY <1>1, <1>2, <1>5, <2>1, <2>4, <2>5, NextOrderKeeps
<1> QED  BY <1>3, <1>4, <1>5 DEF HedgeAfterBatch

(***************************************************************************)
(* The theorems.                                                           *)
(***************************************************************************)
LEMMA InvInit == Init => IInv
<1> SUFFICES ASSUME Init PROVE IInv
  OBVIOUS
<1>1. \A l \in Leg : pos[l] = 0 /\ working[l] = 0
  BY DEF Init, Flat
<1>2. Typed
  <2>1. NoPlan \in [kind : {"NONE", "ENTRY", "EXIT", "TRIM", "HEDGE"}, leg : Leg, size : Int]
    BY DEF NoPlan, Leg, Option
  <2>2. NoOrder \in [leg : Leg, size : Int] /\ Flat \in [Leg -> Int]
    BY DEF NoOrder, Flat, Leg, Option
  <2>3. NoPair \in [first : Int, second : Int, repair : Int]
    BY DEF NoPair
  <2> QED  BY <2>1, <2>2, <2>3 DEF Init, Typed
<1>3. AtMostOneWorks
  BY <1>1 DEF Init, AtMostOneWorks, Watching
<1>4. InBounds
  BY <1>1, LegIs, BrokerAssumption DEF InBounds, Apart
<1>5. AccountFits
  BY DEF Init, AccountFits, Watching, Standing
<1>6. FirstProcess
  <2>1. Apart = 0
    BY <1>1, LegIs DEF Apart
  <2>2. plan.kind = "NONE"
    BY DEF Init, NoPlan
  <2> QED  BY <2>1, <2>2 DEF Init, FirstProcess, Watching
<1> QED  BY <1>2, <1>3, <1>4, <1>5, <1>6 DEF IInv

LEMMA InvStep == IInv /\ [Next]_vars => IInv'
<1>1. IInv /\ Program => IInv'
  BY EvaluateKeeps, CheckOpenOrdersKeeps, RefreshKeeps, RefuseKeeps, VerifyKeeps, PostKeeps,
     PostRaisesKeeps, LookKeeps, ConfirmKeeps, CompleteKeeps, PairKeeps, HedgeAfterBatchKeeps
     DEF Program
<1>2. IInv /\ UNCHANGED vars => IInv'
  BY DEF vars, IInv, Typed, AtMostOneWorks, InBounds, Apart, AccountFits, PlanFits, OrderFits,
         PairStands, Missing, Second, Entering, RepairSide, Followed, Signed, FirstProcess
<1> QED  BY <1>1, <1>2, EnvironmentKeeps DEF Next

LEMMA InvHolds == Spec => []IInv
BY InvInit, InvStep, PTL DEF Spec

(* Whenever an order is sent, nothing else of the account works at the     *)
(* exchange: not the order before it, timed out and deleted, and not one   *)
(* of a process that stopped while it was polling.                         *)
THEOREM OrdersAreAlone == Spec => []OneOrderAtATime
<1>1. IInv => OneOrderAtATime
  BY DEF IInv, AtMostOneWorks, Quiet, OneOrderAtATime
<1> QED  BY <1>1, InvHolds, PTL

(* A process that has not stopped never returns to the strategy with the   *)
(* legs of a straddle apart, whatever was filled, refused or timed out.    *)
THEOREM LegsReturnMatched == Spec => []MatchedBetweenBatches
<1>1. IInv => MatchedBetweenBatches
  BY LegIs DEF IInv, Typed, FirstProcess, Apart, MatchedBetweenBatches
<1> QED  BY <1>1, InvHolds, PTL

(* Whatever of the working shares is filled, and however often the process *)
(* stops and is started again, the legs are at most one batch apart.       *)
THEOREM LegsAreWithinBatch == Spec => []UnmatchedWithinBatch
<1> SUFFICES ASSUME IInv PROVE UnmatchedWithinBatch
  BY InvHolds, PTL
<1>1. /\ pos["CALL"] \in Int /\ pos["PUT"] \in Int
      /\ working["CALL"] \in Int /\ working["PUT"] \in Int /\ Batch \in Nat
  BY BrokerAssumption, LegIs DEF IInv, Typed
<1>2. working["CALL"] = 0 \/ working["PUT"] = 0
  BY LegIs DEF IInv, AtMostOneWorks
<1>3. ASSUME NEW c \in Fillable("CALL"), NEW p \in Fillable("PUT")
      PROVE  Abs((pos["CALL"] + c) - (pos["PUT"] + p)) <= Batch
  <2>1. c \in {0, working["CALL"]} /\ p \in {0, working["PUT"]}
    BY DEF Fillable
  <2> QED  BY <1>1, <1>2, <2>1 DEF IInv, InBounds, Apart, Abs
<1> QED  BY <1>3 DEF UnmatchedWithinBatch

(* No fill, late ones included, turns an option position round or takes    *)
(* the hedge beyond its limit or to the other side.                        *)
THEOREM NothingIsReversed == Spec => []NoReversal
<1>1. IInv => NoReversal
  BY LegIs DEF IInv, Typed, InBounds, NoReversal
<1> QED  BY <1>1, InvHolds, PTL

(* Once the order of a pending pair is booked, the legs are as far apart   *)
(* in the account as in the book, and the repair is for all of it.         *)
THEOREM BookIsAccount == Spec => []PairBookMatchesAccount
<1> SUFFICES ASSUME IInv PROVE PairBookMatchesAccount
  BY InvHolds, PTL
<1>1. ASSUME pc \in Standing PROVE Abs(Unmatched) = Missing
  <2>1. PairStands(pos)
    BY <1>1 DEF IInv, AccountFits
  <2>2. pos["CALL"] \in Int /\ pos["PUT"] \in Int /\ Missing \in Int
    BY LegIs DEF IInv, Typed, Missing
  <2> QED  BY <2>1, <2>2 DEF PairStands, Second, Other, Option, Unmatched, Abs
<1> QED  BY <1>1 DEF PairBookMatchesAccount, IInv, AccountFits, Standing

(* The program is never anywhere else.                                     *)
PcKnown == pc \in Quiet \cup Watching \cup {"IDLE", "OPENCHECK", "STOPPED"}

LEMMA PcIsKnown == Spec => []PcKnown
<1> USE DEF PcKnown, Quiet, Watching
<1>1. Init => PcKnown
  BY DEF Init
<1>2. PcKnown /\ [Next]_vars => PcKnown'
  BY DEF vars, Next, Program, Environment, Evaluate, CheckOpenOrders, Refresh, RefuseEntry,
         RefuseReduction, Disturbed, Verify, Post, PostRaises, Poll, TimeOut, Recheck, Confirm,
         AfterOrder, Complete, Proceed, Place, Settle, Repair, Repaired, GoToHedge,
         HedgeAfterBatch, ExchangeFills, ExchangeDrops, CaseEnds, Abort, Restart, Stop, Return
<1> QED  BY <1>1, <1>2, PTL DEF Spec

(* A plan that reduces never buys options of the campaign back, in its     *)
(* first order, its completion, its repair or the hedge after it.          *)
THEOREM ReductionsOnlyReduce == Spec => ExitsOnlyReduce
<1> DEFINE Reduces == plan.kind \in {"EXIT", "TRIM"} /\ pc \notin {"OPENCHECK", "IDLE", "STOPPED"}
                        => \A l \in Option : pos'[l] <= pos[l]
<1>1. ASSUME Program PROVE pos' = pos
  BY <1>1 DEF Program, Evaluate, CheckOpenOrders, Refresh, RefuseEntry, RefuseReduction, Disturbed,
              Verify, Post, PostRaises, Poll, TimeOut, Recheck, Confirm, Complete, Settle, Repair,
              HedgeAfterBatch
<1>2. ASSUME CaseEnds \/ Abort \/ Restart \/ \E l \in Leg : ExchangeDrops(l) PROVE pos' = pos
  BY <1>2 DEF CaseEnds, Abort, Restart, ExchangeDrops, Stop
<1>3. ASSUME IInv, pos' = pos PROVE Reduces
  BY <1>3, LegIs DEF IInv, Typed
<1>4. ASSUME IInv, PcKnown, NEW l \in Leg, ExchangeFills(l) PROVE Reduces
  <2>1. SUFFICES ASSUME plan.kind \in {"EXIT", "TRIM"}, pc \notin {"OPENCHECK", "IDLE", "STOPPED"},
                        NEW k \in Option
                 PROVE  pos'[k] <= pos[k]
    OBVIOUS
  <2>2. working[l] # 0 /\ pos' = [pos EXCEPT ![l] = @ + Sign(working[l])]
    BY <1>4 DEF ExchangeFills
  <2>3. pos \in [Leg -> Int] /\ working[l] \in Int /\ k \in Leg /\ pos[k] \in Int
    BY <1>4, LegIs DEF IInv, Typed
  <2>5. CASE k # l
    BY <2>2, <2>3, <2>5
  <2>6. CASE k = l /\ pc \in Watching
    <3>1. l = order.leg /\ OrderFits(expected) /\ Followed
      BY <1>4, <2>2, <2>6 DEF IInv, AtMostOneWorks, AccountFits
    <3>2. order.leg # "RTM"
      BY <2>6, <3>1 DEF Option
    <3>3. order.size < 0
      BY <1>4, <2>1, <3>1, <3>2 DEF OrderFits, PairStands, Entering, IInv, Typed, Missing
    <3>4. working[l] < 0
      BY <2>2, <2>3, <3>1, <3>3 DEF Followed
    <3> QED  BY <2>2, <2>3, <2>6, <3>4 DEF Sign
  <2>7. pc \in Watching
    BY <1>4, <2>1, <2>2 DEF IInv, AtMostOneWorks, Flat, PcKnown
  <2> QED  BY <2>5, <2>6, <2>7
<1>5. IInv /\ PcKnown /\ [Next]_vars => [Reduces]_vars
  BY <1>1, <1>2, <1>3, <1>4 DEF Next, Environment
<1> QED  BY <1>5, InvHolds, PcIsKnown, PTL DEF Spec, ExitsOnlyReduce
==============================================================================
