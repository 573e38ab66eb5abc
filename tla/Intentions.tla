----------------------------- MODULE Intentions -----------------------------
(***************************************************************************)
(* The trade intentions and bundles of case2 and what both executors do    *)
(* with them: intentions.py, the bundle bookkeeping of fulfillment.py, the *)
(* decisions of strategy.py that create bundles, and the account at the    *)
(* simulator that every fill changes.                                      *)
(*                                                                         *)
(* A bundle is a number, in creation order.  Its intents are its legs: an  *)
(* intent is a pair <<bundle, leg>>, and a leg the plan does not use has   *)
(* quantity 0.  Quantities are signed as in the code (BUY > 0).            *)
(***************************************************************************)
EXTENDS Integers, FiniteSets

CONSTANTS
  MaxBundles,   \* bound: bundles created in one heat
  OrderQty,     \* ORDER_QTY, the largest planned arbitrage quantity
  TenderQty,    \* bound: the largest tender offered
  MaxOrderSize, \* max_order_size, the largest child order
  MaxTick,      \* the last tick of a heat
  Directions,   \* bound: the directions in which positions are opened
  NearDepths,   \* bound: the depths seen within a limit price
  FarDepths,    \* bound: the depths seen beyond it
  Losses,       \* bound: whether the replies to a POST may be lost or short
  ArbDeadline,  \* ARB_INTENT_DEADLINE_TICKS
  TenderLife,   \* 300: the deadline of a tender's exit intents
  MaxGross,     \* MAX_GROSS
  MaxNet        \* MAX_LONG_NET = -MAX_SHORT_NET

(* load_risk_limits only installs positive limits, and mise.toml and the   *)
(* module checks keep the other settings positive or non-negative.         *)
ASSUME SettingsAssumption ==
  /\ MaxBundles \in Nat /\ TenderQty \in Nat /\ MaxTick \in Nat
  /\ ArbDeadline \in Nat /\ TenderLife \in Nat
  /\ OrderQty \in Nat \ {0} /\ MaxOrderSize \in Nat \ {0}
  /\ MaxGross \in Nat /\ MaxNet \in Nat
  /\ NearDepths \subseteq Nat /\ FarDepths \subseteq Nat
  /\ Directions \subseteq {"BUY_ETF", "SELL_ETF"} /\ Losses \in BOOLEAN

(* A heat has 300 ticks, so the exit of a tender outlives it. *)
ASSUME HeatAssumption == MaxTick <= TenderLife

VARIABLES
  kind,       \* kind[b]: what created bundle b, "NONE" before
  bstatus,    \* bundle.status
  quantity,   \* intent.quantity
  remaining,  \* intent.remaining
  istatus,    \* intent.status, "NONE" for a leg the bundle does not have
  deadline,   \* deadline_tick of the bundle's intents
  caseTick,   \* STATE.case_tick
  position,   \* STATE.positions of the three equities, while a cycle runs
  server,     \* the positions the simulator really holds
  near,       \* near[l]: shares within the limit price of the leg's intent
  far,        \* far[l]: visible shares beyond that limit
  lost        \* a POST took effect that its caller was not told of in full

coreVars == <<kind, bstatus, quantity, remaining, istatus, deadline, caseTick,
              position, server, near, far, lost>>

Leg == {"BULL", "BEAR", "RITC"}
Bundle == 1..MaxBundles
Intent == Bundle \X Leg
Kind == {"ARB", "CLOSE", "TENDER"}

Abs(n) == IF n < 0 THEN -n ELSE n
Sign(n) == IF n < 0 THEN -1 ELSE 1
Least(S) == CHOOSE n \in S : \A m \in S : n <= m

(***************************************************************************)
(* Positions.  The basket is one BULL and one BEAR for one RITC.           *)
(***************************************************************************)
Gross(p) == Abs(p["BULL"]) + Abs(p["BEAR"]) + 2 * Abs(p["RITC"])
Net(p) == p["BULL"] + p["BEAR"] + 2 * p["RITC"]
Plus(p, q) == [l \in Leg |-> p[l] + q[l]]
WithinLimits(p) ==
  /\ Gross(p) <= MaxGross
  /\ -MaxNet <= Net(p) /\ Net(p) <= MaxNet

(* A position that an arbitrage can hold: no outright exposure. *)
Hedged(p) == p["BULL"] = p["BEAR"] /\ p["RITC"] = -p["BULL"]

(***************************************************************************)
(* Intents and bundles.                                                    *)
(***************************************************************************)
(* One reply is lost in a heat: what follows a second one is no different. *)
MayLose == Losses /\ ~lost

(* Books and positions are read again before anything here uses them: what *)
(* a finished cycle saw is dropped.                                        *)
ForgetMarket ==
  /\ near' = [l \in Leg |-> 0]
  /\ far' = [l \in Leg |-> 0]
  /\ position' = [l \in Leg |-> 0]

Created == {b \in Bundle : kind[b] # "NONE"}
Members(b) == {i \in Intent : i[1] = b /\ quantity[i] # 0}
IsActive(i) == istatus[i] \in {"ACTIVE", "WORKING"}
Filled(i) == Abs(quantity[i]) - Abs(remaining[i])
IsExpired(i) == IsActive(i) /\ caseTick > deadline[i[1]]
Working(b) == \E i \in Members(b) : IsActive(i)
Started(b) == \E i \in Members(b) : Filled(i) > 0
AllFilled(b) == \A i \in Members(b) : istatus[i] = "FILLED"

(* record_fill: n shares, n > 0, of an active intent. *)
RecordFill(i, n) ==
  /\ remaining' = [remaining EXCEPT ![i] = @ - Sign(quantity[i]) * n]
  /\ istatus' = [istatus EXCEPT ![i] =
                   IF Abs(remaining[i]) = n THEN "FILLED" ELSE "WORKING"]

(* The shares a market order for the intent may take from the book. *)
Acceptable(i, ignoreLimit) ==
  near[i[2]] + (IF ignoreLimit THEN far[i[2]] ELSE 0)

(* Mutant: one leg with its full quantity is enough. *)
ReadyByOneLeg(b, depth) ==
  \E i \in Members(b) : IsActive(i) /\ depth[i[2]] >= Abs(remaining[i])

(* The full planned quantity of every leg before the first fill. *)
ReadyToStart(b, depth) ==
  \A i \in Members(b) : IsActive(i) => depth[i[2]] >= Abs(remaining[i])

(***************************************************************************)
(* _prepare_bundles.  "held" are the bundles with an order still at the    *)
(* exchange; the market executor has none.                                 *)
(***************************************************************************)
(* Mutant: the deadline cancels what is left of a started bundle too. *)
OverdueThoughStarted(b) == ~AllFilled(b) /\ \E i \in Members(b) : IsExpired(i)

Overdue(b) ==
  ~AllFilled(b) /\ ~Started(b) /\ \E i \in Members(b) : IsExpired(i)

PreparedStatus(b, held) ==
  CASE AllFilled(b) -> "FILLED"
    [] ~AllFilled(b) /\ Started(b) -> "HEDGING"
    [] Overdue(b) /\ b \notin held -> "CANCELLED"
    [] OTHER -> "PLANNED"

ReadyBundles(depth) ==
  {b \in Created : /\ ~AllFilled(b) /\ ~Started(b) /\ ~Overdue(b)
                   /\ ReadyToStart(b, depth)}

(* Mutant: an order still at the exchange does not hold the cancellation. *)
PrepareWithoutWaiting(held) ==
  /\ bstatus' = [b \in Bundle |->
       IF b \in Created THEN PreparedStatus(b, {}) ELSE bstatus[b]]
  /\ istatus' = [i \in Intent |->
       IF IsActive(i) /\ Overdue(i[1]) THEN "CANCELLED" ELSE istatus[i]]
  /\ UNCHANGED remaining

PrepareBundles(held) ==
  /\ bstatus' = [b \in Bundle |->
       IF b \in Created THEN PreparedStatus(b, held) ELSE bstatus[b]]
  /\ istatus' = [i \in Intent |->
       IF IsActive(i) /\ Overdue(i[1]) /\ i[1] \notin held
         THEN "CANCELLED" ELSE istatus[i]]
  /\ UNCHANGED remaining

(* Mutant: a bundle is given the status name of an intent. *)
SettledLikeIntent(b) ==
  CASE AllFilled(b) -> "FILLED"
    [] Working(b) -> IF Started(b) THEN "WORKING" ELSE "PLANNED"
    [] OTHER -> IF bstatus[b] = "CANCELLED" THEN "CANCELLED" ELSE "INCOMPLETE"

(* The last loop of both executors. *)
SettledStatus(b) ==
  CASE AllFilled(b) -> "FILLED"
    [] Working(b) /\ Started(b) -> "HEDGING"
    [] Working(b) /\ ~Started(b) -> "PLANNED"
    [] OTHER -> IF bstatus[b] = "CANCELLED" THEN "CANCELLED" ELSE "INCOMPLETE"

SettleBundles ==
  /\ bstatus' = [b \in Bundle |->
       IF b \in Created THEN SettledStatus(b) ELSE bstatus[b]]
  /\ UNCHANGED <<remaining, istatus>>

(* active_intents: priority first (a tender's 100 before 50), then age.    *)
(* Within a bundle the legs come in the order the plan listed them.        *)
Place(i) ==
  IF kind[i[1]] = "TENDER"
    THEN CASE i[2] = "RITC" -> 1 [] i[2] = "BULL" -> 2 [] OTHER -> 3
    ELSE CASE i[2] = "BULL" -> 1 [] i[2] = "BEAR" -> 2 [] OTHER -> 3

Before(i, j) ==
  IF i[1] = j[1] THEN Place(i) < Place(j)
  ELSE \/ kind[i[1]] = "TENDER" /\ kind[j[1]] # "TENDER"
       \/ /\ (kind[i[1]] = "TENDER") = (kind[j[1]] = "TENDER")
          /\ i[1] < j[1]

(***************************************************************************)
(* The decisions of step_once that create a bundle.                        *)
(***************************************************************************)
(* Mutant: active intents do not count. *)
BusyByStatus == \E b \in Created : bstatus[b] \in {"HEDGING", "INCOMPLETE"}

Busy ==
  \/ \E i \in Intent : IsActive(i)
  \/ \E b \in Created : bstatus[b] \in {"HEDGING", "INCOMPLETE"}

(* Books and positions are read anew; the tick never goes back in a heat. *)
ReadBooks ==
  /\ near' \in [Leg -> NearDepths]
  /\ far' \in [Leg -> FarDepths]

ReadCase ==
  /\ caseTick' \in caseTick..MaxTick
  /\ position' = server

(* enqueue_arb and the tail of accept_active_tender_offers. *)
AddBundle(b, k, legs, life) ==
  /\ kind' = [kind EXCEPT ![b] = k]
  /\ bstatus' = [bstatus EXCEPT ![b] = "PLANNED"]
  /\ quantity' = [i \in Intent |-> IF i[1] = b THEN legs[i[2]] ELSE quantity[i]]
  /\ remaining' = [i \in Intent |-> IF i[1] = b THEN legs[i[2]] ELSE remaining[i]]
  /\ istatus' = [i \in Intent |->
       IF i[1] = b /\ legs[i[2]] # 0 THEN "ACTIVE" ELSE istatus[i]]
  /\ deadline' = [deadline EXCEPT ![b] = caseTick + life]

IsNext(b) == b \in Bundle \ Created /\ \A a \in Bundle : a < b => a \in Created

(* BUY_ETF buys RITC and sells the basket; SELL_ETF mirrors it. *)
Signs == {IF dir = "BUY_ETF" THEN 1 ELSE -1 : dir \in Directions}
ArbLegs(dir, q) == [l \in Leg |-> IF l = "RITC" THEN dir * q ELSE -dir * q]

(* A plan takes full visible depth and is checked against the final        *)
(* position only.                                                          *)
EnqueueArb(b, k, dir, q) ==
  /\ ~Busy
  /\ IsNext(b)
  /\ \A l \in Leg : near[l] >= q
  /\ WithinLimits(Plus(position, ArbLegs(dir, q)))
  /\ AddBundle(b, k, ArbLegs(dir, q), ArbDeadline)
  /\ UNCHANGED <<caseTick, position, server, near, far, lost>>

(* A tender of d + k RITC, bought (s = 1) or sold (s = -1), of which d are *)
(* closed in RITC and k are hedged with the basket.                        *)
TenderLegs(s, d, k) == [l \in Leg |-> IF l = "RITC" THEN -s * d ELSE -s * k]
Tendered(p, s, n) == [p EXCEPT !["RITC"] = @ + s * n]

(* Mutant: only the position after the whole exit is checked. *)
EndOfRouteIsSafe(p, s, d, k) ==
  WithinLimits(Plus(Tendered(p, s, d + k), TenderLegs(s, d, k)))

(* _route_is_safe: every leg done or not done. *)
RouteIsSafe(p, s, d, k) ==
  \A done \in [Leg -> {0, 1}] :
    WithinLimits([l \in Leg |-> Tendered(p, s, d + k)[l]
                                + done[l] * TenderLegs(s, d, k)[l]])

TenderOffered(s, d, k) ==
  /\ ~Busy
  /\ d + k > 0 /\ d + k <= TenderQty
  /\ near["RITC"] >= d /\ near["BULL"] >= k /\ near["BEAR"] >= k
  /\ RouteIsSafe(position, s, d, k)

AcceptTender(b, s, d, k) ==
  /\ TenderOffered(s, d, k)
  /\ IsNext(b)
  /\ AddBundle(b, "TENDER", TenderLegs(s, d, k), TenderLife)
  /\ position' = Tendered(position, s, d + k)
  /\ server' = Tendered(server, s, d + k)
  /\ UNCHANGED <<caseTick, near, far, lost>>

(* The acceptance reached the simulator but the request failed: the code   *)
(* prints and goes on as if nothing had happened.                          *)
TenderReplyLost(s, d, k) ==
  /\ MayLose
  /\ TenderOffered(s, d, k)
  /\ server' = Tendered(server, s, d + k)
  /\ lost' = TRUE
  /\ UNCHANGED <<kind, bstatus, quantity, remaining, istatus, deadline,
                 caseTick, position, near, far>>

InitIntentions ==
  /\ kind = [b \in Bundle |-> "NONE"]
  /\ bstatus = [b \in Bundle |-> "NONE"]
  /\ quantity = [i \in Intent |-> 0]
  /\ remaining = [i \in Intent |-> 0]
  /\ istatus = [i \in Intent |-> "NONE"]
  /\ deadline = [b \in Bundle |-> 0]
  /\ caseTick = 0
  /\ position = [l \in Leg |-> 0]
  /\ server = [l \in Leg |-> 0]
  /\ near = [l \in Leg |-> 0]
  /\ far = [l \in Leg |-> 0]
  /\ lost = FALSE

BundleStatus == {"NONE", "PLANNED", "HEDGING", "FILLED", "CANCELLED", "INCOMPLETE"}
IntentStatus == {"NONE", "ACTIVE", "WORKING", "FILLED", "CANCELLED"}

TypeOKIntentions ==
  /\ kind \in [Bundle -> Kind \cup {"NONE"}]
  /\ bstatus \in [Bundle -> BundleStatus]
  /\ quantity \in [Intent -> Int]
  /\ remaining \in [Intent -> Int]
  /\ istatus \in [Intent -> IntentStatus]
  /\ deadline \in [Bundle -> Nat]
  /\ caseTick \in Nat
  /\ position \in [Leg -> Int]
  /\ server \in [Leg -> Int]
  /\ near \in [Leg -> Nat]
  /\ far \in [Leg -> Nat]
  /\ lost \in BOOLEAN
=============================================================================
