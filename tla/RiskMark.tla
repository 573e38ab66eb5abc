------------------------------ MODULE RiskMark ------------------------------
(***************************************************************************)
(* The risk policy of case2: one mark of the portfolio per tick, smoothed  *)
(* by the median of three, a drawdown flag and a loss guard with           *)
(* hysteresis, and what they let tenders and plans do to the gross         *)
(* exposure.  Money is counted in units of 2,500 CAD; what the median of   *)
(* two marks may halve is counted in half units.                           *)
(***************************************************************************)
EXTENDS Integers, Sequences, FiniteSetsExt

CONSTANTS
  Values,        \* bound: liquidation values of the portfolio
  Grosses,       \* bound: gross exposures a plan may project
  MaxGross,      \* MAX_GROSS
  ConfirmTicks,  \* PNL_DRAWDOWN_CONFIRM_TICKS
  RecoveryTicks, \* PNL_DRAWDOWN_RECOVERY_TICKS
  MinHold,       \* PNL_DRAWDOWN_MIN_HOLD_TICKS
  LateTick,      \* TENDER_LATE_TICK
  EndgameTick,   \* ENDGAME_HOLD_TICK
  MaxTick        \* bound: ticks of a heat

ASSUME RiskAssumption ==
  /\ Values \subseteq Nat /\ Grosses \subseteq 0..MaxGross /\ 0 \in Grosses
  /\ {ConfirmTicks, RecoveryTicks} \subseteq Nat \ {0}
  /\ {MaxGross, MinHold, LateTick, EndgameTick, MaxTick} \subseteq Nat

None == -1  \* no value, no tick, no bundle: all three are natural numbers
Larger(m, n) == IF m > n THEN m ELSE n
Smaller(m, n) == IF m < n THEN m ELSE n

VARIABLES
  pc,       \* where step_once stands
  tick,     \* case_tick
  baseline, \* portfolio_baseline_cad
  pnl,      \* pnl_cad
  history,  \* risk_mark_history
  markTick, \* risk_mark_tick
  high,     \* risk_high_water_cad, in half units
  drawdown, \* pnl_drawdown_active
  breach,   \* risk_breach_ticks
  recovery, \* risk_recovery_ticks
  since,    \* risk_drawdown_since_tick
  guard,    \* STATE.loss_growth_guard_active
  gross,    \* equity_gross of the positions, when nothing trades
  status,   \* strategy_status
  flight,   \* what the unfinished bundle makes of gross, or None
  stuck,    \* a dropped bundle has become INCOMPLETE
  ceiling   \* history: gross when the current drawdown began

marks == <<baseline, pnl, history, markTick, high, drawdown, breach, recovery, since, guard>>
vars == <<pc, tick, marks, gross, status, flight, stuck, ceiling>>

Busy == flight # None \/ stuck

(***************************************************************************)
(* TradingState.update_risk_mark.                                          *)
(***************************************************************************)
(* statistics.median, in half units *)
Median(h) ==
  CASE Len(h) = 1 -> 2 * h[1]
    [] Len(h) = 2 -> h[1] + h[2]
    [] Len(h) = 3 ->
         2 * CHOOSE m \in {h[1], h[2], h[3]} :
               /\ Cardinality({i \in 1..3 : h[i] <= m}) >= 2
               /\ Cardinality({i \in 1..3 : h[i] >= m}) >= 2

MinimumHighWater == 8                                   \* 10,000 CAD
Breaching(r, h) == h >= MinimumHighWater /\ 10 * r <= 8 * h
Recovering(r, h) == 10 * r >= 9 * h

Remembered(h, m) == IF Len(h) < 3 THEN Append(h, m) ELSE Append(Tail(h), m)

(* Mutant: marks are taken while a bundle trades. *)
MarkWhileTrading(v, t) == v # None /\ t # markTick

Eligible(v, t) == v # None /\ ~Busy /\ t # markTick

HeldLongEnough(t) == since = None \/ t - since >= MinHold

RecoveryCount(r, h) == IF Recovering(r, h) THEN recovery + 1 ELSE 0

EndsDrawdown(t, r, h) == RecoveryCount(r, h) >= RecoveryTicks /\ HeldLongEnough(t)

InDrawdown(t, r, h) ==
  /\ drawdown' = ~EndsDrawdown(t, r, h)
  /\ recovery' = IF drawdown' THEN RecoveryCount(r, h) ELSE 0
  /\ since' = IF drawdown' THEN since ELSE None
  /\ breach' = 0

BreachCount(r, h) == IF Breaching(r, h) THEN breach + 1 ELSE 0

OutOfDrawdown(t, r, h) ==
  /\ drawdown' = (BreachCount(r, h) >= ConfirmTicks)
  /\ breach' = IF drawdown' THEN 0 ELSE BreachCount(r, h)
  /\ since' = IF drawdown' THEN t ELSE since
  /\ recovery' = 0

UpdateRiskMark(t, v) ==
  IF ~Eligible(v, t)
  THEN UNCHANGED <<history, markTick, high, drawdown, breach, recovery, since, ceiling>>
  ELSE /\ markTick' = t
       /\ history' = Remembered(history, pnl')
       /\ high' = Larger(high, Median(history'))
       /\ IF drawdown THEN InDrawdown(t, Median(history'), high')
          ELSE OutOfDrawdown(t, Median(history'), high')
       /\ ceiling' = IF drawdown' /\ ~drawdown THEN gross ELSE ceiling

UpdatePortfolioValue(v) ==
  /\ baseline' = IF v # None /\ baseline = None THEN v ELSE baseline
  /\ pnl' = IF v = None THEN pnl ELSE v - baseline'

GuardThreshold == IF guard THEN 2 ELSE 4                \* 5,000 CAD, or half of it
LossGuard(h) == h # <<>> /\ Median(h) <= -GuardThreshold

(* PNL_GROSS_PROFILES, in percent of MAX_GROSS *)
Thresholds == {8, 24, 48}                               \* 10,000, 30,000, 60,000 CAD
Profiles == <<[start |-> 80, target |-> 65], [start |-> 65, target |-> 50],
              [start |-> 50, target |-> 30], [start |-> 25, target |-> 10]>>

(* pnl_cad stands in for the risk mark as long as there is none. *)
Profile ==
  IF drawdown THEN Profiles[4]
  ELSE LET r == IF history = <<>> THEN 2 * pnl ELSE Median(history)
       IN  Profiles[1 + Cardinality({n \in Thresholds : r >= n})]

TargetGross == (MaxGross * Profile.target) \div 100
AtStart == 100 * gross >= MaxGross * Profile.start

(***************************************************************************)
(* A cycle: the case and the positions are read and marked, a plan is      *)
(* chosen, its bundle is worked.                                           *)
(***************************************************************************)
Init ==
  /\ pc = "IDLE" /\ tick = 0
  /\ baseline = None /\ pnl = 0
  /\ history = <<>> /\ markTick = None /\ high = 0
  /\ drawdown = FALSE /\ breach = 0 /\ recovery = 0 /\ since = None
  /\ guard = FALSE
  /\ gross = 0 /\ status = "IDLE" /\ flight = None /\ stuck = FALSE
  /\ ceiling = 0

(* Without a quote for what is held there is neither a mark nor a decision. *)
BeginCycle(t, v) ==
  /\ pc = "IDLE"
  /\ t \in {tick, tick + 1} /\ t <= MaxTick
  /\ tick' = t
  /\ UpdatePortfolioValue(v)
  /\ UpdateRiskMark(t, v)
  /\ guard' = LossGuard(history')
  /\ pc' = IF v = None THEN "FULFIL" ELSE "DECIDE"
  /\ UNCHANGED <<gross, status, flight, stuck>>

Decided ==
  /\ pc = "DECIDE"
  /\ pc' = "FULFIL"
  /\ UNCHANGED <<tick, marks, gross, stuck, ceiling>>

Plan(to) == ~Busy /\ flight' = to

(* Mutant: the drawdown does not bound what tenders may carry. *)
CarryWithoutDrawdown ==
  IF guard THEN gross
  ELSE Larger(gross, (MaxGross * (IF tick >= LateTick THEN 60 ELSE 90)) \div 100)

CarryCap ==
  LET fraction == IF tick >= LateTick THEN 60 ELSE 90
      normal == IF guard THEN gross ELSE Larger(gross, (MaxGross * fraction) \div 100)
  IN  IF drawdown THEN Smaller(normal, Larger(gross, TargetGross)) ELSE normal

AcceptTender(to) ==
  /\ Decided
  /\ to <= CarryCap
  /\ Plan(to)
  /\ status' = "UNWINDING_TENDER"

ConvergenceExit(to) ==
  /\ Decided
  /\ to < gross
  /\ Plan(to)
  /\ UNCHANGED status

(* inventory_reduction_plan *)
Reached == status = "REDUCING_INVENTORY" /\ gross <= TargetGross
ReductionDue == IF status = "REDUCING_INVENTORY" THEN ~Reached ELSE AtStart

ReduceInventory(to) ==
  /\ Decided
  /\ ReductionDue
  /\ to < gross
  /\ Plan(to)
  /\ status' = "REDUCING_INVENTORY"

(* No reduction: its plan is missing, or costs money in the endgame. *)
NoReduction ==
  \/ status' = IF Reached THEN "IDLE" ELSE status
  \/ ReductionDue /\ tick >= EndgameTick /\ status' = "HOLDING_TO_SETTLEMENT"

ArbPlanAllowed(to, reducing) ==
  /\ guard => to <= gross
  /\ drawdown => IF gross > TargetGross THEN to < gross ELSE to <= TargetGross
  /\ reducing \/ AtStart => to < gross

Arbitrage(to) ==
  /\ Decided
  /\ NoReduction
  /\ ArbPlanAllowed(to, status' \in {"REDUCING_INVENTORY", "HOLDING_TO_SETTLEMENT"})
  /\ Plan(to)

NoPlan ==
  /\ Decided
  /\ NoReduction
  /\ ~Busy
  /\ UNCHANGED flight

Wait ==
  /\ Decided
  /\ UNCHANGED <<status, flight>>

Fulfil ==
  /\ pc = "FULFIL"
  /\ pc' = "IDLE"
  /\ \/ UNCHANGED <<gross, status, flight, stuck>>
     \/ /\ flight # None
        /\ gross' = flight
        /\ flight' = None
        /\ status' = IF status = "UNWINDING_TENDER" THEN "IDLE" ELSE status
        /\ UNCHANGED stuck
     \/ /\ flight # None /\ status # "UNWINDING_TENDER"
        /\ flight' = None
        /\ stuck' = TRUE
        /\ UNCHANGED <<gross, status>>
  /\ UNCHANGED <<tick, marks, ceiling>>

Next ==
  \/ \E t \in 0..MaxTick, v \in Values \cup {None} : BeginCycle(t, v)
  \/ \E to \in Grosses :
       AcceptTender(to) \/ ConvergenceExit(to) \/ ReduceInventory(to) \/ Arbitrage(to)
  \/ NoPlan \/ Wait
  \/ Fulfil

Spec == Init /\ [][Next]_vars

(***************************************************************************)
(* Properties.                                                             *)
(***************************************************************************)
(* During a drawdown the exposure and everything on its way stay within    *)
(* the cap, or within what was held when the drawdown began.               *)
DrawdownBoundsGross ==
  drawdown => /\ gross <= Larger(ceiling, TargetGross)
              /\ flight <= Larger(ceiling, TargetGross)

(* While the loss guard is on no bundle makes the exposure grow, the       *)
(* bundles that were on their way included: none can be when it turns on.  *)
GuardStopsGrowth ==
  [][guard => gross' <= gross]_vars

=============================================================================
