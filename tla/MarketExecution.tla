--------------------------- MODULE MarketExecution ---------------------------
(***************************************************************************)
(* One heat of the case2 bot under the market policy: the cycle of         *)
(* step_once with fulfill_market_intents, cut at its API calls.  A cycle   *)
(* reads the market, decides, prepares the bundles, walks the active       *)
(* intents posting one market order each, and settles the bundles.  Any    *)
(* call may raise ApiException, which ends the cycle where it stands, and  *)
(* main.run remembers a poll only after its cycle: as long as none was     *)
(* remembered, the next poll takes the heat for a new one and drops STATE. *)
(***************************************************************************)
EXTENDS Intentions

VARIABLES
  pc,        \* where the cycle stands
  todo,      \* intents of this cycle's active_intents() not yet visited
  ready,     \* ready_bundles
  blocked,   \* blocked_bundles
  shortfall, \* history: bundles with an order that filled less than asked,
             \* not counting the cycles before the one that started them
  remembered, \* last_status is ACTIVE: the last poll went through in this heat
  forgotten, \* history: per leg, what dropped bundles still owed the account
  gone       \* history: how many bundles were dropped

vars == <<kind, bstatus, quantity, remaining, istatus, deadline, caseTick,
          position, server, near, far, lost, pc, todo, ready, blocked, shortfall,
          remembered, forgotten, gone>>

loopVars == <<todo, ready, blocked, shortfall, remembered, forgotten, gone>>

Nothing == [l \in Leg |-> 0]

Init ==
  /\ InitIntentions
  /\ pc = "IDLE"
  /\ todo = {} /\ ready = {} /\ blocked = {}
  /\ shortfall = {}
  /\ remembered = FALSE
  /\ forgotten = Nothing /\ gone = 0

EndCycle ==
  /\ pc' = "IDLE"
  /\ todo' = {} /\ ready' = {} /\ blocked' = {}
  /\ ForgetMarket

(***************************************************************************)
(* A poll of main.run and the start of a cycle.  Reads that fail leave the *)
(* bundles alone.                                                          *)
(***************************************************************************)
(* What is left to trade is what the active intents still lack.            *)
LeftToTrade ==
  [l \in Leg |->
     IF \E b \in Created : IsActive(<<b, l>>)
       THEN remaining[<<CHOOSE b \in Created : IsActive(<<b, l>>), l>>] ELSE 0]

(* Exposure that somebody has to take back: a share of the bundle has      *)
(* traded, or it is the exit of a tender.                                  *)
Owes(b) == Working(b) /\ (Started(b) \/ kind[b] = "TENDER")

(* Bounds.  One bundle that owes something is dropped in a heat: what      *)
(* follows a second one is no different.  A poll is idle before a reply is *)
(* lost; the failed request that loses one may come after.  MaxBundles     *)
(* counts the bundles that were dropped.                                   *)
MayForget == forgotten = Nothing
MayPause == MayForget /\ ~lost
MayCreate(b) == b + gone <= MaxBundles

(* reset_for_new_heat: a new TradingState.                                 *)
ResetForNewHeat ==
  /\ kind' = [b \in Bundle |-> "NONE"]
  /\ bstatus' = [b \in Bundle |-> "NONE"]
  /\ quantity' = [i \in Intent |-> 0]
  /\ remaining' = [i \in Intent |-> 0]
  /\ istatus' = [i \in Intent |-> "NONE"]
  /\ deadline' = [b \in Bundle |-> 0]
  /\ shortfall' = {}
  /\ forgotten' = IF \E b \in Created : Owes(b)
                     THEN Plus(forgotten, LeftToTrade) ELSE forgotten
  /\ gone' = gone + Cardinality(Created)

(* Mutant: every poll is taken for the first of a new heat. *)
AlwaysReset == ResetForNewHeat

KeepState == UNCHANGED <<kind, bstatus, quantity, remaining, istatus, deadline,
                         shortfall, forgotten, gone>>

BeginCycle ==
  /\ pc = "IDLE"
  /\ IF remembered THEN KeepState ELSE ResetForNewHeat
  /\ ReadCase
  /\ ReadBooks
  /\ pc' = "DECIDE"
  /\ UNCHANGED <<server, lost, todo, ready, blocked, remembered>>

(* A poll that does not answer ACTIVE, in a pause or without content: the  *)
(* next one that does makes a new heat.                                    *)
IdlePoll ==
  /\ pc = "IDLE"
  /\ remembered /\ MayPause
  /\ remembered' = FALSE
  /\ UNCHANGED <<coreVars, pc, todo, ready, blocked, shortfall, forgotten, gone>>

(* The market executor works openings, closes and fallbacks alike. *)
PlaceArb ==
  /\ pc = "DECIDE"
  /\ \E b \in Bundle, dir \in Signs, q \in 1..OrderQty :
       MayCreate(b) /\ EnqueueArb(b, "ARB", dir, q)
  /\ pc' = "FULFILL"
  /\ UNCHANGED loopVars

TakeTender ==
  /\ pc = "DECIDE"
  /\ \E b \in Bundle, s \in Signs, d, k \in 0..TenderQty :
       MayCreate(b) /\ AcceptTender(b, s, d, k)
  /\ pc' = "FULFILL"
  /\ UNCHANGED loopVars

LoseTenderReply ==
  /\ pc = "DECIDE"
  /\ \E s \in Signs, d, k \in 0..TenderQty : TenderReplyLost(s, d, k)
  /\ UNCHANGED <<pc, loopVars>>

(* Nothing to do, or a quote is missing: existing intents are still worked. *)
PlaceNothing ==
  /\ pc = "DECIDE"
  /\ pc' = "FULFILL"
  /\ UNCHANGED <<coreVars, loopVars>>

(***************************************************************************)
(* fulfill_market_intents.                                                 *)
(***************************************************************************)
Prepare ==
  /\ pc = "FULFILL"
  /\ PrepareBundles({})
  /\ ready' = ReadyBundles(near)
  /\ blocked' = {}
  /\ todo' = {i \in Intent : istatus'[i] \in {"ACTIVE", "WORKING"}}
  /\ pc' = "LOOP"
  /\ shortfall' = {b \in shortfall : Started(b)}
  /\ UNCHANGED <<kind, quantity, deadline, caseTick, position, server, near,
                 far, lost, remembered, forgotten, gone>>

IsTurn(i) ==
  /\ pc = "LOOP"
  /\ i \in todo
  /\ \A j \in todo \ {i} : Before(i, j)

MayTrade(i) == i[1] \notin blocked /\ (Started(i[1]) \/ i[1] \in ready)

OrderSize(i) ==
  Least({Abs(remaining[i]), Acceptable(i, Started(i[1])), MaxOrderSize})

Skip(i) ==
  /\ IsTurn(i)
  /\ ~MayTrade(i) \/ OrderSize(i) = 0
  /\ todo' = todo \ {i}
  /\ UNCHANGED <<coreVars, pc, ready, blocked, shortfall, remembered, forgotten, gone>>

(* The order executes x shares and the reply reports r of them.  An empty  *)
(* reply and one that reports nothing are handled alike.                   *)
Post(i, x, r) ==
  /\ IsTurn(i)
  /\ MayTrade(i)
  /\ x \in 0..OrderSize(i) /\ OrderSize(i) > 0
  /\ r \in 0..x
  /\ x = r \/ MayLose
  /\ server' = [server EXCEPT ![i[2]] = @ + Sign(quantity[i]) * x]
  /\ position' = [position EXCEPT ![i[2]] = @ + Sign(quantity[i]) * r]
  /\ IF r > 0
       THEN RecordFill(i, r) /\ blocked' = blocked
       ELSE /\ UNCHANGED <<remaining, istatus>>
            /\ blocked' = IF Started(i[1]) THEN blocked ELSE blocked \cup {i[1]}
  /\ lost' = (lost \/ x # r)
  /\ shortfall' = IF r < OrderSize(i) THEN shortfall \cup {i[1]} ELSE shortfall
  /\ todo' = todo \ {i}
  /\ UNCHANGED <<kind, bstatus, quantity, deadline, caseTick, near, far, pc, ready,
                 remembered, forgotten, gone>>

(* The POST raises, whether or not the order reached the exchange, and the *)
(* poll is not remembered.                                                 *)
PostRaises(i, x) ==
  /\ IsTurn(i)
  /\ MayTrade(i)
  /\ x \in 0..OrderSize(i) /\ OrderSize(i) > 0
  /\ x = 0 \/ MayLose
  /\ remembered \/ MayForget
  /\ server' = [server EXCEPT ![i[2]] = @ + Sign(quantity[i]) * x]
  /\ lost' = (lost \/ x # 0)
  /\ shortfall' = shortfall \cup {i[1]}
  /\ EndCycle
  /\ UNCHANGED <<kind, bstatus, quantity, remaining, istatus, deadline, caseTick,
                 remembered, forgotten, gone>>

(* step_once returns, and main.run remembers its poll.                     *)
Settle ==
  /\ pc = "LOOP"
  /\ todo = {}
  /\ SettleBundles
  /\ EndCycle
  /\ remembered' = TRUE
  /\ UNCHANGED <<kind, quantity, deadline, caseTick, server, lost, shortfall, forgotten, gone>>

Step(i) ==
  \/ Skip(i)
  \/ \E x, r \in 0..MaxOrderSize : Post(i, x, r)
  \/ \E x \in 0..MaxOrderSize : PostRaises(i, x)

Next ==
  \/ BeginCycle
  \/ IdlePoll
  \/ PlaceArb
  \/ TakeTender
  \/ LoseTenderReply
  \/ PlaceNothing
  \/ Prepare
  \/ \E i \in Intent : Step(i)
  \/ Settle

Spec == Init /\ [][Next]_vars

(***************************************************************************)
(* Fairness.  The driver keeps polling, so a cycle goes on; the market     *)
(* shows depth on every leg again and again; and not every order is        *)
(* refused for ever.                                                       *)
(***************************************************************************)
DeepMarket == BeginCycle /\ \A l \in Leg : near'[l] + far'[l] > 0
FillSome == \E i \in todo : \E x \in 1..OrderSize(i) : Post(i, x, x)

Fairness ==
  /\ WF_vars(Next)
  /\ SF_vars(DeepMarket)
  /\ SF_vars(FillSome)

FairSpec == Spec /\ Fairness

-----------------------------------------------------------------------------
TypeOK ==
  /\ TypeOKIntentions
  /\ pc \in {"IDLE", "DECIDE", "FULFILL", "LOOP"}
  /\ todo \subseteq Intent
  /\ ready \subseteq Bundle
  /\ blocked \subseteq Bundle
  /\ shortfall \subseteq Bundle
  /\ remembered \in BOOLEAN
  /\ forgotten \in [Leg -> Int]
  /\ gone \in Nat

(* The account as if somebody had traded what was forgotten. *)
WithForgotten == Plus(server, forgotten)

(* The same once bundle b's open intents are filled. *)
Completed(b) ==
  [l \in Leg |-> WithForgotten[l] + (IF IsActive(<<b, l>>) THEN remaining[<<b, l>>] ELSE 0)]

(* While every reply tells what was executed, the account is either        *)
(* hedged, or a bundle is being worked whose open intents are exactly what *)
(* is missing from a hedge: no deadline, refusal, failed request or short  *)
(* fill in between makes the program forget a leg or trade one twice.      *)
(* Only a reset inside the heat forgets, and then what is missing from a   *)
(* hedge is exactly what the dropped bundle still lacked, for good.        *)
HedgedOrBeingHedged ==
  ~lost => /\ \A b \in Created : Working(b) => Hedged(Completed(b))
           /\ (\A b \in Created : ~Working(b)) => Hedged(WithForgotten)

(* The busy gate of step_once: exposure is never opened on top of a bundle *)
(* that is still being worked.                                             *)
OneWorkingBundle ==
  \A a, b \in Created : Working(a) /\ Working(b) => a = b

(* The gross and net limits hold at every partial fill of every bundle,    *)
(* although an arbitrage is only checked against its final position, as    *)
(* long as nothing was lost and no reset dropped a bundle that owed        *)
(* something: the way to the final position is safe from a hedge only.     *)
RiskLimitsHold == ~lost /\ forgotten = Nothing => WithinLimits(server)

(* The start rule of _ready_to_start: a bundle no larger than one order    *)
(* per leg is left half done by a cycle only if one of its orders, in the  *)
(* cycle that started it or a later one, fell short.                       *)
HedgingOnlyAfterShortfall ==
  \A b \in Created :
    bstatus[b] = "HEDGING" /\ (\A i \in Members(b) : Abs(quantity[i]) <= MaxOrderSize)
      => b \in shortfall

(* The market executor keeps the promise of HedgeObligation: what is left  *)
(* to trade is brought to zero once it has begun.  A plan that has begun   *)
(* is dropped only by a reset, and a reset comes only after a poll that    *)
(* was not ACTIVE or whose cycle failed, before a cycle went through.      *)
Obligation ==
  INSTANCE HedgeObligation WITH
    left <- LeftToTrade, begun <- (\E b \in Created : Working(b) /\ Started(b)),
    kept <- remembered

KeepsPromise == Obligation!Promise

(* One lost reply leaves the account, with what resets have forgotten, at  *)
(* most one order, or one tender, away from a hedge: neither the retry of  *)
(* the same intent nor the bundles opened later on the refreshed positions *)
(* make the gap larger, and a reset adds what it drops and no more.        *)
OneLossOneOrder ==
  LET size == IF MaxOrderSize > TenderQty THEN MaxOrderSize ELSE TenderQty
      Even(p) == /\ Abs(p["BULL"] - p["BEAR"]) <= size
                 /\ Abs(p["BULL"] + p["RITC"]) <= size
                 /\ Abs(p["BEAR"] + p["RITC"]) <= size
  IN  /\ \A b \in Created : Working(b) => Even(Completed(b))
      /\ (\A b \in Created : ~Working(b)) => Even(WithForgotten)

(* strategy.py:65 says that the intent deadline controls how long an       *)
(* unstarted bundle waits.  So when every bundle was either filled or      *)
(* dropped without a fill, the strategy is free to decide again.           *)
DroppedBundleFreesStrategy ==
  (pc = "DECIDE" /\ \A b \in Created : AllFilled(b) \/ (~Started(b) /\ ~Working(b)))
    => ~Busy
=============================================================================
