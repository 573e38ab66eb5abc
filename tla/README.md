# Formal models of the trading bots

The repository holds two algorithmic traders for the Rotman Interactive Trader
simulator. `src/case2` is an ETF arbitrage bot: it trades RITC (an ETF) against
its basket BULL + BEAR, accepts tenders for RITC and hedges them. `src/case1` is
an option volatility bot that trades straddles with a delta hedge. Both are
single-threaded Python programs that poll an HTTP API. What makes them hard is
not threads but the world between two calls: orders fill in part, late or after
a failed request; a call raises in the middle of a cycle and leaves the state of
the program where it stands; deadlines and limits are read from data that is
already old; and a program that forgets what it was doing when its first cycle of
a heat fails.

## The system

| Part | State | Operations | What must be true of it |
|---|---|---|---|
| Intents and bundles (`case2/intentions.py`, `state.py`) | `OrderIntent`: quantity, remaining, status, deadline, live order; `TradeBundle`: status, legs | create, `record_fill`, expire, cancel | an intent never trades more than its quantity; a bundle that has traded is not dropped |
| Bundle bookkeeping and market executor (`case2/fulfillment.py`, `execution.py`) | the statuses above, ready and blocked bundles of a cycle | `_prepare_bundles`, `fulfill_market_intents` | the account is hedged, or exactly the open intents are missing from a hedge; what a reset of the state forgets is known |
| Limit executor (`case2/limit_fulfillment.py`) | live order of an intent: id, mode, tick; `OrderState.filled` | `_reconcile`, `_cancel_and_reconcile`, `_post_limit`, `cancel_live_orders` | fills that arrive while an order is looked at, cancelled or replaced never make the exposure exceed the plan |
| Decisions of a cycle (`case2/strategy.py`) | `STATE`, tender ids, converter window | `step_once`, `enqueue_arb`, `accept_active_tender_offers`, `inventory_reduction_plan` | one bundle at a time; gross and net limits hold at every partial fill |
| Arbitrage and tender evaluation (`case2/arbitrage.py`, `tender_strategy.py`) | none | `evaluate_arbitrage`, `evaluate_fixed_tender`, `_route_is_safe` | a plan is executable and its risk path is safe |
| Risk mark (`case2/state.py`, `strategy.py`) | mark history, high water, breach and recovery counters, drawdown flag | `update_risk_mark`, `pnl_risk_profile`, `loss_growth_guard_active` | the drawdown flag neither flickers nor sticks |
| Manual converter (`case2/manual_converter.py`, `strategy.py`) | the window: baseline, deadline, confirmed blocks; suppressed positions | start, progress, abort, fallback | what a person converts is not closed a second time in the market |
| Inventory lots (`case2/convergence.py`, `fulfillment.py`) | `open_quantity` of filled bundles | `_apply_inventory_closes`, `update_convergence`, `find_convergence_exit` | lots are consumed once and never below zero |
| Polling driver (`case2/main.py`) | last status and tick, `seen_heat` | `run`, `main`, signal handler | every heat starts from a clean state, and from its first whole cycle keeps it; no order outlives the process |
| HTTP client (`case2/api.py`) | session | `request` with retries after HTTP 429 | a failed call is raised, not swallowed |
| Option pair broker (`case1/case1_integrated_variance.py`, `Broker`) | pending pair, execution state, expected positions | confirmed order, entry, completion, rollback, hedge | outside an owned pending pair calls and puts are matched; a stop leaves at most one batch unmatched |
| Volatility campaign (`Strategy`, same file) | campaign, used releases, confirmations, exits, scale-outs | `evaluate` | a release that left something held is not entered again; a target only shrinks |
| Volatility model and news (`VolatilityModel`, same file; helpers of `case1_simple.py`) | weeks, latest release, confidence, baseline, observed quotes, seen items | `update`, `fair`, `stressed_vols`, `parse_news`, `weekly_schedule` | what is known of a week does not depend on how its news were found; the baseline predates the release |
| Delta limit of a sub-heat (`main`, same file) | configured period and limit, risk gates | `configure_announced_delta_limit`, `choose_announced_delta_limit`, the loop of `main` | the gates are nested below the limit; a cycle trades under the limit of its own sub-heat |
| Trade ledger (`case1/case1_trade_ledger.py`) | active and closed trades, expected positions | `observe`, `fill`, `summary` | an attributed trade explains the positions it stands for |
| Volatility assistant (`case1/case1_simple.py`) | cached and seen news, selected strike, last signal, what it last printed | `Assistant.update`, `main` | each item is announced once; advice rests on one tick and all news; one entry advice a tick |
| Order books, fills, valuation (`case2/state.py`, `valuation.py`) | aggregated levels of four books | `record_book`, `estimate_fill`, `liquidation_value_cad` | a fill costs what its orders cost; a mark is never below the proceeds of closing |
| Offline analysis, archive, viewer (`case1_full_chain_optimizer.py`, `case1/archive`, `dma.py`, `unused.py`) | | | offline, superseded or display |

A cycle of the case2 bot runs as follows. `main.run` reads the case and calls
`step_once`, which reads four order books and the positions, updates the risk
mark, the converter window and the convergence of old bundles, and, unless it
is *busy*, creates at most one bundle: a tender's exit, a conversion window, a
convergence exit, an inventory reduction or an arbitrage. `fulfill_intents` then
works all active intents under one of two policies, `market` or
`adaptive_limit`. Everything is kept in memory and is dropped at a new heat: at
a poll that answers ACTIVE when the last poll that was *remembered* did not, or
had a later tick. A poll is remembered after its cycle (`main.py:81`), so an
`ApiException` in the first cycles of a heat makes the next poll a new heat too.

## Modules

* `Intentions` - the state both executors share (bundles, intents, local
  positions, the account at the simulator, visible depth), the bundle
  bookkeeping of `fulfillment.py` and the decisions that create bundles.
* `MarketExecution` - extends it with the cycle of the market policy.
* `LimitExecution` - extends it with the cycle of the limit policy and with
  the exchange, whose actions interleave with every step.
* `HedgeObligation` - the abstract specification of an executor: one open plan;
  a plan of which nothing traded may be dropped; once a share has traded, each
  step brings the open legs nearer to zero, and they reach zero. A plan that has
  begun is forgotten only by a caller that was interrupted, and only until it has
  seen a cycle through (`kept`).
* `MarketExecution_proofs`, `LimitExecution_proofs`, `PairBroker_proofs`,
  `Inventory_proofs` and `VolatilityAssistant_proofs` - the theorems about these
  modules. Three more extend two modules each, which is why one of the two has
  names the other does not use: `DriverAndRiskMark_proofs` (`at`, `driverVars`,
  `DriverInit`, `DriverNext`), `IntegratedVariance_proofs` about `Campaign` and
  `DeltaLimit` (`limitVars`, `LimitInit`, `LimitNext`, `TradeCycle`), and
  `DepthAndNews_proofs` about `DepthPlanning` and `VolatilityNews` (`depthVars`,
  `DepthInit`, `DepthNext`).
* `PairBroker` - the option pair broker of case1 with the plans the strategy
  hands it, beside an exchange, a case that may end and a process that may stop
  at any call and be started again.
* `Inventory` - balanced ETF inventory over a heat: the lots that explain it,
  the bundles that open and close them, the converter window, and a person who
  converts by hand.
* `RiskMark` - the risk mark, its drawdown flag and loss guard, and what they
  let a cycle do to the gross exposure.
* `Driver` - `main.run` over several heats of a simulator.
* `DepthPlanning` - what the case2 program computes from order books: levels,
  fills, arbitrage plans, market closes, the conversion proposed, the mark.
* `Campaign` - the decisions of `Strategy.evaluate` over a heat.
* `NewsItems` - what both case1 programs read from volatility news, as
  operators on a set of items; `VolatilityNews` and `VolatilityAssistant`
  extend it.
* `VolatilityNews` - the volatility model and the polls that feed it.
* `VolatilityAssistant` - the read-only assistant and the person it advises.
* `DeltaLimit` - the main loop around the announced delta limit.

The two bots share nothing, and neither do their modules. Within a bot each
module follows one concern over the state that concern depends on and lets the
others choose freely: `Inventory` lets a bundle trade as a whole where
`MarketExecution` follows its legs; `Campaign` lets a closing plan be filled in any
part and an entry leg by leg where `PairBroker` follows its orders; both let prices offer any plan where
`DepthPlanning` works it out.

How state and actions correspond to the code:

| Model | Code |
|---|---|
| `kind`, `bstatus`, `quantity`, `remaining`, `istatus`, `deadline` | `TradeBundle.reason` and `.status`; `OrderIntent.quantity`, `.remaining`, `.status`, `.deadline_tick`. A bundle is its number in creation order, an intent the pair of a bundle and a leg |
| `position` / `server` | `STATE.positions` / the account itself, which a lost reply moves apart |
| `near[l]`, `far[l]` | the shares of the current book within and beyond the limit price of the leg's intent: prices are abstracted to this distinction, the only one `_acceptable_quantity` makes |
| `remembered`, `forgotten`, `gone` | whether `last_status` is ACTIVE; what dropped bundles still owed the account, per leg, and how many were dropped (histories) |
| `BeginCycle` | an ACTIVE poll of `run` and the reads of `step_once`; if no poll is remembered, `reset_for_new_heat` first (`ResetForNewHeat`). A read that fails leaves the bundles alone, and is a stuttering step; after a reset it is that reset, which the next poll makes anyway |
| `IdlePoll` | a poll that is not ACTIVE, in a pause or without content, which is remembered in place of the last one |
| `PlaceArb`, `TakeTender`, `LoseTenderReply`, `PlaceNothing` | the decisions after `busy`, with depth and risk checks; which profitable plan is chosen is nondeterministic |
| `Prepare` | `_prepare_bundles` and the call of `active_intents` |
| `Skip`, `Post`, `PostRaises`, `Settle` | one turn of the loop of `fulfill_market_intents`, with every outcome of the request, and its last loop. `PostRaises` leaves `remembered` as it was, `Settle` sets it (`main.py:81-84`) |
| `Reconcile`, `Cancel`, `Confirm` | `_reconcile` and `_cancel_and_reconcile`, one action per HTTP call |
| `PostPassive`, `PostAggressive`, `PostUncertain` | `_post_limit` with the order's immediate fill and status, or without a usable answer |
| `CallRaises`, `Interrupt`, `StopCancel`, `StopConfirm`, `Exit` | `ApiException` in the reconcile loop; a signal or a transport error; `cancel_live_orders` |
| `ExchangeFills`, `ExchangeDrops`, `StrayFills` | what the exchange does with resting orders (external) |

`resting[i]`, `unseen[i]` and `stray[i]` split an intent's live order into the
shares that still work at the exchange, the shares it filled that `OrderState`
does not know of yet, and the shares of an order whose POST failed.

`PairBroker` follows one strike. Option positions are counted in the campaign's
direction and the stock in the direction opposite to the options' delta, so
that long and short straddles are one model:

| Model | Code |
|---|---|
| `pos`, `working` | the account, and the signed shares of a leg's order that still work at the exchange; both outlive the process |
| `plan`, `expected`, `job`, `order`, `filled` | the plan of `Strategy.evaluate`, `expected_positions`, and the order in flight with what it is for and its `quantity_filled` |
| `pending`, `pair` | `pending_pair` with `first_filled`, `second_filled`, `repair_quantity` |
| `Evaluate` | the plan: a trim of an unmatched pair before an exit or an entry, or a hedge in place of it |
| `CheckOpenOrders`, `Refresh`, `RefuseEntry`, `RefuseReduction`, `Disturbed`, `Verify` | `execute` and `execute_refreshed_entry` up to the first order |
| `Post`, `PostRaises`, `Poll`, `TimeOut`, `Recheck`, `Confirm` | `order` and `confirmed_order`, with every reply of POST and DELETE |
| `Complete`, `Settle`, `Repair` | `drain_pair` |
| `HedgeAfterBatch` | `hedge_after_batch` |
| `ExchangeFills`, `ExchangeDrops`, `CaseEnds`, `Restart` | the world around (external) |
| `Abort` | any call that raises, and a signal: `main` prints and ends |

The other modules:

| Model | Code |
|---|---|
| `Inventory`: `account`, `position`, `reconciled` | one signed number for the three legs of balanced inventory, at the simulator and in `STATE.positions`; `positions_reconciled` |
| `bundles[i].open`, `.offset`, `.closes`, `.applied`, `.target` | `open_quantity`, `offset_quantity`, `closes_reason`, `inventory_applied`, `closes_bundle_id` of a bundle |
| `ReadPositions`, `NothingToProgress`, `AbortConversion`, `ConfirmConversion` | `positions_map` and `progress_manual_converter`, two steps of one cycle between which the person may convert |
| `FallBack` .. `NoPlan`, `Fulfil` | the decisions after `busy`; `fulfill_intents` ending in `_apply_inventory_closes` |
| `PersonConverts`, `DeadlinePasses` | the person at the Assets window and the clock (external); `instructed` remembers whether every conversion was one the window asked for, in time and not between the two reads of a cycle |
| `RiskMark`: `BeginCycle(t, v)` | the reads of a cycle at tick `t` with liquidation value `v`, `update_risk_mark`, `pnl_risk_profile`, `loss_growth_guard_active` |
| `flight`, `stuck` | the gross an unfinished bundle leads to; a dropped bundle that stays INCOMPLETE |
| `Driver`: `now`, `read`, `last`, `owner` | the case at the simulator, of this poll and of the poll before; the heat the state was built in |
| `GetTickStatus`, `EmptyAnswer`, `Begin`, `Stop`, `Pass`, `Continue`, `CancelRaises`, `Trade`, `StepRaises` | one poll of `run`, every request of which may fail |
| `DepthPlanning`: `RecordBook` | `get_order_book` of one ticker; everything else is an operator on the books |
| `Campaign`: `self`, `model` | the fields of `Strategy` the decisions read; event key, latest release and confidence of the volatility model |
| `Poll`, `Execute`, `Hedge` | `Strategy.evaluate`; what the broker makes of a plan that closes: all, a part or none of either leg; a hedge, which brings the delta back |
| `OpenPair`, `DrainPair` | an entry: its first leg, and unless that fails `drain_pair`, which fills the second as far as it goes and sells the excess of the first, to flat if need be |
| `DeltaLimit`: `ReadCase`, `ReadNews`, `Configure`, `Recheck`, `Refuse`, `TradeCycle` | the loop of `main`, one action per request or decision |
| `VolatilityNews`: `ReadCase`, `ReadNews`, `Verify` | the three reads of a cycle; the last one updates the model or discards the cycle |
| `VolatilityAssistant`: `ReadCase`, `ReadSecurities`, `ReadNews`, `Update`, `UpdateInactive`, `Fail` | the requests of `case1_simple.main`, `Assistant.update`, and its `except` |
| `screen` | what the last update printed, by kind of line |

Edge, stress, delta, news and capacity decide whether an attempt goes on; in the
model each may end it whenever the code asks. A lost POST has either reached the
exchange before the process stops or never does. (This and the table before are
about `PairBroker`.)

## Runs

| Run | Question | Result |
|---|---|---|
| `market` | under the market policy: is the account, with what resets have forgotten, hedged or exactly what is being worked missing; one bundle at a time; limits at every fill as long as nothing was lost or forgotten; what does one lost reply cost; does the executor implement `HedgeObligation`, liveness included | holds |
| `market_dropped` | is the strategy free again after a bundle was dropped | violated, see Findings |
| `limit` | under the limit policy: do late, partial and stray fills stay within the plan and bookable; is the account hedged or being hedged; one leg at a time before the start; the safe part of `HedgeObligation` | holds |
| `broker` | one order at a time; legs matched between batches and never more than a batch apart; no reversal; the pair's book is the account; exits only reduce; does a pending pair always end | holds |
| `inventory` | are lots backed by the account and the fallback only the remainder, with a person who keeps to the instruction; do exits find their lots and windows close with any person | holds |
| `risk` | do drawdown and loss guard bound the exposure | holds |
| `driver` | is every heat traded, with a state of its own | holds |
| `campaign` | is what was given up ever bought back; is a release that left something held entered again; is everything closed at the end of the heat | holds |
| `delta` | is each cycle under the announced limit of its own sub-heat | holds |
| `news` | does the model of the weeks depend on how polls divide the news; does the baseline predate the release | holds |
| `advice` | is every item announced; one entry advice a tick; is what is held on the screen | holds |
| `depth` | are plans, conversions, fallbacks and marks what the orders in the books make them | holds |

Bounds. Two bundles are the least number in which one bundle can disturb the
next; the second sees every state the first can leave. Under the market policy
two shares a leg of an arbitrage give empty, partial and full fills; under the
limit policy a tender's exit has two shares and several orders, an arbitrage
one. `ArbDeadline` is zero and a heat has one tick, so a deadline passes before,
between and after fills. The depths hold none, too little and enough. One lost
reply (`MayLose`) and one direction suffice: the directions differ in the signs
alone. An exchange fill is one share; several make a larger one. `market` checks
deadlock; under the limit policy the process really stops.

Three bounds are on interruptions under the market policy. One dropped bundle that
owed something is counted in `forgotten` (`MayForget`): after it no poll is idle
and no request fails until a cycle went through, so that no second one is dropped.
Bundles that owe nothing may be dropped any number of times, and `MaxBundles`
counts them (`MayCreate`). And a poll is idle before a reply is lost (`MayPause`);
the failed request that loses one may follow.

`broker` has batches and targets of up to three pairs, so that a first leg may
fill in one or two shares of three and its completion or its rollback in part,
twice; every loop has two attempts instead of three, four or eight, the least
number with a first, a last and a repeated one; three processes let one start
from what another left behind, and a third from that. It does not check
deadlock: the process really stops.

`inventory` has blocks of two units with orders of one, so that a conversion
takes several lots and an exit a part of one; two blocks let a window be
confirmed in part; three bundles open, close and reopen inventory. `risk` has
marks far below, at and above the thresholds and exposures below and above each
target, over a heat that passes the late ticks; its thresholds are those of the
code in units of 2,500 CAD. `driver` has three heats of four ticks: the state of
a heat meets the next one and the one after it. A heat is polled before it is as
old as the last poll of the heat before: the program tells heats apart by the
tick (Observations says what happens otherwise). `campaign` has one strike, two
pairs (which can be halved and trimmed), inherited positions of every shape, two
releases that can be found a tick late beside an older item, and three ticks: an entry, its
rollback and repetition or its repair, and a second release come before the last
tick, at which everything must be closed.
`delta` has the least limit accepted and the
largest refused (1001 and 1000), and the supplied and the default one among the
announced. `news` and `advice` have heats of two weeks of two ticks; items say
something of one week or of two, and a poll may miss any of them; ids follow
publication, as the simulator's do while they have one length. `depth` has every book of up to two orders a
side for a stock and the ETF and deep books for the rest; the prices make one
direction profitable, the other or neither.

These modules do not check deadlock where their heats end for good, as the
bounds make them.

Assumed of the constants: a heat is no longer than a tender's life of 300 ticks
(`HeatAssumption`). `RiskLimitsHold` also needs room for one leg within the net
limit, as the default limits (net 25,000, orders of 5,000 ETF shares) leave it:
`load_risk_limits` does not ensure it.

Fairness (`FairSpec`). The driver polls for as long as the heat lasts, so an
enabled step of the program is taken (`WF_vars(Next)`). The market shows depth
for every leg again and again, and not every order is refused for ever (strong
fairness: each can come and go; it is one condition on all orders, not one on
each). The code needs both: it has no other way to complete a leg. Nothing is
assumed of prices, of the start of a bundle or of the deadline. `PairBroker`
assumes only that the program takes its next step (`WF_vars(Program)`): each call
returns, times out or raises, and the deadline of an order passes. Nothing is
assumed of the exchange. `Inventory` assumes the same of the program and that the
clock of a window runs on (`DeadlinePasses`); nothing is assumed of the person.
`Driver` assumes that run() polls on and that a request which fails does not fail
for ever (strong fairness of the actions with a request): without it no program
could trade the heat. `Campaign` assumes that the loop polls and executes, that a
hedge brings the delta back, and, strongly, that a closing batch is not kept out
for ever by the limits or the market: its size is cut to a delta budget, and its
orders may go unfilled, so the code cannot do better. The strong conditions are
about the end of the heat alone (`tick >= ForceExit`).

## Proofs

Every theorem is about every value of the constants that satisfies the named
assumptions of its module. Each follows from an inductive invariant, of which
TLC checked the safety properties first.

`MarketExecution_proofs`:

* `TypeCorrect`: `Spec => []TypeOK`;
* `BundlesOneAtATime`: `Spec => []OneWorkingBundle`;
* `AlwaysHedgedOrBeingHedged`: `Spec => []HedgedOrBeingHedged`. What a reset inside
  the heat has forgotten is counted in: the account itself is then off by exactly
  what the dropped bundle still lacked, for good;
* `PromiseIsKeptSafely`: `Spec => Obligation!SafePromise`, the safe part of the
  refinement of `HedgeObligation`, with `remembered` for `kept`: what a plan that
  has begun cannot survive is a reset, and a reset comes only before a cycle went
  through since the heat began or a poll was not ACTIVE;
* `LossIsBounded`: `Spec => []OneLossOneOrder`, forgotten shares counted in as well.
  A reset needs no lost reply, so the account itself may be further from a hedge
  than one order;
* `LimitsHoldAtEveryFill`: `Spec => []RiskLimitsHold`, if `2 * OrderQty <= MaxNet`.
  It says nothing after a reset dropped a bundle that owed something (Observations
  has the fills that then pass the net limit);
* `StartedInOneGo`: `Spec => []HedgingOnlyAfterShortfall`.

`BundlesOneAtATime` and `AlwaysHedgedOrBeingHedged` are not inductive. `IInv` adds what a step relies on:

* `IntentsInShape` - an active intent lacks something, in its direction and no
  more than its quantity; a FILLED one lacks nothing; a leg without an intent
  has no quantity; a CANCELLED one belongs to a bundle no member of which is
  active;
* `PlansInShape` - an arbitrage or closing bundle's quantities are hedged by
  themselves; the deadline of a tender's exit lies beyond the heat, so that
  only plans that are hedged by themselves can be dropped;
* `TodoIsActive` - the loop only visits intents that are still active, which
  makes the amount of an order at most what its intent lacks.

A new bundle keeps the invariant because it is only created when no intent is
active (`AddBundleKeeps`); a reply because it moves as much out of the intent as
into the account (`FillKeeps`, `PostKeeps`); the deadline because a bundle of
which nothing traded still lacks its whole plan (`UnstartedIsWhole`,
`PrepareKeeps`). Everything else leaves intents and account alone
(`SameIntents`).

A reset keeps it because no intent is left, and `forgotten` takes over what the one
bundle that was worked still owed. A bundle that owed nothing was a hedge by itself
and untouched.

The other theorems rest on `IInv` and on one fact each:

* the refinement on `LeftIs`: the abstract plan is what the one working bundle
  still owes, and an abstract plan has begun when this bundle has started. From it
  each step is one of `HedgeObligation` or a stutter (`StepIs`);
* the loss on `Even`, said of the account with what is left added to it
  (`Aim`), at which the legs are never further apart than one order or one tender.
  A fill that is booked leaves the aim where it is; only the one fill that is not
  booked moves it, by what it traded (`TradedAims`), and every bundle opened later
  is a hedge by itself;
* the limits on `BoxIsSafe`: whichever legs of the open plan are done, the account
  is within them. Gross and net are monotone between two positions that differ in
  one leg (`BetweenIsWithin`), so the corners bound every partial fill. A tender's
  exit and a closing bundle are created with their corners checked
  (`_route_is_safe`), an arbitrage only with its final position, which is where
  the hypothesis comes from: its first leg may open two shares of net exposure for
  each share. By default `ORDER_QTY` is 5000 and the net limit 25000; a limit that
  the server reports in its place must be at least 10000. What the decision reads
  is the account unless a reply was lost (`DecidesOnAccount`);
* the start in one go on `StartsWhole`: a bundle that fits one order per leg, and
  of which no order fell short, is between cycles untouched or filled whole; inside
  the loop each of its legs is filled or still to be visited, with the full depth
  it needs in sight (`InOneGo`).

`LimitExecution_proofs`:

* `ExposureStaysWithinPlan`: `Spec => []ExposureWithinPlan`;
* `LateFillsAreBookable`: `Spec => []LateFillIsBookable`;
* `AlwaysHedgedOrBeingHedged`: `Spec => []HedgedOrBeingHedged`;
* `LegsWaitTheirTurn`: `Spec => []OneLegAtATimeUntilStarted`;
* `PromiseIsKept`: `Spec => KeepsSafePromise`, the safe part of the refinement.

The first two follow from `OrdersFit`: of each intent, what may still trade for it
(resting, unseen or stray) fits into what remains of it, and an order that may
still trade is one the program knows of and keeps its intent active (`Sound`).
An order sized by what remains cannot break this, because an order that may
still fill is cancelled and reconciled before the next one. The third adds
`Balanced`, the shape of intents and plans as under the market policy, and
`LossEnds`: only an order of which the fate is unknown is a stray one, and it
ends the program. What an intent owes (`Owed`) leaves out the fills that the
program has not seen, so a fill moves as much from what is owed into the account
(`FillBalances`) and booking it later changes neither. `LegsInTurn` adds that a
bundle with an order was tried, which is what keeps a second leg from being
posted beside it; the promise needs `LeftIs` as above, with the late fills that
are booked in between (`FillFulfils`).

`PairBroker_proofs`:

* `OrdersAreAlone`, `LegsReturnMatched`, `LegsAreWithinBatch`,
  `NothingIsReversed`, `BookIsAccount`: `Spec => []` of `OneOrderAtATime`,
  `MatchedBetweenBatches`, `UnmatchedWithinBatch`, `NoReversal` and
  `PairBookMatchesAccount`;
* `ReductionsOnlyReduce`: `Spec => ExitsOnlyReduce`.

The invariant `IInv` has four parts beside types. `AtMostOneWorks`: an order
works only while it is watched, or because its process stopped. `InBounds`: the
account is within its bounds with and without what works, so a fill, of which
the rest works on, stays between the two. `AccountFits` says what each place of
the program knows: the plan or the order was made for the expected account
(`PlanFits`, `OrderFits`), the account is the expected one and what the order
filled (`Followed`), the legs are as far apart as the pair's book says
(`PairStands`). `FirstProcess`: before any restart the legs are apart only while
their pair is traded. Only a process that was started again finds legs apart, and
it can do so only within a batch, because it trades nothing while an order works.

`Inventory_proofs`, for every size of blocks, orders and inventory and any number
of bundles and conversions:

* `TypeCorrect`: `Spec => []TypeOK`;
* `LotsAreBacked`: `Spec => []LotsBackedByAccount`;
* `ExitsFindTheirLots`: `Spec => []ExitFindsItsLot`;
* `FallbacksOnlyForRemainder`: `Spec => []FallbackOnlyForRemainder`, for a person who
  follows the instruction. It leaves out the one order in which the code trades a
  block that was converted in time: between the read of the positions
  (`strategy.py:706`) and the look at the clock (`:583`) of one cycle.

`LotsBackedByAccount` speaks of a cycle that decides; between two decisions the
account moves first, by a person or a fill, and the lots follow. The invariant
`IInv` says by how much:

* `Backed` - the open lots of a direction, less the converted blocks that are still
  to be taken from them (`Unconfirmed`), are covered by the account;
* `ConversionsBooked` - while a window is open the account is what it was when the
  window opened less the blocks of the offer that were converted, so that what
  `converted_blocks` computes is exactly this number and no conversion that was
  asked for is aborted (`AbortKeeps`);
* `OffsetsInventory` - the offset of a waiting arbitrage or tender is still the
  inventory there is, because nothing else trades while it waits
  (`OneThingAtATime`);
* `BundlesInShape` - what has been filled has closed its lots, once, so that
  `_apply_inventory_closes` closes at most the one bundle that has just been filled.

Sums over lots and passes over bundles are recursive functions. That every set of
naturals has a least element (`LeastOfNaturals`) gives induction over numbers and
over sets of lots as lemmas about sets (`NaturalsFollow`, `SetsFollow`), and with
them `OpenIs` (the sum does not depend on the order the lots are taken in),
`ConsumeTakes` (oldest-first consumption of q takes q in all, or all there is),
`NothingCloses` and `OneCloses` (what a pass over all bundles leaves). `TradeIs`
puts them together for a fill.

`DriverAndRiskMark_proofs`, about `Driver`: `StateIsOfThisHeat`:
`DriverSpec => []StateBelongsToHeat`, for any number of heats and ticks. A heat is younger than the last ACTIVE poll of another
one (`Distinguishable`, from `Timely`), so its tick tells it apart; and the heat
remembered, that of the state, the one read and the one played come in this order
(`InOrder`), whichever request failed.

About `RiskMark`, for every portfolio, plan and number of ticks:

* `GuardNeverLetsExposureGrow`: `Spec => GuardStopsGrowth`. The flag is what
  another look at the same marks would make of it (`GuardSteady`), and nothing is
  marked while a bundle is on its way: the guard cannot turn on behind a bundle
  that makes the exposure grow.
* `DrawdownIsBounded`: `Spec => []DrawdownBoundsGross`. A drawdown begins only with
  no bundle on its way, and what was held then stays its ceiling.

Both need that the median of three marks exists (`MedianExists`).

`IntegratedVariance_proofs`, about `Campaign`, for any strikes, sizes, inherited legs, horizons, schedule of
releases and partial fills:

* `NothingIsAddedBack`: `Spec => []NoAddBack`;
* `ReleasesAreTradedOnce`: `Spec => ReleaseTradedOnce`.

Both need to know what `self` remembers between two evaluations, and what a plan
rests on until it has been executed. The invariant `IInv`, beside types:

* `AtMostOne`, `OnStrike` - one strike is held, that of the campaign, so that the
  loop of an evaluation over the strikes held has at most one turn;
* `GivenUp` - a strike of which something was given up is on its way out, or has
  been scaled, or the target of its campaign is no more than what both legs hold;
* `Marked` - a release on which an entry left something held counts as used, at the
  latest from the evaluation that first sees what was filled. Between the end of
  the entry and that evaluation the account holds something and there is no plan,
  so nothing can be entered;
* `PlanFits` - an `ADD` has a campaign and nothing to buy back, and from flat its
  release is not used; an `EXIT` or a `LEG` is of a strike on its way out, a
  `SCALE` of a scaled one; a `TRIM` or a `REDUCE` leaves at least the target
  (`SizeAfterFill`), in whatever part it is filled;
* `PairFits` - an entry between its two legs is of the campaign's strike, with nothing
  to buy back; if it began from flat its release is not used, and if not, its first
  leg has left something held (`OpenPairKeeps`).

`ReleasesAreTradedOnce` speaks of entries that left something held. One that was
rolled back to flat marks nothing (Observations), and the theorem does not bound how
often the code tries again.

An evaluation passes `self` through the steps of the code, of which each decides or
hands on. What each leaves is one lemma (`NoticeSound`, `RepairedReviewed`,
`AssessReviewed`, `ReviewReviewed`), what each decides another (`RepairSettles`,
`ExitSettles`, `ScaleOutSettles`, `ResizeSettles`, `OpenSettles`), and all rest on
`GivingUpMore`: a step may end a campaign, lower its target, or put a strike on its
way out, but never takes that back while the strike is held.

`IntegratedVariance_proofs`, about `DeltaLimit`, for every set of limits and any
number of sub-heats:

* `GatesAlwaysNested`: `LimitSpec => []GatesAreNested`. The gates are minima of
  constants and fractions; that they are in order for every limit above 1000
  is arithmetic (one lemma), and that no other limit is ever configured is the
  invariant.
* `AnnouncementGoverns`: `LimitSpec => []TradesUnderAnnouncement`. A cycle reaches its
  trade only from `Configure` or `Recheck`, and the invariant carries from there
  that an announcement which was found is the limit in force.
* `LimitsAreNotCarriedOver`: `LimitSpec => []LimitOfThisSubHeat`. A sub-heat that was not
  polled yet has another period or is younger than the last poll (`OwnLimit`), so
  `ReadCase` drops what was configured before.

`VolatilityAssistant_proofs`, for every feed of news and schedule of polls:
`NewsIsNotLost` (`[]SeenIsAnnounced`), `ScreenIsCurrent`
(`[]InstructionsAreCurrent`) and `AdviceOncePerTick` (`OneAdvicePerTick`). The
invariant `Known` adds that a tick that was advised on counts as printed
(`AdvisedIsPrinted`) and that heats can be told apart; what each ending of
`Assistant.update` has in common is one lemma about its result (`Consistent`).

`GatesAreNested` is a statement about arithmetic alone, so no run checks it: the
theorem covers every limit.

`DepthAndNews_proofs`, about `VolatilityNews`, for any weeks, texts, schedule of
items, quotes and polls:

* `BaselineCorrect`: `Spec => []BaselinePredatesRelease`;
* `ScheduleCorrect`: `Spec => []AgreesWithSchedule`.

The invariant `NewsInv`, beside types and the numbering of items:

* `PollsAreRecent`, `ReadIsFed` - what was read in another heat can be told from the
  server's clock, and what was read in this one has been published;
* `SeenIsKnown` - every item the model counts as seen is of the heat and period of
  the last poll, no younger than that poll, and says something about a week;
* `MissedAreLater` - as long as no item has been overtaken, what is published and
  not seen comes after everything seen, so that a pass over the new items continues
  the pass over the old ones (`InOrderJoins`);
* `WeeksAreScheduled` - as long as none has been overtaken, the weeks are those of
  one pass over everything seen (`PassSchedules`);
* `BaselineIsKnown` - observations are in the order of their ticks up to the last
  poll, and the baseline is the last one before the latest release (`StepFits` for
  an item, `QuoteFits` for an observation).

About `DepthPlanning`, for any books, orders, portfolios of those that occur, fees,
thresholds, limits and sizes of blocks:

* `PlanIsBestAlways`: `DepthSpec => []PlanIsBest`;
* `FallbackAlways`: `DepthSpec => []AnyRemainderCanFallBack`;
* `MarkBoundsProceedsAlways`: `DepthSpec => []MarkBoundsProceeds`.

The invariant `DepthInv` is short: books are what was recorded of lists of orders
with natural prices and quantities, and positions are integers. The work is in the
functions. A plan is a pass over the quantities that keeps the best acceptable one
so far (`BestOf`). A fill is a walk down levels at values of a share that only get
worse, as a sale at falling bids or a purchase at rising asks (`FillWalks`), which
gives three facts by induction over the levels:

* no share is worth more than one of the best level (`WalkBest`), and with it
  `CloseBounds` for one ticker; `DollarsGrow` carries the proceeds of RITC through
  the dollars they come in;
* a smaller order is filled when a larger one is, and at no worse a value a share
  (`WalkConcave`). What a trade brings is a sum of such values and of fees that are
  proportional, so it inherits this (`ExpectedConcave`), and a loss within the bound
  at all blocks of a proposal is within the bound at any block that is left;
* a complete fill takes no more than the orders at the prices of its levels hold,
  which are pairwise different (`WalkVisible`).

Passes over sequences are folds of the community modules, whose definition chooses
a function on sets of positions. That there is one, and what it leaves after each
position, is a lemma for each fold (`FoldExists` and `RunExists` in general;
`UpdateFolds`, `ScheduleFolds`, `PassFolds`, `FillFolds`, `PlanFolds`,
`SharesAtFolds`, `SharesFolds`). Both `InOrder` and `Sorted` choose the one
enumeration of a finite set in its order, which exists by induction over the size of
the set (`SortedExists`).

Every invariant and every action property that a run checks is stated by a theorem. Only model-checked are the liveness properties `KeepsPromise`,
`PendingResolves`, `WindowResolves`, `EveryHeatIsTraded` and `EventuallyFlat`, which
rest on fairness and are out of the prover's reach.

## Findings

* `market_dropped`: a bundle dropped at its deadline becomes `INCOMPLETE` one
  cycle later (`fulfillment.py:71` resets CANCELLED to PLANNED, `:183` finds no
  active member) and keeps the strategy busy for the rest of the heat, against
  the comment at `strategy.py:65`.

### Observations

Places met while modelling where the code does something a reader of its
comments would not expect. No run is kept for them; each says what the model
does about it.

* `limit_fulfillment.py:46`: `_reconcile` adds fills to positions that were
  refreshed after them, so a fill counts twice until the next refresh. Modelled
  as it is; no property reads the local positions in between.
* `limit_fulfillment.py:144`: one failing request ends `cancel_live_orders` and
  leaves the later orders working. Modelled as it is.
* `strategy.py:583`: the deadline of a converter window is checked after the
  positions were read, so a block converted in between is closed in the market as
  well; `strategy.py:553`: a block converted after the window is taken from no
  lot. Both happen in `Inventory`; `LotsBackedByAccount` and
  `FallbackOnlyForRemainder` are about a person who did neither.
* `strategy.py:774`: a fallback returned in a cycle with a missing quote is
  dropped. Modelled as it is.
* `state.py:260`: the median of a single mark is that mark, so one outlier at the
  beginning of a heat turns the loss guard on. Modelled as it is.
* `main.py:81`: a poll is remembered after its cycle. An `ApiException` in the first
  traded cycle of a heat skips that line (82-84) while `seen_heat` is already set
  (61), so the next poll is a new heat again and drops the state of the running one
  (60): a bundle with one leg filled, or an accepted tender whose exit raised, is
  forgotten, and nobody trades what it still lacked. The same happens after any
  cycle that raises before one went through. No reply need be lost. Modelled in
  `MarketExecution` as it is (`PostRaises`, `ResetForNewHeat`): the properties count
  in what was forgotten. What they do not bound is what the decisions make of such an
  account. With the default limits, a forgotten tender of 10,000 RITC leaves a net
  position of 20,000; an arbitrage of 5,000 that sells the ETF is admitted on its
  final net position (`arbitrage.py:119-123`), which is no larger, and is beyond
  25,000 once BULL and BEAR have been bought. `RiskLimitsHold` is therefore about
  heats in which nothing that owed something was forgotten. Under the limit policy
  no `ApiException` leaves a cycle that has placed an order: `_post_limit` makes it a
  `RuntimeError`, which ends the process.
* `strategy.py:191`: an empty answer to the read of the case ends the heat for the
  program, and the next poll drops the state of the running heat. Modelled as it
  is in `Driver`, where the state it builds then is again one of that heat, and in
  `MarketExecution` (`IdlePoll`) with what is forgotten. `LimitExecution` follows
  one stretch of polls between two resets and leaves it out. `StateBelongsToHeat`
  accepts a state that is built anew inside its heat, here and after `main.py:81`.
* `main.py:52`: after an interruption that outlasts the pause and as many ticks of
  the next heat as the old one had polled, the tick is not smaller and the heat
  is traded with the state of the one before. Left out by `Timely`.
* `case1_integrated_variance.py:665`: a release is marked as used when a poll finds
  something held. An entry whose first leg fills and is rolled back to flat
  (1035-1056, as in `test_exclusive_pair_completion_or_rollback`) leaves no mark, and
  the next poll enters on the same release again, against the `release already
  traded` of 785-786. Modelled as it is (`OpenPair`, `DrainPair`);
  `ReleaseTradedOnce` is about entries that left something held. A rollback that is
  blocked or exhausted ends the program, which `PairBroker` follows and `Campaign`
  does not.
* `case1_integrated_variance.py:277-280`, `777-783`: an unheld strike without a valid
  quote is missing from the candidates, so that a campaign opened at that strike, of
  which nothing is filled yet, trades the strike selected in its place, and two
  strikes may come to be held. In `Campaign` quotes and valuations are there for
  every strike or for none.
* `limit_fulfillment.py:113-117`: an order that its POST reports as filled, with a
  status that is not terminal, stays live while its intent is FILLED and the
  strategy not busy. In `LimitExecution` the program decides nothing in the cycle
  that looks the order up, and goes on in the next.
* `valuation.py:1` calls the mark conservative. It values a position at the best level
  alone, so it is never below what closing brings, and above it where the best level
  is thin; `MarkBoundsProceeds` says just that.
* `case1_simple.py:61`: items of one tick are ordered by their id as a string, '10'
  before '9'. `NewsItems` orders numbers, so its ids are those of one length.
* `case1_integrated_variance.py:664`: an older item found late ends the cooldown
  as a new release does. Modelled as it is.
* `case1_integrated_variance.py:1400`: without an announcement the sub-heat is
  traded under 7,000, which `INTEGRATED_VARIANCE.md:11` rules out. Modelled as it
  is.
* `case1_integrated_variance.py:213`: a forecast keeps out an exact volatility of
  an older tick that is found after it. Modelled as it is; `AgreesWithSchedule`
  stops at the first item that is found after a later one.
* An order of an old heat that can never be looked up makes `cancel_live_orders`
  raise at every poll, and no later heat is traded; an error of the transport (a
  timeout) is not an `ApiException`, so it leaves `run()` and ends the process.

## Plan

1. (done) `Intentions`, `MarketExecution`, `LimitExecution`, `HedgeObligation`
   and the first theorems.
2. (done) `PairBroker`: the confirmed order, the paired entry and exit with
   completion, rollback and stop, restarts, and the repair of an unmatched pair.
3. (done) `Inventory`: lots, closes, offsets, conversions, the window and the
   person who converts; `RiskMark`; `Driver` over several heats; `DepthPlanning`.
4. (done) `Campaign`, `NewsItems` with `VolatilityNews` and `VolatilityAssistant`,
   and `DeltaLimit` with its theorems.
5. (done) Theorems about both executors, the pair broker, the driver, the risk mark
   and the assistant.
6. (done) Theorems: the corners checked by `_route_is_safe` bound every partial
   fill, and with it `RiskLimitsHold`; `OneLossOneOrder`,
   `HedgingOnlyAfterShortfall` and `OneLegAtATimeUntilStarted`; the safe part of
   the refinement for both executors; the invariants of `Inventory`;
   `NoAddBack` and `ReleaseTradedOnce` of `Campaign`.
7. (done) Theorems: both properties of `VolatilityNews` and the three of
   `DepthPlanning`, on lemmas about folds, enumerations in order and walks down a
   book.

## Not modelled

* Prices in the modules about control: they enter through the choice of
  quantities, edges and plans. `DepthPlanning` has them, in whole numbers; the
  age of a book, the delay buffer and a minimum advantage above zero are left out
  there.
* Option valuation and Greeks, with the fair and the stressed variance of the
  volatility model, which are closed formulas in floating point;
  `Campaign` and `VolatilityAssistant` take what they say as an input.
* The candidate grid and the prices of `evaluate_fixed_tender`, which only narrow
  the choice `Intentions` leaves open.
* The convergence residual, which decides which exit is offered.
* The retries of `api.py` after HTTP 429, configuration from the environment, and
  output: logs, dashboard, `dma.py`.
* The trade ledger of case1, which keeps sums over the fills it is told of for the
  log; no decision reads it.
* The offline optimizer, one call of a solver over recorded snapshots; the archived
  strategies; `unused.py`.

An executor's book is the one read at the start of the cycle, as in the
code; that the real book moves is in the fills an order gets.
