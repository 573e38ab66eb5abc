--------------------------- MODULE DepthPlanning ---------------------------
(***************************************************************************)
(* What the case2 program works out from a set of order books: the levels  *)
(* of a book, the fill of a marketable order, the arbitrage of either      *)
(* direction, the market close of inventory and the manual conversion      *)
(* preferred to it, and the liquidation value of a portfolio. The state is *)
(* what these depend on: books read one at a time, and positions.          *)
(*                                                                         *)
(* Prices are whole numbers in the currency of their ticker; USD/CAD and   *)
(* amounts in CAD are scaled by Rate.                                      *)
(***************************************************************************)
EXTENDS Integers, Sequences, FiniteSets, SequencesExt, FiniteSetsExt

CONSTANTS
  Moving,      \* tickers whose books change
  Quantities,  \* quantities of the orders in a book
  MaxEntries,  \* bound: orders on a side of a book
  Inventories, \* portfolios that occur
  MaxQuantity, \* quantity limit of an arbitrage
  Fee,         \* market_fee, a share
  MinEdge,     \* minimum_net_edge_cad, in CAD times Rate
  MinProfit,   \* minimum_profit_cad, in CAD times Rate
  MaxGross,    \* gross limit
  MaxNet,      \* net limit, either way
  Block,       \* BLOCK_SIZE
  MaxBlocks,   \* conversions proposed at once
  BlockFee,    \* FEE_USD_PER_BLOCK
  MaxLoss      \* max_fallback_loss_cad_per_block, in CAD times Rate

Rate == 100

Tickers == {"BULL", "BEAR", "RITC", "USD"}

ASSUME DepthAssumption ==
  /\ Moving \subseteq Tickers /\ Quantities \subseteq Nat
  /\ {MaxEntries, MaxQuantity, Fee, MinEdge, MinProfit, MaxGross, MaxNet} \subseteq Nat
  /\ Block \in Nat \ {0} /\ {MaxBlocks, BlockFee, MaxLoss} \subseteq Nat
  /\ Inventories \subseteq {"FLAT", "LONG_BASKET", "SHORT_BASKET", "UNEVEN", "STOCKS"}

VARIABLES
  due,      \* tickers whose book this cycle has still to read
  books,    \* current_books: aggregated bids and asks of every ticker
  raw,      \* history: the orders the books were read from
  holdings  \* positions

depthVars == <<due, books, raw, holdings>>

Portfolios ==
  [FLAT         |-> [BULL |-> 0,  BEAR |-> 0,  RITC |-> 0,  USD |-> 0],
   LONG_BASKET  |-> [BULL |-> 2,  BEAR |-> 2,  RITC |-> -2, USD |-> 120],
   SHORT_BASKET |-> [BULL |-> -2, BEAR |-> -2, RITC |-> 2,  USD |-> -120],
   UNEVEN       |-> [BULL |-> 2,  BEAR |-> 2,  RITC |-> -1, USD |-> 0],
   STOCKS       |-> [BULL |-> -1, BEAR |-> 2,  RITC |-> 0,  USD |-> -60]]

(* Prices at which a ticker is quoted. *)
Prices ==
  [BULL |-> {24, 30, 33}, BEAR |-> {30, 31}, RITC |-> {50, 60, 61}, USD |-> {100, 110}]

(* An order in a book is a multiple of this. *)
Lot == [BULL |-> 1, BEAR |-> 1, RITC |-> 1, USD |-> 200]

Magnitude(n) == IF n < 0 THEN -n ELSE n
Greatest(m, n) == IF m > n THEN m ELSE n
Least(m, n) == IF m < n THEN m ELSE n

(***************************************************************************)
(* Books: aggregate_levels and record_book.                                *)
(***************************************************************************)
SharesAt(entries, price) ==
  FoldLeft(LAMBDA n, e : IF e.price = price THEN n + e.quantity ELSE n, 0, entries)

Sorted(prices, descending) ==
  CHOOSE s \in [1..Cardinality(prices) -> prices] :
    \A i, j \in DOMAIN s : i < j => IF descending THEN s[i] > s[j] ELSE s[i] < s[j]

AggregateLevels(entries, descending) ==
  LET prices == {e.price : e \in {e \in ToSet(entries) : e.quantity > 0}}
      sorted == Sorted(prices, descending)
  IN [i \in DOMAIN sorted |-> [price |-> sorted[i], quantity |-> SharesAt(entries, sorted[i])]]

Recorded(bids, asks) ==
  [bids |-> AggregateLevels(bids, TRUE), asks |-> AggregateLevels(asks, FALSE)]

Sides(ticker) ==
  UNION {[1..n -> [price : Prices[ticker], quantity : {Lot[ticker] * q : q \in Quantities}]] : n \in 0..MaxEntries}

Uncrossed(bids, asks) == \A b \in ToSet(bids), a \in ToSet(asks) : b.price < a.price

Snapshots ==
  [ticker \in Moving |->
     {s \in Sides(ticker) \X Sides(ticker) : Uncrossed(s[1], s[2])}]

(* Books that do not move: deep enough, one level a side. *)
Deep(ticker) ==
  LET low == Min(Prices[ticker])
      high == Max(Prices[ticker])
  IN <<<<[price |-> low, quantity |-> 9 * Lot[ticker]]>>, <<[price |-> high, quantity |-> 9 * Lot[ticker]]>>>>

DepthInit ==
  /\ due = Moving
  /\ raw = [t \in Tickers |-> Deep(t)]
  /\ books = [t \in Tickers |-> Recorded(Deep(t)[1], Deep(t)[2])]
  /\ holdings \in {Portfolios[x] : x \in Inventories}

RecordBook(ticker) ==
  /\ ticker \in due /\ due' = due \ {ticker}
  /\ \E snapshot \in Snapshots[ticker] :
       /\ raw' = [raw EXCEPT ![ticker] = snapshot]
       /\ books' = [books EXCEPT ![ticker] = Recorded(snapshot[1], snapshot[2])]
  /\ UNCHANGED holdings

DepthNext == \E ticker \in Tickers : RecordBook(ticker)

DepthSpec == DepthInit /\ [][DepthNext]_depthVars

(***************************************************************************)
(* estimate_fill: walk down the levels of the other side.                  *)
(***************************************************************************)
Against(ticker, action) == IF action = "BUY" THEN books[ticker].asks ELSE books[ticker].bids

Taken(fill, level) ==
  LET take == Least(fill.remaining, level.quantity) IN
  [remaining |-> fill.remaining - take, filled |-> fill.filled + take,
   notional |-> fill.notional + take * level.price,
   worst |-> IF take > 0 THEN level.price ELSE fill.worst]

EstimateFill(ticker, action, quantity) ==
  FoldLeft(Taken, [remaining |-> quantity, filled |-> 0, notional |-> 0, worst |-> 0],
           Against(ticker, action))

Complete(fill) == fill.remaining = 0

(***************************************************************************)
(* A trade of the ETF against the basket in one direction, at the cost and *)
(* the risk evaluate_arbitrage and market_close_plan work out.             *)
(***************************************************************************)
Directions == {"BUY_ETF", "SELL_ETF"}
Sign == [BUY_ETF |-> [BULL |-> -1, BEAR |-> -1, RITC |-> 1],
         SELL_ETF |-> [BULL |-> 1, BEAR |-> 1, RITC |-> -1]]
Assets == {"BULL", "BEAR", "RITC"}
Action(direction, ticker) == IF Sign[direction][ticker] > 0 THEN "BUY" ELSE "SELL"

BestBid(ticker) == books[ticker].bids[1].price
BestAsk(ticker) == books[ticker].asks[1].price
Quoted(ticker) == books[ticker].bids # <<>> /\ books[ticker].asks # <<>>

Fills(direction, quantity) ==
  [t \in Assets |-> EstimateFill(t, Action(direction, t), quantity)]

ExchangeRate(direction) == IF direction = "BUY_ETF" THEN BestAsk("USD") ELSE BestBid("USD")

GrossProfit(direction, fills) ==
  LET basket == (fills["BULL"].notional + fills["BEAR"].notional) * Rate
      etf == fills["RITC"].notional * ExchangeRate(direction)
  IN IF direction = "BUY_ETF" THEN basket - etf ELSE etf - basket

Fees(quantity) == quantity * Fee * (2 * Rate + BestAsk("USD"))

Expected(direction, quantity) ==
  GrossProfit(direction, Fills(direction, quantity)) - Fees(quantity)

Executable(direction, quantity) ==
  /\ Quoted("USD")
  /\ \A t \in Assets : Complete(EstimateFill(t, Action(direction, t), quantity))

Projected(direction, quantity) ==
  [t \in Assets |-> holdings[t] + Sign[direction][t] * quantity]

Gross(p) == Magnitude(p["BULL"]) + Magnitude(p["BEAR"]) + 2 * Magnitude(p["RITC"])
Net(p) == p["BULL"] + p["BEAR"] + 2 * p["RITC"]

NoPlan == [quantity |-> 0, profit |-> 0, direction |-> "NONE"]
Plan(direction, quantity) ==
  [quantity |-> quantity, profit |-> Expected(direction, quantity), direction |-> direction]

(***************************************************************************)
(* evaluate_arbitrage and best_arbitrage.                                  *)
(***************************************************************************)
Acceptable(direction, quantity) ==
  /\ Executable(direction, quantity)
  /\ Expected(direction, quantity) >= Greatest(MinProfit, quantity * MinEdge)
  /\ Gross(Projected(direction, quantity)) <= MaxGross
  /\ Net(Projected(direction, quantity)) \in -MaxNet..MaxNet

(* Mutant: plans are compared by the edge of a share. *)
ImprovesPerShare(best, plan, larger) ==
  \/ best = NoPlan
  \/ larger /\ plan.quantity > best.quantity
  \/ ~larger /\ plan.profit * best.quantity > best.profit * plan.quantity

Improves(best, plan, larger) ==
  \/ best = NoPlan
  \/ larger /\ plan.quantity > best.quantity
  \/ ~larger /\ plan.profit > best.profit

EvaluateArbitrage(direction, larger) ==
  FoldLeft(LAMBDA best, q : IF Acceptable(direction, q) /\ Improves(best, Plan(direction, q), larger)
                            THEN Plan(direction, q) ELSE best,
           NoPlan, [q \in 1..MaxQuantity |-> q])

BestArbitrage ==
  LET buy == EvaluateArbitrage("BUY_ETF", FALSE)
      sell == EvaluateArbitrage("SELL_ETF", FALSE)
  IN IF buy = NoPlan \/ (sell # NoPlan /\ sell.profit > buy.profit) THEN sell ELSE buy

(***************************************************************************)
(* balanced_converter_direction, market_close_plan, propose_conversion.    *)
(***************************************************************************)
Opposed(direction) == \A t \in Assets : holdings[t] * Sign[direction][t] < 0

BalancedBlocks(direction) ==
  IF Opposed(direction) THEN Min({Magnitude(holdings[t]) : t \in Assets}) \div Block ELSE 0

ConverterCost(blocks) == BlockFee * blocks * BestAsk("USD")

Advantage(direction, blocks) == -ConverterCost(blocks) - Expected(direction, blocks * Block)

(* Mutant: the loss of a fallback is bounded in all, not a block. *)
BoundedInAll(direction, blocks) == Expected(direction, blocks * Block) >= -MaxLoss * MaxBlocks

FallbackBounded(direction, blocks) == Expected(direction, blocks * Block) >= -MaxLoss * blocks

Convertible(direction, blocks) ==
  /\ Executable(direction, blocks * Block)
  /\ FallbackBounded(direction, blocks)
  /\ Advantage(direction, blocks) >= 0

Proposals(direction) ==
  {n \in 1..Least(MaxBlocks, BalancedBlocks(direction)) : Convertible(direction, n)}

ProposeConversion(direction) ==
  CHOOSE n \in Proposals(direction) : \A k \in Proposals(direction) :
    \/ Advantage(direction, n) > Advantage(direction, k)
    \/ Advantage(direction, n) = Advantage(direction, k) /\ n <= k

(***************************************************************************)
(* valuation: what closing everything at the quotes would bring, in CAD.   *)
(***************************************************************************)
MarkedValue(ticker, n) ==
  IF n > 0 THEN n * BestBid(ticker) ELSE IF n < 0 THEN n * BestAsk(ticker) ELSE 0

(* Mutant: dollars are valued at the friendlier side. *)
FriendlyValue(dollars) ==
  IF dollars > 0 THEN dollars * BestAsk("USD") ELSE IF dollars < 0 THEN dollars * BestBid("USD") ELSE 0

DollarValue(dollars) ==
  IF dollars > 0 THEN dollars * BestBid("USD") ELSE IF dollars < 0 THEN dollars * BestAsk("USD") ELSE 0

LiquidationValue ==
  Rate * (MarkedValue("BULL", holdings["BULL"]) + MarkedValue("BEAR", holdings["BEAR"]))
    + DollarValue(holdings["USD"] + MarkedValue("RITC", holdings["RITC"]))

(***************************************************************************)
(* Properties.                                                             *)
(***************************************************************************)
Shares(entries, Counts(_)) ==
  FoldLeft(LAMBDA n, e : IF Counts(e.price) THEN n + e.quantity ELSE n, 0, entries)
Orders(ticker, action) == IF action = "BUY" THEN raw[ticker][2] ELSE raw[ticker][1]
Visible(ticker, action) == Shares(Orders(ticker, action), LAMBDA p : TRUE)

(* The loop over the quantities finds the most profitable acceptable       *)
(* quantity, or with prefer_larger the largest; the better direction wins. *)
PlanIsBest ==
  /\ \A d \in Directions :
       LET acceptable == {q \in 1..MaxQuantity : Acceptable(d, q)} IN
       IF acceptable = {} THEN EvaluateArbitrage(d, FALSE) = NoPlan
       ELSE /\ EvaluateArbitrage(d, TRUE).quantity = Max(acceptable)
            /\ EvaluateArbitrage(d, FALSE).profit = Max({Expected(d, q) : q \in acceptable})
  /\ \A d \in Directions : BestArbitrage.profit >= EvaluateArbitrage(d, FALSE).profit

(* A proposed conversion can be given up at any block: the orders to close *)
(* what is left are in the books, at a loss within the bound of a block.   *)
(* Converting, or closing in the market instead, only reduces the three    *)
(* positions and leaves none reversed.                                     *)
AnyRemainderCanFallBack ==
  \A d \in Directions : Proposals(d) # {} =>
    \A left \in 1..ProposeConversion(d) :
      /\ \A t \in Assets : Visible(t, Action(d, t)) >= left * Block
      /\ Expected(d, left * Block) >= -MaxLoss * left
      /\ \A t \in Assets :
           Magnitude(Projected(d, left * Block)[t]) = Magnitude(holdings[t]) - left * Block

(* The value of a portfolio is never less than what walking the books to   *)
(* close it would bring, and exactly that where the best levels are deep.  *)
MarkBoundsProceeds ==
  LET side(n) == IF n > 0 THEN "SELL" ELSE "BUY"
      close(t, n) == EstimateFill(t, side(n), Magnitude(n))
      signed(n, fill) == IF n > 0 THEN fill.notional ELSE -fill.notional
      proceeds(t) == signed(holdings[t], close(t, holdings[t]))
      dollars == holdings["USD"] + proceeds("RITC")
      total == Rate * (proceeds("BULL") + proceeds("BEAR")) + signed(dollars, close("USD", dollars))
      deep(t, n) == Against(t, side(n))[1].quantity >= Magnitude(n)
      closable ==
        /\ \A t \in Tickers : Quoted(t)
        /\ \A t \in Assets : Complete(close(t, holdings[t]))
        /\ Complete(close("USD", dollars))
      alwaysAtBest == deep("USD", dollars) /\ \A t \in Assets : deep(t, holdings[t])
  IN closable => /\ LiquidationValue >= total
                 /\ (alwaysAtBest => LiquidationValue = total)

=============================================================================
