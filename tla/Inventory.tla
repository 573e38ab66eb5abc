----------------------------- MODULE Inventory -----------------------------
(***************************************************************************)
(* Balanced ETF inventory of case2: the arbitrage lots that explain it,    *)
(* the bundles that open and close it, and a person who may convert blocks *)
(* of it by hand while the program waits, falls back to the market, or     *)
(* does something else.                                                    *)
(*                                                                         *)
(* Inventory is one signed number: n > 0 stands for n RITC held against n  *)
(* BULL and n BEAR sold, the result of direction BUY_ETF (1); SELL_ETF is  *)
(* -1.  The legs of a bundle trade together here (MarketExecution has them *)
(* apart), and prices decide which of the possible plans is found.         *)
(***************************************************************************)
EXTENDS Integers, Sequences, FiniteSetsExt

CONSTANTS
  Block,          \* BLOCK_SIZE
  OrderQty,       \* ORDER_QTY
  MaxBlocks,      \* MANUAL_CONVERTER_MAX_BLOCKS
  MaxInventory,   \* MAX_GROSS, as inventory
  StartLevel,     \* the inventory at which reduction starts
  TargetLevel,    \* the inventory at which it ends
  MaxBundles,     \* bound: bundles of a heat
  MaxConversions  \* bound: blocks converted by hand in a heat

ASSUME InventoryAssumption ==
  /\ {Block, OrderQty, MaxBlocks} \subseteq Nat \ {0}
  /\ {MaxInventory, StartLevel, TargetLevel, MaxBundles, MaxConversions} \subseteq Nat
  /\ TargetLevel < StartLevel /\ StartLevel <= MaxInventory

Directions == {1, -1}
Size(n) == IF n < 0 THEN -n ELSE n

AtLeastZero(n) == IF n < 0 THEN 0 ELSE n
Least(m, n) == IF m < n THEN m ELSE n
Toward(n) == IF n > 0 THEN -1 ELSE 1     \* the direction that reduces n

VARIABLES
  pc,         \* where step_once stands
  account,    \* the inventory at the simulator
  position,   \* the inventory in STATE.positions
  reconciled, \* positions_reconciled
  bundles,    \* STATE.bundles, in the order of their creation
  window,     \* CONVERTER_WINDOW
  suppressed, \* CONVERTER_SUPPRESSED_POSITIONS: no inventory or one
  blocked,    \* manual_blocked
  fallback,   \* converter_fallback: its signed quantity, 0 for None
  reducing,   \* strategy_status is REDUCING_INVENTORY
  offer,      \* history: the instruction and the blocks converted in time
  conversions, \* history: blocks converted by hand
  instructed  \* history: each of them as the instruction said

vars == <<pc, account, position, reconciled, bundles, window, suppressed,
          blocked, fallback, reducing, offer, conversions, instructed>>

NoWindow == [open |-> FALSE, blocks |-> 0, base |-> 0, confirmed |-> 0, overdue |-> FALSE]
NoOffer == [blocks |-> 0, done |-> 0, inTime |-> 0]

(***************************************************************************)
(* Lots.                                                                   *)
(***************************************************************************)
Opposing(n, d) == AtLeastZero(-d * n)
Lots(bs, d) ==
  {i \in DOMAIN bs : bs[i].kind = "ARB" /\ bs[i].dir = d /\ bs[i].status = "FILLED"}
OpenQuantity(bs, L) == MapThenSumSet(LAMBDA i : bs[i].open, L)

(* Oldest first: a lot gives what the lots before it have left to take. *)
Consume(bs, L, q) ==
  [i \in DOMAIN bs |->
     IF i \notin L THEN bs[i]
     ELSE LET left == AtLeastZero(q - OpenQuantity(bs, {j \in L : j < i}))
          IN  [bs[i] EXCEPT !.open = AtLeastZero(@ - left)]]

LotsFor(bs, c) ==
  {i \in Lots(bs, bs[c].closes) : bs[c].target \in {0, i}}

MustClose(bs, c) ==
  /\ bs[c].status = "FILLED"
  /\ bs[c].closes # 0
  /\ ~bs[c].applied

ApplyInventoryCloses(bs) ==
  LET after[c \in 0..Len(bs)] ==
        IF c = 0 THEN bs
        ELSE IF MustClose(after[c - 1], c)
        THEN [Consume(after[c - 1], LotsFor(after[c - 1], c), bs[c].offset)
                EXCEPT ![c].applied = TRUE]
        ELSE after[c - 1]
  IN  after[Len(bs)]

Working == {i \in DOMAIN bundles : bundles[i].status = "PLANNED"}
Busy == \E i \in DOMAIN bundles : bundles[i].status \in {"PLANNED", "INCOMPLETE"}

Bundle(kind, d, q, target) ==
  LET offset == IF kind \in {"ARB", "TENDER"} THEN Least(q, Opposing(position, d)) ELSE q
  IN  [kind |-> kind, dir |-> d, qty |-> q, offset |-> offset,
       open |-> IF kind = "ARB" THEN q - offset ELSE 0,
       closes |-> IF offset > 0 THEN -d ELSE 0,
       target |-> target, status |-> "PLANNED", applied |-> FALSE]

Enqueue(kind, d, q, target) ==
  /\ Len(bundles) < MaxBundles
  /\ bundles' = Append(bundles, Bundle(kind, d, q, target))

Within(d, q) == Size(position + d * q) <= MaxInventory

Init ==
  /\ pc = "IDLE"
  /\ account = 0 /\ position = 0 /\ reconciled = TRUE
  /\ bundles = <<>>
  /\ window = NoWindow /\ suppressed = {} /\ blocked = FALSE /\ fallback = 0
  /\ reducing = FALSE
  /\ offer = NoOffer /\ conversions = 0 /\ instructed = TRUE

(***************************************************************************)
(* The person and the clock.  The instruction is to convert, while the     *)
(* window is open, no more than it still asks for, between two cycles; the *)
(* person may do otherwise.                                                *)
(***************************************************************************)
InTime == window.open /\ ~window.overdue

Follows(n) == window.open /\ n <= offer.blocks - offer.done /\ pc = "IDLE"

PersonConverts(n) ==
  /\ n * Block <= Size(account)
  /\ conversions + n <= MaxConversions
  /\ account' = account + Toward(account) * n * Block
  /\ conversions' = conversions + n
  /\ instructed' = (instructed /\ Follows(n))
  /\ offer' = [offer EXCEPT !.done = @ + n, !.inTime = IF InTime THEN @ + n ELSE @]
  /\ UNCHANGED <<pc, position, reconciled, bundles, window, suppressed, blocked,
                 fallback, reducing>>

DeadlinePasses ==
  /\ InTime
  /\ window' = [window EXCEPT !.overdue = TRUE]
  /\ UNCHANGED <<pc, account, position, reconciled, bundles, suppressed, blocked,
                 fallback, reducing, offer, conversions, instructed>>

(***************************************************************************)
(* step_once, up to progress_manual_converter.                             *)
(***************************************************************************)
ReadPositions ==
  /\ pc = "IDLE"
  /\ reconciled' = (account = position)
  /\ position' = account
  /\ pc' = "PROGRESS"
  /\ UNCHANGED <<account, bundles, window, suppressed, blocked, fallback, reducing,
                 offer, conversions, instructed>>

NothingToProgress ==
  /\ pc = "PROGRESS" /\ ~window.open
  /\ blocked' = FALSE /\ fallback' = 0
  /\ pc' = "DECIDE"
  /\ UNCHANGED <<account, position, reconciled, bundles, window, suppressed,
                 reducing, offer, conversions, instructed>>

(* What has been converted since the window opened, and whether that can   *)
(* be the conversion that was asked for.                                   *)
Moved == Toward(window.base) * (position - window.base)
Expected ==
  /\ Moved \in 0..(window.blocks * Block)
  /\ Moved % Block = 0
  /\ Moved \div Block >= window.confirmed
Observed == Moved \div Block

(* Mutant: the fallback forgets what was confirmed. *)
AllBlocks == window.blocks

Remaining == window.blocks - Observed

Progress ==
  /\ pc = "PROGRESS" /\ window.open
  /\ blocked' = TRUE
  /\ pc' = "DECIDE"
  /\ UNCHANGED <<account, position, reconciled, reducing, offer, conversions, instructed>>

(* Mutant: the window is not cleared. *)
KeepWindow == UNCHANGED window

CloseWindow == window' = NoWindow

AbortConversion ==
  /\ Progress
  /\ ~Expected
  /\ suppressed' = {position}
  /\ CloseWindow
  /\ fallback' = 0
  /\ UNCHANGED bundles

(* Mutant: the conversion is confirmed, the lots are left as they are. *)
KeepLots(bs) == bs

ApplyConversionToOpenLots(bs) ==
  Consume(bs, Lots(bs, -Toward(window.base)), (Observed - window.confirmed) * Block)

ConfirmConversion ==
  /\ Progress
  /\ Expected
  /\ bundles' = ApplyConversionToOpenLots(bundles)
  /\ \/ /\ Observed = window.blocks
        /\ CloseWindow
        /\ fallback' = 0
        /\ UNCHANGED suppressed
     \/ /\ Observed # window.blocks /\ ~window.overdue
        /\ window' = [window EXCEPT !.confirmed = Observed]
        /\ fallback' = 0
        /\ UNCHANGED suppressed
     \/ /\ Observed # window.blocks /\ window.overdue
        /\ suppressed' = {position}
        /\ CloseWindow
        /\ fallback' \in {0, Toward(window.base) * Remaining * Block}

(***************************************************************************)
(* The decisions of the cycle.                                             *)
(***************************************************************************)
Decided ==
  /\ pc = "DECIDE"
  /\ pc' = "FULFIL"
  /\ UNCHANGED <<account, position, reconciled, suppressed, blocked, conversions, instructed>>

(* A book lacks a side: the cycle only works what there is. *)
MissingQuotes ==
  /\ Decided
  /\ fallback' = 0
  /\ UNCHANGED <<bundles, window, reducing, offer>>

FallBack ==
  /\ Decided
  /\ fallback # 0
  /\ Enqueue("FALLBACK", IF fallback > 0 THEN 1 ELSE -1, Size(fallback), 0)
  /\ fallback' = 0
  /\ UNCHANGED <<window, reducing, offer>>

(* Mutant: a window that waits does not keep other orders back. *)
OnlyWhenIdle == ~Busy /\ fallback = 0

MayDecide == ~Busy /\ ~blocked /\ fallback = 0

AcceptTender(d, q) ==
  /\ Decided /\ MayDecide
  /\ Within(d, q)
  /\ Enqueue("TENDER", d, q, 0)
  /\ reducing' = FALSE
  /\ UNCHANGED <<window, fallback, offer>>

StartManualConverter(n) ==
  /\ Decided /\ MayDecide
  /\ reconciled
  /\ ~window.open
  /\ position \notin suppressed
  /\ Size(position) > TargetLevel
  /\ Size(position) >= StartLevel \/ reducing
  /\ n <= Size(position) \div Block
  /\ window' = [open |-> TRUE, blocks |-> n, base |-> position,
                confirmed |-> 0, overdue |-> FALSE]
  /\ offer' = [blocks |-> n, done |-> 0, inTime |-> 0]
  /\ reducing' = FALSE
  /\ UNCHANGED <<bundles, fallback>>

ConvergenceExit(i, q) ==
  /\ Decided /\ MayDecide
  /\ i \in Lots(bundles, bundles[i].dir)
  /\ q <= bundles[i].open
  /\ Within(-bundles[i].dir, q)
  /\ Enqueue("EXIT", -bundles[i].dir, q, i)
  /\ UNCHANGED <<window, fallback, reducing, offer>>

(* inventory_reduction_plan: what it makes of REDUCING_INVENTORY. *)
StillReducing == reducing /\ Size(position) > TargetLevel
ReductionDue == StillReducing \/ (~reducing /\ Size(position) >= StartLevel)

ReduceInventory(q) ==
  /\ Decided /\ MayDecide
  /\ ReductionDue
  /\ q <= Least(Size(position), AtLeastZero(Size(position) - TargetLevel - 1) + 1)
  /\ Enqueue("REDUCE", Toward(position), q, 0)
  /\ reducing' = TRUE
  /\ UNCHANGED <<window, fallback, offer>>

OpenArbitrage(d, q) ==
  /\ Decided /\ MayDecide
  /\ Within(d, q)
  /\ StillReducing \/ Size(position) >= StartLevel
       => Size(position + d * q) < Size(position)
  /\ Enqueue("ARB", d, q, 0)
  /\ reducing' = StillReducing
  /\ UNCHANGED <<window, fallback, offer>>

NoPlan ==
  /\ Decided
  /\ fallback = 0
  /\ reducing' = IF MayDecide THEN StillReducing ELSE reducing
  /\ UNCHANGED <<bundles, window, fallback, offer>>

(***************************************************************************)
(* fulfill_intents: the working bundle trades, is dropped at its deadline, *)
(* or neither; completed bundles close lots.                               *)
(***************************************************************************)
Traded(i) ==
  /\ account' = account + bundles[i].dir * bundles[i].qty
  /\ position' = position + bundles[i].dir * bundles[i].qty
  /\ bundles' = ApplyInventoryCloses([bundles EXCEPT ![i].status = "FILLED"])

Dropped(i) ==
  /\ bundles[i].kind # "TENDER"
  /\ bundles' = ApplyInventoryCloses([bundles EXCEPT ![i].status = "INCOMPLETE"])
  /\ UNCHANGED <<account, position>>

Fulfil ==
  /\ pc = "FULFIL"
  /\ pc' = "IDLE"
  /\ \/ \E i \in Working : Traded(i) \/ Dropped(i)
     \/ /\ bundles' = ApplyInventoryCloses(bundles)
        /\ UNCHANGED <<account, position>>
  /\ UNCHANGED <<reconciled, window, suppressed, blocked, fallback, reducing,
                 offer, conversions, instructed>>

Program ==
  \/ ReadPositions
  \/ NothingToProgress \/ AbortConversion \/ ConfirmConversion
  \/ MissingQuotes \/ FallBack \/ NoPlan
  \/ \E d \in Directions, q \in 1..MaxInventory : AcceptTender(d, q)
  \/ \E n \in 1..MaxBlocks : StartManualConverter(n)
  \/ \E i \in DOMAIN bundles, q \in 1..MaxInventory : ConvergenceExit(i, q)
  \/ \E q \in 1..OrderQty : ReduceInventory(q)
  \/ \E d \in Directions, q \in 1..OrderQty : OpenArbitrage(d, q)
  \/ Fulfil

Next ==
  \/ Program
  \/ DeadlinePasses
  \/ \E n \in 1..MaxBlocks + 1 : PersonConverts(n)

Spec == Init /\ [][Next]_vars
(* The driver polls on, and the clock of a window runs on. *)
FairSpec == Spec /\ WF_vars(Program) /\ WF_vars(DeadlinePasses)

(***************************************************************************)
(* Properties.                                                             *)
(***************************************************************************)
(* When a cycle decides, the open lots of a direction are covered by       *)
(* inventory of that direction: offsets, tenders, reductions, exits and,   *)
(* if the person has kept to the instruction, conversions have all been    *)
(* taken from the lots they closed.                                        *)
LotsBackedByAccount ==
  pc = "DECIDE" /\ instructed =>
    \A d \in Directions : OpenQuantity(bundles, Lots(bundles, d)) <= AtLeastZero(d * position)

(* The exit of a lot finds it as it was planned, whatever was closed or    *)
(* converted while it waited for depth.                                    *)
ExitFindsItsLot ==
  \A i \in Working :
    bundles[i].kind = "EXIT" => bundles[bundles[i].target].open >= bundles[i].qty

(* The fallback closes no block that was converted before the deadline, if *)
(* the person has kept to the instruction, and that between two cycles: a  *)
(* conversion after a cycle has read the positions and before it looks at  *)
(* the clock is not seen, and its blocks are traded once more.             *)
FallbackOnlyForRemainder ==
  instructed => Size(fallback) <= (offer.blocks - offer.inTime) * Block

(* Whatever the person does, a window that was opened is closed: by the    *)
(* conversion, by an abort or by its deadline.                             *)
WindowResolves == window.open ~> ~window.open
=============================================================================
