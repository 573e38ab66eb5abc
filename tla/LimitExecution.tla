--------------------------- MODULE LimitExecution ---------------------------
(***************************************************************************)
(* One heat of the case2 bot under the adaptive_limit policy: the cycle of *)
(* step_once with fulfill_limit_intents, cut at its API calls, beside an   *)
(* exchange that fills and drops resting orders whenever it likes.         *)
(*                                                                         *)
(* An intent has at most one order the program knows of, so the order's    *)
(* local record (OrderState) and its state at the exchange are functions   *)
(* of the intent.  An order whose POST failed is a stray: it may exist,    *)
(* and the program never learns its id.                                    *)
(***************************************************************************)
EXTENDS Intentions

CONSTANT PassiveWait  \* PASSIVE_WAIT_TICKS
ASSUME PassiveWaitAssumption == PassiveWait \in Nat

VARIABLES
  pc,       \* where the cycle stands
  todo,     \* intents the current loop has not visited
  ready,    \* ready_bundles
  blocked,  \* blocked_bundles
  mode,     \* live_order_mode, "NONE" when live_order_id is None
  placed,   \* live_order_tick, which only a passive order's age needs
  tried,    \* bundles a member of which has an order id
  resting,  \* shares of the intent's live order still working at the exchange
  unseen,   \* quantity_filled at the exchange less OrderState.filled
  stray     \* shares of an order of the intent whose POST failed

orderVars == <<mode, placed, tried, resting, unseen, stray>>
vars == <<kind, bstatus, quantity, remaining, istatus, deadline, caseTick,
          position, server, near, far, lost, pc, todo, ready, blocked,
          mode, placed, tried, resting, unseen, stray>>

Init ==
  /\ InitIntentions
  /\ pc = "IDLE"
  /\ todo = {} /\ ready = {} /\ blocked = {}
  /\ mode = [i \in Intent |-> "NONE"]
  /\ placed = [i \in Intent |-> 0]
  /\ tried = {}
  /\ resting = [i \in Intent |-> 0]
  /\ unseen = [i \in Intent |-> 0]
  /\ stray = [i \in Intent |-> 0]

Live(i) == mode[i] # "NONE"
Held == {b \in Bundle : \E i \in Members(b) : Live(i)}

EndCycle ==
  /\ pc' = "IDLE"
  /\ todo' = {} /\ ready' = {} /\ blocked' = {}
  /\ ForgetMarket

(* The dictionary order of state.intents. *)
AddedBefore(i, j) == i[1] < j[1] \/ (i[1] = j[1] /\ Place(i) < Place(j))

(***************************************************************************)
(* The exchange.                                                           *)
(***************************************************************************)
ExchangeFills(i) ==
  /\ resting[i] > 0
  /\ resting' = [resting EXCEPT ![i] = @ - 1]
  /\ unseen' = [unseen EXCEPT ![i] = @ + 1]
  /\ server' = [server EXCEPT ![i[2]] = @ + Sign(quantity[i])]
  /\ UNCHANGED <<kind, bstatus, quantity, remaining, istatus, deadline,
                 caseTick, position, near, far, lost, pc, todo, ready, blocked,
                 mode, placed, tried, stray>>

(* REJECTED, EXPIRED or CANCELLED on the exchange's own account. *)
ExchangeDrops(i) ==
  /\ resting[i] > 0
  /\ resting' = [resting EXCEPT ![i] = 0]
  /\ UNCHANGED <<coreVars, pc, todo, ready, blocked, mode, placed, tried,
                 unseen, stray>>

(* A stray order, if it got there, trades without anybody asking. *)
StrayFills(i) ==
  /\ stray[i] > 0
  /\ stray' = [stray EXCEPT ![i] = @ - 1]
  /\ server' = [server EXCEPT ![i[2]] = @ + Sign(quantity[i])]
  /\ UNCHANGED <<kind, bstatus, quantity, remaining, istatus, deadline,
                 caseTick, position, near, far, lost, pc, todo, ready, blocked,
                 mode, placed, tried, resting, unseen>>

(***************************************************************************)
(* The start of a cycle and the decisions, as under the market policy.     *)
(* While an order is live the program is busy and decides nothing, so the  *)
(* books of that cycle are first looked at by the posting loop: what they  *)
(* hold is chosen there.  (An order whose POST reports all of it filled    *)
(* and a status that is not terminal is live and keeps nobody busy.  The   *)
(* code may open a bundle in the cycle that looks it up; here it does so   *)
(* in the next one.)                                                       *)
(***************************************************************************)
BeginCycle ==
  /\ pc = "IDLE"
  /\ ReadCase
  /\ IF Held = {} THEN ReadBooks ELSE UNCHANGED <<near, far>>
  /\ pc' = "DECIDE"
  /\ UNCHANGED <<kind, bstatus, quantity, remaining, istatus, deadline, server,
                 lost, todo, ready, blocked, orderVars>>

(* Inventory reductions and converter fallbacks take from the balanced     *)
(* inventory, a convergence exit takes up to an opening bundle's quantity. *)
Closes(dir, q) ==
  \/ Least({-dir * position["RITC"], dir * position["BULL"], dir * position["BEAR"]}) >= q
  \/ \E o \in Created : /\ kind[o] = "ARB" /\ bstatus[o] = "FILLED"
                        /\ -dir * quantity[<<o, "RITC">>] >= q

StartFulfilling ==
  /\ pc' = IF Held = {} THEN "PREPARE" ELSE "RECONCILE"
  /\ todo' = {i \in Intent : Live(i)}
  /\ UNCHANGED <<ready, blocked, orderVars>>

PlaceArb ==
  /\ pc = "DECIDE"
  /\ \E b \in Bundle, dir \in Signs, q \in 1..OrderQty :
       \/ EnqueueArb(b, "ARB", dir, q)
       \/ Closes(-dir, q) /\ EnqueueArb(b, "CLOSE", -dir, q)
  /\ StartFulfilling

TakeTender ==
  /\ pc = "DECIDE"
  /\ \E b \in Bundle, s \in Signs, d, k \in 0..TenderQty : AcceptTender(b, s, d, k)
  /\ StartFulfilling

PlaceNothing ==
  /\ pc = "DECIDE"
  /\ StartFulfilling
  /\ UNCHANGED coreVars

(* A call raises: ApiException ends the cycle where it stands. *)
CallRaises ==
  /\ pc \in {"RECONCILE", "CANCEL", "CONFIRM"} /\ todo # {}
  /\ EndCycle
  /\ UNCHANGED <<kind, bstatus, quantity, remaining, istatus, deadline,
                 caseTick, server, lost, orderVars>>

(* Mutant: an order that was looked at is taken to be gone. *)
BookFillsAndForget(i) ==
  /\ IF unseen[i] > 0
       THEN /\ RecordFill(i, unseen[i])
            /\ position' =
                 [position EXCEPT ![i[2]] = @ + Sign(quantity[i]) * unseen[i]]
       ELSE UNCHANGED <<remaining, istatus, position>>
  /\ unseen' = [unseen EXCEPT ![i] = 0]
  /\ mode' = [mode EXCEPT ![i] = "NONE"]
  /\ placed' = [placed EXCEPT ![i] = 0]

(***************************************************************************)
(* _reconcile: GET the order and book what it filled since the last look.  *)
(***************************************************************************)
BookFills(i) ==
  /\ IF unseen[i] > 0
       THEN /\ RecordFill(i, unseen[i])
            /\ position' =
                 [position EXCEPT ![i[2]] = @ + Sign(quantity[i]) * unseen[i]]
       ELSE UNCHANGED <<remaining, istatus, position>>
  /\ unseen' = [unseen EXCEPT ![i] = 0]
  /\ IF resting[i] > 0
       THEN UNCHANGED <<mode, placed>>
       ELSE /\ mode' = [mode EXCEPT ![i] = "NONE"]
            /\ placed' = [placed EXCEPT ![i] = 0]

NothingBooked == UNCHANGED <<remaining, istatus, position, mode, placed, unseen>>

ShouldCancel(i, hedging) ==
  \/ hedging
  \/ IsExpired(i)
  \/ caseTick - placed[i] >= PassiveWait
  \/ mode[i] = "AGGRESSIVE"

FirstTodo(i) == i \in todo /\ \A j \in todo \ {i} : AddedBefore(i, j)

(* The reconcile loop visits a live order; a reply that is no order leaves *)
(* it live.  Whether its bundle has started is asked after booking.        *)
Reconcile(i, answered) ==
  /\ pc = "RECONCILE"
  /\ FirstTodo(i)
  /\ IF answered THEN BookFills(i) ELSE NothingBooked
  /\ IF (answered /\ resting[i] = 0)
        \/ ~ShouldCancel(i, Started(i[1]) \/ (answered /\ unseen[i] > 0))
       THEN pc' = pc /\ todo' = todo \ {i}
       ELSE pc' = "CANCEL" /\ todo' = todo
  /\ UNCHANGED <<kind, bstatus, quantity, deadline, caseTick, server, near, far,
                 lost, ready, blocked, tried, resting, stray>>

(* _cancel_and_reconcile: the DELETE may or may not have worked, whatever  *)
(* it answers; only the GET that follows decides whether the order is gone.*)
Cancel(i, works) ==
  /\ pc = "CANCEL"
  /\ FirstTodo(i)
  /\ resting' = IF works THEN [resting EXCEPT ![i] = 0] ELSE resting
  /\ pc' = "CONFIRM"
  /\ UNCHANGED <<coreVars, todo, ready, blocked, mode, placed, tried, unseen,
                 stray>>

Confirm(i, answered) ==
  /\ pc = "CONFIRM"
  /\ FirstTodo(i)
  /\ IF answered THEN BookFills(i) ELSE NothingBooked
  /\ pc' = "RECONCILE"
  /\ todo' = todo \ {i}
  /\ UNCHANGED <<kind, bstatus, quantity, deadline, caseTick, server, near, far,
                 lost, ready, blocked, tried, resting, stray>>

(***************************************************************************)
(* The posting loop.                                                       *)
(***************************************************************************)
Prepare ==
  /\ \/ pc = "PREPARE" /\ UNCHANGED <<near, far>>
     \/ pc = "RECONCILE" /\ todo = {} /\ ReadBooks
  /\ PrepareBundles(Held)
  /\ ready' = ReadyBundles(near')
  /\ blocked' = {}
  /\ todo' = {i \in Intent : istatus'[i] \in {"ACTIVE", "WORKING"}}
  /\ pc' = "LOOP"
  /\ UNCHANGED <<kind, quantity, deadline, caseTick, position, server, lost,
                 orderVars>>

IsTurn(i) ==
  /\ pc = "LOOP"
  /\ i \in todo
  /\ \A j \in todo \ {i} : Before(i, j)

MayTrade(i) ==
  /\ ~Live(i)
  /\ i[1] \notin blocked
  /\ Started(i[1]) \/ i[1] \in ready

Fresh(b) == kind[b] = "ARB" /\ ~Started(b)
IsFirstMember(i) == \A j \in Members(i[1]) \ {i} : Place(i) < Place(j)

(* A fresh arbitrage works its first leg passively, once. *)
MayRest(i) ==
  MayTrade(i) /\ Fresh(i[1]) /\ i[1] \notin tried /\ IsFirstMember(i)

(* Mutant: the other legs do not wait for the order that is working. *)
MayCrossBesideOrder(i) ==
  MayTrade(i) /\ (Fresh(i[1]) /\ i[1] \notin tried => IsFirstMember(i))

MayCross(i) ==
  /\ MayTrade(i)
  /\ Fresh(i[1]) /\ i[1] \notin tried => IsFirstMember(i)
  /\ Fresh(i[1]) => i[1] \notin Held

PassiveSize(i) == Least({Abs(remaining[i]), MaxOrderSize})
CrossSize(i) ==
  Least({Abs(remaining[i]), Acceptable(i, Started(i[1])), MaxOrderSize})

(* A reply with an order id: f shares filled at once, and a status that is *)
(* terminal or not.                                                        *)
Posted(i, m, n, f, terminal) ==
  /\ f \in 0..n
  /\ IF f > 0
       THEN /\ RecordFill(i, f)
            /\ position' = [position EXCEPT ![i[2]] = @ + Sign(quantity[i]) * f]
            /\ server' = [server EXCEPT ![i[2]] = @ + Sign(quantity[i]) * f]
       ELSE UNCHANGED <<remaining, istatus, position, server>>
  /\ tried' = tried \cup {i[1]}
  /\ IF terminal
       THEN UNCHANGED <<mode, placed, resting>>
       ELSE /\ mode' = [mode EXCEPT ![i] = m]
            /\ placed' = [placed EXCEPT ![i] = IF m = "PASSIVE" THEN caseTick ELSE 0]
            /\ resting' = [resting EXCEPT ![i] = @ + n - f]
  /\ todo' = todo \ {i}
  /\ UNCHANGED <<kind, bstatus, quantity, deadline, caseTick, near, far, lost,
                 pc, ready, unseen, stray>>

PostPassive(i, f, terminal) ==
  /\ IsTurn(i)
  /\ MayRest(i)
  /\ Posted(i, "PASSIVE", PassiveSize(i), f, terminal)
  /\ blocked' = blocked \cup {i[1]}

(* Also when a first leg has no passive price: a crossed or empty book, or *)
(* a touch beyond its limit.                                               *)
PostAggressive(i, f, terminal) ==
  /\ IsTurn(i)
  /\ MayCross(i)
  /\ CrossSize(i) > 0
  /\ Posted(i, "AGGRESSIVE", CrossSize(i), f, terminal)
  /\ UNCHANGED blocked

Skip(i) ==
  /\ IsTurn(i)
  /\ ~MayCross(i) \/ CrossSize(i) = 0
  /\ todo' = todo \ {i}
  /\ UNCHANGED <<coreVars, pc, ready, blocked, orderVars>>

(* The POST fails or its reply has no id.  The order may exist; the error  *)
(* leaves run() and the process stops.                                     *)
PostUncertain(i, n) ==
  /\ IsTurn(i)
  /\ \/ MayRest(i) /\ n \in {0, PassiveSize(i)}
     \/ MayCross(i) /\ n \in {0, CrossSize(i)}
  /\ n = 0 \/ MayLose
  /\ stray' = [stray EXCEPT ![i] = n]
  /\ lost' = (n > 0)
  /\ pc' = "STOPPING"
  /\ todo' = {j \in Intent : Live(j)}
  /\ ready' = {} /\ blocked' = {}
  /\ ForgetMarket
  /\ UNCHANGED <<kind, bstatus, quantity, remaining, istatus, deadline, caseTick,
                 server, mode, placed, tried, resting, unseen>>

Settle ==
  /\ pc = "LOOP"
  /\ todo = {}
  /\ SettleBundles
  /\ EndCycle
  /\ UNCHANGED <<kind, quantity, deadline, caseTick, server, lost, orderVars>>

(***************************************************************************)
(* The end of the process: cancel_live_orders.  run() returns between      *)
(* cycles on a signal, and anywhere on an error of the transport.          *)
(***************************************************************************)
Interrupt ==
  /\ pc \notin {"STOPPING", "STOPCONFIRM", "STOPPED"}
  /\ pc' = "STOPPING"
  /\ todo' = {i \in Intent : Live(i)}
  /\ ready' = {} /\ blocked' = {}
  /\ ForgetMarket
  /\ UNCHANGED <<kind, bstatus, quantity, remaining, istatus, deadline, caseTick,
                 server, lost, orderVars>>

StopCancel(i, works) ==
  /\ pc = "STOPPING"
  /\ FirstTodo(i)
  /\ resting' = IF works THEN [resting EXCEPT ![i] = 0] ELSE resting
  /\ pc' = "STOPCONFIRM"
  /\ UNCHANGED <<coreVars, todo, ready, blocked, mode, placed, tried, unseen,
                 stray>>

StopConfirm(i, answered) ==
  /\ pc = "STOPCONFIRM"
  /\ FirstTodo(i)
  /\ IF answered THEN BookFills(i) ELSE NothingBooked
  /\ pc' = "STOPPING"
  /\ todo' = todo \ {i}
  /\ UNCHANGED <<kind, bstatus, quantity, deadline, caseTick, server, near, far,
                 lost, ready, blocked, tried, resting, stray>>

(* Either every live order was tried, or a call raised. *)
Exit ==
  /\ pc \in {"STOPPING", "STOPCONFIRM"}
  /\ pc' = "STOPPED"
  /\ todo' = {}
  /\ ForgetMarket
  /\ UNCHANGED <<kind, bstatus, quantity, remaining, istatus, deadline, caseTick,
                 server, lost, ready, blocked, orderVars>>

Exchange(i) == ExchangeFills(i) \/ ExchangeDrops(i) \/ StrayFills(i)

Visit(i) ==
  \/ \E answered \in BOOLEAN :
       Reconcile(i, answered) \/ Confirm(i, answered) \/ StopConfirm(i, answered)
  \/ \E works \in BOOLEAN : Cancel(i, works) \/ StopCancel(i, works)

Trade(i) ==
  \/ \E f \in 0..MaxOrderSize, terminal \in BOOLEAN :
       PostPassive(i, f, terminal) \/ PostAggressive(i, f, terminal)
  \/ \E n \in 0..MaxOrderSize : PostUncertain(i, n)
  \/ Skip(i)

Next ==
  \/ BeginCycle
  \/ PlaceArb
  \/ TakeTender
  \/ PlaceNothing
  \/ CallRaises
  \/ Prepare
  \/ Settle
  \/ Interrupt
  \/ Exit
  \/ \E i \in Intent : Exchange(i) \/ Visit(i) \/ Trade(i)

Spec == Init /\ [][Next]_vars

-----------------------------------------------------------------------------
(* The comment in _post_limit and the docstring of _cancel_and_reconcile:  *)
(* whatever fills while an order is being looked at, cancelled or          *)
(* replaced, an intent's booked fills, its unbooked fills and everything   *)
(* it still has at the exchange never exceed what was planned.             *)
ExposureWithinPlan ==
  \A i \in Intent :
    Filled(i) + unseen[i] + resting[i] + stray[i] <= Abs(quantity[i])

(* record_fill never raises: a fill still to be booked belongs to an       *)
(* intent that is still active, so nothing cancels an intent whose order   *)
(* may yet trade.                                                          *)
LateFillIsBookable ==
  \A i \in Intent :
    unseen[i] > 0 \/ resting[i] > 0 => IsActive(i)

(* What the account will hold once the open intents are filled, counting   *)
(* fills the program has not seen yet.                                     *)
Completed(b) ==
  [l \in Leg |->
     LET i == <<b, l>>
     IN  server[l] + (IF IsActive(i)
                        THEN remaining[i] - Sign(quantity[i]) * unseen[i] ELSE 0)]

(* As under the market policy: the account is hedged, or the open intents  *)
(* are exactly what is missing from a hedge, unless an order's fate is     *)
(* unknown.                                                                *)
HedgedOrBeingHedged ==
  ~lost => /\ \A b \in Created : Working(b) => Hedged(Completed(b))
           /\ (\A b \in Created : ~Working(b)) => Hedged(server)

(* The comment at limit_fulfillment.py:201: the other legs of a fresh      *)
(* arbitrage wait until the attempt on one leg has ended.                  *)
OneLegAtATimeUntilStarted ==
  \A i, j \in Intent :
    (i[1] = j[1] /\ kind[i[1]] = "ARB" /\ ~Started(i[1])
       /\ resting[i] > 0 /\ resting[j] > 0) => i = j

(* The limit executor makes no step that HedgeObligation forbids. Nothing  *)
(* interrupts the stretch of polls this module follows: it forgets no plan *)
(* that has begun.                                                         *)
LeftToTrade ==
  [l \in Leg |->
     IF \E b \in Created : IsActive(<<b, l>>)
       THEN remaining[<<CHOOSE b \in Created : IsActive(<<b, l>>), l>>] ELSE 0]

Obligation ==
  INSTANCE HedgeObligation WITH
    left <- LeftToTrade, kept <- TRUE,
    begun <- (\E b \in Created : Working(b) /\ Started(b))

KeepsSafePromise == Obligation!SafePromise
=============================================================================
