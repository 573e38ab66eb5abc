----------------------------- MODULE PairBroker -----------------------------
(***************************************************************************)
(* The Broker of the option strategy of case1 during one heat: straddles   *)
(* of one strike are entered and left leg by leg, with confirmed limit     *)
(* orders, completion, rollback and a delta hedge, beside an exchange that *)
(* fills orders whenever it likes.  The process may stop at every call and *)
(* be started again by hand.                                               *)
(*                                                                         *)
(* Option positions are counted in the campaign's direction, and the hedge *)
(* in the direction opposite to the options' delta.  Every check of delta, *)
(* edge, stress, news or capacity that ends an attempt early may do so     *)
(* whenever it is asked.                                                   *)
(***************************************************************************)
EXTENDS Integers

CONSTANTS
  Batch,              \* EXIT_BATCH, which no entry batch exceeds
  MaxPairs,           \* bound: the campaign's target
  MaxHedge,           \* bound: the stock a hedge may hold
  EntryAttempts,      \* ENTRY_REFRESH_ATTEMPTS
  CompletionAttempts, \* PAIR_COMPLETION_ATTEMPTS
  RollbackAttempts,   \* PAIR_ROLLBACK_ATTEMPTS
  HedgeAttempts,      \* ENTRY_REFRESH_ATTEMPTS + ceil(RTM_LIMIT / RTM_MAX_ORDER)
  MaxStarts           \* bound: how often the process is started

ASSUME BrokerAssumption ==
  /\ Batch \in Nat \ {0} /\ MaxPairs \in Nat /\ MaxHedge \in Nat
  /\ EntryAttempts \in Nat \ {0} /\ CompletionAttempts \in Nat \ {0}
  /\ RollbackAttempts \in Nat \ {0} /\ HedgeAttempts \in Nat \ {0}
  /\ MaxStarts \in Nat \ {0}

Option == {"CALL", "PUT"}
Leg == Option \cup {"RTM"}
Other(l) == IF l = "CALL" THEN "PUT" ELSE "CALL"
Abs(n) == IF n < 0 THEN -n ELSE n
Sign(n) == IF n < 0 THEN -1 ELSE 1
Least(m, n) == IF m < n THEN m ELSE n

VARIABLES
  pc,       \* where execute() stands
  plan,     \* the plan: its kind, its first leg and its size
  job,      \* what the order in flight is for
  order,    \* its leg and its signed quantity
  filled,   \* its quantity_filled
  working,  \* signed shares of every leg still working at the exchange
  pos,      \* the account
  expected, \* expected_positions of the batch
  pending,  \* pending_pair is not None
  pair,     \* first_filled, second_filled and repair_quantity
  tries,    \* attempts of the current loop
  active,   \* the case is ACTIVE
  starts    \* history: how often the process was started

vars == <<pc, plan, job, order, filled, working, pos, expected, pending, pair,
          tries, active, starts>>

NoPlan == [kind |-> "NONE", leg |-> "CALL", size |-> 0]
NoOrder == [leg |-> "CALL", size |-> 0]
NoPair == [first |-> 0, second |-> 0, repair |-> 0]
Flat == [l \in Leg |-> 0]

Init ==
  /\ pc = "IDLE"
  /\ plan = NoPlan /\ job = "NONE" /\ order = NoOrder /\ filled = 0
  /\ working = Flat /\ pos = Flat /\ expected = Flat
  /\ pending = FALSE /\ pair = NoPair /\ tries = 0
  /\ active = TRUE /\ starts = 1

Unmatched == pos["CALL"] - pos["PUT"]
OptionsHeld == \E l \in Option : pos[l] # 0

(* The stock orders a hedge may ask for: away with it once the options are *)
(* gone, towards a target the delta decides otherwise.                     *)
Hedges ==
  IF OptionsHeld THEN {t - pos["RTM"] : t \in 0..MaxHedge} \ {0}
  ELSE {-pos["RTM"]} \ {0}

Forget ==
  /\ plan' = NoPlan /\ job' = "NONE" /\ order' = NoOrder /\ filled' = 0
  /\ expected' = Flat /\ pending' = FALSE /\ pair' = NoPair /\ tries' = 0

Return == pc' = "IDLE" /\ Forget
Stop == pc' = "STOPPED" /\ Forget

(***************************************************************************)
(* The exchange, the case and the operator.                                *)
(***************************************************************************)
ExchangeFills(l) ==
  /\ active
  /\ working[l] # 0
  /\ working' = [working EXCEPT ![l] = @ - Sign(@)]
  /\ pos' = [pos EXCEPT ![l] = @ + Sign(working[l])]
  /\ filled' = IF pc \in {"POLL", "RECHECK"} /\ l = order.leg THEN filled + 1 ELSE filled
  /\ UNCHANGED <<pc, plan, job, order, expected, pending, pair, tries, active, starts>>

ExchangeDrops(l) ==
  /\ working[l] # 0
  /\ working' = [working EXCEPT ![l] = 0]
  /\ UNCHANGED <<pc, plan, job, order, filled, pos, expected, pending, pair,
                 tries, active, starts>>

CaseEnds ==
  /\ active
  /\ active' = FALSE
  /\ UNCHANGED <<pc, plan, job, order, filled, working, pos, expected, pending,
                 pair, tries, starts>>

(* A signal, or a call that raises: main() ends.  What the exchange has is *)
(* left there.                                                             *)
Abort ==
  /\ pc # "STOPPED"
  /\ Stop
  /\ UNCHANGED <<working, pos, active, starts>>

Restart ==
  /\ pc = "STOPPED"
  /\ starts < MaxStarts
  /\ pc' = "IDLE"
  /\ starts' = starts + 1
  /\ UNCHANGED <<plan, job, order, filled, working, pos, expected, pending, pair,
                 tries, active>>

(***************************************************************************)
(* The plan of one evaluation: an unmatched pair is trimmed before         *)
(* anything else, and a hedge may take the place of every other plan.      *)
(***************************************************************************)
Planned(p) ==
  \/ /\ p.kind = "ENTRY" /\ Unmatched = 0
     /\ p.size \in 1..Batch /\ pos["CALL"] + p.size <= MaxPairs
  \/ /\ p.kind = "EXIT" /\ Unmatched = 0
     /\ p.size \in 1..Least(Batch, pos["CALL"])
  \/ /\ p.kind = "TRIM"
     /\ p.size \in 1..Least(Batch, Abs(Unmatched))
     /\ p.leg = (IF Unmatched > 0 THEN "CALL" ELSE "PUT")

Evaluate ==
  /\ pc = "IDLE"
  /\ active
  /\ \/ /\ plan' \in [kind : {"ENTRY", "EXIT", "TRIM"}, leg : Option, size : 1..Batch]
        /\ Planned(plan')
     \/ \E h \in Hedges : plan' = [kind |-> "HEDGE", leg |-> "RTM", size |-> h]
  /\ expected' = pos
  /\ pc' = "OPENCHECK"
  /\ tries' = 0
  /\ UNCHANGED <<job, order, filled, working, pos, pending, pair, active, starts>>

(* Mutant: orders of an earlier process are not looked for. *)
ContinueAnyway ==
  /\ pc = "OPENCHECK"
  /\ pc' = "REFRESH"
  /\ UNCHANGED <<plan, job, order, filled, working, pos, expected, pending, pair,
                 tries, active, starts>>

CheckOpenOrders ==
  /\ pc = "OPENCHECK"
  /\ IF working = Flat
       THEN /\ pc' = "REFRESH"
            /\ UNCHANGED <<plan, job, order, filled, expected, pending, pair, tries>>
       ELSE Stop
  /\ UNCHANGED <<working, pos, active, starts>>

(***************************************************************************)
(* The checks before the first order.  An entry is valued anew and may     *)
(* shrink; the legs are ordered by the fresh delta.                        *)
(***************************************************************************)
Reduction(p) == IF p.kind = "HEDGE" THEN p.size ELSE -p.size

(* Mutant: the account is not compared with the one the plan was made for. *)
RefreshStale ==
  /\ pc = "REFRESH"
  /\ active
  /\ IF plan.kind = "ENTRY"
       THEN \E n \in 1..plan.size, l \in Option :
              /\ order' = [leg |-> l, size |-> n]
              /\ plan' = [plan EXCEPT !.leg = l]
       ELSE /\ order' = [leg |-> plan.leg, size |-> Reduction(plan)]
            /\ UNCHANGED plan
  /\ job' = (IF plan.kind \in {"ENTRY", "EXIT"} THEN "FIRST" ELSE "SINGLE")
  /\ pc' = "VERIFY"
  /\ UNCHANGED <<filled, working, pos, expected, pending, pair, tries, active, starts>>

Refresh ==
  /\ pc = "REFRESH"
  /\ active /\ pos = expected
  /\ IF plan.kind = "ENTRY"
       THEN \E n \in 1..plan.size, l \in Option :
              /\ order' = [leg |-> l, size |-> n]
              /\ plan' = [plan EXCEPT !.leg = l]
       ELSE /\ order' = [leg |-> plan.leg, size |-> Reduction(plan)]
            /\ UNCHANGED plan
  /\ job' = (IF plan.kind \in {"ENTRY", "EXIT"} THEN "FIRST" ELSE "SINGLE")
  /\ pc' = "VERIFY"
  /\ UNCHANGED <<filled, working, pos, expected, pending, pair, tries, active, starts>>

(* The entry is rejected, for news even before positions are compared, or  *)
(* the case is over.                                                       *)
RefuseEntry ==
  /\ pc = "REFRESH" /\ plan.kind = "ENTRY"
  /\ Return
  /\ UNCHANGED <<working, pos, active, starts>>

(* The order is not safe any more, or the case is over: only a hedge is    *)
(* looked for.                                                             *)
GoToHedge ==
  /\ pc' = "HEDGE"
  /\ tries' = 0 /\ job' = "NONE" /\ order' = NoOrder /\ filled' = 0

RefuseReduction ==
  /\ pc = "REFRESH" /\ plan.kind # "ENTRY"
  /\ active => pos = expected
  /\ GoToHedge
  /\ UNCHANGED <<plan, working, pos, expected, pending, pair, active, starts>>

Disturbed ==
  /\ pc = "REFRESH"
  /\ active /\ pos # expected
  /\ Stop
  /\ UNCHANGED <<working, pos, active, starts>>

(* The case is read once more; if it moved, an entry is valued again, a    *)
(* reduction given up.                                                     *)
Verify(same) ==
  /\ pc = "VERIFY"
  /\ same => active
  /\ IF same THEN pc' = "POST" /\ UNCHANGED <<plan, job, order, filled, expected, pending, pair, tries>>
     ELSE IF plan.kind # "ENTRY"
       THEN GoToHedge /\ UNCHANGED <<plan, expected, pending, pair>>
     ELSE IF tries + 1 < EntryAttempts
       THEN /\ pc' = "REFRESH" /\ tries' = tries + 1
            /\ UNCHANGED <<plan, job, order, filled, expected, pending, pair>>
     ELSE Return
  /\ UNCHANGED <<working, pos, active, starts>>

(***************************************************************************)
(* One confirmed order: posted once, polled, cancelled at its deadline,    *)
(* and booked when the account agrees with its fills.                      *)
(***************************************************************************)
Post ==
  /\ pc = "POST"
  /\ active
  /\ pc' = "POLL"
  /\ working' = [working EXCEPT ![order.leg] = order.size]
  /\ filled' = 0
  /\ UNCHANGED <<plan, job, order, pos, expected, pending, pair, tries, active, starts>>

(* The POST is refused, or its answer is lost and the order works on.      *)
PostRaises ==
  /\ pc = "POST"
  /\ \/ UNCHANGED working
     \/ active /\ working' = [working EXCEPT ![order.leg] = order.size]
  /\ Stop
  /\ UNCHANGED <<pos, active, starts>>

Poll ==
  /\ pc = "POLL"
  /\ working[order.leg] = 0
  /\ pc' = "CONFIRM"
  /\ UNCHANGED <<plan, job, order, filled, working, pos, expected, pending, pair,
                 tries, active, starts>>

(* DELETE may be acknowledged and the order work on. *)
TimeOut(works) ==
  /\ pc = "POLL"
  /\ working[order.leg] # 0
  /\ pc' = "RECHECK"
  /\ working' = IF works THEN [working EXCEPT ![order.leg] = 0] ELSE working
  /\ UNCHANGED <<plan, job, order, filled, pos, expected, pending, pair, tries,
                 active, starts>>

(* Mutant: a deleted order is taken for a cancelled one. *)
TrustDelete ==
  /\ pc = "RECHECK"
  /\ pc' = "CONFIRM"
  /\ UNCHANGED <<plan, job, order, filled, working, pos, expected, pending, pair,
                 tries, active, starts>>

Recheck ==
  /\ pc = "RECHECK"
  /\ IF working[order.leg] = 0
       THEN /\ pc' = "CONFIRM"
            /\ UNCHANGED <<plan, job, order, filled, expected, pending, pair, tries>>
       ELSE Stop
  /\ UNCHANGED <<working, pos, active, starts>>

Signed == Sign(order.size) * filled
Entering == plan.kind = "ENTRY"

(* Mutant: shares sold back stay in the first leg's book. *)
UnbookedRollback ==
  CASE job = "FIRST" -> [NoPair EXCEPT !.first = filled]
    [] job = "SECOND" -> [pair EXCEPT !.second = @ + filled]
    [] job = "REPAIR" -> [pair EXCEPT !.repair = @ - filled]
    [] OTHER -> pair

(* What a confirmed order changes in the book of the pair. *)
Booked ==
  CASE job = "FIRST" -> [NoPair EXCEPT !.first = filled]
    [] job = "SECOND" -> [pair EXCEPT !.second = @ + filled]
    [] job = "REPAIR" /\ Entering ->
         [pair EXCEPT !.first = @ - filled, !.repair = @ - filled]
    [] job = "REPAIR" /\ ~Entering ->
         [pair EXCEPT !.second = @ + filled, !.repair = @ - filled]
    [] OTHER -> pair

(* Where the program goes on. *)
AfterOrder ==
  CASE job = "FIRST" -> "COMPLETE"
    [] job = "SECOND" -> "COMPLETE"
    [] job = "REPAIR" -> "REPAIR"
    [] OTHER -> "HEDGE"

(* Mutant: only an order that was filled counts as an attempt. *)
FilledRounds ==
  IF job \in {"FIRST", "SINGLE"} THEN 0 ELSE IF filled = 0 THEN tries ELSE tries + 1

Rounds == IF job \in {"FIRST", "SINGLE"} THEN 0 ELSE tries + 1

(* The account must show what was filled; a first leg or a hedge that got  *)
(* nothing ends the attempt.                                               *)
Confirm ==
  /\ pc = "CONFIRM"
  /\ IF pos[order.leg] # expected[order.leg] + Signed THEN Stop
     ELSE IF filled = 0 /\ job = "FIRST" THEN Return
     ELSE IF job = "HEDGE" /\ (filled = 0 \/ OptionsHeld) THEN Return
     ELSE /\ pc' = AfterOrder
          /\ expected' = [expected EXCEPT ![order.leg] = @ + Signed]
          /\ pair' = Booked
          /\ pending' = (pending \/ job = "FIRST")
          /\ tries' = Rounds
          /\ job' = "NONE" /\ order' = NoOrder /\ filled' = 0
          /\ UNCHANGED plan
  /\ UNCHANGED <<working, pos, active, starts>>

(***************************************************************************)
(* drain_pair: the second leg is completed, and what remains of the first  *)
(* is sold again or, on the way out, the second leg reduced further.       *)
(***************************************************************************)
Checked == active /\ pos = expected
Second == Other(plan.leg)

Missing == pair.first - pair.second

Place(j, l, n) ==
  /\ pc' = "POST"
  /\ job' = j /\ order' = [leg |-> l, size |-> n]
  /\ UNCHANGED <<plan, filled, expected, pending>>

Proceed(place) ==
  /\ pc' = place
  /\ UNCHANGED <<plan, job, order, filled, expected, pending, pair, tries>>

(* Deadline, delta, capacity, news, stress or edge may end the completion. *)
Complete ==
  /\ pc = "COMPLETE"
  /\ \/ tries = CompletionAttempts /\ Proceed("SETTLE")
     \/ tries < CompletionAttempts /\ ~Checked /\ Stop
     \/ tries < CompletionAttempts /\ Checked /\ Proceed("SETTLE")
     \/ /\ tries < CompletionAttempts /\ Checked /\ Missing # 0
        /\ Place("SECOND", Second, IF Entering THEN Missing ELSE -Missing)
        /\ UNCHANGED <<pair, tries>>
  /\ UNCHANGED <<working, pos, active, starts>>

(* Mutant: an exit that got stuck buys its first leg back. *)
ReopenRepair == [leg |-> plan.leg, sign |-> IF Entering THEN -1 ELSE 1]

RepairSide ==
  IF Entering THEN [leg |-> plan.leg, sign |-> -1] ELSE [leg |-> Second, sign |-> -1]

Repaired(quantity, attempt) ==
  IF quantity = 0 THEN
       /\ GoToHedge
       /\ pending' = FALSE /\ pair' = NoPair
       /\ UNCHANGED <<plan, expected>>
  ELSE IF attempt = RollbackAttempts THEN Stop
  ELSE /\ Place("REPAIR", RepairSide.leg, RepairSide.sign * quantity)
       /\ pair' = [pair EXCEPT !.repair = quantity]
       /\ tries' = attempt

(* Mutant: an unfinished pair is left behind for the strategy to trim. *)
LeaveUnmatched ==
  /\ pc = "SETTLE"
  /\ IF Checked THEN Repaired(0, 0) ELSE Stop
  /\ UNCHANGED <<working, pos, active, starts>>

Settle ==
  /\ pc = "SETTLE"
  /\ IF Checked THEN Repaired(Missing, 0) ELSE Stop
  /\ UNCHANGED <<working, pos, active, starts>>

Repair ==
  /\ pc = "REPAIR"
  /\ IF Checked THEN Repaired(pair.repair, tries) ELSE Stop
  /\ UNCHANGED <<working, pos, active, starts>>

(***************************************************************************)
(* hedge_after_batch: read the case and the account, order the change of   *)
(* the stock, start over when the case moved meanwhile.                    *)
(***************************************************************************)
HedgeAfterBatch ==
  /\ pc = "HEDGE"
  /\ \/ (tries = HedgeAttempts \/ ~active \/ OptionsHeld \/ Hedges = {}) /\ Return
     \/ /\ tries < HedgeAttempts /\ active /\ Hedges # {}
        /\ pc' = "HEDGE" /\ tries' = tries + 1
        /\ UNCHANGED <<plan, job, order, filled, expected, pending, pair>>
     \/ /\ tries < HedgeAttempts /\ active
        /\ \E h \in Hedges :
             /\ pc' = "POST" /\ job' = "HEDGE" /\ order' = [leg |-> "RTM", size |-> h]
        /\ expected' = pos
        /\ UNCHANGED <<plan, filled, pending, pair, tries>>
  /\ UNCHANGED <<working, pos, active, starts>>

Program ==
  \/ Evaluate \/ CheckOpenOrders \/ Refresh \/ RefuseEntry \/ RefuseReduction \/ Disturbed
  \/ \E same \in BOOLEAN : Verify(same)
  \/ Post \/ PostRaises \/ Poll
  \/ \E works \in BOOLEAN : TimeOut(works)
  \/ Recheck \/ Confirm \/ Complete \/ Settle \/ Repair \/ HedgeAfterBatch

Environment ==
  \/ \E l \in Leg : ExchangeFills(l) \/ ExchangeDrops(l)
  \/ CaseEnds \/ Abort \/ Restart

Next == Program \/ Environment

Spec == Init /\ [][Next]_vars

(* The program takes its next step: every call returns, times out or       *)
(* raises, and the deadlines of the orders pass.                           *)
FairSpec == Spec /\ WF_vars(Program)

-----------------------------------------------------------------------------
(* "Never ... leave a resting first leg while sending more": whenever an   *)
(* order is sent, nothing of the account is still working at the exchange, *)
(* be it the order before it, timed out and deleted, or one of a process   *)
(* that stopped while it was polling.                                      *)
OneOrderAtATime == pc = "POST" => working = Flat

(* execute() and drain_pair own the pair until it is resolved: a process   *)
(* that has not stopped never comes back to the strategy with the two legs *)
(* of a straddle apart, however its orders were filled, cancelled or timed *)
(* out.                                                                    *)
MatchedBetweenBatches ==
  pc = "IDLE" /\ starts = 1 => pos["CALL"] = pos["PUT"]

Fillable(l) == {0, working[l]}

(* However the shares still working are filled, and whenever the process   *)
(* stops and is started again, the legs are never further apart than one   *)
(* batch: "at most one existing EXIT_BATCH to unwind promptly".            *)
UnmatchedWithinBatch ==
  \A c \in Fillable("CALL"), p \in Fillable("PUT") :
    Abs((pos["CALL"] + c) - (pos["PUT"] + p)) <= Batch

(* Reductions never turn a position round: no fill, late ones included,    *)
(* makes an option position opposite to its campaign, or takes the hedge   *)
(* beyond RTM_LIMIT or to the other side of the options.                   *)
NoReversal ==
  /\ \A l \in Leg : pos[l] + (IF working[l] < 0 THEN working[l] ELSE 0) >= 0
  /\ pos["RTM"] + (IF working["RTM"] > 0 THEN working["RTM"] ELSE 0) <= MaxHedge

(* What first_filled, second_filled and repair_quantity say of a pending   *)
(* pair is the account: once its order is booked, the legs are exactly as  *)
(* far apart as the book says.                                             *)
PairBookMatchesAccount ==
  pending /\ pc \in {"COMPLETE", "SETTLE", "REPAIR"} =>
    /\ Abs(Unmatched) = Missing
    /\ pc = "REPAIR" => pair.repair = Missing

(* "For exits finish reducing the remaining leg, rather than reopen risk": *)
(* from its first check to its end, a plan that reduces never buys options *)
(* of the campaign back, in completion, repair or hedging.                 *)
ExitsOnlyReduce ==
  [][plan.kind \in {"EXIT", "TRIM"} /\ pc \notin {"OPENCHECK", "IDLE", "STOPPED"} =>
       \A l \in Option : pos'[l] <= pos[l]]_vars

(* A pending pair does not stay pending: completion and rollback are       *)
(* bounded whatever the exchange fills, and end with the pair matched or   *)
(* the process stopped.                                                    *)
PendingResolves == pending ~> (pc = "STOPPED" \/ (~pending /\ Unmatched = 0))
=============================================================================
