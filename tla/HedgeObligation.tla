-------------------------- MODULE HedgeObligation --------------------------
(***************************************************************************)
(* What an executor of trade bundles promises its caller, whatever orders  *)
(* it uses: at most one plan is open; a plan no leg of which has traded    *)
(* may be dropped; once a share has traded, every further step only brings *)
(* the open legs nearer to zero, and they do reach zero.  Only a caller    *)
(* that was interrupted may forget a plan that has begun: from the first   *)
(* cycle it sees through until it is interrupted again it keeps its plans. *)
(***************************************************************************)
EXTENDS Integers

CONSTANT Leg

VARIABLES
  left,  \* signed shares still to trade, per leg
  begun, \* some share of the open plan has traded
  kept   \* a cycle was seen through since the last interruption

vars == <<left, begun, kept>>

Nothing == [l \in Leg |-> 0]

Init == left = Nothing /\ begun = FALSE /\ kept \in BOOLEAN

Take ==
  /\ left = Nothing
  /\ left' \in [Leg -> Int] /\ left' # Nothing
  /\ begun' = FALSE
  /\ UNCHANGED kept

Drop ==
  /\ ~begun
  /\ left' = Nothing
  /\ begun' = FALSE
  /\ UNCHANGED kept

Between(m, n) == IF n > 0 THEN 0 <= m /\ m < n ELSE n < m /\ m <= 0

Fill ==
  \E l \in Leg :
    /\ Between(left'[l], left[l])
    /\ left' = [left EXCEPT ![l] = left'[l]]
    /\ begun' = (left' # Nothing)
    /\ UNCHANGED kept

Forget ==
  /\ ~kept
  /\ left' = Nothing
  /\ begun' = FALSE
  /\ UNCHANGED kept

SeeThrough == ~kept /\ kept' = TRUE /\ UNCHANGED <<left, begun>>
Interrupt == kept /\ kept' = FALSE /\ UNCHANGED <<left, begun>>

Next == Take \/ Drop \/ Fill \/ Forget \/ SeeThrough \/ Interrupt

SafePromise == Init /\ [][Next]_vars
Promise == Init /\ [][Next]_vars /\ (begun ~> ~begun)
=============================================================================
