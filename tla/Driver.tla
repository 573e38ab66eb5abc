------------------------------- MODULE Driver -------------------------------
(***************************************************************************)
(* The polling driver of case2 (main.run) beside a simulator that runs one *)
(* heat after another: how it tells a new heat from the one before, and    *)
(* what it drops with the state of a heat.  A read of the case carries the *)
(* heat it was taken in, which the program does not know.                  *)
(***************************************************************************)
EXTENDS Integers

CONSTANTS
  MaxHeats,     \* bound: heats of the simulator
  MaxHeatTick   \* bound: ticks of a heat

ASSUME DriverAssumption == MaxHeats \in Nat \ {0} /\ MaxHeatTick \in Nat \ {0}

VARIABLES
  now,      \* the case at the simulator: heat, tick and status
  at,       \* where run() stands
  read,     \* tick, status of this poll
  last,     \* last_status, last_tick
  seen,     \* seen_heat
  owner,    \* the heat STATE belongs to, 0 before the first
  stopping, \* shutdown_requested
  traded    \* history: the last heat step_once has completed a cycle of

driverVars == <<now, at, read, last, seen, owner, stopping, traded>>

NoCase == [heat |-> 0, tick |-> 0, status |-> "NONE"]

DriverInit ==
  /\ now = [heat |-> 0, tick |-> 0, status |-> "STOPPED"]
  /\ at = "POLL" /\ read = NoCase /\ last = NoCase
  /\ seen = FALSE /\ owner = 0
  /\ stopping = FALSE /\ traded = 0

(***************************************************************************)
(* The simulator and the operator.  A heat may be paused.  The case is     *)
(* polled before a new heat is as old as the last poll of another one: the *)
(* program could not tell the two apart.                                   *)
(***************************************************************************)
Polls == {last} \cup (IF at = "POLL" THEN {} ELSE {read})
Timely(c) ==
  \A p \in Polls : p.status = "ACTIVE" /\ p.heat # c.heat => c.tick < p.tick

Becomes(c) ==
  /\ now' = c
  /\ Timely(c)
  /\ UNCHANGED <<at, read, last, seen, owner, stopping, traded>>

HeatStarts ==
  /\ now.status = "STOPPED" /\ now.heat < MaxHeats
  /\ Becomes([heat |-> now.heat + 1, tick |-> 0, status |-> "ACTIVE"])
TickAdvances ==
  /\ now.status = "ACTIVE" /\ now.tick < MaxHeatTick
  /\ Becomes([now EXCEPT !.tick = @ + 1])
HeatEnds == now.status = "ACTIVE" /\ Becomes([now EXCEPT !.status = "STOPPED"])
HeatPauses ==
  /\ now.status = "ACTIVE"
  /\ Becomes([now EXCEPT !.status = "PAUSED"])
HeatResumes == now.status = "PAUSED" /\ Becomes([now EXCEPT !.status = "ACTIVE"])

SignalHandler ==
  /\ ~stopping /\ at # "END"
  /\ stopping' = TRUE
  /\ UNCHANGED <<now, at, read, last, seen, owner, traded>>

(***************************************************************************)
(* One poll.                                                               *)
(***************************************************************************)
(* Mutant: the case is read once and kept. *)
CachedStatus ==
  /\ at = "POLL" /\ ~stopping
  /\ read' = IF last = NoCase THEN now ELSE last
  /\ at' = "COMPARE"
  /\ UNCHANGED <<now, last, seen, owner, stopping, traded>>

GetTickStatus ==
  /\ at = "POLL" /\ ~stopping
  /\ read' = now
  /\ at' = "COMPARE"
  /\ UNCHANGED <<now, last, seen, owner, stopping, traded>>

(* An answer without content is a status and a tick of None. *)
EmptyAnswer ==
  /\ at = "POLL" /\ ~stopping
  /\ read' = [NoCase EXCEPT !.heat = now.heat]
  /\ at' = "COMPARE"
  /\ UNCHANGED <<now, last, seen, owner, stopping, traded>>

(* Mutant: only a change of status makes a new heat. *)
StatusChanged == read.status = "ACTIVE" /\ last.status # "ACTIVE"

NewHeat ==
  /\ read.status = "ACTIVE"
  /\ last.status # "ACTIVE" \/ read.tick < last.tick
HeatOver == last.status = "ACTIVE" /\ read.status # "ACTIVE"

Begin ==
  /\ at = "COMPARE" /\ NewHeat
  /\ seen' = TRUE
  /\ owner' = read.heat
  /\ at' = "STEP"
  /\ UNCHANGED <<now, read, last, stopping, traded>>

Continue ==
  /\ at = "COMPARE" /\ ~NewHeat
  /\ at' = "STEP"
  /\ UNCHANGED <<now, read, last, seen, owner, stopping, traded>>

(* cancel_live_orders, before a state is dropped and at the end of a heat, *)
(* raises: the poll is over, and what it read is not remembered.           *)
CancelRaises ==
  /\ at = "COMPARE"
  /\ (NewHeat /\ seen) \/ HeatOver
  /\ at' = "POLL"
  /\ read' = NoCase
  /\ UNCHANGED <<now, last, seen, owner, stopping, traded>>

StepRaises ==
  /\ at = "STEP" /\ read.status = "ACTIVE" /\ ~stopping
  /\ at' = "POLL"
  /\ read' = NoCase
  /\ UNCHANGED <<now, last, seen, owner, stopping, traded>>

Remember ==
  /\ last' = read /\ read' = NoCase
  /\ at' = "POLL"
  /\ UNCHANGED <<now, seen, owner, stopping>>

(* step_once returns.                                                      *)
Trade ==
  /\ at = "STEP" /\ read.status = "ACTIVE" /\ ~stopping
  /\ traded' = read.heat
  /\ Remember

Pass ==
  /\ at = "STEP" /\ (read.status # "ACTIVE" \/ stopping)
  /\ Remember
  /\ UNCHANGED traded

Stop ==
  /\ at = "POLL" /\ stopping
  /\ at' = "END"
  /\ UNCHANGED <<now, read, last, seen, owner, stopping, traded>>

Simulator == HeatStarts \/ TickAdvances \/ HeatEnds \/ HeatPauses \/ HeatResumes
Answered == GetTickStatus \/ Begin \/ Continue \/ Trade \/ Pass \/ Stop
DriverNext == Simulator \/ SignalHandler \/ Answered \/ EmptyAnswer \/ CancelRaises \/ StepRaises

DriverSpec == DriverInit /\ [][DriverNext]_driverVars
(* The program polls on, and a request does not fail for ever. *)
FairSpec ==
  /\ DriverSpec
  /\ WF_driverVars(Stop) /\ WF_driverVars(Pass)
  /\ SF_driverVars(GetTickStatus)
  /\ SF_driverVars(Begin) /\ SF_driverVars(Continue) /\ SF_driverVars(Trade)

(***************************************************************************)
(* Properties.                                                             *)
(***************************************************************************)
(* A cycle trades with the state of the heat it has read.                  *)
StateBelongsToHeat ==
  at = "STEP" /\ read.status = "ACTIVE" => owner = read.heat

(* Every heat that lasts is traded, failing requests at its beginning or   *)
(* at the end of the one before notwithstanding.                           *)
EveryHeatIsTraded ==
  \A h \in 1..MaxHeats :
    [](now.heat = h /\ now.status = "ACTIVE" =>
        <>(traded = h \/ stopping \/ now.heat # h \/ now.status # "ACTIVE"))
=============================================================================
