----------------------------- MODULE DeltaLimit -----------------------------
(***************************************************************************)
(* The main loop of the integrated-variance program around the delta limit *)
(* of a sub-heat: where the limit comes from (the news, the command line,  *)
(* a default), the risk gates derived from it, and the cycles that trade   *)
(* under those gates.                                                      *)
(***************************************************************************)
EXTENDS Integers

CONSTANTS
  Limits,   \* limits the news may announce
  Supplied, \* --announced-delta-limit, 0 if absent
  MaxHeats, \* bound: sub-heats
  LastTick  \* bound: ticks of a sub-heat

ASSUME DeltaLimitAssumption ==
  /\ Limits \subseteq Nat \ {0}
  /\ Supplied \in Nat /\ (Supplied = 0 \/ Supplied > 1000)
  /\ MaxHeats \in Nat /\ LastTick \in Nat

VARIABLES
  now,        \* the case at the server: heat, period, tick, active
  published,  \* limit announced in the news of this sub-heat, 0 before
  pc,         \* where the loop stands
  case,       \* the case of this cycle
  previous,   \* previous_active
  found,      \* published_limit of this cycle
  supplied,   \* announced_delta_limit
  configured, \* configured_period and configured_limit, and their sub-heat
  gates,      \* the risk limits in force
  traded      \* history: what the last evaluated cycle was traded under

limitVars == <<now, published, pc, case, previous, found, supplied, configured, gates, traded>>

Lesser(m, n) == IF m < n THEN m ELSE n
Greater(m, n) == IF m > n THEN m ELSE n

(***************************************************************************)
(* configure_announced_delta_limit.                                        *)
(***************************************************************************)
DefaultLimit == 7000

Acceptable(limit) == limit > 1000

Buffer(limit) == Lesser(1000, Greater(200, limit \div 5))

Gates(limit) ==
  LET hard == Lesser(6000, limit - Buffer(limit))
      emergency == Lesser(3500, (3 * hard) \div 5)
  IN [official |-> limit, hard |-> hard, emergency |-> emergency,
      soft |-> Lesser(3500, emergency), shock |-> hard,
      long |-> Lesser(1300, emergency), short |-> Lesser(800, emergency)]

(***************************************************************************)
(* The initial state, and the server.                                      *)
(***************************************************************************)
NoCase == [heat |-> 0, period |-> 0, tick |-> 0, active |-> FALSE]
NotConfigured == [period |-> 0, limit |-> 0, heat |-> 0]
NotTraded == [heat |-> 0, limit |-> 0, found |-> 0, of |-> 0]

LimitInit ==
  /\ now = [NoCase EXCEPT !.heat = 1, !.period = 1]
  /\ published = 0
  /\ pc = "CASE" /\ case = NoCase /\ previous = NoCase /\ found = 0
  /\ supplied = Supplied /\ configured = NotConfigured
  /\ gates = Gates(DefaultLimit) /\ traded = NotTraded

program == <<pc, case, previous, found, supplied, configured, gates, traded>>

SubHeatStarts ==
  /\ ~now.active /\ now.tick = 0
  /\ now' = [now EXCEPT !.active = TRUE]
  /\ UNCHANGED published /\ UNCHANGED program

(* A sub-heat is polled before it is as old as the last poll of the one    *)
(* before, unless its period is another one.                               *)
SubHeatTicks ==
  /\ now.active /\ now.tick < LastTick
  /\ \A c \in {previous, case} :
       c.heat # now.heat /\ c.period = now.period => now.tick + 1 < c.tick
  /\ now' = [now EXCEPT !.tick = @ + 1]
  /\ UNCHANGED published /\ UNCHANGED program

Announce ==
  /\ \E limit \in Limits : published' = limit
  /\ UNCHANGED now /\ UNCHANGED program

Stops ==
  /\ now.active /\ now' = [now EXCEPT !.active = FALSE]
  /\ UNCHANGED published /\ UNCHANGED program

(* A program that has polled the first tick of a sub-heat cannot tell      *)
(* another one of the same period by its tick.                             *)
NextSubHeat ==
  /\ ~now.active /\ now.tick > 0 /\ now.heat < MaxHeats
  /\ \E p \in {now.period, now.period + 1} :
       /\ p = now.period => previous.tick > 0 \/ previous = NoCase
       /\ now' = [heat |-> now.heat + 1, period |-> p, tick |-> 0, active |-> FALSE]
  /\ published' = 0
  /\ UNCHANGED program

(***************************************************************************)
(* One cycle.                                                              *)
(***************************************************************************)
(* Mutant: only a change of period begins a sub-heat. *)
NewPeriod(c) == previous # NoCase /\ c.period # previous.period

NewSubHeat(c) ==
  previous # NoCase /\ (c.period # previous.period \/ c.tick < previous.tick)

ReadCase ==
  /\ pc = "CASE" /\ now.active
  /\ case' = now /\ previous' = now
  /\ configured' = IF NewSubHeat(now) THEN NotConfigured ELSE configured
  /\ supplied' = IF NewSubHeat(now) THEN 0 ELSE supplied
  /\ pc' = "NEWS"
  /\ UNCHANGED <<now, published, found, gates, traded>>

(* Only items of the period of the case count. *)
ReadNews ==
  /\ pc = "NEWS"
  /\ found' = IF now.period = case.period THEN published ELSE 0
  /\ pc' = "LIMIT"
  /\ UNCHANGED <<now, published, case, previous, supplied, configured, gates, traded>>

(* choose_announced_delta_limit.                                           *)
Chosen ==
  CASE found # 0 -> found
    [] found = 0 /\ supplied # 0 -> supplied
    [] OTHER -> DefaultLimit

(* Mutant: a change of the announcement is not noticed. *)
NeverInConflict == FALSE

Conflict == found # 0 /\ found # configured.limit

Configure ==
  /\ pc = "LIMIT" /\ configured.period # case.period
  /\ found # 0 /\ supplied # 0 => found = supplied
  /\ Acceptable(Chosen)
  /\ gates' = Gates(Chosen)
  /\ configured' = [period |-> case.period, limit |-> Chosen, heat |-> case.heat]
  /\ pc' = "TRADE"
  /\ UNCHANGED <<now, published, case, previous, found, supplied, traded>>

Recheck ==
  /\ pc = "LIMIT" /\ configured.period = case.period
  /\ ~Conflict
  /\ pc' = "TRADE"
  /\ UNCHANGED <<now, published, case, previous, found, supplied, configured, gates, traded>>

(* The program stops rather than trade under a limit that is in doubt.     *)
Refuse ==
  /\ pc = "LIMIT"
  /\ IF configured.period = case.period THEN Conflict
     ELSE (found # 0 /\ supplied # 0 /\ found # supplied) \/ ~Acceptable(Chosen)
  /\ pc' = "STOPPED"
  /\ UNCHANGED <<now, published, case, previous, found, supplied, configured, gates, traded>>

Same(c) == c.period = case.period /\ c.tick = case.tick /\ c.active

(* The case is read once more; the cycle trades only if it is the same.    *)
TradeCycle ==
  /\ pc = "TRADE"
  /\ traded' = IF Same(now)
               THEN [heat |-> case.heat, limit |-> gates.official, found |-> found,
                     of |-> configured.heat]
               ELSE traded
  /\ pc' = "CASE"
  /\ UNCHANGED <<now, published, case, previous, found, supplied, configured, gates>>

Server == SubHeatStarts \/ SubHeatTicks \/ Announce \/ Stops \/ NextSubHeat
Program == ReadCase \/ ReadNews \/ Configure \/ Recheck \/ Refuse \/ TradeCycle
LimitNext == Server \/ Program
LimitSpec == LimitInit /\ [][LimitNext]_limitVars

(***************************************************************************)
(* Properties.                                                             *)
(***************************************************************************)
(* Whatever the announced limit is, a hedge begins before entries stop,    *)
(* entries stop before the hard gate, and the hard gate is a buffer below  *)
(* the limit: no gate is empty and none is out of order.                   *)
Nested(g) ==
  /\ 0 < g.short /\ g.short <= g.long
  /\ g.long <= g.soft /\ g.soft = g.emergency
  /\ g.emergency < g.hard /\ g.shock = g.hard
  /\ g.hard <= g.official - 200
GatesAreNested == Nested(gates)

(* A cycle that has seen an announcement trades under exactly this limit.  *)
TradesUnderAnnouncement == traded.found # 0 => traded.limit = traded.found

(* The limit of a cycle was configured in its own sub-heat: no value of an *)
(* earlier one, announced or typed, is carried forward.                    *)
LimitOfThisSubHeat == traded.of = traded.heat

=============================================================================
