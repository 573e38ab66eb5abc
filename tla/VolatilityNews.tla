--------------------------- MODULE VolatilityNews ---------------------------
(***************************************************************************)
(* The volatility model of the integrated strategy (VolatilityModel) and   *)
(* the way news reach it: polls that read the case, the news and the case  *)
(* again while the server goes on, items published at any tick, found late *)
(* or out of order, and heats that follow each other.                      *)
(***************************************************************************)
EXTENDS NewsItems

CONSTANTS
  Said,     \* texts the exchange publishes
  Quotes,   \* at-the-money implied volatilities that occur
  MaxItems, \* bound: items of a heat
  MaxTick,  \* bound: last tick of a heat
  MaxHeats, \* bound: heats
  MaxQuotes, \* bound: quotes kept as observations
  MaxAge    \* MAX_BASELINE_AGE_TICKS

ASSUME VolatilityNewsAssumption ==
  /\ Said \subseteq Texts /\ Quotes \subseteq Nat \ {0}
  /\ {MaxItems, MaxTick, MaxHeats, MaxQuotes, MaxAge} \subseteq Nat
  /\ MaxTick < TotalTicks

VARIABLES
  server, \* tick, period and heat at the simulator
  feed,   \* items published
  case,   \* the case of this poll, NoCase between polls
  read,   \* the news of this poll, NotRead before
  model,  \* VolatilityModel
  known,  \* tick and period of the last evaluation, and its heat
  overtaken \* history: an item of this heat was learned before an earlier one

vars == <<server, feed, case, read, model, known, overtaken>>

NoCase == [tick |-> -1, period |-> 0, heat |-> 0]
NotRead == {[id |-> 0]}

(* What is known of a week, and the tick of the item that said so. *)
Week(tick, s) == [tick |-> tick, kind |-> s.kind, low |-> s.low, high |-> s.high]

Fresh ==
  [weeks |-> [w \in AllWeeks |-> Week(-1, UnknownWeek)],
   seen |-> {}, observations |-> <<>>, baseline |-> 0, release |-> -1, exact |-> FALSE]

Init ==
  /\ server = [tick |-> 0, period |-> 1, heat |-> 1]
  /\ feed = {} /\ case = NoCase /\ read = NotRead
  /\ model = Fresh /\ known = NoCase /\ overtaken = FALSE

(***************************************************************************)
(* The simulator. A poll takes less than a heat, and a heat is evaluated   *)
(* before its tick passes the last one evaluated in the heat before: the   *)
(* program tells heats of the same period apart by the tick going back.    *)
(***************************************************************************)
Noticeable(next) ==
  \A c \in {case, known} :
    c = NoCase \/ c.heat = next.heat \/ c.period # next.period \/ next.tick < c.tick

Advance ==
  /\ server.tick < MaxTick
  /\ server' = [server EXCEPT !.tick = @ + 1] /\ Noticeable(server')
  /\ UNCHANGED <<feed, case, read, model, known, overtaken>>

Publish ==
  /\ Cardinality(feed) < MaxItems
  /\ \E text \in Said :
       feed' = feed \cup {[id |-> Cardinality(feed) + 1, text |-> text,
                           tick |-> server.tick, period |-> server.period, heat |-> server.heat]}
  /\ UNCHANGED <<server, case, read, model, known, overtaken>>

(* A heat ends; the next has the same period and an empty feed, or is the *)
(* next period of the same case and keeps the items.                      *)
NextHeat ==
  /\ server.tick = MaxTick /\ server.heat < MaxHeats
  /\ \/ /\ server' = [tick |-> 0, period |-> server.period, heat |-> server.heat + 1]
        /\ feed' = {}
     \/ /\ server' = [tick |-> 0, period |-> server.period + 1, heat |-> server.heat + 1]
        /\ UNCHANGED feed
  /\ Noticeable(server')
  /\ UNCHANGED <<case, read, model, known, overtaken>>

(***************************************************************************)
(* VolatilityModel.update.                                                 *)
(***************************************************************************)
(* Mutant: a quote of the release's own tick counts as seen before it. *)
UpToRelease(observation, release) ==
  observation.tick <= release /\ release - observation.tick <= MaxAge

PreNews(observation, release) ==
  observation.tick < release /\ release - observation.tick <= MaxAge

Baseline(m, release) ==
  LET before == {i \in DOMAIN m.observations : PreNews(m.observations[i], release)} IN
  IF before = {} THEN 0 ELSE m.observations[Max(before)].iv

Confident(m, item) ==
  \/ \E s \in ParseNews(item) : s.kind = "ACTUAL"
  \/ item.tick = m.release /\ m.exact

Released(m, item) ==
  IF item.tick < m.release THEN m
  ELSE [m EXCEPT !.baseline = Baseline(m, item.tick), !.release = item.tick,
                 !.exact = Confident(m, item)]

(* Mutant: what is said last of a week stands. *)
LastWord(old, s) == TRUE

Overrides(old, s) == s.kind = "ACTUAL" \/ old.kind # "ACTUAL"

Learned(m, item) ==
  [m EXCEPT !.seen = @ \cup {item}, !.weeks =
     [w \in AllWeeks |->
        IF \E s \in ParseNews(item) : s.week = w /\ @[w].tick <= item.tick /\ Overrides(@[w], s)
        THEN Week(item.tick, CHOOSE s \in ParseNews(item) : s.week = w)
        ELSE @[w]]]

Update(m, news, tick, period, iv) ==
  LET incoming == InOrder(Applicable(news, tick, period) \ m.seen)
      updated == FoldLeft(LAMBDA n, item : Learned(Released(n, item), item), m, incoming)
  IN IF iv = 0 THEN updated
     ELSE [updated EXCEPT !.observations = Append(@, [tick |-> tick, iv |-> iv])]

(***************************************************************************)
(* One poll of main: GET /case, GET /news, GET /securities and GET /case   *)
(* again. Strategy.evaluate starts over when the heat is another one.      *)
(***************************************************************************)
ReadCase ==
  /\ case = NoCase
  /\ case' = server
  /\ UNCHANGED <<server, feed, read, model, known, overtaken>>

ReadNews ==
  /\ case # NoCase /\ read = NotRead
  /\ read' \in SUBSET feed
  /\ UNCHANGED <<server, feed, case, model, known, overtaken>>

Consistent(verified) == verified.tick = case.tick /\ verified.period = case.period

AnotherHeat == known # NoCase /\ (case.period # known.period \/ case.tick < known.tick)

Readable == IF Len(model.observations) < MaxQuotes THEN Quotes ELSE {}

Overtaken(m) ==
  \E missed \in Applicable(feed, case.tick, case.period) \ m.seen, item \in m.seen : Before(missed, item)

Verify ==
  /\ read # NotRead
  /\ \E iv \in Readable \cup {0} :
       IF Consistent(server)
       THEN /\ model' = Update(IF AnotherHeat THEN Fresh ELSE model,
                               read, case.tick, case.period, iv)
            /\ known' = [case EXCEPT !.heat = server.heat]
            /\ overtaken' = ((overtaken /\ ~AnotherHeat) \/ Overtaken(model'))
       ELSE UNCHANGED <<model, known, overtaken>>
  /\ case' = NoCase /\ read' = NotRead
  /\ UNCHANGED <<server, feed>>

Next == Advance \/ Publish \/ NextHeat \/ ReadCase \/ ReadNews \/ Verify

Spec == Init /\ [][Next]_vars

(***************************************************************************)
(* Properties.                                                             *)
(***************************************************************************)
(* As long as no item is found after a later one, the model, which folds   *)
(* each item into the weeks as it arrives, knows of every week what the    *)
(* schedule computed at once from the items of this heat says              *)
(* (weekly_schedule), whatever the polls and heats before.                 *)
AgreesWithSchedule ==
  ~overtaken =>
    [w \in AllWeeks |-> Reading(model.weeks[w])] =
      WeeklySchedule({item \in model.seen : item.heat = known.heat}, known.tick, known.period)

(* The baseline is the last quote from before the release, or none when    *)
(* that is too old; a quote that may already contain the news is not used, *)
(* however late the item is found.                                         *)
BaselinePredatesRelease ==
  LET before == {i \in DOMAIN model.observations : model.observations[i].tick < model.release}
      last == CHOOSE i \in before : \A j \in before : j <= i
  IN model.baseline =
       IF before # {} /\ model.release - model.observations[last].tick <= MaxAge
       THEN model.observations[last].iv ELSE 0

=============================================================================
