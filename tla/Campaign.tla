------------------------------ MODULE Campaign ------------------------------
(***************************************************************************)
(* The decisions of the integrated-variance strategy (Strategy.evaluate):  *)
(* one volatility campaign at a time, opened on a news release, confirmed, *)
(* filled batch by batch, repaired, scaled out once, closed and cooled     *)
(* down, over an account that every plan may fill in part.                 *)
(*                                                                         *)
(* Prices, Greeks and capacities are inputs of an evaluation: the edge of  *)
(* a strike in its better direction (the other direction, which pays the   *)
(* costs twice, is then deep in loss), whether the implied volatilities    *)
(* and the carry of the week allow an entry, the size the limits allow,    *)
(* and how far the portfolio delta is from its limits.                     *)
(***************************************************************************)
EXTENDS Integers, FiniteSets

CONSTANTS
  Strikes,     \* strikes with a call and a put
  Sides,       \* directions an edge may have
  Edges,       \* classes of edges that occur
  Checks,      \* what the other entry filters find
  Levels,      \* levels of the portfolio delta that occur
  News,        \* what a poll may find: a new release, or a late older item
  Starts,      \* what may be held at one strike when the program starts
  MaxSize,     \* bound: pairs of a target
  MaxTick,     \* bound: ticks of the heat
  MaxEvents,   \* bound: releases
  MaxLag,      \* bound: ticks after which a poll finds a release
  NewsWindow,  \* ENTRY_NEWS_WINDOW_TICKS
  ExactWindow, \* EXACT_ENTRY_NEWS_WINDOW_TICKS
  Cooldown,    \* REENTRY_COOLDOWN_TICKS
  NoNewEntry,  \* NO_NEW_ENTRY_TICK
  ForceExit    \* FORCE_EXIT_TICK

ASSUME CampaignAssumption ==
  /\ {MaxSize, MaxTick, MaxEvents, MaxLag, NewsWindow, ExactWindow, Cooldown} \subseteq Nat
  /\ {NoNewEntry, ForceExit} \subseteq Nat /\ NoNewEntry <= ForceExit
  /\ Sides \subseteq {"LONG", "SHORT"}
  /\ Edges \subseteq {"DEEP", "NEGATIVE", "THIN", "ENTRY", "ADD", "STRONG"}
  /\ Checks \subseteq {"CLEAR", "IV", "CARRY"}
  /\ Levels \subseteq {"CALM", "BAND", "EMERGENCY", "EXHAUSTED"}
  /\ News \subseteq {"RELEASE", "LATE"}
  /\ Starts \subseteq {"PAIRS", "EXCESS", "OPPOSED"}

Confirmations == 2  \* ENTRY_CONFIRMATION_TICKS, EXIT_CONFIRMATION_TICKS
None == [event |-> -1]
NoPlan == [kind |-> "NONE"]
Flat == <<0, 0>>
Size(n) == IF n < 0 THEN -n ELSE n
Least(m, n) == IF m < n THEN m ELSE n
Keep(f, S) == [k \in DOMAIN f \cap S |-> f[k]]
Put(f, k, v) == [j \in DOMAIN f \cup {k} |-> IF j = k THEN v ELSE f[j]]

VARIABLES
  tick,     \* the tick at the simulator
  model,    \* VolatilityModel: event_key, latest_release, confidence = 1
  position, \* calls and puts held at each strike
  self,     \* the Strategy object
  plan,     \* what execute() is about to do, NoPlan between polls
  entered,  \* history: events on which an entry from flat left something held
  reduced   \* history: strikes whose position a plan has reduced

vars == <<tick, model, position, self, plan, entered, reduced>>

Held == {k \in Strikes : position[k] # Flat}

Fresh ==
  [seen |-> FALSE, campaign |-> None, used |-> {}, confirmation |-> None,
   cooldown |-> -1, held |-> {}, exiting |-> {},
   shallow |-> <<>>, deep |-> <<>>, goals |-> <<>>]

Inherited ==
  [PAIRS |-> <<MaxSize, MaxSize>>, EXCESS |-> <<MaxSize, MaxSize - 1>>, OPPOSED |-> <<1, -1>>]

Init ==
  /\ tick = 0
  /\ model = [event |-> 0, release |-> -1, exact |-> FALSE]
  /\ \E k \in Strikes, start \in {Flat} \cup {Inherited[x] : x \in Starts} :
       position = [j \in Strikes |-> IF j = k THEN start ELSE Flat]
  /\ self = Fresh /\ plan = NoPlan
  /\ entered = {} /\ reduced = {}

(***************************************************************************)
(* News: VolatilityModel.update.                                           *)
(***************************************************************************)
Updates(news) ==
  CASE news = "RELEASE" ->
         {[event |-> model.event + 1, release |-> t,
           exact |-> e \/ (t = model.release /\ model.exact)] :
            t \in {n \in (tick - MaxLag)..tick : n >= 0 /\ n >= model.release}, e \in BOOLEAN}
    [] news \in {"LATE", "NOTHING"} -> {model}

Readable(news) ==
  \/ news = "NOTHING"
  \/ /\ news \in News
     /\ IF news = "RELEASE" THEN model.event < MaxEvents ELSE model.release > 0

(***************************************************************************)
(* Signals: what economics and the entry filters make of the quotes.       *)
(***************************************************************************)
Dollars == [DEEP |-> -10, NEGATIVE |-> -5, THIN |-> 10, ENTRY |-> 20, ADD |-> 30, STRONG |-> 50]
Direction == [LONG |-> 1, SHORT |-> -1]
Signals == [dir : {Direction[x] : x \in Sides}, edge : Edges, check : Checks]

Edge(sig, d) == IF d = sig.dir THEN Dollars[sig.edge] ELSE Dollars["DEEP"]

EntryWindow(m) == IF m.exact THEN ExactWindow ELSE NewsWindow
InWindow(m) == tick - m.release \in 0..EntryWindow(m)

EntryFilter(sig, d, m, adding) ==
  /\ Edge(sig, d) >= 18
  /\ IF adding THEN Edge(sig, d) >= 25 ELSE InWindow(m)
  /\ sig.check = "CLEAR"

(* A confirmed signal keeps its strike while it is alive on every tick.    *)
Pending(q, m) ==
  LET c == self.confirmation IN
  /\ c # None /\ self.campaign = None
  /\ c.event = m.event /\ tick - c.tick \in 0..1
  /\ EntryFilter(q[c.strike], c.dir, m, FALSE)

Choices(q, m) ==
  LET passing == {k \in Strikes : EntryFilter(q[k], q[k].dir, m, FALSE)} IN
  CASE Pending(q, m) -> {self.confirmation.strike}
    [] ~Pending(q, m) /\ passing # {} -> passing
    [] OTHER -> Strikes

(***************************************************************************)
(* What the account tells: a campaign that ended, strikes no longer held.  *)
(***************************************************************************)
WentFlat == self.held # {} /\ Held = {}

Cooling(s, new) ==
  CASE new -> -1
    [] ~new /\ WentFlat -> tick + Cooldown
    [] OTHER -> s.cooldown

(* Mutant: only the repair of a pair marks a release as traded. *)
AsUsed(s, c) == s.used

UsedBy(s, c) == IF c # None /\ Held # {} THEN s.used \cup {c.event} ELSE s.used

Notice(s, m, new) ==
  LET old == IF WentFlat THEN None ELSE s.campaign IN
  [s EXCEPT
    !.seen = TRUE,
    !.campaign = IF Held = {} /\ old.event # m.event THEN None ELSE old,
    !.confirmation = IF WentFlat THEN None ELSE @,
    !.cooldown = Cooling(s, new),
    !.used = UsedBy(s, old),
    !.held = Held, !.exiting = @ \cap Held,
    !.shallow = Keep(@, Held), !.deep = Keep(@, Held), !.goals = Keep(@, Held)]

(***************************************************************************)
(* The review of every strike held.                                        *)
(***************************************************************************)
Balanced(k) == position[k][1] = position[k][2]

(* Mutant: legs of opposite signs count as an interrupted batch. *)
AnySigns(k) == TRUE

Compatible(k) == position[k][1] * position[k][2] >= 0
Matched(k) == Least(Size(position[k][1]), Size(position[k][2]))
Side(k) == IF position[k][1] > 0 THEN 1 ELSE -1

Unmatched == {k \in Held : ~Balanced(k) /\ Compatible(k)}
Broken == {k \in Held : ~Balanced(k) /\ ~Compatible(k)}

AtMost(c, n) == IF c = None THEN c ELSE [c EXCEPT !.target = Least(@, n)]
Shrinks(c, k, n) == IF c # None /\ c.strike = k THEN AtMost(c, n) ELSE c

Repaired(s, m) ==
  [s EXCEPT
    !.used = IF Unmatched = {} THEN @ ELSE @ \cup {m.event},
    !.campaign = IF @ # None /\ @.strike \in Unmatched
                 THEN AtMost(@, Matched(@.strike)) ELSE @,
    !.exiting = @ \cup Broken]

(* Ticks in a row on which the edge was below a threshold. *)
Count(f, k, below) ==
  CASE ~below -> Keep(f, Strikes \ {k})
    [] below /\ (k \notin DOMAIN f \/ tick - f[k].tick > 1) ->
         Put(f, k, [tick |-> tick, count |-> 1])
    [] below /\ k \in DOMAIN f /\ tick - f[k].tick = 1 ->
         Put(f, k, [tick |-> tick, count |-> Least(f[k].count + 1, Confirmations)])
    [] OTHER -> f
Persistent(f, k) == k \in DOMAIN f /\ f[k].count >= Confirmations

NotScaledYet(s, k) == k \notin DOMAIN s.goals

(* One balanced strike with a valuation. *)
Assess(s, k, sig, new) ==
  LET d == Side(k)
      shallow == Count(s.shallow, k, Edge(sig, d) < 0)
      deep == Count(s.deep, k, Edge(sig, d) < -8)
      invalidated == new /\ (Edge(sig, d) <= 0 \/ sig.dir # d \/ sig.check = "CARRY")
      leaves == Persistent(deep, k) \/ invalidated \/ tick >= ForceExit
      scales == ~leaves /\ Persistent(shallow, k) /\ NotScaledYet(s, k)
      half == Size(position[k][1]) \div 2
  IN [s EXCEPT
       !.shallow = shallow, !.deep = deep,
       !.exiting = IF leaves THEN @ \cup {k} ELSE @,
       !.goals = IF scales THEN Put(@, k, half) ELSE @,
       !.campaign = IF scales THEN Shrinks(@, k, half) ELSE @]

(* At most one strike is held, so that the loop has at most one turn.      *)
(* (Here quotes and a valuation are there for every strike or for none.    *)
(* With those of an unheld strike missing, the code may trade another one  *)
(* under the campaign of that strike, and come to hold two.)               *)
Review(s, q, m, new, priced) ==
  LET r == Repaired(s, m)
      k == CHOOSE j \in Held : TRUE
  IN CASE Held = {} \/ Unmatched \cup Broken # {} -> r
       [] Held # {} /\ Unmatched \cup Broken = {} /\ priced -> Assess(r, k, q[k], new)
       [] OTHER -> IF tick >= ForceExit THEN [r EXCEPT !.exiting = Held] ELSE r

(***************************************************************************)
(* The end of an evaluation.  A hedge goes before every plan but a closing *)
(* one, and in an emergency before that too.                               *)
(***************************************************************************)
Closing(p) == p.kind \in {"EXIT", "LEG", "TRIM", "SCALE"}

Overridden(p, level) ==
  CASE level = "CALM" -> p
    [] level = "BAND" -> IF Closing(p) THEN p ELSE [kind |-> "HEDGE"]
    [] level = "EMERGENCY" -> [kind |-> "HEDGE"]
    [] level = "EXHAUSTED" -> NoPlan

Decided(s, p, level) ==
  /\ self' = s
  /\ plan' = Overridden(p, level)

(* batch_plan finds a batch, or none that keeps the limits on the way. *)
Batch(kind, k, d, n) ==
  IF n = 0 THEN {NoPlan}
  ELSE {NoPlan, [kind |-> kind, strike |-> k, dir |-> d, size |-> n, legs |-> {1, 2}]}

Repair(s, level) ==
  /\ Unmatched # {}
  /\ \E k \in Unmatched :
       LET leg == IF Size(position[k][1]) > Size(position[k][2]) THEN 1 ELSE 2
           trim == [kind |-> "TRIM", strike |-> k, legs |-> {leg},
                    dir |-> IF position[k][leg] > 0 THEN -1 ELSE 1,
                    size |-> Size(position[k][leg]) - Matched(k)]
       IN \E p \in {NoPlan, trim} : Decided(s, p, level)

Leg(k, i) ==
  [kind |-> "LEG", strike |-> k, legs |-> {i}, size |-> Size(position[k][i]),
   dir |-> IF position[k][i] > 0 THEN -1 ELSE 1]

Exit(s, priced, level) ==
  /\ Unmatched = {} /\ s.exiting # {}
  /\ \E k \in s.exiting :
       IF priced /\ Balanced(k)
       THEN \E p \in Batch("EXIT", k, -Side(k), Size(position[k][1])) :
              Decided(s, p, level)
       ELSE \E p \in {NoPlan} \cup {Leg(k, i) : i \in {j \in {1, 2} : position[k][j] # 0}} :
              Decided(s, p, level)

ScaleOut(s, priced, level) ==
  /\ Unmatched = {} /\ s.exiting = {} /\ priced
  /\ \E k \in DOMAIN s.goals :
       /\ Size(position[k][1]) > s.goals[k]
       /\ \E p \in Batch("SCALE", k, -Side(k), Size(position[k][1]) - s.goals[k]) :
            Decided(s, p, level)

ScalingOut(s) == \E k \in DOMAIN s.goals : Size(position[k][1]) > s.goals[k]

(***************************************************************************)
(* Opening, completing or reducing a campaign.                             *)
(***************************************************************************)
Adopted(s, m, k) ==
  IF Held # {} /\ s.campaign = None
  THEN [s EXCEPT !.campaign = [event |-> m.event, strike |-> k, dir |-> Side(k),
                               target |-> Size(position[k][1]), staged |-> FALSE, starter |-> 0],
                 !.used = @ \cup {m.event}]
  ELSE s

(* Mutant: the target follows the risk limit up again. *)
Follow(c, cap) == IF c = None THEN c ELSE [c EXCEPT !.target = cap]

Capped(c, cap) == AtMost(c, cap)

(* A campaign still held takes over the newest release that supports it.   *)
Supports(s, m, sig, d) ==
  /\ EntryFilter(sig, d, m, Held # {})
  /\ m.event \notin s.used
  /\ sig.dir = d

AlreadyTraded(s, m) ==
  m.event \in s.used /\ (Held = {} \/ s.campaign.event # m.event)

Blocked(s, m, k, sig, d, level) ==
  \/ ~EntryFilter(sig, d, m, Held # {})
  \/ AlreadyTraded(s, m)
  \/ Held # {} /\ s.campaign.event # m.event /\ ~Supports(s, m, sig, d)
  \/ tick < s.cooldown
  \/ tick >= NoNewEntry
  \/ level \in {"EMERGENCY", "EXHAUSTED"}
  \/ k \in DOMAIN s.goals

TakenOver(s, m, sig, d) ==
  IF Held # {} /\ s.campaign.event # m.event /\ Supports(s, m, sig, d)
  THEN [s EXCEPT !.campaign.event = m.event, !.used = @ \cup {m.event}]
  ELSE s

Confirmed(c, key) ==
  IF c = None \/ c.event # key.event \/ c.strike # key.strike \/ c.dir # key.dir \/ tick - c.tick > 1
  THEN [event |-> key.event, strike |-> key.strike, dir |-> key.dir, tick |-> tick, count |-> 1]
  ELSE [c EXCEPT !.tick = tick, !.count = IF tick > c.tick THEN Least(@ + 1, Confirmations) ELSE @]

(* The campaigns an unblocked signal without one may open: none before it  *)
(* is confirmed, unless its edge is strong and its volatilities are exact. *)
Openings(c, m, sig, key) ==
  LET staged == m.exact /\ Edge(sig, key.dir) > 40 IN
  IF c.count < Confirmations /\ ~staged THEN {None}
  ELSE {[event |-> key.event, strike |-> key.strike, dir |-> key.dir,
         target |-> n, staged |-> staged, starter |-> b] :
          n \in 0..MaxSize, b \in IF staged THEN 1..MaxSize ELSE {0}}

(* While a campaign is staged, its first batch is a part of the target;    *)
(* after that the size of the starter is of no use.                        *)
Wanted(c, current) ==
  CASE c = None -> 0
    [] c # None /\ c.staged /\ current = 0 -> Least(c.target, c.starter)
    [] OTHER -> c.target

(* Beyond the target the position is reduced, below it completed.          *)
Resize(s, k, d, level, mayAdd) ==
  LET current == Size(position[k][1])
      want == Wanted(s.campaign, current)
      after == IF s.campaign = None \/ current = 0 THEN s
               ELSE [s EXCEPT !.campaign.staged = FALSE, !.campaign.starter = 0]
      over == Held # {} /\ current > want
  IN \/ over /\ \E p \in Batch("REDUCE", k, -d, current - want) : Decided(after, p, level)
     \/ ~over /\ \E p \in Batch("ADD", k, d, IF mayAdd /\ want > current THEN want - current ELSE 0) :
          Decided(after, p, level)

Open(s, m, sig, key, level) ==
  \E c \in {Confirmed(s.confirmation, key)} : \E campaign \in Openings(c, m, sig, key) :
    Resize([s EXCEPT !.confirmation = c, !.campaign = campaign], key.strike, key.dir, level,
           campaign # None)

Trade(s, q, m, level, choice) ==
  \E a \in {Adopted(s, m, choice)} :
  \E cap \in IF a.campaign = None THEN {0} ELSE 0..MaxSize :
  \E r \in {[a EXCEPT !.campaign = Capped(@, cap)]} :
    LET k == IF a.campaign = None THEN choice ELSE a.campaign.strike
        d == IF a.campaign = None THEN q[k].dir ELSE a.campaign.dir
    IN \E t \in {TakenOver(r, m, q[k], d)} :
       IF Blocked(r, m, k, q[k], d, level)
       THEN Resize([t EXCEPT !.confirmation = None], k, d, level, FALSE)
       ELSE IF t.campaign # None
       THEN Resize(t, k, d, level, TRUE)
       ELSE Open(t, m, q[k], [event |-> m.event, strike |-> k, dir |-> d], level)

Subjects(q, m) == IF Held = {} THEN Choices(q, m) ELSE Held

(***************************************************************************)
(* One evaluation of the strategy, the execution of its plan, and time.    *)
(***************************************************************************)
Evaluate(news, m, q, priced, level) ==
  LET new == news # "NOTHING" /\ self.seen IN
  /\ model' = m
  /\ reduced' = reduced \cap Held
  /\ \E s \in {Review(Notice(self, m, new), q, m, new, priced)} :
       \/ Repair(s, level)
       \/ Exit(s, priced, level)
       \/ ScaleOut(s, priced, level)
       \/ /\ Unmatched = {} /\ s.exiting = {} /\ ~priced
          /\ Decided(s, NoPlan, level)
       \/ /\ Unmatched = {} /\ s.exiting = {} /\ priced /\ ~ScalingOut(s)
          /\ \E k \in Subjects(q, m) : Trade(s, q, m, level, k)
  /\ UNCHANGED <<tick, position, entered>>

Poll ==
  /\ plan = NoPlan
  /\ \E news \in {"RELEASE", "LATE", "NOTHING"} :
       /\ Readable(news)
       /\ \E m \in Updates(news), level \in Levels :
         \/ \E q \in [Strikes -> Signals] : Evaluate(news, m, q, m.event > 0, level)
         \/ Evaluate(news, m, <<>>, FALSE, level)

(* The broker fills what it can of each leg. *)
Filled(n) ==
  [position EXCEPT ![plan.strike] =
     [i \in {1, 2} |-> IF i \in plan.legs THEN @[i] + plan.dir * n[i] ELSE @[i]]]

Execute ==
  /\ plan.kind \in {"EXIT", "LEG", "TRIM", "SCALE", "REDUCE"}
  /\ \E n \in (0..plan.size) \X (0..plan.size) :
       /\ \A i \in {1, 2} \ plan.legs : n[i] = 0
       /\ position' = Filled(n)
       /\ reduced' = IF n # <<0, 0>> THEN reduced \cup {plan.strike} ELSE reduced
  /\ plan' = NoPlan
  /\ UNCHANGED <<tick, model, self, entered>>

(* An entry fills its first leg alone: unless that fails, a pair is pending. *)
Pair(first, n) ==
  [kind |-> "PAIR", strike |-> plan.strike, dir |-> plan.dir, legs |-> {1, 2},
   size |-> n, first |-> first, before |-> Held]

OpenPair ==
  /\ plan.kind = "ADD"
  /\ \E first \in {1, 2}, n \in 0..plan.size :
       /\ position' = Filled([i \in {1, 2} |-> IF i = first THEN n ELSE 0])
       /\ plan' = IF n = 0 THEN NoPlan ELSE Pair(first, n)
  /\ UNCHANGED <<tick, model, self, entered, reduced>>

(* The second leg is filled as far as it goes, and what the first has in   *)
(* excess is sold again, all of it if need be: the account may be as flat  *)
(* as before, and no field of the strategy tells. (A rollback that leaves  *)
(* an excess ends the program.)                                            *)
DrainPair ==
  /\ plan.kind = "PAIR"
  /\ \E second \in 0..plan.size :
       position' = Filled([i \in {1, 2} |->
                             IF i = plan.first THEN second - plan.size ELSE second])
  /\ entered' = IF plan.before = {} /\ Held' # {} THEN entered \cup {model.event} ELSE entered
  /\ plan' = NoPlan
  /\ UNCHANGED <<tick, model, self, reduced>>

Hedge ==
  /\ plan.kind = "HEDGE"
  /\ plan' = NoPlan
  /\ UNCHANGED <<tick, model, position, self, entered, reduced>>

TickAdvances ==
  /\ tick < MaxTick
  /\ tick' = tick + 1
  /\ UNCHANGED <<model, position, self, plan, entered, reduced>>

Next == Poll \/ Execute \/ OpenPair \/ DrainPair \/ Hedge \/ TickAdvances
Spec == Init /\ [][Next]_vars

(* The program executes what it planned and polls on; once the heat nears  *)
(* its end, the limits leave room for a closing batch now and again, and   *)
(* such a batch is filled.                                                 *)
FairSpec ==
  /\ Spec
  /\ WF_vars(Hedge \/ Execute \/ OpenPair \/ DrainPair)
  /\ SF_vars(tick >= ForceExit /\ Held # {} /\ Poll /\ Closing(plan'))
  /\ SF_vars(tick >= ForceExit /\ Closing(plan) /\ Execute
               /\ position' = Filled([i \in {1, 2} |-> plan.size]))

(***************************************************************************)
(* Properties.                                                             *)
(***************************************************************************)
(* Once an entry on a release has left something held, the account does    *)
(* not leave flat on that release again, not even by a first leg that is   *)
(* rolled back: what was filled in part, repaired, reduced or closed is    *)
(* not entered again on the same news. Before that it may leave flat often *)
(* enough: an entry that is rolled back to flat is no trade of the release *)
(* to the code, and a later poll may try again.                            *)
ReleaseTradedOnce ==
  [][Held = {} /\ Held' # {} => model.event \notin entered]_vars

(* What a campaign has given up by trimming, scaling, reducing or closing  *)
(* it never buys back.                                                     *)
NoAddBack == plan.kind = "ADD" => plan.strike \notin reduced

(* Whatever is held when the heat nears its end is closed, if the market   *)
(* lets it be: an unmatched leg, an unvalued strike, an inherited position.*)
EventuallyFlat == tick >= ForceExit ~> Held = {}
=============================================================================
