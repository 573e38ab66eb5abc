------------------------ MODULE VolatilityAssistant ------------------------
(***************************************************************************)
(* The read-only assistant of case1 (case1_simple.py): polls of the case,  *)
(* the securities and the news, the snapshot they make up, and the screen  *)
(* a person trades by: news announced once, one entry advice per tick,     *)
(* instructions for what is held. The person trades whenever they like.    *)
(*                                                                         *)
(* Prices are inputs of a snapshot: whether the stock is quoted, which     *)
(* strike is nearest, whether its pair can be valued, what the edges say.  *)
(***************************************************************************)
EXTENDS NewsItems

CONSTANTS
  Said,       \* texts the exchange publishes
  Strikes,    \* strikes that may be nearest to the stock
  Signals,    \* what the edges of the selected pair may say, beside WAIT
  Holdings,   \* what the person may hold, beside nothing
  NoNewEntry, \* NO_NEW_ENTRY_TICK
  ExitReview, \* EXIT_REVIEW_TICK
  MaxItems,   \* bound: items of a heat
  MaxTick,    \* bound: last tick of a heat
  MaxHeats    \* bound: heats

ASSUME AssistantAssumption ==
  /\ Said \subseteq Texts /\ Strikes \subseteq Nat \ {0}
  /\ Signals \subseteq {"LONG", "SHORT"} /\ Holdings \subseteq {"PAIR", "LEG", "STOCK"}
  /\ {NoNewEntry, ExitReview, MaxItems, MaxTick, MaxHeats} \subseteq Nat
  /\ MaxTick <= TotalTicks

VARIABLES
  server,    \* tick, heat, and whether it is ACTIVE
  feed,      \* items published in this heat
  account,   \* what the person holds
  case,      \* the case of this poll, NoCase between polls
  held,      \* what is held according to this poll, NONE before
  news,      \* the news of this poll, NotRead before
  self,      \* the Assistant object
  screen,    \* what the last update printed, no lines if nothing
  announced, \* history: items announced in this heat
  advised,   \* history: ticks of this heat on which an entry was advised
  shown      \* history: holdings at the last print of a snapshot

vars == <<server, feed, account, case, held, news, self, screen,
          announced, advised, shown>>
poll == <<case, held, news>>
histories == <<announced, advised, shown>>

Period == 1
NoCase == [tick |-> -1, heat |-> 0, active |-> FALSE]
NotRead == {[id |-> 0]}
NoStrike == 0
Blank == [lines |-> {}, heat |-> 0]

Fresh ==
  [tick |-> -1, printed |-> -1, seen |-> {}, cached |-> {}, strike |-> NoStrike,
   signal |-> "WAIT", status |-> "NONE", held |-> "NONE"]

Init ==
  /\ server = [tick |-> 0, heat |-> 1, active |-> TRUE] /\ feed = {}
  /\ account \in {"FLAT"} \cup Holdings
  /\ case = NoCase /\ held = "NONE" /\ news = NotRead
  /\ self = Fresh /\ screen = Blank
  /\ announced = {} /\ advised = {} /\ shown = "NONE"

(***************************************************************************)
(* The simulator and the person. A poll is shorter than a heat, and a heat *)
(* is polled before its tick passes the last one polled in the one before. *)
(***************************************************************************)
Noticeable(next) ==
  \A last \in {case, [tick |-> self.tick, heat |-> screen.heat, active |-> TRUE]} :
    last.tick = -1 \/ last.heat = next.heat \/ next.tick < last.tick

Advance ==
  /\ server.active /\ server.tick < MaxTick
  /\ server' = [server EXCEPT !.tick = @ + 1] /\ Noticeable(server')
  /\ UNCHANGED <<feed, account, self, screen>> /\ UNCHANGED poll /\ UNCHANGED histories

Stop ==
  /\ server.active /\ server.tick = MaxTick
  /\ server' = [server EXCEPT !.active = FALSE]
  /\ UNCHANGED <<feed, account, self, screen>> /\ UNCHANGED poll /\ UNCHANGED histories

NextHeat ==
  /\ ~server.active /\ server.heat < MaxHeats
  /\ server' = [tick |-> 0, heat |-> server.heat + 1, active |-> TRUE] /\ Noticeable(server')
  /\ feed' = {} /\ account' = "FLAT"
  /\ announced' = {} /\ advised' = {} /\ shown' = "NONE"
  /\ UNCHANGED <<self, screen>> /\ UNCHANGED poll

Publish ==
  /\ server.active /\ Cardinality(feed) < MaxItems
  /\ \E text \in Said :
       feed' = feed \cup {[id |-> Cardinality(feed) + 1, text |-> text, tick |-> server.tick,
                           period |-> Period, heat |-> server.heat]}
  /\ UNCHANGED <<server, account, self, screen>> /\ UNCHANGED poll /\ UNCHANGED histories

Trade ==
  /\ server.active
  /\ account' \in ({"FLAT"} \cup Holdings) \ {account}
  /\ UNCHANGED <<server, feed, self, screen>> /\ UNCHANGED poll /\ UNCHANGED histories

(***************************************************************************)
(* What a snapshot may contain beside the holdings and the news: what an   *)
(* entry looks at when nothing is held, or the review of what is.          *)
(***************************************************************************)
Inputs ==
  {[quoted |-> FALSE]} \cup
  IF held = "FLAT"
  THEN [quoted : {TRUE}, nearest : Strikes \cup {NoStrike}, valued : BOOLEAN,
        signal : Signals \cup {"WAIT"}]
  ELSE [quoted : {TRUE}, nearest : Strikes \cup {NoStrike}, valued : BOOLEAN,
        advantage : BOOLEAN, delta : {"SMALL", "LARGE", "URGENT"}]

(***************************************************************************)
(* Assistant.update, first part: the case, and the news.                   *)
(***************************************************************************)
AnotherHeat == self.tick # -1 /\ case.tick < self.tick

Begun == [(IF AnotherHeat THEN Fresh ELSE self) EXCEPT !.tick = case.tick]

SameTick(a) == case.tick = a.printed

Cached(a) == a.cached \cup Applicable(news, case.tick, Period)

NewItems(a) == Applicable(Cached(a), case.tick, Period) \ a.seen

(* Mutant: items count as seen although this poll will not announce them. *)
SeenAtOnce(a) == a.seen \cup NewItems(a)

SeenNext(a) == IF SameTick(a) THEN a.seen ELSE a.seen \cup NewItems(a)

Announces(a) == NewItems(a) # {} /\ ~SameTick(a)

StrikeNext(a, in) ==
  IF a.strike = NoStrike \/ Announces(a) THEN in.nearest ELSE a.strike

Informed(a, in) ==
  [a EXCEPT !.cached = Cached(a), !.seen = SeenNext(a), !.strike = StrikeNext(a, in),
            !.held = held, !.printed = case.tick]

(* Mutant: only what is still held counts as a change. *)
StillHeld(a) == held # "FLAT" /\ a.held \notin {"NONE", held}

Changed(a) == a.held \notin {"NONE", held}

(***************************************************************************)
(* position_review and the hedge of what is held.                          *)
(***************************************************************************)
HasOptions == held \in {"PAIR", "LEG"}

Review(in) ==
  CASE ~in.valued -> {"DATA"}
    [] in.valued /\ ~HasOptions -> {"FLATTEN"}
    [] in.valued /\ HasOptions ->
         IF held = "LEG" \/ case.tick >= ExitReview \/ ~in.advantage THEN {"EXIT"} ELSE {"HOLD"}

Reviewing(in) == Review(in) \cap {"EXIT", "FLATTEN"} # {}

Hedges(in) ==
  /\ HasOptions /\ in.valued
  /\ in.delta # "SMALL" /\ (Reviewing(in) => in.delta = "URGENT")

Management(in) ==
  {"MANAGE"} \cup Review(in) \cup (IF Hedges(in) THEN {"HEDGE"} ELSE {})
             \cup (IF held = "LEG" THEN {"UNBALANCED"} ELSE {})

(***************************************************************************)
(* Assistant.update, the entry: of a flat account, once a tick.            *)
(***************************************************************************)
SignalNext(in) == IF case.tick >= NoNewEntry THEN "WAIT" ELSE in.signal

EntryLines(a, in) ==
  IF /\ SignalNext(in) # "WAIT"
     /\ SignalNext(in) # a.signal \/ NewItems(a) # {} \/ a.strike # StrikeNext(a, in)
  THEN {"EDGES", "ENTRY"} ELSE {"EDGES"}

Tradable(a, in) == StrikeNext(a, in) # NoStrike /\ in.valued

(***************************************************************************)
(* Every way an update ends: the object after it and the lines it prints.  *)
(***************************************************************************)
Result(object, lines) == [object |-> object, lines |-> lines]

Inactive(a) ==
  Result([a EXCEPT !.signal = "WAIT", !.status = "STOPPED"],
         IF a.status = "STOPPED" /\ ~AnotherHeat THEN {} ELSE {"STOPPED"})

Unquoted(a) ==
  Result([a EXCEPT !.signal = "WAIT", !.printed = case.tick],
         IF SameTick(a) THEN {} ELSE {"UNAVAILABLE"})

NewsLines(a) == IF Announces(a) THEN {"NEWS"} ELSE {}

Holding(a, in) ==
  Result([Informed(a, in) EXCEPT !.signal = "WAIT"],
         IF SameTick(a) /\ ~Changed(a) THEN {} ELSE NewsLines(a) \cup Management(in))

Entry(a, in) ==
  IF Tradable(a, in)
  THEN Result([Informed(a, in) EXCEPT !.signal = SignalNext(in)],
              NewsLines(a) \cup EntryLines(a, in))
  ELSE Result([Informed(a, in) EXCEPT !.signal = "WAIT"], NewsLines(a) \cup {"NO_PAIR"})

(* Mutant: every poll of a flat account looks for an entry. *)
EveryPoll(a, in) == Entry(a, in)

FlatAgain(a, in) == Result(Informed(a, in), IF Changed(a) THEN {"FLAT"} ELSE {})

Active(a, in) ==
  CASE ~in.quoted -> Unquoted(a)
    [] in.quoted /\ held # "FLAT" -> Holding(a, in)
    [] in.quoted /\ held = "FLAT" /\ SameTick(a) -> FlatAgain(a, in)
    [] in.quoted /\ held = "FLAT" /\ ~SameTick(a) -> Entry(a, in)

(***************************************************************************)
(* One poll of main: GET /case, and while it is ACTIVE /securities, /news  *)
(* and /case again; a call that fails ends the poll.                       *)
(***************************************************************************)
PollOver == case' = NoCase /\ held' = "NONE" /\ news' = NotRead

ReadCase ==
  /\ case = NoCase
  /\ case' = server
  /\ UNCHANGED <<server, feed, account, held, news, self, screen>> /\ UNCHANGED histories

ReadSecurities ==
  /\ case.active /\ held = "NONE"
  /\ held' = account
  /\ UNCHANGED <<server, feed, account, case, news, self, screen>> /\ UNCHANGED histories

ReadNews ==
  /\ held # "NONE" /\ news = NotRead
  /\ news' \in SUBSET feed
  /\ UNCHANGED <<server, feed, account, case, held, self, screen>> /\ UNCHANGED histories

Verified == server.active /\ server.tick = case.tick

Update ==
  /\ news # NotRead
  /\ IF Verified
     THEN \E in \in Inputs :
       LET a == [Begun EXCEPT !.status = "ACTIVE"]
           result == Active(a, in)
           told == IF "NEWS" \in result.lines THEN NewItems(a) ELSE {}
       IN /\ self' = result.object
          /\ screen' = [lines |-> result.lines, heat |-> case.heat]
          /\ announced' = announced \cup told
          /\ advised' = IF "ENTRY" \in result.lines THEN advised \cup {case.tick} ELSE advised
          /\ shown' = IF in.quoted /\ result.lines # {} THEN held ELSE shown
     ELSE /\ screen' = [Blank EXCEPT !.lines = {"CHANGED"}, !.heat = screen.heat]
          /\ UNCHANGED self /\ UNCHANGED histories
  /\ PollOver /\ UNCHANGED <<server, feed, account>>

UpdateInactive ==
  /\ case # NoCase /\ ~case.active
  /\ self' = Inactive(Begun).object
  /\ screen' = [Blank EXCEPT !.lines = Inactive(Begun).lines, !.heat = case.heat]
  /\ PollOver /\ UNCHANGED <<server, feed, account>> /\ UNCHANGED histories

Fail ==
  /\ self' = [self EXCEPT !.signal = "WAIT"]
  /\ screen' = [Blank EXCEPT !.lines = {"ERROR"}, !.heat = screen.heat]
  /\ PollOver /\ UNCHANGED <<server, feed, account>> /\ UNCHANGED histories

Next ==
  \/ Advance \/ Stop \/ NextHeat \/ Publish \/ Trade
  \/ ReadCase \/ ReadSecurities \/ ReadNews \/ Update \/ UpdateInactive \/ Fail

Spec == Init /\ [][Next]_vars

(***************************************************************************)
(* Properties.                                                             *)
(***************************************************************************)
Live == screen.heat = server.heat
PollEnds == case # NoCase /\ case' = NoCase

(* What the assistant counts as seen has been put on the screen: news that *)
(* a second poll of a tick finds, or one whose stock is not quoted, wait   *)
(* for an update that prints them; none is lost.                           *)
SeenIsAnnounced == Live => self.seen = announced

(* An entry is advised at most once on a tick, whatever the edges do       *)
(* between its polls and whatever fails: a person may still be trading on  *)
(* the first advice.                                                       *)
OneAdvicePerTick ==
  [][PollEnds /\ "ENTRY" \in screen'.lines => case.tick \notin advised]_vars

(* Whatever a person last read of the holdings is what the last snapshot   *)
(* contained: a fill within a tick is printed, in that tick. One screen    *)
(* never asks for a hedge and for flattening the stock.                    *)
InstructionsAreCurrent ==
  /\ Live => shown \in {"NONE", self.held}
  /\ ~({"HEDGE", "FLATTEN"} \subseteq screen.lines)

=============================================================================
