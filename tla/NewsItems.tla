----------------------------- MODULE NewsItems -----------------------------
(***************************************************************************)
(* The volatility news of the case1 programs, as both read it: which items *)
(* count, what an item says of which week, and the schedule of volatility  *)
(* that a set of items amounts to (case1_simple.py; the integrated         *)
(* strategy imports these helpers and keeps its own model of the weeks).   *)
(*                                                                         *)
(* A text is abstracted to the statement the parser reads from it. Times   *)
(* are ticks and volatilities whole numbers.                               *)
(***************************************************************************)
EXTENDS Integers, Sequences, FiniteSets, SequencesExt

CONSTANTS
  WeekTicks, \* TICKS_PER_WEEK
  Weeks      \* TOTAL_WEEKS

ASSUME NewsAssumption == WeekTicks \in Nat \ {0} /\ Weeks \in Nat \ {0}

AllWeeks == 1..Weeks
TotalTicks == Weeks * WeekTicks

(* What the texts say: exactly a volatility or a range, of this week or    *)
(* the next, or BOTH. REVERSED is a range with its bounds swapped, IDLE a  *)
(* text without a usable statement.                                        *)
Texts == {"EXACT_LOW", "EXACT_HIGH", "RANGE", "EXACT_NEXT", "RANGE_NEXT", "BOTH", "REVERSED", "IDLE"}

Statements ==
  [EXACT_LOW  |-> {[kind |-> "ACTUAL",   next |-> 0, low |-> 1, high |-> 1]},
   EXACT_HIGH |-> {[kind |-> "ACTUAL",   next |-> 0, low |-> 3, high |-> 3]},
   RANGE      |-> {[kind |-> "FORECAST", next |-> 0, low |-> 1, high |-> 4]},
   EXACT_NEXT |-> {[kind |-> "ACTUAL",   next |-> 1, low |-> 2, high |-> 2]},
   RANGE_NEXT |-> {[kind |-> "FORECAST", next |-> 1, low |-> 2, high |-> 3]},
   BOTH       |-> {[kind |-> "ACTUAL",   next |-> 0, low |-> 3, high |-> 3],
                   [kind |-> "FORECAST", next |-> 1, low |-> 1, high |-> 2]},
   REVERSED   |-> {[kind |-> "FORECAST", next |-> 0, low |-> 4, high |-> 1]},
   IDLE       |-> {}]

(* parse_news: the statements of an item, with the week each is about. *)
Parsed ==
  [text \in Texts, source \in AllWeeks \cup {Weeks + 1} |->
     {[week |-> source + s.next, kind |-> s.kind, low |-> s.low, high |-> s.high] :
        s \in {s \in Statements[text] : s.low <= s.high /\ source + s.next \in AllWeeks}}]

ParseNews(item) == Parsed[item.text, item.tick \div WeekTicks + 1]

(* The items of this heat that say something and are not from the future. *)
Applicable(news, tick, period) ==
  {item \in news : item.tick <= tick /\ item.period = period /\ ParseNews(item) # {}}

(* sorted(..., key=(tick, identity)): items of a tick by their identity.   *)
(* The code compares strings, '10' before '9': only ids of one length are  *)
(* in the order of their numbers, as they are here.                        *)
Before(i, j) == i.tick < j.tick \/ (i.tick = j.tick /\ i.id < j.id)
InOrder(news) ==
  CHOOSE s \in [1..Cardinality(news) -> news] :
    \A i, j \in DOMAIN s : i < j => Before(s[i], s[j])

(***************************************************************************)
(* weekly_schedule, with UNKNOWN for the default volatility of a week.     *)
(***************************************************************************)
UnknownWeek == [kind |-> "UNKNOWN", low |-> 2, high |-> 2]

Reading(s) == [kind |-> s.kind, low |-> s.low, high |-> s.high]

Scheduled(schedule, item) ==
  [w \in AllWeeks |->
     IF \E s \in ParseNews(item) :
          s.week = w /\ (s.kind = "ACTUAL" \/ schedule[w].kind # "ACTUAL")
     THEN Reading(CHOOSE s \in ParseNews(item) : s.week = w)
     ELSE schedule[w]]

WeeklySchedule(news, tick, period) ==
  FoldLeft(Scheduled, [w \in AllWeeks |-> UnknownWeek], InOrder(Applicable(news, tick, period)))

=============================================================================
