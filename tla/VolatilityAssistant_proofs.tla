--------------------- MODULE VolatilityAssistant_proofs ---------------------
(***************************************************************************)
(* What the read-only assistant shows, for every feed of news, every       *)
(* schedule of polls and trades, and any number of heats of any length.    *)
(***************************************************************************)
EXTENDS VolatilityAssistant, TLAPS

(***************************************************************************)
(* The object an update leaves, and the lines it prints.                   *)
(***************************************************************************)
Fields == {"tick", "printed", "seen", "cached", "strike", "signal", "status", "held"}

(* What is told with the news of an update. *)
Told(a, lines) == IF "NEWS" \in lines THEN NewItems(a) ELSE {}

(* What every ending of an update that reads a snapshot has in common.     *)
Consistent(a, in, r) ==
  /\ DOMAIN r.object = Fields
  /\ r.object.tick = a.tick /\ r.object.printed = case.tick
  /\ r.object.seen = a.seen \cup Told(a, r.lines)
  /\ "ENTRY" \in r.lines => case.tick # a.printed
  /\ ~in.quoted => r.object.held = a.held
  /\ in.quoted => r.object.held = held
  /\ in.quoted /\ r.lines = {} => a.held \in {"NONE", held}
  /\ ~({"HEDGE", "FLATTEN"} \subseteq r.lines)

LEMMA InformedIs ==
  ASSUME NEW a, NEW in, DOMAIN a = Fields
  PROVE  /\ DOMAIN Informed(a, in) = Fields
         /\ Informed(a, in).tick = a.tick /\ Informed(a, in).printed = case.tick
         /\ Informed(a, in).seen = SeenNext(a) /\ Informed(a, in).held = held
BY DEF Informed, Fields

LEMMA SignalledIs ==
  ASSUME NEW a, NEW s, DOMAIN a = Fields
  PROVE  LET b == [a EXCEPT !.signal = s]
         IN  /\ DOMAIN b = Fields
             /\ b.tick = a.tick /\ b.printed = a.printed
             /\ b.seen = a.seen /\ b.held = a.held
BY DEF Fields

(* Without a quote only the tick counts as printed.                        *)
LEMMA UnquotedIs ==
  ASSUME NEW a, NEW in, DOMAIN a = Fields, ~in.quoted
  PROVE  Consistent(a, in, Unquoted(a))
<1> DEFINE b == [a EXCEPT !.signal = "WAIT", !.printed = case.tick]
<1>1. /\ DOMAIN b = Fields /\ b.tick = a.tick /\ b.printed = case.tick
      /\ b.seen = a.seen /\ b.held = a.held
  BY DEF Fields
<1>2. Unquoted(a).object = b
  BY DEF Unquoted, Result
<1>3. Unquoted(a).lines \subseteq {"UNAVAILABLE"}
  BY DEF Unquoted, Result
<1> HIDE DEF b
<1>4. "NEWS" \notin Unquoted(a).lines /\ "ENTRY" \notin Unquoted(a).lines
      /\ "HEDGE" \notin Unquoted(a).lines
  BY <1>3
<1> QED  BY <1>1, <1>2, <1>4 DEF Consistent, Told

(* What counts as seen is what the lines of the news say.                  *)
LEMMA SeenIsTold ==
  ASSUME NEW a, NEW lines, "NEWS" \in lines <=> Announces(a)
  PROVE  SeenNext(a) = a.seen \cup Told(a, lines)
BY DEF SeenNext, Announces, Told

LEMMA NewsLinesAre ==
  ASSUME NEW a
  PROVE  NewsLines(a) \subseteq {"NEWS"} /\ ("NEWS" \in NewsLines(a) <=> Announces(a))
BY DEF NewsLines

(* A hedge is of a position with options, flattening of one without.       *)
LEMMA ManagementIs ==
  ASSUME NEW in
  PROVE  /\ "MANAGE" \in Management(in)
         /\ "NEWS" \notin Management(in) /\ "ENTRY" \notin Management(in)
         /\ ~({"HEDGE", "FLATTEN"} \subseteq Management(in))
<1>1. Review(in) \subseteq {"DATA", "FLATTEN", "EXIT", "HOLD"}
      /\ ("FLATTEN" \in Review(in) => ~HasOptions)
  BY DEF Review
<1>2. "HEDGE" \in Management(in) => HasOptions
  BY <1>1 DEF Management, Hedges
<1>3. "FLATTEN" \in Management(in) => ~HasOptions
  BY <1>1 DEF Management
<1>4. "NEWS" \notin Management(in) /\ "ENTRY" \notin Management(in)
  BY <1>1 DEF Management
<1> QED  BY <1>2, <1>3, <1>4 DEF Management

LEMMA HoldingIs ==
  ASSUME NEW a, NEW in, DOMAIN a = Fields, in.quoted
  PROVE  Consistent(a, in, Holding(a, in))
<1> DEFINE b == [Informed(a, in) EXCEPT !.signal = "WAIT"]
           lines == IF SameTick(a) /\ ~Changed(a) THEN {} ELSE NewsLines(a) \cup Management(in)
<1>1. /\ DOMAIN b = Fields /\ b.tick = a.tick /\ b.printed = case.tick
      /\ b.seen = SeenNext(a) /\ b.held = held
  BY InformedIs, SignalledIs
<1>2. Holding(a, in).object = b /\ Holding(a, in).lines = lines
  BY DEF Holding, Result
<1>3. "NEWS" \in lines <=> Announces(a)
  <2>1. Announces(a) => ~SameTick(a)
    BY DEF Announces
  <2> QED  BY <2>1, NewsLinesAre, ManagementIs
<1>4. "ENTRY" \notin lines /\ ~({"HEDGE", "FLATTEN"} \subseteq lines)
  BY NewsLinesAre, ManagementIs
<1>5. lines = {} => a.held \in {"NONE", held}
  BY ManagementIs DEF Changed
<1> HIDE DEF b, lines
<1>6. b.seen = a.seen \cup Told(a, lines)
  BY <1>1, <1>3, SeenIsTold
<1> QED  BY <1>1, <1>2, <1>4, <1>5, <1>6 DEF Consistent

LEMMA EntryIs ==
  ASSUME NEW a, NEW in, DOMAIN a = Fields, in.quoted, ~SameTick(a)
  PROVE  Consistent(a, in, Entry(a, in))
<1> DEFINE r == Entry(a, in)
<1>1. PICK s : r.object = [Informed(a, in) EXCEPT !.signal = s]
  BY DEF Entry, Result
<1>2. PICK more : /\ r.lines = NewsLines(a) \cup more
                  /\ more \subseteq {"EDGES", "ENTRY", "NO_PAIR"} /\ more # {}
  BY DEF Entry, EntryLines, Result
<1> HIDE DEF r
<1>3. /\ DOMAIN r.object = Fields /\ r.object.tick = a.tick /\ r.object.printed = case.tick
      /\ r.object.seen = SeenNext(a) /\ r.object.held = held
  BY <1>1, InformedIs, SignalledIs
<1>4. "NEWS" \in r.lines <=> Announces(a)
  BY <1>2, NewsLinesAre
<1>5. r.lines # {} /\ "HEDGE" \notin r.lines
  BY <1>2, NewsLinesAre
<1>6. r.object.seen = a.seen \cup Told(a, r.lines)
  BY <1>3, <1>4, SeenIsTold
<1>7. case.tick # a.printed
  BY DEF SameTick
<1> QED  BY <1>3, <1>5, <1>6, <1>7 DEF Consistent, r

LEMMA FlatAgainIs ==
  ASSUME NEW a, NEW in, DOMAIN a = Fields, in.quoted, SameTick(a)
  PROVE  Consistent(a, in, FlatAgain(a, in))
<1> DEFINE r == FlatAgain(a, in)
<1>1. r.object = Informed(a, in) /\ r.lines = IF Changed(a) THEN {"FLAT"} ELSE {}
  BY DEF FlatAgain, Result
<1> HIDE DEF r
<1>2. ~Announces(a) /\ "NEWS" \notin r.lines /\ "ENTRY" \notin r.lines /\ "HEDGE" \notin r.lines
  BY <1>1 DEF Announces
<1>3. r.object.seen = a.seen \cup Told(a, r.lines)
  <2>1. SeenNext(a) = a.seen \cup Told(a, r.lines)
    BY <1>2, SeenIsTold
  <2>2. r.object.seen = SeenNext(a)
    BY <1>1, InformedIs
  <2> QED  BY <2>1, <2>2
<1>4. r.lines = {} => a.held \in {"NONE", held}
  BY <1>1 DEF Changed
<1> QED  BY <1>1, <1>2, <1>3, <1>4, InformedIs DEF Consistent, r

(* However an update with a snapshot ends.                                 *)
LEMMA ActiveIs ==
  ASSUME NEW a, NEW in, DOMAIN a = Fields
  PROVE  Consistent(a, in, Active(a, in))
<1>1. CASE ~in.quoted
  BY <1>1, UnquotedIs DEF Active
<1>2. CASE in.quoted /\ held # "FLAT"
  BY <1>2, HoldingIs DEF Active
<1>3. CASE in.quoted /\ held = "FLAT" /\ SameTick(a)
  BY <1>3, FlatAgainIs DEF Active
<1>4. CASE in.quoted /\ held = "FLAT" /\ ~SameTick(a)
  BY <1>4, EntryIs DEF Active
<1> QED  BY <1>1, <1>2, <1>3, <1>4

(***************************************************************************)
(* The heats.                                                              *)
(***************************************************************************)
Cases == [tick : Int, heat : Nat, active : BOOLEAN]

Typed ==
  /\ server \in Cases /\ server.tick >= 0 /\ server.heat >= 1
  /\ case \in Cases
  /\ screen.heat \in Nat
  /\ DOMAIN self = Fields /\ self.tick \in Int /\ self.printed \in Int
  /\ self.printed <= self.tick

Polling == case # NoCase

PollInShape ==
  /\ held # "NONE" => Polling
  /\ news # NotRead => held # "NONE"

(* The screen, the poll and the server are of heats in this order.         *)
HeatsInOrder ==
  /\ screen.heat <= server.heat
  /\ Polling => /\ case.tick >= 0
                /\ screen.heat <= case.heat /\ case.heat <= server.heat

(* Within a heat ticks only grow, and a heat is younger than the last tick *)
(* that the assistant, or its poll, has seen of the one before.            *)
Distinguishable ==
  /\ IF Live THEN self.tick <= server.tick
     ELSE self.tick # -1 => server.tick < self.tick
  /\ Polling => IF case.heat = server.heat THEN case.tick <= server.tick
                ELSE server.tick < case.tick
  /\ Polling => IF case.heat = screen.heat THEN self.tick <= case.tick
                ELSE self.tick # -1 => case.tick < self.tick

(* Of a heat that is not yet on the screen nothing has been told, and an   *)
(* assistant that has not seen a tick has seen nothing.                    *)
NothingTold ==
  /\ ~Live => announced = {} /\ advised = {} /\ shown = "NONE"
  /\ self.tick = -1 => self.seen = {} /\ self.held = "NONE"

AdvisedIsPrinted == Live => \A t \in advised : t \in Int /\ t <= self.printed

Known ==
  /\ Typed /\ PollInShape /\ HeatsInOrder /\ Distinguishable
  /\ NothingTold /\ AdvisedIsPrinted
  /\ SeenIsAnnounced /\ InstructionsAreCurrent

(* The object that an update begins with: in a heat on the screen the one  *)
(* of the last poll, in another a fresh one.                               *)
LEMMA BegunIs ==
  ASSUME Known, Polling, case.heat = server.heat
  PROVE  /\ DOMAIN Begun = Fields /\ Begun.tick = case.tick
         /\ Live => /\ Begun.printed = self.printed /\ Begun.seen = self.seen
                    /\ Begun.held = self.held /\ self.tick <= case.tick
         /\ ~Live => Begun.seen = {} /\ Begun.held = "NONE"
         /\ Begun.printed \in Int /\ Begun.printed <= case.tick
<1> USE DEF Known, Typed
<1>1. case.tick \in Int /\ case.tick >= 0 /\ self.tick \in Int
  BY DEF Cases, HeatsInOrder
<1>2. CASE Live
  <2>1. self.tick <= case.tick
    BY <1>2 DEF Distinguishable, Live
  <2>2. ~AnotherHeat
    BY <1>1, <2>1 DEF AnotherHeat
  <2>3. Begun = [self EXCEPT !.tick = case.tick]
    BY <2>2 DEF Begun
  <2> QED  BY <1>1, <1>2, <2>1, <2>3 DEF Fields
<1>3. CASE ~Live /\ self.tick # -1
  <2>1. AnotherHeat
    BY <1>3 DEF Distinguishable, Live, AnotherHeat
  <2>2. Begun = [Fresh EXCEPT !.tick = case.tick]
    BY <2>1 DEF Begun
  <2>3. DOMAIN Fresh = Fields /\ Fresh.printed = -1 /\ Fresh.seen = {} /\ Fresh.held = "NONE"
    BY DEF Fresh, Fields
  <2> QED  BY <1>1, <1>3, <2>2, <2>3 DEF Fields
<1>4. CASE ~Live /\ self.tick = -1
  <2>1. ~AnotherHeat
    BY <1>4 DEF AnotherHeat
  <2>2. Begun = [self EXCEPT !.tick = case.tick]
    BY <2>1 DEF Begun
  <2> QED  BY <1>1, <1>4, <2>2 DEF Fields, NothingTold
<1> QED  BY <1>2, <1>3, <1>4

(* A screen without a snapshot.                                            *)
LEMMA ScreenIs ==
  ASSUME NEW said, NEW of
  PROVE  LET s == [Blank EXCEPT !.lines = said, !.heat = of]
         IN  s.lines = said /\ s.heat = of
<1>1. DOMAIN Blank = {"lines", "heat"}
  BY DEF Blank
<1> QED  BY <1>1

(* The server moves on, and a person trades.                               *)
LEMMA WorldKeeps ==
  Known /\ (Advance \/ Stop \/ NextHeat \/ Publish \/ Trade) => Known'
<1> SUFFICES ASSUME Known PROVE Advance \/ Stop \/ NextHeat \/ Publish \/ Trade => Known'
  OBVIOUS
<1> USE DEF Known, Typed
<1>1. CASE Advance
  <2>1. /\ server' = [server EXCEPT !.tick = @ + 1] /\ Noticeable(server')
        /\ UNCHANGED <<self, screen, case, held, news, announced, advised, shown>>
    BY <1>1 DEF Advance, poll, histories
  <2>2. server' \in Cases /\ server'.tick = server.tick + 1 /\ server'.heat = server.heat
    BY <2>1 DEF Cases
  <2>3. /\ self.tick = -1 \/ screen.heat = server'.heat \/ server'.tick < self.tick
        /\ case.tick = -1 \/ case.heat = server'.heat \/ server'.tick < case.tick
    BY <2>1 DEF Noticeable
  <2>4. Distinguishable'
    BY <2>1, <2>2, <2>3 DEF Distinguishable, HeatsInOrder, Polling, Live, Cases
  <2>5. (HeatsInOrder /\ PollInShape /\ NothingTold /\ AdvisedIsPrinted)'
    BY <2>1, <2>2 DEF HeatsInOrder, PollInShape, NothingTold, AdvisedIsPrinted, Polling, Live
  <2>6. (SeenIsAnnounced /\ InstructionsAreCurrent)'
    BY <2>1, <2>2 DEF SeenIsAnnounced, InstructionsAreCurrent, Live
  <2> QED  BY <2>1, <2>2, <2>4, <2>5, <2>6 DEF Cases
<1>2. CASE NextHeat
  <2>1. /\ server' = [tick |-> 0, heat |-> server.heat + 1, active |-> TRUE]
        /\ Noticeable(server') /\ UNCHANGED <<self, screen, case, held, news>>
        /\ announced' = {} /\ advised' = {} /\ shown' = "NONE"
    BY <1>2 DEF NextHeat, poll
  <2>2. server' \in Cases /\ server'.tick = 0 /\ server'.heat = server.heat + 1
    BY <2>1 DEF Cases
  <2>3. screen.heat # server'.heat /\ (Polling => case.heat # server'.heat)
    BY <2>2 DEF HeatsInOrder, Cases
  <2>4. /\ self.tick = -1 \/ screen.heat = server'.heat \/ server'.tick < self.tick
        /\ case.tick = -1 \/ case.heat = server'.heat \/ server'.tick < case.tick
    BY <2>1 DEF Noticeable
  <2>5. Distinguishable'
    BY <2>1, <2>2, <2>3, <2>4 DEF Distinguishable, HeatsInOrder, Polling, Live, Cases
  <2>6. (HeatsInOrder /\ PollInShape /\ NothingTold /\ AdvisedIsPrinted)'
    BY <2>1, <2>2, <2>3
    DEF HeatsInOrder, PollInShape, NothingTold, AdvisedIsPrinted, Polling, Live, Cases
  <2>7. (SeenIsAnnounced /\ InstructionsAreCurrent)'
    BY <2>1, <2>2, <2>3 DEF SeenIsAnnounced, InstructionsAreCurrent, Live
  <2> QED  BY <2>1, <2>2, <2>5, <2>6, <2>7 DEF Cases
<1>3. CASE Stop \/ Publish \/ Trade
  <2>1. /\ UNCHANGED <<self, screen, case, held, news, announced, advised, shown>>
        /\ server' = server \/ server' = [server EXCEPT !.active = FALSE]
    BY <1>3 DEF Stop, Publish, Trade, poll, histories
  <2>2. server' \in Cases /\ server'.tick = server.tick /\ server'.heat = server.heat
    BY <2>1 DEF Cases
  <2>3. (HeatsInOrder /\ Distinguishable /\ PollInShape /\ NothingTold /\ AdvisedIsPrinted)'
    BY <2>1, <2>2
    DEF HeatsInOrder, Distinguishable, PollInShape, NothingTold, AdvisedIsPrinted, Polling, Live
  <2>4. (SeenIsAnnounced /\ InstructionsAreCurrent)'
    BY <2>1, <2>2 DEF SeenIsAnnounced, InstructionsAreCurrent, Live
  <2> QED  BY <2>1, <2>2, <2>3, <2>4
<1> QED  BY <1>1, <1>2, <1>3

(* A poll reads, or fails.                                                 *)
LEMMA PollKeeps ==
  Known /\ (ReadCase \/ ReadSecurities \/ ReadNews \/ Fail) => Known'
<1> SUFFICES ASSUME Known PROVE ReadCase \/ ReadSecurities \/ ReadNews \/ Fail => Known'
  OBVIOUS
<1> USE DEF Known, Typed
<1>1. CASE ReadCase
  <2>1. case = NoCase /\ case' = server
        /\ UNCHANGED <<server, self, screen, held, news, announced, advised, shown>>
    BY <1>1 DEF ReadCase, histories
  <2>2. (HeatsInOrder /\ Distinguishable)'
    BY <2>1 DEF HeatsInOrder, Distinguishable, Polling, Live, Cases
  <2>3. held = "NONE" /\ news = NotRead
    BY <2>1 DEF PollInShape, Polling
  <2>4. (PollInShape /\ NothingTold /\ AdvisedIsPrinted)'
    BY <2>1, <2>3 DEF PollInShape, NothingTold, AdvisedIsPrinted, Live
  <2>5. (SeenIsAnnounced /\ InstructionsAreCurrent)'
    BY <2>1 DEF SeenIsAnnounced, InstructionsAreCurrent, Live
  <2> QED  BY <2>1, <2>2, <2>4, <2>5
<1>2. CASE ReadSecurities \/ ReadNews
  <2>1. /\ UNCHANGED <<server, case, self, screen, announced, advised, shown>>
        /\ PollInShape'
    BY <1>2 DEF ReadSecurities, ReadNews, histories, PollInShape, Polling, NoCase
  <2>2. (HeatsInOrder /\ Distinguishable /\ NothingTold /\ AdvisedIsPrinted)'
    BY <2>1 DEF HeatsInOrder, Distinguishable, NothingTold, AdvisedIsPrinted, Polling, Live
  <2>3. (SeenIsAnnounced /\ InstructionsAreCurrent)'
    BY <2>1 DEF SeenIsAnnounced, InstructionsAreCurrent, Live
  <2> QED  BY <2>1, <2>2, <2>3
<1>3. CASE Fail
  <2>1. /\ DOMAIN self' = Fields /\ self'.tick = self.tick /\ self'.printed = self.printed
        /\ self'.seen = self.seen /\ self'.held = self.held
    BY <1>3, SignalledIs DEF Fail
  <2>2. screen'.lines = {"ERROR"} /\ screen'.heat = screen.heat
        /\ case' = NoCase /\ held' = "NONE" /\ news' = NotRead
        /\ UNCHANGED <<server, announced, advised, shown>>
    BY <1>3, ScreenIs DEF Fail, PollOver, histories
  <2>3. (HeatsInOrder /\ Distinguishable /\ PollInShape /\ NothingTold /\ AdvisedIsPrinted)'
    BY <2>1, <2>2
    DEF HeatsInOrder, Distinguishable, PollInShape, NothingTold, AdvisedIsPrinted, Polling, Live
  <2>4. (SeenIsAnnounced /\ InstructionsAreCurrent)'
    BY <2>1, <2>2 DEF SeenIsAnnounced, InstructionsAreCurrent, Live
  <2> QED  BY <2>1, <2>2, <2>3, <2>4 DEF NoCase, Cases
<1> QED  BY <1>1, <1>2, <1>3

(***************************************************************************)
(* Updates.                                                                *)
(***************************************************************************)
(* The object of an update with a snapshot, of the heat being played.      *)
Updating == [Begun EXCEPT !.status = "ACTIVE"]

Prints(r, in) ==
  /\ self' = r.object
  /\ screen'.lines = r.lines /\ screen'.heat = case.heat
  /\ announced' = announced \cup Told(Updating, r.lines)
  /\ advised' = IF "ENTRY" \in r.lines THEN advised \cup {case.tick} ELSE advised
  /\ shown' = IF in.quoted /\ r.lines # {} THEN held ELSE shown

LEMMA UpdateIs ==
  ASSUME Known, Update
  PROVE  /\ case' = NoCase /\ held' = "NONE" /\ news' = NotRead /\ UNCHANGED server
         /\ Polling
         /\ \/ /\ case.heat = server.heat /\ case.tick = server.tick
               /\ \E in \in Inputs : Prints(Active(Updating, in), in)
            \/ /\ screen'.lines = {"CHANGED"} /\ screen'.heat = screen.heat
               /\ UNCHANGED <<self, announced, advised, shown>>
<1>1. case' = NoCase /\ held' = "NONE" /\ news' = NotRead /\ UNCHANGED server
  BY DEF Update, PollOver
<1>2. Polling
  BY DEF Update, Known, PollInShape
<1>3. CASE ~Verified
  <2>1. screen' = [Blank EXCEPT !.lines = {"CHANGED"}, !.heat = screen.heat]
    BY <1>3 DEF Update
  <2>2. UNCHANGED <<self, announced, advised, shown>>
    BY <1>3 DEF Update, histories
  <2>3. screen'.lines = {"CHANGED"} /\ screen'.heat = screen.heat
    BY <2>1, ScreenIs
  <2> QED  BY <1>1, <1>2, <2>2, <2>3
<1>4. CASE Verified
  <2>1. case.tick = server.tick
    BY <1>4 DEF Verified
  <2>2. case.heat = server.heat
    BY <1>2, <2>1 DEF Known, Typed, Distinguishable, Cases
  <2>3. PICK in \in Inputs :
          LET result == Active(Updating, in)
              told == IF "NEWS" \in result.lines THEN NewItems(Updating) ELSE {}
          IN  /\ self' = result.object
              /\ screen' = [lines |-> result.lines, heat |-> case.heat]
              /\ announced' = announced \cup told
              /\ advised' = IF "ENTRY" \in result.lines THEN advised \cup {case.tick} ELSE advised
              /\ shown' = IF in.quoted /\ result.lines # {} THEN held ELSE shown
    BY <1>4 DEF Update, Updating
  <2>4. Prints(Active(Updating, in), in)
    BY <2>3 DEF Prints, Told
  <2> QED  BY <1>1, <1>2, <2>1, <2>2, <2>4
<1> QED  BY <1>3, <1>4

(* A snapshot is printed once for a tick, and what is seen is told.        *)
LEMMA PrintsKeeps ==
  ASSUME Known, Polling, case.heat = server.heat, case.tick = server.tick,
         case' = NoCase, held' = "NONE", news' = NotRead, UNCHANGED server,
         NEW in, Prints(Active(Updating, in), in)
  PROVE  /\ Known'
         /\ "ENTRY" \in screen'.lines => case.tick \notin advised
<1> DEFINE r == Active(Updating, in)
<1> USE DEF Known, Typed
<1>1. case.tick \in Int /\ case.tick >= 0 /\ case.heat \in Nat
  BY DEF Cases, HeatsInOrder
<1>2. /\ DOMAIN Updating = Fields /\ Updating.tick = case.tick
      /\ Updating.printed = Begun.printed /\ Updating.seen = Begun.seen
      /\ Updating.held = Begun.held
  BY BegunIs DEF Updating, Fields
<1>3. Consistent(Updating, in, r)
  BY <1>2, ActiveIs
<1> HIDE DEF r
<1>4. Prints(r, in)
  BY DEF r
<1>5. /\ DOMAIN self' = Fields /\ self'.tick = case.tick /\ self'.printed = case.tick
      /\ screen'.heat = server'.heat /\ Live'
  BY <1>2, <1>3, <1>4 DEF Prints, Consistent, Live
<1>6. "ENTRY" \in r.lines => case.tick \notin advised
  <2>1. SUFFICES ASSUME "ENTRY" \in r.lines, case.tick \in advised PROVE FALSE
    OBVIOUS
  <2>2. case.tick # Begun.printed
    BY <1>2, <1>3, <2>1 DEF Consistent
  <2>3. Live
    BY <2>1 DEF NothingTold
  <2>4. Begun.printed = self.printed /\ self.tick <= case.tick
    BY <2>3, BegunIs
  <2>5. case.tick <= self.printed
    BY <2>1, <2>3 DEF AdvisedIsPrinted
  <2> QED  BY <1>1, <2>2, <2>4, <2>5
<1>7. AdvisedIsPrinted'
  <2>1. SUFFICES ASSUME NEW t \in advised' PROVE t \in Int /\ t <= case.tick
    BY <1>5 DEF AdvisedIsPrinted
  <2>2. t \in advised \/ t = case.tick
    BY <1>4, <2>1 DEF Prints
  <2>3. CASE t \in advised
    <3>1. Live
      BY <2>3 DEF NothingTold
    <3>2. t \in Int /\ t <= self.printed /\ self.tick <= case.tick
      BY <2>3, <3>1, BegunIs DEF AdvisedIsPrinted
    <3> QED  BY <1>1, <3>2
  <2> QED  BY <1>1, <2>2, <2>3
<1>8. SeenIsAnnounced'
  <2>1. Begun.seen = announced
    BY BegunIs DEF SeenIsAnnounced, NothingTold
  <2>2. self'.seen = Begun.seen \cup Told(Updating, r.lines)
    BY <1>2, <1>3, <1>4 DEF Prints, Consistent
  <2>3. announced' = announced \cup Told(Updating, r.lines)
    BY <1>4 DEF Prints
  <2> QED  BY <2>1, <2>2, <2>3 DEF SeenIsAnnounced
<1>9. InstructionsAreCurrent'
  <2>1. shown \in {"NONE", Begun.held}
    BY BegunIs DEF InstructionsAreCurrent, NothingTold
  <2>2. shown' \in {"NONE", self'.held}
    BY <1>2, <1>3, <1>4, <2>1 DEF Prints, Consistent
  <2>3. ~({"HEDGE", "FLATTEN"} \subseteq screen'.lines)
    BY <1>3, <1>4 DEF Prints, Consistent
  <2> QED  BY <2>2, <2>3 DEF InstructionsAreCurrent
<1>10. (HeatsInOrder /\ Distinguishable /\ PollInShape /\ NothingTold)'
  BY <1>1, <1>5 DEF HeatsInOrder, Distinguishable, PollInShape, NothingTold, Polling, Cases
<1>11. Typed'
  <2>1. NoCase \in Cases
    BY DEF NoCase, Cases
  <2> QED  BY <1>1, <1>5, <2>1
<1>12. screen'.lines = r.lines
  BY <1>4 DEF Prints
<1> QED  BY <1>6, <1>7, <1>8, <1>9, <1>10, <1>11, <1>12

LEMMA UpdateKeeps ==
  Known /\ Update => Known' /\ ("ENTRY" \in screen'.lines => case.tick \notin advised)
<1> SUFFICES ASSUME Known, Update
             PROVE  Known' /\ ("ENTRY" \in screen'.lines => case.tick \notin advised)
  OBVIOUS
<1>1. /\ case' = NoCase /\ held' = "NONE" /\ news' = NotRead /\ UNCHANGED server
      /\ Polling
  BY UpdateIs
<1>2. CASE /\ case.heat = server.heat /\ case.tick = server.tick
           /\ \E in \in Inputs : Prints(Active(Updating, in), in)
  BY <1>1, <1>2, PrintsKeeps
<1>3. CASE /\ screen'.lines = {"CHANGED"} /\ screen'.heat = screen.heat
           /\ UNCHANGED <<self, announced, advised, shown>>
  <2> USE DEF Known, Typed
  <2>1. (HeatsInOrder /\ Distinguishable /\ PollInShape /\ NothingTold /\ AdvisedIsPrinted)'
    BY <1>1, <1>3
    DEF HeatsInOrder, Distinguishable, PollInShape, NothingTold, AdvisedIsPrinted, Polling, Live
  <2>2. (SeenIsAnnounced /\ InstructionsAreCurrent)'
    BY <1>1, <1>3 DEF SeenIsAnnounced, InstructionsAreCurrent, Live
  <2> QED  BY <1>1, <1>3, <2>1, <2>2 DEF NoCase, Cases
<1> QED  BY <1>2, <1>3, UpdateIs

(* A case that is not ACTIVE starts a fresh assistant if its heat is new.  *)
LEMMA InactiveKeeps ==
  Known /\ UpdateInactive => Known' /\ "ENTRY" \notin screen'.lines
<1> SUFFICES ASSUME Known, UpdateInactive PROVE Known' /\ "ENTRY" \notin screen'.lines
  OBVIOUS
<1> USE DEF Known, Typed
<1>1. /\ case' = NoCase /\ held' = "NONE" /\ news' = NotRead /\ Polling
      /\ UNCHANGED <<server, announced, advised, shown>>
  BY DEF UpdateInactive, PollOver, histories, Polling
<1>2. case.tick \in Int /\ case.tick >= 0 /\ case.heat \in Nat
  BY <1>1 DEF Cases, HeatsInOrder
<1>3. self' = [Begun EXCEPT !.signal = "WAIT", !.status = "STOPPED"]
  BY DEF UpdateInactive, Inactive, Result
<1>4. screen'.heat = case.heat /\ screen'.lines \subseteq {"STOPPED"}
  BY ScreenIs DEF UpdateInactive, Inactive, Result
<1>5. CASE case.heat = server.heat
  <2>1. /\ DOMAIN self' = Fields /\ self'.tick = case.tick /\ self'.printed = Begun.printed
        /\ self'.seen = Begun.seen /\ self'.held = Begun.held
    BY <1>1, <1>3, <1>5, BegunIs DEF Fields
  <2>2. Live' /\ Begun.printed \in Int /\ Begun.printed <= case.tick
    BY <1>1, <1>4, <1>5, BegunIs DEF Live
  <2>3. (HeatsInOrder /\ Distinguishable /\ PollInShape /\ NothingTold)'
    BY <1>1, <1>2, <1>4, <1>5, <2>1, <2>2
    DEF HeatsInOrder, Distinguishable, PollInShape, NothingTold, Polling, Cases
  <2>4. AdvisedIsPrinted'
    BY <1>1, <1>5, <2>1, BegunIs DEF AdvisedIsPrinted, NothingTold
  <2>5. SeenIsAnnounced'
    BY <1>1, <1>5, <2>1, BegunIs DEF SeenIsAnnounced, NothingTold
  <2>6. InstructionsAreCurrent'
    BY <1>1, <1>4, <1>5, <2>1, BegunIs DEF InstructionsAreCurrent, NothingTold
  <2>7. NoCase \in Cases
    BY DEF NoCase, Cases
  <2> QED  BY <1>1, <1>2, <1>4, <2>1, <2>2, <2>3, <2>4, <2>5, <2>6, <2>7
<1>6. CASE case.heat # server.heat
  <2>1. ~Live /\ ~Live'
    BY <1>1, <1>2, <1>4, <1>6 DEF HeatsInOrder, Live, Cases
  <2>2. /\ DOMAIN Begun = Fields /\ Begun.tick = case.tick
        /\ Begun.printed \in Int /\ Begun.printed <= case.tick
    <3>1. DOMAIN Fresh = Fields /\ Fresh.printed = -1
      BY DEF Fresh, Fields
    <3>2. CASE AnotherHeat
      BY <1>2, <3>1, <3>2 DEF Begun, Fields
    <3>3. CASE ~AnotherHeat
      <4>1. self.printed <= case.tick
        BY <1>2, <3>3 DEF AnotherHeat
      <4> QED  BY <1>2, <3>3, <4>1 DEF Begun, Fields
    <3> QED  BY <3>2, <3>3
  <2>3. DOMAIN self' = Fields /\ self'.tick = case.tick /\ self'.printed = Begun.printed
    BY <1>3, <2>2 DEF Fields
  <2>4. announced' = {} /\ advised' = {} /\ shown' = "NONE"
    BY <1>1, <2>1 DEF NothingTold
  <2>5. (HeatsInOrder /\ Distinguishable /\ PollInShape /\ NothingTold)'
    BY <1>1, <1>2, <1>4, <1>6, <2>1, <2>3, <2>4
    DEF HeatsInOrder, Distinguishable, PollInShape, NothingTold, Polling, Cases
  <2>6. (AdvisedIsPrinted /\ SeenIsAnnounced /\ InstructionsAreCurrent)'
    BY <1>4, <2>1 DEF AdvisedIsPrinted, SeenIsAnnounced, InstructionsAreCurrent
  <2>7. NoCase \in Cases
    BY DEF NoCase, Cases
  <2> QED  BY <1>1, <1>2, <1>4, <2>2, <2>3, <2>5, <2>6, <2>7
<1> QED  BY <1>4, <1>5, <1>6

(***************************************************************************)
(* The theorems.                                                           *)
(***************************************************************************)
LEMMA KnownAtFirst == Init => Known
<1> SUFFICES ASSUME Init PROVE Known
  OBVIOUS
<1>1. NoCase \in Cases /\ [tick |-> 0, heat |-> 1, active |-> TRUE] \in Cases
  BY DEF NoCase, Cases
<1>2. DOMAIN Fresh = Fields /\ Fresh.tick = -1 /\ Fresh.printed = -1
      /\ Fresh.seen = {} /\ Fresh.held = "NONE"
  BY DEF Fresh, Fields
<1>3. Blank.heat = 0 /\ Blank.lines = {}
  BY DEF Blank
<1>4. /\ server = [tick |-> 0, heat |-> 1, active |-> TRUE] /\ case = NoCase
      /\ held = "NONE" /\ news = NotRead /\ self = Fresh /\ screen = Blank
      /\ announced = {} /\ advised = {} /\ shown = "NONE"
  BY DEF Init
<1>5. Typed
  BY <1>1, <1>2, <1>3, <1>4 DEF Typed
<1>6. PollInShape /\ HeatsInOrder /\ Distinguishable
  BY <1>2, <1>3, <1>4 DEF PollInShape, HeatsInOrder, Distinguishable, Polling, Live
<1>7. NothingTold /\ AdvisedIsPrinted /\ SeenIsAnnounced /\ InstructionsAreCurrent
  BY <1>2, <1>3, <1>4
  DEF NothingTold, AdvisedIsPrinted, SeenIsAnnounced, InstructionsAreCurrent
<1> QED  BY <1>5, <1>6, <1>7 DEF Known

LEMMA KnownKeeps == Known /\ [Next]_vars => Known'
<1>1. Known /\ UNCHANGED vars => Known'
  BY DEF vars, Known, Typed, PollInShape, HeatsInOrder, Distinguishable, NothingTold,
         AdvisedIsPrinted, SeenIsAnnounced, InstructionsAreCurrent, Polling, Live
<1> QED
  BY <1>1, WorldKeeps, PollKeeps, UpdateKeeps, InactiveKeeps DEF Next

LEMMA KnownHolds == Spec => []Known
BY KnownAtFirst, KnownKeeps, PTL DEF Spec

(* Whatever counts as seen was announced on the screen, for every feed of  *)
(* news and any order of polls, failures and heats: seen_news is only      *)
(* written by an update that prints.                                       *)
THEOREM NewsIsNotLost == Spec => []SeenIsAnnounced
<1>1. Known => SeenIsAnnounced
  BY DEF Known
<1> QED  BY <1>1, KnownHolds, PTL

(* What the person last read is what the last snapshot contained, however  *)
(* they trade between polls; hedging and flattening never appear together. *)
THEOREM ScreenIsCurrent == Spec => []InstructionsAreCurrent
<1>1. Known => InstructionsAreCurrent
  BY DEF Known
<1> QED  BY <1>1, KnownHolds, PTL

(* An entry is advised once a tick at most: the tick is printed with the   *)
(* first advice, and a heat that starts over is told by its younger tick.  *)
THEOREM AdviceOncePerTick == Spec => OneAdvicePerTick
<1> DEFINE Once == PollEnds /\ "ENTRY" \in screen'.lines => case.tick \notin advised
<1>1. Known /\ [Next]_vars => Once
  <2> SUFFICES ASSUME Known, Next, PollEnds, "ENTRY" \in screen'.lines
               PROVE  case.tick \notin advised
    BY DEF vars, PollEnds
  <2>1. case # NoCase /\ case' # case
    BY DEF PollEnds
  <2>2. Update \/ UpdateInactive \/ Fail
    BY <2>1 DEF Next, Advance, Stop, NextHeat, Publish, Trade, ReadCase, ReadSecurities,
                ReadNews, poll
  <2>3. ~UpdateInactive
    BY InactiveKeeps
  <2>4. ~Fail
    <3>1. Fail => screen'.lines = {"ERROR"}
      BY ScreenIs DEF Fail
    <3> QED  BY <3>1
  <2> QED  BY <2>2, <2>3, <2>4, UpdateKeeps
<1>2. Known /\ [Next]_vars => [Once]_vars
  BY <1>1
<1> QED  BY <1>2, KnownHolds, PTL DEF Spec, OneAdvicePerTick
=============================================================================
