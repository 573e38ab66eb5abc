---------------------- MODULE IntegratedVariance_proofs ----------------------
(***************************************************************************)
(* What holds of the integrated-variance program: what a campaign has      *)
(* given up stays given up, and a release on which an entry left something *)
(* held is not entered again, for any strikes, sizes, horizons and         *)
(* schedule of releases; and its risk gates, for every announced limit,    *)
(* every supplied limit, and sub-heats without bound on their number or    *)
(* length.                                                                 *)
(***************************************************************************)
EXTENDS Campaign, DeltaLimit, TLAPS

(***************************************************************************)
(* The gates of one limit.                                                 *)
(***************************************************************************)
(* A buffer of at least 200 and at most a fifth of the limit (or 200).     *)
LEMMA BufferBounds ==
  ASSUME NEW limit \in Nat, Acceptable(limit)
  PROVE  /\ Buffer(limit) \in 200..1000
         /\ limit - Buffer(limit) > 800
<1>1. limit > 1000
  BY DEF Acceptable
<1>2. limit \div 5 \in Nat /\ 5 * (limit \div 5) <= limit /\ limit \div 5 >= 200
  BY <1>1
<1>3. Greater(200, limit \div 5) = limit \div 5
  BY <1>2 DEF Greater
<1>4. CASE 1000 < limit \div 5
  <2>1. Buffer(limit) = 1000
    BY <1>3, <1>4 DEF Buffer, Lesser
  <2> QED
    BY <2>1, <1>2, <1>4
<1>5. CASE ~(1000 < limit \div 5)
  <2>1. Buffer(limit) = limit \div 5
    BY <1>2, <1>3, <1>5 DEF Buffer, Lesser
  <2> QED
    BY <2>1, <1>1, <1>2, <1>5
<1> QED
  BY <1>4, <1>5

(* The gates of every acceptable limit are nested.                         *)
LEMMA NestedGates ==
  ASSUME NEW limit \in Nat, Acceptable(limit)
  PROVE  Nested(Gates(limit)) /\ Gates(limit).official = limit
<1> DEFINE hard == Lesser(6000, limit - Buffer(limit))
           emergency == Lesser(3500, (3 * hard) \div 5)
<1>1. hard \in Nat /\ hard > 800 /\ hard <= limit - 200
  <2>1. Buffer(limit) \in 200..1000 /\ limit - Buffer(limit) > 800
    BY BufferBounds
  <2> HIDE DEF Buffer
  <2> QED
    BY <2>1, SMTT(20) DEF Lesser
<1> HIDE DEF hard
<1>2. (3 * hard) \div 5 \in Nat /\ 5 * ((3 * hard) \div 5) <= 3 * hard
                                /\ 3 * hard < 5 * ((3 * hard) \div 5) + 5
  BY <1>1
<1>3. emergency \in Nat /\ emergency > 0 /\ emergency < hard /\ emergency <= 3500
  BY <1>1, <1>2 DEF Lesser
<1> HIDE DEF emergency
<1>4. Gates(limit) = [official |-> limit, hard |-> hard, emergency |-> emergency,
                      soft |-> Lesser(3500, emergency), shock |-> hard,
                      long |-> Lesser(1300, emergency), short |-> Lesser(800, emergency)]
  BY DEF Gates, hard, emergency
<1>5. /\ Lesser(3500, emergency) = emergency
      /\ 0 < Lesser(800, emergency)
      /\ Lesser(800, emergency) <= Lesser(1300, emergency)
      /\ Lesser(1300, emergency) <= emergency
  BY <1>3 DEF Lesser
<1> QED
  BY <1>1, <1>3, <1>4, <1>5 DEF Nested

(***************************************************************************)
(* The gates in force.                                                     *)
(***************************************************************************)
Natural ==
  /\ published \in Nat /\ found \in Nat /\ supplied \in Nat

LEMMA NaturalHolds == LimitSpec => []Natural
<1>1. LimitInit => Natural
  BY DeltaLimitAssumption DEF LimitInit, Natural
<1>2. Natural /\ [LimitNext]_limitVars => Natural'
  <2> SUFFICES ASSUME Natural, [LimitNext]_limitVars PROVE Natural'
    OBVIOUS
  <2>1. CASE Server
    BY <2>1, DeltaLimitAssumption
    DEF Natural, Server, SubHeatStarts, SubHeatTicks, Announce, Stops, NextSubHeat, program
  <2>2. CASE Program
    BY <2>2 DEF Natural, Program, ReadCase, ReadNews, Configure, Recheck, Refuse, TradeCycle
  <2>3. CASE UNCHANGED limitVars
    BY <2>3 DEF Natural, limitVars
  <2> QED
    BY <2>1, <2>2, <2>3 DEF LimitNext
<1> QED
  BY <1>1, <1>2, PTL DEF LimitSpec

(* Only Configure sets the gates, to those of an acceptable limit.         *)
LEMMA ConfigureSetsGates ==
  ASSUME Natural, Configure
  PROVE  /\ Chosen \in Nat /\ Acceptable(Chosen)
         /\ gates' = Gates(Chosen)
         /\ configured' = [period |-> case.period, limit |-> Chosen, heat |-> case.heat]
  BY DEF Natural, Configure, Chosen, DefaultLimit

LEMMA OthersKeepGates ==
  ASSUME [LimitNext]_limitVars
  PROVE  Configure \/ gates' = gates
  BY DEF LimitNext, Server, Program, SubHeatStarts, SubHeatTicks, Announce, Stops, NextSubHeat, program,
         ReadCase, ReadNews, Recheck, Refuse, TradeCycle, limitVars

(* For every announcement, command line and default the gates in force are *)
(* in order and below the limit: the hedge band inside the soft limit, the *)
(* emergency below the hard gate, the hard gate a buffer below the limit.  *)
THEOREM GatesAlwaysNested == LimitSpec => []GatesAreNested
<1>1. LimitInit => GatesAreNested
  BY NestedGates DEF LimitInit, GatesAreNested, DefaultLimit, Acceptable
<1>2. Natural /\ GatesAreNested /\ [LimitNext]_limitVars => GatesAreNested'
  BY ConfigureSetsGates, OthersKeepGates, NestedGates DEF GatesAreNested
<1> QED
  BY <1>1, <1>2, NaturalHolds, PTL DEF LimitSpec

(***************************************************************************)
(* The limit a cycle trades under.                                         *)
(***************************************************************************)
(* A configured limit is in force, and agrees with what the cycle has read.*)
LimitInForce ==
  /\ configured.limit # 0 => gates.official = configured.limit
  /\ pc = "TRADE" /\ found # 0 => configured.limit = found
  /\ TradesUnderAnnouncement

LEMMA LimitInForceStep ==
  ASSUME Natural, LimitInForce, [LimitNext]_limitVars
  PROVE  LimitInForce'
<1>1. CASE Server
  BY <1>1 DEF Server, SubHeatStarts, SubHeatTicks, Announce, Stops, NextSubHeat, program,
              LimitInForce, TradesUnderAnnouncement
<1>2. CASE ReadCase
  BY <1>2 DEF ReadCase, NotConfigured, LimitInForce, TradesUnderAnnouncement
<1>3. CASE ReadNews
  BY <1>3 DEF ReadNews, LimitInForce, TradesUnderAnnouncement
<1>4. CASE Configure
  <2>1. gates'.official = Chosen /\ configured'.limit = Chosen
    BY <1>4, ConfigureSetsGates, NestedGates
  <2>2. found # 0 => Chosen = found
    BY DEF Chosen
  <2> QED
    BY <1>4, <2>1, <2>2 DEF Configure, LimitInForce, TradesUnderAnnouncement
<1>5. CASE Recheck
  BY <1>5 DEF Recheck, Conflict, LimitInForce, TradesUnderAnnouncement
<1>6. CASE Refuse
  BY <1>6 DEF Refuse, LimitInForce, TradesUnderAnnouncement
<1>7. CASE TradeCycle
  BY <1>7 DEF TradeCycle, LimitInForce, TradesUnderAnnouncement
<1>8. CASE UNCHANGED limitVars
  BY <1>8 DEF limitVars, LimitInForce, TradesUnderAnnouncement
<1> QED
  BY <1>1, <1>2, <1>3, <1>4, <1>5, <1>6, <1>7, <1>8 DEF LimitNext, Program

(* Whenever and however often the news changes, a cycle that has read an   *)
(* announcement trades under this limit.                                   *)
THEOREM AnnouncementGoverns == LimitSpec => []TradesUnderAnnouncement
<1>1. LimitInit => LimitInForce
  BY DEF LimitInit, LimitInForce, TradesUnderAnnouncement, NotConfigured, NotTraded
<1>2. LimitInForce => TradesUnderAnnouncement
  BY DEF LimitInForce
<1> QED
  BY <1>1, <1>2, NaturalHolds, LimitInForceStep, PTL DEF LimitSpec

(***************************************************************************)
(* The sub-heat a limit belongs to.                                        *)
(***************************************************************************)
(* A sub-heat that the program has not polled yet and that has the period  *)
(* of its last poll is younger than that poll: the tick tells them apart.  *)
Distinguishable ==
  previous.heat # now.heat /\ previous.period = now.period => now.tick < previous.tick

(* What is configured was configured in the sub-heat of the last poll.     *)
ConfiguredWhenPolled ==
  configured.period # 0 => previous # NoCase /\ configured.heat = previous.heat

Cases == [heat : Nat, period : Nat, tick : Nat, active : BOOLEAN]

OwnLimit ==
  /\ now \in Cases /\ previous \in Cases /\ case \in Cases
  /\ now.period > 0 /\ previous.period <= now.period
  /\ Distinguishable
  /\ ConfiguredWhenPolled
  /\ pc \in {"NEWS", "LIMIT", "TRADE"} => case = previous /\ case.period > 0
  /\ pc = "TRADE" => configured.heat = case.heat
  /\ LimitOfThisSubHeat

(* The server never makes a sub-heat look like the one polled before it.   *)
LEMMA ServerKeepsOwnLimit ==
  ASSUME OwnLimit, Server
  PROVE  OwnLimit'
<1> USE DEF OwnLimit, Cases, ConfiguredWhenPolled, LimitOfThisSubHeat, program
<1>1. CASE SubHeatStarts
  BY <1>1 DEF SubHeatStarts, Distinguishable
<1>2. CASE SubHeatTicks
  BY <1>2 DEF SubHeatTicks, Distinguishable
<1>3. CASE Announce
  BY <1>3 DEF Announce, Distinguishable
<1>4. CASE Stops
  BY <1>4 DEF Stops, Distinguishable
<1>5. CASE NextSubHeat
  <2>1. PICK p \in {now.period, now.period + 1} :
          /\ p = now.period => previous.tick > 0 \/ previous = NoCase
          /\ now' = [heat |-> now.heat + 1, period |-> p, tick |-> 0, active |-> FALSE]
    BY <1>5 DEF NextSubHeat
  <2>2. /\ previous' = previous /\ case' = case /\ configured' = configured
        /\ pc' = pc /\ traded' = traded
    BY <1>5 DEF NextSubHeat
  <2>3. Distinguishable'
    BY <2>1, <2>2 DEF Distinguishable, NoCase
  <2>4. now' \in Cases /\ now'.period > 0 /\ previous.period <= now'.period
    BY <2>1
  <2> QED
    BY <2>2, <2>3, <2>4 DEF NoCase
<1> QED
  BY <1>1, <1>2, <1>3, <1>4, <1>5 DEF Server

(* Reading the case drops what an earlier sub-heat has configured.         *)
LEMMA ReadCaseKeepsOwnLimit ==
  ASSUME OwnLimit, ReadCase
  PROVE  OwnLimit'
<1>1. /\ case' = now /\ previous' = now /\ now' = now /\ pc' = "NEWS" /\ traded' = traded
      /\ configured' = IF NewSubHeat(now) THEN NotConfigured ELSE configured
  BY DEF ReadCase
<1>2. now # NoCase
  BY DEF OwnLimit, NoCase
<1>3. configured'.period # 0 => configured'.heat = now.heat
  <2> SUFFICES ASSUME configured'.period # 0 PROVE configured'.heat = now.heat
    OBVIOUS
  <2>1. ~NewSubHeat(now) /\ configured' = configured
    BY <1>1 DEF NotConfigured
  <2>2. previous # NoCase /\ configured.heat = previous.heat
    BY <2>1 DEF OwnLimit, ConfiguredWhenPolled
  <2>3. now.period = previous.period /\ ~(now.tick < previous.tick)
    BY <2>1, <2>2 DEF NewSubHeat
  <2> QED
    BY <2>1, <2>2, <2>3 DEF OwnLimit, Distinguishable
<1> QED
  BY <1>1, <1>2, <1>3
  DEF OwnLimit, Cases, ConfiguredWhenPolled, Distinguishable, LimitOfThisSubHeat

LEMMA ProgramKeepsOwnLimit ==
  ASSUME OwnLimit, Program
  PROVE  OwnLimit'
<1> USE DEF OwnLimit, Cases, ConfiguredWhenPolled, Distinguishable, LimitOfThisSubHeat
<1>1. CASE ReadNews
  BY <1>1 DEF ReadNews
<1>2. CASE Configure
  <2>1. configured' = [period |-> case.period, limit |-> Chosen, heat |-> case.heat]
    BY <1>2 DEF Configure
  <2>2. case = previous /\ previous # NoCase
    BY <1>2 DEF Configure, NoCase
  <2> QED
    BY <1>2, <2>1, <2>2 DEF Configure
<1>3. CASE Recheck
  <2>1. configured.period # 0 /\ case = previous
    BY <1>3 DEF Recheck
  <2> QED
    BY <1>3, <2>1 DEF Recheck
<1>4. CASE Refuse
  BY <1>4 DEF Refuse
<1>5. CASE TradeCycle
  BY <1>5 DEF TradeCycle
<1> QED
  BY <1>1, <1>2, <1>3, <1>4, <1>5, ReadCaseKeepsOwnLimit DEF Program

(* However sub-heats follow each other, with or without a change of period,*)
(* a cycle trades under a limit configured in its own sub-heat: nothing    *)
(* typed, announced or defaulted before is carried over.                   *)
THEOREM LimitsAreNotCarriedOver == LimitSpec => []LimitOfThisSubHeat
<1>1. LimitInit => OwnLimit
  <2> SUFFICES ASSUME LimitInit PROVE OwnLimit
    OBVIOUS
  <2>1. now = [heat |-> 1, period |-> 1, tick |-> 0, active |-> FALSE]
    BY DEF LimitInit, NoCase
  <2>2. previous = NoCase /\ case = NoCase /\ pc = "CASE"
    BY DEF LimitInit
  <2>3. configured.period = 0 /\ traded.of = traded.heat
    BY DEF LimitInit, NotConfigured, NotTraded
  <2>4. now \in Cases /\ previous \in Cases /\ case \in Cases
    BY <2>1, <2>2 DEF Cases, NoCase
  <2>5. Distinguishable /\ now.period > 0 /\ previous.period <= now.period
    BY <2>1, <2>2 DEF Distinguishable, NoCase
  <2> QED
    BY <2>2, <2>3, <2>4, <2>5 DEF OwnLimit, ConfiguredWhenPolled, LimitOfThisSubHeat
<1>2. OwnLimit /\ UNCHANGED limitVars => OwnLimit'
  BY DEF limitVars, OwnLimit, Cases, Distinguishable, ConfiguredWhenPolled, LimitOfThisSubHeat
<1>3. OwnLimit /\ [LimitNext]_limitVars => OwnLimit'
  BY <1>2, ServerKeepsOwnLimit, ProgramKeepsOwnLimit DEF LimitNext
<1>4. OwnLimit => LimitOfThisSubHeat
  BY DEF OwnLimit
<1> QED
  BY <1>1, <1>3, <1>4, PTL DEF LimitSpec

(***************************************************************************)
(* The object, the account and the numbers of a campaign.                  *)
(***************************************************************************)
Fields == {"seen", "campaign", "used", "confirmation", "cooldown", "held", "exiting",
           "shallow", "deep", "goals"}
CampaignFields == {"event", "strike", "dir", "target", "staged", "starter"}

IsCampaign(c) ==
  /\ DOMAIN c = CampaignFields
  /\ c.event \in Nat /\ c.strike \in Strikes /\ c.dir \in {-1, 1}
  /\ c.target \in Nat /\ c.starter \in Nat

Known(s) ==
  /\ DOMAIN s = Fields
  /\ s.campaign = None \/ IsCampaign(s.campaign)
  /\ s.confirmation # None => s.confirmation.strike \in Strikes
  /\ \A k \in DOMAIN s.goals : s.goals[k] \in Int

Counted ==
  /\ DOMAIN position = Strikes
  /\ \A k \in Strikes : position[k] \in [{1, 2} -> Int]

(* The loop over the strikes held has at most one turn, on the strike of   *)
(* the campaign.                                                           *)
AtMostOne == \A j, k \in Held : j = k
OnStrike(s) == s.campaign # None => \A k \in Held : k = s.campaign.strike

(* A strike once reduced is on its way out, or it has been scaled, or the  *)
(* target of its campaign is no more than what both of its legs hold.      *)
GivenUp(s) ==
  \A k \in reduced \cap Held :
    \/ k \in s.exiting
    \/ k \in DOMAIN s.goals
    \/ s.campaign # None => s.campaign.target <= Matched(k)

(* An event on which an entry left something held is marked as used, at    *)
(* the latest by the evaluation that first sees what has been filled.      *)
Marked ==
  \/ entered \subseteq self.used
  \/ /\ plan = NoPlan /\ Held # {} /\ self.campaign # None
     /\ entered \subseteq self.used \cup {self.campaign.event}

(* What a plan may do is fixed by the object that chose it.                *)
AddFits(s, p, m, gone) ==
  /\ p.kind = "ADD" /\ p.legs = {1, 2}
  /\ s.campaign # None /\ p.strike = s.campaign.strike /\ p.strike \notin gone
  /\ Balanced(p.strike)
  /\ Held = {} => m.event \notin s.used /\ s.campaign.event = m.event

(* The first leg of an entry leaves the account as flat as it was only if  *)
(* it was flat before.                                                     *)
PairFits(s, p, m, gone) ==
  /\ p.kind = "PAIR" /\ p.legs = {1, 2} /\ p.first \in {1, 2}
  /\ s.campaign # None /\ p.strike = s.campaign.strike /\ p.strike \notin gone
  /\ p.before = {} => m.event \notin s.used /\ s.campaign.event = m.event
  /\ p.before # {} => Held # {}

LeaveFits(s, p) ==
  \/ p.kind \in {"EXIT", "LEG"} /\ p.strike \in s.exiting
  \/ p.kind = "SCALE" /\ p.strike \in DOMAIN s.goals

TrimFits(s, p) ==
  /\ p.kind = "TRIM"
  /\ s.campaign # None => s.campaign.target <= Matched(p.strike)
  /\ \E i \in {1, 2} : p.legs = {i} /\ p.size = Size(position[p.strike][i]) - Matched(p.strike)

ReduceFits(s, p) ==
  /\ p.kind = "REDUCE" /\ Balanced(p.strike)
  /\ s.campaign # None /\ p.size = Size(position[p.strike][1]) - s.campaign.target

IsOrder(p) ==
  p.strike \in Strikes /\ p.dir \in {-1, 1} /\ p.size \in Int /\ p.legs \subseteq {1, 2}

PlanFits(s, p, m, gone) ==
  \/ p = NoPlan
  \/ p = [kind |-> "HEDGE"]
  \/ IsOrder(p) /\ AddFits(s, p, m, gone)
  \/ IsOrder(p) /\ PairFits(s, p, m, gone)
  \/ /\ IsOrder(p) /\ p.strike \in Held
     /\ LeaveFits(s, p) \/ TrimFits(s, p) \/ ReduceFits(s, p)

(* The inductive invariant.                                                *)
IInv ==
  /\ Known(self) /\ Counted /\ AtMostOne
  /\ OnStrike(self) /\ GivenUp(self) /\ Marked
  /\ PlanFits(self, plan, model, reduced)
  /\ model.event \in Nat

(***************************************************************************)
(* Lemmas about sizes.                                                     *)
(***************************************************************************)
LEMMA SizeType == \A x \in Int : Size(x) \in Nat
BY DEF Size

LEMMA OppositeDir == \A d \in {-1, 1} : -d \in {-1, 1}
<1>1. \A t \in Int : -t = 0 - t
  OBVIOUS
<1>2. -(-1) = 1
  <2>1. -1 \in Int /\ 0 - (-1) = 1
    OBVIOUS
  <2> QED  BY <1>1, <2>1, Zenon
<1> QED  BY <1>2

(* A fill of no more than the difference leaves at least the target.       *)
LEMMA SizeAfterFill ==
  ASSUME NEW x \in Int, NEW t \in Int, NEW n \in 0..(Size(x) - t), NEW d \in {-1, 1}
  PROVE  x + d * n \in Int /\ Size(x + d * n) >= t
<1>1. CASE d = 1
  <2>1. x + d * n = x + n
    BY <1>1
  <2> QED  BY <2>1 DEF Size
<1>2. CASE d = -1
  <2>1. d * n = -n
    BY <1>2
  <2>2. x + d * n = x - n
    BY <2>1
  <2> QED  BY <2>2 DEF Size
<1> QED  BY <1>1, <1>2

LEMMA MatchedType ==
  ASSUME Counted, NEW k \in Strikes
  PROVE  /\ Matched(k) \in Nat
         /\ \A i \in {1, 2} : Size(position[k][i]) \in Nat /\ Matched(k) <= Size(position[k][i])
         /\ \A t \in Int : t <= Size(position[k][1]) /\ t <= Size(position[k][2]) => t <= Matched(k)
         /\ Balanced(k) => Matched(k) = Size(position[k][1])
<1>1. Size(position[k][1]) \in Nat /\ Size(position[k][2]) \in Nat
  BY SizeType DEF Counted
<1> QED  BY <1>1 DEF Matched, Least, Balanced

(***************************************************************************)
(* What each part of an evaluation makes of the object.                    *)
(***************************************************************************)
LEMMA NoneIsNot == \A c : IsCampaign(c) => c # None
BY DEF IsCampaign, None

LEMMA KeptGoals ==
  ASSUME NEW f, NEW S
  PROVE  DOMAIN Keep(f, S) = DOMAIN f \cap S /\ \A k \in DOMAIN f \cap S : Keep(f, S)[k] = f[k]
BY DEF Keep

(* A campaign of which only the target has changed, and not grown.         *)
Follows(c, d) ==
  \/ c = None /\ d = None
  \/ /\ c # None /\ IsCampaign(d)
     /\ d.event = c.event /\ d.strike = c.strike /\ d.dir = c.dir /\ d.target <= c.target

LEMMA AtMostIs ==
  ASSUME NEW c, c = None \/ IsCampaign(c), NEW n \in Nat
  PROVE  /\ Follows(c, AtMost(c, n))
         /\ AtMost(c, n) # None => AtMost(c, n).target <= n
<1>1. CASE c = None
  BY <1>1 DEF AtMost, Follows
<1>2. CASE c # None
  <2>1. IsCampaign(c) /\ AtMost(c, n) = [c EXCEPT !.target = Least(@, n)]
    BY <1>2 DEF AtMost
  <2>2. Least(c.target, n) \in Nat /\ Least(c.target, n) <= c.target /\ Least(c.target, n) <= n
    BY <2>1 DEF Least, IsCampaign
  <2> QED  BY <1>2, <2>1, <2>2 DEF Follows, IsCampaign, CampaignFields
<1> QED  BY <1>1, <1>2

LEMMA SameFollows ==
  ASSUME NEW c, c = None \/ IsCampaign(c)
  PROVE  Follows(c, c)
BY NoneIsNot DEF Follows, IsCampaign

LEMMA FollowsIs ==
  ASSUME NEW c, NEW d, Follows(c, d)
  PROVE  (d = None \/ IsCampaign(d)) /\ (c = None <=> d = None)
BY NoneIsNot DEF Follows

(* What an evaluation has found out when it comes to decide.               *)
Sound(s, m) ==
  /\ Known(s) /\ OnStrike(s) /\ GivenUp(s)
  /\ s.exiting \subseteq Held /\ DOMAIN s.goals \subseteq Held
  /\ Held = {} /\ s.campaign # None => s.campaign.event = m.event
  /\ entered \subseteq s.used

Reviewed(s, m) ==
  /\ Sound(s, m)
  /\ Broken \subseteq s.exiting
  /\ \A k \in Unmatched : s.campaign # None => s.campaign.target <= Matched(k)

(* Nothing is lost by a part that only gives up more.                      *)
LEMMA GivingUpMore ==
  ASSUME NEW m, NEW s, NEW t, Counted, Known(s), Known(t),
         \/ Follows(s.campaign, t.campaign)
         \/ /\ Held # {} /\ s.campaign # None /\ IsCampaign(t.campaign)
            /\ t.campaign.strike = s.campaign.strike /\ t.campaign.target <= s.campaign.target,
         s.exiting \subseteq t.exiting, t.exiting \subseteq Held,
         DOMAIN s.goals \subseteq DOMAIN t.goals, DOMAIN t.goals \subseteq Held,
         s.used \subseteq t.used
  PROVE  (Sound(s, m) => Sound(t, m)) /\ (Reviewed(s, m) => Reviewed(t, m))
<1>1. /\ t.campaign # None => /\ s.campaign # None
                              /\ t.campaign.strike = s.campaign.strike
                              /\ t.campaign.target <= s.campaign.target
                              /\ t.campaign.target \in Nat /\ s.campaign.target \in Nat
                              /\ Held = {} => t.campaign.event = s.campaign.event
  BY FollowsIs, NoneIsNot DEF Follows, Known, IsCampaign
<1>2. \A k \in Held : k \in Strikes /\ Matched(k) \in Nat
  BY MatchedType DEF Held
<1>3. ASSUME NEW k \in Held, s.campaign # None => s.campaign.target <= Matched(k)
      PROVE  t.campaign # None => t.campaign.target <= Matched(k)
  BY <1>1, <1>2, <1>3
<1>4. OnStrike(s) => OnStrike(t)
  BY <1>1 DEF OnStrike
<1>5. GivenUp(s) => GivenUp(t)
  BY <1>3 DEF GivenUp
<1>6. Unmatched \subseteq Held
  BY DEF Unmatched
<1>7. ASSUME Sound(s, m) PROVE Sound(t, m)
  BY <1>1, <1>4, <1>5, <1>7 DEF Sound
<1>8. ASSUME Reviewed(s, m) PROVE Reviewed(t, m)
  BY <1>3, <1>6, <1>7, <1>8 DEF Reviewed
<1> QED  BY <1>7, <1>8

LEMMA NoticeIs ==
  ASSUME NEW m, NEW new, DOMAIN self = Fields
  PROVE  LET s == Notice(self, m, new)
             old == IF WentFlat THEN None ELSE self.campaign
         IN  /\ DOMAIN s = Fields
             /\ s.campaign = IF Held = {} /\ old.event # m.event THEN None ELSE old
             /\ s.used = UsedBy(self, old)
             /\ s.confirmation = IF WentFlat THEN None ELSE self.confirmation
             /\ s.exiting = self.exiting \cap Held
             /\ s.goals = Keep(self.goals, Held)
BY DEF Notice, Fields

(* The account tells of what ended and marks what was filled.              *)
LEMMA NoticeSound ==
  ASSUME IInv, NEW m, m.event \in Nat, NEW new
  PROVE  Sound(Notice(self, m, new), m)
<1> DEFINE s == Notice(self, m, new)
           old == IF WentFlat THEN None ELSE self.campaign
<1>1. DOMAIN self = Fields
  BY DEF IInv, Known
<1>2. /\ DOMAIN s = Fields
      /\ s.campaign = IF Held = {} /\ old.event # m.event THEN None ELSE old
      /\ s.used = UsedBy(self, old)
      /\ s.confirmation = IF WentFlat THEN None ELSE self.confirmation
      /\ s.exiting = self.exiting \cap Held
      /\ s.goals = Keep(self.goals, Held)
  BY <1>1, NoticeIs
<1> HIDE DEF s
<1>3. old = None \/ (old = self.campaign /\ IsCampaign(old))
  BY DEF IInv, Known
<1>4. s.campaign \in {None, old} /\ (Held # {} => s.campaign = self.campaign)
  BY <1>2 DEF WentFlat
<1>5. DOMAIN s.goals = DOMAIN self.goals \cap Held /\ \A k \in DOMAIN s.goals : s.goals[k] = self.goals[k]
  <2>1. /\ DOMAIN Keep(self.goals, Held) = DOMAIN self.goals \cap Held
        /\ \A k \in DOMAIN self.goals \cap Held : Keep(self.goals, Held)[k] = self.goals[k]
    BY KeptGoals, Zenon
  <2> QED  BY <1>2, <2>1, Zenon
<1>6. Known(s)
  BY <1>2, <1>3, <1>4, <1>5 DEF IInv, Known
<1>7. OnStrike(s)
  BY <1>4 DEF IInv, OnStrike
<1>8. GivenUp(s)
  BY <1>2, <1>4, <1>5 DEF IInv, GivenUp
<1>9. Held = {} /\ s.campaign # None => s.campaign.event = m.event
  BY <1>2
<1>10. entered \subseteq s.used
  <2>1. CASE Held = {}
    BY <1>2, <2>1 DEF IInv, Marked, UsedBy
  <2>2. CASE Held # {}
    <3>1. s.used = IF self.campaign # None THEN self.used \cup {self.campaign.event} ELSE self.used
      BY <1>2, <2>2 DEF UsedBy, WentFlat
    <3> QED  BY <3>1 DEF IInv, Marked
  <2> QED  BY <2>1, <2>2
<1>11. s.exiting \subseteq Held /\ DOMAIN s.goals \subseteq Held
  BY <1>2, <1>5
<1>12. Sound(s, m)
  BY <1>6, <1>7, <1>8, <1>9, <1>10, <1>11, Zenon DEF Sound
<1> QED  BY <1>12 DEF s

LEMMA RepairedIs ==
  ASSUME NEW m, NEW s, DOMAIN s = Fields
  PROVE  LET t == Repaired(s, m)
         IN  /\ DOMAIN t = Fields
             /\ t.campaign = IF s.campaign # None /\ s.campaign.strike \in Unmatched
                             THEN AtMost(s.campaign, Matched(s.campaign.strike)) ELSE s.campaign
             /\ t.used = IF Unmatched = {} THEN s.used ELSE s.used \cup {m.event}
             /\ t.confirmation = s.confirmation
             /\ t.exiting = s.exiting \cup Broken
             /\ t.goals = s.goals
BY DEF Repaired, Fields

(* An unmatched strike gives up what one of its legs does not hold.        *)
LEMMA RepairedReviewed ==
  ASSUME Counted, NEW m, NEW s, Sound(s, m)
  PROVE  Reviewed(Repaired(s, m), m)
<1> DEFINE t == Repaired(s, m)
<1>1. /\ DOMAIN t = Fields
      /\ t.campaign = IF s.campaign # None /\ s.campaign.strike \in Unmatched
                      THEN AtMost(s.campaign, Matched(s.campaign.strike)) ELSE s.campaign
      /\ s.used \subseteq t.used
      /\ t.confirmation = s.confirmation
      /\ t.exiting = s.exiting \cup Broken
      /\ t.goals = s.goals
  BY RepairedIs, ZenonT(30) DEF Sound, Known
<1> HIDE DEF t
<1>2. \A k \in Held : k \in Strikes /\ Matched(k) \in Nat
  BY MatchedType DEF Held
<1>3. Unmatched \subseteq Held /\ Broken \subseteq Held
  BY DEF Unmatched, Broken
<1>4. /\ Follows(s.campaign, t.campaign)
      /\ t.campaign # None /\ s.campaign.strike \in Unmatched
           => t.campaign.target <= Matched(s.campaign.strike)
  <2>1. s.campaign = None \/ IsCampaign(s.campaign)
    BY DEF Sound, Known
  <2>2. CASE s.campaign # None /\ s.campaign.strike \in Unmatched
    BY <1>1, <1>2, <1>3, <2>1, <2>2, AtMostIs
  <2>3. CASE ~(s.campaign # None /\ s.campaign.strike \in Unmatched)
    <3>1. t.campaign = s.campaign
      BY <1>1, <2>3
    <3>2. t.campaign # None => s.campaign.strike \notin Unmatched
      BY <2>3, <3>1
    <3> QED  BY <2>1, <3>1, <3>2, SameFollows
  <2> QED  BY <2>2, <2>3
<1>5. Known(t)
  BY <1>1, <1>4, FollowsIs DEF Sound, Known
<1>6. s.exiting \subseteq Held /\ DOMAIN s.goals \subseteq Held /\ Known(s)
  BY DEF Sound
<1>7. Sound(t, m)
  BY <1>1, <1>3, <1>4, <1>5, <1>6, GivingUpMore
<1>8. \A k \in Unmatched : t.campaign # None => t.campaign.target <= Matched(k)
  <2> SUFFICES ASSUME NEW k \in Unmatched, t.campaign # None
               PROVE  t.campaign.target <= Matched(k)
    OBVIOUS
  <2>1. k = s.campaign.strike
    BY <1>3, <1>4, FollowsIs DEF Sound, OnStrike
  <2> QED  BY <1>4, <2>1
<1>9. Broken \subseteq t.exiting
  BY <1>1
<1>10. Reviewed(t, m)
  BY <1>7, <1>8, <1>9, Zenon DEF Reviewed
<1> QED  BY <1>10 DEF t

LEMMA LeavingIs ==
  ASSUME NEW s, DOMAIN s = Fields, NEW c, NEW e, NEW g, NEW x, NEW y
  PROVE  LET t == [s EXCEPT !.shallow = x, !.deep = y, !.exiting = e, !.goals = g, !.campaign = c]
         IN  /\ DOMAIN t = Fields
             /\ t.campaign = c /\ t.exiting = e /\ t.goals = g
             /\ t.used = s.used /\ t.confirmation = s.confirmation
BY DEF Fields

(* A strike that leaves joins the ones on their way out, one that is       *)
(* scaled has a goal.                                                      *)
LEMMA AssessReviewed ==
  ASSUME Counted, NEW m, NEW s, Reviewed(s, m), NEW k \in Held, NEW sig, NEW new
  PROVE  Reviewed(Assess(s, k, sig, new), m)
<1> DEFINE t == Assess(s, k, sig, new)
           half == Size(position[k][1]) \div 2
<1>1. half \in Nat
  <2>1. Size(position[k][1]) \in Nat
    BY SizeType DEF Counted, Held
  <2> QED  BY <2>1
<1>2. PICK leaves, scales, x, y :
        t = [s EXCEPT !.shallow = x, !.deep = y,
               !.exiting = IF leaves THEN @ \cup {k} ELSE @,
               !.goals = IF scales THEN Put(@, k, half) ELSE @,
               !.campaign = IF scales THEN Shrinks(@, k, half) ELSE @]
  BY DEF Assess
<1>3. DOMAIN s = Fields /\ Known(s) /\ (s.campaign = None \/ IsCampaign(s.campaign))
  BY DEF Reviewed, Sound, Known
<1>4. t = [s EXCEPT !.shallow = x, !.deep = y,
             !.exiting = IF leaves THEN s.exiting \cup {k} ELSE s.exiting,
             !.goals = IF scales THEN Put(s.goals, k, half) ELSE s.goals,
             !.campaign = IF scales THEN Shrinks(s.campaign, k, half) ELSE s.campaign]
  BY <1>2, <1>3 DEF Fields
<1>5. /\ DOMAIN t = Fields
      /\ t.exiting \in {s.exiting, s.exiting \cup {k}}
      /\ t.goals \in {s.goals, Put(s.goals, k, half)}
      /\ t.campaign \in {s.campaign, AtMost(s.campaign, half)}
      /\ t.used = s.used /\ t.confirmation = s.confirmation
  BY <1>3, <1>4, LeavingIs DEF Shrinks
<1> HIDE DEF t, half
<1>6. Follows(s.campaign, t.campaign)
  BY <1>1, <1>3, <1>5, SameFollows, AtMostIs
<1>7. /\ DOMAIN t.goals \in {DOMAIN s.goals, DOMAIN s.goals \cup {k}}
      /\ \A j \in DOMAIN t.goals : t.goals[j] \in Int
  <2>1. /\ DOMAIN Put(s.goals, k, half) = DOMAIN s.goals \cup {k}
        /\ \A j \in DOMAIN s.goals \cup {k} :
             Put(s.goals, k, half)[j] = IF j = k THEN half ELSE s.goals[j]
    BY DEF Put
  <2>2. CASE t.goals = s.goals
    BY <1>3, <2>2, Zenon DEF Known
  <2>3. CASE t.goals = Put(s.goals, k, half)
    <3>1. \A j \in DOMAIN s.goals \cup {k} : t.goals[j] = IF j = k THEN half ELSE s.goals[j]
      BY <2>1, <2>3, Zenon
    <3>2. half \in Int /\ \A j \in DOMAIN s.goals : s.goals[j] \in Int
      BY <1>1, <1>3 DEF Known
    <3> QED  BY <2>1, <2>3, <3>1, <3>2, Zenon
  <2> QED  BY <1>5, <2>2, <2>3
<1>8. Known(t)
  BY <1>3, <1>5, <1>6, <1>7, FollowsIs DEF Known
<1>9. s.exiting \subseteq Held /\ DOMAIN s.goals \subseteq Held
  BY DEF Reviewed, Sound
<1>10. /\ s.exiting \subseteq t.exiting /\ t.exiting \subseteq Held
       /\ DOMAIN s.goals \subseteq DOMAIN t.goals /\ DOMAIN t.goals \subseteq Held
       /\ s.used \subseteq t.used
  BY <1>5, <1>7, <1>9
<1>11. Reviewed(t, m)
  BY <1>3, <1>6, <1>8, <1>10, GivingUpMore, Zenon
<1> QED  BY <1>11 DEF t

LEMMA ExitingIs ==
  ASSUME NEW s, DOMAIN s = Fields, NEW e
  PROVE  LET t == [s EXCEPT !.exiting = e]
         IN  /\ DOMAIN t = Fields
             /\ t.exiting = e /\ t.campaign = s.campaign /\ t.goals = s.goals
             /\ t.used = s.used /\ t.confirmation = s.confirmation
BY DEF Fields

LEMMA ReviewReviewed ==
  ASSUME IInv, NEW m, m.event \in Nat, NEW q, NEW new, NEW priced
  PROVE  Reviewed(Review(Notice(self, m, new), q, m, new, priced), m)
<1> DEFINE s == Notice(self, m, new)
           r == Repaired(s, m)
           k == CHOOSE j \in Held : TRUE
           t == Review(s, q, m, new, priced)
<1> SUFFICES Reviewed(t, m)
  OBVIOUS
<1>1. Reviewed(r, m)
  BY NoticeSound, RepairedReviewed DEF IInv
<1>2. Counted
  BY DEF IInv
<1>3. \/ t = r
      \/ Held # {} /\ t = Assess(r, k, q[k], new)
      \/ t = [r EXCEPT !.exiting = Held]
  BY DEF Review
<1> HIDE DEF r, s
<1>4. CASE t = r
  BY <1>1, <1>4
<1>5. CASE Held # {} /\ t = Assess(r, k, q[k], new)
  <2>1. k \in Held
    BY <1>5
  <2> QED  BY <1>1, <1>2, <1>5, <2>1, AssessReviewed
<1>6. CASE t = [r EXCEPT !.exiting = Held]
  <2>1. DOMAIN r = Fields /\ Known(r) /\ (r.campaign = None \/ IsCampaign(r.campaign))
    BY <1>1 DEF Reviewed, Sound, Known
  <2>2. /\ DOMAIN t = Fields
        /\ t.exiting = Held /\ t.campaign = r.campaign /\ t.goals = r.goals
        /\ t.used = r.used /\ t.confirmation = r.confirmation
    BY <1>6, <2>1, ExitingIs
  <2> HIDE DEF t
  <2>3. Known(t)
    BY <2>1, <2>2 DEF Known
  <2>4. /\ r.exiting \subseteq t.exiting /\ t.exiting \subseteq Held
        /\ DOMAIN r.goals \subseteq DOMAIN t.goals /\ DOMAIN t.goals \subseteq Held
        /\ r.used \subseteq t.used /\ Follows(r.campaign, t.campaign)
    BY <1>1, <2>1, <2>2, SameFollows DEF Reviewed, Sound
  <2> QED  BY <1>1, <1>2, <2>1, <2>3, <2>4, GivingUpMore, Zenon
<1> QED  BY <1>3, <1>4, <1>5, <1>6

(***************************************************************************)
(* What each plan rests on.                                                *)
(***************************************************************************)
Settled(m) == Sound(self', m) /\ PlanFits(self', plan', m, reduced \cap Held)

(* A hedge in the place of a plan, or no plan at all, is always possible.  *)
LEMMA DecidedSettles ==
  ASSUME NEW m, NEW s, NEW p, NEW level \in Levels, Decided(s, p, level),
         Sound(s, m), PlanFits(s, p, m, reduced \cap Held)
  PROVE  Settled(m)
<1>1. Overridden(p, level) \in {p, NoPlan, [kind |-> "HEDGE"]}
  BY CampaignAssumption DEF Overridden
<1>2. PlanFits(s, Overridden(p, level), m, reduced \cap Held)
  BY <1>1 DEF PlanFits
<1> QED  BY <1>2 DEF Decided, Settled

LEMMA NoPlanFits == \A s, m, gone : PlanFits(s, NoPlan, m, gone)
BY DEF PlanFits

(* The longer leg is trimmed down to the shorter one.                      *)
LEMMA RepairSettles ==
  ASSUME Counted, NEW m, NEW s, Reviewed(s, m), NEW level \in Levels, Repair(s, level)
  PROVE  Settled(m)
<1>1. PICK k \in Unmatched :
        LET leg == IF Size(position[k][1]) > Size(position[k][2]) THEN 1 ELSE 2
            trim == [kind |-> "TRIM", strike |-> k, legs |-> {leg},
                     dir |-> IF position[k][leg] > 0 THEN -1 ELSE 1,
                     size |-> Size(position[k][leg]) - Matched(k)]
        IN \E p \in {NoPlan, trim} : Decided(s, p, level)
  BY DEF Repair
<1> DEFINE leg == IF Size(position[k][1]) > Size(position[k][2]) THEN 1 ELSE 2
           dir == IF position[k][leg] > 0 THEN -1 ELSE 1
           size == Size(position[k][leg]) - Matched(k)
           trim == [kind |-> "TRIM", strike |-> k, legs |-> {leg}, dir |-> dir, size |-> size]
<1>2. PICK p \in {NoPlan, trim} : Decided(s, p, level)
  BY <1>1
<1>3. k \in Held /\ k \in Strikes
  BY DEF Unmatched, Held
<1>4. leg \in {1, 2}
  OBVIOUS
<1>5. size \in Int
  BY <1>3, <1>4, MatchedType
<1>6. dir \in {-1, 1}
  OBVIOUS
<1>7. s.campaign # None => s.campaign.target <= Matched(k)
  BY DEF Reviewed
<1> HIDE DEF leg, dir
<1>8. IsOrder(trim)
  BY <1>3, <1>4, <1>5, <1>6 DEF IsOrder
<1>9. TrimFits(s, trim)
  BY <1>4, <1>7 DEF TrimFits
<1>10. PlanFits(s, trim, m, reduced \cap Held)
  BY <1>3, <1>8, <1>9 DEF PlanFits
<1>11. PlanFits(s, p, m, reduced \cap Held)
  BY <1>10, NoPlanFits
<1> QED  BY <1>2, <1>11, DecidedSettles DEF Reviewed

LEMMA SideType == \A k : Side(k) \in {-1, 1} /\ -Side(k) \in {-1, 1}
BY OppositeDir DEF Side

(* A batch of both legs or a leg of its own closes a strike on its way out. *)
LEMMA ExitSettles ==
  ASSUME Counted, NEW m, NEW s, Reviewed(s, m), NEW level \in Levels, NEW priced,
         Exit(s, priced, level)
  PROVE  Settled(m)
<1>1. PICK k \in s.exiting :
        IF priced /\ Balanced(k)
        THEN \E p \in Batch("EXIT", k, -Side(k), Size(position[k][1])) : Decided(s, p, level)
        ELSE \E p \in {NoPlan} \cup {Leg(k, i) : i \in {j \in {1, 2} : position[k][j] # 0}} :
               Decided(s, p, level)
  BY DEF Exit
<1>2. k \in Held /\ k \in Strikes
  BY DEF Reviewed, Sound, Held
<1> DEFINE exit == [kind |-> "EXIT", strike |-> k, dir |-> -Side(k), size |-> Size(position[k][1]),
                    legs |-> {1, 2}]
<1>3. PICK p : Decided(s, p, level) /\ (p = NoPlan \/ p = exit \/ \E i \in {1, 2} : p = Leg(k, i))
  BY <1>1 DEF Batch
<1>4. \A i \in {1, 2} : Size(position[k][i]) \in Int
  BY <1>2, MatchedType
<1>5. PlanFits(s, exit, m, reduced \cap Held)
  <2>1. exit.kind = "EXIT" /\ exit.strike = k /\ exit.dir \in {-1, 1} /\ exit.size \in Int
        /\ exit.legs \subseteq {1, 2}
    BY <1>4, SideType
  <2> HIDE DEF exit
  <2>2. IsOrder(exit) /\ LeaveFits(s, exit)
    BY <1>2, <2>1 DEF IsOrder, LeaveFits
  <2> QED  BY <1>2, <2>1, <2>2 DEF PlanFits
<1>6. ASSUME NEW i \in {1, 2} PROVE PlanFits(s, Leg(k, i), m, reduced \cap Held)
  <2>1. Leg(k, i).kind = "LEG" /\ Leg(k, i).strike = k /\ Leg(k, i).dir \in {-1, 1}
        /\ Leg(k, i).size \in Int /\ Leg(k, i).legs \subseteq {1, 2}
    BY <1>4 DEF Leg
  <2>2. IsOrder(Leg(k, i)) /\ LeaveFits(s, Leg(k, i))
    BY <1>2, <2>1 DEF IsOrder, LeaveFits
  <2> QED  BY <1>2, <2>1, <2>2 DEF PlanFits
<1>7. PlanFits(s, p, m, reduced \cap Held)
  BY <1>3, <1>5, <1>6, NoPlanFits
<1> QED  BY <1>3, <1>7, DecidedSettles DEF Reviewed

(* A scaled strike is reduced to its goal.                                 *)
LEMMA ScaleOutSettles ==
  ASSUME Counted, NEW m, NEW s, Reviewed(s, m), NEW level \in Levels, NEW priced,
         ScaleOut(s, priced, level)
  PROVE  Settled(m)
<1>1. PICK k \in DOMAIN s.goals :
        \E p \in Batch("SCALE", k, -Side(k), Size(position[k][1]) - s.goals[k]) :
          Decided(s, p, level)
  BY DEF ScaleOut
<1> DEFINE scale == [kind |-> "SCALE", strike |-> k, dir |-> -Side(k),
                     size |-> Size(position[k][1]) - s.goals[k], legs |-> {1, 2}]
<1>2. PICK p \in {NoPlan, scale} : Decided(s, p, level)
  BY <1>1 DEF Batch
<1>3. k \in Held /\ k \in Strikes /\ s.goals[k] \in Int
  BY DEF Reviewed, Sound, Known, Held
<1>4. scale.kind = "SCALE" /\ scale.strike = k /\ scale.dir \in {-1, 1} /\ scale.size \in Int
      /\ scale.legs \subseteq {1, 2}
  BY <1>3, SideType, MatchedType
<1> HIDE DEF scale
<1>5. IsOrder(scale) /\ LeaveFits(s, scale)
  BY <1>3, <1>4 DEF IsOrder, LeaveFits
<1>6. PlanFits(s, scale, m, reduced \cap Held)
  BY <1>3, <1>4, <1>5 DEF PlanFits
<1>7. PlanFits(s, p, m, reduced \cap Held)
  BY <1>6, NoPlanFits
<1> QED  BY <1>2, <1>7, DecidedSettles DEF Reviewed

(***************************************************************************)
(* Opening, completing or reducing a campaign.                             *)
(***************************************************************************)
LEMMA StagedIs ==
  ASSUME NEW s, DOMAIN s = Fields, IsCampaign(s.campaign)
  PROVE  LET t == [s EXCEPT !.campaign.staged = FALSE, !.campaign.starter = 0]
         IN  /\ DOMAIN t = Fields
             /\ IsCampaign(t.campaign) /\ Follows(s.campaign, t.campaign)
             /\ t.campaign.target = s.campaign.target
             /\ t.used = s.used /\ t.confirmation = s.confirmation
             /\ t.exiting = s.exiting /\ t.goals = s.goals
<1> DEFINE t == [s EXCEPT !.campaign.staged = FALSE, !.campaign.starter = 0]
           c == [s.campaign EXCEPT !.staged = FALSE, !.starter = 0]
<1>1. t = [s EXCEPT !.campaign = c]
  BY DEF Fields
<1>2. /\ DOMAIN t = Fields /\ t.campaign = c
      /\ t.used = s.used /\ t.confirmation = s.confirmation
      /\ t.exiting = s.exiting /\ t.goals = s.goals
  BY <1>1 DEF Fields
<1>3. IsCampaign(c) /\ c.event = s.campaign.event /\ c.strike = s.campaign.strike
      /\ c.dir = s.campaign.dir /\ c.target = s.campaign.target
  BY DEF IsCampaign, CampaignFields
<1>4. s.campaign.target <= s.campaign.target
  BY DEF IsCampaign
<1> HIDE DEF t, c
<1>5. Follows(s.campaign, t.campaign)
  BY <1>2, <1>3, <1>4, NoneIsNot DEF Follows
<1> QED  BY <1>2, <1>3, <1>5 DEF t

LEMMA WantedIs ==
  ASSUME NEW c, IsCampaign(c), NEW current \in Nat
  PROVE  /\ Wanted(c, current) \in Nat /\ Wanted(c, current) <= c.target
         /\ current # 0 => Wanted(c, current) = c.target
<1>1. c # None
  BY NoneIsNot
<1>2. Wanted(c, current) \in {c.target, Least(c.target, c.starter)}
      /\ (current # 0 => Wanted(c, current) = c.target)
  BY <1>1 DEF Wanted
<1> QED  BY <1>2 DEF Least, IsCampaign

(* What a trade needs to know to resize a campaign.                        *)
Sizable(s, m, k, mayAdd) ==
  /\ Sound(s, m) /\ s.exiting = {}
  /\ \A j \in Held : Balanced(j)
  /\ Held # {} => k \in Held /\ s.campaign # None
  /\ s.campaign # None => s.campaign.strike = k
  /\ mayAdd => /\ s.campaign # None /\ k \notin DOMAIN s.goals
               /\ Held = {} => m.event \notin s.used

LEMMA ResizeSettles ==
  ASSUME Counted, NEW m, NEW s, NEW k \in Strikes, NEW d \in {-1, 1}, NEW level \in Levels,
         NEW mayAdd \in BOOLEAN, Sizable(s, m, k, mayAdd), Resize(s, k, d, level, mayAdd)
  PROVE  Settled(m)
<1> DEFINE current == Size(position[k][1])
           want == Wanted(s.campaign, current)
           after == IF s.campaign = None \/ current = 0 THEN s
                    ELSE [s EXCEPT !.campaign.staged = FALSE, !.campaign.starter = 0]
           more == IF mayAdd /\ want > current THEN want - current ELSE 0
           reduce == [kind |-> "REDUCE", strike |-> k, dir |-> -d, size |-> current - want, legs |-> {1, 2}]
           add == [kind |-> "ADD", strike |-> k, dir |-> d, size |-> more, legs |-> {1, 2}]
<1>1. current \in Nat
  BY MatchedType
<1>2. Known(s) /\ Sound(s, m) /\ (s.campaign = None \/ IsCampaign(s.campaign))
  BY DEF Sizable, Sound, Known
<1>3. /\ DOMAIN after = Fields
      /\ Follows(s.campaign, after.campaign)
      /\ s.campaign # None => after.campaign.target = s.campaign.target
      /\ after.used = s.used /\ after.confirmation = s.confirmation
      /\ after.exiting = s.exiting /\ after.goals = s.goals
  <2>1. CASE s.campaign = None \/ current = 0
    BY <1>2, <2>1, SameFollows DEF Known
  <2>2. CASE ~(s.campaign = None \/ current = 0)
    <3> DEFINE b == [s EXCEPT !.campaign.staged = FALSE, !.campaign.starter = 0]
    <3>1. DOMAIN s = Fields /\ IsCampaign(s.campaign)
      BY <1>2, <2>2 DEF Known
    <3>2. /\ DOMAIN b = Fields
          /\ IsCampaign(b.campaign) /\ Follows(s.campaign, b.campaign)
          /\ b.campaign.target = s.campaign.target
          /\ b.used = s.used /\ b.confirmation = s.confirmation
          /\ b.exiting = s.exiting /\ b.goals = s.goals
      BY <3>1, StagedIs
    <3>3. after = b
      BY <2>2
    <3> HIDE DEF after, b
    <3> QED  BY <3>2, <3>3
  <2> QED  BY <2>1, <2>2
<1> HIDE DEF after
<1>4. Known(after)
  BY <1>2, <1>3, FollowsIs DEF Known
<1>5. /\ s.exiting \subseteq after.exiting /\ after.exiting \subseteq Held
      /\ DOMAIN s.goals \subseteq DOMAIN after.goals /\ DOMAIN after.goals \subseteq Held
      /\ s.used \subseteq after.used
  BY <1>2, <1>3 DEF Sound
<1>6. Sound(after, m)
  BY <1>2, <1>3, <1>4, <1>5, GivingUpMore, Zenon
<1>7. s.campaign # None => /\ want \in Nat /\ want <= s.campaign.target
                           /\ current # 0 => want = s.campaign.target
  BY <1>1, <1>2, WantedIs
<1> HIDE DEF current, want
<1>8. CASE Held # {} /\ current > want
           /\ \E p \in Batch("REDUCE", k, -d, current - want) : Decided(after, p, level)
  <2>1. PICK p : Decided(after, p, level) /\ (p = NoPlan \/ p = reduce)
    BY <1>8 DEF Batch
  <2>2. k \in Held /\ s.campaign # None /\ Balanced(k)
    BY <1>8 DEF Sizable
  <2>3. want = s.campaign.target
    BY <1>1, <1>7, <1>8, <2>2
  <2>4. reduce.kind = "REDUCE" /\ reduce.strike = k /\ reduce.dir \in {-1, 1}
        /\ reduce.size = current - after.campaign.target /\ reduce.size \in Int
        /\ reduce.legs \subseteq {1, 2}
    BY <1>1, <1>3, <1>7, <2>2, <2>3, OppositeDir
  <2>5. after.campaign # None
    BY <1>3, <2>2, FollowsIs
  <2> HIDE DEF reduce
  <2>6. IsOrder(reduce) /\ ReduceFits(after, reduce)
    BY <2>2, <2>4, <2>5 DEF IsOrder, ReduceFits, current
  <2>7. PlanFits(after, reduce, m, reduced \cap Held)
    BY <2>2, <2>4, <2>6 DEF PlanFits
  <2> QED  BY <1>6, <2>1, <2>7, NoPlanFits, DecidedSettles
<1>9. CASE \E p \in Batch("ADD", k, d, more) : Decided(after, p, level)
  <2>1. PICK p : Decided(after, p, level) /\ (p = NoPlan \/ (more # 0 /\ p = add))
    BY <1>9 DEF Batch
  <2>2. ASSUME more # 0 PROVE PlanFits(after, add, m, reduced \cap Held)
    <3>1. mayAdd /\ want > current
      BY <2>2
    <3>2. s.campaign # None /\ k \notin DOMAIN s.goals /\ (Held = {} => m.event \notin s.used)
          /\ s.campaign.strike = k /\ s.exiting = {}
      BY <3>1 DEF Sizable
    <3>3. k \notin reduced \cap Held
      <4> SUFFICES ASSUME k \in reduced \cap Held PROVE FALSE
        OBVIOUS
      <4>1. s.campaign.target <= Matched(k)
        BY <1>2, <3>2 DEF Sound, GivenUp
      <4>2. Matched(k) = current
        BY MatchedType DEF Sizable, current
      <4> QED  BY <1>1, <1>2, <1>7, <3>1, <3>2, <4>1, <4>2 DEF IsCampaign
    <3>4. after.campaign # None /\ after.campaign.strike = k
      BY <1>3, <3>2, FollowsIs DEF Follows
    <3>5. Held = {} => m.event \notin after.used /\ after.campaign.event = m.event
      BY <1>3, <1>6, <3>2, <3>4 DEF Sound
    <3>6. add.kind = "ADD" /\ add.strike = k /\ add.dir \in {-1, 1} /\ add.legs = {1, 2}
          /\ add.size \in Int
      BY <1>1, <1>7, <3>2
    <3> HIDE DEF add
    <3>7. IsOrder(add)
      BY <3>6 DEF IsOrder
    <3>8. AddFits(after, add, m, reduced \cap Held)
      <4>1. Balanced(k)
        BY DEF Sizable, Held, Balanced, Flat
      <4> QED  BY <3>3, <3>4, <3>5, <3>6, <4>1 DEF AddFits
    <3> QED  BY <3>7, <3>8 DEF PlanFits
  <2> QED  BY <1>6, <2>1, <2>2, NoPlanFits, DecidedSettles
<1> QED  BY <1>8, <1>9 DEF Resize, current, want, after

LEMMA BalancedWhenQuiet ==
  ASSUME NEW m, NEW s, Reviewed(s, m), Unmatched = {}, s.exiting = {}
  PROVE  \A j \in Held : Balanced(j)
BY DEF Reviewed, Unmatched, Broken

LEMMA CampaignIs ==
  ASSUME NEW s, DOMAIN s = Fields, NEW c, NEW u
  PROVE  LET t == [s EXCEPT !.campaign = c, !.used = u]
         IN  /\ DOMAIN t = Fields
             /\ t.campaign = c /\ t.used = u
             /\ t.exiting = s.exiting /\ t.goals = s.goals /\ t.confirmation = s.confirmation
BY DEF Fields

(* What is held without a campaign becomes one, of the size it has.        *)
LEMMA AdoptedSound ==
  ASSUME Counted, AtMostOne, NEW m, m.event \in Nat, NEW s, Reviewed(s, m),
         Unmatched = {}, s.exiting = {}, NEW k \in Strikes, Held # {} => k \in Held
  PROVE  LET a == Adopted(s, m, k)
         IN  /\ Sound(a, m) /\ a.exiting = {}
             /\ Held # {} => a.campaign # None
<1>1. CASE ~(Held # {} /\ s.campaign = None)
  <2>1. Adopted(s, m, k) = s
    BY <1>1 DEF Adopted
  <2> QED  BY <1>1, <2>1 DEF Reviewed
<1>2. CASE Held # {} /\ s.campaign = None
  <2> DEFINE a == Adopted(s, m, k)
             c == [event |-> m.event, strike |-> k, dir |-> Side(k),
                   target |-> Size(position[k][1]), staged |-> FALSE, starter |-> 0]
  <2>1. a = [s EXCEPT !.campaign = c, !.used = s.used \cup {m.event}]
    BY <1>2 DEF Adopted, Reviewed, Sound, Known, Fields
  <2>2. Known(s) /\ DOMAIN s = Fields
    BY DEF Reviewed, Sound, Known
  <2>3. /\ DOMAIN a = Fields
        /\ a.campaign = c /\ a.used = s.used \cup {m.event}
        /\ a.exiting = s.exiting /\ a.goals = s.goals /\ a.confirmation = s.confirmation
    BY <2>1, <2>2, CampaignIs
  <2>4. Size(position[k][1]) \in Nat /\ Matched(k) = Size(position[k][1])
    BY <1>2, MatchedType, BalancedWhenQuiet
  <2>5. c.event = m.event /\ c.strike = k /\ c.target = Matched(k) /\ IsCampaign(c)
    BY <2>4, SideType DEF IsCampaign, CampaignFields
  <2> HIDE DEF a, c
  <2>6. Known(a)
    BY <2>2, <2>3, <2>5 DEF Known
  <2>7. OnStrike(a)
    BY <1>2, <2>3, <2>5 DEF OnStrike, AtMostOne
  <2>8. GivenUp(a)
    <3> SUFFICES ASSUME NEW j \in reduced \cap Held PROVE a.campaign.target <= Matched(j)
      BY DEF GivenUp
    <3>1. j = k
      BY <1>2 DEF AtMostOne
    <3> QED  BY <2>3, <2>4, <2>5, <3>1
  <2>9. entered \subseteq a.used /\ a.exiting \subseteq Held /\ DOMAIN a.goals \subseteq Held
    BY <2>3 DEF Reviewed, Sound
  <2>10. Sound(a, m)
    BY <1>2, <2>6, <2>7, <2>8, <2>9 DEF Sound
  <2>11. a.exiting = {} /\ a.campaign # None
    BY <2>3, <2>5, NoneIsNot
  <2> QED  BY <2>10, <2>11 DEF a
<1> QED  BY <1>1, <1>2

LEMMA CappedIs ==
  ASSUME NEW s, DOMAIN s = Fields, NEW cap
  PROVE  LET t == [s EXCEPT !.campaign = Capped(@, cap)]
         IN  /\ DOMAIN t = Fields /\ t.campaign = AtMost(s.campaign, cap)
             /\ t.used = s.used /\ t.exiting = s.exiting /\ t.goals = s.goals
             /\ t.confirmation = s.confirmation
BY DEF Fields, Capped

(* The limits of the moment only shrink the target.                        *)
LEMMA CappedSound ==
  ASSUME Counted, NEW m, NEW s, Sound(s, m), NEW cap \in Nat
  PROVE  LET t == [s EXCEPT !.campaign = Capped(@, cap)]
         IN  /\ Sound(t, m) /\ Follows(s.campaign, t.campaign)
             /\ t.exiting = s.exiting /\ t.goals = s.goals /\ t.used = s.used
<1> DEFINE t == [s EXCEPT !.campaign = Capped(@, cap)]
<1>1. Known(s) /\ DOMAIN s = Fields /\ (s.campaign = None \/ IsCampaign(s.campaign))
  BY DEF Sound, Known
<1>2. /\ DOMAIN t = Fields /\ t.campaign = AtMost(s.campaign, cap)
      /\ t.used = s.used /\ t.exiting = s.exiting /\ t.goals = s.goals
      /\ t.confirmation = s.confirmation
  BY <1>1, CappedIs
<1> HIDE DEF t
<1>3. Follows(s.campaign, t.campaign)
  BY <1>1, <1>2, AtMostIs
<1>4. Known(t)
  BY <1>1, <1>2, <1>3, FollowsIs DEF Known
<1>5. /\ s.exiting \subseteq t.exiting /\ t.exiting \subseteq Held
      /\ DOMAIN s.goals \subseteq DOMAIN t.goals /\ DOMAIN t.goals \subseteq Held
      /\ s.used \subseteq t.used
  BY <1>2 DEF Sound
<1>6. Sound(t, m)
  BY <1>1, <1>3, <1>4, <1>5, GivingUpMore, Zenon
<1> QED  BY <1>2, <1>3, <1>6 DEF t

LEMMA RenamedIs ==
  ASSUME NEW s, DOMAIN s = Fields, IsCampaign(s.campaign), NEW e \in Nat, NEW u
  PROVE  LET t == [s EXCEPT !.campaign.event = e, !.used = u]
         IN  /\ DOMAIN t = Fields /\ IsCampaign(t.campaign)
             /\ t.campaign.strike = s.campaign.strike /\ t.campaign.target = s.campaign.target
             /\ t.campaign.dir = s.campaign.dir
             /\ t.used = u /\ t.exiting = s.exiting /\ t.goals = s.goals
             /\ t.confirmation = s.confirmation
<1> DEFINE c == [s.campaign EXCEPT !.event = e]
           t == [s EXCEPT !.campaign.event = e, !.used = u]
<1>1. t = [s EXCEPT !.campaign = c, !.used = u]
  BY DEF Fields
<1>2. /\ DOMAIN t = Fields /\ t.campaign = c /\ t.used = u
      /\ t.exiting = s.exiting /\ t.goals = s.goals /\ t.confirmation = s.confirmation
  BY <1>1, CampaignIs
<1>3. IsCampaign(c) /\ c.strike = s.campaign.strike /\ c.target = s.campaign.target
      /\ c.dir = s.campaign.dir
  BY DEF IsCampaign, CampaignFields
<1> HIDE DEF t, c
<1>4. /\ DOMAIN t = Fields /\ IsCampaign(t.campaign)
      /\ t.campaign.strike = s.campaign.strike /\ t.campaign.target = s.campaign.target
      /\ t.campaign.dir = s.campaign.dir
      /\ t.used = u /\ t.exiting = s.exiting /\ t.goals = s.goals
      /\ t.confirmation = s.confirmation
  BY <1>2, <1>3
<1> QED  BY <1>4 DEF t

(* A newer release changes the event of a campaign, and nothing else.      *)
LEMMA TakenOverSound ==
  ASSUME Counted, NEW m, m.event \in Nat, NEW s, Sound(s, m), Held # {} => s.campaign # None,
         NEW sig, NEW d
  PROVE  LET t == TakenOver(s, m, sig, d)
         IN  /\ Sound(t, m)
             /\ s.campaign = None <=> t.campaign = None
             /\ s.campaign # None => /\ t.campaign.strike = s.campaign.strike
                                     /\ t.campaign.dir = s.campaign.dir
             /\ t.exiting = s.exiting /\ t.goals = s.goals
             /\ Held = {} => t.used = s.used
<1> DEFINE t == TakenOver(s, m, sig, d)
           b == [s EXCEPT !.campaign.event = m.event, !.used = s.used \cup {m.event}]
<1>1. Known(s) /\ DOMAIN s = Fields /\ (s.campaign = None \/ IsCampaign(s.campaign))
  BY DEF Sound, Known
<1>2. t = s \/ (Held # {} /\ t = b)
  BY <1>1 DEF TakenOver, Fields
<1> HIDE DEF t
<1>3. CASE t = s
  BY <1>3 DEF t
<1>4. CASE Held # {} /\ t = b
  <2>1. IsCampaign(s.campaign)
    BY <1>1, <1>4
  <2>2. /\ DOMAIN b = Fields /\ IsCampaign(b.campaign)
        /\ b.campaign.strike = s.campaign.strike /\ b.campaign.target = s.campaign.target
        /\ b.campaign.dir = s.campaign.dir
        /\ b.used = s.used \cup {m.event} /\ b.exiting = s.exiting /\ b.goals = s.goals
        /\ b.confirmation = s.confirmation
    BY <1>1, <2>1, RenamedIs
  <2> HIDE DEF b
  <2>3. Known(t)
    BY <1>1, <1>4, <2>2 DEF Known
  <2>4. /\ s.exiting \subseteq t.exiting /\ t.exiting \subseteq Held
        /\ DOMAIN s.goals \subseteq DOMAIN t.goals /\ DOMAIN t.goals \subseteq Held
        /\ s.used \subseteq t.used
    BY <1>4, <2>2 DEF Sound
  <2>5. t.campaign.target <= s.campaign.target
    BY <1>4, <2>1, <2>2 DEF IsCampaign
  <2>6. Held # {} /\ s.campaign # None /\ IsCampaign(t.campaign)
        /\ t.campaign.strike = s.campaign.strike
    BY <1>4, <2>2
  <2>7. Sound(t, m)
    BY <1>1, <2>3, <2>4, <2>5, <2>6, GivingUpMore, Zenon
  <2>8. t.campaign # None
    BY <2>6, NoneIsNot
  <2> QED  BY <1>4, <2>2, <2>6, <2>7, <2>8 DEF t
<1> QED  BY <1>2, <1>3, <1>4

LEMMA ConfirmationIs ==
  ASSUME NEW s, DOMAIN s = Fields, NEW c
  PROVE  LET t == [s EXCEPT !.confirmation = c]
         IN  /\ DOMAIN t = Fields /\ t.confirmation = c
             /\ t.campaign = s.campaign /\ t.used = s.used
             /\ t.exiting = s.exiting /\ t.goals = s.goals
BY DEF Fields

LEMMA ConfirmedStrike ==
  ASSUME NEW c, NEW key, key.strike \in Strikes, c # None => c.strike \in Strikes
  PROVE  Confirmed(c, key).strike \in Strikes
BY DEF Confirmed

LEMMA OpenedIs ==
  ASSUME NEW s, DOMAIN s = Fields, NEW c, NEW d
  PROVE  LET t == [s EXCEPT !.confirmation = c, !.campaign = d]
         IN  /\ DOMAIN t = Fields /\ t.confirmation = c
             /\ t.campaign = d /\ t.used = s.used
             /\ t.exiting = s.exiting /\ t.goals = s.goals
BY DEF Fields

(* A new campaign is of the newest release and of the strike chosen.       *)
LEMMA OpenSettles ==
  ASSUME Counted, NEW m, m.event \in Nat, NEW s, Sound(s, m), s.exiting = {},
         Held = {}, s.campaign = None, m.event \notin s.used,
         NEW sig, NEW k \in Strikes, NEW d \in {-1, 1}, NEW level \in Levels,
         Open(s, m, sig, [event |-> m.event, strike |-> k, dir |-> d], level)
  PROVE  Settled(m)
<1> DEFINE key == [event |-> m.event, strike |-> k, dir |-> d]
           c == Confirmed(s.confirmation, key)
<1>1. PICK campaign \in Openings(c, m, sig, key) :
        Resize([s EXCEPT !.confirmation = c, !.campaign = campaign], k, d, level, campaign # None)
  BY DEF Open
<1> DEFINE t == [s EXCEPT !.confirmation = c, !.campaign = campaign]
<1>2. DOMAIN s = Fields /\ Known(s)
  BY DEF Sound, Known
<1>3. key.strike \in Strikes /\ key.event = m.event /\ key.strike = k /\ key.dir = d
  OBVIOUS
<1> HIDE DEF key
<1>4. c.strike \in Strikes
  BY <1>2, <1>3, ConfirmedStrike DEF Known
<1>5. campaign = None \/ (IsCampaign(campaign) /\ campaign.event = m.event /\ campaign.strike = k)
  <2> SUFFICES ASSUME campaign # None
               PROVE  IsCampaign(campaign) /\ campaign.event = m.event /\ campaign.strike = k
    OBVIOUS
  <2> DEFINE staged == m.exact /\ Edge(sig, key.dir) > 40
  <2>1. campaign \in {[event |-> key.event, strike |-> key.strike, dir |-> key.dir,
                       target |-> n, staged |-> staged, starter |-> b] :
                         n \in 0..MaxSize, b \in IF staged THEN 1..MaxSize ELSE {0}}
    BY <1>1 DEF Openings
  <2> HIDE DEF staged
  <2>2. PICK n \in 0..MaxSize, b \in IF staged THEN 1..MaxSize ELSE {0} :
          campaign = [event |-> key.event, strike |-> key.strike, dir |-> key.dir,
                      target |-> n, staged |-> staged, starter |-> b]
    BY <2>1, SMT
  <2>3. n \in Nat /\ b \in Nat
    BY CampaignAssumption
  <2> QED  BY <1>3, <2>2, <2>3 DEF IsCampaign, CampaignFields
<1> HIDE DEF c
<1>6. /\ DOMAIN t = Fields /\ t.confirmation = c
      /\ t.campaign = campaign /\ t.used = s.used
      /\ t.exiting = s.exiting /\ t.goals = s.goals
  BY <1>2, OpenedIs
<1> HIDE DEF t
<1>7. Known(t)
  BY <1>2, <1>4, <1>5, <1>6 DEF Known
<1>8. OnStrike(t) /\ GivenUp(t)
  BY DEF OnStrike, GivenUp
<1>9. entered \subseteq t.used /\ t.exiting \subseteq Held /\ DOMAIN t.goals \subseteq Held
      /\ (t.campaign # None => t.campaign.event = m.event)
  BY <1>5, <1>6 DEF Sound
<1>10. Sound(t, m)
  BY <1>7, <1>8, <1>9 DEF Sound
<1>11. Sizable(t, m, k, campaign # None)
  BY <1>5, <1>6, <1>9, <1>10 DEF Sizable
<1>12. Resize(t, k, d, level, campaign # None)
  BY <1>1 DEF t
<1>13. (campaign # None) \in BOOLEAN
  OBVIOUS
<1> QED  BY <1>11, <1>12, <1>13, ResizeSettles

LEMMA SignalDir ==
  ASSUME NEW q \in [Strikes -> Signals], NEW k \in Strikes
  PROVE  q[k].dir \in {-1, 1}
<1>1. q[k].dir \in {Direction[x] : x \in Sides}
  BY DEF Signals
<1> QED  BY <1>1, CampaignAssumption DEF Direction

LEMMA TradeSettles ==
  ASSUME Counted, AtMostOne, NEW m, m.event \in Nat, NEW s, Reviewed(s, m),
         Unmatched = {}, s.exiting = {}, NEW choice \in Strikes, Held # {} => choice \in Held,
         NEW q \in [Strikes -> Signals], NEW level \in Levels, Trade(s, q, m, level, choice)
  PROVE  Settled(m)
<1>1. PICK a \in {Adopted(s, m, choice)} :
      \E cap \in IF a.campaign = None THEN {0} ELSE 0..MaxSize :
      \E r \in {[a EXCEPT !.campaign = Capped(@, cap)]} :
        LET k == IF a.campaign = None THEN choice ELSE a.campaign.strike
            d == IF a.campaign = None THEN q[k].dir ELSE a.campaign.dir
        IN \E t \in {TakenOver(r, m, q[k], d)} :
           IF Blocked(r, m, k, q[k], d, level)
           THEN Resize([t EXCEPT !.confirmation = None], k, d, level, FALSE)
           ELSE IF t.campaign # None
           THEN Resize(t, k, d, level, TRUE)
           ELSE Open(t, m, q[k], [event |-> m.event, strike |-> k, dir |-> d], level)
  BY DEF Trade
<1>2. PICK cap \in IF a.campaign = None THEN {0} ELSE 0..MaxSize :
      \E r \in {[a EXCEPT !.campaign = Capped(@, cap)]} :
        LET k == IF a.campaign = None THEN choice ELSE a.campaign.strike
            d == IF a.campaign = None THEN q[k].dir ELSE a.campaign.dir
        IN \E t \in {TakenOver(r, m, q[k], d)} :
           IF Blocked(r, m, k, q[k], d, level)
           THEN Resize([t EXCEPT !.confirmation = None], k, d, level, FALSE)
           ELSE IF t.campaign # None
           THEN Resize(t, k, d, level, TRUE)
           ELSE Open(t, m, q[k], [event |-> m.event, strike |-> k, dir |-> d], level)
  BY <1>1
<1>3. PICK r \in {[a EXCEPT !.campaign = Capped(@, cap)]} :
        LET k == IF a.campaign = None THEN choice ELSE a.campaign.strike
            d == IF a.campaign = None THEN q[k].dir ELSE a.campaign.dir
        IN \E t \in {TakenOver(r, m, q[k], d)} :
           IF Blocked(r, m, k, q[k], d, level)
           THEN Resize([t EXCEPT !.confirmation = None], k, d, level, FALSE)
           ELSE IF t.campaign # None
           THEN Resize(t, k, d, level, TRUE)
           ELSE Open(t, m, q[k], [event |-> m.event, strike |-> k, dir |-> d], level)
  BY <1>2
<1> DEFINE k == IF a.campaign = None THEN choice ELSE a.campaign.strike
           d == IF a.campaign = None THEN q[k].dir ELSE a.campaign.dir
           t == TakenOver(r, m, q[k], d)
           u == [t EXCEPT !.confirmation = None]
           open == [event |-> m.event, strike |-> k, dir |-> d]
<1>4. \/ Blocked(r, m, k, q[k], d, level) /\ Resize(u, k, d, level, FALSE)
      \/ ~Blocked(r, m, k, q[k], d, level) /\ t.campaign # None /\ Resize(t, k, d, level, TRUE)
      \/ ~Blocked(r, m, k, q[k], d, level) /\ t.campaign = None /\ Open(t, m, q[k], open, level)
  BY <1>3
<1>5. Sound(a, m) /\ a.exiting = {} /\ (Held # {} => a.campaign # None)
  BY AdoptedSound
<1>6. cap \in Nat
  BY CampaignAssumption
<1>7. /\ Sound(r, m) /\ Follows(a.campaign, r.campaign)
      /\ r.exiting = a.exiting /\ r.goals = a.goals /\ r.used = a.used
  <2> DEFINE b == [a EXCEPT !.campaign = Capped(@, cap)]
  <2>1. /\ Sound(b, m) /\ Follows(a.campaign, b.campaign)
        /\ b.exiting = a.exiting /\ b.goals = a.goals /\ b.used = a.used
    BY <1>5, <1>6, CappedSound
  <2>2. r = b
    OBVIOUS
  <2> HIDE DEF b
  <2> QED  BY <2>1, <2>2
<1>8. k \in Strikes /\ d \in {-1, 1}
  <2>1. CASE a.campaign = None
    BY <2>1, SignalDir
  <2>2. CASE a.campaign # None
    BY <1>5, <2>2 DEF Sound, Known, IsCampaign
  <2> QED  BY <2>1, <2>2
<1>9. Held # {} => k \in Held /\ r.campaign # None
  BY <1>5, <1>7, FollowsIs DEF Sound, OnStrike
<1>10. r.campaign # None => r.campaign.strike = k
  BY <1>7, FollowsIs DEF Follows
<1> HIDE DEF k, d
<1>11. /\ Sound(t, m)
       /\ r.campaign = None <=> t.campaign = None
       /\ r.campaign # None => t.campaign.strike = r.campaign.strike
       /\ t.exiting = r.exiting /\ t.goals = r.goals
       /\ Held = {} => t.used = r.used
  BY <1>7, <1>9, TakenOverSound
<1>12. \A j \in Held : Balanced(j)
  BY BalancedWhenQuiet
<1> HIDE DEF t
<1>13. CASE Blocked(r, m, k, q[k], d, level) /\ Resize(u, k, d, level, FALSE)
  <2>1. DOMAIN t = Fields /\ Known(t)
    BY <1>11 DEF Sound, Known
  <2>2. /\ DOMAIN u = Fields /\ u.confirmation = None
        /\ u.campaign = t.campaign /\ u.used = t.used
        /\ u.exiting = t.exiting /\ u.goals = t.goals
    BY <2>1, ConfirmationIs
  <2> HIDE DEF u
  <2>3. Known(u)
    BY <2>1, <2>2 DEF Known
  <2>4. OnStrike(u) /\ GivenUp(u)
    BY <1>11, <2>2 DEF Sound, OnStrike, GivenUp
  <2>5. Sound(u, m)
    BY <1>11, <2>2, <2>3, <2>4 DEF Sound
  <2>6. Sizable(u, m, k, FALSE)
    BY <1>5, <1>7, <1>9, <1>10, <1>11, <1>12, <2>2, <2>5 DEF Sizable
  <2> QED  BY <1>8, <1>13, <2>6, ResizeSettles
<1>14. CASE ~Blocked(r, m, k, q[k], d, level) /\ t.campaign # None /\ Resize(t, k, d, level, TRUE)
  <2>1. k \notin DOMAIN t.goals /\ (Held = {} => m.event \notin t.used)
    BY <1>11, <1>14 DEF Blocked, AlreadyTraded
  <2>2. Sizable(t, m, k, TRUE)
    BY <1>5, <1>7, <1>9, <1>10, <1>11, <1>12, <1>14, <2>1 DEF Sizable
  <2> QED  BY <1>8, <1>14, <2>2, ResizeSettles
<1>15. CASE ~Blocked(r, m, k, q[k], d, level) /\ t.campaign = None /\ Open(t, m, q[k], open, level)
  <2>1. Held = {} /\ m.event \notin t.used /\ t.exiting = {}
    BY <1>5, <1>7, <1>9, <1>11, <1>15 DEF Blocked, AlreadyTraded
  <2> QED  BY <1>8, <1>11, <1>15, <2>1, OpenSettles
<1> QED  BY <1>4, <1>13, <1>14, <1>15

(***************************************************************************)
(* The invariant holds of every step.                                      *)
(***************************************************************************)
LEMMA EvaluateSettles ==
  ASSUME IInv, NEW news, NEW m, m.event \in Nat, NEW q, NEW priced,
         priced => q \in [Strikes -> Signals], NEW level \in Levels,
         Evaluate(news, m, q, priced, level)
  PROVE  Settled(m)
<1> DEFINE new == news # "NOTHING" /\ self.seen
           s == Review(Notice(self, m, new), q, m, new, priced)
<1>1. PICK t \in {s} :
        \/ Repair(t, level)
        \/ Exit(t, priced, level)
        \/ ScaleOut(t, priced, level)
        \/ Decided(t, NoPlan, level)
        \/ /\ Unmatched = {} /\ t.exiting = {} /\ priced
           /\ \E k \in Subjects(q, m) : Trade(t, q, m, level, k)
  BY DEF Evaluate
<1>2. Reviewed(t, m)
  BY ReviewReviewed
<1> HIDE DEF s
<1>3. Counted /\ AtMostOne /\ Sound(t, m)
  BY <1>2 DEF IInv, Reviewed
<1>4. CASE Repair(t, level)
  BY <1>2, <1>3, <1>4, RepairSettles
<1>5. CASE Exit(t, priced, level)
  BY <1>2, <1>3, <1>5, ExitSettles
<1>6. CASE ScaleOut(t, priced, level)
  BY <1>2, <1>3, <1>6, ScaleOutSettles
<1>7. CASE Decided(t, NoPlan, level)
  BY <1>3, <1>7, NoPlanFits, DecidedSettles
<1>8. CASE /\ Unmatched = {} /\ t.exiting = {} /\ priced
           /\ \E k \in Subjects(q, m) : Trade(t, q, m, level, k)
  <2>1. PICK k \in Subjects(q, m) : Trade(t, q, m, level, k)
    BY <1>8
  <2>2. k \in Strikes /\ (Held # {} => k \in Held)
    <3>1. CASE Held # {}
      BY <3>1 DEF Subjects, Held
    <3>2. CASE Held = {}
      <4>1. k \in Choices(q, m)
        BY <3>2 DEF Subjects
      <4>2. CASE Pending(q, m)
        <5>1. k = self.confirmation.strike /\ self.confirmation # None
          BY <4>1, <4>2 DEF Choices, Pending
        <5> QED  BY <3>2, <5>1 DEF IInv, Known
      <4>3. CASE ~Pending(q, m)
        BY <3>2, <4>1, <4>3 DEF Choices
      <4> QED  BY <4>2, <4>3
    <3> QED  BY <3>1, <3>2
  <2> QED  BY <1>2, <1>3, <1>8, <2>1, <2>2, TradeSettles
<1> QED  BY <1>1, <1>4, <1>5, <1>6, <1>7, <1>8

LEMMA SettledKeeps ==
  ASSUME IInv, NEW m, m.event \in Nat, Settled(m), model' = m, reduced' = reduced \cap Held,
         UNCHANGED <<position, entered>>
  PROVE  IInv'
<1>1. Held' = Held
  BY DEF Held
<1>2. \A k : Matched(k)' = Matched(k) /\ (Balanced(k)' <=> Balanced(k))
  BY DEF Matched, Balanced
<1>3. Sound(self', m)
  BY DEF Settled
<1>4. Known(self') /\ Counted' /\ AtMostOne'
  BY <1>1, <1>3 DEF IInv, Sound, Counted, AtMostOne
<1>5. OnStrike(self)'
  BY <1>1, <1>3 DEF Sound, OnStrike
<1>6. GivenUp(self)'
  BY <1>1, <1>2, <1>3 DEF Sound, GivenUp
<1>7. Marked'
  BY <1>3 DEF Sound, Marked
<1>8. PlanFits(self, plan, model, reduced)'
  <2>1. PlanFits(self', plan', m, reduced')
    BY DEF Settled
  <2>2. AddFits(self', plan', m, reduced') => AddFits(self, plan, model, reduced)'
    BY <1>1, <1>2 DEF AddFits
  <2>3. LeaveFits(self', plan') => LeaveFits(self, plan)'
    BY DEF LeaveFits
  <2>4. TrimFits(self', plan') => TrimFits(self, plan)'
    BY <1>2 DEF TrimFits
  <2>5. ReduceFits(self', plan') => ReduceFits(self, plan)'
    BY <1>2 DEF ReduceFits
  <2>6. PairFits(self', plan', m, reduced') => PairFits(self, plan, model, reduced)'
    BY <1>1 DEF PairFits
  <2> QED  BY <1>1, <2>1, <2>2, <2>3, <2>4, <2>5, <2>6 DEF PlanFits
<1>9. Known(self)' /\ (model.event \in Nat)'
  BY <1>4 DEF Known
<1> QED  BY <1>4, <1>5, <1>6, <1>7, <1>8, <1>9 DEF IInv

LEMMA PollKeeps == IInv /\ Poll => IInv'
<1> SUFFICES ASSUME IInv, Poll PROVE IInv'
  OBVIOUS
<1>1. PICK news \in {"RELEASE", "LATE", "NOTHING"} : \E m \in Updates(news), level \in Levels :
        \/ \E q \in [Strikes -> Signals] : Evaluate(news, m, q, m.event > 0, level)
        \/ Evaluate(news, m, <<>>, FALSE, level)
  BY DEF Poll
<1>2. PICK m \in Updates(news), level \in Levels :
        \/ \E q \in [Strikes -> Signals] : Evaluate(news, m, q, m.event > 0, level)
        \/ Evaluate(news, m, <<>>, FALSE, level)
  BY <1>1
<1>3. m.event \in Nat
  <2>1. model.event \in Nat
    BY DEF IInv
  <2>2. m = model \/ m.event = model.event + 1
    BY DEF Updates
  <2> QED  BY <2>1, <2>2
<1>4. ASSUME NEW q, NEW priced, priced => q \in [Strikes -> Signals],
             Evaluate(news, m, q, priced, level)
      PROVE  IInv'
  <2>1. Settled(m)
    BY <1>3, <1>4, EvaluateSettles
  <2>2. model' = m /\ reduced' = reduced \cap Held /\ UNCHANGED <<position, entered>>
    BY <1>4 DEF Evaluate
  <2> QED  BY <1>3, <2>1, <2>2, SettledKeeps
<1>5. ASSUME NEW q \in [Strikes -> Signals], Evaluate(news, m, q, m.event > 0, level)
      PROVE  IInv'
  BY <1>4, <1>5
<1>6. CASE Evaluate(news, m, <<>>, FALSE, level)
  BY <1>4, <1>6
<1> QED  BY <1>2, <1>5, <1>6

(* Fills of one strike change its legs only, and nothing of any other.     *)
LEMMA FilledIs ==
  ASSUME Counted, NEW n, n[1] \in Int, n[2] \in Int, IsOrder(plan), position' = Filled(n)
  PROVE  /\ Counted'
         /\ Held' \subseteq Held \cup {plan.strike} /\ Held \subseteq Held' \cup {plan.strike}
         /\ \A j \in Strikes \ {plan.strike} : Matched(j)' = Matched(j)
         /\ \A j \in Strikes \ {plan.strike} : position'[j] = position[j]
         /\ \A i \in {1, 2} : position'[plan.strike][i] =
              IF i \in plan.legs THEN position[plan.strike][i] + plan.dir * n[i]
              ELSE position[plan.strike][i]
<1> DEFINE k == plan.strike
           filled == [i \in {1, 2} |-> IF i \in plan.legs THEN position[k][i] + plan.dir * n[i]
                                       ELSE position[k][i]]
<1>1. k \in Strikes /\ plan.dir \in Int /\ DOMAIN position = Strikes
      /\ \A j \in Strikes, i \in {1, 2} : position[j][i] \in Int
  BY DEF IsOrder, Counted
<1>2. position' = [position EXCEPT ![k] = filled]
  BY DEF Filled
<1>3. \A i \in {1, 2} : filled[i] = IF i \in plan.legs THEN position[k][i] + plan.dir * n[i]
                                    ELSE position[k][i]
  OBVIOUS
<1>4. \A i \in {1, 2} : filled[i] \in Int
  <2> SUFFICES ASSUME NEW i \in {1, 2} PROVE filled[i] \in Int
    OBVIOUS
  <2>1. n[i] \in Int /\ position[k][i] \in Int
    BY <1>1
  <2>2. position[k][i] + plan.dir * n[i] \in Int
    BY <1>1, <2>1
  <2> QED  BY <1>3, <2>1, <2>2
<1> HIDE DEF filled
<1>5. DOMAIN position' = Strikes /\ position'[k] = filled
      /\ \A j \in Strikes \ {k} : position'[j] = position[j]
  BY <1>1, <1>2
<1>6. Counted'
  BY <1>1, <1>4, <1>5 DEF Counted, filled
<1>7. Held' \subseteq Held \cup {k} /\ Held \subseteq Held' \cup {k}
  BY <1>5 DEF Held
<1>8. \A j \in Strikes \ {k} : Matched(j)' = Matched(j)
  BY <1>5 DEF Matched
<1> QED  BY <1>3, <1>5, <1>6, <1>7, <1>8

LEMMA ExecuteKeeps == IInv /\ Execute => IInv'
<1> SUFFICES ASSUME IInv, Execute PROVE IInv'
  OBVIOUS
<1>0. PICK k : k = plan.strike
  OBVIOUS
<1>1. PICK n \in (0..plan.size) \X (0..plan.size) :
        /\ \A i \in {1, 2} \ plan.legs : n[i] = 0
        /\ position' = Filled(n)
        /\ reduced' = IF n # <<0, 0>> THEN reduced \cup {plan.strike} ELSE reduced
  BY DEF Execute
<1>2. /\ plan.kind \in {"EXIT", "LEG", "TRIM", "SCALE", "REDUCE"}
      /\ plan' = NoPlan /\ UNCHANGED <<model, self, entered>>
  BY DEF Execute
<1>3. /\ IsOrder(plan)
      /\ k \in Held /\ (LeaveFits(self, plan) \/ TrimFits(self, plan) \/ ReduceFits(self, plan))
  <2>1. ~AddFits(self, plan, model, reduced) /\ ~PairFits(self, plan, model, reduced)
    BY <1>2 DEF AddFits, PairFits
  <2> QED  BY <1>0, <1>2, <2>1 DEF IInv, PlanFits, NoPlan
<1>4. n[1] \in 0..plan.size /\ n[2] \in 0..plan.size /\ n = <<n[1], n[2]>> /\ plan.size \in Int
  BY <1>1, <1>3 DEF IsOrder
<1>5. k \in Strikes /\ plan.dir \in {-1, 1}
  BY <1>0, <1>3 DEF IsOrder
<1>6. Counted
  BY DEF IInv
<1>7. /\ Counted'
      /\ \A j \in Strikes \ {k} : position'[j] = position[j]
      /\ \A i \in {1, 2} : position'[k][i] =
           IF i \in plan.legs THEN position[k][i] + plan.dir * n[i] ELSE position[k][i]
  BY <1>0, <1>1, <1>3, <1>4, <1>6, FilledIs
<1>8. Held' \subseteq Held \cup {k}
  BY <1>0, <1>1, <1>3, <1>4, <1>6, FilledIs
<1>9. \A j \in Strikes \ {k} : Matched(j)' = Matched(j)
  BY <1>0, <1>1, <1>3, <1>4, <1>6, FilledIs
<1>10. Known(self)' /\ (model.event \in Nat)'
  BY <1>2 DEF IInv, Known
<1>11. PlanFits(self, plan, model, reduced)'
  BY <1>2 DEF PlanFits
<1>12. self.campaign # None => \A j \in Held : j = self.campaign.strike
  BY DEF IInv, OnStrike
<1>13. IInv'
  <2>1. Held' \subseteq Held
    BY <1>3, <1>8
  <2>2. AtMostOne' /\ OnStrike(self)'
    BY <1>2, <1>12, <2>1 DEF IInv, AtMostOne, OnStrike
  <2>3. Marked'
    <3>1. entered' = entered
      BY <1>2
    <3>2. entered \subseteq self.used
      BY <1>2 DEF IInv, Marked, NoPlan
    <3> QED  BY <1>2, <3>1, <3>2 DEF Marked
  <2>4. Size(position[k][1]) \in Nat /\ Size(position[k][2]) \in Nat /\ Matched(k) \in Nat
    BY <1>5, <1>6, MatchedType
  <2>5. \/ k \in self.exiting
        \/ k \in DOMAIN self.goals
        \/ self.campaign # None => self.campaign.target <= Matched(k)'
    <3>1. CASE LeaveFits(self, plan)
      BY <1>0, <3>1 DEF LeaveFits
    <3>2. ASSUME self.campaign # None,
                 \A i \in {1, 2} : Size(position'[k][i]) >= self.campaign.target
          PROVE  self.campaign.target <= Matched(k)'
      <4>1. self.campaign.target \in Int
        BY <3>2 DEF IInv, Known, IsCampaign
      <4>2. \A i \in {1, 2} : position'[k][i] \in Int
        BY <1>5, <1>7 DEF Counted
      <4>3. \A i \in {1, 2} : Size(position'[k][i]) \in Int
        BY <4>2, SizeType
      <4>4. Matched(k)' = Least(Size(position'[k][1]), Size(position'[k][2]))
        BY DEF Matched
      <4> QED  BY <3>2, <4>1, <4>3, <4>4 DEF Least
    <3>3. CASE TrimFits(self, plan)
      <4> SUFFICES ASSUME self.campaign # None, NEW i \in {1, 2}
                   PROVE  Size(position'[k][i]) >= self.campaign.target
        BY <3>2
      <4>1. self.campaign.target \in Int /\ self.campaign.target <= Matched(k)
        BY <1>0, <3>3 DEF TrimFits, IInv, Known, IsCampaign
      <4>2. PICK l \in {1, 2} : plan.legs = {l} /\ plan.size = Size(position[k][l]) - Matched(k)
        BY <1>0, <3>3 DEF TrimFits
      <4>3. position[k][i] \in Int /\ Size(position[k][i]) \in Int /\ Matched(k) <= Size(position[k][i])
        BY <1>5, <1>6, MatchedType DEF Counted
      <4>4. CASE i = l
        <5>1. n[i] \in 0..(Size(position[k][i]) - Matched(k))
          BY <1>4, <4>2, <4>4
        <5>2. Size(position[k][i] + plan.dir * n[i]) >= Matched(k)
              /\ position[k][i] + plan.dir * n[i] \in Int
          <6>1. Matched(k) \in Int
            BY <2>4
          <6> QED  BY <1>5, <4>3, <5>1, <6>1, SizeAfterFill
        <5>3. position'[k][i] = position[k][i] + plan.dir * n[i]
          BY <1>7, <4>2, <4>4
        <5>4. Size(position'[k][i]) >= Matched(k) /\ Size(position'[k][i]) \in Int
          BY <5>2, <5>3, SizeType
        <5> QED  BY <2>4, <4>1, <5>4
      <4>5. CASE i # l
        <5>1. position'[k][i] = position[k][i]
          BY <1>7, <4>2, <4>5
        <5> QED  BY <2>4, <4>1, <4>3, <5>1
      <4> QED  BY <4>4, <4>5
    <3>4. CASE ReduceFits(self, plan)
      <4> SUFFICES ASSUME self.campaign # None, NEW i \in {1, 2}
                   PROVE  Size(position'[k][i]) >= self.campaign.target
        BY <3>2
      <4>1. self.campaign.target \in Int
        BY <3>4 DEF IInv, Known, IsCampaign
      <4>2. position[k][i] \in Int /\ position[k][1] = position[k][i]
            /\ plan.size = Size(position[k][i]) - self.campaign.target
        BY <1>0, <1>5, <1>6, <3>4 DEF ReduceFits, Balanced, Counted
      <4>3. n[i] \in 0..(Size(position[k][i]) - self.campaign.target)
        BY <1>4, <4>2
      <4>4. Size(position[k][i] + plan.dir * n[i]) >= self.campaign.target
        BY <1>5, <4>1, <4>2, <4>3, SizeAfterFill
      <4>5. CASE i \in plan.legs
        BY <1>7, <4>4, <4>5
      <4>6. CASE i \notin plan.legs
        <5>1. n[i] \in 0..plan.size /\ plan.size >= 0
          BY <1>4
        <5> QED  BY <1>7, <2>4, <4>1, <4>2, <4>6, <5>1, SizeType
      <4> QED  BY <4>5, <4>6
    <3> QED  BY <1>3, <3>1, <3>3, <3>4
  <2>6. GivenUp(self)'
    <3> SUFFICES ASSUME NEW j \in reduced' \cap Held'
                 PROVE  \/ j \in self.exiting
                        \/ j \in DOMAIN self.goals
                        \/ self.campaign # None => self.campaign.target <= Matched(j)'
      BY <1>2 DEF GivenUp
    <3>1. CASE j = k
      BY <2>5, <3>1
    <3>2. CASE j # k
      <4>1. j \in reduced \cap Held /\ j \in Strikes
        BY <1>0, <1>1, <2>1, <3>2 DEF Held
      <4>2. Matched(j)' = Matched(j)
        BY <1>9, <3>2, <4>1
      <4> QED  BY <4>1, <4>2 DEF IInv, GivenUp
    <3> QED  BY <3>1, <3>2
  <2> QED  BY <1>7, <1>10, <1>11, <2>2, <2>3, <2>6 DEF IInv
<1> QED  BY <1>13

(* What neither leg of an entry disturbs.                                  *)
LEMMA EntryKeeps ==
  ASSUME IInv, NEW n, n[1] \in Int, n[2] \in Int, IsOrder(plan), position' = Filled(n),
         self.campaign # None, plan.strike = self.campaign.strike, plan.strike \notin reduced,
         UNCHANGED <<model, self, reduced>>
  PROVE  /\ Known(self)' /\ Counted' /\ AtMostOne' /\ (model.event \in Nat)'
         /\ OnStrike(self)' /\ GivenUp(self)'
<1> DEFINE k == plan.strike
<1>1. Counted
  BY DEF IInv
<1>2. /\ Counted' /\ Held' \subseteq Held \cup {k} /\ Held \subseteq Held' \cup {k}
      /\ \A j \in Strikes \ {k} : Matched(j)' = Matched(j)
  BY <1>1, FilledIs
<1>3. \A j \in Held : j = k
  BY DEF IInv, OnStrike
<1>4. AtMostOne' /\ OnStrike(self)'
  BY <1>2, <1>3 DEF AtMostOne, OnStrike
<1>5. GivenUp(self)'
  BY <1>2, <1>3 DEF GivenUp
<1>6. Known(self)' /\ (model.event \in Nat)'
  BY DEF IInv, Known
<1> QED  BY <1>2, <1>4, <1>5, <1>6

(* A strike is flat if and only if both of its legs are.                   *)
LEMMA FlatIs ==
  ASSUME Counted, NEW k \in Strikes
  PROVE  k \in Held <=> position[k][1] # 0 \/ position[k][2] # 0
<1>1. position[k] \in [{1, 2} -> Int] /\ Flat \in [{1, 2} -> Int] /\ Flat[1] = 0 /\ Flat[2] = 0
  BY DEF Counted, Flat
<1> QED  BY <1>1 DEF Held

(* The first leg of an entry.                                              *)
LEMMA OpenPairKeeps == IInv /\ OpenPair => IInv'
<1> SUFFICES ASSUME IInv, OpenPair PROVE IInv'
  OBVIOUS
<1> DEFINE k == plan.strike
<1>1. plan.kind = "ADD" /\ UNCHANGED <<model, self, entered, reduced>>
  BY DEF OpenPair
<1>2. IsOrder(plan) /\ AddFits(self, plan, model, reduced)
  BY <1>1 DEF IInv, PlanFits, NoPlan, PairFits, LeaveFits, TrimFits, ReduceFits
<1>3. PICK first \in {1, 2}, n \in 0..plan.size :
        /\ position' = Filled([i \in {1, 2} |-> IF i = first THEN n ELSE 0])
        /\ plan' = IF n = 0 THEN NoPlan ELSE Pair(first, n)
  BY DEF OpenPair
<1> DEFINE f == [i \in {1, 2} |-> IF i = first THEN n ELSE 0]
<1>4. n \in Int /\ f[1] \in Int /\ f[2] \in Int /\ \A i \in {1, 2} \ {first} : f[i] = 0
  BY <1>2 DEF IsOrder
<1>5. /\ k \in Strikes /\ self.campaign # None /\ k = self.campaign.strike /\ k \notin reduced
      /\ plan.legs = {1, 2} /\ plan.dir \in {-1, 1} /\ Balanced(k)
      /\ Held = {} => model.event \notin self.used /\ self.campaign.event = model.event
  BY <1>2 DEF IsOrder, AddFits
<1> HIDE DEF f
<1>6. position' = Filled(f)
  BY <1>3 DEF f
<1>7. /\ Known(self)' /\ Counted' /\ AtMostOne' /\ (model.event \in Nat)'
      /\ OnStrike(self)' /\ GivenUp(self)'
  BY <1>1, <1>2, <1>4, <1>5, <1>6, EntryKeeps
<1>8. Counted /\ \A i \in {1, 2} : position'[k][i] = position[k][i] + plan.dir * f[i]
  <2>1. Counted
    BY DEF IInv
  <2> QED  BY <1>2, <1>4, <1>5, <1>6, <2>1, FilledIs
<1>9. Held # {} => Held' # {}
  <2> SUFFICES ASSUME Held # {} PROVE k \in Held'
    OBVIOUS
  <2>1. k \in Held
    BY <1>5 DEF IInv, OnStrike
  <2>2. position[k][1] # 0 /\ position[k][2] # 0 /\ \A i \in {1, 2} : position[k][i] \in Int
    BY <1>5, <1>8, <2>1, FlatIs DEF Balanced, Counted
  <2>3. PICK i \in {1, 2} \ {first} : TRUE
    BY <1>3
  <2>4. position'[k][i] = position[k][i] + plan.dir * 0
    BY <1>4, <1>8, <2>3
  <2>5. position'[k][i] # 0
    BY <1>5, <2>2, <2>3, <2>4
  <2>6. position'[k] \in [{1, 2} -> Int] /\ Flat[i] = 0
    BY <1>5, <1>7, <2>3 DEF Counted, Flat
  <2> QED  BY <1>5, <2>5, <2>6 DEF Held
<1>10. entered \subseteq self.used
  BY <1>1 DEF IInv, Marked, NoPlan
<1>11. Marked'
  BY <1>1, <1>10 DEF Marked
<1>12. PlanFits(self, plan, model, reduced)'
  <2>1. CASE n = 0
    BY <1>3, <2>1 DEF PlanFits
  <2>2. CASE n # 0
    <3>1. plan' = Pair(first, n)
      BY <1>3, <2>2
    <3>2. IsOrder(plan)'
      BY <1>4, <1>5, <3>1 DEF IsOrder, Pair
    <3>3. PairFits(self, plan, model, reduced)'
      BY <1>1, <1>3, <1>5, <1>9, <3>1 DEF PairFits, Pair
    <3> QED  BY <3>2, <3>3 DEF PlanFits
  <2> QED  BY <2>1, <2>2
<1> QED  BY <1>7, <1>11, <1>12 DEF IInv

(* Its second leg, and the rollback of the first.                          *)
LEMMA DrainPairKeeps == IInv /\ DrainPair => IInv'
<1> SUFFICES ASSUME IInv, DrainPair PROVE IInv'
  OBVIOUS
<1>1. /\ plan.kind = "PAIR" /\ plan' = NoPlan /\ UNCHANGED <<model, self, reduced>>
      /\ entered' = IF plan.before = {} /\ Held' # {} THEN entered \cup {model.event} ELSE entered
  BY DEF DrainPair
<1>2. IsOrder(plan) /\ PairFits(self, plan, model, reduced)
  BY <1>1 DEF IInv, PlanFits, NoPlan, AddFits, LeaveFits, TrimFits, ReduceFits
<1>3. PICK second \in 0..plan.size :
        position' = Filled([i \in {1, 2} |-> IF i = plan.first THEN second - plan.size ELSE second])
  BY DEF DrainPair
<1> DEFINE f == [i \in {1, 2} |-> IF i = plan.first THEN second - plan.size ELSE second]
<1>4. f[1] \in Int /\ f[2] \in Int
  BY <1>2 DEF IsOrder
<1>5. /\ self.campaign # None /\ plan.strike = self.campaign.strike /\ plan.strike \notin reduced
      /\ plan.before = {} => self.campaign.event = model.event
  BY <1>2 DEF PairFits
<1> HIDE DEF f
<1>6. position' = Filled(f)
  BY <1>3 DEF f
<1>7. /\ Known(self)' /\ Counted' /\ AtMostOne' /\ (model.event \in Nat)'
      /\ OnStrike(self)' /\ GivenUp(self)'
  BY <1>1, <1>2, <1>4, <1>5, <1>6, EntryKeeps
<1>8. entered \subseteq self.used
  BY <1>1 DEF IInv, Marked, NoPlan
<1>9. Marked'
  BY <1>1, <1>5, <1>8 DEF Marked
<1>10. PlanFits(self, plan, model, reduced)'
  BY <1>1 DEF PlanFits
<1> QED  BY <1>7, <1>9, <1>10 DEF IInv

LEMMA RestKeeps == IInv /\ (Hedge \/ TickAdvances \/ UNCHANGED vars) => IInv'
<1> SUFFICES ASSUME IInv, Hedge \/ TickAdvances \/ UNCHANGED vars PROVE IInv'
  OBVIOUS
<1>1. UNCHANGED <<model, position, self, entered, reduced>> /\ plan' \in {plan, NoPlan}
  BY DEF Hedge, TickAdvances, vars
<1>2. Held' = Held
  BY <1>1 DEF Held
<1>3. \A k : Matched(k)' = Matched(k) /\ (Balanced(k)' <=> Balanced(k))
  BY <1>1 DEF Matched, Balanced
<1>4. Known(self)' /\ Counted' /\ AtMostOne' /\ OnStrike(self)' /\ (model.event \in Nat)'
  BY <1>1, <1>2 DEF IInv, Known, Counted, AtMostOne, OnStrike
<1>5. GivenUp(self)'
  BY <1>1, <1>2, <1>3 DEF IInv, GivenUp
<1>6. Marked'
  BY <1>1, <1>2 DEF IInv, Marked
<1>7. PlanFits(self, plan, model, reduced)'
  <2>1. CASE plan' = NoPlan
    BY <2>1 DEF PlanFits
  <2>2. CASE plan' = plan
    <3>1. AddFits(self, plan, model, reduced) => AddFits(self, plan, model, reduced)'
      BY <1>1, <1>2, <1>3, <2>2 DEF AddFits
    <3>2. LeaveFits(self, plan) => LeaveFits(self, plan)'
      BY <1>1, <2>2 DEF LeaveFits
    <3>3. TrimFits(self, plan) => TrimFits(self, plan)'
      BY <1>1, <1>3, <2>2 DEF TrimFits
    <3>4. ReduceFits(self, plan) => ReduceFits(self, plan)'
      BY <1>1, <1>3, <2>2 DEF ReduceFits
    <3>5. PairFits(self, plan, model, reduced) => PairFits(self, plan, model, reduced)'
      BY <1>1, <1>2, <2>2 DEF PairFits
    <3> QED  BY <1>2, <2>2, <3>1, <3>2, <3>3, <3>4, <3>5 DEF IInv, PlanFits
  <2> QED  BY <1>1, <2>1, <2>2
<1> QED  BY <1>4, <1>5, <1>6, <1>7 DEF IInv

LEMMA InvInit == Init => IInv
<1> SUFFICES ASSUME Init PROVE IInv
  OBVIOUS
<1>1. PICK k \in Strikes, start \in {Flat} \cup {Inherited[x] : x \in Starts} :
        position = [j \in Strikes |-> IF j = k THEN start ELSE Flat]
  BY DEF Init
<1>2. start \in [{1, 2} -> Int] /\ Flat \in [{1, 2} -> Int]
  <2>1. \A a, b \in Int : <<a, b>> \in [{1, 2} -> Int]
    OBVIOUS
  <2>2. MaxSize \in Int /\ MaxSize - 1 \in Int /\ -1 \in Int
    BY CampaignAssumption
  <2>3. \A x \in Starts : Inherited[x] \in {<<MaxSize, MaxSize>>, <<MaxSize, MaxSize - 1>>, <<1, -1>>}
    <3>1. Starts \subseteq {"PAIRS", "EXCESS", "OPPOSED"}
      BY CampaignAssumption
    <3>2. Inherited["PAIRS"] = <<MaxSize, MaxSize>> /\ Inherited["EXCESS"] = <<MaxSize, MaxSize - 1>>
          /\ Inherited["OPPOSED"] = <<1, -1>>
      BY DEF Inherited
    <3> QED  BY <3>1, <3>2
  <2> QED  BY <2>1, <2>2, <2>3 DEF Flat
<1>3. Counted
  BY <1>1, <1>2 DEF Counted
<1>4. AtMostOne
  BY <1>1 DEF AtMostOne, Held
<1>5. self.campaign = None /\ self.confirmation = None /\ self.goals = <<>>
      /\ DOMAIN self = Fields
  BY DEF Init, Fresh, Fields
<1>6. Known(self) /\ OnStrike(self)
  BY <1>5 DEF Known, OnStrike
<1>7. GivenUp(self) /\ Marked /\ PlanFits(self, plan, model, reduced) /\ model.event \in Nat
  BY DEF Init, GivenUp, Marked, PlanFits
<1> QED  BY <1>3, <1>4, <1>6, <1>7 DEF IInv

LEMMA InvStep == IInv /\ [Next]_vars => IInv'
BY PollKeeps, ExecuteKeeps, OpenPairKeeps, DrainPairKeeps, RestKeeps DEF Next

LEMMA InvHolds == Spec => []IInv
BY InvInit, InvStep, PTL DEF Spec

(* No batch is bought at a strike from which trimming, scaling, reducing   *)
(* or closing has taken something, whatever is filled of either leg: it is *)
(* on its way out or has been scaled, or its target is what it holds.      *)
THEOREM NothingIsAddedBack == Spec => []NoAddBack
<1>1. IInv => NoAddBack
  <2> SUFFICES ASSUME IInv, plan.kind = "ADD" PROVE plan.strike \notin reduced
    BY DEF NoAddBack
  <2>1. plan # NoPlan /\ plan # [kind |-> "HEDGE"]
    BY DEF NoPlan
  <2>2. AddFits(self, plan, model, reduced)
    BY <2>1 DEF IInv, PlanFits, PairFits, LeaveFits, TrimFits, ReduceFits
  <2> QED  BY <2>2 DEF AddFits
<1> QED  BY <1>1, InvHolds, PTL

(* Only the first leg of an entry of a new campaign takes the account from *)
(* flat, or the second one if the first has not, and that campaign is of a *)
(* release that is not marked as used; a release on which an entry left    *)
(* something held is marked, before the account can be flat again. A       *)
(* release whose entries were all rolled back to flat is not, and the      *)
(* theorem says nothing of how often those are tried.                      *)
THEOREM ReleasesAreTradedOnce == Spec => ReleaseTradedOnce
<1>1. IInv /\ [Next]_vars => [Held = {} /\ Held' # {} => model.event \notin entered]_vars
  <2> SUFFICES ASSUME IInv, Next, Held = {}, Held' # {}
               PROVE  model.event \notin entered
    OBVIOUS
  <2>1. position' # position
    BY DEF Held
  <2>2. Execute \/ OpenPair \/ DrainPair
    BY <2>1, ZenonT(30) DEF Next, Poll, Evaluate, Hedge, TickAdvances
  <2>3. plan # NoPlan /\ plan # [kind |-> "HEDGE"]
    BY <2>2 DEF Execute, OpenPair, DrainPair, NoPlan
  <2>4. AddFits(self, plan, model, reduced) \/ PairFits(self, plan, model, reduced)
    BY <2>3 DEF IInv, PlanFits
  <2>5. model.event \notin self.used
    BY <2>4 DEF AddFits, PairFits
  <2>6. entered \subseteq self.used
    BY <2>3 DEF IInv, Marked
  <2> QED  BY <2>5, <2>6
<1> QED  BY <1>1, InvHolds, PTL DEF Spec, ReleaseTradedOnce

==============================================================================
