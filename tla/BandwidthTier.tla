---------------------------- MODULE BandwidthTier ----------------------------
(***************************************************************************)
(* packages/iterm2_host/lib/network/bandwidth_tier_strategy.dart: the fps  *)
(* tier and the bitrate of the panel stream, decided again at every sample *)
(* of the link.  decideBandwidthTier is pure; its caller keeps the state.  *)
(*                                                                         *)
(* Fractions are integers here: loss in thousandths, ratios in percent,    *)
(* with round() and floor() kept.  The reason string is left out.  `log`   *)
(* remembers every sample and what was decided.                            *)
(***************************************************************************)
EXTENDS Integers, Sequences

CONSTANTS
  Links,            \* the link samples: [bwe, loss, rtt, freeze, area]
  T1, T2, T3,       \* t1Kbps, t2Kbps, t3Kbps
  StepUpTime,       \* stepUpStableDuration
  StepDownTime,     \* stepDownStableDuration
  StepDownRatio,    \* stepDownBandwidthRatio
  CongestedFactor,  \* congestedBandwidthFactor
  StepUpMaxLoss, StepUpMaxRtt, StepUpMaxFreeze, StepDownMinLoss,
  Headroom,         \* headroom
  BaseBitrate,      \* baseBitrate15FpsKbps
  BaseArea,         \* baseWidth * baseHeight
  MinBitrate,       \* minVideoBitrateKbps
  MaxBoost,         \* maxQualityBoostKbps
  MaxGap,           \* longest time between two samples
  MaxTime           \* bound on the clock

BitrateLimit == 200000   \* kbps, the cap when the bandwidth is unknown

Link == [bwe : Nat, loss : Nat, rtt : Nat, freeze : Nat, area : Nat \ {0}]

ASSUME TierAssumption ==
  /\ Links \subseteq Link
  /\ {T1, T2, T3, StepUpTime, StepDownTime, StepDownRatio, CongestedFactor, StepUpMaxLoss,
      StepUpMaxRtt, StepUpMaxFreeze, StepDownMinLoss, Headroom, BaseBitrate, MinBitrate,
      MaxBoost, MaxGap, MaxTime} \subseteq Nat
  /\ BaseArea \in Nat \ {0}
  /\ MinBitrate <= BitrateLimit

VARIABLES
  policy,   \* BandwidthTierState
  now,      \* the clock
  log       \* the samples and decisions so far

vars == <<policy, now, log>>

Tier == {5, 15, 30, 60}
Never == -1

PolicyState ==
  [fpsTier : Tier, lastTierChangeAt : Nat, stableUpSince : Nat \cup {Never},
   stableDownSince : Nat \cup {Never}]

InitialState ==
  [fpsTier |-> 15, lastTierChangeAt |-> 0, stableUpSince |-> Never,
   stableDownSince |-> Never]

Entry == [at : Nat, link : Links, tier : Tier, next : Tier, bitrate : Nat]

TypeOK ==
  /\ policy \in PolicyState
  /\ now \in Nat
  /\ log \in Seq(Entry)

-----------------------------------------------------------------------------
UpperThreshold(tier) ==
  IF tier <= 5 THEN T1 ELSE IF tier <= 15 THEN T2 ELSE T3
LowerThreshold(tier) ==
  IF tier <= 5 THEN 0 ELSE IF tier <= 15 THEN T1 ELSE IF tier <= 30 THEN T2 ELSE T3

\* Beside some definitions stands a wrong version of it, named "...Wrong": the
\* mistake a property is there to notice.
StepUpTierWrong(tier) == IF tier < 15 THEN 15 ELSE 30
StepDownTierWrong(tier) == tier \div 2

StepUpTier(tier) ==
  IF tier < 15 THEN 15 ELSE IF tier < 30 THEN 30 ELSE 60
StepDownTier(tier) ==
  IF tier > 30 THEN 30 ELSE IF tier > 15 THEN 15 ELSE 5

IsCongested(link) == link.loss > 20 \/ link.rtt > 450 \/ link.freeze > 0

Effective(link) ==
  IF IsCongested(link) THEN (link.bwe * CongestedFactor) \div 100 ELSE link.bwe

\* An RTT of 0 is unknown.
CanStepUp(link) ==
  /\ link.loss < StepUpMaxLoss
  /\ link.rtt > 0 => link.rtt < StepUpMaxRtt
  /\ link.freeze <= StepUpMaxFreeze

WantUp(link, tier) ==
  /\ Effective(link) >= UpperThreshold(tier)
  /\ StepUpTier(tier) # tier
  /\ CanStepUp(link)

WantDownWrong(link, tier) ==
  /\ StepDownTier(tier) # tier
  /\ Effective(link) > 0
  /\ Effective(link) * 100 < LowerThreshold(tier) * StepDownRatio

\* A bandwidth of 0 is unknown.
WantDown(link, tier) ==
  /\ StepDownTier(tier) # tier
  /\ \/ Effective(link) > 0
        /\ Effective(link) * 100 < LowerThreshold(tier) * StepDownRatio
     \/ link.loss >= StepDownMinLoss
     \/ link.freeze > 0

Clamp(x, low, high) == IF x < low THEN low ELSE IF x > high THEN high ELSE x
Smaller(x, y) == IF x < y THEN x ELSE y
Rounded(x, d) == (2 * x + d) \div (2 * d)

BitrateCap(b) ==
  IF b <= 0 THEN BitrateLimit ELSE Clamp((b * Headroom) \div 100, MinBitrate, BitrateLimit)

\* Wrong: the cap ignores congestion.
VideoBitrateWrong(tier, link) ==
  LET b == Effective(link)
      r15 == Clamp(Rounded(BaseBitrate * link.area, BaseArea), 80, 5000)
      base == Clamp(Rounded(r15 * tier, 15), MinBitrate, BitrateLimit)
      target60 == Clamp(T3 + Clamp(Rounded(b - T3, 2), 0, MaxBoost), T3, BitrateLimit)
  IN Clamp(Smaller(IF tier < 60 THEN base ELSE target60, BitrateCap(link.bwe)),
           MinBitrate, BitrateLimit)

\* _computeVideoBitrateKbps with _scaledR15Kbps.
VideoBitrate(tier, link) ==
  LET b == Effective(link)
      r15 == Clamp(Rounded(BaseBitrate * link.area, BaseArea), 80, 5000)
      base == Clamp(Rounded(r15 * tier, 15), MinBitrate, BitrateLimit)
      target60 == Clamp(T3 + Clamp(Rounded(b - T3, 2), 0, MaxBoost), T3, BitrateLimit)
  IN Clamp(Smaller(IF tier < 60 THEN base ELSE target60, BitrateCap(b)),
           MinBitrate, BitrateLimit)

-----------------------------------------------------------------------------
\* Wrong: a sample that wants nothing does not restart the wait.
UpSinceWrong(previous, link) ==
  IF previous.stableUpSince < 0 THEN now ELSE previous.stableUpSince
DownSinceWrong(previous, link) ==
  IF previous.stableDownSince < 0 THEN now ELSE previous.stableDownSince

\* Since when the link has wanted a step up, or down, counting this sample.
UpSince(previous, link) ==
  IF ~WantUp(link, previous.fpsTier) THEN Never
  ELSE IF previous.stableUpSince < 0 THEN now ELSE previous.stableUpSince
DownSince(previous, link) ==
  IF ~WantDown(link, previous.fpsTier) THEN Never
  ELSE IF WantUp(link, previous.fpsTier) \/ previous.stableDownSince < 0 THEN now
  ELSE previous.stableDownSince

StepsUp(previous, link) ==
  /\ WantUp(link, previous.fpsTier)
  /\ now - UpSince(previous, link) >= StepUpTime
StepsDown(previous, link) ==
  /\ ~StepsUp(previous, link)
  /\ WantDown(link, previous.fpsTier)
  /\ now - DownSince(previous, link) >= StepDownTime

Changed(tier) ==
  [fpsTier |-> tier, lastTierChangeAt |-> now, stableUpSince |-> Never,
   stableDownSince |-> Never]

Held(previous, up, down) ==
  [fpsTier |-> previous.fpsTier, lastTierChangeAt |-> previous.lastTierChangeAt,
   stableUpSince |-> up, stableDownSince |-> down]

\* decideBandwidthTier: the next state.
Decide(previous, link) ==
  IF StepsUp(previous, link) THEN Changed(StepUpTier(previous.fpsTier))
  ELSE IF StepsDown(previous, link) THEN Changed(StepDownTier(previous.fpsTier))
  ELSE Held(previous,
            IF WantDown(link, previous.fpsTier) THEN Never ELSE UpSince(previous, link),
            DownSince(previous, link))

-----------------------------------------------------------------------------
Init ==
  /\ policy = InitialState
  /\ now = 0
  /\ log = << >>

LastSample == IF log = << >> THEN 0 ELSE log[Len(log)].at

Tick ==
  /\ now < MaxTime
  /\ now - LastSample < MaxGap
  /\ now' = now + 1
  /\ UNCHANGED <<policy, log>>

\* The caller samples the link, at most once at a time.
Sample(link) ==
  /\ log # << >> => LastSample < now
  /\ policy' = Decide(policy, link)
  /\ log' = Append(log, [at |-> now, link |-> link, tier |-> policy.fpsTier,
                         next |-> policy'.fpsTier,
                         bitrate |-> VideoBitrate(policy'.fpsTier, link)])
  /\ UNCHANGED now

Next == Tick \/ \E link \in Links : Sample(link)

Spec == Init /\ [][Next]_vars

-----------------------------------------------------------------------------
\* The samples from the j-th to the i-th were taken at one tier, over at least d.
Run(j, i, d) ==
  /\ \A k \in j .. i : log[k].tier = log[i].tier
  /\ log[i].at - log[j].at >= d

\* Header lines 18-21: a step up comes only after StepUpTime during which every
\* sample wanted it at that tier.  No earlier tier's good time is reused, and one
\* bad sample restarts the wait.
StepUpIsEarned ==
  \A i \in DOMAIN log : log[i].next > log[i].tier =>
    \E j \in 1 .. i : /\ Run(j, i, StepUpTime)
                      /\ \A k \in j .. i : WantUp(log[k].link, log[i].tier)

\* Header lines 22-24: a step down comes only after StepDownTime during which
\* every sample wanted it at that tier.
StepDownIsEarned ==
  \A i \in DOMAIN log : log[i].next < log[i].tier =>
    \E j \in 1 .. i : /\ Run(j, i, StepDownTime)
                      /\ \A k \in j .. i : WantDown(log[k].link, log[i].tier)

\* No tier changes before the link asked for it through the whole wait.
TierChangesAreEarned == StepUpIsEarned /\ StepDownIsEarned

\* The bitrate leaves the headroom free of the bandwidth that is there: whatever
\* the tier and the quality boost, it is at most Headroom percent of the
\* estimate, or the floor that keeps the encoder alive.
BitrateLeavesHeadroom ==
  \A i \in DOMAIN log :
    log[i].link.bwe > 0 /\ Effective(log[i].link) > 0 =>
      \/ log[i].bitrate * 100 <= Effective(log[i].link) * Headroom
      \/ log[i].bitrate = MinBitrate

\* The converse of the two above: a link that supports the next tier throughout
\* StepUpTime at one tier gets its step, whatever the timers hold of its past.
Supports(link, tier) == Effective(link) >= UpperThreshold(tier) /\ CanStepUp(link)
StepUpIsPrompt ==
  \A i \in DOMAIN log : \A j \in 1 .. i :
    /\ log[i].tier # 60
    /\ Run(j, i, StepUpTime)
    /\ \A k \in j .. i : Supports(log[k].link, log[i].tier)
    => log[i].next > log[i].tier

\* A link that loses packets or freezes throughout StepDownTime at one tier
\* loses the tier.
Terrible(link) == link.loss >= StepDownMinLoss \/ link.freeze > 0
StepDownIsPrompt ==
  \A i \in DOMAIN log : \A j \in 1 .. i :
    /\ log[i].tier # 5
    /\ Run(j, i, StepDownTime)
    /\ \A k \in j .. i : Terrible(log[k].link)
    => log[i].next < log[i].tier

\* No tier outlasts a whole wait that asked for another.
TierChangesArePrompt == StepUpIsPrompt /\ StepDownIsPrompt

=============================================================================
