------------------------- MODULE BandwidthTierProofs -------------------------
(***************************************************************************)
(* Tier steps are earned and bitrates fit, for every configuration and any *)
(* set of links.  The timers of the policy state are enough for it because *)
(* of RunInv: a timer that runs points at a sample since which every       *)
(* sample was taken at the present tier and wanted the step it waits for.  *)
(***************************************************************************)
EXTENDS BandwidthTier, TLAPS

\* The samples from the j-th on were at the present tier and satisfy P.
UpRun(j) ==
  /\ j \in DOMAIN log
  /\ log[j].at = policy.stableUpSince
  /\ \A k \in j .. Len(log) :
       log[k].tier = policy.fpsTier /\ WantUp(log[k].link, policy.fpsTier)

DownRun(j) ==
  /\ j \in DOMAIN log
  /\ log[j].at = policy.stableDownSince
  /\ \A k \in j .. Len(log) :
       log[k].tier = policy.fpsTier /\ WantDown(log[k].link, policy.fpsTier)

RunInv ==
  /\ policy.stableUpSince >= 0 => \E j \in DOMAIN log : UpRun(j)
  /\ policy.stableDownSince >= 0 => \E j \in DOMAIN log : DownRun(j)

IInv == TypeOK /\ RunInv /\ StepUpIsEarned /\ StepDownIsEarned /\ BitrateLeavesHeadroom

-----------------------------------------------------------------------------
\* What a step does to a tier.
LEMMA TierSteps ==
  ASSUME NEW t \in Tier
  PROVE  /\ StepUpTier(t) \in Tier /\ StepUpTier(t) >= t
         /\ StepDownTier(t) \in Tier /\ StepDownTier(t) <= t
BY DEF Tier, StepUpTier, StepDownTier

LEMMA EffectiveType ==
  ASSUME NEW link \in Links
  PROVE  Effective(link) \in Int /\ (link.bwe = 0 => Effective(link) <= 0)
<1>1. /\ link.bwe \in Nat /\ CongestedFactor \in Nat
  BY TierAssumption DEF Link
<1>2. (link.bwe * CongestedFactor) \in Nat
  BY <1>1
<1>3. ((link.bwe * CongestedFactor) \div 100) \in Int
  BY <1>2
<1>4. link.bwe = 0 => (link.bwe * CongestedFactor) \div 100 <= 0
  BY <1>1
<1>. QED
  BY <1>1, <1>3, <1>4 DEF Effective

\* A video bitrate is a number within the floor and what the cap leaves.
LEMMA BitrateBounds ==
  ASSUME NEW link \in Links, NEW t \in Tier
  PROVE  /\ VideoBitrate(t, link) \in Nat
         /\ Effective(link) > 0 =>
              \/ VideoBitrate(t, link) * 100 <= Effective(link) * Headroom
              \/ VideoBitrate(t, link) = MinBitrate
<1> DEFINE b == Effective(link)
           r15 == Clamp(Rounded(BaseBitrate * link.area, BaseArea), 80, 5000)
           base == Clamp(Rounded(r15 * t, 15), MinBitrate, BitrateLimit)
           boost == Clamp(Rounded(b - T3, 2), 0, MaxBoost)
           target60 == Clamp(T3 + boost, T3, BitrateLimit)
           target == IF t < 60 THEN base ELSE target60
           cap == BitrateCap(b)
           scaled == b * Headroom
<1>0. /\ b \in Int /\ MinBitrate \in Nat /\ T3 \in Nat
      /\ MaxBoost \in Nat /\ Headroom \in Nat /\ BaseBitrate \in Nat
      /\ BaseArea \in Nat \ {0} /\ link.area \in Nat \ {0} /\ t \in Nat
      /\ BitrateLimit \in Nat /\ MinBitrate <= BitrateLimit
  <2>1. BitrateLimit \in Nat
    BY SMT DEF BitrateLimit
  <2>. QED
    BY <2>1, EffectiveType, TierAssumption, SMT DEF Link, Tier
<1>1. \A x \in Int, d \in Nat \ {0} : Rounded(x, d) \in Int
  <2> SUFFICES ASSUME NEW x \in Int, NEW d \in Nat \ {0} PROVE Rounded(x, d) \in Int
    OBVIOUS
  <2>1. (2 * x + d) \in Int /\ (2 * d) \in Nat \ {0}
    OBVIOUS
  <2>2. \A p \in Int, q \in Nat \ {0} : (p \div q) \in Int
    OBVIOUS
  <2>. QED
    BY <2>1, <2>2 DEF Rounded
<1>2. \A x, low, high \in Int : Clamp(x, low, high) \in Int
  BY DEF Clamp
<1>3. r15 \in Int
  <2>1. (BaseBitrate * link.area) \in Int
    BY <1>0
  <2>2. Rounded(BaseBitrate * link.area, BaseArea) \in Int
    BY <1>0, <1>1, <2>1
  <2>. QED
    BY <1>2, <2>2
<1>4. base \in Int
  <2> HIDE DEF r15
  <2>1. (r15 * t) \in Int
    BY <1>0, <1>3
  <2>2. Rounded(r15 * t, 15) \in Int
    BY <1>1, <2>1
  <2>. QED
    BY <1>0, <1>2, <2>2
<1>5. target60 \in Int
  <2> HIDE DEF b
  <2>1. Rounded(b - T3, 2) \in Int
    BY <1>0, <1>1
  <2>2. boost \in Int
    BY <1>0, <1>2, <2>1
  <2> HIDE DEF boost
  <2>. QED
    BY <1>0, <1>2, <2>2
<1>6. target \in Int
  <2> HIDE DEF base, target60
  <2>. QED
    BY <1>4, <1>5
<1>7. scaled \in Int
  <2> HIDE DEF b
  <2>. QED
    BY <1>0
<1>8. cap \in Int /\ (b > 0 => cap * 100 <= scaled \/ cap = MinBitrate)
  <2> HIDE DEF b, scaled
  <2>1. cap = IF b <= 0 THEN BitrateLimit ELSE Clamp(scaled \div 100, MinBitrate, BitrateLimit)
    BY DEF BitrateCap, scaled
  <2>2. (scaled \div 100) \in Int /\ (scaled \div 100) * 100 <= scaled
    BY <1>7
  <2>3. CASE b <= 0
    BY <1>0, <2>1, <2>3, SMT
  <2>4. CASE b > 0
    <3> DEFINE q == scaled \div 100
    <3>1. cap = Clamp(q, MinBitrate, BitrateLimit) /\ q \in Int /\ q * 100 <= scaled
      BY <1>0, <2>1, <2>2, <2>4, SMT
    <3> HIDE DEF q
    <3>2. \/ cap = MinBitrate \/ cap = q
          \/ cap = BitrateLimit /\ BitrateLimit < q
      BY <3>1, SMT DEF Clamp
    <3>. QED
      BY <1>0, <1>7, <3>1, <3>2, SMT
  <2>. QED
    BY <1>0, <2>3, <2>4, SMT
<1>9. VideoBitrate(t, link) = Clamp(Smaller(target, cap), MinBitrate, BitrateLimit)
  BY DEF VideoBitrate
<1> HIDE DEF target, cap, scaled
<1>10. \/ VideoBitrate(t, link) = MinBitrate
       \/ VideoBitrate(t, link) \in Int /\ VideoBitrate(t, link) >= MinBitrate
          /\ VideoBitrate(t, link) <= cap
  BY <1>0, <1>6, <1>8, <1>9, SMT DEF Clamp, Smaller
<1>11. VideoBitrate(t, link) \in Nat
  BY <1>0, <1>10, SMT
<1>12. b > 0 => VideoBitrate(t, link) * 100 <= scaled \/ VideoBitrate(t, link) = MinBitrate
  <2> HIDE DEF b
  <2> DEFINE v == VideoBitrate(t, link)
  <2>1. v \in Int /\ cap \in Int /\ scaled \in Int /\ (v <= cap \/ v = MinBitrate)
    BY <1>0, <1>7, <1>8, <1>10, SMT
  <2>2. v >= MinBitrate
    BY <1>0, <1>10, SMT
  <2> HIDE DEF v
  <2>3. b > 0 => cap * 100 <= scaled \/ cap = MinBitrate
    BY <1>8
  <2>4. b > 0 => v * 100 <= scaled \/ v = MinBitrate
    BY <1>0, <2>1, <2>2, <2>3, SMT
  <2>. QED
    BY <2>4 DEF v
<1>. QED
  BY <1>11, <1>12 DEF scaled

-----------------------------------------------------------------------------
\* What a decision does: it steps up, steps down, or keeps the tier and the
\* timers that the sample's wishes leave running.
LEMMA DecideCases ==
  ASSUME NEW p \in PolicyState, NEW link \in Links, now \in Nat
  PROVE  LET q == Decide(p, link) IN
         /\ q \in PolicyState
         /\ \/ /\ q.fpsTier >= p.fpsTier
               /\ q.stableUpSince = Never /\ q.stableDownSince = Never
               /\ WantUp(link, p.fpsTier)
               /\ now - UpSince(p, link) >= StepUpTime
            \/ /\ q.fpsTier <= p.fpsTier
               /\ q.stableUpSince = Never /\ q.stableDownSince = Never
               /\ WantDown(link, p.fpsTier)
               /\ now - DownSince(p, link) >= StepDownTime
            \/ /\ q.fpsTier = p.fpsTier
               /\ q.stableUpSince \in {Never, UpSince(p, link)}
               /\ q.stableDownSince = DownSince(p, link)
<1>0. p.fpsTier \in Tier
  BY DEF PolicyState
<1>1. \A t \in Tier : Changed(t) \in PolicyState /\ Changed(t).fpsTier = t
        /\ Changed(t).stableUpSince = Never /\ Changed(t).stableDownSince = Never
  BY SMT DEF Changed, PolicyState
<1>2. CASE StepsUp(p, link)
  <2>1. Decide(p, link) = Changed(StepUpTier(p.fpsTier))
    BY <1>2, Zenon DEF Decide
  <2>. QED
    BY <1>0, <1>1, <1>2, <2>1, TierSteps, SMT DEF StepsUp
<1>3. CASE ~StepsUp(p, link) /\ StepsDown(p, link)
  <2>1. Decide(p, link) = Changed(StepDownTier(p.fpsTier))
    BY <1>3, Zenon DEF Decide
  <2>. QED
    BY <1>0, <1>1, <1>3, <2>1, TierSteps, SMT DEF StepsDown
<1>4. CASE ~StepsUp(p, link) /\ ~StepsDown(p, link)
  <2> DEFINE up == IF WantDown(link, p.fpsTier) THEN Never ELSE UpSince(p, link)
             down == DownSince(p, link)
  <2>1. Decide(p, link) = Held(p, up, down)
    BY <1>4, Zenon DEF Decide
  <2>2. UpSince(p, link) \in Nat \cup {Never} /\ down \in Nat \cup {Never}
    BY SMT DEF UpSince, DownSince, PolicyState
  <2>3. up \in {Never, UpSince(p, link)} /\ up \in Nat \cup {Never}
    BY <2>2
  <2> HIDE DEF up, down
  <2>4. Held(p, up, down) \in PolicyState
    BY <2>2, <2>3, SMT DEF PolicyState, Held
  <2>5. /\ Decide(p, link).fpsTier = p.fpsTier
        /\ Decide(p, link).stableUpSince = up /\ Decide(p, link).stableDownSince = down
    BY <2>1, SMT DEF PolicyState, Held
  <2>. QED
    BY <2>1, <2>3, <2>4, <2>5 DEF down
<1>. QED
  BY <1>2, <1>3, <1>4

\* A wish that runs since `since` counting this sample: a run of samples at this
\* tier, all of which wish it, ends with this sample and began at `since`.
LEMMA UpRunExtends ==
  ASSUME TypeOK, RunInv, NEW link \in Links, NEW e \in Entry,
         e.at = now, e.link = link, e.tier = policy.fpsTier,
         log' = Append(log, e), WantUp(link, policy.fpsTier)
  PROVE  \E j \in DOMAIN log' :
           /\ log'[j].at = UpSince(policy, link)
           /\ \A k \in j .. Len(log') :
                log'[k].tier = policy.fpsTier /\ WantUp(log'[k].link, policy.fpsTier)
<1> DEFINE n == Len(log)
<1>0. /\ log \in Seq(Entry) /\ n \in Nat /\ Len(log') = n + 1 /\ log'[n + 1] = e
      /\ \A k \in 1 .. n : log'[k] = log[k]
      /\ DOMAIN log = 1 .. n /\ DOMAIN log' = 1 .. (n + 1)
  BY SMT DEF TypeOK
<1>1. CASE policy.stableUpSince < 0
  <2>1. UpSince(policy, link) = now
    BY <1>1 DEF UpSince
  <2>2. \A k \in (n + 1) .. Len(log') : k = n + 1
    BY <1>0, SMT
  <2>3. n + 1 \in DOMAIN log'
    BY <1>0, SMT
  <2>. QED
    BY <1>0, <2>1, <2>2, <2>3
<1>2. CASE ~(policy.stableUpSince < 0)
  <2>0. policy.stableUpSince \in Nat
    BY <1>2, SMT DEF TypeOK, PolicyState, Never
  <2>1. UpSince(policy, link) = policy.stableUpSince
    BY <1>2 DEF UpSince
  <2>2. PICK j \in DOMAIN log : UpRun(j)
    BY <2>0, SMT DEF RunInv
  <2>3. j \in 1 .. n /\ j \in DOMAIN log' /\ log'[j].at = policy.stableUpSince
    BY <1>0, <2>2, SMT DEF UpRun
  <2>4. ASSUME NEW k \in j .. Len(log')
        PROVE  log'[k].tier = policy.fpsTier /\ WantUp(log'[k].link, policy.fpsTier)
    <3>1. CASE k = n + 1
      BY <1>0, <3>1
    <3>2. CASE k # n + 1
      <4>1. k \in j .. n /\ k \in 1 .. n
        BY <1>0, <2>3, <3>2, SMT
      <4>. QED
        BY <1>0, <2>2, <4>1 DEF UpRun
    <3>. QED
      BY <3>1, <3>2
  <2>. QED
    BY <2>1, <2>3, <2>4
<1>. QED
  BY <1>1, <1>2

LEMMA DownRunExtends ==
  ASSUME TypeOK, RunInv, NEW link \in Links, NEW e \in Entry,
         e.at = now, e.link = link, e.tier = policy.fpsTier,
         log' = Append(log, e), WantDown(link, policy.fpsTier)
  PROVE  \E j \in DOMAIN log' :
           /\ log'[j].at = DownSince(policy, link)
           /\ \A k \in j .. Len(log') :
                log'[k].tier = policy.fpsTier /\ WantDown(log'[k].link, policy.fpsTier)
<1> DEFINE n == Len(log)
<1>0. /\ log \in Seq(Entry) /\ n \in Nat /\ Len(log') = n + 1 /\ log'[n + 1] = e
      /\ \A k \in 1 .. n : log'[k] = log[k]
      /\ DOMAIN log = 1 .. n /\ DOMAIN log' = 1 .. (n + 1)
  BY SMT DEF TypeOK
<1>1. CASE WantUp(link, policy.fpsTier) \/ policy.stableDownSince < 0
  <2>1. DownSince(policy, link) = now
    BY <1>1 DEF DownSince
  <2>2. \A k \in (n + 1) .. Len(log') : k = n + 1
    BY <1>0, SMT
  <2>3. n + 1 \in DOMAIN log'
    BY <1>0, SMT
  <2>. QED
    BY <1>0, <2>1, <2>2, <2>3
<1>2. CASE ~(WantUp(link, policy.fpsTier) \/ policy.stableDownSince < 0)
  <2>0. policy.stableDownSince \in Nat
    BY <1>2, SMT DEF TypeOK, PolicyState, Never
  <2>1. DownSince(policy, link) = policy.stableDownSince
    BY <1>2 DEF DownSince
  <2>2. PICK j \in DOMAIN log : DownRun(j)
    BY <2>0, SMT DEF RunInv
  <2>3. j \in 1 .. n /\ j \in DOMAIN log' /\ log'[j].at = policy.stableDownSince
    BY <1>0, <2>2, SMT DEF DownRun
  <2>4. ASSUME NEW k \in j .. Len(log')
        PROVE  log'[k].tier = policy.fpsTier /\ WantDown(log'[k].link, policy.fpsTier)
    <3>1. CASE k = n + 1
      BY <1>0, <3>1
    <3>2. CASE k # n + 1
      <4>1. k \in j .. n /\ k \in 1 .. n
        BY <1>0, <2>3, <3>2, SMT
      <4>. QED
        BY <1>0, <2>2, <4>1 DEF DownRun
    <3>. QED
      BY <3>1, <3>2
  <2>. QED
    BY <2>1, <2>3, <2>4
<1>. QED
  BY <1>1, <1>2

-----------------------------------------------------------------------------
LEMMA SampleKeepsIInv ==
  ASSUME IInv, NEW link \in Links, Sample(link)
  PROVE  IInv'
<1> DEFINE t == policy.fpsTier
           n == Len(log)
           q == policy'
           e == [at |-> now, link |-> link, tier |-> t, next |-> q.fpsTier,
                 bitrate |-> VideoBitrate(q.fpsTier, link)]
<1>0. /\ TypeOK /\ RunInv /\ policy \in PolicyState /\ now \in Nat /\ t \in Tier
      /\ log \in Seq(Entry) /\ n \in Nat
  BY SMT DEF IInv, TypeOK, PolicyState
<1>1. q = Decide(policy, link) /\ log' = Append(log, e) /\ now' = now
  BY Zenon DEF Sample
<1>2. /\ q \in PolicyState
      /\ \/ /\ q.fpsTier >= t
            /\ q.stableUpSince = Never /\ q.stableDownSince = Never
            /\ WantUp(link, t) /\ now - UpSince(policy, link) >= StepUpTime
         \/ /\ q.fpsTier <= t
            /\ q.stableUpSince = Never /\ q.stableDownSince = Never
            /\ WantDown(link, t) /\ now - DownSince(policy, link) >= StepDownTime
         \/ /\ q.fpsTier = t
            /\ q.stableUpSince \in {Never, UpSince(policy, link)}
            /\ q.stableDownSince = DownSince(policy, link)
  BY <1>0, <1>1, DecideCases
<1>3. q.fpsTier \in Tier
  BY <1>2 DEF PolicyState
<1>4. /\ VideoBitrate(q.fpsTier, link) \in Nat
      /\ Effective(link) > 0 =>
           \/ VideoBitrate(q.fpsTier, link) * 100 <= Effective(link) * Headroom
           \/ VideoBitrate(q.fpsTier, link) = MinBitrate
  <2> HIDE DEF q
  <2>. QED
    BY <1>3, BitrateBounds
<1>5. /\ e \in Entry /\ e.at = now /\ e.link = link /\ e.tier = t
      /\ e.next = q.fpsTier /\ e.bitrate = VideoBitrate(q.fpsTier, link)
  BY <1>0, <1>3, <1>4 DEF Entry
<1> HIDE DEF q, e, n
<1>6. /\ log' \in Seq(Entry) /\ DOMAIN log' = 1 .. (n + 1) /\ Len(log') = n + 1
      /\ DOMAIN log = 1 .. n /\ log'[n + 1] = e
      /\ \A k \in 1 .. n : log'[k] = log[k]
  BY <1>0, <1>1, <1>5, SMT DEF n
<1>7. TypeOK'
  BY <1>0, <1>1, <1>2, <1>6, SMT DEF TypeOK, q
<1>8. \A i \in DOMAIN log' : i = n + 1 \/ (i \in 1 .. n /\ i \in DOMAIN log)
  BY <1>0, <1>6, SMT
<1>9. WantUp(link, t) =>
        \E j \in DOMAIN log' :
           /\ log'[j].at = UpSince(policy, link)
           /\ \A k \in j .. Len(log') : log'[k].tier = t /\ WantUp(log'[k].link, t)
  BY <1>0, <1>1, <1>5, UpRunExtends
<1>10. WantDown(link, t) =>
        \E j \in DOMAIN log' :
           /\ log'[j].at = DownSince(policy, link)
           /\ \A k \in j .. Len(log') : log'[k].tier = t /\ WantDown(log'[k].link, t)
  BY <1>0, <1>1, <1>5, DownRunExtends
<1>11. RunInv'
  <2>1. ASSUME q.stableUpSince >= 0 PROVE \E j \in DOMAIN log' : UpRun(j)'
    <3>1. q.stableUpSince = UpSince(policy, link) /\ UpSince(policy, link) # Never
          /\ q.fpsTier = t
      BY <1>2, <2>1, SMT DEF Never
    <3>2. WantUp(link, t)
      BY <3>1 DEF UpSince
    <3>. QED
      BY <1>9, <3>1, <3>2 DEF UpRun, q
  <2>2. ASSUME q.stableDownSince >= 0 PROVE \E j \in DOMAIN log' : DownRun(j)'
    <3>1. q.stableDownSince = DownSince(policy, link) /\ DownSince(policy, link) # Never
          /\ q.fpsTier = t
      BY <1>2, <2>2, SMT DEF Never
    <3>2. WantDown(link, t)
      BY <3>1 DEF DownSince
    <3>. QED
      BY <1>10, <3>1, <3>2 DEF DownRun, q
  <2>. QED
    BY <2>1, <2>2 DEF RunInv, q
<1>12. StepUpIsEarned'
  <2> SUFFICES ASSUME NEW i \in DOMAIN log', log'[i].next > log'[i].tier
               PROVE  \E j \in 1 .. i :
                        /\ \A k \in j .. i : log'[k].tier = log'[i].tier
                        /\ log'[i].at - log'[j].at >= StepUpTime
                        /\ \A k \in j .. i : WantUp(log'[k].link, log'[i].tier)
    BY DEF StepUpIsEarned, Run
  <2>1. CASE i = n + 1
    <3>1. q.fpsTier > t /\ log'[i].tier = t /\ log'[i].at = now
      BY <1>5, <1>6, <2>1
    <3>2. WantUp(link, t) /\ now - UpSince(policy, link) >= StepUpTime
      BY <1>0, <1>2, <1>3, <3>1, SMT DEF Tier
    <3>3. PICK j \in DOMAIN log' :
             /\ log'[j].at = UpSince(policy, link)
             /\ \A k \in j .. Len(log') : log'[k].tier = t /\ WantUp(log'[k].link, t)
      BY <1>9, <3>2
    <3>4. j \in 1 .. i /\ Len(log') = i
      BY <1>6, <2>1
    <3>. QED
      BY <3>1, <3>2, <3>3, <3>4
  <2>2. CASE i \in 1 .. n /\ i \in DOMAIN log
    <3>1. log'[i] = log[i]
      BY <1>6, <2>2
    <3>2. PICK j \in 1 .. i : /\ \A k \in j .. i : log[k].tier = log[i].tier
                              /\ log[i].at - log[j].at >= StepUpTime
                              /\ \A k \in j .. i : WantUp(log[k].link, log[i].tier)
      BY <2>2, <3>1 DEF IInv, StepUpIsEarned, Run
    <3>3. \A k \in j .. i : log'[k] = log[k]
      BY <1>0, <1>6, <2>2, <3>2, SMT
    <3>4. j \in j .. i
      BY <2>2, <3>2, SMT
    <3>. QED
      BY <3>1, <3>2, <3>3, <3>4
  <2>. QED
    BY <1>8, <2>1, <2>2
<1>13. StepDownIsEarned'
  <2> SUFFICES ASSUME NEW i \in DOMAIN log', log'[i].next < log'[i].tier
               PROVE  \E j \in 1 .. i :
                        /\ \A k \in j .. i : log'[k].tier = log'[i].tier
                        /\ log'[i].at - log'[j].at >= StepDownTime
                        /\ \A k \in j .. i : WantDown(log'[k].link, log'[i].tier)
    BY DEF StepDownIsEarned, Run
  <2>1. CASE i = n + 1
    <3>1. q.fpsTier < t /\ log'[i].tier = t /\ log'[i].at = now
      BY <1>5, <1>6, <2>1
    <3>2. WantDown(link, t) /\ now - DownSince(policy, link) >= StepDownTime
      BY <1>0, <1>2, <1>3, <3>1, SMT DEF Tier
    <3>3. PICK j \in DOMAIN log' :
             /\ log'[j].at = DownSince(policy, link)
             /\ \A k \in j .. Len(log') : log'[k].tier = t /\ WantDown(log'[k].link, t)
      BY <1>10, <3>2
    <3>4. j \in 1 .. i /\ Len(log') = i
      BY <1>6, <2>1
    <3>. QED
      BY <3>1, <3>2, <3>3, <3>4
  <2>2. CASE i \in 1 .. n /\ i \in DOMAIN log
    <3>1. log'[i] = log[i]
      BY <1>6, <2>2
    <3>2. PICK j \in 1 .. i : /\ \A k \in j .. i : log[k].tier = log[i].tier
                              /\ log[i].at - log[j].at >= StepDownTime
                              /\ \A k \in j .. i : WantDown(log[k].link, log[i].tier)
      BY <2>2, <3>1 DEF IInv, StepDownIsEarned, Run
    <3>3. \A k \in j .. i : log'[k] = log[k]
      BY <1>0, <1>6, <2>2, <3>2, SMT
    <3>4. j \in j .. i
      BY <2>2, <3>2, SMT
    <3>. QED
      BY <3>1, <3>2, <3>3, <3>4
  <2>. QED
    BY <1>8, <2>1, <2>2
<1>14. BitrateLeavesHeadroom'
  <2> SUFFICES ASSUME NEW i \in DOMAIN log', Effective(log'[i].link) > 0, log'[i].link.bwe > 0
               PROVE  \/ log'[i].bitrate * 100 <= Effective(log'[i].link) * Headroom
                      \/ log'[i].bitrate = MinBitrate
    BY DEF BitrateLeavesHeadroom
  <2>1. CASE i = n + 1
    BY <1>4, <1>5, <1>6, <2>1
  <2>2. CASE i \in 1 .. n /\ i \in DOMAIN log
    <3>1. log'[i] = log[i]
      BY <1>6, <2>2
    <3>. QED
      BY <2>2, <3>1 DEF IInv, BitrateLeavesHeadroom
  <2>. QED
    BY <1>8, <2>1, <2>2
<1>. QED
  BY <1>7, <1>11, <1>12, <1>13, <1>14 DEF IInv

LEMMA NextIInv == IInv /\ [Next]_vars => IInv'
<1> SUFFICES ASSUME IInv, [Next]_vars PROVE IInv'
  OBVIOUS
<1>1. CASE Tick
  BY <1>1, SMT DEF Tick, IInv, TypeOK, RunInv, UpRun, DownRun, StepUpIsEarned,
     StepDownIsEarned, Run, BitrateLeavesHeadroom
<1>2. ASSUME NEW link \in Links, Sample(link) PROVE IInv'
  BY <1>2, SampleKeepsIInv
<1>3. CASE UNCHANGED vars
  BY <1>3 DEF vars, IInv, TypeOK, RunInv, UpRun, DownRun, StepUpIsEarned,
     StepDownIsEarned, Run, BitrateLeavesHeadroom
<1>. QED
  BY <1>1, <1>2, <1>3 DEF Next

\* The inductive invariant holds of every behaviour.
THEOREM Invariance == Spec => []IInv
<1>1. Init => IInv
  <2> SUFFICES ASSUME Init PROVE IInv
    OBVIOUS
  <2>1. TypeOK
    BY SMT DEF Init, InitialState, TypeOK, PolicyState, Tier
  <2>2. RunInv
    BY SMT DEF Init, InitialState, RunInv, Never
  <2>3. StepUpIsEarned /\ StepDownIsEarned /\ BitrateLeavesHeadroom
    BY DEF Init, StepUpIsEarned, StepDownIsEarned, BitrateLeavesHeadroom
  <2>. QED
    BY <2>1, <2>2, <2>3 DEF IInv
<1>2. IInv /\ [Next]_vars => IInv'
  BY NextIInv
<1>. QED
  BY <1>1, <1>2, PTL DEF Spec

\* Type correctness of the tier policy.
THEOREM TypeCorrect == Spec => []TypeOK
<1>1. IInv => TypeOK
  BY DEF IInv
<1>. QED
  BY <1>1, Invariance, PTL

\* Whatever the thresholds and durations are, a tier changes only after its wait,
\* during which every sample at that tier asked for the change.
THEOREM StepsAreEarned == Spec => []TierChangesAreEarned
<1>1. IInv => TierChangesAreEarned
  BY DEF IInv, TierChangesAreEarned
<1>. QED
  BY <1>1, Invariance, PTL

\* Whatever the configuration, the bitrate leaves the headroom free.
THEOREM BitrateFits == Spec => []BitrateLeavesHeadroom
<1>1. IInv => BitrateLeavesHeadroom
  BY DEF IInv
<1>. QED
  BY <1>1, Invariance, PTL

-----------------------------------------------------------------------------
\* No link asks for both directions at once.  Without it the two waits would
\* restart each other and the tier could stay for good.
Consistent ==
  \A link \in Links, tier \in Tier : ~(WantUp(link, tier) /\ WantDown(link, tier))

\* The default configuration, and any with its order of limits, is consistent.
THEOREM OrderedLimitsAreConsistent ==
  ASSUME T1 <= T2, T2 <= T3, StepDownRatio <= 100, StepUpMaxFreeze = 0,
         StepUpMaxLoss <= StepDownMinLoss
  PROVE  Consistent
<1> SUFFICES ASSUME NEW link \in Links, NEW tier \in Tier,
                    WantUp(link, tier), WantDown(link, tier)
             PROVE  FALSE
  BY DEF Consistent
<1> DEFINE b == Effective(link)
           u == UpperThreshold(tier)
           l == LowerThreshold(tier)
<1>1. /\ b \in Int /\ u \in Nat /\ l \in Nat /\ StepDownRatio \in Nat
      /\ link.loss \in Nat /\ link.freeze \in Nat /\ StepDownMinLoss \in Nat
      /\ StepUpMaxLoss \in Nat
  BY EffectiveType, TierAssumption, SMT DEF Link, UpperThreshold, LowerThreshold
<1>2. l <= u
  BY TierAssumption, SMT DEF UpperThreshold, LowerThreshold, Tier
<1>3. b >= u /\ link.loss < StepUpMaxLoss /\ link.freeze <= 0
  BY DEF WantUp, CanStepUp
<1>4. b * 100 < l * StepDownRatio
  BY <1>1, <1>3, SMT DEF WantDown
<1> HIDE DEF b, u, l
<1>5. l * StepDownRatio <= l * 100
  BY <1>1, SMT
<1>. QED
  BY <1>1, <1>2, <1>3, <1>4, <1>5, SMT

\* A wait began no later than the first of the samples that ask for its step
\* without a break.
UpWaits ==
  /\ policy.stableUpSince <= now
  /\ \A j \in DOMAIN log :
       /\ policy.fpsTier # 60
       /\ \A k \in j .. Len(log) :
            log[k].tier = policy.fpsTier /\ Supports(log[k].link, policy.fpsTier)
       => policy.stableUpSince \in 0 .. log[j].at

DownWaits ==
  /\ policy.stableDownSince <= now
  /\ \A j \in DOMAIN log :
       /\ policy.fpsTier # 5
       /\ \A k \in j .. Len(log) :
            log[k].tier = policy.fpsTier /\ Terrible(log[k].link)
       => policy.stableDownSince \in 0 .. log[j].at

PromptInv == UpWaits /\ DownWaits /\ StepUpIsPrompt /\ StepDownIsPrompt

\* What the last sample makes of its wait, when the link supports a step up.
LEMMA SupportedStep ==
  ASSUME Consistent, TypeOK, NEW link \in Links, policy.fpsTier # 60,
         Supports(link, policy.fpsTier)
  PROVE  LET q == Decide(policy, link) IN
         /\ now - UpSince(policy, link) >= StepUpTime => q.fpsTier > policy.fpsTier
         /\ q.fpsTier = policy.fpsTier => q.stableUpSince = UpSince(policy, link)
         /\ UpSince(policy, link)
              = IF policy.stableUpSince < 0 THEN now ELSE policy.stableUpSince
<1> DEFINE t == policy.fpsTier
<1>1. t \in Tier
  BY DEF TypeOK, PolicyState
<1>2. StepUpTier(t) > t
  BY <1>1, SMT DEF Tier, StepUpTier
<1>3. WantUp(link, t)
  BY <1>1, <1>2, SMT DEF WantUp, Supports, Tier
<1>4. ~WantDown(link, t)
  BY <1>1, <1>3 DEF Consistent
<1>5. ~StepsDown(policy, link)
  BY <1>4 DEF StepsDown
<1>6. StepsUp(policy, link) <=> now - UpSince(policy, link) >= StepUpTime
  BY <1>3 DEF StepsUp
<1>7. CASE StepsUp(policy, link)
  <2>1. Decide(policy, link).fpsTier = StepUpTier(t)
    BY <1>7 DEF Decide, Changed
  <2>. QED
    BY <1>1, <1>2, <1>3, <2>1, SMT DEF UpSince, Tier
<1>8. CASE ~StepsUp(policy, link)
  <2>1. Decide(policy, link).stableUpSince = UpSince(policy, link)
    BY <1>4, <1>5, <1>8 DEF Decide, Held
  <2>. QED
    BY <1>3, <1>6, <1>8, <2>1 DEF UpSince
<1>. QED
  BY <1>7, <1>8

LEMMA TerribleStep ==
  ASSUME Consistent, TypeOK, NEW link \in Links, policy.fpsTier # 5, Terrible(link)
  PROVE  LET q == Decide(policy, link) IN
         /\ now - DownSince(policy, link) >= StepDownTime => q.fpsTier < policy.fpsTier
         /\ q.fpsTier = policy.fpsTier => q.stableDownSince = DownSince(policy, link)
         /\ DownSince(policy, link)
              = IF policy.stableDownSince < 0 THEN now ELSE policy.stableDownSince
<1> DEFINE t == policy.fpsTier
<1>1. t \in Tier
  BY DEF TypeOK, PolicyState
<1>2. StepDownTier(t) < t
  BY <1>1, SMT DEF Tier, StepDownTier
<1>3. WantDown(link, t)
  BY <1>1, <1>2, SMT DEF WantDown, Terrible, Tier
<1>4. ~WantUp(link, t)
  BY <1>1, <1>3 DEF Consistent
<1>5. ~StepsUp(policy, link)
  BY <1>4 DEF StepsUp
<1>6. StepsDown(policy, link) <=> now - DownSince(policy, link) >= StepDownTime
  BY <1>3, <1>5 DEF StepsDown
<1>7. CASE StepsDown(policy, link)
  <2>1. Decide(policy, link).fpsTier = StepDownTier(t)
    BY <1>5, <1>7 DEF Decide, Changed
  <2>. QED
    BY <1>1, <1>2, <1>3, <1>4, <2>1, SMT DEF DownSince, Tier
<1>8. CASE ~StepsDown(policy, link)
  <2>1. Decide(policy, link).stableDownSince = DownSince(policy, link)
    BY <1>5, <1>8 DEF Decide, Held
  <2>. QED
    BY <1>3, <1>4, <1>6, <1>8, <2>1 DEF DownSince
<1>. QED
  BY <1>7, <1>8

LEMMA SampleKeepsPromptInv ==
  ASSUME Consistent, TypeOK, PromptInv, NEW link \in Links, Sample(link)
  PROVE  PromptInv'
<1> DEFINE t == policy.fpsTier
           n == Len(log)
           q == policy'
           e == log'[n + 1]
<1>1. /\ policy \in PolicyState /\ now \in Nat /\ t \in Tier /\ t \in Nat /\ n \in Nat
      /\ policy.stableUpSince \in Int /\ policy.stableDownSince \in Int
      /\ \A k \in 1 .. n : log[k].at \in Nat
  <2>1. policy \in PolicyState /\ now \in Nat /\ log \in Seq(Entry)
    BY DEF TypeOK
  <2>2. n \in Nat /\ \A k \in 1 .. n : log[k] \in Entry
    BY <2>1, SMT
  <2>3. \A k \in 1 .. n : log[k].at \in Nat
    BY <2>2 DEF Entry
  <2>. QED
    BY <2>1, <2>2, <2>3, SMT DEF PolicyState, Tier, Never
<1>2. /\ q = Decide(policy, link) /\ now' = now
      /\ e.at = now /\ e.link = link /\ e.tier = t /\ e.next = q.fpsTier
      /\ DOMAIN log = 1 .. n /\ DOMAIN log' = 1 .. (n + 1) /\ Len(log') = n + 1
      /\ \A k \in 1 .. n : log'[k] = log[k]
  BY <1>1, SMT DEF Sample, TypeOK
<1>3. /\ q \in PolicyState
      /\ q.stableUpSince \in {Never, now, policy.stableUpSince}
      /\ q.stableDownSince \in {Never, now, policy.stableDownSince}
  BY <1>1, <1>2, DecideCases DEF UpSince, DownSince
<1> HIDE DEF q, e, n
<1>4. UpSince(policy, link) \in Int /\ DownSince(policy, link) \in Int
  BY <1>1, SMT DEF UpSince, DownSince, Never
<1>5. ASSUME NEW j \in 1 .. (n + 1), t # 60,
             \A k \in j .. (n + 1) : log'[k].tier = t /\ Supports(log'[k].link, t)
      PROVE  /\ UpSince(policy, link) \in 0 .. log'[j].at
             /\ now - UpSince(policy, link) >= StepUpTime => q.fpsTier > t
             /\ q.fpsTier = t => q.stableUpSince = UpSince(policy, link)
  <2>1. Supports(link, t)
    BY <1>1, <1>2, <1>5, SMT DEF e
  <2>2. /\ now - UpSince(policy, link) >= StepUpTime => q.fpsTier > t
        /\ q.fpsTier = t => q.stableUpSince = UpSince(policy, link)
        /\ UpSince(policy, link)
             = IF policy.stableUpSince < 0 THEN now ELSE policy.stableUpSince
    BY <1>2, <1>5, <2>1, SupportedStep
  <2>3. CASE j = n + 1
    <3>1. log'[j].at = now /\ policy.stableUpSince <= now
      BY <1>2, <2>3 DEF e, PromptInv, UpWaits
    <3>. QED
      BY <1>1, <2>2, <3>1, SMT
  <2>4. CASE j # n + 1
    <3>1. j \in 1 .. n /\ log'[j] = log[j]
      BY <1>1, <1>2, <2>4, SMT
    <3>2. \A k \in j .. n : log[k].tier = t /\ Supports(log[k].link, t)
      <4> SUFFICES ASSUME NEW k \in j .. n PROVE log[k].tier = t /\ Supports(log[k].link, t)
        OBVIOUS
      <4>1. k \in 1 .. n /\ k \in j .. (n + 1)
        BY <1>1, <3>1, SMT
      <4>. QED
        BY <1>2, <1>5, <4>1
    <3>3. policy.stableUpSince \in 0 .. log[j].at
      BY <1>2, <1>5, <3>1, <3>2 DEF PromptInv, UpWaits, n
    <3>. QED
      BY <1>1, <2>2, <3>1, <3>3, SMT
  <2>. QED
    BY <2>2, <2>3, <2>4
<1>6. ASSUME NEW j \in 1 .. (n + 1), t # 5,
             \A k \in j .. (n + 1) : log'[k].tier = t /\ Terrible(log'[k].link)
      PROVE  /\ DownSince(policy, link) \in 0 .. log'[j].at
             /\ now - DownSince(policy, link) >= StepDownTime => q.fpsTier < t
             /\ q.fpsTier = t => q.stableDownSince = DownSince(policy, link)
  <2>1. Terrible(link)
    BY <1>1, <1>2, <1>6, SMT DEF e
  <2>2. /\ now - DownSince(policy, link) >= StepDownTime => q.fpsTier < t
        /\ q.fpsTier = t => q.stableDownSince = DownSince(policy, link)
        /\ DownSince(policy, link)
             = IF policy.stableDownSince < 0 THEN now ELSE policy.stableDownSince
    BY <1>2, <1>6, <2>1, TerribleStep
  <2>3. CASE j = n + 1
    <3>1. log'[j].at = now /\ policy.stableDownSince <= now
      BY <1>2, <2>3 DEF e, PromptInv, DownWaits
    <3>. QED
      BY <1>1, <2>2, <3>1, SMT
  <2>4. CASE j # n + 1
    <3>1. j \in 1 .. n /\ log'[j] = log[j]
      BY <1>1, <1>2, <2>4, SMT
    <3>2. \A k \in j .. n : log[k].tier = t /\ Terrible(log[k].link)
      <4> SUFFICES ASSUME NEW k \in j .. n PROVE log[k].tier = t /\ Terrible(log[k].link)
        OBVIOUS
      <4>1. k \in 1 .. n /\ k \in j .. (n + 1)
        BY <1>1, <3>1, SMT
      <4>. QED
        BY <1>2, <1>6, <4>1
    <3>3. policy.stableDownSince \in 0 .. log[j].at
      BY <1>2, <1>6, <3>1, <3>2 DEF PromptInv, DownWaits, n
    <3>. QED
      BY <1>1, <2>2, <3>1, <3>3, SMT
  <2>. QED
    BY <2>2, <2>3, <2>4
<1>7. UpWaits'
  <2>1. q.stableUpSince <= now
    BY <1>1, <1>3, SMT DEF PromptInv, UpWaits, Never
  <2>2. ASSUME NEW j \in 1 .. (n + 1), q.fpsTier # 60,
               \A k \in j .. (n + 1) :
                 log'[k].tier = q.fpsTier /\ Supports(log'[k].link, q.fpsTier)
        PROVE  q.stableUpSince \in 0 .. log'[j].at
    <3>1. q.fpsTier = t
      BY <1>1, <1>2, <2>2, SMT DEF e
    <3>. QED
      BY <1>5, <2>2, <3>1
  <2>. QED
    BY <1>2, <2>1, <2>2 DEF UpWaits, q
<1>8. DownWaits'
  <2>1. q.stableDownSince <= now
    BY <1>1, <1>3, SMT DEF PromptInv, DownWaits, Never
  <2>2. ASSUME NEW j \in 1 .. (n + 1), q.fpsTier # 5,
               \A k \in j .. (n + 1) :
                 log'[k].tier = q.fpsTier /\ Terrible(log'[k].link)
        PROVE  q.stableDownSince \in 0 .. log'[j].at
    <3>1. q.fpsTier = t
      BY <1>1, <1>2, <2>2, SMT DEF e
    <3>. QED
      BY <1>6, <2>2, <3>1
  <2>. QED
    BY <1>2, <2>1, <2>2 DEF DownWaits, q
<1>9. ASSUME NEW i \in DOMAIN log', NEW j \in 1 .. i
      PROVE  \/ i = n + 1
             \/ /\ i \in DOMAIN log /\ log'[i] = log[i] /\ log'[j] = log[j]
                /\ \A k \in j .. i : log'[k] = log[k]
  <2>1. CASE i # n + 1
    <3>1. i \in 1 .. n /\ j \in 1 .. n /\ \A k \in j .. i : k \in 1 .. n
      BY <1>1, <1>2, <2>1, SMT
    <3>. QED
      BY <1>2, <3>1
  <2>. QED
    BY <2>1
<1>10. StepUpIsPrompt'
  <2> SUFFICES ASSUME NEW i \in DOMAIN log', NEW j \in 1 .. i, log'[i].tier # 60,
                      \A k \in j .. i : log'[k].tier = log'[i].tier,
                      log'[i].at - log'[j].at >= StepUpTime,
                      \A k \in j .. i : Supports(log'[k].link, log'[i].tier)
               PROVE  log'[i].next > log'[i].tier
    BY DEF StepUpIsPrompt, Run
  <2>1. CASE i = n + 1
    <3>1. log'[i].tier = t /\ log'[i].at = now /\ log'[i].next = q.fpsTier
      BY <1>2, <2>1 DEF e
    <3>2. /\ UpSince(policy, link) \in 0 .. log'[j].at
          /\ now - UpSince(policy, link) >= StepUpTime => q.fpsTier > t
      BY <1>5, <2>1, <3>1
    <3>3. log'[j].at \in Nat /\ StepUpTime \in Nat
      <4>1. j = n + 1 \/ j \in 1 .. n
        BY <1>1, <2>1, SMT
      <4>. QED
        BY <1>1, <1>2, <4>1, TierAssumption DEF e
    <3>. QED
      BY <1>1, <1>4, <3>1, <3>2, <3>3, SMT
  <2>2. CASE i # n + 1
    <3>1. /\ i \in DOMAIN log /\ log'[i] = log[i] /\ log'[j] = log[j]
          /\ \A k \in j .. i : log'[k] = log[k]
      BY <1>9, <2>2
    <3>. QED
      BY <3>1 DEF PromptInv, StepUpIsPrompt, Run
  <2>. QED
    BY <2>1, <2>2
<1>11. StepDownIsPrompt'
  <2> SUFFICES ASSUME NEW i \in DOMAIN log', NEW j \in 1 .. i, log'[i].tier # 5,
                      \A k \in j .. i : log'[k].tier = log'[i].tier,
                      log'[i].at - log'[j].at >= StepDownTime,
                      \A k \in j .. i : Terrible(log'[k].link)
               PROVE  log'[i].next < log'[i].tier
    BY DEF StepDownIsPrompt, Run
  <2>1. CASE i = n + 1
    <3>1. log'[i].tier = t /\ log'[i].at = now /\ log'[i].next = q.fpsTier
      BY <1>2, <2>1 DEF e
    <3>2. /\ DownSince(policy, link) \in 0 .. log'[j].at
          /\ now - DownSince(policy, link) >= StepDownTime => q.fpsTier < t
      BY <1>6, <2>1, <3>1
    <3>3. log'[j].at \in Nat /\ StepDownTime \in Nat
      <4>1. j = n + 1 \/ j \in 1 .. n
        BY <1>1, <2>1, SMT
      <4>. QED
        BY <1>1, <1>2, <4>1, TierAssumption DEF e
    <3>. QED
      BY <1>1, <1>4, <3>1, <3>2, <3>3, SMT
  <2>2. CASE i # n + 1
    <3>1. /\ i \in DOMAIN log /\ log'[i] = log[i] /\ log'[j] = log[j]
          /\ \A k \in j .. i : log'[k] = log[k]
      BY <1>9, <2>2
    <3>. QED
      BY <3>1 DEF PromptInv, StepDownIsPrompt, Run
  <2>. QED
    BY <2>1, <2>2
<1>. QED
  BY <1>7, <1>8, <1>10, <1>11 DEF PromptInv

\* In a consistent configuration no step is late: a link that supports the next
\* tier, or is terrible, throughout the wait moves the tier at its end.
THEOREM StepsArePrompt ==
  ASSUME Consistent
  PROVE  Spec => []TierChangesArePrompt
<1>1. Init => PromptInv
  BY SMT DEF Init, InitialState, Never, PromptInv, UpWaits, DownWaits, StepUpIsPrompt,
     StepDownIsPrompt
<1>2. TypeOK /\ PromptInv /\ [Next]_vars => PromptInv'
  <2> SUFFICES ASSUME TypeOK, PromptInv, [Next]_vars PROVE PromptInv'
    OBVIOUS
  <2>1. CASE Tick
    <3>1. policy.stableUpSince \in Int /\ policy.stableDownSince \in Int /\ now \in Nat
      BY SMT DEF TypeOK, PolicyState, Never
    <3>2. /\ policy' = policy /\ log' = log /\ now' = now + 1
      BY <2>1 DEF Tick
    <3>3. policy.stableUpSince <= now' /\ policy.stableDownSince <= now'
      BY <3>1, <3>2, SMT DEF PromptInv, UpWaits, DownWaits
    <3>. QED
      BY <3>2, <3>3 DEF PromptInv, UpWaits, DownWaits, StepUpIsPrompt, StepDownIsPrompt, Run
  <2>2. ASSUME NEW link \in Links, Sample(link) PROVE PromptInv'
    BY <2>2, SampleKeepsPromptInv
  <2>3. CASE UNCHANGED vars
    BY <2>3 DEF vars, PromptInv, UpWaits, DownWaits, StepUpIsPrompt, StepDownIsPrompt, Run
  <2>. QED
    BY <2>1, <2>2, <2>3 DEF Next
<1>3. PromptInv => TierChangesArePrompt
  BY DEF PromptInv, TierChangesArePrompt
<1>. QED
  BY <1>1, <1>2, <1>3, TypeCorrect, PTL DEF Spec

=============================================================================
