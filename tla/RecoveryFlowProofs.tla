------------------------- MODULE RecoveryFlowProofs -------------------------
(***************************************************************************)
(* Proofs about the recovery policy, for every schedule, throttle interval *)
(* and gate, and without a bound on the clock other than MaxTime.          *)
(***************************************************************************)
EXTENDS RecoveryFlow, TLAPS

\* The history is what the RecoveryState remembers of it: attempt counts the
\* kicks, lastKickAt is the time of the last, lastPausedAt that of the latest
\* pause.
HistoryAgrees ==
  /\ recovery.attempt = Len(kicks)
  /\ Len(kicks) > 0 => recovery.lastKickAt = kicks[Len(kicks)].at
  /\ recovery.lastPausedAt = lastPause
  /\ now > 0

\* The delay of the i-th kick, when it is a scheduled retry, is the schedule's.
DelaysAgree ==
  \A i \in DOMAIN kicks :
    kicks[i].type = "scheduleRetry" => kicks[i].delay = BackoffDelay(i)

IInv ==
  /\ TypeOK
  /\ HistoryAgrees
  /\ DelaysAgree
  /\ NoReconnectSpam
  /\ ResumeGating

-----------------------------------------------------------------------------
\* Gaps between three times add up.
LEMMA GapsAdd ==
  ASSUME NEW a \in Int, NEW b \in Int, NEW c \in Int, NEW s \in Int, NEW t \in Int,
         b - a >= s, c - b >= t
  PROVE  c - a >= s + t
OBVIOUS

\* The delay of every attempt is an entry of the schedule.
LEMMA BackoffDelayType ==
  ASSUME NEW n \in Nat \ {0}
  PROVE  BackoffDelay(n) \in Nat
<1>1. (IF n <= Len(Backoff) THEN n ELSE Len(Backoff)) \in 1 .. Len(Backoff)
  BY PolicyAssumption
<1>2. QED
  BY <1>1, PolicyAssumption DEF BackoffDelay

\* A trigger's answer is well typed, and a kick is one more attempt made now.
LEMMA OnTriggerType ==
  ASSUME NEW previous \in RecoveryState, NEW trigger \in RecoveryTrigger,
         NEW t \in Nat, NEW transport \in TransportState,
         NEW health \in SessionHealth, NEW cached \in BOOLEAN,
         NEW action, action = OnTrigger(previous, trigger, t, transport, health, cached)
  PROVE  /\ action.type \in ActionType
         /\ action.delay \in Nat
         /\ action.next \in RecoveryState
         /\ action.next.lastPausedAt = previous.lastPausedAt
         /\ action.type \notin KickType =>
              /\ action.next.attempt = previous.attempt
              /\ action.next.lastKickAt = previous.lastKickAt
         /\ action.type \in KickType =>
              /\ action.next.attempt = previous.attempt + 1
              /\ action.next.lastKickAt = t
              /\ t - previous.lastKickAt >= MinKickInterval
              /\ ~ResumeTooShort(previous, trigger, t)
              /\ action.type = "scheduleRetry" =>
                   action.delay = BackoffDelay(previous.attempt + 1)
<1> DEFINE next == Kicked(previous, t)
           kind == KickKind(next.attempt, transport, health, cached)
<1>1. /\ next \in RecoveryState
      /\ next.attempt = previous.attempt + 1
      /\ next.lastKickAt = t
      /\ next.lastPausedAt = previous.lastPausedAt
  BY DEF Kicked, RecoveryState
<1>2. kind \in KickType
  BY DEF KickKind, KickType
<1>3. BackoffDelay(next.attempt) \in Nat
  BY <1>1, BackoffDelayType DEF RecoveryState
<1> HIDE DEF next, kind
<1>4. CASE health = "healthy"
  BY <1>4 DEF OnTrigger, RecoveryState, ActionType, KickType
<1>5. CASE health # "healthy" /\ (ResumeTooShort(previous, trigger, t) \/ Throttled(previous, t))
  BY <1>5 DEF OnTrigger, ActionType, KickType
<1>6. CASE health # "healthy" /\ ~ResumeTooShort(previous, trigger, t) /\ ~Throttled(previous, t)
  <2>1. action = [type |-> kind,
                  delay |-> IF kind = "scheduleRetry" THEN BackoffDelay(next.attempt) ELSE 0,
                  next |-> next]
    BY <1>6 DEF OnTrigger, next, kind
  <2>2. t - previous.lastKickAt >= MinKickInterval
    BY <1>6, PolicyAssumption DEF Throttled, RecoveryState
  <2>. QED
    BY <1>1, <1>2, <1>3, <1>6, <2>1, <2>2 DEF ActionType
<1>. QED
  BY <1>4, <1>5, <1>6

\* The throttle arithmetic: one more kick adds one more interval.
LEMMA OneMoreInterval ==
  ASSUME NEW m \in Nat, NEW k \in Int
  PROVE  /\ (k + 1) * m = k * m + m
         /\ k * m \in Int
         /\ 0 * m = 0
OBVIOUS

-----------------------------------------------------------------------------
\* One answer of the policy preserves the invariant, whatever the trigger, given
\* that the trigger is no hasty resume or that the policy's own gate sees it.
LEMMA AskPreserves ==
  ASSUME IInv, NEW trigger \in RecoveryTrigger, NEW transport \in TransportState,
         NEW health \in SessionHealth, NEW cached \in BOOLEAN, NEW hasty \in BOOLEAN,
         hasty => ResumeTooShort(recovery, trigger, now),
         Ask(trigger, transport, health, cached, hasty),
         now' = now, away' \in BOOLEAN, lastPause' = lastPause
  PROVE  IInv'
<1> DEFINE action == OnTrigger(recovery, trigger, now, transport, health, cached)
           kick == [at |-> now, type |-> action.type, delay |-> action.delay,
                    hasty |-> hasty]
           n == Len(kicks)
<1>0. /\ recovery \in RecoveryState /\ now \in Nat /\ kicks \in Seq(Kick) /\ n \in Nat
  BY DEF IInv, TypeOK
<1>1. /\ action.type \in ActionType
      /\ action.delay \in Nat
      /\ action.next \in RecoveryState
      /\ action.next.lastPausedAt = recovery.lastPausedAt
      /\ action.type \notin KickType =>
           /\ action.next.attempt = recovery.attempt
           /\ action.next.lastKickAt = recovery.lastKickAt
      /\ action.type \in KickType =>
           /\ action.next.attempt = recovery.attempt + 1
           /\ action.next.lastKickAt = now
           /\ now - recovery.lastKickAt >= MinKickInterval
           /\ ~ResumeTooShort(recovery, trigger, now)
           /\ action.type = "scheduleRetry" =>
                action.delay = BackoffDelay(recovery.attempt + 1)
  BY <1>0, OnTriggerType
<1>2. /\ recovery' = action.next
      /\ kicks' = IF action.type \in KickType THEN Append(kicks, kick) ELSE kicks
  BY Zenon DEF Ask
<1>3. recovery.flowActive \in BOOLEAN
  BY <1>0 DEF RecoveryState
<1> HIDE DEF action
<1>4. CASE action.type \notin KickType
  BY <1>0, <1>1, <1>2, <1>4
     DEF IInv, TypeOK, HistoryAgrees, DelaysAgree, NoReconnectSpam, ResumeGating
<1>5. CASE action.type \in KickType
  <2>1. kick \in Kick
    BY <1>0, <1>1, <1>3, <1>5 DEF Kick
  <2>2. /\ kicks' = Append(kicks, kick)
        /\ kicks' \in Seq(Kick)
        /\ Len(kicks') = n + 1
        /\ kicks'[n + 1] = kick
        /\ \A i \in 1 .. n : kicks'[i] = kicks[i]
        /\ DOMAIN kicks' = 1 .. n + 1
        /\ DOMAIN kicks = 1 .. n
    BY <1>0, <1>2, <1>5, <2>1
  <2>0. \A i \in 1 .. n : kicks[i].at \in Nat
    <3>1. \A i \in 1 .. n : kicks[i] \in Kick
      BY <1>0
    <3>. QED BY <3>1 DEF Kick
  <2> HIDE DEF n
  <2>3. TypeOK'
    BY <1>0, <1>1, <1>2, <2>2 DEF IInv, TypeOK
  <2>4. HistoryAgrees'
    BY <1>0, <1>1, <1>2, <1>5, <2>2 DEF IInv, HistoryAgrees, n
  <2>5. DelaysAgree'
    BY <1>0, <1>1, <1>5, <2>2 DEF IInv, HistoryAgrees, DelaysAgree, n
  <2>6. ResumeGating'
    BY <1>0, <1>1, <1>5, <2>2 DEF IInv, ResumeGating
  <2>8. NoReconnectSpam'
    <3> SUFFICES ASSUME NEW i \in 1 .. n + 1, NEW j \in 1 .. n + 1, i < j
                 PROVE  kicks'[j].at - kicks'[i].at >= (j - i) * MinKickInterval
      BY <2>2, Zenon DEF NoReconnectSpam
    <3>1. CASE j <= n
      <4>1. i \in 1 .. n /\ j \in 1 .. n
        BY <3>1, <1>0
      <4>2. kicks[j].at - kicks[i].at >= (j - i) * MinKickInterval
        BY <4>1, <2>2, Zenon DEF IInv, NoReconnectSpam
      <4>. QED
        BY <4>1, <4>2, <2>2, Zenon
    <3>2. CASE j = n + 1
      <4>1. i \in 1 .. n /\ n \in 1 .. n /\ n > 0
        BY <3>2, <1>0
      <4>2. kicks[n].at - kicks[i].at >= (n - i) * MinKickInterval
        <5>1. CASE i = n
          <6>1. kicks[n].at \in Nat
            BY <2>0, <4>1
          <6>2. (n - i) * MinKickInterval = 0
            <7>1. n - i = 0
              BY <5>1, <1>0
            <7>. QED BY <7>1, OneMoreInterval, PolicyAssumption
          <6>. QED BY <5>1, <6>1, <6>2
        <5>2. CASE i < n
          BY <5>2, <4>1, <2>2, Zenon DEF IInv, NoReconnectSpam
        <5>. QED BY <5>1, <5>2, <4>1, <1>0
      <4>3. now - kicks[n].at >= MinKickInterval
        BY <1>1, <1>5, <4>1 DEF IInv, HistoryAgrees, n
      <4>4. kicks'[j].at = now /\ kicks'[i].at = kicks[i].at
        BY <3>2, <2>2, <4>1
      <4>5. (j - i) * MinKickInterval = (n - i) * MinKickInterval + MinKickInterval
        <5>1. n - i \in Int /\ j - i = (n - i) + 1
          BY <3>2, <1>0
        <5>. QED BY <5>1, OneMoreInterval, PolicyAssumption
      <4>6. kicks[n].at \in Nat /\ kicks[i].at \in Nat
        BY <2>0, <4>1
      <4>7. (n - i) * MinKickInterval \in Int
        BY <1>0, OneMoreInterval, PolicyAssumption
      <4> DEFINE span == (n - i) * MinKickInterval
      <4>8. now - kicks[i].at >= span + MinKickInterval
        <5>1. span \in Int /\ kicks[n].at - kicks[i].at >= span
          BY <4>2, <4>7
        <5> HIDE DEF span
        <5>2. now \in Int /\ MinKickInterval \in Int
          BY <1>0, PolicyAssumption
        <5>. QED BY <4>3, <4>6, <5>1, <5>2, GapsAdd
      <4>. QED
        BY <4>4, <4>5, <4>8, Zenon
    <3>. QED BY <3>1, <3>2, <1>0
  <2>. QED BY <2>3, <2>4, <2>5, <2>6, <2>8 DEF IInv
<1>. QED BY <1>4, <1>5

LEMMA InitIInv == Init => IInv
<1> SUFFICES ASSUME Init PROVE IInv
  OBVIOUS
<1>1. kicks = << >> /\ kicks \in Seq(Kick) /\ Len(kicks) = 0 /\ DOMAIN kicks = {}
  BY DEF Init
<1>2. TypeOK
  BY <1>1, FlowAssumption DEF Init, TypeOK, InitialRecovery, RecoveryState
<1>3. HistoryAgrees
  BY <1>1, FlowAssumption DEF Init, HistoryAgrees, InitialRecovery
<1>. QED
  BY <1>1, <1>2, <1>3
     DEF IInv, DelaysAgree, NoReconnectSpam, ResumeGating

LEMMA NextIInv == IInv /\ [Next]_vars => IInv'
<1> SUFFICES ASSUME IInv, [Next]_vars PROVE IInv'
  OBVIOUS
<1>0. recovery \in RecoveryState /\ now \in Nat /\ lastPause \in Nat
  BY DEF IInv, TypeOK
<1>1. CASE Tick
  BY <1>0, <1>1 DEF Tick, IInv, TypeOK, HistoryAgrees, DelaysAgree, NoReconnectSpam,
     ResumeGating
<1>2. CASE Pause
  <2>1. /\ recovery' \in RecoveryState
        /\ recovery'.lastPausedAt = now
        /\ recovery'.attempt = recovery.attempt
        /\ recovery'.lastKickAt = recovery.lastKickAt
    BY <1>0, <1>2 DEF Pause, OnPaused, RecoveryState
  <2>. QED
    BY <1>2, <2>1 DEF Pause, IInv, TypeOK, HistoryAgrees, DelaysAgree, NoReconnectSpam,
       ResumeGating
<1>3. ASSUME NEW transport \in TransportState, NEW health \in SessionHealth,
             NEW cached \in BOOLEAN, Resume(transport, health, cached)
      PROVE  IInv'
  <2>1. TooSoon \in BOOLEAN
    BY DEF TooSoon
  <2>2. TooSoon => ResumeTooShort(recovery, "appResumed", now)
    BY <1>0, PolicyAssumption, FlowAssumption DEF TooSoon, ResumeTooShort, IInv, HistoryAgrees
  <2>3. /\ Ask("appResumed", transport, health, cached, TooSoon)
        /\ now' = now /\ away' \in BOOLEAN /\ lastPause' = lastPause
    BY <1>3 DEF Resume
  <2>4. "appResumed" \in RecoveryTrigger
    BY DEF RecoveryTrigger
  <2>. QED
    BY <2>1, <2>2, <2>3, <2>4, AskPreserves
<1>4. ASSUME NEW transport \in TransportState, NEW health \in SessionHealth,
             NEW cached \in BOOLEAN, NEW trigger \in RecoveryTrigger,
             Signal(trigger, transport, health, cached)
      PROVE  IInv'
  <2>1. /\ Ask(trigger, transport, health, cached, FALSE)
        /\ now' = now /\ away' \in BOOLEAN /\ lastPause' = lastPause
    BY <1>4 DEF Signal, IInv, TypeOK
  <2>. QED
    BY <2>1, AskPreserves
<1>5. CASE UNCHANGED vars
  BY <1>5 DEF vars, IInv, TypeOK, HistoryAgrees, DelaysAgree, NoReconnectSpam,
     ResumeGating
<1>. QED
  BY <1>1, <1>2, <1>3, <1>4, <1>5 DEF Next

THEOREM Invariance == Spec => []IInv
BY InitIInv, NextIInv, PTL DEF Spec

\* Type correctness of the recovery flow.
THEOREM TypeCorrect == Spec => []TypeOK
<1>1. IInv => TypeOK
  BY DEF IInv
<1>. QED
  BY <1>1, Invariance, PTL

\* The throttle holds over any number of kicks, whatever happens between them.
THEOREM ThrottleSpacesKicks == Spec => []NoReconnectSpam
<1>1. IInv => NoReconnectSpam
  BY DEF IInv
<1>. QED
  BY <1>1, Invariance, PTL

\* No kick comes out of a resume too soon after the latest pause.
THEOREM ResumeIsGated == Spec => []ResumeGating
<1>1. IInv => ResumeGating
  BY DEF IInv
<1>. QED
  BY <1>1, Invariance, PTL

\* With a schedule that never shrinks, as the default is, retries never come
\* closer together and settle on the last entry.
THEOREM BackoffGrowsToCap ==
  ASSUME \A a, b \in 1 .. Len(Backoff) : a <= b => Backoff[a] <= Backoff[b]
  PROVE  Spec => []BackoffFollowsSchedule
<1>1. IInv => BackoffFollowsSchedule
  <2> SUFFICES ASSUME IInv, NEW i \in DOMAIN kicks, NEW j \in DOMAIN kicks,
                      kicks[i].type = "scheduleRetry", kicks[j].type = "scheduleRetry",
                      i <= j
               PROVE  /\ kicks[i].delay <= kicks[j].delay
                      /\ j >= Len(Backoff) => kicks[j].delay = Backoff[Len(Backoff)]
    BY DEF BackoffFollowsSchedule
  <2>1. i \in Nat \ {0} /\ j \in Nat \ {0}
    BY DEF IInv, TypeOK
  <2>2. kicks[i].delay = BackoffDelay(i) /\ kicks[j].delay = BackoffDelay(j)
    BY DEF IInv, DelaysAgree
  <2>3. Len(Backoff) \in Nat \ {0}
    BY PolicyAssumption
  <2>. QED
    BY <2>1, <2>2, <2>3 DEF BackoffDelay
<1>. QED
  BY <1>1, Invariance, PTL

=============================================================================
