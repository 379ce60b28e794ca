---------------------------- MODULE RecoveryFlow ----------------------------
(***************************************************************************)
(* ServerRecoveryPolicy driven by an app that is paused and resumed, loses *)
(* its transport and its session, and asks the policy at every such event. *)
(* The clock is real time; `kicks` remembers what the policy asked for, so *)
(* that a property can relate decisions taken at different times.          *)
(***************************************************************************)
EXTENDS ServerRecoveryPolicy

CONSTANTS
  StartTime,   \* the clock when the app starts, long after the epoch
  MaxTime      \* bound on the clock

ASSUME FlowAssumption ==
  /\ StartTime \in Nat \ {0}
  /\ StartTime >= MinKickInterval
  /\ MaxTime \in Nat

VARIABLES
  recovery,     \* the caller's RecoveryState
  now,          \* the wall clock
  away,         \* is the app out of the foreground
  lastPause,    \* when it last left it, 0 before the first time
  kicks         \* the kicks so far, oldest first

vars == <<recovery, now, away, lastPause, kicks>>

\* One remembered kick: when, what, its delay, and whether it came out of a resume
\* too soon after the latest pause.
Kick == [at : Nat, type : KickType, delay : Nat, hasty : BOOLEAN]

TypeOK ==
  /\ recovery \in RecoveryState
  /\ now \in Nat
  /\ away \in BOOLEAN
  /\ lastPause \in Nat
  /\ kicks \in Seq(Kick)

Init ==
  /\ recovery = InitialRecovery
  /\ now = StartTime
  /\ away = FALSE
  /\ lastPause = 0
  /\ kicks = << >>

Tick ==
  /\ now < MaxTime
  /\ now' = now + 1
  /\ UNCHANGED <<recovery, away, lastPause, kicks>>

Pause ==
  /\ ~away
  /\ away' = TRUE
  /\ lastPause' = now
  /\ recovery' = OnPaused(recovery, now)
  /\ UNCHANGED <<now, kicks>>

\* Is this less than MinBackground after the latest pause, or before any.
TooSoon == (IF lastPause = 0 THEN 0 ELSE now - lastPause) < MinBackground

\* Apply the policy's answer to one trigger.
Ask(trigger, transport, health, cached, hasty) ==
  LET action == OnTrigger(recovery, trigger, now, transport, health, cached)
      kick == [at |-> now, type |-> action.type, delay |-> action.delay, hasty |-> hasty]
  IN /\ recovery' = action.next
     /\ kicks' = IF action.type \in KickType THEN Append(kicks, kick) ELSE kicks

\* The app comes to the front, after a pause or, as when it was merely inactive,
\* without one: the policy then judges by a pause that is over.
Resume(transport, health, cached) ==
  /\ away' = FALSE
  /\ Ask("appResumed", transport, health, cached, TooSoon)
  /\ UNCHANGED <<now, lastPause>>

Signal(trigger, transport, health, cached) ==
  /\ trigger # "appResumed"
  /\ Ask(trigger, transport, health, cached, FALSE)
  /\ UNCHANGED <<now, away, lastPause>>

Next ==
  \/ Tick
  \/ Pause
  \/ \E transport \in TransportState, health \in SessionHealth, cached \in BOOLEAN :
       \/ Resume(transport, health, cached)
       \/ \E trigger \in RecoveryTrigger : Signal(trigger, transport, health, cached)

Spec == Init /\ [][Next]_vars

-----------------------------------------------------------------------------
\* However triggers pile up, n + 1 consecutive kicks span at least n throttle
\* intervals: pauses, healthy verdicts and gated resumes never reset the clock
\* that ServerRecoveryPolicy.onTrigger throttles on.
NoReconnectSpam ==
  \A i, j \in DOMAIN kicks :
    i < j => kicks[j].at - kicks[i].at >= (j - i) * MinKickInterval

\* No kick comes out of a resume sooner than MinBackground after the app last
\* left the foreground, however many resumes, pauses and other kicks lie between:
\* lastPausedAt holds the latest pause when appResumed is judged.
ResumeGating == \A i \in DOMAIN kicks : ~kicks[i].hasty

\* Scheduled delays follow the schedule: a later retry never waits less than an
\* earlier one, whatever kicks, pauses and healthy spells lie between them, and
\* once there were as many kicks as entries each waits the last one, the cap.
BackoffFollowsSchedule ==
  \A i, j \in DOMAIN kicks :
    /\ kicks[i].type = "scheduleRetry" /\ kicks[j].type = "scheduleRetry"
    /\ i <= j
    => /\ kicks[i].delay <= kicks[j].delay
       /\ j >= Len(Backoff) => kicks[j].delay = Backoff[Len(Backoff)]

=============================================================================
