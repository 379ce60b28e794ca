------------------------ MODULE ServerRecoveryPolicy ------------------------
(***************************************************************************)
(* The decision function of packages/iterm2_host/lib/network/recovery/     *)
(* server_recovery_policy.dart.  The Dart class is a pair of pure static   *)
(* functions, so this module has no variables: callers keep the            *)
(* RecoveryState and apply the action it returns.  Times are the callers'  *)
(* milliseconds on an arbitrary scale; the reason strings are left out.    *)
(***************************************************************************)
EXTENDS Integers, Sequences

CONSTANTS
  MinKickInterval,   \* RecoveryConfig.minKickIntervalMs
  MinBackground,     \* RecoveryConfig.minBackgroundForKickMs
  Backoff            \* RecoveryConfig.backoffSeconds, one delay per attempt

ASSUME PolicyAssumption ==
  /\ MinKickInterval \in Nat
  /\ MinBackground \in Nat
  /\ Backoff \in Seq(Nat)
  /\ Len(Backoff) > 0

RecoveryTrigger == {"appResumed", "transportDisconnected", "negotiationFailed"}
SessionHealth == {"healthy", "unhealthy", "unknown"}
TransportState == {"connected", "connecting", "disconnected"}

RecoveryState ==
  [flowToken : Nat, flowActive : BOOLEAN, attempt : Nat,
   lastKickAt : Nat, lastPausedAt : Nat]

InitialRecovery ==
  [flowToken |-> 0, flowActive |-> FALSE, attempt |-> 0,
   lastKickAt |-> 0, lastPausedAt |-> 0]

\* The action types that make the caller do something; "none" and "stop" do not.
KickType == {"tryDirectIpv6", "reconnectTransport", "restartSession", "scheduleRetry"}
ActionType == KickType \cup {"none", "stop"}

-----------------------------------------------------------------------------
\* Beside some definitions stands a wrong version of it, named "...Wrong": the
\* mistake a property is there to notice.

ResumeTooShortWrong(previous, trigger, now) ==
  trigger = "appResumed" /\ previous.lastPausedAt = 0 /\ MinBackground > 0

\* A resume counts only after a recorded pause of at least MinBackground.
ResumeTooShort(previous, trigger, now) ==
  /\ trigger = "appResumed"
  /\ \/ previous.lastPausedAt = 0 /\ MinBackground > 0
     \/ previous.lastPausedAt > 0 /\ now - previous.lastPausedAt < MinBackground

ThrottledWrong(previous, now) == previous.flowActive /\ now - previous.lastKickAt < MinKickInterval
Throttled(previous, now) == now - previous.lastKickAt < MinKickInterval

KickedWrong(previous, now) ==
  [flowToken |-> previous.flowToken + 1, flowActive |-> TRUE,
   attempt |-> previous.attempt + 1, lastKickAt |-> previous.lastKickAt - now,
   lastPausedAt |-> previous.lastPausedAt]

\* The state after a kick: a new flow token, one more attempt, the kick's time.
Kicked(previous, now) ==
  [flowToken |-> previous.flowToken + 1, flowActive |-> TRUE,
   attempt |-> previous.attempt + 1, lastKickAt |-> now,
   lastPausedAt |-> previous.lastPausedAt]

\* What a kick does, given the number of the attempt it makes.
KickKind(attempt, transport, health, cached) ==
  IF attempt = 1 /\ cached THEN "tryDirectIpv6"
  ELSE IF transport = "disconnected" THEN "reconnectTransport"
  ELSE IF transport = "connected" /\ health = "unhealthy" THEN "restartSession"
  ELSE "scheduleRetry"

BackoffDelayWrong(attempt) == Backoff[1 + ((attempt - 1) % Len(Backoff))]

\* The attempt's entry of the schedule, the last one for every later attempt.
BackoffDelay(attempt) ==
  Backoff[IF attempt <= Len(Backoff) THEN attempt ELSE Len(Backoff)]

\* The action for a trigger: its type, the retry delay (0 when none), the next state.
OnTrigger(previous, trigger, now, transport, health, cached) ==
  LET next == Kicked(previous, now)
      kind == KickKind(next.attempt, transport, health, cached)
  IN IF health = "healthy" THEN
       [type |-> "stop", delay |-> 0, next |-> [previous EXCEPT !.flowActive = FALSE]]
     ELSE IF ResumeTooShort(previous, trigger, now) \/ Throttled(previous, now) THEN
       [type |-> "none", delay |-> 0, next |-> previous]
     ELSE
       [type |-> kind,
        delay |-> IF kind = "scheduleRetry" THEN BackoffDelay(next.attempt) ELSE 0,
        next |-> next]

OnPaused(previous, now) ==
  [previous EXCEPT !.lastPausedAt = now, !.flowActive = FALSE]

=============================================================================
