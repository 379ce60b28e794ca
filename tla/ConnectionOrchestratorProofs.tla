-------------------- MODULE ConnectionOrchestratorProofs --------------------
(***************************************************************************)
(* Proofs about the orchestrator for every number of concurrent connects,  *)
(* of addresses, attempts, stray dials and hint changes.                   *)
(***************************************************************************)
EXTENDS ConnectionOrchestrator, TLAPS

\* What a flow may rely on at its await: a cached answer is a real record, a
\* dial has an address, and by then the book is not empty.  A snapshot with a
\* record means that the book has one; a flow that was handed an empty book
\* while the book is filled will get the server's hint.
FlowInv ==
  \A f \in Flows :
    /\ flow[f].pc # "done" /\ flow[f].book # NoRecord => book # NoRecord
    /\ flow[f].pc = "cached" => flow[f].book.addr \in Addrs /\ book # NoRecord
    /\ flow[f].pc = "dialing" => flow[f].addr \in Addrs /\ book # NoRecord
    /\ flow[f].pc = "fetching" /\ flow[f].book = NoRecord /\ book # NoRecord
         => hint # NoRecord

HintInv == hint # NoRecord => hint.addr \in Addrs

\* A failed call leaves the flag set, and no step clears it that stays in failed.
FailedAvoidsCache == state = "failed" => directAttemptFailed

IInv ==
  /\ TypeOK
  /\ FlowInv
  /\ HintInv
  /\ ConnectedIsRecorded
  /\ FailedAvoidsCache
  /\ ConnectingIsBacked
  /\ RetryTimerIsUnique

-----------------------------------------------------------------------------
LEMMA RecordFacts ==
  /\ NoRecord \in Record
  /\ \A a \in Addrs, t \in Nat : Upsert(a, t) \in Record /\ Upsert(a, t) # NoRecord
  /\ \A r \in Record : r.addr \in Addrs => r # NoRecord
BY OrchestratorAssumption DEF Record, NoRecord, Upsert

\* A record the resolver picks from a book is that book's, with an address.
LEMMA PickedRecord ==
  ASSUME NEW b \in Record, PickPreferred(b) # NoRecord
  PROVE  b.addr \in Addrs /\ b # NoRecord
BY OrchestratorAssumption DEF PickPreferred, Record, NoRecord

\* A flow that enters the resolver is well typed, and it waits for a cached
\* answer only when its book has one.
LEMMA ResolvingType ==
  ASSUME NEW k \in 1 .. MaxAttempts, NEW t \in Nat, NEW b \in Record, NEW failed \in BOOLEAN,
         NEW g, g = Resolving(k, t, b, failed)
  PROVE  /\ g \in FlowState
         /\ g.pc \in {"cached", "fetching"}
         /\ g.book = b
         /\ g.pc = "cached" => b.addr \in Addrs /\ b # NoRecord
BY PickedRecord, OrchestratorAssumption DEF Resolving, FlowState

\* A trigger's answer keeps the RecoveryState well typed and its delay a number.
LEMMA OnTriggerType ==
  ASSUME NEW previous \in RecoveryState, NEW trigger, NEW t \in Nat, NEW transport,
         NEW health, NEW cached \in BOOLEAN, NEW action,
         action = OnTrigger(previous, trigger, t, transport, health, cached)
  PROVE  action.next \in RecoveryState /\ action.delay \in Nat
<1>1. Kicked(previous, t) \in RecoveryState
  BY DEF Kicked, RecoveryState
<1>2. \A n \in Nat \ {0} : BackoffDelay(n) \in Nat
  <2> SUFFICES ASSUME NEW n \in Nat \ {0} PROVE BackoffDelay(n) \in Nat
    OBVIOUS
  <2>1. (IF n <= Len(Backoff) THEN n ELSE Len(Backoff)) \in 1 .. Len(Backoff)
    BY PolicyAssumption
  <2>. QED
    BY <2>1, PolicyAssumption DEF BackoffDelay
<1>3. BackoffDelay(Kicked(previous, t).attempt) \in Nat
  BY <1>2 DEF Kicked, RecoveryState
<1>4. [previous EXCEPT !.flowActive = FALSE] \in RecoveryState
  BY DEF RecoveryState
<1>. QED
  BY <1>1, <1>3, <1>4 DEF OnTrigger

-----------------------------------------------------------------------------
\* Entering _connectOnce keeps the invariant's parts about flows and states.
LEMMA ConnectOncePreserves ==
  ASSUME IInv, NEW f \in Flows, NEW t \in Nat, NEW failed \in BOOLEAN,
         ConnectOnce(f, t, failed),
         recovery' \in RecoveryState, timers' \in SUBSET timers,
         UNCHANGED <<book, lastAttempt, peer, strays, hint, hints, now, reached>>
  PROVE  IInv'
<1> DEFINE g == Resolving(1, t, book, failed)
<1>0. /\ book \in Record /\ flow \in [Flows -> FlowState] /\ 1 \in 1 .. MaxAttempts
  BY OrchestratorAssumption DEF IInv, TypeOK
<1>1. /\ g \in FlowState
      /\ g.pc \in {"cached", "fetching"}
      /\ g.book = book
      /\ g.pc = "cached" => book.addr \in Addrs /\ book # NoRecord
  BY <1>0, ResolvingType
<1>2. /\ flow' = [flow EXCEPT ![f] = g]
      /\ state' = "resolving"
      /\ directAttemptFailed' = failed
  BY Zenon DEF ConnectOnce
<1> HIDE DEF g
<1>3. TypeOK'
  BY <1>0, <1>1, <1>2 DEF IInv, TypeOK, OrchestratorState
<1>4. FlowInv'
  BY <1>0, <1>1, <1>2 DEF IInv, FlowInv
<1>5. HintInv' /\ ConnectedIsRecorded' /\ FailedAvoidsCache' /\ ConnectingIsBacked'
  BY <1>2 DEF IInv, HintInv, ConnectedIsRecorded, FailedAvoidsCache, ConnectingIsBacked
<1>6. RetryTimerIsUnique'
  BY <1>2 DEF IInv, RetryTimerIsUnique
<1>. QED
  BY <1>3, <1>4, <1>5, <1>6 DEF IInv

\* So does the answer of the resolver, from the cache or from the server.
LEMMA ResolvedPreserves ==
  ASSUME IInv, NEW f \in Flows, NEW r \in Record, Resolved(f, r),
         r # NoRecord => r.addr \in Addrs /\ (book # NoRecord \/ hint # NoRecord),
         flow[f].pc # "done",
         r = NoRecord /\ book # NoRecord => flow[f].book # NoRecord,
         UNCHANGED <<recovery, timers, strays, hint, hints, now, reached>>
  PROVE  IInv' /\ (book # NoRecord => book' # NoRecord)
<1>0. /\ book \in Record /\ flow \in [Flows -> FlowState] /\ flow[f].book \in Record
      /\ hint \in Record
  BY DEF IInv, TypeOK, FlowState
<1>1. CASE r = NoRecord
  <2>1. /\ book' = flow[f].book
        /\ directAttemptFailed' = TRUE
        /\ state' = "failed"
        /\ flow' = [flow EXCEPT ![f] = Idle]
        /\ UNCHANGED <<lastAttempt, peer>>
    BY <1>1 DEF Resolved
  <2>2. book # NoRecord => book' # NoRecord
    BY <1>1, <2>1
  <2>3. Idle \in FlowState
    BY RecordFacts, OrchestratorAssumption DEF Idle, FlowState
  <2>4. TypeOK'
    BY <1>0, <2>1, <2>3 DEF IInv, TypeOK, OrchestratorState
  <2>5. FlowInv'
    BY <1>0, <1>1, <2>1, <2>2 DEF IInv, FlowInv, Idle
  <2>6. HintInv' /\ ConnectedIsRecorded' /\ FailedAvoidsCache' /\ ConnectingIsBacked'
    BY <2>1 DEF IInv, HintInv, ConnectedIsRecorded, FailedAvoidsCache, ConnectingIsBacked
  <2>7. RetryTimerIsUnique'
    BY <2>1 DEF IInv, RetryTimerIsUnique
  <2>. QED
    BY <2>2, <2>4, <2>5, <2>6, <2>7 DEF IInv
<1>2. CASE r # NoRecord
  <2>1. /\ book' = r
        /\ lastAttempt' = r.addr
        /\ state' = "connecting"
        /\ peer' = "checking"
        /\ flow' = [flow EXCEPT ![f].pc = "dialing", ![f].addr = r.addr]
        /\ UNCHANGED directAttemptFailed
    BY <1>2 DEF Resolved
  <2>2. /\ r.addr \in Addrs
        /\ flow' \in [Flows -> FlowState]
        /\ flow'[f].pc = "dialing"
        /\ flow'[f].addr = r.addr
        /\ \A g \in Flows \ {f} : flow'[g] = flow[g]
    BY <1>0, <1>2, <2>1 DEF FlowState
  <2>3. TypeOK'
    BY <1>0, <2>1, <2>2 DEF IInv, TypeOK, OrchestratorState, PeerState
  <2>4. HintInv' /\ ConnectedIsRecorded' /\ FailedAvoidsCache' /\ ConnectingIsBacked'
    BY <2>1, <2>2 DEF IInv, HintInv, ConnectedIsRecorded, FailedAvoidsCache, ConnectingIsBacked
  <2>5. RetryTimerIsUnique'
    BY <2>1 DEF IInv, RetryTimerIsUnique
  <2>6. FlowInv'
    <3> SUFFICES ASSUME NEW g \in Flows
                 PROVE  /\ flow'[g].pc = "cached" => flow'[g].book.addr \in Addrs
                        /\ flow'[g].pc = "dialing" => flow'[g].addr \in Addrs
                        /\ flow'[g].pc = "fetching" /\ flow'[g].book = NoRecord
                             => hint # NoRecord
      BY <1>2, <2>1 DEF FlowInv
    <3>1. CASE g = f
      BY <2>2, <3>1
    <3>2. CASE g # f
      BY <1>2, <2>2, <3>2 DEF IInv, FlowInv
    <3>. QED BY <3>1, <3>2
  <2>. QED
    BY <1>2, <2>1, <2>3, <2>4, <2>5, <2>6 DEF IInv
<1>. QED
  BY <1>1, <1>2

\* And so does a dial that did not connect.
LEMMA AttemptFailedPreserves ==
  ASSUME IInv, NEW f \in Flows, flow[f].pc = "dialing", AttemptFailed(f),
         peer' \in PeerState, strays' \in 0 .. MaxStrays,
         UNCHANGED <<recovery, book, lastAttempt, timers, hint, hints, now, reached>>
  PROVE  IInv'
<1>0. /\ book \in Record /\ flow \in [Flows -> FlowState]
      /\ flow[f].attempts \in 0 .. MaxAttempts /\ flow[f].at \in Nat
  BY DEF IInv, TypeOK, FlowState
<1>1. PICK g \in FlowState :
        /\ flow' = [flow EXCEPT ![f] = g]
        /\ g.pc \in {"done", "cached", "fetching"}
        /\ g.pc # "done" => g.book = book
        /\ g.pc = "cached" => book.addr \in Addrs /\ book # NoRecord
  <2>1. CASE flow[f].attempts < MaxAttempts
    <3>1. flow[f].attempts + 1 \in 1 .. MaxAttempts
      BY <1>0, <2>1, OrchestratorAssumption
    <3> DEFINE k == flow[f].attempts + 1
               t == flow[f].at
               failed == TRUE
               g == Resolving(k, t, book, failed)
    <3>2. flow' = [flow EXCEPT ![f] = g]
      BY <2>1 DEF AttemptFailed
    <3>3. /\ k \in 1 .. MaxAttempts /\ t \in Nat /\ failed \in BOOLEAN
          /\ g = Resolving(k, t, book, failed)
      BY <1>0, <3>1
    <3> HIDE DEF k, t, failed, g
    <3>4. /\ g \in FlowState /\ g.pc \in {"cached", "fetching"} /\ g.book = book
          /\ g.pc = "cached" => book.addr \in Addrs /\ book # NoRecord
      BY <1>0, <3>3, ResolvingType
    <3>. QED
      BY <3>2, <3>4
  <2>2. CASE ~(flow[f].attempts < MaxAttempts)
    <3>1. Idle \in FlowState /\ Idle.pc = "done"
      BY RecordFacts, OrchestratorAssumption DEF Idle, FlowState
    <3>. QED
      BY <2>2, <3>1 DEF AttemptFailed
  <2>. QED BY <2>1, <2>2
<1>2. directAttemptFailed' = TRUE /\ state' \in {"resolving", "failed"}
  BY DEF AttemptFailed
<1>3. TypeOK'
  BY <1>0, <1>1, <1>2 DEF IInv, TypeOK, OrchestratorState
<1>4. FlowInv'
  BY <1>0, <1>1 DEF IInv, FlowInv
<1>5. HintInv' /\ ConnectedIsRecorded' /\ FailedAvoidsCache' /\ ConnectingIsBacked'
  BY <1>2 DEF IInv, HintInv, ConnectedIsRecorded, FailedAvoidsCache, ConnectingIsBacked
<1>6. RetryTimerIsUnique'
  BY <1>2 DEF IInv, RetryTimerIsUnique
<1>. QED
  BY <1>3, <1>4, <1>5, <1>6 DEF IInv

-----------------------------------------------------------------------------
LEMMA InitIInv == Init => IInv
<1> SUFFICES ASSUME Init PROVE IInv
  OBVIOUS
<1>1. /\ book \in Record /\ hint \in Record
      /\ hint # NoRecord => hint.addr \in Addrs
  <2>1. /\ NoRecord \in Record
        /\ \A r \in [addr : Addrs, at : {StartTime}] : r \in Record /\ r.addr \in Addrs
    BY OrchestratorAssumption DEF Record, NoRecord
  <2>2. /\ book = NoRecord \/ book \in [addr : Addrs, at : {StartTime}]
        /\ hint = NoRecord \/ hint \in [addr : Addrs, at : {StartTime}]
    BY DEF Init
  <2>. QED
    BY <2>1, <2>2
<1>2. /\ Idle \in FlowState /\ Idle.pc = "done"
      /\ InitialRecovery \in RecoveryState
  BY RecordFacts, OrchestratorAssumption DEF Idle, FlowState, InitialRecovery, RecoveryState
<1>3. TypeOK
  <2>1. flow \in [Flows -> FlowState]
    BY <1>2 DEF Init
  <2>2. /\ state \in OrchestratorState /\ peer \in PeerState
        /\ lastAttempt \in Addrs \cup {NoAddr} /\ reached \in Addrs \cup {NoAddr}
        /\ timers \in SUBSET Nat /\ directAttemptFailed \in BOOLEAN
    BY DEF Init, OrchestratorState, PeerState
  <2>3. strays \in 0 .. MaxStrays /\ hints \in 0 .. MaxHints /\ now \in Nat
    BY OrchestratorAssumption DEF Init
  <2>4. recovery \in RecoveryState
    BY <1>2 DEF Init
  <2>. QED
    BY <1>1, <2>1, <2>2, <2>3, <2>4 DEF TypeOK
<1>4. FlowInv
  BY <1>2 DEF Init, FlowInv
<1>. QED
  BY <1>1, <1>3, <1>4 DEF Init, IInv, HintInv, ConnectedIsRecorded, FailedAvoidsCache,
     ConnectingIsBacked, RetryTimerIsUnique

LEMMA NextIInv == IInv /\ [Next]_vars => IInv' /\ (book # NoRecord => book' # NoRecord)
<1> SUFFICES ASSUME IInv, [Next]_vars
             PROVE  IInv' /\ (book # NoRecord => book' # NoRecord)
  OBVIOUS
<1>0. /\ recovery \in RecoveryState /\ book \in Record /\ now \in Nat
      /\ directAttemptFailed \in BOOLEAN /\ timers \in SUBSET Nat
      /\ flow \in [Flows -> FlowState] /\ hint \in Record
  BY DEF IInv, TypeOK
<1> DEFINE Preserved == IInv' /\ (book # NoRecord => book' # NoRecord)
<1>1. ASSUME NEW f \in Flows, Start(f) PROVE Preserved
  <2>1. /\ ConnectOnce(f, now, FALSE)
        /\ UNCHANGED <<recovery, book, lastAttempt, timers, peer, strays, hint, hints,
                       now, reached>>
    BY <1>1 DEF Start
  <2>. QED
    BY <1>0, <2>1, ConnectOncePreserves
<1>2. CASE Stop
  <2>1. Disconnected(peer) \in PeerState
    BY DEF IInv, TypeOK, Disconnected, PeerState
  <2>. QED
    BY <1>2, <2>1 DEF Stop, IInv, TypeOK, OrchestratorState, FlowInv, HintInv,
       ConnectedIsRecorded, FailedAvoidsCache, ConnectingIsBacked, RetryTimerIsUnique
<1>3. CASE Dispose
  BY <1>3 DEF Dispose, IInv, TypeOK, FlowInv, HintInv,
     ConnectedIsRecorded, FailedAvoidsCache, ConnectingIsBacked, RetryTimerIsUnique
<1>4. CASE Paused
  <2>1. OnPaused(recovery, now) \in RecoveryState
    BY <1>0 DEF OnPaused, RecoveryState
  <2>. QED
    BY <1>4, <2>1 DEF Paused, IInv, TypeOK, FlowInv, HintInv,
       ConnectedIsRecorded, FailedAvoidsCache, ConnectingIsBacked, RetryTimerIsUnique
<1>5. ASSUME NEW f \in Flows, NEW trigger \in RecoveryTrigger,
             NEW transport \in TransportState, NEW health \in SessionHealth,
             Trigger(f, trigger, transport, health)
      PROVE  Preserved
  <2> DEFINE cached == PickPreferred(book) # NoRecord
             action == OnTrigger(recovery, trigger, now, transport, health, cached)
  <2>1. action.next \in RecoveryState /\ action.delay \in Nat
    BY <1>0, OnTriggerType
  <2>2. /\ recovery' = action.next
        /\ UNCHANGED <<book, lastAttempt, peer, strays, hint, hints, now, reached>>
        /\ \/ UNCHANGED <<state, directAttemptFailed, timers, flow>>
           \/ ConnectOnce(f, now, FALSE) /\ UNCHANGED timers
           \/ ConnectOnce(f, now, directAttemptFailed) /\ UNCHANGED timers
           \/ ScheduleRetry(action.delay)
    BY <1>5, Zenon DEF Trigger
  <2> HIDE DEF action
  <2>3. CASE UNCHANGED <<state, directAttemptFailed, timers, flow>>
    BY <2>1, <2>2, <2>3 DEF IInv, TypeOK, FlowInv, HintInv,
       ConnectedIsRecorded, FailedAvoidsCache, ConnectingIsBacked, RetryTimerIsUnique
  <2>4. CASE ConnectOnce(f, now, FALSE) /\ UNCHANGED timers
    BY <1>0, <2>1, <2>2, <2>4, ConnectOncePreserves
  <2>5. CASE ConnectOnce(f, now, directAttemptFailed) /\ UNCHANGED timers
    BY <1>0, <2>1, <2>2, <2>5, ConnectOncePreserves
  <2>6. CASE ScheduleRetry(action.delay)
    BY <1>0, <2>1, <2>2, <2>6 DEF ScheduleRetry, IInv, TypeOK, OrchestratorState, FlowInv,
       HintInv, ConnectedIsRecorded, FailedAvoidsCache, ConnectingIsBacked, RetryTimerIsUnique
  <2>. QED
    BY <2>2, <2>3, <2>4, <2>5, <2>6
<1>6. ASSUME NEW f \in Flows, TimerFires(f) PROVE Preserved
  <2>1. PICK due \in timers :
          /\ timers' = timers \ {due}
          /\ ConnectOnce(f, due, directAttemptFailed)
          /\ UNCHANGED <<recovery, book, lastAttempt, peer, strays, hint, hints, now,
                         reached>>
    BY <1>6 DEF TimerFires
  <2>2. due \in Nat /\ timers' \in SUBSET timers
    BY <1>0, <2>1
  <2>. QED
    BY <1>0, <2>1, <2>2, ConnectOncePreserves
<1>7. ASSUME NEW f \in Flows, CacheAnswers(f) PROVE Preserved
  <2>1. /\ flow[f].pc = "cached"
        /\ Resolved(f, flow[f].book)
        /\ UNCHANGED <<recovery, timers, strays, hint, hints, now, reached>>
    BY <1>7 DEF CacheAnswers
  <2>2. flow[f].book \in Record /\ flow[f].book.addr \in Addrs /\ book # NoRecord
    BY <1>0, <2>1 DEF IInv, FlowInv, FlowState
  <2>3. flow[f].book # NoRecord
    BY <2>2, RecordFacts
  <2>. QED
    BY <2>1, <2>2, <2>3, ResolvedPreserves
<1>8. ASSUME NEW f \in Flows, ServerAnswers(f) PROVE Preserved
  <2>1. /\ flow[f].pc = "fetching"
        /\ Resolved(f, hint)
        /\ UNCHANGED <<recovery, timers, strays, hint, hints, now, reached>>
    BY <1>8 DEF ServerAnswers
  <2>2. hint = NoRecord /\ book # NoRecord => flow[f].book # NoRecord
    BY <2>1 DEF IInv, FlowInv
  <2>3. hint # NoRecord => hint.addr \in Addrs
    BY DEF IInv, HintInv
  <2>. QED
    BY <1>0, <2>1, <2>2, <2>3, ResolvedPreserves
<1>9. ASSUME NEW f \in Flows, FetchThrows(f) PROVE Preserved
  <2>1. Idle \in FlowState /\ Idle.pc = "done"
    BY RecordFacts, OrchestratorAssumption DEF Idle, FlowState
  <2>. QED
    BY <1>0, <1>9, <2>1 DEF FetchThrows, IInv, TypeOK, FlowInv, HintInv,
       ConnectedIsRecorded, FailedAvoidsCache, ConnectingIsBacked, RetryTimerIsUnique
<1>10. ASSUME NEW f \in Flows, DialSucceeds(f) PROVE Preserved
  <2>1. Idle \in FlowState /\ Idle.pc = "done"
    BY RecordFacts, OrchestratorAssumption DEF Idle, FlowState
  <2>2. flow[f].addr \in Addrs /\ flow[f].at \in Nat /\ book # NoRecord
    BY <1>0, <1>10 DEF DialSucceeds, IInv, FlowInv, FlowState
  <2>3. Upsert(flow[f].addr, flow[f].at) \in Record /\ Upsert(flow[f].addr, flow[f].at) # NoRecord
    BY <2>2, RecordFacts
  <2>4. TypeOK' /\ book' # NoRecord
    BY <1>0, <1>10, <2>1, <2>2, <2>3 DEF DialSucceeds, IInv, TypeOK, PeerState, OrchestratorState
  <2>5. FlowInv' /\ HintInv'
    BY <1>0, <1>10, <2>1, <2>2, <2>4 DEF DialSucceeds, IInv, FlowInv, HintInv
  <2>6. ConnectedIsRecorded' /\ FailedAvoidsCache' /\ ConnectingIsBacked' /\ RetryTimerIsUnique'
    BY <1>10, <2>2 DEF DialSucceeds, IInv, Upsert,
       ConnectedIsRecorded, FailedAvoidsCache, ConnectingIsBacked, RetryTimerIsUnique
  <2>. QED
    BY <2>4, <2>5, <2>6 DEF IInv
<1>11. ASSUME NEW f \in Flows, DialFails(f) PROVE Preserved
  <2>1. /\ flow[f].pc = "dialing" /\ AttemptFailed(f)
        /\ peer' \in PeerState /\ strays' \in 0 .. MaxStrays
        /\ UNCHANGED <<recovery, book, lastAttempt, timers, hint, hints, now, reached>>
    BY <1>11 DEF DialFails, IInv, TypeOK, PeerState
  <2>. QED
    BY <2>1, AttemptFailedPreserves
<1>12. ASSUME NEW f \in Flows, DialTimesOut(f) PROVE Preserved
  <2>1. /\ flow[f].pc = "dialing" /\ AttemptFailed(f)
        /\ peer' \in PeerState /\ strays' \in 0 .. MaxStrays
        /\ UNCHANGED <<recovery, book, lastAttempt, timers, hint, hints, now, reached>>
    BY <1>12, OrchestratorAssumption DEF DialTimesOut, IInv, TypeOK
  <2>. QED
    BY <2>1, AttemptFailedPreserves
<1>13. CASE StrayDialEnds
  BY <1>13, OrchestratorAssumption DEF StrayDialEnds, IInv, TypeOK, PeerState, FlowInv, HintInv,
     ConnectedIsRecorded, FailedAvoidsCache, ConnectingIsBacked, RetryTimerIsUnique
<1>14. CASE Tick
  BY <1>14 DEF Tick, IInv, TypeOK, FlowInv, HintInv,
     ConnectedIsRecorded, FailedAvoidsCache, ConnectingIsBacked, RetryTimerIsUnique
<1>15. ASSUME NEW addr \in Addrs, SetHints(addr) PROVE Preserved
  <2>1. hint' \in Record /\ hint' # NoRecord /\ hint'.addr \in Addrs
    BY <1>0, <1>15, RecordFacts DEF SetHints, Upsert, Record
  <2>. QED
    BY <1>15, <2>1, OrchestratorAssumption DEF SetHints, IInv, TypeOK, FlowInv, HintInv,
       ConnectedIsRecorded, FailedAvoidsCache, ConnectingIsBacked, RetryTimerIsUnique
<1>16. CASE UNCHANGED vars
  BY <1>16 DEF vars, IInv, TypeOK, FlowInv, HintInv,
     ConnectedIsRecorded, FailedAvoidsCache, ConnectingIsBacked, RetryTimerIsUnique
<1>. QED
  BY <1>1, <1>2, <1>3, <1>4, <1>5, <1>6, <1>7, <1>8, <1>9, <1>10, <1>11, <1>12, <1>13,
     <1>14, <1>15, <1>16 DEF Next, Application, FlowStep

-----------------------------------------------------------------------------
THEOREM Invariance == Spec => []IInv
BY InitIInv, NextIInv, PTL DEF Spec

\* Type correctness of the orchestrator.
THEOREM TypeCorrect == Spec => []TypeOK
<1>1. IInv => TypeOK
  BY DEF IInv
<1>. QED
  BY <1>1, Invariance, PTL

\* However many connects overlap, connected implies the address is in the book.
THEOREM ConnectedRecorded == Spec => []ConnectedIsRecorded
<1>1. IInv => ConnectedIsRecorded
  BY DEF IInv
<1>. QED
  BY <1>1, Invariance, PTL

\* However many connects overlap, connecting implies that a dial is awaited.
THEOREM ConnectingHasDial == Spec => []ConnectingIsBacked
<1>1. IInv => ConnectingIsBacked
  BY DEF IInv
<1>. QED
  BY <1>1, Invariance, PTL

\* The policy's direct attempt is its first kick.
LEMMA DirectIsFirstKick ==
  ASSUME recovery \in RecoveryState, NEW trigger, NEW transport, NEW health, NEW cached,
         NEW action, action = OnTrigger(recovery, trigger, now, transport, health, cached),
         action.type = "tryDirectIpv6"
  PROVE  recovery.attempt = 0 /\ action.next.attempt = 1
<1>1. Kicked(recovery, now).attempt = recovery.attempt + 1 /\ recovery.attempt \in Nat
  BY DEF Kicked, RecoveryState
<1> DEFINE next == Kicked(recovery, now)
           kind == KickKind(next.attempt, transport, health, cached)
<1>2. kind = "tryDirectIpv6" => next.attempt = 1
  BY DEF KickKind
<1>3. action.type = kind /\ action.next = next
  BY DEF OnTrigger
<1>. QED
  BY <1>1, <1>2, <1>3

\* However many connects overlap, a step out of failed that looks in the cache is
\* the policy's first kick.
LEMMA FailedStep ==
  ASSUME IInv, [Next]_vars, state = "failed", NEW f \in Flows,
         flow[f].pc # "cached", flow'[f].pc = "cached"
  PROVE  recovery.attempt = 0 /\ recovery'.attempt = 1
<1>0. /\ directAttemptFailed = TRUE /\ flow \in [Flows -> FlowState]
      /\ recovery \in RecoveryState
  BY DEF IInv, TypeOK, FailedAvoidsCache
<1>1. ASSUME NEW g \in Flows, NEW t, ConnectOnce(g, t, directAttemptFailed)
      PROVE  FALSE
  BY <1>0, <1>1 DEF ConnectOnce, Resolving
<1>2. ASSUME NEW g \in Flows, AttemptFailed(g)
      PROVE  FALSE
  BY <1>0, <1>2 DEF AttemptFailed, Resolving, Idle
<1>3. ASSUME NEW g \in Flows, NEW trigger \in RecoveryTrigger,
             NEW transport \in TransportState, NEW health \in SessionHealth,
             Trigger(g, trigger, transport, health)
      PROVE  recovery.attempt = 0 /\ recovery'.attempt = 1
  <2>1. PICK c : c = (PickPreferred(book) # NoRecord)
    OBVIOUS
  <2>2. PICK a : a = OnTrigger(recovery, trigger, now, transport, health, c)
    OBVIOUS
  <2>3. /\ recovery' = a.next
        /\ \/ UNCHANGED flow
           \/ a.type = "tryDirectIpv6"
           \/ ConnectOnce(g, now, directAttemptFailed)
    BY <1>3, <2>1, <2>2, Zenon DEF Trigger, ScheduleRetry
  <2>4. ~ConnectOnce(g, now, directAttemptFailed)
    BY <1>1, Zenon
  <2>5. a.type = "tryDirectIpv6"
    BY <2>3, <2>4
  <2>. QED
    BY <1>0, <2>2, <2>3, <2>5, DirectIsFirstKick
<1>4. ASSUME NEW g \in Flows, FlowStep(g)
      PROVE  FALSE
  <2>1. ASSUME NEW r, Resolved(g, r) PROVE FALSE
    <3>1. CASE r = NoRecord
      <4>1. flow' = [flow EXCEPT ![g] = Idle]
        BY <2>1, <3>1 DEF Resolved
      <4>. QED
        BY <1>0, <4>1 DEF Idle
    <3>2. CASE r # NoRecord
      <4>1. flow' = [flow EXCEPT ![g].pc = "dialing", ![g].addr = r.addr]
        BY <2>1, <3>2 DEF Resolved
      <4>2. flow[g] \in FlowState
        BY <1>0
      <4>3. flow'[g].pc = "dialing" /\ \A h \in Flows \ {g} : flow'[h] = flow[h]
        BY <1>0, <4>1, <4>2 DEF FlowState
      <4>. QED
        BY <4>3
    <3>. QED
      BY <3>1, <3>2
  <2>2. CASE FetchThrows(g) \/ DialSucceeds(g)
    <3>1. flow' = [flow EXCEPT ![g] = Idle]
      BY <2>2 DEF FetchThrows, DialSucceeds
    <3>. QED
      BY <1>0, <3>1 DEF Idle
  <2>3. CASE ~(FetchThrows(g) \/ DialSucceeds(g))
    BY <1>2, <1>4, <2>1, <2>3 DEF FlowStep, CacheAnswers, ServerAnswers, DialFails, DialTimesOut
  <2>. QED
    BY <2>2, <2>3
<1>5. ~(\E g \in Flows : Start(g) \/ TimerFires(g))
  BY <1>1 DEF Start, TimerFires
<1>6. ~UNCHANGED flow
  OBVIOUS
<1>7. ~(Stop \/ Dispose \/ Paused \/ StrayDialEnds \/ Tick \/ UNCHANGED vars)
  BY <1>6 DEF Stop, Dispose, Paused, StrayDialEnds, Tick, vars
<1>8. ~(\E addr \in Addrs : SetHints(addr))
  BY <1>6 DEF SetHints
<1>. QED
  BY <1>3, <1>4, <1>5, <1>7, <1>8 DEF Next, Application

\* Whatever calls and timers overlap, out of failed only the policy's first direct
\* attempt looks in the cache.
THEOREM FailedRestartsAtServer == Spec => FailedAsksServer
<1> DEFINE Asks == state = "failed" =>
             \A f \in Flows : flow[f].pc # "cached" /\ flow'[f].pc = "cached" =>
               recovery.attempt = 0 /\ recovery'.attempt = 1
<1>1. IInv /\ [Next]_vars => [Asks]_vars
  BY FailedStep
<1>. QED
  BY <1>1, Invariance, PTL DEF Spec, FailedAsksServer

\* However many connects overlap, at most one retry is armed, and none once
\* stopped.
THEOREM OneRetryTimer == Spec => []RetryTimerIsUnique
<1>1. IInv => RetryTimerIsUnique
  BY DEF IInv
<1>. QED
  BY <1>1, Invariance, PTL

\* No snapshot written back after an await empties the book.
THEOREM BookKeepsLearnedAddress == Spec => LearnedAddressKept
<1>1. IInv /\ [Next]_vars => [book # NoRecord => book' # NoRecord]_vars
  BY NextIInv
<1>. QED
  BY <1>1, Invariance, PTL DEF Spec, LearnedAddressKept

\* When every dial ends within its budget, connected means that the peer is.
THEOREM PatientDialsKeepPeer ==
  ASSUME MaxStrays = 0
  PROVE  Spec => []ConnectedMeansPeerUp
<1>1. Init => ConnectedMeansPeerUp
  BY DEF Init, ConnectedMeansPeerUp
<1>2. TypeOK /\ ConnectedMeansPeerUp /\ [Next]_vars => ConnectedMeansPeerUp'
  <2> SUFFICES ASSUME TypeOK, ConnectedMeansPeerUp, [Next]_vars
               PROVE  ConnectedMeansPeerUp'
    OBVIOUS
  <2> USE DEF ConnectedMeansPeerUp
  <2>1. ASSUME NEW f \in Flows, Start(f) PROVE ConnectedMeansPeerUp'
    BY <2>1 DEF Start, ConnectOnce
  <2>2. CASE Stop \/ Dispose \/ Paused
    BY <2>2 DEF Stop, Dispose, Paused
  <2>3. ASSUME NEW f \in Flows, NEW trigger \in RecoveryTrigger,
               NEW transport \in TransportState, NEW health \in SessionHealth,
               Trigger(f, trigger, transport, health)
        PROVE  ConnectedMeansPeerUp'
    <3>1. /\ peer' = peer
          /\ state' \in {state, "resolving", "waitingRetry"}
      BY <2>3, Zenon DEF Trigger, ConnectOnce, ScheduleRetry
    <3>. QED BY <3>1
  <2>4. ASSUME NEW f \in Flows, TimerFires(f) PROVE ConnectedMeansPeerUp'
    BY <2>4 DEF TimerFires, ConnectOnce
  <2>5. ASSUME NEW f \in Flows, FlowStep(f) PROVE ConnectedMeansPeerUp'
    BY <2>5 DEF FlowStep, CacheAnswers, ServerAnswers, Resolved, FetchThrows,
       DialSucceeds, DialFails, DialTimesOut, AttemptFailed
  <2>6. ~StrayDialEnds
    BY DEF StrayDialEnds, TypeOK
  <2>7. CASE Tick
    BY <2>7 DEF Tick
  <2>8. ASSUME NEW addr \in Addrs, SetHints(addr) PROVE ConnectedMeansPeerUp'
    BY <2>8 DEF SetHints
  <2>9. CASE UNCHANGED vars
    BY <2>9 DEF vars
  <2>. QED
    BY <2>1, <2>2, <2>3, <2>4, <2>5, <2>6, <2>7, <2>8, <2>9 DEF Next, Application
<1>. QED
  BY <1>1, <1>2, TypeCorrect, PTL DEF Spec

=============================================================================
