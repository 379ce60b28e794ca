----------------------- MODULE ConnectionOrchestrator -----------------------
(***************************************************************************)
(* packages/iterm2_host/lib/network/connection/connection_orchestrator.dart *)
(* with the objects it drives: the peer address resolver, the IPv6 address *)
(* book, the recovery policy and the simulated peer connection.            *)
(*                                                                         *)
(* Every call of start, onTrigger or a retry timer may run the asynchronous *)
(* _connectOnce; the calls share the state, the book and the peer.  A flow *)
(* is one running _connectOnce.  Dart runs code between two awaits without *)
(* interruption, so an action is the code from one await to the next, and  *)
(* anything may happen at an await: another flow, a trigger, a timer, stop. *)
(* A peer.connect that its flow no longer waits for (.timeout() abandons   *)
(* the future, it does not cancel the work) is a stray dial: it still      *)
(* changes the peer when it ends.                                          *)
(*                                                                         *)
(* There is one remote device.  Its record in the book and the server's    *)
(* hint are an address with the time it was learned; a port is part of the *)
(* address.  The event log is left out.                                    *)
(***************************************************************************)
EXTENDS ServerRecoveryPolicy

CONSTANTS
  Flows,         \* identifiers of concurrently running _connectOnce calls
  Addrs,         \* addresses of the remote device
  NoAddr,        \* no address
  MaxAttempts,   \* ConnectionOrchestratorConfig.maxAttempts
  MaxAge,        \* age after which a cached address is not used
  StartTime,     \* the clock when the orchestrator is built
  MaxTime,       \* bound on the clock
  MaxStrays,     \* bound on stray dials; 0 when no dial outlasts perAttemptTimeout
  MaxHints       \* bound on changes of the server's hint

ASSUME OrchestratorAssumption ==
  /\ NoAddr \notin Addrs
  /\ MaxAttempts \in Nat \ {0}
  /\ MaxAge \in Nat
  /\ StartTime \in Nat \ {0}
  /\ MaxTime \in Nat
  /\ MaxStrays \in Nat
  /\ MaxHints \in Nat

VARIABLES
  state,                \* _state
  recovery,             \* _recovery
  book,                 \* _book: the device's record
  directAttemptFailed,  \* _directAttemptFailed
  lastAttempt,          \* _lastAttempt: its address
  timers,               \* the times at which armed retry timers are due
  peer,                 \* the state of the shared FakePeerConnection
  flow,                 \* the local state of each _connectOnce
  strays,               \* how many stray dials are still running
  hint,                 \* the server's hint for the device
  hints,                \* how often the hint was set
  now,                  \* the wall clock
  reached               \* the address of the last dial a flow saw succeed

vars == <<state, recovery, book, directAttemptFailed, lastAttempt, timers,
          peer, flow, strays, hint, hints, now, reached>>

OrchestratorState ==
  {"idle", "resolving", "connecting", "connected", "waitingRetry", "stopped", "failed"}
PeerState == {"new", "checking", "connected", "failed", "disconnected"}

Record == [addr : Addrs \cup {NoAddr}, at : Nat]
NoRecord == [addr |-> NoAddr, at |-> 0]

\* pc is the await the flow is at: on the resolver with a cached answer, on the
\* server's answer, on the dial.  book is the snapshot passed to the resolver,
\* addr the address being dialled, at the nowMs argument of _connectOnce.
FlowState ==
  [pc : {"done", "cached", "fetching", "dialing"}, attempts : 0 .. MaxAttempts,
   book : Record, addr : Addrs \cup {NoAddr}, at : Nat]
Idle ==
  [pc |-> "done", attempts |-> 0, book |-> NoRecord, addr |-> NoAddr, at |-> 0]

TypeOK ==
  /\ state \in OrchestratorState
  /\ recovery \in RecoveryState
  /\ book \in Record
  /\ directAttemptFailed \in BOOLEAN
  /\ lastAttempt \in Addrs \cup {NoAddr}
  /\ timers \in SUBSET Nat
  /\ peer \in PeerState
  /\ flow \in [Flows -> FlowState]
  /\ strays \in 0 .. MaxStrays
  /\ hint \in Record
  /\ hints \in 0 .. MaxHints
  /\ now \in Nat
  /\ reached \in Addrs \cup {NoAddr}

\* The book is empty, or was decoded with a record of an earlier session.
Init ==
  /\ state = "idle"
  /\ recovery = InitialRecovery
  /\ book \in {NoRecord} \cup [addr : Addrs, at : {StartTime}]
  /\ directAttemptFailed = FALSE
  /\ lastAttempt = NoAddr
  /\ timers = {}
  /\ peer = "new"
  /\ flow = [f \in Flows |-> Idle]
  /\ strays = 0
  /\ hint \in {NoRecord} \cup [addr : Addrs, at : {StartTime}]
  /\ hints = 0
  /\ now = StartTime
  /\ reached = NoAddr

-----------------------------------------------------------------------------
\* Ipv6AddressBook.pickPreferred: the record when it can be used, else NoRecord.
PickPreferred(b) ==
  IF b.addr # NoAddr /\ b.at > 0 /\ now - b.at <= MaxAge THEN b ELSE NoRecord

Upsert(addr, at) == [addr |-> addr, at |-> at]

\* Beside some definitions stands a wrong version of it, named "...Wrong": the
\* mistake a property is there to notice.
ResolvingWrong(attempts, at, b, failed) ==
  [pc |-> IF ~failed /\ PickPreferred(b) # NoRecord THEN "cached" ELSE "fetching",
   attempts |-> attempts, book |-> NoRecord, addr |-> NoAddr, at |-> at]

\* An iteration of the loop of _connectOnce up to its first await: the resolver
\* looks at the cache at once, unless the direct attempt failed, and otherwise
\* asks the server.
Resolving(attempts, at, b, failed) ==
  [pc |-> IF ~failed /\ PickPreferred(b) # NoRecord THEN "cached" ELSE "fetching",
   attempts |-> attempts, book |-> b, addr |-> NoAddr, at |-> at]

\* Enter _connectOnce in a free flow.
ConnectOnce(f, at, failed) ==
  /\ flow[f].pc = "done"
  /\ flow' = [flow EXCEPT ![f] = Resolving(1, at, book, failed)]
  /\ state' = "resolving"
  /\ directAttemptFailed' = failed

\* Wrong: the budget has one attempt too many.
AttemptFailedWrong1(f) ==
  /\ directAttemptFailed' = TRUE
  /\ IF flow[f].attempts <= MaxAttempts
     THEN /\ flow' = [flow EXCEPT ![f] =
                        Resolving(flow[f].attempts + 1, flow[f].at, book, TRUE)]
          /\ state' = "resolving"
     ELSE /\ flow' = [flow EXCEPT ![f] = Idle]
          /\ state' = "failed"

\* Wrong: the failed direct attempt is not noted.
AttemptFailedWrong2(f) ==
  /\ UNCHANGED directAttemptFailed
  /\ IF flow[f].attempts < MaxAttempts
     THEN /\ flow' = [flow EXCEPT ![f] =
                        Resolving(flow[f].attempts + 1, flow[f].at, book, TRUE)]
          /\ state' = "resolving"
     ELSE /\ flow' = [flow EXCEPT ![f] = Idle]
          /\ state' = "failed"

\* Wrong: giving up does not set the state.
AttemptFailedWrong3(f) ==
  /\ directAttemptFailed' = TRUE
  /\ IF flow[f].attempts < MaxAttempts
     THEN /\ flow' = [flow EXCEPT ![f] =
                        Resolving(flow[f].attempts + 1, flow[f].at, book, TRUE)]
          /\ state' = "resolving"
     ELSE /\ flow' = [flow EXCEPT ![f] = Idle]
          /\ UNCHANGED state

\* Wrong: attempts are not counted.
AttemptFailedWrong4(f) ==
  /\ directAttemptFailed' = TRUE
  /\ flow' = [flow EXCEPT ![f] = Resolving(@.attempts, @.at, book, TRUE)]
  /\ state' = "resolving"

\* A dial of flow f did not connect: try again through the server, or give up.
AttemptFailed(f) ==
  /\ directAttemptFailed' = TRUE
  /\ IF flow[f].attempts < MaxAttempts
     THEN /\ flow' = [flow EXCEPT ![f] =
                        Resolving(flow[f].attempts + 1, flow[f].at, book, TRUE)]
          /\ state' = "resolving"
     ELSE /\ flow' = [flow EXCEPT ![f] = Idle]
          /\ state' = "failed"

\* The resolver answered flow f with record r (NoRecord: no address).
Resolved(f, r) ==
  /\ book' = IF r = NoRecord THEN flow[f].book ELSE r
  /\ IF r = NoRecord
     THEN /\ directAttemptFailed' = TRUE
          /\ state' = "failed"
          /\ flow' = [flow EXCEPT ![f] = Idle]
          /\ UNCHANGED <<lastAttempt, peer>>
     ELSE /\ lastAttempt' = r.addr
          /\ state' = "connecting"
          /\ peer' = "checking"
          /\ flow' = [flow EXCEPT ![f].pc = "dialing", ![f].addr = r.addr]
          /\ UNCHANGED directAttemptFailed

-----------------------------------------------------------------------------
(* The calls of the application. *)

Start(f) ==
  /\ state \in {"idle", "stopped"}
  /\ ConnectOnce(f, now, FALSE)
  /\ UNCHANGED <<recovery, book, lastAttempt, timers, peer, strays, hint, hints,
                 now, reached>>

\* FakePeerConnection.disconnect
Disconnected(p) == IF p \in {"connected", "checking"} THEN "disconnected" ELSE p

\* Wrong: the peer goes down and the state stays.
StopWrong ==
  /\ timers' = {}
  /\ peer' = Disconnected(peer)
  /\ UNCHANGED <<state, recovery, book, directAttemptFailed, lastAttempt, flow, strays,
                 hint, hints, now, reached>>

Stop ==
  /\ timers' = {}
  /\ peer' = Disconnected(peer)
  /\ state' = "stopped"
  /\ UNCHANGED <<recovery, book, directAttemptFailed, lastAttempt, flow, strays,
                 hint, hints, now, reached>>

Dispose ==
  /\ timers' = {}
  /\ UNCHANGED <<state, recovery, book, directAttemptFailed, lastAttempt, peer,
                 flow, strays, hint, hints, now, reached>>

Paused ==
  /\ recovery' = OnPaused(recovery, now)
  /\ UNCHANGED <<state, book, directAttemptFailed, lastAttempt, timers, peer,
                 flow, strays, hint, hints, now, reached>>

\* Wrong: the pending retry is not cancelled.
ScheduleRetryWrong(delay) ==
  /\ timers' = timers \cup {now + delay}
  /\ state' = "waitingRetry"
  /\ UNCHANGED <<directAttemptFailed, flow>>

ScheduleRetry(delay) ==
  /\ timers' = {now + delay}
  /\ state' = "waitingRetry"
  /\ UNCHANGED <<directAttemptFailed, flow>>

Trigger(f, trigger, transport, health) ==
  LET cached == PickPreferred(book) # NoRecord
      action == OnTrigger(recovery, trigger, now, transport, health, cached)
  IN /\ recovery' = action.next
     /\ \/ /\ action.type \in {"none", "stop"}
           /\ UNCHANGED <<state, directAttemptFailed, timers, flow>>
        \/ /\ action.type = "tryDirectIpv6"
           /\ ConnectOnce(f, now, FALSE)
           /\ UNCHANGED timers
        \/ /\ action.type \in {"reconnectTransport", "restartSession"}
           /\ ConnectOnce(f, now, directAttemptFailed)
           /\ UNCHANGED timers
        \/ /\ action.type = "scheduleRetry"
           /\ ScheduleRetry(action.delay)
     /\ UNCHANGED <<book, lastAttempt, peer, strays, hint, hints, now, reached>>

-----------------------------------------------------------------------------
(* The continuations the event loop runs. *)

TimerFires(f) ==
  \E due \in timers :
    /\ due <= now
    /\ timers' = timers \ {due}
    /\ ConnectOnce(f, due, directAttemptFailed)
    /\ UNCHANGED <<recovery, book, lastAttempt, peer, strays, hint, hints, now,
                   reached>>

CacheAnswers(f) ==
  /\ flow[f].pc = "cached"
  /\ Resolved(f, flow[f].book)
  /\ UNCHANGED <<recovery, timers, strays, hint, hints, now, reached>>

ServerAnswers(f) ==
  /\ flow[f].pc = "fetching"
  /\ Resolved(f, hint)
  /\ UNCHANGED <<recovery, timers, strays, hint, hints, now, reached>>

\* The fetch throws: the exception leaves _connectOnce, which sets nothing.
FetchThrows(f) ==
  /\ flow[f].pc = "fetching"
  /\ flow' = [flow EXCEPT ![f] = Idle]
  /\ UNCHANGED <<state, recovery, book, directAttemptFailed, lastAttempt, timers,
                 peer, strays, hint, hints, now, reached>>

\* Wrong: the flow writes back the book it was handed.
DialSucceedsWrong(f) ==
  /\ flow[f].pc = "dialing"
  /\ peer' = "connected"
  /\ book' = flow[f].book
  /\ state' = "connected"
  /\ flow' = [flow EXCEPT ![f] = Idle]
  /\ reached' = flow[f].addr
  /\ UNCHANGED <<recovery, directAttemptFailed, lastAttempt, timers, strays,
                 hint, hints, now>>

DialSucceeds(f) ==
  /\ flow[f].pc = "dialing"
  /\ peer' = "connected"
  /\ book' = Upsert(flow[f].addr, flow[f].at)
  /\ state' = "connected"
  /\ flow' = [flow EXCEPT ![f] = Idle]
  /\ reached' = flow[f].addr
  /\ UNCHANGED <<recovery, directAttemptFailed, lastAttempt, timers, strays,
                 hint, hints, now>>

DialFails(f) ==
  /\ flow[f].pc = "dialing"
  /\ peer' = "failed"
  /\ AttemptFailed(f)
  /\ UNCHANGED <<recovery, book, lastAttempt, timers, strays, hint, hints, now,
                 reached>>

\* perAttemptTimeout elapses first: the dial goes on without its flow.
DialTimesOut(f) ==
  /\ flow[f].pc = "dialing"
  /\ strays < MaxStrays
  /\ strays' = strays + 1
  /\ AttemptFailed(f)
  /\ UNCHANGED <<recovery, book, lastAttempt, timers, peer, hint, hints, now,
                 reached>>

StrayDialEnds ==
  /\ strays > 0
  /\ strays' = strays - 1
  /\ peer' \in {"connected", "failed"}
  /\ UNCHANGED <<state, recovery, book, directAttemptFailed, lastAttempt, timers,
                 flow, hint, hints, now, reached>>

(* The environment: the clock, and the server learning a new address. *)

Tick ==
  /\ now < MaxTime
  /\ now' = now + 1
  /\ UNCHANGED <<state, recovery, book, directAttemptFailed, lastAttempt, timers,
                 peer, flow, strays, hint, hints, reached>>

SetHints(addr) ==
  /\ hints < MaxHints
  /\ hints' = hints + 1
  /\ hint' = [addr |-> addr, at |-> now]
  /\ UNCHANGED <<state, recovery, book, directAttemptFailed, lastAttempt, timers,
                 peer, flow, strays, now, reached>>

-----------------------------------------------------------------------------
Application ==
  \/ Stop \/ Dispose \/ Paused
  \/ \E f \in Flows :
       \/ Start(f)
       \/ \E trigger \in RecoveryTrigger, transport \in TransportState,
             health \in SessionHealth : Trigger(f, trigger, transport, health)

FlowStep(f) ==
  CacheAnswers(f) \/ ServerAnswers(f) \/ FetchThrows(f)
  \/ DialSucceeds(f) \/ DialFails(f) \/ DialTimesOut(f)

Next ==
  \/ Application
  \/ \E f \in Flows : FlowStep(f) \/ TimerFires(f)
  \/ StrayDialEnds
  \/ Tick
  \/ \E addr \in Addrs : SetHints(addr)

Spec == Init /\ [][Next]_vars

\* The event loop runs every continuation whose timer or I/O has completed: an
\* await ends, a due timer fires.  What the application does is not fair.
Fairness ==
  /\ \A f \in Flows : WF_vars(FlowStep(f))
  /\ WF_vars(\E f \in Flows : TimerFires(f))
  /\ WF_vars(StrayDialEnds)
  /\ WF_vars(Tick)

FairSpec == Spec /\ Fairness

-----------------------------------------------------------------------------
\* While the orchestrator reports connected, its book holds the address it is
\* connected to, whatever older snapshots other flows are about to write back.
ConnectedIsRecorded == state = "connected" => book.addr = reached /\ reached \in Addrs

\* Out of state failed, only the policy's direct attempt, its first kick, looks in
\* the cache.  A retry timer armed before the failure, a reconnect and a call that
\* still runs ask the server, although each call's outcome is one flag for all.
\* (stop, after which start trusts the cache again, leaves failed without a call.)
FailedAsksServer ==
  [][state = "failed" =>
       \A f \in Flows : flow[f].pc # "cached" /\ flow'[f].pc = "cached" =>
         recovery.attempt = 0 /\ recovery'.attempt = 1]_vars

\* "connecting" is never a leftover: some _connectOnce is waiting for a dial,
\* so the state will move on.
ConnectingIsBacked == state = "connecting" => \E f \in Flows : flow[f].pc = "dialing"

\* scheduleRetry replaces the pending retry and stop cancels it: at most one
\* timer is armed, and none once stopped.
RetryTimerIsUnique ==
  /\ \A s, t \in timers : s = t
  /\ state = "stopped" => timers = {}

\* When no dial outlasts its budget (the default 4 s against the simulated
\* peer's 3.05 s), connected means that the shared peer is connected, although
\* every flow resets and redials it.
ConnectedMeansPeerUp == state = "connected" => peer = "connected"

\* A learned address is never forgotten: although every flow writes back the
\* book it was handed before its await, no such snapshot empties the record
\* another flow has stored meanwhile (ipv6_address_book.dart:10-12).
LearnedAddressKept == [][book # NoRecord => book' # NoRecord]_vars

\* Every _connectOnce ends: each attempt ends in an answer, an error or a
\* timeout, and there are at most MaxAttempts of them.
ConnectEnds == \A f \in Flows : flow[f].pc # "done" ~> flow[f].pc = "done"

=============================================================================
