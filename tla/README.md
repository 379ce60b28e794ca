# Verification of itermRemote

TLA+ models of the parts of itermRemote that decide something over time:
reconnecting a session, relaying messages between devices, keeping a daemon
connected to the relay, adapting the stream to the link, and, in the WebRTC plugin
that the repository carries, the tables of streams, tracks, renderers and data
channels behind the ids Dart holds. TLC checks them on small instances, and TLAPS
proves the central properties for every value of the constants.

- [The system](#the-system)
- [What the modules model](#what-the-modules-model)
- [Runs](#runs)
- [What the runs found](#what-the-runs-found)
- [Fairness](#fairness)
- [Theorems](#theorems)
- [Not modelled](#not-modelled)
- [Plan](#plan)

## The system

A *host* (a macOS daemon) captures terminal panels and streams them over WebRTC to
*clients* (macOS, Android, web). Both find each other through a Go *server*: an
HTTP API for accounts and devices, and a WebSocket relay for presence and
signaling. A Flutter *host console* signs in and manages the daemon.

| component | state | operations | hard part | what makes it correct |
|---|---|---|---|---|
| Server recovery policy (`iterm2_host/lib/network/recovery`) | attempt counter, last kick, last pause, flow flag; passed by value | `onTrigger`, `onPaused` | triggers pile up; stale pause times; counters never reset | throttling, gating of resumes, order of attempts, growing delays |
| Connection orchestrator (`iterm2_host/lib/network/connection`) | state, recovery state, address book, failure flag, retry timer, shared peer | `start`, `stop`, `dispose`, `onPaused`, `onTrigger`, timer; `_connectOnce` | several `_connectOnce` run at once and interleave at each await; abandoned dials; exceptions | the state says what is so; the book and the last attempt match the session; calls end |
| Relay server (`server/ws/main.go`) | `clients` map, redis online keys, one channel per connection | connect, proxy message, pong, cleanup, presence broadcast | a reconnection overtakes the old connection's cleanup; full queues; crash | messages go to served connections only, within a user and in order; every client is told of every device; what is gone is forgotten |
| Bandwidth tiers (`iterm2_host/lib/network/bandwidth_tier_strategy.dart`) | tier, two timers | `decide` per link sample | hysteresis: timers across tier changes, both directions | steps are earned; a stable link reaches its tier; the rate fits |
| Encoding policy, stream host (`iterm2_host/lib/webrtc`, `lib/streaming`) | mode, hysteresis timers; session | `decide`, start/stop | hysteresis; start and stop across awaits | no oscillation; encoder matches policy |
| Daemon relay link, IP reporter (`apps/host_daemon/lib/src/app`) | socket, subscription, reconnect timer or delayed call, disposed flag | start, stop, connect, done | stop during an awaited connect; two reconnects for one socket; a dial no one can take back | one socket at most; no attempt after stop; always comes back |
| Daemon orchestrator | pid file, heartbeat, blocks, the two services | initialise, relay callbacks, dispose | several connections of one identity; file order at start-up | offers arrive; the stale daemon is replaced |
| Blocks (`itermremote_blocks`) and daemon WebSocket server | block registry, event bus, peer connections, client sockets | commands, events | offer/answer/candidate order; block restarts | every command is answered once; state of the loopback |
| Client connection service, relay socket | channel, peer connection, pending acks | connect (direct, relay), signaling, disconnect | late callbacks of an old channel; candidates before descriptions | state belongs to the current connection |
| Plugin data channels (`plugins/flutter-webrtc`, C++ and Dart) | observers, event channels, peer connections; Dart's objects | create, announce, listen, post, send, close | WebRTC's thread posts while `onListen` runs; calls after the peer connection is gone | events arrive once and in order; an id works until it is closed and never again |
| Plugin media (same plugin) | local streams and tracks, cameras, remote streams, renderers; Dart's renderers | get, add, remove, dispose; show; frames | tracks shared by streams; ids shared with a loopback; answers and events in flight | disposed tracks stay gone; cameras stay in reach; a renderer shows its track |
| Host console: auth, app state, app controller | tokens, refresh timer, websocket, orchestrator | login, refresh, logout; start/stop simulation | answers after logout; replaced orchestrator | no session after logout |
| HTTP API | database rows, redis hashes | login, refresh, reset, device status | pairs of updates without a transaction | a token is used once |

The orchestrator asks the policy at every trigger, passes its address book to the
resolver (which may ask the signaling server), and dials through the peer. The
daemon and the clients hold one relay connection each; the relay sends each the
list of online devices, then updates, and forwards proxy messages. The tier
strategy is called with each WebRTC statistics sample. Dart reaches the plugin through
method calls, which the platform thread handles in their order; WebRTC calls it back
on threads of its own, and events go to Dart through event channels.

## What the modules model

**ServerRecoveryPolicy** is `server_recovery_policy.dart` as operators: `OnTrigger`
is `onTrigger`, with its branches as named conditions in the code's order
(healthy, `ResumeTooShort`, `Throttled`, then a kick of some `KickKind`), and
`OnPaused` is `onPaused`. The delay schedule, the throttle interval and the
background threshold are constants.

**RecoveryFlow** drives the policy with an app that is paused, resumed and
triggered in any order; a resume may come without a pause before it, as it does for
an app that was merely inactive. `recovery` is the `RecoveryState` the caller keeps.
History variables: `lastPause` is the latest pause, and `kicks` remembers what was
asked, so that properties can compare decisions taken at different times.

**ConnectionOrchestrator** uses the same policy operators for `_recovery`. Each
`_connectOnce` is an element of `Flows` with its own program counter: awaiting
the resolver with a cached answer (`cached`) or the server's (`fetching`), or
dialing. Dart does not interrupt code between two awaits, so an action is the
code from one await to the next and everything else may happen in between.
`_connectOnce` retries by looping; `AttemptFailed` is what follows a failed
resolution or dial. `peer.connect(...).timeout(...)` abandons the dial without
cancelling it: `DialTimesOut` turns it into a *stray* dial, which still sets the
peer's state when it ends (`StrayDialEnds`). The address book is one device's
record, decoded from an earlier session or empty. `reached` is a history variable
with the address of the last dial that succeeded.

**RelayServer** is the relay: `Connect`, `SetOnline`, `ListOnline`, `PushSync`,
`PushIce`, `BroadcastOnline` are the handler's statements in order, `Pong` and
`Receive` the read pump, `Unregister`, `DelOnline`, `BroadcastOffline` the
cleanup, `WritePump` the write pump. `redis` is the set of online keys, which
expire (`KeyExpires`) when nobody refreshes them. The code looks at the error of no
redis command, so each of them may fail and the goroutine goes on: `SetOnline` may
leave the key out, `DelOnline` may leave it there, and a key may expire under a
connection whose pongs did not refresh it. The history variable `orphans` has the keys
that a failed Del or a restart left behind. `Room` is the difference between the two ways
the code sends: the handler waits on a full channel, a broadcast and a proxy message
drop. A handler that waits before its `WritePump` runs waits for ever (`Blocked`).
`Crash` is a restart that loses everything but redis. A device may connect while its
previous connection is not yet cleaned up: the server neither prevents nor controls it.

**RelayRegistry** is what `clients` means to one device key: the connections the
relay serves for it and the one messages go to. `RelayServer` instantiates it for
each key (`Registry`), and `ImplementsRegistry` is the refinement. `HostDaemon`
then uses the abstract one in place of the whole relay.

**Link** is what the daemon asks of a connection to the relay: `wanted` or not, and
`off`, `dialing`, `up` or `waiting` for the next attempt. **RelayLink**
(`RelaySignalingService`) and **IpReporter** (`IpReporter`) are the two classes that
keep such a connection, each in its own way; in both an action is the code
between two awaits of `start`, `stop` and `_connect`, or one callback. `conn` holds
every WebSocket in existence, `socket` and `socketSub` the ones the object knows,
`heard` those with a subscription. `Connect` stops at its await, `DialSucceeds` and
`DialFails` go on from there. In `RelayLink` a reconnect is a timer that `stop`
cancels; in `IpReporter` it is a delayed call that nothing can cancel, and the first
one keeps `start` waiting (`startup`). `L == INSTANCE Link` maps each to the link.
`_handleError` is left out, because a WebSocket of dart:io ends without error
events. So are the reporter's reports: the relay ignores their type.

**HostDaemon** composes the two services, the test connection and `RelayRegistry`
as `DaemonOrchestrator.initialize` and `dispose` do: test connection, reporter,
signaling service; then stop the reporter, then the signaling service. Each
service is started once and stopped at most once. All three connections carry the
same token and so are the same device to the relay. The relay registers a
connection before the daemon learns that it is open (`Registers`, then
`SignalingOpens`), and cleans it up some time after it has ended
(`Unregisters`); an identity is dialed again only once the relay is done with it.
`Restarts` is a restart of the relay.

**BandwidthTier** is `decide`. `policy` is the state the caller passes back,
`Sample` one call. Rates and times are integers (kbps, ticks; loss in per mille,
ratios in percent), so the thresholds compare as in the code. `log` keeps the
samples for the properties. The sample interval is whatever the caller's timer
gives, up to `MaxGap`.

**ClientRelay** is the macOS client's `RemoteWsService` and the part of
`ConnectionService.connectViaRelay` that uses it: `MustDial` is the guard of `connect`,
`delays` counts the delayed calls of it that a failed dial or a lost socket plans,
`ConnectViaRelay` and `SendOffer` are a call before and after its await of `connect`.

**EventChannel** is `EventChannelProxyImpl`, the native end of an event stream, as
operators on a record: a queue, a flag, and where the two threads that use them are.
`onListen` and `Success` lock nothing, so each is cut between its reads and writes.
**DataChannels** puts it to use: the observers of a peer connection's data channels, the
calls `createDataChannel`, `dataChannelSend` and `dataChannelClose`, the callbacks
`OnDataChannel`, `OnStateChange` and `OnMessage`, and Dart's `RTCDataChannelNative`.
`calls` and `pipe` are the two directions of Flutter's method and event channels.
`posted` is a history variable: every event, and whether it met an `onListen` halfway.

**VideoRenderer** is `FlutterVideoRenderer`, which sends Dart what changed about the
frames, and the value Dart makes of it, as operators on records. **PluginMedia** is the
tables of `FlutterWebRTCBase` and the handlers on them: `local_streams`, `local_tracks`
and `capturers` (`video_capturers_`), the remote streams of the observers, the renderers
and what is on its way to their Dart objects. A handler is one action, the lookup
included (`MediaTrackForId`, `MediaStreamForId` as `StreamIsThere` and `TracksOf`).
`windows`, fixed from the start, says in which of its two ways `VideoRendererDispose`
was compiled: a renderer
leaves `renderers_` at once on Linux, and on Windows in a later callback of the engine
(`TextureUnregistered`), which may come before or after the answer that Dart's `dispose`
awaits (`DisposeAnswered`); `closed` is Dart's `_disposed`.
`running` is which cameras capture, `sinks` which renderer gets which track's frames,
both inside libwebrtc; `made` and `disposed` are history variables.

**HandleTable** is what the plugin owes Dart for an id: opened once, works until it is
closed, alone or with what it belongs to, and never again. `DataChannels` and
`PluginMedia` are both shown to implement it, with the answers of calls as `reply`.

The state machines at the top (`RecoveryFlow`, `ConnectionOrchestrator`,
`RelayServer`, `HostDaemon`, `BandwidthTier`, `ClientRelay`, `DataChannels`,
`PluginMedia`) each have a module `MC...` with
definitions for TLC and the `.cfg` files of their runs. Next to a definition there may be a wrong version of it, named
`...Wrong` with a comment that says what is wrong; no specification uses one. They
document how a plausible mistake in the code would show, and which property
notices it.

## Runs

| run | bounds | properties | what it shows |
|---|---|---|---|
| `MCRecoveryFlow` | clock 2..8, throttle 2, background 3, schedule of 3 entries | `NoReconnectSpam`, `ResumeGating`, `BackoffFollowsSchedule` | kicks throttled, resumes gated by the latest pause, delays grow to the cap |
| `MCOrchestratorOverlap` | 2 flows, 2 addresses, 2 attempts, clock 2..3 | `ConnectedIsRecorded`, `FailedAsksServer`, `ConnectingIsBacked`, `RetryTimerIsUnique`, `ConnectedMeansPeerUp`, `LearnedAddressKept` | what each state claims stays true while two calls interleave with `stop`, triggers and a timer, dials ending in time; the book is never emptied |
| `MCOrchestratorCalls` | 2 flows, 1 address, 1 stray dial, fair | `ConnectEnds` | every call ends, whatever overlaps it |
| `MCRelayOverlap` | 2 users with the same device id, 2 connections, 2 messages (`Few`), queues of 3 | `RegisteredIsServed`, `OnlineKeyIsBacked`, `ProxyIsFaithful`, `RegisteredIsTold`, `ImplementsRegistry` | no dead connection is registered, every online key has a connection that clears it or was left behind by redis, messages stay in their user and in order, no device that comes online is overlooked, each device sees the abstract registry |
| `MCRelayCleanup` | 1 device, 2 connections, 1 message each, queues of 2, 1 restart, fair | `ClosedIsForgotten`, `OfflineKeyGoes` | closed connections and gone devices are forgotten; the one thing that stops a cleanup is a handler whose own queue filled first |
| `MCHostDaemon` | 2 WebSockets per service, a test connection, any number of restarts, fair | `ServicesAreLinks`, `LinksComeBack` | each service implements `Link` and comes back after every loss |
| `MCTierSteps` | 5 links at and around the limits, waits of 2 and 1, gaps up to 2, 6 ticks | `TierChangesAreEarned`, `TierChangesArePrompt`, `BitrateLeavesHeadroom` | a step is taken when, and only when, the link asked for it long enough; the rate fits |
| `MCDataChannels` | 1 peer connection, 1 channel, 2 messages, fair | `StreamIsFaithful`, `ChannelsAreHandles`, `DartCatchesUp` | events reach Dart once and in order, a close is learned, ids are a handle table |
| `MCPluginMedia` | both builds, 2 streams, 1 track, 1 peer connection, 1 renderer, 2 sizes, 2 notices on the way | `DisposedTrackStaysGone`, `CamerasStayInReach`, `FramesAreCurrent`, `SizeIsKnown`, `StreamsAreHandles` | a shared track disposed of stays gone, no camera runs out of reach, renderers follow their tracks, also while they wait to be erased, ids are a handle table |
| `MCRelayPresence`, `MCHostDaemonOffers`, `MCClientRelay` | 2 devices, 2 connections and queues of 6; as above; 2 WebSockets, 2 delayed connects | one each | [what the runs found](#what-the-runs-found) |

One run of each state machine also checks its `TypeOK`.

Why the bounds are enough. The clocks run long enough for three kicks and a pause
in between, for a whole schedule, or for a retry that becomes due. Two flows are
what it takes for an await of one to straddle any step of the other; two attempts
have a first that avoids nothing and a last that gives up. Two addresses tell a
cached one from a hinted one. Two connections are a device connected twice, or a
device and one that is told of it; where the device ids of two users are equal, they
are enough to mistake one for the other. Queues of two fill, in a handshake too; one of
three fills and yet leaves `RegisteredIsTold` something to say, as it leaves out clients
that lost a message. Two messages are a pair of one sender or one of each, whose order
or owner can be mistaken; restarts are left to `MCRelayCleanup`, since nothing of the
old process is left after one but redis. Two WebSockets of a
service are one that is going away and one that replaces it. The tiers' links lie
at, below and above the limits, and six ticks hold two steps and an interrupted
wait. One data channel shares nothing with another but threads that take turns, and
two messages with the changes of state give every event a neighbour. Two streams are
what it takes to share a track; one peer connection that loops a local stream back has
the same ids in two places; two sizes tell a change from a repetition. Streams are
interchangeable, so that run uses symmetry, and checks no liveness. What does not depend on the bounds is proved below.

`CHECK_DEADLOCK FALSE` is set where the model ends: the clock, the messages or the
connections run out.

Properties are named after what they say; the comment in front of each names the
code. The ones that took most care:

- `NoReconnectSpam` relates any two kicks, not neighbours: resets between them would
  show.
- `ConnectedMeansPeerUp` holds only while no dial outlasts its timeout
  (`MaxStrays = 0`): a stray dial sets the peer's state when it ends, whatever the
  orchestrator has become by then.
- `FailedAsksServer` is an action property: it looks at the step in which a call looks in
  the cache. `tryDirectIpv6` clears the failure flag in that very step, so that the
  state `failed` implies the flag would say nothing of the next attempt.
- `OnlineKeyIsBacked` says that whoever is online in redis has a connection that is
  still going to delete the key, whichever connections of the device overlap, except
  for what a restart or a failed command left behind; `OfflineKeyGoes` is about those.
- `RegisteredIsTold` and `PresenceIsCurrent` are two sides of presence. What is never
  missing is that somebody told a client of a device that came; in which order the
  list and the updates tell it is what the code does not see to, and the second is
  refuted. Both leave out clients that lost a message to a full queue.
- `ClosedIsForgotten` names its one exception, a handler that waits for room in its own
  queue before `WritePump` runs; the run has queues that fill then.
- `ImplementsRegistry` says that of all the relay's steps only a registration, a
  cleanup and a restart change what messages for a device go to, and each in the
  one way `RelayRegistry` allows.
- `ServicesAreLinks` says of each service that there is never a second socket or
  a second attempt, whatever the order of done events, timers and `stop`.
- `TierChangesArePrompt` complements `TierChangesAreEarned`: a timer that is forgotten,
  or reset by a sample that should not, would break it.
- `StreamIsFaithful` compares what Dart has had, what is on its way and what is queued
  with everything that was posted, at every step of `onListen`. It leaves out the events
  whose `Success` overlapped an `onListen`: those may be lost or overtake, which is
  what the missing lock allows.
- `DisposedTrackStaysGone` and `CamerasStayInReach` speak of three tables at once, which
  eight handlers change, each in its own order; `MediaStreamGetTracks` enters tracks that
  others removed.
- `SizeIsKnown` holds although the renderer sends changes only, and each end forgets on
  its own: what is on its way makes up the difference.

## What the runs found

These runs check what the repository says of itself, and TLC refutes it.

| run | the repository says | the code does |
|---|---|---|
| `MCRelayPresence` | a client is sent the current list (`server/ws/main.go:112`) | the list is read under the lock and queued after it (line 113), so it may come after an update that is newer, and undo it |
| `MCHostDaemonOffers` | the service forwards the relay's signaling messages (`relay_signaling_service.dart:6`) | the reporter shares its token: the cleanup of a connection of the reporter unregisters the service, whose own connection stays up and gets nothing |
| `MCClientRelay` | signaling transport that is down is reconnected (`docs/connection_strategy.md:96`) | `_handleDone` leaves `_socket` set, so the delayed `connect` returns at once (`remote_ws_service.dart:24`), every time |

Differences between text and code met while modelling, for which no run is kept. The
models follow the code in all of them:

- `docs/connection_strategy.md:94` has the first attempt of a recovery dial a cached
  address directly. `onTrigger` tests `attempt == 1` and the healthy verdict that ends a
  recovery keeps `attempt` (`server_recovery_policy.dart:136`), so only the first
  recovery of a process has a direct attempt; no property states that as intended. By the
  same counter the delays go on where the last recovery left them, and
  `BackoffFollowsSchedule` therefore speaks of the whole life of the process.
- `docs/connection_strategy.md:92` has a resume trigger recovery only after a long enough
  absence. `lastPausedAtMs` is never cleared (`server_recovery_policy.dart:145`), so a
  resume that ends no absence is let through on an old one. `ResumeGating` is the part
  that holds: no kick comes of a resume sooner than that after the latest pause.
- `docs/connection_strategy.md:91` has recovery stop once the session is healthy.
  `onTrigger` leaves the retry timer armed (`connection_orchestrator.dart:180`), which
  then dials over the healthy session.
- `docs/connection_strategy.md:107` has failures trigger the policy. A `_connectOnce`
  that gives up sets `failed` and asks no one (`connection_orchestrator.dart:285`).
- `connection_orchestrator_test.dart:81` has a connected orchestrator report as its last
  attempt the one it recorded. Each call notes its attempt before it awaits the dial
  (`connection_orchestrator.dart:237`), so that of an overlapping call may replace it;
  no property speaks of `lastAttempt`.
- `rtc_video_renderer_impl.dart:71` refuses a source to a disposed renderer. `_disposed`
  is set after the awaited call, and on Windows the renderer is still in its table until
  then (`flutter_video_renderer.cc:171`), so a `srcObject` in between makes it the sink
  of a track again. `FramesAreCurrent` says that it then gets the frames of that track
  only; that it gets none after its end is said of Linux.
- `connection_orchestrator.dart:121` refuses a `start` while one is running; after `stop`
  it accepts while the old `_connectOnce` still runs.
- `docs/connection_strategy.md:84` handles signaling failures; a fetch that throws is
  not caught (`connection_orchestrator.dart:225`) and leaves the state at
  `resolving`. `ConnectEnds` therefore speaks of the call and not of the state.
- `fake_peer_connection.dart:6` gives the peer a life cycle; a dial abandoned by its
  timeout sets the state later, from any state (line 73).
- `bandwidth_tier_strategy.dart:24` steps down above 3 % loss; line 320 does at 3 %.
  The model follows the code.
- `rotation_` outlives `SetVideoTrack`, which resets the size only
  (`flutter_video_renderer.cc:88`), while Dart forgets both when a null source is
  answered; after it Dart may take the next frames for upright. `SizeIsKnown` speaks of
  sizes for that reason.
- Dart asks to show a stream with the track id `'0'` for "none", which C++ looks up as an
  id (`flutter_video_renderer.cc:132`); a stream without video leaves a renderer on its
  old track.
- Nothing is ever put in the map that `mediaStreamAddTrack` and `mediaStreamRemoveTrack`
  walk to refresh renderers (`flutter_webrtc.cc:567`), so those loops do nothing.
- `trackDispose` of a track that is in no local stream leaves its camera running
  (`flutter_media_stream.cc:538`); `CamerasStayInReach` leaves disposed tracks out.
- A stream looked up with the id of a peer connection that is gone is looked up among the
  local ones (`flutter_webrtc_base.cc:107`), so in a loopback the wrong one is found.
- `BuildDesktopSourcesList` empties the list before it finds a type it does not know
  (`flutter_screen_capture.cc:8`).
- `data_channel_observers_` is locked where it is inserted into and not where it is
  searched and erased from (`flutter_peerconnection.cc:1333`, `flutter_data_channel.cc:94`).
- `relay_signaling_service.dart:117` expects the receiver in the list it is sent; the
  cleanup of its previous connection may have deleted the entry.

## Fairness

Safety needs none. What the application calls is not fair anywhere.

- `MCOrchestratorCalls` assumes that awaits end, due timers fire, stray dials end
  and time passes: the event loop runs continuations whose I/O or timer completed,
  and each dial has a timeout.
- `MCRelayCleanup` assumes that a goroutine that can go on does, and that redis
  expires the keys that no goroutine will refresh or delete (`Kept`). A client never has to close its socket, send a message or come back.
- `MCHostDaemon` assumes that timers fire and callbacks run (`SignalingGoesOn`,
  `ReporterGoesOn`) and that the relay cleans up what has ended; these stay enabled
  until they happen, so they are weakly fair. A dial may fail instead of succeeding,
  and the service tries again for as long as it is wanted: strong fairness of
  `Registers` and of `SignalingOpens` and `ReporterOpens` says that a relay that is
  tried again and again answers at last. Without it, a relay that is down for good
  refutes any coming back. Failures, losses and restarts stay possible for ever.
- `MCDataChannels` assumes that what was sent to Dart arrives and that a `Success` that
  has begun ends. The platform thread serves a queue in order, so each channel's next
  step is strongly fair: other handlers may make it wait, not for ever. WebRTC's state
  changes and Dart's calls are not fair.
- `MCClientRelay` assumes that delays and dials end, done events come, the offer is sent,
  and that a dial that is made again and again succeeds at last. The refutation needs
  none of the pages' calls: it is a lost connection whose delayed connect does nothing.

## Theorems

Seven modules hold proofs. Each follows the same argument: an inductive invariant
`IInv` that contains the type invariant, the properties, and what ties the
properties to the step that could break them; `Init => IInv`; one lemma per
action that `IInv` is kept; then the property.

**RecoveryFlowProofs**: `IInv` adds that the policy's record agrees with the kicks:
`attempt` counts them, `lastKickAt` is the last one's time, `lastPausedAt` is the
latest pause, and the k-th kick's delay is the schedule's entry for
k. Without it a throttle on `lastKickAt` says nothing of the kicks. Proved for any
interval, threshold and schedule: `ThrottleSpacesKicks`, `ResumeIsGated`,
and, when the schedule does not decrease, `BackoffGrowsToCap`.

**ConnectionOrchestratorProofs**: `FlowInv` says that a flow about to dial has an
address and that the book cannot be empty by then, and relates the book a flow was
handed to the one there is now. Proved for any number of flows, addresses and
attempts: `TypeCorrect`, `ConnectedRecorded`, `ConnectingHasDial`, `OneRetryTimer`,
`BookKeepsLearnedAddress` and `FailedRestartsAtServer` (action properties), and, with
`MaxStrays = 0`, `PatientDialsKeepPeer`. For `FailedRestartsAtServer` the invariant
`FailedAvoidsCache` says that the flag is set whenever the state is `failed`; the proof
then goes through every step that leaves it.

**RelayServerProofs**: `LogInv` adds that a queued proxy message has a sequence
number its sender has used, and `Quiet` that an unused connection has nothing
queued. Proved for any users, devices, connections and capacity:
`TypeCorrect`, `RoutingIsSound` (`ProxyIsFaithful`), `RegistryIsSound`
(`RegisteredIsServed`), `OnlineKeysAreBacked`, and `RelayImplementsRegistry`: to each
device key the relay is a `RelayRegistry`. `NobodyIsOverlooked` (`RegisteredIsTold`) needs
`ToldInv`: a registered client was told of a device that announced itself, or the list
its handler has read and not yet queued names it. None of them assumes anything about
which connections overlap.

**HostDaemonProofs**: its first two parts are about the services alone, at the daemon's
variables, `S...` for the signaling service and `R...` for the reporter.
`SOneChain` says that one thing at a time is under way, a socket or the wait
for the next attempt; `SKnown` that an object that is not stopped knows its socket,
listens to it, and has something under way, which is what `_socket != null` in
`_connect` relies on. The refinement alone is not inductive: nothing in `link` says
that the socket that ends is the one remembered. Proved for any number of WebSockets,
from `None \notin SignalConns` and `None \notin ReportConns`: `SImplementsLink` and
`RImplementsLink`. In the third part every step of the daemon, the relay or the other
service is a step of the service or leaves it alone, which gives
`SignalingImplementsLink` and `ReporterImplementsLink`, together
`ServicesImplementLinks`. `TypeCorrect` adds to their type invariants the daemon's
step, the test connection and the relay all three share.

**BandwidthTierProofs**: `RunInv` says that a timer that runs has a sample in the log
at which it started and since which every sample wanted the step (`StepsAreEarned`).
`PromptInv` is the converse: a link that wants a step has its timer running since no
later than its first such sample (`StepsArePrompt`). That needs `Consistent`: no
sample wants a step up and a step down at once, which `OrderedLimitsAreConsistent`
derives from the order of the limits. `BitrateFits` is about every sample. Proved
for all links, limits, waits and gaps.

**PluginMediaProofs**: `IInv` is in two halves, as the state is. `TablesInv` adds to the
properties that every track in a table has a kind (`Kinds`) and that a running camera's
track is in the tables only as itself (`OwnTrackOnly`): without it, removing what has
an id from one table says nothing of another. `ViewsInv` adds to `FramesAreCurrent` and
the types of what is in flight that Dart's subscription ends before its renderer leaves,
and that on Linux none is left in between (`TextureInv`). Proved for any streams, tracks, peer connections and
renderers, and for both builds: `TypeCorrect`, `DisposedTracksStayGone`, `CamerasInReach`,
`RenderersFollowTracks`, and `StreamsImplementHandles`. `SizesAreKnown` (`SizeIsKnown`)
needs besides that a renderer without a track has no size (`NoTrackNoSize`): a
size told just before the track was taken away would otherwise count as known.

**DataChannelsProofs**: `Announced` says that the announcement of a channel is sent
first and once, `Listens` that Dart listens once, after it, and what each step of
`onListen` may find in the queue, `Numbered` that everything queued or sent is an event
that was posted. What keeps the order lies in three places, the code that sends, Dart,
and the pipe between them, so none of it is inductive alone. The lemmas on faithful
sequences (`FaithfulAppends`, `FaithfulWith`, `FaithfulWithout`) say that an event that
raced an `onListen` may be put in or taken out anywhere; each step then moves an event
from one part of the stream to the next (`TwoParts`, `ThreeParts`). Proved for any peer
connections and channels: `TypeCorrect`, `StreamsAreFaithful`, and
`ChannelsImplementHandles`.

Assumptions are the named `ASSUME`s of the modules, which TLC evaluates in every run,
and the hypotheses in the statements.

Every safety property and every refinement of the passing runs is stated by a theorem.
Model-checked only are the liveness properties, `ConnectEnds`, `ClosedIsForgotten`,
`OfflineKeyGoes`, `LinksComeBack` and `DartCatchesUp`: the prover does no liveness under
fairness.

## Not modelled

- Blocks, the daemon's files and processes, the clients' direct connection, host console,
  HTTP API: see the plan.
- iTerm2 bridge, Python scripts, capture, cropping, gestures: input and output of
  external processes, and geometry.
- Pages, widgets, platform projects: user interface and generated code.
- Of `plugins/flutter-webrtc`: the frame cryptors (tables around libwebrtc's own, which the
  apps never use); descriptions, candidates, senders, receivers, transceivers and
  statistics, which the handlers convert and pass on, and whose state is libwebrtc's;
  device lists, constraints and configurations, codecs, pixels and thumbnails, which are
  conversions; the Apple, Android and web implementations of the plugin.
- By lines most of the repository's C, C++ and Objective-C cannot be modelled: of some
  45,300, about 34,100 are headers of `WebRTC.xcframework` without any code, and the
  rest is the plugin's glue and its bundled codecs and examples. The program's own logic is in
  Dart and Go, and the map's share of that code is the one that says something.
- In the modelled components: event logs, message payloads, token validation, pings,
  the reporter's reports, error callbacks that dart:io never makes,
  `_tierFromBandwidth` (nothing calls it), ports and the wording of reasons.
- A `start` of a service during the awaits of its `stop`: the daemon never does it.
  `RelaySignalingService` would then lose the new socket to the end of the old `stop`.

## Plan

Done so far: recovery policy, orchestrator, relay, daemon links, tiers, the client's
relay socket, the plugin's data channels and media tables. Next:

1. `ClientConnection`: `ConnectionService` with the late callbacks of an old channel and
   candidates that come before descriptions, over `ClientRelay`; once a socket that is
   done is forgotten, `ClientRelay` should implement `Link`.
2. `RelayView`: a client's device list built from the relay's messages, composing
   the relay with a client; an abstract presence service as a refinement.
3. `EncodingPolicy` and `StreamHost`: hysteresis of modes and the session that applies
   it; theorems like those of the tiers.
4. `ConsoleSession`: login, refresh, logout and the websocket of the host console;
   `AppController` with two orchestrators.
5. `WebRtcSignaling`: offer, answer and candidates between the WebRTC block and a
   client through the relay.
6. Theorems: the refinements and invariants of the new modules, as they come.

New modules of services that share no state can be composed into one run, as
`HostDaemon` does, so that the number of runs stays small.
