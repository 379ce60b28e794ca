----------------------------- MODULE HostDaemon -----------------------------
(***************************************************************************)
(* The relay side of a host daemon: DaemonOrchestrator.initialize opens a  *)
(* test connection, then starts an IpReporter (module IpReporter) and a    *)
(* RelaySignalingService (module RelayLink); dispose stops them.  All      *)
(* three use one token, so to the relay they are connections of one        *)
(* device, kept as RelayRegistry says.  The relay serves a connection      *)
(* before the daemon learns that it is open, and may notice its end before *)
(* or after the daemon does.                                               *)
(***************************************************************************)
EXTENDS Naturals

CONSTANTS
  SignalConns,   \* the WebSockets of the signaling service
  ReportConns,   \* the WebSockets of the reporter
  TestConn,      \* the test connection
  None           \* no connection

ASSUME HostDaemonAssumption ==
  /\ SignalConns \cap ReportConns = {}
  /\ TestConn \notin SignalConns \cup ReportConns
  /\ None \notin SignalConns \cup ReportConns \cup {TestConn}

Conns == SignalConns \cup ReportConns \cup {TestConn}

VARIABLES
  step,                    \* how far initialize or dispose is
  registered, served,      \* the relay: see RelayRegistry
  test,                    \* the state of the test connection
  \* the signaling service: see RelayLink
  sDisposed, sSocket, sSub, sTimer, sConn, sHeard, sStarted, sStopping,
  \* the reporter: see IpReporter
  rDisposed, rSocket, rSub, rTimer, rDelayed, rConn, rHeard, rStartup, rStopping

S == INSTANCE RelayLink WITH
  Conns <- SignalConns,
  disposed <- sDisposed, socket <- sSocket, socketSub <- sSub, reconnectTimer <- sTimer,
  conn <- sConn, heard <- sHeard, started <- sStarted, stopping <- sStopping

R == INSTANCE IpReporter WITH
  Conns <- ReportConns,
  disposed <- rDisposed, socket <- rSocket, socketSub <- rSub, reportTimer <- rTimer,
  delayed <- rDelayed, conn <- rConn, heard <- rHeard, startup <- rStartup,
  stopping <- rStopping

Relay == INSTANCE RelayRegistry WITH NoConn <- None

daemon == <<step, test>>
relay == <<registered, served>>
signaling == <<sDisposed, sSocket, sSub, sTimer, sConn, sHeard, sStarted, sStopping>>
reporter == <<rDisposed, rSocket, rSub, rTimer, rDelayed, rConn, rHeard, rStartup, rStopping>>
vars == <<daemon, relay, signaling, reporter>>

TypeOK ==
  /\ step \in {"boot", "testing", "reporting", "running", "stopReporter", "stopSignaling"}
  /\ test \in {"free", "dialing", "done"}
  /\ Relay!TypeOK /\ S!TypeOK /\ R!TypeOK

Init ==
  /\ step = "boot"
  /\ test = "free"
  /\ Relay!Init /\ S!Init /\ R!Init

Steps(from, to) == step = from /\ step' = to

\* What the daemon's side holds of a connection.
Side(c) ==
  IF c \in SignalConns THEN sConn[c] ELSE IF c \in ReportConns THEN rConn[c] ELSE test

-----------------------------------------------------------------------------
(* initialize and dispose *)

DialTest ==
  /\ Steps("boot", "testing")
  /\ test' = "dialing"
  /\ UNCHANGED <<relay, signaling, reporter>>

\* The test connection is open and closed at once, or could not be opened;
\* either way the reporter is started.
StartReporter ==
  /\ Steps("testing", "reporting")
  /\ test' = "done"
  /\ R!Start
  /\ UNCHANGED <<relay, signaling>>

\* IpReporter.start has returned, some time after the reporter's first report.
StartSignaling ==
  /\ Steps("reporting", "running")
  /\ rStartup = "done"
  /\ S!Start
  /\ UNCHANGED <<test, relay, reporter>>

StopReporter ==
  /\ Steps("running", "stopReporter")
  /\ R!Stop
  /\ UNCHANGED <<test, relay, signaling>>

StopSignaling ==
  /\ Steps("stopReporter", "stopSignaling")
  /\ rStopping = "no"
  /\ S!Stop
  /\ UNCHANGED <<test, relay, reporter>>

-----------------------------------------------------------------------------
(* The two services *)

\* A step of one service alone.  No identity is dialed again while the relay
\* still serves the last connection of that name.
OfSignaling(A) ==
  /\ A
  /\ \A c \in SignalConns \cap served : sConn'[c] = "dialing" => sConn[c] = "dialing"
  /\ UNCHANGED <<daemon, relay, reporter>>
OfReporter(A) ==
  /\ A
  /\ \A c \in ReportConns \cap served : rConn'[c] = "dialing" => rConn[c] = "dialing"
  /\ UNCHANGED <<daemon, relay, signaling>>

SignalingOpens == OfSignaling(\E c \in SignalConns \cap served : S!DialSucceeds(c))
ReporterOpens == OfReporter(\E c \in ReportConns \cap served : R!DialSucceeds(c))

\* What Dart's event loop and its sockets are sure to do.
SignalingGoesOn == OfSignaling(
  \/ S!TimerFires \/ S!StopCancelled \/ S!StopClosed
  \/ \E c \in SignalConns :
       S!Done(c) \/ S!Collected(c))
ReporterGoesOn == OfReporter(
  \/ R!DelayEnds \/ R!StopCancelled \/ R!StopClosed
  \/ \E c \in ReportConns :
       R!Done(c) \/ R!Collected(c))

SignalingFails == OfSignaling(\E c \in SignalConns : S!DialFails(c) \/ S!Ends(c))
ReporterFails == OfReporter(\E c \in ReportConns : R!DialFails(c) \/ R!Ends(c))

-----------------------------------------------------------------------------
(* The relay *)

Registers(c) ==
  /\ Side(c) = "dialing"
  /\ Relay!Register(c)
  /\ UNCHANGED <<daemon, signaling, reporter>>

\* readPump fails on a connection that is no longer open, and cleans up.
Unregisters(c) ==
  /\ Side(c) \notin {"dialing", "open"}
  /\ Relay!Unregister(c)
  /\ UNCHANGED <<daemon, signaling, reporter>>

Restarts ==
  /\ Relay!Restart
  /\ UNCHANGED <<daemon, signaling, reporter>>

Next ==
  \/ DialTest \/ StartReporter \/ StartSignaling \/ StopReporter \/ StopSignaling
  \/ SignalingOpens \/ SignalingGoesOn \/ SignalingFails
  \/ ReporterOpens \/ ReporterGoesOn \/ ReporterFails
  \/ \E c \in Conns : Registers(c) \/ Unregisters(c)
  \/ Restarts

Spec == Init /\ [][Next]_vars

\* Timers fire and callbacks run, the relay cleans up, and a relay that is tried
\* again and again answers; dials and connections may fail all the same.
Fairness ==
  /\ WF_vars(SignalingGoesOn) /\ SF_vars(SignalingOpens)
  /\ WF_vars(ReporterGoesOn) /\ SF_vars(ReporterOpens)
  /\ SF_vars(\E c \in SignalConns : Registers(c))
  /\ SF_vars(\E c \in ReportConns : Registers(c))
  /\ WF_vars(\E c \in SignalConns : Unregisters(c))
  /\ WF_vars(\E c \in ReportConns : Unregisters(c))

FairSpec == Spec /\ Fairness

-----------------------------------------------------------------------------
\* Each service is a Link of its own while they share the daemon and the relay:
\* one WebSocket at a time, another attempt after every failure and loss, none
\* after stop, however late a dial in flight is answered.
SignalingIsALink == S!L!Spec
ReporterIsALink == R!L!Spec
ServicesAreLinks == SignalingIsALink /\ ReporterIsALink

\* A wanted link comes back after every loss, unless it is stopped.
LinksComeBack ==
  /\ S!wanted ~> S!link = "up" \/ ~S!wanted
  /\ R!wanted ~> R!link = "up" \/ ~R!wanted

\* relay_signaling_service.dart:6, the service forwards the signaling messages
\* of the relay.  With its connection up, and nothing under way, they come to it.
AtRest == served = {c \in Conns : Side(c) = "open"}
OffersReachSignaling ==
  AtRest => \A c \in served \cap SignalConns : registered = c

=============================================================================
