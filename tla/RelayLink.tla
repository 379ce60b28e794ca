----------------------------- MODULE RelayLink -----------------------------
(***************************************************************************)
(* The daemon's signaling connection to the relay, RelaySignalingService.  *)
(* Dart runs the code between two awaits without interruption: an action   *)
(* is such a piece of start, stop or _connect, or one callback of a socket *)
(* or of the timer.  Several WebSockets may be in existence, each an       *)
(* element of Conns; `socket` is the one the service knows.  The daemon    *)
(* starts the service once and stops it at most once.                      *)
(*                                                                         *)
(* Messages pass through without changing this state.  dart:io reports a   *)
(* failure of a WebSocket as its end and never as an error event, and      *)
(* _handleError would only print.                                          *)
(***************************************************************************)
CONSTANTS
  Conns,   \* identities of WebSockets, used again once they are free
  None     \* null, not a member of Conns

VARIABLES
  disposed,         \* _disposed
  socket,           \* _socket
  socketSub,        \* _socketSub, as the WebSocket it listens to
  reconnectTimer,   \* is _reconnectTimer set?
  conn,             \* what there is of each WebSocket
  heard,            \* the WebSockets with an active subscription
  started,          \* has start() been called?
  stopping          \* what stop() is awaiting

vars == <<disposed, socket, socketSub, reconnectTimer, conn, heard, started, stopping>>

\* "ended": closed by either side, with its done event still to come.
ConnState == {"free", "dialing", "open", "ended"}

TypeOK ==
  /\ disposed \in BOOLEAN
  /\ socket \in Conns \cup {None}
  /\ socketSub \in Conns \cup {None}
  /\ reconnectTimer \in BOOLEAN
  /\ conn \in [Conns -> ConnState]
  /\ heard \in SUBSET Conns
  /\ started \in BOOLEAN
  /\ stopping \in {"no", "cancel", "close"}

Init ==
  /\ disposed = FALSE
  /\ socket = None
  /\ socketSub = None
  /\ reconnectTimer = FALSE
  /\ conn = [c \in Conns |-> "free"]
  /\ heard = {}
  /\ started = FALSE
  /\ stopping = "no"

Turns(c, from, to) ==
  /\ conn[c] = from
  /\ conn' = [conn EXCEPT ![c] = to]

\* _connect up to its await.
Connect ==
  IF disposed \/ socket # None
  THEN UNCHANGED conn
  ELSE \E c \in Conns : Turns(c, "free", "dialing")

ScheduleReconnect == reconnectTimer' = (reconnectTimer \/ ~disposed)

-----------------------------------------------------------------------------
(* start, _connect and the timer *)

Start ==
  /\ ~started
  /\ started' = TRUE
  /\ disposed' = FALSE
  /\ Connect
  /\ UNCHANGED <<socket, socketSub, reconnectTimer, heard, stopping>>

\* The await of _connect returns.  It does not look at _disposed again.
DialSucceeds(c) ==
  /\ Turns(c, "dialing", "open")
  /\ socket' = c
  /\ socketSub' = c
  /\ heard' = heard \cup {c}
  /\ UNCHANGED <<disposed, reconnectTimer, started, stopping>>

DialFails(c) ==
  /\ Turns(c, "dialing", "free")
  /\ ScheduleReconnect
  /\ UNCHANGED <<disposed, socket, socketSub, heard, started, stopping>>

\* Wrong: the timer that has run is kept in _reconnectTimer.
TimerFiresWrong ==
  /\ reconnectTimer
  /\ Connect
  /\ UNCHANGED <<disposed, socket, socketSub, reconnectTimer, heard, started, stopping>>

TimerFires ==
  /\ reconnectTimer
  /\ reconnectTimer' = FALSE
  /\ Connect
  /\ UNCHANGED <<disposed, socket, socketSub, heard, started, stopping>>

\* Wrong: _socket still holds the socket that is gone.
DoneWrong(c) ==
  /\ c \in heard
  /\ Turns(c, "ended", "free")
  /\ heard' = heard \ {c}
  /\ socketSub' = None
  /\ ScheduleReconnect
  /\ UNCHANGED <<disposed, socket, started, stopping>>

\* _handleDone, which does not look at which socket is done.
Done(c) ==
  /\ c \in heard
  /\ Turns(c, "ended", "free")
  /\ heard' = heard \ {c}
  /\ socket' = None
  /\ socketSub' = None
  /\ ScheduleReconnect
  /\ UNCHANGED <<disposed, started, stopping>>

-----------------------------------------------------------------------------
(* stop, in three pieces *)

Stop ==
  /\ started /\ ~disposed
  /\ disposed' = TRUE
  /\ reconnectTimer' = FALSE
  /\ heard' = heard \ {socketSub}
  /\ stopping' = "cancel"
  /\ UNCHANGED <<socket, socketSub, conn, started>>

StopCancelled ==
  /\ stopping = "cancel"
  /\ stopping' = "close"
  /\ socketSub' = None
  /\ conn' = [c \in Conns |-> IF c = socket /\ conn[c] = "open" THEN "ended" ELSE conn[c]]
  /\ UNCHANGED <<disposed, socket, reconnectTimer, heard, started>>

StopClosed ==
  /\ stopping = "close"
  /\ stopping' = "no"
  /\ socket' = None
  /\ UNCHANGED <<disposed, socketSub, reconnectTimer, conn, heard, started>>

-----------------------------------------------------------------------------
(* The environment: a connection ends, a WebSocket that nobody listens to  *)
(* goes away.                                                              *)

Ends(c) ==
  /\ Turns(c, "open", "ended")
  /\ UNCHANGED <<disposed, socket, socketSub, reconnectTimer, heard, started, stopping>>

Collected(c) ==
  /\ c \notin heard
  /\ Turns(c, "ended", "free")
  /\ UNCHANGED <<disposed, socket, socketSub, reconnectTimer, heard, started, stopping>>

Next ==
  \/ Start \/ TimerFires \/ Stop \/ StopCancelled \/ StopClosed
  \/ \E c \in Conns :
       \/ DialSucceeds(c) \/ DialFails(c) \/ Done(c)
       \/ Ends(c) \/ Collected(c)

Spec == Init /\ [][Next]_vars

-----------------------------------------------------------------------------
(* The refinement of Link *)

SomeConn(states) == \E c \in Conns : conn[c] \in states

wanted == started /\ ~disposed

link ==
  IF SomeConn({"dialing"}) THEN "dialing"
  ELSE IF SomeConn({"open", "ended"}) THEN "up"
  ELSE IF reconnectTimer THEN "waiting" ELSE "off"

L == INSTANCE Link

=============================================================================
