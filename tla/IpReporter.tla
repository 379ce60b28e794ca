----------------------------- MODULE IpReporter -----------------------------
(***************************************************************************)
(* The daemon's second connection to the relay, over which IpReporter      *)
(* tells the host's addresses.  It is laid out like RelayLink; its code    *)
(* differs in three ways: reconnecting is a delayed call that nothing can  *)
(* cancel, start() awaits its own first attempt with the delay that may    *)
(* follow it, and then sets a periodic timer.  The reports themselves, and *)
(* _handleError, which dart:io never calls, are left out.                  *)
(***************************************************************************)
EXTENDS Naturals

CONSTANTS
  Conns,   \* identities of WebSockets, used again once they are free
  None     \* null, not a member of Conns

VARIABLES
  disposed,      \* _disposed
  socket,        \* _socket
  socketSub,     \* _socketSub, as the WebSocket it listens to
  reportTimer,   \* is _reportTimer set?
  delayed,       \* the delayed calls of _connect still to come
  conn,          \* what there is of each WebSocket
  heard,         \* the WebSockets with an active subscription
  startup,       \* what start() is awaiting
  stopping       \* what stop() is awaiting

vars == <<disposed, socket, socketSub, reportTimer, delayed, conn, heard, startup, stopping>>

ConnState == {"free", "dialing", "open", "ended"}

TypeOK ==
  /\ disposed \in BOOLEAN
  /\ socket \in Conns \cup {None}
  /\ socketSub \in Conns \cup {None}
  /\ reportTimer \in BOOLEAN
  /\ delayed \in {0, 1}
  /\ conn \in [Conns -> ConnState]
  /\ heard \in SUBSET Conns
  /\ startup \in {"no", "dial", "delay", "done"}
  /\ stopping \in {"no", "cancel", "close"}

Init ==
  /\ disposed = FALSE
  /\ socket = None
  /\ socketSub = None
  /\ reportTimer = FALSE
  /\ delayed = 0
  /\ conn = [c \in Conns |-> "free"]
  /\ heard = {}
  /\ startup = "no"
  /\ stopping = "no"

Turns(c, from, to) ==
  /\ conn[c] = from
  /\ conn' = [conn EXCEPT ![c] = to]

\* Wrong: it does not look at disposed.
ConnectWrong ==
  IF socket # None
  THEN UNCHANGED conn
  ELSE \E c \in Conns : Turns(c, "free", "dialing")

\* _connect up to its await.
Connect ==
  IF disposed \/ socket # None
  THEN UNCHANGED conn
  ELSE \E c \in Conns : Turns(c, "free", "dialing")

Delay == IF disposed THEN 0 ELSE 1

\* start() goes on after its _connect, stopped or not.
StartReturns ==
  /\ startup' = "done"
  /\ reportTimer' = TRUE

-----------------------------------------------------------------------------
(* start, _connect and the delayed calls *)

Start ==
  /\ startup = "no"
  /\ startup' = "dial"
  /\ disposed' = FALSE
  /\ Connect
  /\ UNCHANGED <<socket, socketSub, reportTimer, delayed, heard, stopping>>

DialSucceeds(c) ==
  /\ Turns(c, "dialing", "open")
  /\ socket' = c
  /\ socketSub' = c
  /\ heard' = heard \cup {c}
  /\ IF startup = "dial" THEN StartReturns ELSE UNCHANGED <<startup, reportTimer>>
  /\ UNCHANGED <<disposed, delayed, stopping>>

\* A failed first attempt keeps start() waiting through the delay; it returns
\* at once when the service has been stopped.
DialFails(c) ==
  /\ Turns(c, "dialing", "free")
  /\ delayed' = delayed + Delay
  /\ CASE startup = "dial" /\ disposed -> StartReturns
       [] startup = "dial" /\ ~disposed -> startup' = "delay" /\ UNCHANGED reportTimer
       [] OTHER -> UNCHANGED <<startup, reportTimer>>
  /\ UNCHANGED <<disposed, socket, socketSub, heard, stopping>>

DelayEnds ==
  /\ delayed > 0
  /\ delayed' = delayed - 1
  /\ Connect
  /\ IF startup = "delay" THEN StartReturns ELSE UNCHANGED <<startup, reportTimer>>
  /\ UNCHANGED <<disposed, socket, socketSub, heard, stopping>>

\* Wrong: _socket still holds the socket that is gone.
DoneWrong(c) ==
  /\ c \in heard
  /\ Turns(c, "ended", "free")
  /\ heard' = heard \ {c}
  /\ delayed' = delayed + Delay
  /\ UNCHANGED <<disposed, socket, socketSub, reportTimer, startup, stopping>>

\* Wrong: two reconnects for one lost connection.
DoneTwiceWrong(c) ==
  /\ c \in heard
  /\ Turns(c, "ended", "free")
  /\ heard' = heard \ {c}
  /\ socket' = None
  /\ delayed' = delayed + 2 * Delay
  /\ UNCHANGED <<disposed, socketSub, reportTimer, startup, stopping>>

\* _handleDone, which keeps the subscription.
Done(c) ==
  /\ c \in heard
  /\ Turns(c, "ended", "free")
  /\ heard' = heard \ {c}
  /\ socket' = None
  /\ delayed' = delayed + Delay
  /\ UNCHANGED <<disposed, socketSub, reportTimer, startup, stopping>>

-----------------------------------------------------------------------------
(* stop, in three pieces *)

Stop ==
  /\ startup # "no" /\ ~disposed
  /\ disposed' = TRUE
  /\ reportTimer' = FALSE
  /\ heard' = heard \ {socketSub}
  /\ stopping' = "cancel"
  /\ UNCHANGED <<socket, socketSub, delayed, conn, startup>>

StopCancelled ==
  /\ stopping = "cancel"
  /\ stopping' = "close"
  /\ socketSub' = None
  /\ conn' = [c \in Conns |-> IF c = socket /\ conn[c] = "open" THEN "ended" ELSE conn[c]]
  /\ UNCHANGED <<disposed, socket, reportTimer, delayed, heard, startup>>

StopClosed ==
  /\ stopping = "close"
  /\ stopping' = "no"
  /\ socket' = None
  /\ UNCHANGED <<disposed, socketSub, reportTimer, delayed, conn, heard, startup>>

-----------------------------------------------------------------------------
(* The environment, as in RelayLink *)

Ends(c) ==
  /\ Turns(c, "open", "ended")
  /\ UNCHANGED <<disposed, socket, socketSub, reportTimer, delayed, heard, startup, stopping>>

Collected(c) ==
  /\ c \notin heard
  /\ Turns(c, "ended", "free")
  /\ UNCHANGED <<disposed, socket, socketSub, reportTimer, delayed, heard, startup, stopping>>

Next ==
  \/ Start \/ DelayEnds \/ Stop \/ StopCancelled \/ StopClosed
  \/ \E c \in Conns :
       \/ DialSucceeds(c) \/ DialFails(c) \/ Done(c)
       \/ Ends(c) \/ Collected(c)

Spec == Init /\ [][Next]_vars

-----------------------------------------------------------------------------
(* The refinement of Link *)

SomeConn(states) == \E c \in Conns : conn[c] \in states

wanted == startup # "no" /\ ~disposed

link ==
  IF SomeConn({"dialing"}) THEN "dialing"
  ELSE IF SomeConn({"open", "ended"}) THEN "up"
  ELSE IF delayed > 0 /\ ~disposed THEN "waiting" ELSE "off"

L == INSTANCE Link

=============================================================================
