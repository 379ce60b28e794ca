----------------------------- MODULE ClientRelay ------------------------------
(***************************************************************************)
(* The macOS client's connection to the relay, RemoteWsService, and        *)
(* ConnectionService.connectViaRelay, which negotiates over it.            *)
(*                                                                         *)
(* An action is a piece of Dart code between two awaits, or a callback of  *)
(* a WebSocket or of a delayed connect.  Each WebSocket is an element of   *)
(* Conns.  The pages await connectViaRelay before they call it again; they *)
(* may call connect beside it.  The user is logged in throughout.          *)
(* RemoteWsService.disconnect, which the app never calls, and              *)
(* _handleError, which dart:io's WebSocket never calls, are left out, and  *)
(* so is what the peer connection does after the offer.                    *)
(***************************************************************************)
EXTENDS Naturals

CONSTANTS
  Conns,      \* identities of WebSockets, used again once they are free
  None,       \* null, not a member of Conns
  MaxDelays   \* bound: delayed connects at a time

VARIABLES
  connected,   \* RemoteWsService._connected
  socket,      \* RemoteWsService._socket
  delays,      \* delayed connects to come
  conn,        \* what there is of each WebSocket
  call,        \* where connectViaRelay is
  awaits,      \* the dial it awaits, if it made one
  offer        \* what became of its offer

vars == <<connected, socket, delays, conn, call, awaits, offer>>

\* "ended": closed by either side, with its done event still to come.
ConnState == {"free", "dialing", "open", "ended"}

Init ==
  /\ connected = FALSE
  /\ socket = None
  /\ delays = 0
  /\ conn = [c \in Conns |-> "free"]
  /\ call = "idle"
  /\ awaits = None
  /\ offer = "none"

Turns(c, from, to) ==
  /\ conn[c] = from
  /\ conn' = [conn EXCEPT ![c] = to]

\* connect returns at once while a socket is known, dead or alive.
MustDial == ~connected /\ socket = None

-----------------------------------------------------------------------------
(* RemoteWsService *)

\* A page that loads its devices calls connect.
LoadDevices(c) ==
  /\ MustDial
  /\ Turns(c, "free", "dialing")
  /\ UNCHANGED <<connected, socket, delays, call, awaits, offer>>

\* A call that awaited this dial goes on.
Resumes(c) ==
  IF awaits = c
  THEN call' = "negotiating" /\ awaits' = None
  ELSE UNCHANGED <<call, awaits>>

DialSucceeds(c) ==
  /\ Turns(c, "dialing", "open")
  /\ socket' = c
  /\ connected' = TRUE
  /\ Resumes(c)
  /\ UNCHANGED <<delays, offer>>

DialFails(c) ==
  /\ Turns(c, "dialing", "free")
  /\ delays < MaxDelays
  /\ connected' = FALSE
  /\ delays' = delays + 1
  /\ Resumes(c)
  /\ UNCHANGED <<socket, offer>>

\* A delayed connect: it dials, or finds that it need not.
DelayEnds ==
  /\ delays > 0
  /\ delays' = delays - 1
  /\ \/ /\ MustDial
        /\ \E c \in Conns : Turns(c, "free", "dialing")
     \/ /\ ~MustDial
        /\ UNCHANGED conn
  /\ UNCHANGED <<connected, socket, call, awaits, offer>>

\* The connection is closed by the relay or the network.
Ends(c) ==
  /\ Turns(c, "open", "ended")
  /\ UNCHANGED <<connected, socket, delays, call, awaits, offer>>

HandleDone(c) ==
  /\ Turns(c, "ended", "free")
  /\ delays < MaxDelays
  /\ connected' = FALSE
  /\ delays' = delays + 1
  /\ UNCHANGED <<socket, call, awaits, offer>>

-----------------------------------------------------------------------------
(* ConnectionService *)

\* Up to the await of connect, or past it.
ConnectViaRelay ==
  /\ call = "idle"
  /\ offer' = "none"
  /\ \/ /\ MustDial
        /\ \E c \in Conns : Turns(c, "free", "dialing") /\ awaits' = c
        /\ call' = "awaiting"
     \/ /\ ~MustDial
        /\ call' = "negotiating"
        /\ UNCHANGED <<conn, awaits>>
  /\ UNCHANGED <<connected, socket, delays>>

\* The offer is made and handed to sendProxy, which drops it without a
\* connection; the call returns as connected either way.
SendOffer ==
  /\ call = "negotiating"
  /\ call' = "idle"
  /\ offer' = IF connected /\ socket # None THEN "sent" ELSE "dropped"
  /\ UNCHANGED <<connected, socket, delays, conn, awaits>>

-----------------------------------------------------------------------------

Next ==
  \/ \E c \in Conns :
       \/ LoadDevices(c)
       \/ DialSucceeds(c)
       \/ DialFails(c)
       \/ Ends(c)
       \/ HandleDone(c)
  \/ DelayEnds
  \/ ConnectViaRelay
  \/ SendOffer

Spec == Init /\ [][Next]_vars

\* Delays and dials end, done events come, and the network lets a dial succeed
\* when it lets dials be made again and again; the user calls when they like.
FairSpec ==
  /\ Spec
  /\ WF_vars(DelayEnds)
  /\ WF_vars(SendOffer)
  /\ \A c \in Conns :
       /\ WF_vars(DialSucceeds(c) \/ DialFails(c))
       /\ SF_vars(DialSucceeds(c))
       /\ WF_vars(HandleDone(c))

-----------------------------------------------------------------------------

\* A relay connection that was lost is made again: the done callback plans a
\* connect, and negotiation is to find a transport (RemoteWsService._handleDone).
RelayComesBack == (socket # None /\ ~connected) ~> connected
=============================================================================
