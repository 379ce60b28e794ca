--------------------------- MODULE RelayRegistry ---------------------------
(***************************************************************************)
(* What the relay's clients map means to one device: the connections       *)
(* served for it, and the one a message for it goes to.  The last to       *)
(* connect is registered; the cleanup of any of them unregisters it.       *)
(***************************************************************************)

CONSTANTS Conns, NoConn

VARIABLES
  registered,   \* the connection messages go to
  served        \* the connections whose cleanup is to come

vars == <<registered, served>>

TypeOK == registered \in Conns \cup {NoConn} /\ served \in SUBSET Conns

Init == registered = NoConn /\ served = {}

Register(c) ==
  /\ c \notin served
  /\ registered' = c
  /\ served' = served \cup {c}

Unregister(c) ==
  /\ c \in served
  /\ registered' = NoConn
  /\ served' = served \ {c}

Restart == registered' = NoConn /\ served' = {}

Next == Restart \/ \E c \in Conns : Register(c) \/ Unregister(c)

Spec == Init /\ [][Next]_vars

=============================================================================
