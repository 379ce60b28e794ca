---------------------------- MODULE RelayServer ----------------------------
(***************************************************************************)
(* The WebSocket relay server/ws/main.go.  Every connection is served by a *)
(* handler goroutine (handleWebSocket) that then starts a writePump and a  *)
(* readPump; they share the `clients` map, the redis online keys and the   *)
(* Send channel of every client.  An action is one critical section, one   *)
(* redis command or one channel operation of one goroutine.                *)
(*                                                                         *)
(* A broadcast offers its message to all its targets under one read lock;  *)
(* it is one action, so the order in which two concurrent broadcasts reach *)
(* different queues is not modelled and no property is about it.  A        *)
(* connection's queue is kept as everything ever put into Send (inbox)     *)
(* and the number of messages writePump took out of it (taken).  Payloads, *)
(* timestamps and pings are left out; a rejected token and a frame that is *)
(* not a proxy message change nothing and have no action.                  *)
(*                                                                         *)
(* The code ignores the error of a redis command: each may fail, leaving   *)
(* redis as it was, and the goroutine goes on.  orphans is history.        *)
(***************************************************************************)
EXTENDS Integers, Sequences, FiniteSets

CONSTANTS
  Users, Ids,    \* the user ids and device ids of tokens
  Conns,         \* identities of connections, used once each
  NoConn,        \* no connection
  All,           \* the target "" or "broadcast"
  Cap,           \* the capacity of a Send channel
  MaxSends,      \* bound on the proxy messages of a connection
  MaxCrashes     \* bound on server restarts

ASSUME RelayAssumption ==
  /\ Users # {} /\ Ids # {}
  /\ NoConn \notin Conns
  /\ All \notin Ids
  /\ Cap \in Nat \ {0}
  /\ MaxSends \in Nat
  /\ MaxCrashes \in Nat

VARIABLES
  clients,   \* clients: the registered connection of each key
  redis,     \* the keys with an online entry in redis
  orphans,   \* the keys whose entry a restart or a failed Del left behind
  phase,     \* how far the goroutines of each connection are
  key,       \* UserID and DeviceID of the connection
  online,    \* the list the handler read for its presence_sync
  socket,    \* is the connection's socket open?
  inbox,     \* everything put into the connection's Send channel
  taken,     \* how much of it writePump has taken out
  dropped,   \* the connections that lost a message to a full queue
  sends,     \* the proxy messages read from each connection
  crashes    \* the restarts so far

vars == <<clients, redis, orphans, phase, key, online, socket, inbox, taken, dropped,
          sends, crashes>>

\* clientKey and redisOnlineKey.  They join the two with a colon, which a user id,
\* a UUID, does not contain: different pairs give different keys.
Keys == [user : Users, id : Ids]

Message ==
  [type : {"presence_sync"}, online : SUBSET Keys]
    \cup [type : {"ice_servers"}]
    \cup [type : {"presence_update"}, key : Keys, status : {"online", "offline"}]
    \cup [type : {"proxy"}, from : Conns, seq : Nat]

\* The handler's steps in order, then cleanup's.
Handshake == {"registered", "announced", "listed", "synced", "served"}
Cleanup == {"unregistered", "cleared"}
Phase == {"free"} \cup Handshake \cup {"pumping"} \cup Cleanup \cup {"gone"}

TypeOK ==
  /\ clients \in [Keys -> Conns \cup {NoConn}]
  /\ redis \in SUBSET Keys
  /\ orphans \in SUBSET Keys
  /\ phase \in [Conns -> Phase]
  /\ key \in [Conns -> Keys]
  /\ online \in [Conns -> SUBSET Keys]
  /\ socket \in [Conns -> BOOLEAN]
  /\ inbox \in [Conns -> Seq(Message)]
  /\ taken \in [Conns -> Nat]
  /\ dropped \in SUBSET Conns
  /\ sends \in [Conns -> 0 .. MaxSends]
  /\ crashes \in 0 .. MaxCrashes

\* key is fixed when the connection is made; what it holds before means nothing.
Init ==
  /\ clients = [k \in Keys |-> NoConn]
  /\ redis = {}
  /\ orphans = {}
  /\ phase = [c \in Conns |-> "free"]
  /\ key = [c \in Conns |-> CHOOSE k \in Keys : TRUE]
  /\ online = [c \in Conns |-> {}]
  /\ socket = [c \in Conns |-> FALSE]
  /\ inbox = [c \in Conns |-> << >>]
  /\ taken = [c \in Conns |-> 0]
  /\ dropped = {}
  /\ sends = [c \in Conns |-> 0]
  /\ crashes = 0

-----------------------------------------------------------------------------
Registered == {clients[k] : k \in Keys} \ {NoConn}

\* listOnlineDevices
OnlineDevices == {k \in Keys : clients[k] # NoConn}

Room(c) == Len(inbox[c]) - taken[c] < Cap

Update(k, status) == [type |-> "presence_update", key |-> k, status |-> status]

\* Beside some definitions stands a wrong version of it, named "...Wrong": the
\* mistake a property is there to notice.

\* Wrong: it waits for room in every queue, as without the select's default.
OfferWaitsWrong(targets, m) ==
  /\ \A c \in targets : Room(c)
  /\ inbox' = [c \in Conns |-> IF c \in targets THEN Append(inbox[c], m) ELSE inbox[c]]
  /\ UNCHANGED dropped

\* Wrong: the newest message goes first.
OfferWrong(targets, m) ==
  /\ inbox' = [c \in Conns |-> IF c \in targets /\ Room(c)
                               THEN <<m>> \o inbox[c] ELSE inbox[c]]
  /\ dropped' = dropped \cup {c \in targets : ~Room(c)}

\* Offer m to every target without waiting: where the queue is full it is lost.
Offer(targets, m) ==
  /\ inbox' = [c \in Conns |-> IF c \in targets /\ Room(c)
                               THEN Append(inbox[c], m) ELSE inbox[c]]
  /\ dropped' = dropped \cup {c \in targets : ~Room(c)}

\* Put m into the connection's own channel, waiting for room.
Push(c, m) ==
  /\ Room(c)
  /\ inbox' = [inbox EXCEPT ![c] = Append(@, m)]
  /\ UNCHANGED dropped

\* The handler of c waits for room and will wait for ever: the writePump that
\* would make some starts only after it.
Blocked(c) == phase[c] \in {"listed", "synced"} /\ ~Room(c)

Moves(c, from, to) ==
  /\ phase[c] = from
  /\ phase' = [phase EXCEPT ![c] = to]

-----------------------------------------------------------------------------
(* handleWebSocket *)

\* A device may connect while an earlier connection of its is still served: the
\* server has not noticed its end yet, or a second socket uses the same token.
Connect(c, k) ==
  /\ Moves(c, "free", "registered")
  /\ key' = [key EXCEPT ![c] = k]
  /\ clients' = [clients EXCEPT ![k] = c]
  /\ socket' = [socket EXCEPT ![c] = TRUE]
  /\ UNCHANGED <<redis, orphans, online, inbox, taken, dropped, sends, crashes>>

SetOnline(c) ==
  /\ Moves(c, "registered", "announced")
  /\ redis' \in {redis, redis \cup {key[c]}}
  /\ UNCHANGED <<clients, orphans, key, online, socket, inbox, taken, dropped, sends, crashes>>

\* Wrong: it lists connections.
ListOnlineWrong(c) ==
  /\ Moves(c, "announced", "listed")
  /\ online' = [online EXCEPT ![c] = Registered]
  /\ UNCHANGED <<clients, redis, orphans, key, socket, inbox, taken, dropped, sends, crashes>>

ListOnline(c) ==
  /\ Moves(c, "announced", "listed")
  /\ online' = [online EXCEPT ![c] = OnlineDevices]
  /\ UNCHANGED <<clients, redis, orphans, key, socket, inbox, taken, dropped, sends, crashes>>

PushSync(c) ==
  /\ Moves(c, "listed", "synced")
  /\ Push(c, [type |-> "presence_sync", online |-> online[c]])
  /\ UNCHANGED <<clients, redis, orphans, key, online, socket, taken, sends, crashes>>

PushIce(c) ==
  /\ Moves(c, "synced", "served")
  /\ Push(c, [type |-> "ice_servers"])
  /\ UNCHANGED <<clients, redis, orphans, key, online, socket, taken, sends, crashes>>

\* Wrong: it skips the connections whose pumps do not run yet.
BroadcastOnlineWrong(c) ==
  /\ Moves(c, "served", "pumping")
  /\ Offer({t \in Registered : phase[t] = "pumping"}, Update(key[c], "online"))
  /\ UNCHANGED <<clients, redis, orphans, key, online, socket, taken, sends, crashes>>

BroadcastOnline(c) ==
  /\ Moves(c, "served", "pumping")
  /\ Offer(Registered, Update(key[c], "online"))
  /\ UNCHANGED <<clients, redis, orphans, key, online, socket, taken, sends, crashes>>

-----------------------------------------------------------------------------
(* writePump never returns: it also empties the queue of a closed socket. *)

WritePump(c) ==
  /\ phase[c] \in {"pumping", "gone"} \cup Cleanup
  /\ taken[c] < Len(inbox[c])
  /\ taken' = [taken EXCEPT ![c] = @ + 1]
  /\ UNCHANGED <<clients, redis, orphans, phase, key, online, socket, inbox, dropped, sends, crashes>>

(* readPump, whose pong handler runs inside ReadMessage, and its cleanup. *)

\* A Set that fails here changes nothing and has no action.
Pong(c) ==
  /\ phase[c] = "pumping" /\ socket[c]
  /\ redis' = redis \cup {key[c]}
  /\ UNCHANGED <<clients, orphans, phase, key, online, socket, inbox, taken, dropped, sends, crashes>>

\* Wrong: it routes by device id alone.
ReceiveWrong(c, target) ==
  /\ phase[c] = "pumping"
  /\ sends[c] < MaxSends
  /\ sends' = [sends EXCEPT ![c] = @ + 1]
  /\ Offer({t \in Registered : target \in {All, key[t].id}},
           [type |-> "proxy", from |-> c, seq |-> sends[c] + 1])
  /\ UNCHANGED <<clients, redis, orphans, phase, key, online, socket, taken, crashes>>

\* handleDynamicMessage: route to the sender's user, itself included.
Receive(c, target) ==
  /\ phase[c] = "pumping"
  /\ sends[c] < MaxSends
  /\ sends' = [sends EXCEPT ![c] = @ + 1]
  /\ Offer({t \in Registered : /\ key[t].user = key[c].user
                               /\ target \in {All, key[t].id}},
           [type |-> "proxy", from |-> c, seq |-> sends[c] + 1])
  /\ UNCHANGED <<clients, redis, orphans, phase, key, online, socket, taken, crashes>>

\* Wrong: the key is left behind.
UnregisterWrong(c) ==
  /\ Moves(c, "pumping", "unregistered")
  /\ ~socket[c]
  /\ UNCHANGED <<clients, redis, orphans, key, online, socket, inbox, taken, dropped, sends, crashes>>

\* Wrong: it looks for the device id without its user.
UnregisterIdWrong(c) ==
  /\ Moves(c, "pumping", "unregistered")
  /\ ~socket[c]
  /\ clients' = [k \in Keys |-> IF k.id = key[c].id THEN NoConn ELSE clients[k]]
  /\ UNCHANGED <<redis, orphans, key, online, socket, inbox, taken, dropped, sends, crashes>>

\* The read fails; cleanup deletes its key, whoever is registered there.
Unregister(c) ==
  /\ Moves(c, "pumping", "unregistered")
  /\ ~socket[c]
  /\ clients' = [clients EXCEPT ![key[c]] = NoConn]
  /\ UNCHANGED <<redis, orphans, key, online, socket, inbox, taken, dropped, sends, crashes>>

\* Wrong: the online entry is left behind.
DelOnlineWrong(c) ==
  /\ Moves(c, "unregistered", "cleared")
  /\ UNCHANGED <<clients, redis, orphans, key, online, socket, inbox, taken, dropped, sends, crashes>>

\* The Del that fails leaves the entry to its TTL.
DelOnline(c) ==
  /\ Moves(c, "unregistered", "cleared")
  /\ \/ redis' = redis \ {key[c]} /\ orphans' = orphans \ {key[c]}
     \/ redis' = redis /\ orphans' = orphans \cup {key[c]}
  /\ UNCHANGED <<clients, key, online, socket, inbox, taken, dropped, sends, crashes>>

BroadcastOffline(c) ==
  /\ Moves(c, "cleared", "gone")
  /\ Offer(Registered, Update(key[c], "offline"))
  /\ UNCHANGED <<clients, redis, orphans, key, online, socket, taken, sends, crashes>>

-----------------------------------------------------------------------------
(* The environment: a socket closes or its 60 s read deadline passes, the   *)
(* 90 s of a key that nobody refreshes pass, the server process restarts.   *)

SocketCloses(c) ==
  /\ socket[c]
  /\ socket' = [socket EXCEPT ![c] = FALSE]
  /\ UNCHANGED <<clients, redis, orphans, phase, key, online, inbox, taken, dropped, sends, crashes>>

\* Wrong: the entry was set without a TTL.
KeyExpiresWrong(k) == k \in redis /\ FALSE /\ UNCHANGED vars

\* It may expire under a connection too, whose pongs failed to refresh it.
KeyExpires(k) ==
  /\ k \in redis
  /\ redis' = redis \ {k}
  /\ orphans' = orphans \ {k}
  /\ UNCHANGED <<clients, phase, key, online, socket, inbox, taken, dropped, sends, crashes>>

Crash ==
  /\ crashes < MaxCrashes
  /\ crashes' = crashes + 1
  /\ clients' = [k \in Keys |-> NoConn]
  /\ phase' = [c \in Conns |-> IF phase[c] = "free" THEN "free" ELSE "gone"]
  /\ socket' = [c \in Conns |-> FALSE]
  /\ taken' = [c \in Conns |-> Len(inbox[c])]
  /\ orphans' = redis
  /\ UNCHANGED <<redis, key, online, inbox, dropped, sends>>

-----------------------------------------------------------------------------
Serve(c) ==
  \/ SetOnline(c) \/ ListOnline(c) \/ PushSync(c) \/ PushIce(c) \/ BroadcastOnline(c)
  \/ Unregister(c) \/ DelOnline(c) \/ BroadcastOffline(c)

Next ==
  \/ \E c \in Conns :
       \/ \E k \in Keys : Connect(c, k)
       \/ Serve(c)
       \/ WritePump(c)
       \/ Pong(c)
       \/ \E target \in Ids \cup {All} : Receive(c, target)
       \/ SocketCloses(c)
  \/ \E k \in Keys : KeyExpires(k)
  \/ Crash

Spec == Init /\ [][Next]_vars

\* Some goroutine will still refresh or delete the online entry of k.
Kept(k) ==
  \E c \in Conns : key[c] = k /\ phase[c] \notin {"free", "gone"} /\ ~Blocked(c)

\* The Go scheduler runs every goroutine that can go on, and redis expires the
\* keys that nobody refreshes.
Fairness ==
  /\ \A c \in Conns : WF_vars(Serve(c)) /\ WF_vars(WritePump(c))
  /\ \A k \in Keys : WF_vars(~Kept(k) /\ KeyExpires(k))

FairSpec == Spec /\ Fairness

-----------------------------------------------------------------------------
Served == {c \in Conns : phase[c] \in Handshake \cup {"pumping"}}

\* A registered connection is one that is still served, under its own key: a
\* message is never queued for a connection that cleaned up, even when the
\* cleanup of one connection and the handshake of the next interleave.
RegisteredIsServed ==
  \A k \in Keys : clients[k] # NoConn => clients[k] \in Served /\ key[clients[k]] = k

\* Unless a restart or a failed Del left it behind, an online entry in redis is
\* some connection's whose cleanup is still to delete it: none outlives its
\* device, however connect, pong and cleanup of its connections cross.
OnlineKeyIsBacked ==
  \A k \in redis \ orphans : \E c \in Conns :
    key[c] = k /\ phase[c] \in (Handshake \ {"registered"}) \cup {"pumping", "unregistered"}

\* main.go:169, a user's messages reach that user's devices only: whatever the
\* keys do while the routing loop waits, no other user's queue gets one.
SameUserOnly ==
  \A c \in Conns : \A i \in DOMAIN inbox[c] :
    inbox[c][i].type = "proxy" => key[inbox[c][i].from].user = key[c].user

\* What a device receives of a sender is in the order it was sent and has no
\* duplicate, though full queues lose some of it.
ProxyInOrder ==
  \A c \in Conns : \A i, j \in DOMAIN inbox[c] :
    i < j /\ inbox[c][i].type = "proxy" /\ inbox[c][j].type = "proxy"
    /\ inbox[c][i].from = inbox[c][j].from
    => inbox[c][i].seq < inbox[c][j].seq

\* What is routed stays inside its user and comes in its sender's order.
ProxyIsFaithful == SameUserOnly /\ ProxyInOrder

\* To each device the server is a RelayRegistry, whatever handlers, cleanups and
\* restarts interleave, and whatever the other devices do.
Registry(k) == INSTANCE RelayRegistry WITH
  registered <- clients[k], served <- {c \in Served : key[c] = k}
ImplementsRegistry ==
  /\ \A k \in Keys : Registry(k)!Init
  /\ [][\A k \in Keys : [Registry(k)!Next]_(Registry(k)!vars)]_vars

\* A message that says k is online, and whether c was sent one.
SaysOnline(m, k) ==
  \/ m.type = "presence_sync" /\ k \in m.online
  \/ m.type = "presence_update" /\ m.key = k /\ m.status = "online"
ToldOnline(c, k) == \E i \in DOMAIN inbox[c] : SaysOnline(inbox[c][i], k)

Listed == {"synced", "served", "pumping"}

\* No device that comes online is overlooked: between the list that a handler
\* reads and the broadcasts of the others there is no gap, so a registered client
\* that has its list and lost no message was told of every registered device
\* that has announced itself.  What it is told later is PresenceIsCurrent's.
RegisteredIsTold ==
  \A c \in Registered \ dropped, k \in OnlineDevices :
    phase[c] \in Listed /\ phase[clients[k]] = "pumping" => ToldOnline(c, k)

\* The messages of c that settle what it is shown of k: every presence_sync, as
\* it replaces the list, and the updates of k.
Settling(c, k) ==
  {i \in DOMAIN inbox[c] :
     \/ inbox[c][i].type = "presence_sync"
     \/ inbox[c][i].type = "presence_update" /\ inbox[c][i].key = k}

\* The devices that are online to a client that applies them in order.
View(c) ==
  {k \in Keys : \E i \in Settling(c, k) :
     SaysOnline(inbox[c][i], k) /\ \A j \in Settling(c, k) : j <= i}

\* main.go:112, "Send current online list to the newly connected client": when no
\* handler or cleanup is under way, a registered client that lost no message is
\* shown the devices that are online.
PresenceIsCurrent ==
  (\A c \in Conns : phase[c] \in {"free", "pumping", "gone"})
    => \A c \in Registered \ dropped : View(c) = OnlineDevices

\* A connection whose socket is closed is forgotten: its handler, then readPump
\* and cleanup run to the end.  Only its own queue can hold them up, by filling
\* before its writePump runs; no other connection's full queue does.
ClosedIsForgotten ==
  \A c \in Conns :
    phase[c] \notin {"free", "gone"} /\ ~socket[c] ~> phase[c] = "gone" \/ Blocked(c)

\* Some connection of k is served, and not by a handler that waits for ever.
Attended(k) == \E c \in Served : key[c] = k /\ ~Blocked(c)

\* The online entry of a device that lost its connections, by cleanup or by a
\* restart of the server, goes away unless the device connects again, also where
\* redis failed to delete it, and where its connection is left to a handler that
\* waits for ever.
OfflineKeyGoes ==
  \A k \in Keys : k \in redis /\ ~Attended(k) ~> k \notin redis \/ Attended(k)

=============================================================================
