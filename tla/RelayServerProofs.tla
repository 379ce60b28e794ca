------------------------- MODULE RelayServerProofs -------------------------
(***************************************************************************)
(* The invariants of RelayServer, for every set of users, devices and      *)
(* connections and every bound.  IInv adds to the invariants TLC checks    *)
(* that a connection that was never made has an empty inbox and sent       *)
(* nothing, and that a proxy message in an inbox was sent by the           *)
(* connection it names: without the first, making a connection could give  *)
(* an old message a new user; without the second, a new message could have *)
(* a number that is already in a queue.                                    *)
(* ToldInv follows what a client was told of a device, from the list that  *)
(* its handler reads to the queue that it ends in.                         *)
(***************************************************************************)
EXTENDS RelayServer, TLAPS

Quiet == \A c \in Conns : phase[c] = "free" => inbox[c] = << >> /\ sends[c] = 0

ProxyBound ==
  \A c \in Conns : \A i \in DOMAIN inbox[c] :
    inbox[c][i].type = "proxy" =>
      inbox[c][i].from \in Conns /\ inbox[c][i].seq \in 1 .. sends[inbox[c][i].from]

LogInv == SameUserOnly /\ ProxyInOrder /\ ProxyBound

RegistryInv == RegisteredIsServed /\ OnlineKeyIsBacked

IInv == TypeOK /\ Quiet /\ LogInv /\ RegistryInv

-----------------------------------------------------------------------------
\* Each inbox keeps what it has, and m is all that it can get.
Grows(m) ==
  /\ inbox' \in [Conns -> Seq(Message)]
  /\ \A c \in Conns : inbox'[c] = inbox[c] \/ inbox'[c] = Append(inbox[c], m)
  /\ \A c \in Conns : phase[c] = "free" => inbox'[c] = inbox[c]

LEMMA AppendElements ==
  ASSUME NEW S, NEW s \in Seq(S), NEW m \in S, NEW i \in DOMAIN Append(s, m)
  PROVE  \/ i \in DOMAIN s /\ Append(s, m)[i] = s[i]
         \/ i = Len(s) + 1 /\ Append(s, m)[i] = m
OBVIOUS

LEMMA MessageFacts ==
  /\ \A k \in Keys, s \in {"online", "offline"} :
       Update(k, s) \in Message /\ Update(k, s).type # "proxy"
  /\ \A on \in SUBSET Keys : [type |-> "presence_sync", online |-> on] \in Message
  /\ [type |-> "ice_servers"] \in Message
  /\ \A c \in Conns, n \in Nat : [type |-> "proxy", from |-> c, seq |-> n] \in Message
BY DEF Message, Update

LEMMA OfferGrows ==
  ASSUME TypeOK, NEW T \in SUBSET Conns, NEW m \in Message, Offer(T, m),
         \A c \in T : phase[c] # "free"
  PROVE  Grows(m) /\ dropped' \in SUBSET Conns
         /\ \A c \in Conns \ T : inbox'[c] = inbox[c]
<1>1. inbox \in [Conns -> Seq(Message)] /\ dropped \in SUBSET Conns
  BY DEF TypeOK
<1>2. \A c \in Conns : Append(inbox[c], m) \in Seq(Message)
  BY <1>1
<1>3. inbox' \in [Conns -> Seq(Message)]
  BY <1>1, <1>2 DEF Offer
<1>. QED
  BY <1>1, <1>3 DEF Offer, Grows

LEMMA PushGrows ==
  ASSUME TypeOK, NEW c \in Conns, NEW m \in Message, Push(c, m), phase[c] # "free"
  PROVE  Grows(m) /\ dropped' \in SUBSET Conns
<1>1. inbox \in [Conns -> Seq(Message)] /\ dropped \in SUBSET Conns
  BY DEF TypeOK
<1>2. Append(inbox[c], m) \in Seq(Message)
  BY <1>1
<1>. QED
  BY <1>1, <1>2 DEF Push, Grows

\* Registered connections are connections, and not free ones.
LEMMA RegisteredType ==
  ASSUME TypeOK, RegisteredIsServed
  PROVE  Registered \in SUBSET Conns /\ \A c \in Registered : phase[c] # "free"
<1>1. ASSUME NEW c \in Registered PROVE c \in Served
  <2>1. PICK k \in Keys : c = clients[k] /\ clients[k] # NoConn
    BY DEF Registered
  <2>. QED
    BY <2>1 DEF RegisteredIsServed
<1>2. \A c \in Served : c \in Conns /\ phase[c] # "free"
  BY DEF Served, Handshake
<1>. QED
  BY <1>1, <1>2

-----------------------------------------------------------------------------
\* A message that is not a proxy message keeps what holds of the queues.
LEMMA OtherMessageKeepsLog ==
  ASSUME TypeOK, LogInv, NEW m \in Message, m.type # "proxy", Grows(m),
         UNCHANGED <<key, sends>>
  PROVE  LogInv'
<1>0. inbox \in [Conns -> Seq(Message)]
  BY DEF TypeOK
<1>1. ASSUME NEW c \in Conns, NEW i \in DOMAIN inbox'[c], inbox'[c][i].type = "proxy"
      PROVE  i \in DOMAIN inbox[c] /\ inbox'[c][i] = inbox[c][i]
  <2>1. CASE inbox'[c] = inbox[c]
    BY <2>1
  <2>2. CASE inbox'[c] = Append(inbox[c], m)
    <3>1. inbox[c] \in Seq(Message) /\ i \in DOMAIN Append(inbox[c], m)
      BY <1>0, <2>2
    <3>2. \/ i \in DOMAIN inbox[c] /\ Append(inbox[c], m)[i] = inbox[c][i]
          \/ i = Len(inbox[c]) + 1 /\ Append(inbox[c], m)[i] = m
      BY <3>1, AppendElements
    <3>. QED
      BY <1>1, <2>2, <3>2
  <2>. QED
    BY <2>1, <2>2 DEF Grows
<1>2. SameUserOnly'
  BY <1>1 DEF LogInv, SameUserOnly
<1>3. ProxyInOrder'
  BY <1>1 DEF LogInv, ProxyInOrder
<1>4. ProxyBound'
  BY <1>1 DEF LogInv, ProxyBound
<1>. QED
  BY <1>2, <1>3, <1>4 DEF LogInv

\* A routed message keeps it too: it goes to its sender's user and has a number
\* above those of all the sender's earlier messages.
LEMMA RoutedMessageKeepsLog ==
  ASSUME TypeOK, RegisteredIsServed, LogInv, NEW c \in Conns, NEW target, Receive(c, target)
  PROVE  LogInv' /\ inbox' \in [Conns -> Seq(Message)] /\ dropped' \in SUBSET Conns
         /\ \A d \in Conns : phase[d] = "free" => inbox'[d] = inbox[d]
<1> DEFINE n == sends[c] + 1
           m == [type |-> "proxy", from |-> c, seq |-> n]
           T == {t \in Registered : /\ key[t].user = key[c].user
                                    /\ target \in {All, key[t].id}}
<1>0. /\ inbox \in [Conns -> Seq(Message)] /\ n \in Nat
      /\ sends \in [Conns -> 0 .. MaxSends]
  BY DEF TypeOK
<1>1. T \in SUBSET Conns /\ \A t \in T : phase[t] # "free" /\ key[t].user = key[c].user
  BY RegisteredType
<1>2. Offer(T, m) /\ key' = key /\ sends' = [sends EXCEPT ![c] = n]
  BY DEF Receive
<1>3. m \in Message /\ m.type = "proxy" /\ m.from = c /\ m.seq = n
  BY <1>0, MessageFacts
<1> HIDE DEF T, m
<1>4. /\ Grows(m) /\ dropped' \in SUBSET Conns
      /\ \A d \in Conns \ T : inbox'[d] = inbox[d]
  BY <1>1, <1>2, <1>3, OfferGrows
<1>5. ASSUME NEW d \in Conns, NEW i \in DOMAIN inbox'[d]
      PROVE  \/ i \in DOMAIN inbox[d] /\ inbox'[d][i] = inbox[d][i]
             \/ i = Len(inbox[d]) + 1 /\ inbox'[d][i] = m /\ d \in T
  <2>1. CASE inbox'[d] = inbox[d]
    BY <2>1
  <2>2. CASE inbox'[d] # inbox[d]
    <3>1. inbox'[d] = Append(inbox[d], m) /\ d \in T
      BY <1>4, <2>2 DEF Grows
    <3>2. inbox[d] \in Seq(Message) /\ i \in DOMAIN Append(inbox[d], m)
      BY <1>0, <3>1
    <3>3. \/ i \in DOMAIN inbox[d] /\ Append(inbox[d], m)[i] = inbox[d][i]
          \/ i = Len(inbox[d]) + 1 /\ Append(inbox[d], m)[i] = m
      BY <1>3, <3>2, AppendElements
    <3>. QED
      BY <3>1, <3>3
  <2>. QED
    BY <2>1, <2>2
<1>6. /\ sends'[c] = n /\ n > sends[c] /\ sends[c] \in Nat
      /\ \A d \in Conns : sends[d] \in Nat /\ sends'[d] \in Nat /\ sends[d] <= sends'[d]
  BY <1>0, <1>2
<1>7. SameUserOnly'
  BY <1>1, <1>2, <1>3, <1>5 DEF LogInv, SameUserOnly
<1>8. ProxyInOrder'
  <2> SUFFICES ASSUME NEW d \in Conns, NEW i \in DOMAIN inbox'[d], NEW j \in DOMAIN inbox'[d],
                      i < j, inbox'[d][i].type = "proxy", inbox'[d][j].type = "proxy",
                      inbox'[d][i].from = inbox'[d][j].from
               PROVE  inbox'[d][i].seq < inbox'[d][j].seq
    BY DEF ProxyInOrder
  <2>0. DOMAIN inbox[d] = 1 .. Len(inbox[d]) /\ Len(inbox[d]) \in Nat
    BY <1>0
  <2>1. CASE j \in DOMAIN inbox[d] /\ inbox'[d][j] = inbox[d][j]
    <3>1. i \in DOMAIN inbox[d] /\ inbox'[d][i] = inbox[d][i]
      BY <1>5, <2>0, <2>1
    <3>. QED
      BY <2>1, <3>1 DEF LogInv, ProxyInOrder
  <2>2. CASE j = Len(inbox[d]) + 1 /\ inbox'[d][j] = m
    <3>1. i \in DOMAIN inbox[d] /\ inbox'[d][i] = inbox[d][i]
      BY <1>5, <2>0, <2>2
    <3>2. inbox[d][i].from = c /\ inbox[d][i].seq \in 1 .. sends[c]
      BY <1>3, <2>2, <3>1 DEF LogInv, ProxyBound
    <3>. QED
      BY <1>3, <1>6, <2>2, <3>1, <3>2
  <2>. QED
    BY <1>5, <2>1, <2>2
<1>9. ProxyBound'
  <2> SUFFICES ASSUME NEW d \in Conns, NEW i \in DOMAIN inbox'[d],
                      inbox'[d][i].type = "proxy"
               PROVE  inbox'[d][i].from \in Conns
                      /\ inbox'[d][i].seq \in 1 .. sends'[inbox'[d][i].from]
    BY DEF ProxyBound
  <2>1. CASE i \in DOMAIN inbox[d] /\ inbox'[d][i] = inbox[d][i]
    BY <1>6, <2>1 DEF LogInv, ProxyBound
  <2>2. CASE inbox'[d][i] = m
    BY <1>3, <1>6, <2>2
  <2>. QED
    BY <1>5, <2>1, <2>2
<1>. QED
  BY <1>4, <1>7, <1>8, <1>9 DEF LogInv, Grows

-----------------------------------------------------------------------------
\* A step of one connection within the served phases keeps the registry.
LEMMA MovesKeepsRegistry ==
  ASSUME TypeOK, RegistryInv, NEW c \in Conns, NEW from, NEW to, Moves(c, from, to),
         from \in Handshake, to \in (Handshake \ {"registered"}) \cup {"pumping"},
         redis' \in SUBSET (redis \cup {key[c]}), UNCHANGED <<clients, orphans, key>>
  PROVE  RegistryInv'
<1>0. phase \in [Conns -> Phase] /\ phase[c] = from /\ phase' = [phase EXCEPT ![c] = to]
  BY DEF TypeOK, Moves
<1>1. Served' = Served
  BY <1>0 DEF Served
<1>2. RegisteredIsServed'
  BY <1>1 DEF RegistryInv, RegisteredIsServed
<1>3. OnlineKeyIsBacked'
  <2> SUFFICES ASSUME NEW k \in redis' \ orphans'
               PROVE  \E d \in Conns : /\ key[d] = k
                        /\ phase'[d] \in (Handshake \ {"registered"})
                                           \cup {"pumping", "unregistered"}
    BY DEF OnlineKeyIsBacked
  <2>1. CASE k = key[c]
    BY <1>0, <2>1
  <2>2. CASE k # key[c]
    BY <1>0, <2>2 DEF RegistryInv, OnlineKeyIsBacked
  <2>. QED
    BY <2>1, <2>2
<1>. QED
  BY <1>2, <1>3 DEF RegistryInv

\* A connection that deletes its key makes room for nobody: what stays
\* registered is still served.
LEMMA UnregisterKeepsRegistry ==
  ASSUME TypeOK, RegistryInv, NEW c \in Conns, Unregister(c)
  PROVE  RegistryInv'
<1>0. /\ phase \in [Conns -> Phase] /\ phase[c] = "pumping"
      /\ phase' = [phase EXCEPT ![c] = "unregistered"]
      /\ clients \in [Keys -> Conns \cup {NoConn}] /\ key \in [Conns -> Keys]
      /\ clients' = [clients EXCEPT ![key[c]] = NoConn]
      /\ UNCHANGED <<redis, orphans, key>>
  BY DEF TypeOK, Unregister, Moves
<1>1. Served' = Served \ {c}
  BY <1>0 DEF Served, Handshake
<1>2. RegisteredIsServed'
  BY <1>0, <1>1 DEF RegistryInv, RegisteredIsServed
<1>3. OnlineKeyIsBacked'
  BY <1>0 DEF RegistryInv, OnlineKeyIsBacked
<1>. QED
  BY <1>2, <1>3 DEF RegistryInv

\* A new connection takes its key over.
LEMMA ConnectKeepsRegistry ==
  ASSUME TypeOK, RegistryInv, NEW c \in Conns, NEW k \in Keys, Connect(c, k)
  PROVE  RegistryInv'
<1>0. /\ phase \in [Conns -> Phase] /\ phase[c] = "free"
      /\ phase' = [phase EXCEPT ![c] = "registered"]
      /\ clients \in [Keys -> Conns \cup {NoConn}] /\ key \in [Conns -> Keys]
      /\ clients' = [clients EXCEPT ![k] = c]
      /\ key' = [key EXCEPT ![c] = k]
      /\ UNCHANGED <<redis, orphans>>
  BY DEF TypeOK, Connect, Moves
<1>1. Served' = Served \cup {c} /\ c \notin Served
  BY <1>0 DEF Served, Handshake
<1>2. RegisteredIsServed'
  <2> SUFFICES ASSUME NEW j \in Keys, clients'[j] # NoConn
               PROVE  clients'[j] \in Served' /\ key'[clients'[j]] = j
    BY DEF RegisteredIsServed
  <2>1. CASE j = k
    BY <1>0, <1>1, <2>1
  <2>2. CASE j # k
    <3>1. clients'[j] = clients[j] /\ clients[j] \in Served /\ key[clients[j]] = j
      BY <1>0, <2>2 DEF RegistryInv, RegisteredIsServed
    <3>2. clients[j] \in Conns /\ clients[j] # c
      BY <1>1, <3>1 DEF Served
    <3>. QED
      BY <1>0, <1>1, <3>1, <3>2
  <2>. QED
    BY <2>1, <2>2
<1>3. OnlineKeyIsBacked'
  BY <1>0 DEF RegistryInv, OnlineKeyIsBacked, Handshake
<1>. QED
  BY <1>2, <1>3 DEF RegistryInv

\* The rest of cleanup: the redis entry, then the offline broadcast.
LEMMA CleanupKeepsRegistry ==
  ASSUME TypeOK, RegistryInv, NEW c \in Conns,
         \/ /\ Moves(c, "unregistered", "cleared")
            /\ \/ redis' = redis \ {key[c]} /\ orphans' = orphans \ {key[c]}
               \/ redis' = redis /\ orphans' = orphans \cup {key[c]}
         \/ Moves(c, "cleared", "gone") /\ UNCHANGED <<redis, orphans>>,
         UNCHANGED <<clients, key>>
  PROVE  RegistryInv'
<1>0. /\ phase \in [Conns -> Phase] /\ phase[c] \in Cleanup
      /\ phase' = [phase EXCEPT ![c] = phase'[c]] /\ phase'[c] \in {"cleared", "gone"}
  BY DEF TypeOK, Moves, Cleanup
<1>1. Served' = Served
  BY <1>0 DEF Served, Handshake, Cleanup
<1>2. RegisteredIsServed'
  BY <1>1 DEF RegistryInv, RegisteredIsServed
<1>3. OnlineKeyIsBacked'
  <2> SUFFICES ASSUME NEW k \in redis' \ orphans'
               PROVE  \E d \in Conns : /\ key[d] = k
                        /\ phase'[d] \in (Handshake \ {"registered"})
                                           \cup {"pumping", "unregistered"}
    BY DEF OnlineKeyIsBacked
  <2>1. PICK d \in Conns : /\ key[d] = k
          /\ phase[d] \in (Handshake \ {"registered"}) \cup {"pumping", "unregistered"}
    BY DEF RegistryInv, OnlineKeyIsBacked
  <2>2. d # c
    BY <2>1 DEF Moves, Handshake
  <2>. QED
    BY <1>0, <2>1, <2>2
<1>. QED
  BY <1>2, <1>3 DEF RegistryInv

-----------------------------------------------------------------------------
LEMMA InitIInv == Init => IInv
<1> SUFFICES ASSUME Init PROVE IInv
  OBVIOUS
<1>1. TypeOK
  <2>1. PICK u \in Users, i \in Ids : TRUE
    BY RelayAssumption
  <2>2. [user |-> u, id |-> i] \in Keys
    BY DEF Keys
  <2>3. (CHOOSE k \in Keys : TRUE) \in Keys
    BY <2>2
  <2>. QED
    BY <2>3, RelayAssumption DEF Init, TypeOK, Phase, Handshake, Cleanup
<1>2. Quiet /\ LogInv
  BY DEF Init, Quiet, LogInv, SameUserOnly, ProxyInOrder, ProxyBound
<1>3. RegistryInv
  BY DEF Init, RegistryInv, RegisteredIsServed, OnlineKeyIsBacked, Served, Handshake
<1>. QED
  BY <1>1, <1>2, <1>3 DEF IInv

\* What a step that leaves the queues and keys alone does not have to show.
LEMMA SameLog ==
  ASSUME Quiet, LogInv, UNCHANGED <<inbox, sends, key>>,
         \A c \in Conns : phase'[c] = "free" => phase[c] = "free"
  PROVE  Quiet' /\ LogInv'
BY DEF Quiet, LogInv, SameUserOnly, ProxyInOrder, ProxyBound

\* A step of connection c's handler or cleanup that queues m.
LEMMA MovesKeepsLog ==
  ASSUME TypeOK, Quiet, LogInv, NEW c \in Conns, NEW from, NEW to, Moves(c, from, to),
         to # "free", NEW m \in Message, m.type # "proxy", Grows(m),
         UNCHANGED <<key, sends>>
  PROVE  Quiet' /\ LogInv'
<1>1. LogInv'
  BY OtherMessageKeepsLog
<1>2. \A d \in Conns : phase'[d] = "free" => phase[d] = "free"
  BY DEF Moves, TypeOK
<1>3. Quiet'
  BY <1>2 DEF Quiet, Grows
<1>. QED
  BY <1>1, <1>3

LEMMA ServeKeepsIInv ==
  ASSUME IInv, NEW c \in Conns, Serve(c)
  PROVE  IInv'
<1>0. /\ TypeOK /\ Quiet /\ LogInv /\ RegistryInv /\ RegisteredIsServed
      /\ phase \in [Conns -> Phase] /\ key[c] \in Keys /\ online[c] \in SUBSET Keys
  BY DEF IInv, RegistryInv, TypeOK
<1>1. CASE SetOnline(c)
  <2>1. TypeOK'
    BY <1>0, <1>1 DEF SetOnline, Moves, TypeOK, Phase, Handshake
  <2>2. Quiet' /\ LogInv'
    BY <1>0, <1>1, SameLog DEF SetOnline, Moves
  <2>3. RegistryInv'
    BY <1>0, <1>1, MovesKeepsRegistry DEF SetOnline, Handshake
  <2>. QED
    BY <2>1, <2>2, <2>3 DEF IInv
<1>2. CASE ListOnline(c)
  <2>1. TypeOK'
    BY <1>0, <1>2 DEF ListOnline, OnlineDevices, Moves, TypeOK, Phase, Handshake
  <2>2. Quiet' /\ LogInv'
    BY <1>0, <1>2, SameLog DEF ListOnline, Moves
  <2>3. RegistryInv'
    BY <1>0, <1>2, MovesKeepsRegistry DEF ListOnline, Handshake
  <2>. QED
    BY <2>1, <2>2, <2>3 DEF IInv
<1>3. CASE PushSync(c)
  <2> DEFINE m == [type |-> "presence_sync", online |-> online[c]]
  <2>0. m \in Message /\ m.type # "proxy"
    BY <1>0, MessageFacts
  <2>1. Push(c, m) /\ Moves(c, "listed", "synced")
        /\ UNCHANGED <<clients, redis, orphans, key, online, socket, taken, sends, crashes>>
    BY <1>3 DEF PushSync
  <2> HIDE DEF m
  <2>2. Grows(m) /\ dropped' \in SUBSET Conns
    BY <1>0, <2>0, <2>1, PushGrows DEF Moves
  <2>3. TypeOK'
    BY <1>0, <2>1, <2>2 DEF Moves, Grows, TypeOK, Phase, Handshake
  <2>4. Quiet' /\ LogInv'
    BY <1>0, <2>0, <2>1, <2>2, MovesKeepsLog
  <2>5. RegistryInv'
    BY <1>0, <2>1, MovesKeepsRegistry DEF Handshake
  <2>. QED
    BY <2>3, <2>4, <2>5 DEF IInv
<1>4. CASE PushIce(c)
  <2> DEFINE m == [type |-> "ice_servers"]
  <2>0. m \in Message /\ m.type # "proxy"
    BY MessageFacts
  <2>1. Push(c, m) /\ Moves(c, "synced", "served")
        /\ UNCHANGED <<clients, redis, orphans, key, online, socket, taken, sends, crashes>>
    BY <1>4 DEF PushIce
  <2> HIDE DEF m
  <2>2. Grows(m) /\ dropped' \in SUBSET Conns
    BY <1>0, <2>0, <2>1, PushGrows DEF Moves
  <2>3. TypeOK'
    BY <1>0, <2>1, <2>2 DEF Moves, Grows, TypeOK, Phase, Handshake
  <2>4. Quiet' /\ LogInv'
    BY <1>0, <2>0, <2>1, <2>2, MovesKeepsLog
  <2>5. RegistryInv'
    BY <1>0, <2>1, MovesKeepsRegistry DEF Handshake
  <2>. QED
    BY <2>3, <2>4, <2>5 DEF IInv
<1>5. CASE BroadcastOnline(c)
  <2> DEFINE m == Update(key[c], "online")
  <2>0. m \in Message /\ m.type # "proxy"
    BY <1>0, MessageFacts
  <2>1. Offer(Registered, m) /\ Moves(c, "served", "pumping")
        /\ UNCHANGED <<clients, redis, orphans, key, online, socket, taken, sends, crashes>>
    BY <1>5 DEF BroadcastOnline
  <2> HIDE DEF m
  <2>2. Grows(m) /\ dropped' \in SUBSET Conns
    BY <1>0, <2>0, <2>1, RegisteredType, OfferGrows
  <2>3. TypeOK'
    BY <1>0, <2>1, <2>2 DEF Moves, Grows, TypeOK, Phase
  <2>4. Quiet' /\ LogInv'
    BY <1>0, <2>0, <2>1, <2>2, MovesKeepsLog
  <2>5. RegistryInv'
    BY <1>0, <2>1, MovesKeepsRegistry DEF Handshake
  <2>. QED
    BY <2>3, <2>4, <2>5 DEF IInv
<1>6. CASE Unregister(c)
  <2>1. TypeOK'
    BY <1>0, <1>6 DEF Unregister, Moves, TypeOK, Phase, Cleanup
  <2>2. Quiet' /\ LogInv'
    BY <1>0, <1>6, SameLog DEF Unregister, Moves
  <2>3. RegistryInv'
    BY <1>0, <1>6, UnregisterKeepsRegistry
  <2>. QED
    BY <2>1, <2>2, <2>3 DEF IInv
<1>7. CASE DelOnline(c)
  <2>1. TypeOK'
    BY <1>0, <1>7 DEF DelOnline, Moves, TypeOK, Phase, Cleanup
  <2>2. Quiet' /\ LogInv'
    BY <1>0, <1>7, SameLog DEF DelOnline, Moves
  <2>3. RegistryInv'
    BY <1>0, <1>7, CleanupKeepsRegistry DEF DelOnline
  <2>. QED
    BY <2>1, <2>2, <2>3 DEF IInv
<1>8. CASE BroadcastOffline(c)
  <2> DEFINE m == Update(key[c], "offline")
  <2>0. m \in Message /\ m.type # "proxy"
    BY <1>0, MessageFacts
  <2>1. Offer(Registered, m) /\ Moves(c, "cleared", "gone")
        /\ UNCHANGED <<clients, redis, orphans, key, online, socket, taken, sends, crashes>>
    BY <1>8 DEF BroadcastOffline
  <2> HIDE DEF m
  <2>2. Grows(m) /\ dropped' \in SUBSET Conns
    BY <1>0, <2>0, <2>1, RegisteredType, OfferGrows
  <2>3. TypeOK'
    BY <1>0, <2>1, <2>2 DEF Moves, Grows, TypeOK, Phase
  <2>4. Quiet' /\ LogInv'
    BY <1>0, <2>0, <2>1, <2>2, MovesKeepsLog
  <2>5. RegistryInv'
    BY <1>0, <2>1, CleanupKeepsRegistry
  <2>. QED
    BY <2>3, <2>4, <2>5 DEF IInv
<1>. QED
  BY <1>1, <1>2, <1>3, <1>4, <1>5, <1>6, <1>7, <1>8 DEF Serve

\* Making a connection changes its key: nothing is queued for it yet, and it
\* sent nothing that is queued anywhere.
LEMMA ConnectKeepsIInv ==
  ASSUME IInv, NEW c \in Conns, NEW k \in Keys, Connect(c, k)
  PROVE  IInv'
<1>0. /\ TypeOK /\ Quiet /\ LogInv /\ RegistryInv
      /\ phase \in [Conns -> Phase] /\ key \in [Conns -> Keys]
      /\ phase[c] = "free" /\ phase' = [phase EXCEPT ![c] = "registered"]
      /\ key' = [key EXCEPT ![c] = k] /\ inbox' = inbox /\ sends' = sends
  BY DEF IInv, TypeOK, Connect, Moves
<1>1. TypeOK'
  BY <1>0 DEF Connect, Moves, TypeOK, Phase, Handshake
<1>2. inbox[c] = << >> /\ sends[c] = 0
  BY <1>0 DEF Quiet
<1>3. Quiet'
  BY <1>0 DEF Quiet
<1>4. ProxyInOrder' /\ ProxyBound'
  BY <1>0 DEF LogInv, ProxyInOrder, ProxyBound
<1>5. SameUserOnly'
  <2> SUFFICES ASSUME NEW d \in Conns, NEW i \in DOMAIN inbox[d], inbox[d][i].type = "proxy"
               PROVE  key'[inbox[d][i].from].user = key'[d].user
    BY <1>0 DEF SameUserOnly
  <2>1. d # c
    BY <1>2
  <2>2. inbox[d][i].from \in Conns /\ inbox[d][i].from # c
    BY <1>0, <1>2 DEF LogInv, ProxyBound
  <2>3. key'[inbox[d][i].from] = key[inbox[d][i].from] /\ key'[d] = key[d]
    BY <1>0, <2>1, <2>2
  <2>. QED
    BY <1>0, <2>3 DEF LogInv, SameUserOnly
<1>. QED
  BY <1>0, <1>1, <1>3, <1>4, <1>5, ConnectKeepsRegistry DEF IInv, LogInv

LEMMA NextIInv == IInv /\ [Next]_vars => IInv'
<1> SUFFICES ASSUME IInv, [Next]_vars PROVE IInv'
  OBVIOUS
<1>0. /\ TypeOK /\ Quiet /\ LogInv /\ RegistryInv /\ RegisteredIsServed
      /\ phase \in [Conns -> Phase] /\ key \in [Conns -> Keys]
  BY DEF IInv, RegistryInv, TypeOK
<1>1. ASSUME NEW c \in Conns, NEW k \in Keys, Connect(c, k) PROVE IInv'
  BY <1>1, ConnectKeepsIInv
<1>2. ASSUME NEW c \in Conns, Serve(c) PROVE IInv'
  BY <1>2, ServeKeepsIInv
<1>3. ASSUME NEW c \in Conns, WritePump(c) PROVE IInv'
  <2>1. TypeOK'
    BY <1>0, <1>3 DEF WritePump, TypeOK
  <2>2. Quiet' /\ LogInv'
    BY <1>0, <1>3, SameLog DEF WritePump
  <2>. QED
    BY <1>0, <1>3, <2>1, <2>2 DEF WritePump, IInv, RegistryInv, RegisteredIsServed,
       OnlineKeyIsBacked, Served
<1>4. ASSUME NEW c \in Conns, Pong(c) PROVE IInv'
  <2>1. TypeOK'
    BY <1>0, <1>4 DEF Pong, TypeOK
  <2>2. Quiet' /\ LogInv'
    BY <1>0, <1>4, SameLog DEF Pong
  <2>3. OnlineKeyIsBacked'
    BY <1>0, <1>4 DEF Pong, RegistryInv, OnlineKeyIsBacked
  <2>. QED
    BY <1>0, <1>4, <2>1, <2>2, <2>3 DEF Pong, IInv, RegistryInv, RegisteredIsServed,
       Served
<1>5. ASSUME NEW c \in Conns, NEW target \in Ids \cup {All}, Receive(c, target) PROVE IInv'
  <2>1. /\ LogInv' /\ inbox' \in [Conns -> Seq(Message)] /\ dropped' \in SUBSET Conns
        /\ \A d \in Conns : phase[d] = "free" => inbox'[d] = inbox[d]
    BY <1>0, <1>5, RoutedMessageKeepsLog
  <2>2. /\ phase[c] = "pumping" /\ sends[c] < MaxSends /\ sends' = [sends EXCEPT ![c] = @ + 1]
        /\ UNCHANGED <<clients, redis, orphans, phase, key, online, socket, taken, crashes>>
    BY <1>5 DEF Receive
  <2>3. TypeOK'
    BY <1>0, <2>1, <2>2, RelayAssumption DEF TypeOK
  <2>4. Quiet'
    BY <1>0, <2>1, <2>2 DEF Quiet, TypeOK
  <2>. QED
    BY <1>0, <2>1, <2>2, <2>3, <2>4 DEF IInv, RegistryInv, RegisteredIsServed,
       OnlineKeyIsBacked, Served
<1>6. ASSUME NEW c \in Conns, SocketCloses(c) PROVE IInv'
  <2>1. TypeOK'
    BY <1>0, <1>6 DEF SocketCloses, TypeOK
  <2>2. Quiet' /\ LogInv'
    BY <1>0, <1>6, SameLog DEF SocketCloses
  <2>. QED
    BY <1>0, <1>6, <2>1, <2>2 DEF SocketCloses, IInv, RegistryInv, RegisteredIsServed,
       OnlineKeyIsBacked, Served
<1>7. ASSUME NEW k \in Keys, KeyExpires(k) PROVE IInv'
  <2>1. TypeOK'
    BY <1>0, <1>7 DEF KeyExpires, TypeOK
  <2>2. Quiet' /\ LogInv'
    BY <1>0, <1>7, SameLog DEF KeyExpires
  <2>. QED
    BY <1>0, <1>7, <2>1, <2>2 DEF KeyExpires, IInv, RegistryInv, RegisteredIsServed,
       OnlineKeyIsBacked, Served
<1>8. CASE Crash
  <2>1. /\ crashes' = crashes + 1 /\ crashes \in Nat /\ crashes' \in 0 .. MaxCrashes
        /\ clients' = [k \in Keys |-> NoConn]
        /\ phase' = [c \in Conns |-> IF phase[c] = "free" THEN "free" ELSE "gone"]
        /\ orphans' = redis /\ redis' = redis
        /\ UNCHANGED <<key, inbox, sends>>
    BY <1>0, <1>8, RelayAssumption DEF Crash, TypeOK
  <2>2. TypeOK'
    <3>1. taken' \in [Conns -> Nat]
      BY <1>0, <1>8 DEF Crash, TypeOK
    <3>2. socket' \in [Conns -> BOOLEAN] /\ clients' \in [Keys -> Conns \cup {NoConn}]
      BY <1>8 DEF Crash
    <3>3. phase' \in [Conns -> Phase]
      BY <1>0, <2>1 DEF Phase
    <3>. QED
      BY <1>0, <1>8, <2>1, <3>1, <3>2, <3>3 DEF Crash, TypeOK
  <2>3. Quiet' /\ LogInv'
    BY <1>0, <2>1, SameLog
  <2>4. Served' = {}
    BY <2>1 DEF Served, Handshake
  <2>5. RegistryInv'
    BY <2>1, <2>4 DEF RegistryInv, RegisteredIsServed, OnlineKeyIsBacked
  <2>. QED
    BY <2>2, <2>3, <2>5 DEF IInv
<1>9. CASE UNCHANGED vars
  BY <1>9 DEF vars, IInv, TypeOK, Quiet, LogInv, SameUserOnly, ProxyInOrder, ProxyBound,
     RegistryInv, RegisteredIsServed, OnlineKeyIsBacked, Served
<1>. QED
  BY <1>1, <1>2, <1>3, <1>4, <1>5, <1>6, <1>7, <1>8, <1>9 DEF Next

-----------------------------------------------------------------------------
\* The inductive invariant holds of every behaviour of the relay.
THEOREM Invariance == Spec => []IInv
<1>1. Init => IInv
  BY InitIInv
<1>2. IInv /\ [Next]_vars => IInv'
  BY NextIInv
<1>. QED
  BY <1>1, <1>2, PTL DEF Spec

\* Type correctness.
THEOREM TypeCorrect == Spec => []TypeOK
<1>1. IInv => TypeOK
  BY DEF IInv
<1>. QED
  BY <1>1, Invariance, PTL

\* Routing keeps users apart and each sender's messages in order, however
\* handlers, cleanups, restarts and full queues interleave.
THEOREM RoutingIsSound == Spec => []ProxyIsFaithful
<1>1. IInv => ProxyIsFaithful
  BY DEF IInv, LogInv, ProxyIsFaithful
<1>. QED
  BY <1>1, Invariance, PTL

\* The registry names only connections that are served, whatever handlers and
\* cleanups of a device overlap.
THEOREM RegistryIsSound == Spec => []RegisteredIsServed
<1>1. IInv => RegisteredIsServed
  BY DEF IInv, RegistryInv
<1>. QED
  BY <1>1, Invariance, PTL

\* An online key in redis that no restart and no failed Del left behind has a
\* connection whose cleanup will delete it.
THEOREM OnlineKeysAreBacked == Spec => []OnlineKeyIsBacked
<1>1. IInv => OnlineKeyIsBacked
  BY DEF IInv, RegistryInv
<1>. QED
  BY <1>1, Invariance, PTL

-----------------------------------------------------------------------------
(* What clients are told *)

\* A registered connection that has its list was told of every registered device
\* that has announced itself, or lost a message; while the list is on its way,
\* the list may be what tells it.
ToldInv ==
  \A c \in Conns \ dropped, d \in Conns :
    clients[key[c]] = c /\ clients[key[d]] = d /\ phase[d] = "pumping" =>
      /\ phase[c] \in Listed => ToldOnline(c, key[d])
      /\ phase[c] = "listed" => key[d] \in online[c] \/ ToldOnline(c, key[d])

LEMMA ToldBy ==
  ASSUME TypeOK, NEW c \in Conns, NEW k, NEW m \in Message, SaysOnline(m, k),
         inbox'[c] = Append(inbox[c], m)
  PROVE  ToldOnline(c, k)'
<1>0. inbox[c] \in Seq(Message)
  BY DEF TypeOK
<1> DEFINE n == Len(inbox[c]) + 1
<1>1. n \in DOMAIN Append(inbox[c], m) /\ Append(inbox[c], m)[n] = m
  BY <1>0
<1>. QED
  BY <1>1 DEF ToldOnline

\* Inboxes only grow: what was told stays told.
LEMMA ToldStays ==
  ASSUME TypeOK, NEW c \in Conns, NEW k, ToldOnline(c, k), NEW m,
         inbox'[c] = inbox[c] \/ inbox'[c] = Append(inbox[c], m)
  PROVE  ToldOnline(c, k)'
<1>0. inbox[c] \in Seq(Message)
  BY DEF TypeOK
<1>1. CASE inbox'[c] = inbox[c]
  BY <1>1 DEF ToldOnline
<1>2. CASE inbox'[c] = Append(inbox[c], m)
  <2>1. PICK i \in DOMAIN inbox[c] : SaysOnline(inbox[c][i], k)
    BY DEF ToldOnline
  <2>2. i \in DOMAIN Append(inbox[c], m) /\ Append(inbox[c], m)[i] = inbox[c][i]
    BY <1>0
  <2>. QED
    BY <1>2, <2>1, <2>2 DEF ToldOnline
<1>. QED
  BY <1>1, <1>2

\* What a step has to show that registers nobody, announces nobody and lists
\* nobody.
LEMMA QuietStepKeepsTold ==
  ASSUME TypeOK, ToldInv, dropped \subseteq dropped', key' = key,
         \A c \in Conns :
           /\ clients'[key[c]] = c => clients[key[c]] = c
           /\ phase'[c] = "pumping" => phase[c] = "pumping"
           /\ phase'[c] \in Listed => phase[c] \in Listed
           /\ phase'[c] = "listed" => phase[c] = "listed" /\ online'[c] = online[c],
         \A c \in Conns : \E m : inbox'[c] = inbox[c] \/ inbox'[c] = Append(inbox[c], m)
  PROVE  ToldInv'
<1> SUFFICES ASSUME NEW c \in Conns, c \notin dropped', NEW d \in Conns,
                    clients'[key[c]] = c, clients'[key[d]] = d, phase'[d] = "pumping"
             PROVE  /\ phase'[c] \in Listed => ToldOnline(c, key[d])'
                    /\ phase'[c] = "listed" => key[d] \in online'[c] \/ ToldOnline(c, key[d])'
  BY DEF ToldInv, Listed
<1>1. c \in Conns \ dropped /\ clients[key[c]] = c /\ clients[key[d]] = d /\ phase[d] = "pumping"
  OBVIOUS
<1>2. /\ phase[c] \in Listed => ToldOnline(c, key[d])
      /\ phase[c] = "listed" => key[d] \in online[c] \/ ToldOnline(c, key[d])
  BY <1>1 DEF ToldInv
<1>3. \A k : ToldOnline(c, k) => ToldOnline(c, k)'
  BY ToldStays
<1>4. \A k : k = key[d] => (ToldOnline(c, k)' <=> ToldOnline(c, key[d])')
  OBVIOUS
<1>. QED
  BY <1>2, <1>3, <1>4

\* The broadcast reaches every registered connection that loses no message.
LEMMA BroadcastKeepsTold ==
  ASSUME IInv, ToldInv, NEW c \in Conns, BroadcastOnline(c)
  PROVE  ToldInv'
<1> DEFINE m == Update(key[c], "online")
<1>0. /\ TypeOK /\ NoConn \notin Conns
      /\ phase \in [Conns -> Phase] /\ key \in [Conns -> Keys]
      /\ inbox \in [Conns -> Seq(Message)]
      /\ phase[c] = "served" /\ phase' = [phase EXCEPT ![c] = "pumping"]
      /\ Offer(Registered, m) /\ UNCHANGED <<clients, key, online>>
  BY RelayAssumption DEF IInv, TypeOK, BroadcastOnline, Moves
<1>1. m \in Message /\ SaysOnline(m, key[c])
  BY <1>0, MessageFacts DEF SaysOnline, Update
<1> HIDE DEF m
<1> SUFFICES ASSUME NEW e \in Conns, e \notin dropped', NEW d \in Conns,
                    clients[key[e]] = e, clients[key[d]] = d, phase'[d] = "pumping"
             PROVE  /\ phase'[e] \in Listed => ToldOnline(e, key[d])'
                    /\ phase'[e] = "listed" => key[d] \in online[e] \/ ToldOnline(e, key[d])'
  BY <1>0 DEF ToldInv
<1>2. /\ phase'[e] \in Listed => phase[e] \in Listed
      /\ phase'[e] = "listed" => phase[e] = "listed"
      /\ e \notin dropped
  BY <1>0 DEF Listed, Offer
<1>3. CASE d = c
  <2>1. e \in Registered
    BY <1>0 DEF Registered
  <2>2. inbox'[e] = Append(inbox[e], m)
    BY <1>0, <2>1 DEF Offer
  <2>3. \A k : k = key[c] => ToldOnline(e, k)'
    BY <1>0, <1>1, <2>2, ToldBy
  <2>4. \A k : k = key[c] => (ToldOnline(e, k)' <=> ToldOnline(e, key[d])')
    BY <1>0, <1>3
  <2>. QED
    BY <2>3, <2>4
<1>4. CASE d # c
  <2>1. phase[d] = "pumping"
    BY <1>0, <1>4
  <2>2. /\ phase[e] \in Listed => ToldOnline(e, key[d])
        /\ phase[e] = "listed" => key[d] \in online[e] \/ ToldOnline(e, key[d])
    BY <1>2, <2>1 DEF ToldInv
  <2>3. inbox'[e] = inbox[e] \/ inbox'[e] = Append(inbox[e], m)
    BY <1>0 DEF Offer
  <2>4. \A k : ToldOnline(e, k) => ToldOnline(e, k)'
    BY <1>0, <2>3, ToldStays
  <2>5. \A k : k = key[d] => (ToldOnline(e, k)' <=> ToldOnline(e, key[d])')
    BY <1>0
  <2>. QED
    BY <1>2, <2>2, <2>4, <2>5
<1>. QED
  BY <1>3, <1>4

\* A new connection has no list yet and announced nothing; it takes the place of
\* another, of which no more is asked.
LEMMA ConnectKeepsTold ==
  ASSUME TypeOK, ToldInv, NEW c \in Conns, NEW j \in Keys, Connect(c, j)
  PROVE  ToldInv'
<1>0. /\ phase \in [Conns -> Phase] /\ key \in [Conns -> Keys]
      /\ clients \in [Keys -> Conns \cup {NoConn}]
      /\ phase' = [phase EXCEPT ![c] = "registered"]
      /\ key' = [key EXCEPT ![c] = j] /\ clients' = [clients EXCEPT ![j] = c]
      /\ UNCHANGED <<inbox, online, dropped>>
  BY DEF TypeOK, Connect, Moves
<1> SUFFICES ASSUME NEW e \in Conns \ dropped, NEW d \in Conns,
                    clients'[key'[e]] = e, clients'[key'[d]] = d, phase'[d] = "pumping"
             PROVE  /\ phase'[e] \in Listed => ToldOnline(e, key[d])'
                    /\ phase'[e] = "listed" => key'[d] \in online[e] \/ ToldOnline(e, key[d])'
  BY <1>0 DEF ToldInv
<1>1. CASE e = c
  BY <1>0, <1>1 DEF Listed
<1>2. CASE e # c
  <2>1. /\ d # c /\ key'[e] = key[e] /\ key'[d] = key[d]
        /\ clients[key[e]] = e /\ clients[key[d]] = d
        /\ phase'[e] = phase[e] /\ phase[d] = "pumping"
    BY <1>0, <1>2
  <2>2. /\ phase[e] \in Listed => ToldOnline(e, key[d])
        /\ phase[e] = "listed" => key[d] \in online[e] \/ ToldOnline(e, key[d])
    BY <2>1 DEF ToldInv
  <2>3. ToldOnline(e, key[d]) => ToldOnline(e, key[d])'
    BY <1>0, <2>1 DEF ToldOnline
  <2>. QED
    BY <2>1, <2>2, <2>3
<1>. QED
  BY <1>1, <1>2

\* The list is read under the lock: every registered device is in it.
LEMMA ListKeepsTold ==
  ASSUME TypeOK, ToldInv, NEW c \in Conns, ListOnline(c)
  PROVE  ToldInv'
<1>0. /\ phase \in [Conns -> Phase] /\ key \in [Conns -> Keys] /\ NoConn \notin Conns
      /\ online \in [Conns -> SUBSET Keys]
      /\ phase' = [phase EXCEPT ![c] = "listed"]
      /\ online' = [online EXCEPT ![c] = OnlineDevices]
      /\ phase[c] = "announced" /\ UNCHANGED <<clients, key, inbox, dropped>>
  BY RelayAssumption DEF TypeOK, ListOnline, Moves
<1> SUFFICES ASSUME NEW e \in Conns \ dropped, NEW d \in Conns,
                    clients[key[e]] = e, clients[key[d]] = d, phase'[d] = "pumping"
             PROVE  /\ phase'[e] \in Listed => ToldOnline(e, key[d])'
                    /\ phase'[e] = "listed" => key[d] \in online'[e] \/ ToldOnline(e, key[d])'
  BY <1>0 DEF ToldInv
<1>1. d # c /\ phase[d] = "pumping"
  BY <1>0
<1>2. CASE e = c
  <2>1. key[d] \in online'[c]
    BY <1>0 DEF OnlineDevices
  <2>. QED
    BY <1>0, <1>2, <2>1 DEF Listed
<1>3. CASE e # c
  <2>1. phase'[e] = phase[e] /\ online'[e] = online[e]
    BY <1>0, <1>3
  <2>2. ToldOnline(e, key[d]) => ToldOnline(e, key[d])'
    BY <1>0 DEF ToldOnline
  <2>. QED
    BY <1>1, <2>1, <2>2 DEF ToldInv
<1>. QED
  BY <1>2, <1>3

\* The list that goes out names whom c has not heard of yet.
LEMMA SyncKeepsTold ==
  ASSUME TypeOK, ToldInv, NEW c \in Conns, PushSync(c)
  PROVE  ToldInv'
<1> DEFINE m == [type |-> "presence_sync", online |-> online[c]]
<1>0. /\ phase \in [Conns -> Phase] /\ key \in [Conns -> Keys]
      /\ inbox \in [Conns -> Seq(Message)] /\ online[c] \in SUBSET Keys
      /\ phase[c] = "listed" /\ phase' = [phase EXCEPT ![c] = "synced"]
      /\ inbox' = [inbox EXCEPT ![c] = Append(@, m)]
      /\ UNCHANGED <<clients, key, online, dropped>>
  BY DEF TypeOK, PushSync, Push, Moves
<1>1. m \in Message /\ \A k : k \in online[c] => SaysOnline(m, k)
  BY <1>0, MessageFacts DEF SaysOnline
<1> HIDE DEF m
<1> SUFFICES ASSUME NEW e \in Conns \ dropped, NEW d \in Conns,
                    clients[key[e]] = e, clients[key[d]] = d, phase'[d] = "pumping"
             PROVE  /\ phase'[e] \in Listed => ToldOnline(e, key[d])'
                    /\ phase'[e] = "listed" => key[d] \in online[e] \/ ToldOnline(e, key[d])'
  BY <1>0 DEF ToldInv
<1>2. d # c /\ phase[d] = "pumping"
  BY <1>0
<1>3. inbox'[e] = inbox[e] \/ inbox'[e] = Append(inbox[e], m)
  BY <1>0
<1>4. \A k : ToldOnline(e, k) => ToldOnline(e, k)'
  BY <1>3, ToldStays
<1>5. \A k : k = key[d] => (ToldOnline(e, k)' <=> ToldOnline(e, key[d])')
  BY <1>0
<1>6. CASE e = c
  <2>1. key[d] \in online[c] \/ ToldOnline(c, key[d])
    BY <1>0, <1>2, <1>6 DEF ToldInv
  <2>2. inbox'[c] = Append(inbox[c], m)
    BY <1>0
  <2>3. \A k : k \in online[c] => ToldOnline(c, k)'
    BY <1>1, <2>2, ToldBy
  <2>4. ToldOnline(e, key[d])'
    BY <1>4, <1>5, <1>6, <2>1, <2>3
  <2>. QED
    BY <2>4
<1>7. CASE e # c
  <2>1. phase'[e] = phase[e]
    BY <1>0, <1>7
  <2>2. /\ phase[e] \in Listed => ToldOnline(e, key[d])
        /\ phase[e] = "listed" => key[d] \in online[e] \/ ToldOnline(e, key[d])
    BY <1>2 DEF ToldInv
  <2>. QED
    BY <1>4, <1>5, <2>1, <2>2
<1>. QED
  BY <1>6, <1>7

LEMMA ServeKeepsTold ==
  ASSUME IInv, ToldInv, NEW c \in Conns, Serve(c)
  PROVE  ToldInv'
<1>0. /\ TypeOK /\ phase \in [Conns -> Phase] /\ key \in [Conns -> Keys]
      /\ clients \in [Keys -> Conns \cup {NoConn}] /\ NoConn \notin Conns
  BY RelayAssumption DEF IInv, TypeOK
<1>1. CASE SetOnline(c)
  <2>1. UNCHANGED <<clients, key, inbox, dropped, online>>
        /\ phase' = [phase EXCEPT ![c] = "announced"]
    BY <1>1 DEF SetOnline, Moves
  <2>. QED
    BY <1>0, <2>1, QuietStepKeepsTold DEF Listed
<1>2. CASE ListOnline(c)
  BY <1>0, <1>2, ListKeepsTold
<1>3. CASE PushSync(c)
  BY <1>0, <1>3, SyncKeepsTold
<1>4. CASE PushIce(c)
  <2> DEFINE m == [type |-> "ice_servers"]
  <2>1. /\ phase[c] = "synced" /\ phase' = [phase EXCEPT ![c] = "served"]
        /\ inbox' = [inbox EXCEPT ![c] = Append(@, m)]
        /\ UNCHANGED <<clients, key, dropped, online>>
    BY <1>4 DEF PushIce, Push, Moves
  <2> HIDE DEF m
  <2>2. \A e \in Conns : inbox'[e] = inbox[e] \/ inbox'[e] = Append(inbox[e], m)
    BY <1>0, <2>1 DEF TypeOK
  <2>3. \A e \in Conns : \/ e # c /\ phase'[e] = phase[e]
                         \/ phase[e] = "synced" /\ phase'[e] = "served"
    <3>1. phase[c] = "synced" /\ phase' = [phase EXCEPT ![c] = "served"]
      BY <2>1
    <3>. QED
      BY <1>0, <3>1
  <2>4. \A e \in Conns : /\ phase'[e] = "pumping" => phase[e] = "pumping"
                         /\ phase'[e] \in Listed => phase[e] \in Listed
                         /\ phase'[e] = "listed" => phase[e] = "listed"
    BY <2>3 DEF Listed
  <2>. QED
    BY <1>0, <2>1, <2>2, <2>4, QuietStepKeepsTold
<1>5. CASE BroadcastOnline(c)
  BY <1>5, BroadcastKeepsTold
<1>6. CASE Unregister(c)
  <2>1. /\ clients' = [clients EXCEPT ![key[c]] = NoConn]
        /\ phase' = [phase EXCEPT ![c] = "unregistered"]
        /\ UNCHANGED <<key, inbox, dropped, online>>
    BY <1>6 DEF Unregister, Moves
  <2>2. \A e \in Conns : clients'[key[e]] = e => clients[key[e]] = e
    BY <1>0, <2>1
  <2>. QED
    BY <1>0, <2>1, <2>2, QuietStepKeepsTold DEF Listed
<1>7. CASE DelOnline(c)
  <2>1. UNCHANGED <<clients, key, inbox, dropped, online>>
        /\ phase' = [phase EXCEPT ![c] = "cleared"]
    BY <1>7 DEF DelOnline, Moves
  <2>. QED
    BY <1>0, <2>1, QuietStepKeepsTold DEF Listed
<1>8. CASE BroadcastOffline(c)
  <2> DEFINE m == Update(key[c], "offline")
  <2>1. /\ phase' = [phase EXCEPT ![c] = "gone"]
        /\ Offer(Registered, m) /\ UNCHANGED <<clients, key, online>>
    BY <1>8 DEF BroadcastOffline, Moves
  <2> HIDE DEF m
  <2>2. /\ \A e \in Conns : inbox'[e] = inbox[e] \/ inbox'[e] = Append(inbox[e], m)
        /\ dropped \subseteq dropped'
    BY <2>1 DEF Offer
  <2>. QED
    BY <1>0, <2>1, <2>2, QuietStepKeepsTold DEF Listed
<1>. QED
  BY <1>1, <1>2, <1>3, <1>4, <1>5, <1>6, <1>7, <1>8 DEF Serve

LEMMA NextTold == IInv /\ ToldInv /\ [Next]_vars => ToldInv'
<1> SUFFICES ASSUME IInv, ToldInv, [Next]_vars PROVE ToldInv'
  OBVIOUS
<1>0. /\ TypeOK /\ phase \in [Conns -> Phase] /\ key \in [Conns -> Keys]
      /\ clients \in [Keys -> Conns \cup {NoConn}] /\ NoConn \notin Conns
  BY RelayAssumption DEF IInv, TypeOK
<1>1. ASSUME NEW c \in Conns, NEW k \in Keys, Connect(c, k) PROVE ToldInv'
  BY <1>0, <1>1, ConnectKeepsTold
<1>2. ASSUME NEW c \in Conns, Serve(c) PROVE ToldInv'
  BY <1>2, ServeKeepsTold
<1>3. ASSUME NEW c \in Conns, NEW target \in Ids \cup {All}, Receive(c, target)
      PROVE  ToldInv'
  <2> DEFINE m == [type |-> "proxy", from |-> c, seq |-> sends[c] + 1]
             T == {t \in Registered : /\ key[t].user = key[c].user
                                      /\ target \in {All, key[t].id}}
  <2>1. Offer(T, m) /\ UNCHANGED <<clients, key, online, phase>>
    BY <1>3 DEF Receive
  <2> HIDE DEF m, T
  <2>2. /\ \A e \in Conns : inbox'[e] = inbox[e] \/ inbox'[e] = Append(inbox[e], m)
        /\ dropped \subseteq dropped'
    BY <2>1 DEF Offer
  <2>. QED
    BY <1>0, <2>1, <2>2, QuietStepKeepsTold
<1>4. ASSUME UNCHANGED <<clients, key, online, inbox, dropped, phase>>
      PROVE  ToldInv'
  BY <1>0, <1>4, QuietStepKeepsTold
<1>5. ASSUME \/ \E c \in Conns : WritePump(c) \/ Pong(c) \/ SocketCloses(c)
             \/ \E k \in Keys : KeyExpires(k)
             \/ UNCHANGED vars
      PROVE  ToldInv'
  BY <1>4, <1>5 DEF WritePump, Pong, SocketCloses, KeyExpires, vars
<1>6. CASE Crash
  <2>1. clients' = [k \in Keys |-> NoConn] /\ key' = key
    BY <1>6 DEF Crash
  <2>2. \A c \in Conns : clients'[key'[c]] # c
    BY <1>0, <2>1
  <2>. QED
    BY <2>2 DEF ToldInv
<1>. QED
  BY <1>1, <1>2, <1>3, <1>5, <1>6 DEF Next

\* Every registered client that has its list and lost no message was told of
\* every registered device that announced itself: the list of a handshake and
\* the broadcasts of the others leave no gap, however connections of a device
\* overlap and in whatever order the messages reach its queue.
THEOREM NobodyIsOverlooked == Spec => []RegisteredIsTold
<1>1. Init => ToldInv
  BY RelayAssumption DEF Init, ToldInv
<1>2. IInv /\ ToldInv /\ [Next]_vars => ToldInv'
  BY NextTold
<1>3. IInv /\ ToldInv => RegisteredIsTold
  <2> SUFFICES ASSUME IInv, ToldInv, NEW c \in Registered \ dropped, NEW k \in OnlineDevices,
                      phase[c] \in Listed, phase[clients[k]] = "pumping"
               PROVE  ToldOnline(c, k)
    BY DEF RegisteredIsTold
  <2>1. \A j \in Keys : clients[j] # NoConn => clients[j] \in Conns /\ key[clients[j]] = j
    BY DEF IInv, RegistryInv, RegisteredIsServed, Served
  <2>2. PICK j \in Keys : clients[j] = c /\ c # NoConn
    BY DEF Registered
  <2>3. c \in Conns \ dropped /\ clients[key[c]] = c
    BY <2>1, <2>2
  <2>4. clients[k] \in Conns /\ key[clients[k]] = k
    BY <2>1 DEF OnlineDevices
  <2>. QED
    BY <2>3, <2>4 DEF ToldInv
<1>. QED
  BY <1>1, <1>2, <1>3, Invariance, PTL DEF Spec

-----------------------------------------------------------------------------
(* The refinement of RelayRegistry *)

LEMMA InitRefines ==
  ASSUME Init, NEW k \in Keys
  PROVE  Registry(k)!Init
BY DEF Init, Registry!Init, Served, Handshake

\* To a device, another connection for it is Register, the cleanup of one of its
\* connections Unregister, a restart Restart, and everything else nothing.
LEMMA NextRefines ==
  ASSUME TypeOK, [Next]_vars, NEW k \in Keys
  PROVE  [Registry(k)!Next]_(Registry(k)!vars)
<1>. USE DEF Registry!vars
<1>0. /\ phase \in [Conns -> Phase] /\ key \in [Conns -> Keys]
      /\ clients \in [Keys -> Conns \cup {NoConn}]
  BY DEF TypeOK
<1>1. ASSUME NEW c \in Conns, NEW j \in Keys, Connect(c, j)
      PROVE  [Registry(k)!Next]_(Registry(k)!vars)
  <2>1. /\ Served' = Served \cup {c} /\ c \notin Served
        /\ clients' = [clients EXCEPT ![j] = c] /\ key' = [key EXCEPT ![c] = j]
    BY <1>0, <1>1 DEF Connect, Moves, Served, Handshake
  <2>2. {d \in Served : key[d] = k}' =
          {d \in Served : key[d] = k} \cup (IF j = k THEN {c} ELSE {})
    BY <1>0, <2>1 DEF Served
  <2>3. CASE j = k
    BY <1>0, <2>1, <2>2, <2>3 DEF Registry!Next, Registry!Register
  <2>4. CASE j # k
    BY <1>0, <2>1, <2>2, <2>4
  <2>. QED
    BY <2>3, <2>4
<1>2. ASSUME NEW c \in Conns, Unregister(c)
      PROVE  [Registry(k)!Next]_(Registry(k)!vars)
  <2>1. /\ Served' = Served \ {c} /\ c \in Served
        /\ clients' = [clients EXCEPT ![key[c]] = NoConn] /\ key' = key
    BY <1>0, <1>2 DEF Unregister, Moves, Served, Handshake
  <2>2. {d \in Served : key[d] = k}' = {d \in Served : key[d] = k} \ {c}
    BY <2>1
  <2>3. CASE key[c] = k
    BY <1>0, <2>1, <2>2, <2>3 DEF Registry!Next, Registry!Unregister
  <2>4. CASE key[c] # k
    BY <1>0, <2>1, <2>2, <2>4
  <2>. QED
    BY <2>3, <2>4
<1>3. CASE Crash
  <2>1. Served' = {}
    BY <1>0, <1>3 DEF Crash, Served, Handshake
  <2>. QED
    BY <1>3, <2>1 DEF Crash, Registry!Next, Registry!Restart
<1>4. ASSUME UNCHANGED <<clients, key>>, Served' = Served
      PROVE  [Registry(k)!Next]_(Registry(k)!vars)
  BY <1>4
<1>5. ASSUME NEW c \in Conns, Serve(c), ~Unregister(c)
      PROVE  UNCHANGED <<clients, key>> /\ Served' = Served
  <2>1. UNCHANGED <<clients, key>>
    BY <1>5 DEF Serve, SetOnline, ListOnline, PushSync, PushIce, BroadcastOnline, DelOnline,
       BroadcastOffline
  <2>2. \/ \E from, to \in Handshake \cup {"pumping"} : Moves(c, from, to)
        \/ \E from, to \in Cleanup \cup {"gone"} : Moves(c, from, to)
    BY <1>5 DEF Serve, SetOnline, ListOnline, PushSync, PushIce, BroadcastOnline, DelOnline,
       BroadcastOffline, Handshake, Cleanup
  <2>. QED
    BY <1>0, <2>1, <2>2 DEF Moves, Served, Handshake, Cleanup
<1>6. ASSUME \/ \E c \in Conns : \/ WritePump(c) \/ Pong(c) \/ SocketCloses(c)
                               \/ \E target \in Ids \cup {All} : Receive(c, target)
             \/ \E j \in Keys : KeyExpires(j)
             \/ UNCHANGED vars
      PROVE  UNCHANGED <<clients, key>> /\ Served' = Served
  BY <1>6 DEF WritePump, Pong, SocketCloses, Receive, KeyExpires, vars, Served
<1>. QED
  BY <1>1, <1>2, <1>3, <1>4, <1>5, <1>6 DEF Next, Serve

\* To every device the relay is a RelayRegistry.
THEOREM RelayImplementsRegistry == Spec => ImplementsRegistry
<1>1. Init => \A k \in Keys : Registry(k)!Init
  BY InitRefines
<1>2. TypeOK /\ [Next]_vars => [\A k \in Keys : [Registry(k)!Next]_(Registry(k)!vars)]_vars
  BY NextRefines
<1>. QED
  BY <1>1, <1>2, TypeCorrect, PTL DEF Spec, ImplementsRegistry

=============================================================================
