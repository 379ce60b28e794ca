-------------------------- MODULE DataChannelsProofs --------------------------
(***************************************************************************)
(* The plugin's data channels, for any number of peer connections and      *)
(* channels.  What is sent to Dart stays in order for reasons that lie in  *)
(* three places at once: Dart listens once, when it has the announcement,  *)
(* and cancels only when it is through (Announced, Listens); an event is   *)
(* sent past the queue only when the flag was read as set, and then what   *)
(* is in the queue was posted while onListen ran (Listens); and so every   *)
(* event that is dropped, overtaken or left behind is a raced one.  The    *)
(* lemmas on faithful sequences say that raced events may be put in and    *)
(* taken out anywhere, so that each step comes down to moving an event     *)
(* from one part of the stream to the next.                                *)
(***************************************************************************)
EXTENDS DataChannels, SequenceTheorems, TLAPS

\* What a channel that nobody has made yet is like, and to whom one belongs.
Owned ==
  \A c \in Channels :
    /\ owner[c] # NoPeer => peer[owner[c]] # "none"
    /\ owner[c] = NoPeer =>
         /\ c \notin observers
         /\ events[c] = NewChannel
         /\ posted[c] = <<>> /\ pipe[c] = <<>> /\ calls[c] = <<>>
         /\ dart[c].phase = "none"

\* The numbers on their way to Dart are those of posted events.
Numbered(c) ==
  LET ch == events[c] IN
  /\ pipe[c] \in Seq(DOMAIN posted[c] \cup {Announcement})
  /\ ch.queue \in Seq(DOMAIN posted[c])
  /\ ch.post # <<>> => ch.post.event \in DOMAIN posted[c]
  /\ ch.next \in 1 .. Len(ch.queue) + 1
  /\ ch.phase \in {"idle", "cleared"} => ch.next = 1

\* The announcement comes first, and once.
Announced(c) ==
  /\ dart[c].phase = "none" =>
       /\ dart[c].got = <<>> /\ calls[c] = <<>>
       /\ ~events[c].listening /\ events[c].phase = "idle"
       /\ pipe[c] \in {<<>>, <<Announcement>>}
  /\ dart[c].phase # "none" => \A i \in DOMAIN pipe[c] : pipe[c][i] # Announcement

\* Dart listens once, and cancels only when it is through with the channel.
Listens(c) ==
  LET ch == events[c] IN
  dart[c].phase # "closed" =>
    /\ \A i \in DOMAIN calls[c] :
         /\ calls[c][i] # "cancel"
         /\ calls[c][i] = "listen" => i = 1 /\ ~ch.listening /\ ch.phase = "idle"
    /\ ch.phase # "idle" => ~ch.listening
    /\ ch.post # <<>> =>
         IF ch.post.listening THEN ch.listening
         ELSE ch.phase # "idle" \/ ch.listening => ~Unraced(posted[c], ch.post.event)
    /\ ch.phase = "cleared" \/ ch.listening =>
         \A i \in DOMAIN ch.queue : ~Unraced(posted[c], ch.queue[i])

ChannelInv(c) == Numbered(c) /\ Announced(c) /\ Listens(c)

IInv ==
  /\ TypeOK /\ Owned
  /\ \A c \in Channels : ChannelInv(c)

StreamInv == \A c \in Channels : dart[c].phase # "closed" => Faithful(Stream(c), posted[c])
-----------------------------------------------------------------------------
(* The steps of an event channel *)

LEMMA RecordIsNotEmpty ==
  ASSUME NEW e, NEW b
  PROVE  [event |-> e, listening |-> b] # <<>>
OBVIOUS

LEMMA AppendFacts ==
  ASSUME NEW S, NEW s \in Seq(S), NEW e \in S
  PROVE  /\ Append(s, e) \in Seq(S)
         /\ Len(Append(s, e)) = Len(s) + 1
         /\ DOMAIN Append(s, e) = DOMAIN s \cup {Len(s) + 1}
         /\ \A i \in DOMAIN s : Append(s, e)[i] = s[i]
         /\ Append(s, e)[Len(s) + 1] = e
OBVIOUS

LEMMA TailFacts ==
  ASSUME NEW S, NEW s \in Seq(S), s # <<>>
  PROVE  /\ Head(s) \in S /\ Head(s) = s[1] /\ 1 \in DOMAIN s
         /\ Tail(s) \in Seq(S)
         /\ Len(Tail(s)) = Len(s) - 1
         /\ \A i \in DOMAIN Tail(s) :
              Tail(s)[i] = s[i + 1] /\ i + 1 \in DOMAIN s /\ i + 1 # 1
OBVIOUS

LEMMA FunctionIsSeq ==
  ASSUME NEW S, NEW n \in Nat, NEW f \in [1 .. n -> S]
  PROVE  f \in Seq(S) /\ Len(f) = n /\ DOMAIN f = 1 .. n
OBVIOUS

LEMMA InitInv == Init => IInv /\ StreamInv
<1> SUFFICES ASSUME Init PROVE IInv /\ StreamInv
  OBVIOUS
<1>1. NewChannel \in Channel(Nat)
  BY DEF NewChannel, Channel, ListenPhase, Posting
<1>2. TypeOK
  BY <1>1 DEF Init, TypeOK, PeerState, NativeState, DartObject
<1>3. Owned
  BY DEF Init, Owned
<1>4. ASSUME NEW c \in Channels
      PROVE  /\ events[c] = NewChannel
             /\ posted[c] = <<>> /\ pipe[c] = <<>> /\ calls[c] = <<>>
             /\ dart[c].phase = "none" /\ dart[c].got = <<>>
  BY DEF Init
<1>5. ASSUME NEW c \in Channels
      PROVE  ChannelInv(c)
  <2>1. Numbered(c)
    <3>1. /\ <<>> \in Seq(DOMAIN posted[c] \cup {Announcement})
          /\ <<>> \in Seq(DOMAIN posted[c])
          /\ Len(<<>>) = 0
      OBVIOUS
    <3>2. /\ events[c].queue = <<>> /\ events[c].post = <<>>
          /\ events[c].next = 1
      BY <1>4 DEF NewChannel
    <3>3. 1 \in 1 .. Len(<<>>) + 1
      BY <3>1
    <3>. QED
      BY <1>4, <3>1, <3>2, <3>3 DEF Numbered
  <2>2. Announced(c)
    BY <1>4 DEF Announced, NewChannel
  <2>3. Listens(c)
    BY <1>4 DEF Listens, NewChannel
  <2>. QED
    BY <2>1, <2>2, <2>3 DEF ChannelInv
<1>6. ASSUME NEW c \in Channels
      PROVE  Faithful(Stream(c), posted[c])
  <2>1. Waiting(NewChannel) = <<>> /\ Posted(NewChannel) = <<>>
    BY DEF Waiting, Posted, NewChannel
  <2>2. Stream(c) = <<>>
    BY <1>4, <2>1 DEF Stream
  <2>. QED
    BY <1>4, <2>2 DEF Faithful
<1>. QED
  BY <1>2, <1>3, <1>5, <1>6 DEF IInv, StreamInv

-----------------------------------------------------------------------------
(* What every step keeps *)

\* A channel that a step leaves alone.
Same(d) ==
  /\ events'[d] = events[d] /\ posted'[d] = posted[d] /\ pipe'[d] = pipe[d]
  /\ calls'[d] = calls[d] /\ dart'[d] = dart[d]

LEMMA ChannelKept ==
  ASSUME NEW d \in Channels, ChannelInv(d), Same(d)
  PROVE  ChannelInv(d)'
<1>1. Numbered(d)'
  BY DEF Same, ChannelInv, Numbered
<1>2. Announced(d)'
  BY DEF Same, ChannelInv, Announced
<1>3. Listens(d)'
  BY DEF Same, ChannelInv, Listens, Unraced
<1>. QED
  BY <1>1, <1>2, <1>3 DEF ChannelInv

\* A channel that something happens to is somebody's.
LEMMA IsOwned ==
  ASSUME IInv, NEW c \in Channels,
         \/ c \in observers
         \/ events[c].post # <<>>
         \/ events[c].phase # "idle"
         \/ calls[c] # <<>>
         \/ pipe[c] # <<>>
         \/ dart[c].phase # "none"
  PROVE  owner[c] # NoPeer
BY DEF IInv, Owned, NewChannel

\* A step on one channel, which is somebody's.
LEMMA StepKeepsInv ==
  ASSUME IInv, NEW c \in Channels,
         \A d \in Channels \ {c} : Same(d),
         UNCHANGED <<peer, owner>>, observers' \subseteq observers,
         owner[c] # NoPeer,
         TypeOK', ChannelInv(c)'
  PROVE  IInv'
<1>1. Owned'
  BY DEF IInv, Owned, Same
<1>2. ASSUME NEW d \in Channels, d # c
      PROVE  ChannelInv(d)'
  BY <1>2, ChannelKept DEF IInv
<1>. QED
  BY <1>1, <1>2 DEF IInv

\* The types of one channel, to have them at hand.
LEMMA Types ==
  ASSUME IInv, NEW c \in Channels
  PROVE  /\ events[c] \in Channel(Nat)
         /\ events[c].listening \in BOOLEAN
         /\ events[c].queue \in Seq(Nat)
         /\ events[c].phase \in ListenPhase
         /\ events[c].next \in Nat
         /\ events[c].post \in Posting(Nat)
         /\ events[c].post # <<>> =>
              events[c].post.event \in Nat /\ events[c].post.listening \in BOOLEAN
         /\ posted[c] \in Seq(PostedEvent)
         /\ pipe[c] \in Seq(Nat)
         /\ calls[c] \in Seq(Call)
         /\ dart[c] \in DartObject
         /\ dart[c].phase \in {"none", "subscribed", "closed"}
         /\ dart[c].got \in Seq(Nat)
BY DEF IInv, TypeOK, Channel, Posting, DartObject

-----------------------------------------------------------------------------
(* Peer connections and new channels *)

LEMMA PeerStepKeepsInv ==
  ASSUME IInv, NEW p \in Peers, CreatePeerConnection(p) \/ PeerConnectionClose(p)
  PROVE  IInv'
<1>1. \A d \in Channels : Same(d)
  BY DEF CreatePeerConnection, PeerConnectionClose, Same
<1>2. TypeOK'
  BY DEF IInv, TypeOK, CreatePeerConnection, PeerConnectionClose, PeerState
<1>3. Owned'
  <2>1. \A q \in Peers : peer[q] # "none" => peer'[q] # "none"
    BY DEF IInv, TypeOK, CreatePeerConnection, PeerConnectionClose
  <2>2. UNCHANGED <<observers, owner>> /\ owner \in [Channels -> Peers \cup {NoPeer}]
    BY DEF IInv, TypeOK, CreatePeerConnection, PeerConnectionClose
  <2>. QED
    BY <1>1, <2>1, <2>2 DEF IInv, Owned, Same
<1>. QED
  BY <1>1, <1>2, <1>3, ChannelKept DEF IInv

LEMMA NewChannelKeepsInv ==
  ASSUME IInv, NEW p \in Peers, NEW c \in Channels,
         CreateDataChannel(p, c) \/ OnDataChannel(p, c)
  PROVE  IInv'
<1>1. /\ Live(p) /\ owner[c] = NoPeer
      /\ owner' = [owner EXCEPT ![c] = p]
      /\ observers' = observers \cup {c}
      /\ pipe' = [pipe EXCEPT ![c] = Append(@, Announcement)]
      /\ UNCHANGED <<peer, events, posted, calls, answer>>
  BY DEF CreateDataChannel, OnDataChannel, Insert
<1>2. /\ events[c] = NewChannel
      /\ posted[c] = <<>> /\ pipe[c] = <<>> /\ calls[c] = <<>>
      /\ dart[c].phase = "none"
  BY <1>1 DEF IInv, Owned
<1>3. pipe' \in [Channels -> Seq(Nat)] /\ pipe'[c] = <<Announcement>>
  BY <1>1, <1>2 DEF IInv, TypeOK, Announcement
<1>4. /\ dart' \in [Channels -> DartObject]
      /\ native' \in [Channels -> NativeState]
      /\ dart'[c].phase = "none" /\ dart'[c].got = dart[c].got
      /\ \A d \in Channels \ {c} : dart'[d] = dart[d]
  <2>1. native \in [Channels -> NativeState] /\ dart \in [Channels -> DartObject]
    BY DEF IInv, TypeOK
  <2>2. CASE CreateDataChannel(p, c)
    BY <1>2, <2>1, <2>2 DEF CreateDataChannel, NativeState
  <2>3. CASE OnDataChannel(p, c)
    <3>1. dart' = [dart EXCEPT ![c].state = "open"] /\ native' = [native EXCEPT ![c] = "open"]
      BY <2>3 DEF OnDataChannel
    <3>2. [dart[c] EXCEPT !.state = "open"] \in DartObject
      BY <2>1 DEF DartObject
    <3>3. dart' = [dart EXCEPT ![c] = [dart[c] EXCEPT !.state = "open"]]
      BY <2>1, <3>1
    <3>. QED
      BY <1>2, <2>1, <3>1, <3>2, <3>3 DEF NativeState, DartObject
  <2>. QED
    BY <2>2, <2>3
<1>5. TypeOK'
  BY <1>1, <1>3, <1>4 DEF IInv, TypeOK
<1>6. \A d \in Channels \ {c} : Same(d)
  BY <1>1, <1>4 DEF IInv, TypeOK, Same
<1>7. Owned'
  <2>1. /\ owner \in [Channels -> Peers \cup {NoPeer}] /\ Owned
        /\ peer[p] # "none" /\ p # NoPeer
    BY <1>1, DataChannelsAssumption DEF IInv, TypeOK, Live
  <2>2. owner'[c] = p /\ \A d \in Channels \ {c} : owner'[d] = owner[d]
    BY <1>1, <2>1
  <2>. QED
    BY <1>1, <1>6, <2>1, <2>2 DEF Owned, Same
<1>8. ChannelInv(c)'
  <2>1. ChannelInv(c)
    BY DEF IInv
  <2>2. Numbered(c)'
    <3>1. <<Announcement>> \in Seq(DOMAIN posted[c] \cup {Announcement})
      OBVIOUS
    <3>. QED
      BY <1>1, <1>3, <2>1, <3>1 DEF ChannelInv, Numbered
  <2>3. Announced(c)'
    BY <1>1, <1>2, <1>3, <1>4, <2>1 DEF ChannelInv, Announced
  <2>4. Listens(c)'
    BY <1>1, <1>2, <1>4, <2>1 DEF ChannelInv, Listens, Unraced
  <2>. QED
    BY <2>2, <2>3, <2>4 DEF ChannelInv
<1>9. ASSUME NEW d \in Channels, d # c
      PROVE  ChannelInv(d)'
  BY <1>6, <1>9, ChannelKept DEF IInv
<1>. QED
  BY <1>5, <1>7, <1>8, <1>9 DEF IInv

-----------------------------------------------------------------------------
(* The signaling thread *)

LEMMA PostKeepsInv ==
  ASSUME IInv, NEW c \in Channels, NEW kind \in EventKind, Post(c, kind),
         native' \in [Channels -> NativeState]
  PROVE  IInv'
<1> DEFINE n == Len(posted[c]) + 1
           r == [kind |-> kind, raced |-> events[c].phase # "idle"]
<1>1. /\ events[c].post = <<>> /\ c \in observers
      /\ posted' = [posted EXCEPT ![c] = Append(@, r)]
      /\ events' = [events EXCEPT ![c] = SuccessStarts(@, n)]
      /\ UNCHANGED <<peer, observers, owner, pipe, calls, dart, answer>>
  BY DEF Post, SignalingIsIdle
<1>2. posted \in [Channels -> Seq(PostedEvent)] /\ events \in [Channels -> Channel(Nat)]
  BY DEF IInv, TypeOK
<1>3. r \in PostedEvent /\ n \in Nat
  BY <1>2 DEF PostedEvent
<1>4. posted'[c] = Append(posted[c], r) /\ posted' \in [Channels -> Seq(PostedEvent)]
  BY <1>1, <1>2, <1>3
<1>5. /\ events'[c].queue = events[c].queue /\ events'[c].next = events[c].next
      /\ events'[c].phase = events[c].phase /\ events'[c].listening = events[c].listening
      /\ events'[c].post = [event |-> n, listening |-> events[c].listening]
  BY <1>1, <1>2 DEF SuccessStarts, Channel
<1>6. /\ SuccessStarts(events[c], n) \in Channel(Nat)
      /\ events' \in [Channels -> Channel(Nat)]
  BY <1>1, <1>2, <1>3 DEF SuccessStarts, Channel, Posting
<1>7. TypeOK'
  BY <1>1, <1>4, <1>6 DEF IInv, TypeOK
<1>8. \A d \in Channels \ {c} : Same(d)
  BY <1>1, <1>2 DEF Same
<1>9. /\ DOMAIN posted'[c] = DOMAIN posted[c] \cup {n}
      /\ \A i \in DOMAIN posted[c] : posted'[c][i] = posted[c][i]
      /\ posted'[c][n] = r
      /\ n \notin DOMAIN posted[c]
  BY <1>2, <1>3, <1>4
<1>10. Numbered(c) /\ Announced(c) /\ Listens(c)
  BY DEF IInv, ChannelInv
<1>11. Numbered(c)'
  <2>1. /\ Seq(DOMAIN posted[c]) \subseteq Seq(DOMAIN posted'[c])
        /\ Seq(DOMAIN posted[c] \cup {Announcement})
             \subseteq Seq(DOMAIN posted'[c] \cup {Announcement})
    BY <1>9
  <2>. QED
    BY <1>1, <1>5, <1>9, <1>10, <2>1 DEF Numbered
<1>12. Announced(c)'
  BY <1>1, <1>5, <1>10 DEF Announced
<1>13. Listens(c)'
  <2>1. ASSUME NEW e \in DOMAIN posted[c], ~Unraced(posted[c], e)
        PROVE  ~Unraced(posted'[c], e)
    BY <1>9, <2>1 DEF Unraced
  <2>2. \A i \in DOMAIN events[c].queue : events[c].queue[i] \in DOMAIN posted[c]
    BY <1>10 DEF Numbered
  <2>3. events[c].phase # "idle" => ~Unraced(posted'[c], n)
    <3>1. posted'[c][n].raced = (events[c].phase # "idle")
      <4>1. r.raced = (events[c].phase # "idle")
        OBVIOUS
      <4>. QED
        BY <1>9, <4>1, Zenon
    <3>. QED
      BY <3>1 DEF Unraced
  <2>4. SUFFICES ASSUME dart[c].phase # "closed"
                 PROVE  /\ ~events[c].listening /\ events[c].phase # "idle" =>
                             ~Unraced(posted'[c], n)
                        /\ events[c].phase # "idle" => ~events[c].listening
                        /\ events[c].phase = "cleared" \/ events[c].listening =>
                             \A i \in DOMAIN events[c].queue :
                               ~Unraced(posted'[c], events[c].queue[i])
    BY <1>1, <1>5, <1>10, RecordIsNotEmpty DEF Listens
  <2>. QED
    BY <1>10, <2>1, <2>2, <2>3, <2>4 DEF Listens
<1>14. owner[c] # NoPeer
  BY <1>1, IsOwned
<1>. QED
  BY <1>1, <1>7, <1>8, <1>11, <1>12, <1>13, <1>14, StepKeepsInv DEF ChannelInv

LEMMA SuccessReturnsKeepsInv ==
  ASSUME IInv, NEW c \in Channels, SuccessReturns(c)
  PROVE  IInv'
<1> DEFINE e == events[c].post.event
<1>1. /\ events[c].post # <<>>
      /\ pipe' = [pipe EXCEPT ![c] = @ \o SentAtOnce(events[c])]
      /\ events' = [events EXCEPT ![c] = SuccessEnds(@)]
      /\ UNCHANGED <<peer, observers, owner, native, posted, calls, dart, answer>>
  BY DEF SuccessReturns
<1>2. pipe \in [Channels -> Seq(Nat)] /\ events \in [Channels -> Channel(Nat)]
  BY DEF IInv, TypeOK
<1>3. Numbered(c) /\ Announced(c) /\ Listens(c)
  BY DEF IInv, ChannelInv
<1>4. /\ e \in Nat /\ e \in DOMAIN posted[c] /\ e # Announcement
      /\ events[c].post.listening \in BOOLEAN /\ events[c].queue \in Seq(Nat)
      /\ posted[c] \in Seq(PostedEvent)
  BY <1>1, <1>3, Types DEF Numbered, Announcement
<1>5. /\ events'[c].post = <<>>
      /\ events'[c].next = events[c].next
      /\ events'[c].phase = events[c].phase /\ events'[c].listening = events[c].listening
  BY <1>1, <1>2 DEF SuccessEnds, Channel
<1>6. events'[c].queue = IF events[c].post.listening THEN events[c].queue
                         ELSE Append(events[c].queue, e)
  BY <1>1, <1>2 DEF SuccessEnds, Channel
<1>7. pipe'[c] = IF events[c].post.listening THEN Append(pipe[c], e) ELSE pipe[c]
  BY <1>1, <1>2, <1>4 DEF SentAtOnce
<1>8. pipe' \in [Channels -> Seq(Nat)] /\ events' \in [Channels -> Channel(Nat)]
  <2>1. SuccessEnds(events[c]) \in Channel(Nat)
    <3>1. (IF events[c].post.listening THEN events[c].queue ELSE Append(events[c].queue, e))
            \in Seq(Nat)
      BY <1>4
    <3>. QED
      BY <1>2, <3>1 DEF SuccessEnds, Channel, Posting
  <2>2. pipe[c] \o SentAtOnce(events[c]) \in Seq(Nat)
    BY <1>2, <1>4 DEF SentAtOnce
  <2>. QED
    BY <1>1, <1>2, <2>1, <2>2
<1>9. TypeOK'
  BY <1>1, <1>8 DEF IInv, TypeOK
<1>10. \A d \in Channels \ {c} : Same(d)
  BY <1>1, <1>2 DEF Same
<1>11. Numbered(c)'
  <2>1. events'[c].queue \in Seq(DOMAIN posted[c]) /\ Len(events'[c].queue) >= Len(events[c].queue)
    <3>1. events[c].queue \in Seq(DOMAIN posted[c])
      BY <1>3 DEF Numbered
    <3>2. CASE events[c].post.listening
      BY <1>6, <3>1, <3>2
    <3>3. CASE ~events[c].post.listening
      <4>1. e \in DOMAIN posted[c]
        BY <1>4
      <4>2. Append(events[c].queue, e) \in Seq(DOMAIN posted[c])
        BY <3>1, <4>1, AppendFacts, Zenon
      <4>3. Len(Append(events[c].queue, e)) = Len(events[c].queue) + 1 /\ Len(events[c].queue) \in Nat
        BY <1>4
      <4>. QED
        BY <1>6, <3>3, <4>2, <4>3
    <3>. QED
      BY <3>2, <3>3
  <2>2. pipe'[c] \in Seq(DOMAIN posted[c] \cup {Announcement})
    BY <1>3, <1>4, <1>7 DEF Numbered
  <2>3. events'[c].next \in 1 .. Len(events'[c].queue) + 1
    <3>1. /\ Len(events[c].queue) \in Nat /\ Len(events'[c].queue) \in Nat
          /\ events[c].next \in 1 .. Len(events[c].queue) + 1
      BY <1>3, <1>4, <2>1 DEF Numbered
    <3>. QED
      BY <1>5, <2>1, <3>1
  <2>4. events[c].phase \in {"idle", "cleared"} => events'[c].next = 1
    BY <1>3, <1>5 DEF Numbered
  <2>. QED
    BY <1>1, <1>5, <2>1, <2>2, <2>3, <2>4 DEF Numbered
<1>12. Announced(c)'
  <2>1. CASE dart[c].phase = "none"
    <3>1. dart[c].phase # "closed" /\ ~events[c].post.listening
      BY <1>1, <1>3, <1>4, <2>1 DEF Announced, Listens
    <3>. QED
      BY <1>1, <1>3, <1>5, <1>7, <2>1, <3>1 DEF Announced
  <2>2. CASE dart[c].phase # "none"
    <3>1. \A i \in DOMAIN pipe[c] : pipe[c][i] # Announcement
      BY <1>3, <2>2 DEF Announced
    <3>2. \A i \in DOMAIN pipe'[c] : pipe'[c][i] # Announcement
      BY <1>2, <1>4, <1>7, <3>1
    <3>. QED
      BY <1>1, <2>2, <3>2 DEF Announced
  <2>. QED
    BY <2>1, <2>2
<1>13. Listens(c)'
  <2> SUFFICES ASSUME dart[c].phase # "closed"
               PROVE  events[c].phase = "cleared" \/ events[c].listening =>
                        \A i \in DOMAIN events'[c].queue : ~Unraced(posted[c], events'[c].queue[i])
    BY <1>1, <1>3, <1>5 DEF Listens
  <2> SUFFICES ASSUME events[c].phase = "cleared" \/ events[c].listening
               PROVE  \A i \in DOMAIN events'[c].queue : ~Unraced(posted[c], events'[c].queue[i])
    OBVIOUS
  <2>1. \A i \in DOMAIN events[c].queue : ~Unraced(posted[c], events[c].queue[i])
    BY <1>3 DEF Listens
  <2>2. ~events[c].post.listening => ~Unraced(posted[c], e)
    BY <1>1, <1>3 DEF Listens
  <2>3. CASE events[c].post.listening
    BY <1>6, <2>1, <2>3
  <2>4. CASE ~events[c].post.listening
    BY <1>4, <1>6, <2>1, <2>2, <2>4
  <2>. QED
    BY <2>3, <2>4
<1>14. owner[c] # NoPeer
  BY <1>1, IsOwned
<1>. QED
  BY <1>1, <1>9, <1>10, <1>11, <1>12, <1>13, <1>14, StepKeepsInv DEF ChannelInv

-----------------------------------------------------------------------------
(* The platform thread *)

\* A call that has been taken up leaves no listen behind.
LEMMA TakesFacts ==
  ASSUME IInv, NEW c \in Channels, NEW call \in Call, Takes(c, call)
  PROVE  /\ \A d \in Channels : events[d].phase = "idle"
         /\ calls[c] # <<>> /\ calls[c][1] = call /\ 1 \in DOMAIN calls[c]
         /\ calls' \in [Channels -> Seq(Call)]
         /\ \A d \in Channels \ {c} : calls'[d] = calls[d]
         /\ dart[c].phase # "none" /\ owner[c] # NoPeer
         /\ dart[c].phase # "closed" =>
              \A i \in DOMAIN calls'[c] : calls'[c][i] \notin {"listen", "cancel"}
<1>1. calls \in [Channels -> Seq(Call)] /\ Announced(c) /\ Listens(c)
  BY DEF IInv, TypeOK, ChannelInv
<1>2. /\ PlatformIsIdle
      /\ calls[c] # <<>> /\ Head(calls[c]) = call
      /\ calls' = [calls EXCEPT ![c] = Tail(@)]
  BY DEF Takes
<1>3. calls'[c] = Tail(calls[c]) /\ \A d \in Channels \ {c} : calls'[d] = calls[d]
  BY <1>1, <1>2
<1>4. calls[c] \in Seq(Call)
  BY <1>1
<1>5. /\ Head(calls[c]) = calls[c][1] /\ 1 \in DOMAIN calls[c]
      /\ Tail(calls[c]) \in Seq(Call)
      /\ \A i \in DOMAIN Tail(calls[c]) :
           /\ Tail(calls[c])[i] = calls[c][i + 1]
           /\ i + 1 \in DOMAIN calls[c] /\ i + 1 # 1
  BY <1>2, <1>4, TailFacts
<1>6. calls' \in [Channels -> Seq(Call)]
  BY <1>1, <1>2, <1>5
<1>7. dart[c].phase # "none" /\ owner[c] # NoPeer
  BY <1>1, <1>2, IsOwned DEF Announced
<1>8. dart[c].phase # "closed" =>
        \A i \in DOMAIN calls'[c] : calls'[c][i] \notin {"listen", "cancel"}
  BY <1>1, <1>3, <1>5 DEF Listens
<1>. QED
  BY <1>2, <1>3, <1>5, <1>6, <1>7, <1>8 DEF PlatformIsIdle

\* A call that touches neither the event channel nor Dart.
LEMMA CallKeepsInv ==
  ASSUME IInv, NEW c \in Channels, NEW call \in Call, Takes(c, call),
         observers' \subseteq observers,
         native' \in [Channels -> NativeState],
         answer' \in [Channels -> {"none", "ok", "error"}],
         UNCHANGED <<peer, owner, events, posted, pipe, dart>>
  PROVE  IInv'
<1>1. TypeOK'
  BY TakesFacts DEF IInv, TypeOK
<1>2. \A d \in Channels \ {c} : Same(d)
  BY TakesFacts DEF Same
<1>3. Numbered(c) /\ Announced(c) /\ Listens(c)
  BY DEF IInv, ChannelInv
<1>4. Numbered(c)'
  BY <1>3 DEF Numbered
<1>5. Announced(c)'
  BY <1>3, TakesFacts DEF Announced
<1>6. Listens(c)'
  BY <1>3, TakesFacts DEF Listens
<1>. QED
  BY <1>1, <1>2, <1>4, <1>5, <1>6, TakesFacts, StepKeepsInv DEF ChannelInv

LEMMA SendAndCloseKeepInv ==
  ASSUME IInv, NEW c \in Channels, DataChannelSend(c) \/ DataChannelClose(c)
  PROVE  IInv'
<1>1. /\ native \in [Channels -> NativeState] /\ answer \in [Channels -> {"none", "ok", "error"}]
  BY DEF IInv, TypeOK
<1>2. CASE DataChannelSend(c)
  BY <1>1, <1>2, CallKeepsInv DEF DataChannelSend, Call
<1>3. CASE DataChannelClose(c)
  BY <1>1, <1>3, CallKeepsInv DEF DataChannelClose, Call, NativeState
<1>. QED
  BY <1>2, <1>3

LEMMA OnListenKeepsInv ==
  ASSUME IInv, NEW c \in Channels, OnListen(c)
  PROVE  IInv'
<1> DEFINE ch == events[c]
           log == [i \in DOMAIN posted[c] |->
                     IF ch.post # <<>> /\ ch.post.event = i
                     THEN [posted[c][i] EXCEPT !.raced = TRUE] ELSE posted[c][i]]
<1>1. /\ Takes(c, "listen")
      /\ events' = [events EXCEPT ![c] = ListenStarts(@)]
      /\ posted' = [posted EXCEPT ![c] = log]
      /\ UNCHANGED <<peer, observers, owner, native, pipe, dart, answer>>
  BY DEF OnListen
<1>2. events \in [Channels -> Channel(Nat)] /\ posted \in [Channels -> Seq(PostedEvent)]
  BY DEF IInv, TypeOK
<1>3. /\ events'[c].queue = ch.queue /\ events'[c].post = ch.post
      /\ events'[c].listening = ch.listening
      /\ events'[c].next = 1 /\ events'[c].phase = "sending"
  BY <1>1, <1>2 DEF ListenStarts, Channel
<1>4. posted'[c] = log
  BY <1>1, <1>2
<1>5. log \in Seq(PostedEvent) /\ DOMAIN log = DOMAIN posted[c]
  <2>1. /\ Len(posted[c]) \in Nat /\ DOMAIN posted[c] = 1 .. Len(posted[c])
        /\ posted[c] \in [DOMAIN posted[c] -> PostedEvent]
    BY <1>2
  <2>2. ASSUME NEW r \in PostedEvent
        PROVE  [r EXCEPT !.raced = TRUE] \in PostedEvent
    BY DEF PostedEvent
  <2>3. log \in [1 .. Len(posted[c]) -> PostedEvent]
    BY <2>1, <2>2, Zenon
  <2>. QED
    BY <2>1, <2>3, FunctionIsSeq
<1>6. ListenStarts(ch) \in Channel(Nat)
  BY <1>2 DEF ListenStarts, Channel, ListenPhase
<1>7. TypeOK'
  BY <1>1, <1>2, <1>5, <1>6, TakesFacts DEF IInv, TypeOK, Call
<1>8. \A d \in Channels \ {c} : Same(d)
  BY <1>1, <1>2, TakesFacts DEF Same, Call
<1>9. Numbered(c) /\ Announced(c) /\ Listens(c)
  BY DEF IInv, ChannelInv
<1>10. ASSUME ch.post # <<>>
       PROVE  ~Unraced(posted'[c], ch.post.event)
  <2>1. ch.post.event \in DOMAIN posted[c]
    BY <1>9, <1>10 DEF Numbered
  <2>2. posted[c][ch.post.event] \in PostedEvent
    <3>1. posted[c] \in [DOMAIN posted[c] -> PostedEvent]
      BY <1>2
    <3>. QED
      BY <2>1, <3>1, Zenon
  <2>3. posted'[c][ch.post.event] = [posted[c][ch.post.event] EXCEPT !.raced = TRUE]
    BY <1>4, <1>10, <2>1
  <2>4. posted'[c][ch.post.event].raced
    BY <2>2, <2>3 DEF PostedEvent
  <2>. QED
    BY <2>4 DEF Unraced
<1>11. Numbered(c)'
  BY <1>1, <1>3, <1>4, <1>5, <1>9, Types DEF Numbered
<1>12. Announced(c)'
  BY <1>1, <1>9, TakesFacts DEF Announced, Call
<1>13. Listens(c)'
  <2>1. dart[c].phase # "closed" => ~ch.listening
    BY <1>1, <1>9, TakesFacts DEF Listens, Call
  <2>. QED
    BY <1>1, <1>3, <1>9, <1>10, <2>1, TakesFacts DEF Listens, Call
<1>. QED
  BY <1>1, <1>7, <1>8, <1>11, <1>12, <1>13, TakesFacts, StepKeepsInv DEF ChannelInv, Call

LEMMA OnCancelKeepsInv ==
  ASSUME IInv, NEW c \in Channels, OnCancel(c)
  PROVE  IInv'
<1>1. /\ Takes(c, "cancel")
      /\ events' = [events EXCEPT ![c] = Cancelled(@)]
      /\ UNCHANGED <<peer, observers, owner, native, posted, pipe, dart, answer>>
  BY DEF OnCancel
<1>2. events \in [Channels -> Channel(Nat)]
  BY DEF IInv, TypeOK
<1>3. /\ events'[c].queue = events[c].queue /\ events'[c].post = events[c].post
      /\ events'[c].next = events[c].next /\ events'[c].phase = events[c].phase
  BY <1>1, <1>2 DEF Cancelled, Channel
<1>4. Cancelled(events[c]) \in Channel(Nat)
  BY <1>2 DEF Cancelled, Channel
<1>5. TypeOK'
  BY <1>1, <1>2, <1>4, TakesFacts DEF IInv, TypeOK, Call
<1>6. \A d \in Channels \ {c} : Same(d)
  BY <1>1, <1>2, TakesFacts DEF Same, Call
<1>7. Numbered(c) /\ Announced(c) /\ Listens(c)
  BY DEF IInv, ChannelInv
<1>8. Numbered(c)'
  BY <1>1, <1>3, <1>7 DEF Numbered
<1>9. Announced(c)'
  BY <1>1, <1>7, TakesFacts DEF Announced, Call
<1>10. dart[c].phase = "closed"
  BY <1>1, <1>7, TakesFacts DEF Listens, Call
<1>11. Listens(c)'
  BY <1>1, <1>10 DEF Listens
<1>. QED
  BY <1>1, <1>5, <1>6, <1>8, <1>9, <1>11, TakesFacts, StepKeepsInv DEF ChannelInv, Call

LEMMA SendQueuedKeepsInv ==
  ASSUME IInv, NEW c \in Channels, SendQueued(c)
  PROVE  IInv'
<1> DEFINE e == NextQueued(events[c])
<1>1. /\ events[c].phase = "sending" /\ events[c].next <= Len(events[c].queue)
      /\ pipe' = [pipe EXCEPT ![c] = Append(@, e)]
      /\ events' = [events EXCEPT ![c] = QueuedIsSent(@)]
      /\ UNCHANGED <<peer, observers, owner, native, posted, calls, dart, answer>>
  BY DEF SendQueued, MustSend
<1>2. events \in [Channels -> Channel(Nat)] /\ pipe \in [Channels -> Seq(Nat)]
  BY DEF IInv, TypeOK
<1>3. Numbered(c) /\ Announced(c) /\ Listens(c)
  BY DEF IInv, ChannelInv
<1>4. /\ events'[c].queue = events[c].queue /\ events'[c].post = events[c].post
      /\ events'[c].listening = events[c].listening
      /\ events'[c].next = events[c].next + 1 /\ events'[c].phase = "sending"
  BY <1>1, <1>2 DEF QueuedIsSent, Channel
<1>5. QueuedIsSent(events[c]) \in Channel(Nat)
  <2>1. events[c].next + 1 \in Nat
    BY Types
  <2>. QED
    BY <1>2, <2>1 DEF QueuedIsSent, Channel
<1>6. e \in DOMAIN posted[c] /\ e \in Nat /\ e # Announcement
  <2>1. events[c].next \in DOMAIN events[c].queue
    BY <1>1, <1>3, Types DEF Numbered
  <2>2. e \in DOMAIN posted[c]
    BY <1>3, <2>1 DEF Numbered, NextQueued
  <2>. QED
    BY <2>2, Types DEF Announcement
<1>7. pipe'[c] = Append(pipe[c], e) /\ pipe' \in [Channels -> Seq(Nat)]
  BY <1>1, <1>2, <1>6
<1>8. TypeOK'
  BY <1>1, <1>2, <1>5, <1>7 DEF IInv, TypeOK
<1>9. \A d \in Channels \ {c} : Same(d)
  BY <1>1, <1>2 DEF Same
<1>10. Numbered(c)'
  <2>1. pipe[c] \in Seq(DOMAIN posted[c] \cup {Announcement})
    BY <1>3 DEF Numbered
  <2>2. pipe'[c] \in Seq(DOMAIN posted[c] \cup {Announcement})
    <3>1. e \in DOMAIN posted[c] \cup {Announcement}
      BY <1>6
    <3>2. Append(pipe[c], e) \in Seq(DOMAIN posted[c] \cup {Announcement})
      BY <2>1, <3>1, AppendFacts, Zenon
    <3>. QED
      BY <1>7, <3>2
  <2>3. events'[c].next \in 1 .. Len(events'[c].queue) + 1
    BY <1>1, <1>3, <1>4, Types DEF Numbered
  <2>. QED
    BY <1>1, <1>3, <1>4, <2>2, <2>3 DEF Numbered
<1>11. Announced(c)'
  <2>1. dart[c].phase # "none"
    BY <1>1, <1>3 DEF Announced
  <2>2. \A i \in DOMAIN pipe[c] : pipe[c][i] # Announcement
    BY <1>3, <2>1 DEF Announced
  <2>3. \A i \in DOMAIN pipe'[c] : pipe'[c][i] # Announcement
    BY <1>2, <1>6, <1>7, <2>2
  <2>. QED
    BY <1>1, <2>1, <2>3 DEF Announced
<1>12. Listens(c)'
  BY <1>1, <1>3, <1>4 DEF Listens
<1>. QED
  BY <1>1, <1>8, <1>9, <1>10, <1>11, <1>12, IsOwned, StepKeepsInv DEF ChannelInv

LEMMA ListenGoesOnKeepsInv ==
  ASSUME IInv, NEW c \in Channels, ListenGoesOn(c)
  PROVE  IInv'
<1> DEFINE ch == events[c]
<1>1. UNCHANGED <<peer, observers, owner, native, posted, pipe, calls, dart, answer>>
  BY DEF ListenGoesOn
<1>2. events \in [Channels -> Channel(Nat)]
  BY DEF IInv, TypeOK
<1>3. Numbered(c) /\ Announced(c) /\ Listens(c)
  BY DEF IInv, ChannelInv
<1>4. ch.phase # "idle"
  BY DEF ListenGoesOn, LoopIsOver
<1>5. /\ \A d \in Channels \ {c} : Same(d)
      /\ TypeOK' /\ ChannelInv(c)'
  <2>1. CASE LoopIsOver(ch) /\ events' = [events EXCEPT ![c] = LoopEnds(@)]
    <3>1. LoopEnds(ch) \in Channel(Nat)
      BY <1>2 DEF LoopEnds, Channel, ListenPhase
    <3>2. /\ events'[c].queue = ch.queue /\ events'[c].post = ch.post
          /\ events'[c].listening = ch.listening
          /\ events'[c].next = ch.next /\ events'[c].phase = "sent"
      BY <1>2, <2>1 DEF LoopEnds, Channel
    <3>3. TypeOK' /\ \A d \in Channels \ {c} : Same(d)
      BY <1>1, <1>2, <2>1, <3>1 DEF IInv, TypeOK, Same
    <3>4. Numbered(c)'
      BY <1>1, <1>3, <3>2 DEF Numbered
    <3>5. Announced(c)'
      BY <1>1, <1>3, <1>4 DEF Announced
    <3>6. Listens(c)'
      BY <1>1, <1>3, <1>4, <3>2 DEF Listens
    <3>. QED
      BY <3>3, <3>4, <3>5, <3>6 DEF ChannelInv
  <2>2. CASE ch.phase = "sent" /\ events' = [events EXCEPT ![c] = QueueCleared(@)]
    <3>1. QueueCleared(ch) \in Channel(Nat)
      <4>1. <<>> \in Seq(Nat)
        OBVIOUS
      <4>. QED
        BY <1>2, <4>1 DEF QueueCleared, Channel, ListenPhase
    <3>2. /\ events'[c].queue = <<>> /\ events'[c].post = ch.post
          /\ events'[c].listening = ch.listening
          /\ events'[c].next = 1 /\ events'[c].phase = "cleared"
      BY <1>2, <2>2 DEF QueueCleared, Channel
    <3>3. TypeOK' /\ \A d \in Channels \ {c} : Same(d)
      BY <1>1, <1>2, <2>2, <3>1 DEF IInv, TypeOK, Same
    <3>4. Numbered(c)'
      <4>1. 1 \in 1 .. Len(<<>>) + 1 /\ <<>> \in Seq(DOMAIN posted[c])
        OBVIOUS
      <4>. QED
        BY <1>1, <1>3, <3>2, <4>1 DEF Numbered
    <3>5. Announced(c)'
      BY <1>1, <1>3, <1>4 DEF Announced
    <3>6. Listens(c)'
      BY <1>1, <1>3, <1>4, <3>2 DEF Listens
    <3>. QED
      BY <3>3, <3>4, <3>5, <3>6 DEF ChannelInv
  <2>3. CASE ch.phase = "cleared" /\ events' = [events EXCEPT ![c] = ListenEnds(@)]
    <3>1. ListenEnds(ch) \in Channel(Nat)
      BY <1>2 DEF ListenEnds, Channel, ListenPhase
    <3>2. /\ events'[c].queue = ch.queue /\ events'[c].post = ch.post
          /\ events'[c].listening = TRUE
          /\ events'[c].next = ch.next /\ events'[c].phase = "idle"
      BY <1>2, <2>3 DEF ListenEnds, Channel
    <3>3. TypeOK' /\ \A d \in Channels \ {c} : Same(d)
      BY <1>1, <1>2, <2>3, <3>1 DEF IInv, TypeOK, Same
    <3>4. Numbered(c)'
      BY <1>1, <1>3, <2>3, <3>2 DEF Numbered
    <3>5. Announced(c)'
      BY <1>1, <1>3, <1>4 DEF Announced
    <3>6. Listens(c)'
      BY <1>1, <1>3, <1>4, <2>3, <3>2 DEF Listens
    <3>. QED
      BY <3>3, <3>4, <3>5, <3>6 DEF ChannelInv
  <2>. QED
    BY <2>1, <2>2, <2>3 DEF ListenGoesOn
<1>. QED
  BY <1>1, <1>4, <1>5, IsOwned, StepKeepsInv

-----------------------------------------------------------------------------
(* Dart *)

LEMMA ReceiveKeepsInv ==
  ASSUME IInv, NEW c \in Channels, Receive(c)
  PROVE  IInv'
<1> DEFINE e == Head(pipe[c])
<1>1. /\ pipe[c] # <<>>
      /\ pipe' = [pipe EXCEPT ![c] = Tail(@)]
      /\ UNCHANGED <<peer, observers, owner, native, events, posted, answer>>
  BY DEF Receive
<1>2. /\ pipe \in [Channels -> Seq(Nat)] /\ dart \in [Channels -> DartObject]
      /\ calls \in [Channels -> Seq(Call)] /\ posted \in [Channels -> Seq(PostedEvent)]
  BY DEF IInv, TypeOK
<1>3. Numbered(c) /\ Announced(c) /\ Listens(c)
  BY DEF IInv, ChannelInv
<1>4. /\ e \in DOMAIN posted[c] \cup {Announcement}
      /\ e = pipe[c][1] /\ 1 \in DOMAIN pipe[c]
      /\ Tail(pipe[c]) \in Seq(DOMAIN posted[c] \cup {Announcement})
      /\ \A i \in DOMAIN Tail(pipe[c]) :
           Tail(pipe[c])[i] = pipe[c][i + 1] /\ i + 1 \in DOMAIN pipe[c]
  BY <1>1, <1>3, TailFacts DEF Numbered
<1>5. pipe'[c] = Tail(pipe[c]) /\ pipe' \in [Channels -> Seq(Nat)]
  BY <1>1, <1>2, <1>4, TailFacts
<1>6. Numbered(c)'
  BY <1>1, <1>3, <1>4, <1>5 DEF Numbered
<1>7. owner[c] # NoPeer
  BY <1>1, IsOwned
<1>8. SUFFICES TypeOK' /\ Announced(c)' /\ Listens(c)' /\ \A d \in Channels \ {c} : Same(d)
  BY <1>1, <1>6, <1>7, StepKeepsInv DEF ChannelInv
<1>9. ASSUME NEW x \in DartObject, dart' = [dart EXCEPT ![c] = x],
             calls' \in [Channels -> Seq(Call)],
             \A d \in Channels \ {c} : calls'[d] = calls[d]
      PROVE  TypeOK' /\ \A d \in Channels \ {c} : Same(d)
  BY <1>1, <1>2, <1>5, <1>9 DEF IInv, TypeOK, Same
<1>10. dart[c] \in DartObject
  BY <1>2
<1>11. CASE /\ e = Announcement
            /\ dart' = [dart EXCEPT ![c].phase = "subscribed"]
            /\ calls' = [calls EXCEPT ![c] = Append(@, "listen")]
  <2>1. dart[c].phase = "none"
    BY <1>3, <1>4, <1>11 DEF Announced
  <2>2. /\ calls[c] = <<>> /\ pipe[c] = <<Announcement>>
        /\ ~events[c].listening /\ events[c].phase = "idle"
    BY <1>1, <1>3, <2>1 DEF Announced
  <2>3. /\ calls'[c] = <<"listen">> /\ calls' \in [Channels -> Seq(Call)]
        /\ \A d \in Channels \ {c} : calls'[d] = calls[d]
    BY <1>2, <1>11, <2>2 DEF Call
  <2>4. /\ [dart[c] EXCEPT !.phase = "subscribed"] \in DartObject
        /\ dart' = [dart EXCEPT ![c] = [dart[c] EXCEPT !.phase = "subscribed"]]
        /\ dart'[c].phase = "subscribed"
    BY <1>2, <1>10, <1>11 DEF DartObject
  <2>5. pipe'[c] = <<>>
    BY <1>5, <2>2
  <2>6. Announced(c)'
    BY <2>4, <2>5 DEF Announced
  <2>7. Listens(c)'
    BY <1>1, <1>3, <2>1, <2>2, <2>3 DEF Listens
  <2>. QED
    BY <1>9, <2>3, <2>4, <2>6, <2>7
<1>12. CASE /\ e # Announcement /\ dart[c].phase = "subscribed"
            /\ dart' = [dart EXCEPT ![c].got = Append(@, e),
                                    ![c].state = IF posted[c][e].kind = "message" THEN @
                                                 ELSE posted[c][e].kind]
            /\ UNCHANGED calls
  <2>. DEFINE x == [dart[c] EXCEPT !.got = Append(@, e),
                                   !.state = IF posted[c][e].kind = "message" THEN @
                                             ELSE posted[c][e].kind]
  <2>1. posted[c][e].kind \in EventKind
    <3>1. posted[c] \in [DOMAIN posted[c] -> PostedEvent] /\ e \in DOMAIN posted[c]
      BY <1>2, <1>4, <1>12
    <3>2. posted[c][e] \in PostedEvent
      BY <3>1, Zenon
    <3>. QED
      BY <3>2 DEF PostedEvent
  <2>2. e \in Nat /\ Append(dart[c].got, e) \in Seq(Nat)
    BY <1>2, <1>4, <1>12 DEF DartObject
  <2>3. x \in DartObject /\ x.phase = "subscribed"
    BY <1>10, <1>12, <2>1, <2>2 DEF DartObject, EventKind
  <2>4. dart' = [dart EXCEPT ![c] = x]
    BY <1>2, <1>12
  <2>5. dart'[c].phase = "subscribed"
    BY <1>2, <2>3, <2>4
  <2>6. Announced(c)'
    BY <1>3, <1>4, <1>5, <1>12, <2>5 DEF Announced
  <2>7. Listens(c)'
    BY <1>1, <1>3, <1>12 DEF Listens
  <2>. QED
    BY <1>2, <1>9, <1>12, <2>3, <2>4, <2>6, <2>7
<1>13. CASE e # Announcement /\ dart[c].phase = "closed" /\ UNCHANGED <<dart, calls>>
  <2>1. dart' = [dart EXCEPT ![c] = dart[c]]
    BY <1>2, <1>13
  <2>2. Announced(c)'
    BY <1>3, <1>4, <1>5, <1>13 DEF Announced
  <2>3. Listens(c)'
    BY <1>13 DEF Listens
  <2>. QED
    BY <1>2, <1>9, <1>10, <1>13, <2>1, <2>2, <2>3
<1>. QED
  BY <1>11, <1>12, <1>13 DEF Receive

LEMMA SendKeepsInv ==
  ASSUME IInv, NEW c \in Channels, Send(c)
  PROVE  IInv'
<1>1. /\ dart[c].phase # "none"
      /\ calls' = [calls EXCEPT ![c] = Append(@, "send")]
      /\ UNCHANGED <<peer, observers, owner, native, events, posted, pipe, dart, answer>>
  BY DEF Send
<1>2. calls \in [Channels -> Seq(Call)]
  BY DEF IInv, TypeOK
<1>3. Numbered(c) /\ Announced(c) /\ Listens(c)
  BY DEF IInv, ChannelInv
<1>4. calls'[c] = Append(calls[c], "send") /\ calls' \in [Channels -> Seq(Call)]
  BY <1>1, <1>2 DEF Call
<1>5. TypeOK' /\ \A d \in Channels \ {c} : Same(d)
  BY <1>1, <1>2, <1>4 DEF IInv, TypeOK, Same
<1>6. Numbered(c)' /\ Announced(c)'
  BY <1>1, <1>3 DEF Numbered, Announced
<1>7. Listens(c)'
  <2>1. \A i \in DOMAIN calls'[c] :
          \/ i \in DOMAIN calls[c] /\ calls'[c][i] = calls[c][i]
          \/ calls'[c][i] = "send"
    BY <1>2, <1>4
  <2>. QED
    BY <1>1, <1>3, <2>1 DEF Listens
<1>. QED
  BY <1>1, <1>5, <1>6, <1>7, IsOwned, StepKeepsInv DEF ChannelInv

LEMMA CloseKeepsInv ==
  ASSUME IInv, NEW c \in Channels, Close(c)
  PROVE  IInv'
<1> DEFINE more == IF dart[c].phase = "subscribed" THEN <<"cancel", "close">> ELSE <<"close">>
<1>1. /\ dart[c].phase # "none"
      /\ dart' = [dart EXCEPT ![c].phase = "closed"]
      /\ calls' = [calls EXCEPT ![c] = @ \o more]
      /\ UNCHANGED <<peer, observers, owner, native, events, posted, pipe, answer>>
  BY DEF Close
<1>2. calls \in [Channels -> Seq(Call)] /\ dart \in [Channels -> DartObject]
  BY DEF IInv, TypeOK
<1>3. Numbered(c) /\ Announced(c)
  BY DEF IInv, ChannelInv
<1>4. more \in Seq(Call)
  <2>1. <<"cancel", "close">> \in Seq(Call)
    BY DEF Call
  <2>2. <<"close">> \in Seq(Call)
    BY DEF Call
  <2>. QED
    BY <2>1, <2>2
<1>5. calls' \in [Channels -> Seq(Call)]
  BY <1>1, <1>2, <1>4
<1>6. dart' \in [Channels -> DartObject] /\ dart'[c].phase = "closed"
  BY <1>1, <1>2 DEF DartObject
<1>7. TypeOK' /\ \A d \in Channels \ {c} : Same(d)
  BY <1>1, <1>2, <1>5, <1>6 DEF IInv, TypeOK, Same
<1>8. Numbered(c)'
  BY <1>1, <1>3 DEF Numbered
<1>9. Announced(c)' /\ Listens(c)'
  BY <1>1, <1>3, <1>6 DEF Announced, Listens
<1>. QED
  BY <1>1, <1>7, <1>8, <1>9, IsOwned, StepKeepsInv DEF ChannelInv

-----------------------------------------------------------------------------

LEMMA NextKeepsInv ==
  ASSUME IInv, [Next]_vars
  PROVE  IInv'
<1>1. CASE UNCHANGED vars
  <2>1. TypeOK' /\ \A d \in Channels : Same(d)
    BY <1>1 DEF IInv, TypeOK, vars, Same
  <2>2. Owned'
    BY <1>1 DEF IInv, Owned, vars
  <2>. QED
    BY <2>1, <2>2, ChannelKept DEF IInv
<1>2. ASSUME NEW c \in Channels, NEW state \in EventKind, OnStateChange(c, state)
      PROVE  IInv'
  <2>1. state \in NativeState /\ native' = [native EXCEPT ![c] = state] /\ Post(c, state)
    BY <1>2 DEF OnStateChange, NativeState
  <2>. QED
    BY <2>1, PostKeepsInv DEF IInv, TypeOK
<1>3. ASSUME NEW c \in Channels, OnMessage(c)
      PROVE  IInv'
  BY <1>3, PostKeepsInv DEF OnMessage, IInv, TypeOK, EventKind
<1>4. ASSUME NEW c \in Channels, PlatformStep(c)
      PROVE  IInv'
  BY <1>4, OnListenKeepsInv, SendQueuedKeepsInv, ListenGoesOnKeepsInv, OnCancelKeepsInv,
     SendAndCloseKeepInv DEF PlatformStep
<1>. QED
  BY <1>1, <1>2, <1>3, <1>4, PeerStepKeepsInv, NewChannelKeepsInv, SuccessReturnsKeepsInv,
     ReceiveKeepsInv, SendKeepsInv, CloseKeepsInv DEF Next

LEMMA Invariance == Spec => []IInv
<1>. QED
  BY InitInv, NextKeepsInv, PTL DEF Spec

\* The types of the tables, of the event channels and of Dart's objects, for any
\* peer connections, channels and bound.
THEOREM TypeCorrect == Spec => []TypeOK
<1>1. IInv => TypeOK
  BY DEF IInv
<1>. QED
  BY <1>1, Invariance, PTL

-----------------------------------------------------------------------------
(* The ids are a handle table *)

Dead == {c \in Channels : owner[c] # NoPeer} \ HandlesOf

LEMMA LiveHandles ==
  ASSUME IInv
  PROVE  HandlesOf = {c \in Channels : Found(c)}
BY DEF IInv, TypeOK, HandlesOf, Found

LEMMA StepRefines ==
  ASSUME IInv, IInv', Next
  PROVE  Table!Next \/ UNCHANGED <<HandlesOf, Dead, answer>>
<1>1. /\ owner \in [Channels -> Peers \cup {NoPeer}] /\ peer \in [Peers -> PeerState]
      /\ observers \subseteq Channels /\ Owned
  BY DEF IInv, TypeOK
<1>2. ASSUME UNCHANGED <<peer, observers, owner, answer>>
      PROVE  UNCHANGED <<HandlesOf, Dead, answer>>
  BY <1>2 DEF HandlesOf, Dead, Live
<1>3. ASSUME NEW p \in Peers, CreatePeerConnection(p)
      PROVE  UNCHANGED <<HandlesOf, Dead, answer>>
  <2>1. peer[p] = "none" /\ peer' = [peer EXCEPT ![p] = "live"]
        /\ UNCHANGED <<observers, owner, answer>>
    BY <1>3 DEF CreatePeerConnection
  <2>2. ASSUME NEW c \in Channels
        PROVE  Live(owner[c])' <=> Live(owner[c])
    BY <1>1, <2>1 DEF Live, Owned
  <2>3. HandlesOf' = HandlesOf
    BY <1>1, <2>1, <2>2 DEF HandlesOf
  <2>. QED
    BY <2>1, <2>3 DEF Dead
<1>4. ASSUME NEW p \in Peers, PeerConnectionClose(p)
      PROVE  Table!Next
  <2> DEFINE gone == {c \in HandlesOf : owner[c] = p}
  <2>1. peer' = [peer EXCEPT ![p] = "closed"] /\ UNCHANGED <<observers, owner, answer>>
    BY <1>4 DEF PeerConnectionClose
  <2>2. ASSUME NEW c \in Channels
        PROVE  Live(owner[c])' <=> Live(owner[c]) /\ owner[c] # p
    BY <1>1, <2>1 DEF Live
  <2>3. HandlesOf' = HandlesOf \ gone
    BY <1>1, <2>1, <2>2 DEF HandlesOf
  <2>4. Dead' = Dead \cup gone
    BY <1>1, <2>1, <2>3 DEF Dead, HandlesOf, Live
  <2>5. Table!CloseAll(gone)
    BY <2>1, <2>3, <2>4 DEF Table!CloseAll, Dead
  <2>6. gone \in SUBSET HandlesOf
    OBVIOUS
  <2> HIDE DEF gone
  <2>7. \E g \in SUBSET HandlesOf : Table!CloseAll(g)
    BY <2>5, <2>6 DEF Table!CloseAll
  <2>. QED
    BY <2>7 DEF Table!Next
<1>5. ASSUME NEW p \in Peers, NEW c \in Channels, CreateDataChannel(p, c) \/ OnDataChannel(p, c)
      PROVE  Table!Next
  <2>1. /\ Live(p) /\ owner[c] = NoPeer
        /\ owner' = [owner EXCEPT ![c] = p]
        /\ observers' = observers \cup {c}
        /\ UNCHANGED <<peer, answer>>
    BY <1>5 DEF CreateDataChannel, OnDataChannel, Insert
  <2>2. HandlesOf' = HandlesOf \cup {c} /\ c \notin HandlesOf
    BY <1>1, <2>1, DataChannelsAssumption DEF HandlesOf, Live
  <2>3. Dead' = Dead /\ c \notin Dead
    BY <1>1, <2>1, <2>2, DataChannelsAssumption DEF Dead
  <2>4. Table!Open(c)
    BY <2>1, <2>2, <2>3 DEF Table!Open, Dead
  <2>. QED
    BY <2>4 DEF Table!Next
<1>6. ASSUME NEW c \in Channels, NEW call \in Call, Takes(c, call), UNCHANGED <<peer, observers, owner>>,
             answer' = [answer EXCEPT ![c] = IF Found(c) THEN "ok" ELSE "error"]
      PROVE  Table!Next
  <2>1. UNCHANGED <<HandlesOf, Dead>>
    BY <1>6 DEF HandlesOf, Dead, Live
  <2>2. c \in HandlesOf \cup Dead /\ (c \in HandlesOf <=> Found(c))
    BY <1>6, TakesFacts, LiveHandles DEF Dead
  <2>3. Table!Use(c)
    BY <1>6, <2>1, <2>2 DEF Table!Use, Dead
  <2>. QED
    BY <2>3 DEF Table!Next
<1>7. ASSUME NEW c \in Channels, DataChannelSend(c)
      PROVE  Table!Next
  BY <1>6, <1>7 DEF DataChannelSend, Call
<1>8. ASSUME NEW c \in Channels, DataChannelClose(c)
      PROVE  Table!Next
  <2>1. Takes(c, "close") /\ "close" \in Call /\ UNCHANGED <<peer, owner>>
    BY <1>8 DEF DataChannelClose, Call
  <2>2. CASE ~Found(c)
    BY <1>6, <1>8, <2>1, <2>2 DEF DataChannelClose
  <2>3. CASE Found(c)
    <3>1. observers' = observers \ {c} /\ answer' = [answer EXCEPT ![c] = "ok"]
      BY <1>8, <2>3 DEF DataChannelClose
    <3>2. c \in HandlesOf
      BY <2>3, LiveHandles
    <3>3. HandlesOf' = HandlesOf \ {c}
      BY <2>1, <3>1 DEF HandlesOf, Live
    <3>4. Dead' = Dead \cup {c}
      BY <1>1, <2>1, <3>2, <3>3 DEF Dead, HandlesOf, Live
    <3>5. Table!Close(c)
      BY <3>1, <3>2, <3>3, <3>4 DEF Table!Close, Dead
    <3>. QED
      BY <3>5 DEF Table!Next
  <2>. QED
    BY <2>2, <2>3
<1>9. ASSUME NEW c \in Channels, PlatformStep(c)
      PROVE  Table!Next \/ UNCHANGED <<HandlesOf, Dead, answer>>
  BY <1>2, <1>7, <1>8, <1>9 DEF PlatformStep, OnListen, SendQueued, ListenGoesOn, OnCancel
<1>10. ASSUME NEW c \in Channels,
              \/ \E state \in EventKind : OnStateChange(c, state)
              \/ OnMessage(c) \/ SuccessReturns(c) \/ Receive(c) \/ Send(c) \/ Close(c)
       PROVE  UNCHANGED <<HandlesOf, Dead, answer>>
  BY <1>2, <1>10 DEF OnStateChange, OnMessage, Post, SuccessReturns, Receive, Send, Close
<1>. QED
  BY <1>3, <1>4, <1>5, <1>9, <1>10 DEF Next

\* For any peer connections and channels, the ids of data channels are a handle
\* table: they work from their announcement to their close or that of their peer
\* connection, and never again.
THEOREM ChannelsImplementHandles == Spec => ChannelsAreHandles
<1>1. Init => Table!Init
  BY DEF Init, Table!Init, HandlesOf
<1>2. ASSUME IInv, IInv', [Next]_vars
      PROVE  [Table!Next]_Table!vars
  <2>1. CASE UNCHANGED vars
    BY <2>1 DEF vars, Table!vars, HandlesOf, Live
  <2>2. CASE Next
    BY <2>2, <1>2, StepRefines DEF Table!vars, Dead
  <2>. QED
    BY <1>2, <2>1, <2>2
<1>. QED
  BY <1>1, <1>2, Invariance, PTL DEF Spec, Table!Spec, ChannelsAreHandles

-----------------------------------------------------------------------------
(* Faithful sequences *)

\* An event that is posted comes last in both.
LEMMA FaithfulAppends ==
  ASSUME NEW log \in Seq(PostedEvent), NEW s \in Seq(Nat), NEW r \in PostedEvent,
         Faithful(s, log)
  PROVE  Faithful(Append(s, Len(log) + 1), Append(log, r))
<1> DEFINE n == Len(log) + 1
           t == Append(s, n)
           more == Append(log, r)
<1>1. /\ n \in Nat \ {0} /\ n \notin DOMAIN log
      /\ DOMAIN log \subseteq Nat /\ \A e \in DOMAIN log : e < n
      /\ DOMAIN more = DOMAIN log \cup {n}
      /\ \A e \in DOMAIN log : more[e] = log[e]
  OBVIOUS
<1>2. /\ DOMAIN s = 1 .. Len(s) /\ Len(s) \in Nat
      /\ DOMAIN t = DOMAIN s \cup {Len(s) + 1}
      /\ \A i \in DOMAIN s : t[i] = s[i]
      /\ t[Len(s) + 1] = n
  BY <1>1
<1>3. \A e \in DOMAIN log \cup {Announcement} : Unraced(more, e) <=> Unraced(log, e)
  BY <1>1 DEF Unraced, Announcement
<1>. HIDE DEF n, t, more
<1>4. \A i \in DOMAIN t : t[i] \in DOMAIN more \cup {Announcement}
  BY <1>1, <1>2 DEF Faithful
<1>5. \A e \in DOMAIN more : Unraced(more, e) => \E i \in DOMAIN t : t[i] = e
  BY <1>1, <1>2, <1>3 DEF Faithful
<1>6. ASSUME NEW i \in DOMAIN t, NEW j \in DOMAIN t,
             i < j, Unraced(more, t[i]), Unraced(more, t[j])
      PROVE  t[i] < t[j]
  <2>1. i \in DOMAIN s /\ t[i] = s[i] /\ s[i] \in DOMAIN log \cup {Announcement}
    BY <1>2, <1>6 DEF Faithful
  <2>2. Unraced(log, s[i])
    BY <1>3, <1>6, <2>1
  <2>3. CASE j = Len(s) + 1
    BY <1>1, <1>2, <2>1, <2>2, <2>3 DEF Unraced
  <2>4. CASE j \in DOMAIN s
    BY <1>2, <1>3, <1>6, <2>1, <2>2, <2>4 DEF Faithful
  <2>. QED
    BY <1>2, <2>3, <2>4
<1>. QED
  BY <1>4, <1>5, <1>6 DEF Faithful, n, t, more

\* The elements of two sequences, one after the other, and of three.
LEMMA TwoParts ==
  ASSUME NEW s \in Seq(Nat), NEW t \in Seq(Nat)
  PROVE  /\ DOMAIN s = 1 .. Len(s) /\ DOMAIN t = 1 .. Len(t)
         /\ Len(s) \in Nat /\ Len(t) \in Nat
         /\ s \o t \in Seq(Nat) /\ Len(s \o t) = Len(s) + Len(t)
         /\ DOMAIN (s \o t) = 1 .. Len(s) + Len(t)
         /\ \A i \in DOMAIN s : (s \o t)[i] = s[i]
         /\ \A i \in DOMAIN t : (s \o t)[Len(s) + i] = t[i]
         /\ \A k \in DOMAIN (s \o t) :
              k \in DOMAIN s \/ \E i \in DOMAIN t : k = Len(s) + i
<1>1. ASSUME NEW k \in DOMAIN (s \o t), k \notin DOMAIN s
      PROVE  \E i \in DOMAIN t : k = Len(s) + i
  <2>1. k - Len(s) \in DOMAIN t /\ k = Len(s) + (k - Len(s))
    BY <1>1
  <2>. QED
    BY <2>1
<1>. QED
  BY <1>1

LEMMA ThreeParts ==
  ASSUME NEW s \in Seq(Nat), NEW w \in Seq(Nat), NEW t \in Seq(Nat)
  PROVE  LET long == (s \o w) \o t IN
         /\ DOMAIN long = 1 .. Len(s) + Len(w) + Len(t)
         /\ \A i \in DOMAIN s : long[i] = s[i]
         /\ \A i \in DOMAIN w : long[Len(s) + i] = w[i]
         /\ \A i \in DOMAIN t : long[Len(s) + Len(w) + i] = t[i]
         /\ \A k \in DOMAIN long :
              \/ k \in DOMAIN s
              \/ \E i \in DOMAIN w : k = Len(s) + i
              \/ \E i \in DOMAIN t : k = Len(s) + Len(w) + i
<1> DEFINE u == s \o w
<1>1. /\ DOMAIN s = 1 .. Len(s) /\ DOMAIN w = 1 .. Len(w) /\ DOMAIN t = 1 .. Len(t)
      /\ Len(s) \in Nat /\ Len(w) \in Nat /\ Len(t) \in Nat
  OBVIOUS
<1>2. /\ u \in Seq(Nat) /\ Len(u) = Len(s) + Len(w) /\ DOMAIN u = 1 .. Len(s) + Len(w)
      /\ \A i \in DOMAIN s : u[i] = s[i]
      /\ \A i \in DOMAIN w : u[Len(s) + i] = w[i]
      /\ \A k \in DOMAIN u : k \in DOMAIN s \/ \E i \in DOMAIN w : k = Len(s) + i
  BY TwoParts
<1>. HIDE DEF u
<1>3. /\ DOMAIN (u \o t) = 1 .. Len(u) + Len(t)
      /\ \A i \in DOMAIN u : (u \o t)[i] = u[i]
      /\ \A i \in DOMAIN t : (u \o t)[Len(u) + i] = t[i]
      /\ \A k \in DOMAIN (u \o t) : k \in DOMAIN u \/ \E i \in DOMAIN t : k = Len(u) + i
  BY <1>2, TwoParts
<1>4. \A i \in DOMAIN s : (u \o t)[i] = s[i]
  BY <1>1, <1>2, <1>3
<1>5. \A i \in DOMAIN w : (u \o t)[Len(s) + i] = w[i]
  BY <1>1, <1>2, <1>3
<1>. QED
  BY <1>2, <1>3, <1>4, <1>5 DEF u

\* A stretch of raced events makes no difference: out of s \o w \o t ...
LEMMA FaithfulWithout ==
  ASSUME NEW log \in Seq(PostedEvent),
         NEW s \in Seq(Nat), NEW w \in Seq(Nat), NEW t \in Seq(Nat),
         \A i \in DOMAIN w : ~Unraced(log, w[i]),
         Faithful((s \o w) \o t, log)
  PROVE  Faithful(s \o t, log)
<1> DEFINE long == (s \o w) \o t
           short == s \o t
           At(i) == IF i \in DOMAIN s THEN i ELSE i + Len(w)
<1>1. /\ DOMAIN s = 1 .. Len(s) /\ DOMAIN w = 1 .. Len(w) /\ DOMAIN t = 1 .. Len(t)
      /\ Len(s) \in Nat /\ Len(w) \in Nat /\ Len(t) \in Nat
  OBVIOUS
<1>2. /\ DOMAIN long = 1 .. Len(s) + Len(w) + Len(t)
      /\ \A i \in DOMAIN s : long[i] = s[i]
      /\ \A i \in DOMAIN w : long[Len(s) + i] = w[i]
      /\ \A i \in DOMAIN t : long[Len(s) + Len(w) + i] = t[i]
      /\ \A k \in DOMAIN long :
           \/ k \in DOMAIN s
           \/ \E i \in DOMAIN w : k = Len(s) + i
           \/ \E i \in DOMAIN t : k = Len(s) + Len(w) + i
  BY ThreeParts
<1>3. /\ DOMAIN short = 1 .. Len(s) + Len(t)
      /\ \A i \in DOMAIN s : short[i] = s[i]
      /\ \A i \in DOMAIN t : short[Len(s) + i] = t[i]
      /\ \A k \in DOMAIN short : k \in DOMAIN s \/ \E i \in DOMAIN t : k = Len(s) + i
  BY TwoParts
<1>. HIDE DEF long, short
<1>5. ASSUME NEW k \in DOMAIN short
      PROVE  At(k) \in DOMAIN long /\ long[At(k)] = short[k]
  <2>1. CASE k \in DOMAIN s
    BY <1>1, <1>2, <1>3, <2>1
  <2>2. ASSUME NEW i \in DOMAIN t, k = Len(s) + i
        PROVE  At(k) \in DOMAIN long /\ long[At(k)] = short[k]
    <3>1. At(k) = Len(s) + Len(w) + i
      BY <1>1, <2>2
    <3>2. Len(s) + Len(w) + i \in DOMAIN long
      BY <1>1, <1>2
    <3>. QED
      BY <1>2, <1>3, <2>2, <3>1, <3>2
  <2>. QED
    BY <1>3, <2>1, <2>2
<1>6. \A i, j \in DOMAIN short : i < j => At(i) < At(j)
  BY <1>1, <1>3
<1>7. \A k \in DOMAIN long : Unraced(log, long[k]) => \E i \in DOMAIN short : short[i] = long[k]
  <2> SUFFICES ASSUME NEW k \in DOMAIN long, Unraced(log, long[k])
               PROVE  \E i \in DOMAIN short : short[i] = long[k]
    OBVIOUS
  <2>1. CASE k \in DOMAIN s
    <3>1. k \in DOMAIN short /\ short[k] = long[k]
      BY <1>1, <1>2, <1>3, <2>1
    <3>. QED
      BY <3>1
  <2>2. ASSUME NEW i \in DOMAIN w, k = Len(s) + i
        PROVE  FALSE
    BY <1>2, <2>2
  <2>3. ASSUME NEW i \in DOMAIN t, k = Len(s) + Len(w) + i
        PROVE  \E j \in DOMAIN short : short[j] = long[k]
    <3>1. Len(s) + i \in DOMAIN short /\ short[Len(s) + i] = long[k]
      BY <1>1, <1>2, <1>3, <2>3
    <3>. QED
      BY <3>1
  <2>. QED
    BY <1>2, <2>1, <2>2, <2>3
<1>. HIDE DEF At
<1>8. \A i \in DOMAIN short : short[i] \in DOMAIN log \cup {Announcement}
  BY <1>5 DEF Faithful, long
<1>9. \A e \in DOMAIN log : Unraced(log, e) => \E i \in DOMAIN short : short[i] = e
  <2> SUFFICES ASSUME NEW e \in DOMAIN log, Unraced(log, e)
               PROVE  \E i \in DOMAIN short : short[i] = e
    OBVIOUS
  <2>1. PICK k \in DOMAIN long : long[k] = e
    BY DEF Faithful, long
  <2>. QED
    BY <1>7, <2>1
<1>10. ASSUME NEW i \in DOMAIN short, NEW j \in DOMAIN short,
              i < j, Unraced(log, short[i]), Unraced(log, short[j])
       PROVE  short[i] < short[j]
  <2>1. /\ At(i) \in DOMAIN long /\ At(j) \in DOMAIN long /\ At(i) < At(j)
        /\ long[At(i)] = short[i] /\ long[At(j)] = short[j]
    BY <1>5, <1>6, <1>10
  <2>. QED
    BY <1>10, <2>1 DEF Faithful, long
<1>. QED
  BY <1>8, <1>9, <1>10 DEF Faithful, short

\* ... or into s \o t.
LEMMA FaithfulWith ==
  ASSUME NEW log \in Seq(PostedEvent),
         NEW s \in Seq(Nat), NEW w \in Seq(Nat), NEW t \in Seq(Nat),
         \A i \in DOMAIN w : w[i] \in DOMAIN log \cup {Announcement} /\ ~Unraced(log, w[i]),
         Faithful(s \o t, log)
  PROVE  Faithful((s \o w) \o t, log)
<1> DEFINE long == (s \o w) \o t
           short == s \o t
           From(k) == IF k <= Len(s) THEN k ELSE k - Len(w)
<1>1. /\ DOMAIN s = 1 .. Len(s) /\ DOMAIN w = 1 .. Len(w) /\ DOMAIN t = 1 .. Len(t)
      /\ Len(s) \in Nat /\ Len(w) \in Nat /\ Len(t) \in Nat
  OBVIOUS
<1>2. /\ DOMAIN long = 1 .. Len(s) + Len(w) + Len(t)
      /\ \A i \in DOMAIN s : long[i] = s[i]
      /\ \A i \in DOMAIN w : long[Len(s) + i] = w[i]
      /\ \A i \in DOMAIN t : long[Len(s) + Len(w) + i] = t[i]
      /\ \A k \in DOMAIN long :
           \/ k \in DOMAIN s
           \/ \E i \in DOMAIN w : k = Len(s) + i
           \/ \E i \in DOMAIN t : k = Len(s) + Len(w) + i
  BY ThreeParts
<1>3. /\ DOMAIN short = 1 .. Len(s) + Len(t)
      /\ \A i \in DOMAIN s : short[i] = s[i]
      /\ \A i \in DOMAIN t : short[Len(s) + i] = t[i]
      /\ \A k \in DOMAIN short : k \in DOMAIN s \/ \E i \in DOMAIN t : k = Len(s) + i
  BY TwoParts
<1>. HIDE DEF long, short
<1>5. ASSUME NEW k \in DOMAIN long
      PROVE  \/ /\ k > Len(s) /\ k <= Len(s) + Len(w)
                /\ long[k] \in DOMAIN log \cup {Announcement} /\ ~Unraced(log, long[k])
             \/ /\ k <= Len(s) \/ k > Len(s) + Len(w)
                /\ From(k) \in DOMAIN short /\ short[From(k)] = long[k]
  <2>1. CASE k \in DOMAIN s
    BY <1>1, <1>2, <1>3, <2>1
  <2>2. ASSUME NEW i \in DOMAIN w, k = Len(s) + i
        PROVE  /\ k > Len(s) /\ k <= Len(s) + Len(w)
               /\ long[k] \in DOMAIN log \cup {Announcement} /\ ~Unraced(log, long[k])
    BY <1>1, <1>2, <2>2
  <2>3. ASSUME NEW i \in DOMAIN t, k = Len(s) + Len(w) + i
        PROVE  /\ k > Len(s) + Len(w)
               /\ From(k) \in DOMAIN short /\ short[From(k)] = long[k]
    <3>1. From(k) = Len(s) + i /\ k > Len(s) + Len(w)
      BY <1>1, <2>3
    <3>2. Len(s) + i \in DOMAIN short
      BY <1>1, <1>3
    <3>. QED
      BY <1>2, <1>3, <2>3, <3>1, <3>2
  <2>. HIDE DEF From
  <2>. QED
    BY <1>2, <2>1, <2>2, <2>3
<1>6. ASSUME NEW i \in DOMAIN short
      PROVE  \E k \in DOMAIN long : long[k] = short[i]
  <2>1. CASE i \in DOMAIN s
    <3>1. i \in DOMAIN long /\ long[i] = short[i]
      BY <1>1, <1>2, <1>3, <2>1
    <3>. QED
      BY <3>1
  <2>2. ASSUME NEW j \in DOMAIN t, i = Len(s) + j
        PROVE  \E k \in DOMAIN long : long[k] = short[i]
    <3>1. Len(s) + Len(w) + j \in DOMAIN long /\ long[Len(s) + Len(w) + j] = short[i]
      BY <1>1, <1>2, <1>3, <2>2
    <3>. QED
      BY <3>1
  <2>. QED
    BY <1>3, <2>1, <2>2
<1>7. \A k \in DOMAIN long : long[k] \in DOMAIN log \cup {Announcement}
  BY <1>5 DEF Faithful, short
<1>8. \A e \in DOMAIN log : Unraced(log, e) => \E k \in DOMAIN long : long[k] = e
  <2> SUFFICES ASSUME NEW e \in DOMAIN log, Unraced(log, e)
               PROVE  \E k \in DOMAIN long : long[k] = e
    OBVIOUS
  <2>1. PICK i \in DOMAIN short : short[i] = e
    BY DEF Faithful, short
  <2>. QED
    BY <1>6, <2>1
<1>9. ASSUME NEW i \in DOMAIN long, NEW j \in DOMAIN long,
             i < j, Unraced(log, long[i]), Unraced(log, long[j])
      PROVE  long[i] < long[j]
  <2>1. /\ From(i) \in DOMAIN short /\ short[From(i)] = long[i]
        /\ From(j) \in DOMAIN short /\ short[From(j)] = long[j]
        /\ i <= Len(s) \/ i > Len(s) + Len(w)
        /\ j <= Len(s) \/ j > Len(s) + Len(w)
    BY <1>5, <1>9
  <2>2. From(i) < From(j)
    BY <1>1, <1>2, <1>9, <2>1
  <2>. HIDE DEF From
  <2>. QED
    BY <1>9, <2>1, <2>2 DEF Faithful, short
<1>. QED
  BY <1>7, <1>8, <1>9 DEF Faithful, long

\* Events that become raced are asked for no more.
LEMMA FaithfulRaces ==
  ASSUME NEW log, NEW raced, NEW s, Faithful(s, log),
         DOMAIN raced = DOMAIN log,
         \A e \in DOMAIN log : Unraced(raced, e) => Unraced(log, e)
  PROVE  Faithful(s, raced)
BY DEF Faithful, Unraced

-----------------------------------------------------------------------------
(* Every step keeps the streams faithful *)

\* What a stream is made of.
Before(c) == dart[c].got \o pipe[c]

LEMMA Parts ==
  ASSUME IInv, NEW c \in Channels
  PROVE  /\ dart[c].got \in Seq(Nat) /\ pipe[c] \in Seq(Nat) /\ Before(c) \in Seq(Nat)
         /\ Waiting(events[c]) \in Seq(Nat) /\ Posted(events[c]) \in Seq(Nat)
         /\ posted[c] \in Seq(PostedEvent) /\ DOMAIN posted[c] \subseteq Nat
         /\ Stream(c) = (Before(c) \o Waiting(events[c])) \o Posted(events[c])
<1>1. dart[c].got \in Seq(Nat) /\ pipe[c] \in Seq(Nat) /\ posted[c] \in Seq(PostedEvent)
  BY Types
<1>2. Waiting(events[c]) \in Seq(Nat)
  <2>1. /\ events[c].queue \in Seq(Nat) /\ events[c].next \in Nat
        /\ events[c].next \in 1 .. Len(events[c].queue) + 1
    BY Types DEF IInv, ChannelInv, Numbered
  <2>2. SubSeq(events[c].queue, events[c].next, Len(events[c].queue)) \in Seq(Nat)
    BY <2>1
  <2>3. <<>> \in Seq(Nat)
    OBVIOUS
  <2>. QED
    BY <2>2, <2>3 DEF Waiting
<1>3. Posted(events[c]) \in Seq(Nat)
  BY Types DEF Posted
<1>. QED
  BY <1>1, <1>2, <1>3 DEF Stream, Before

\* A step on one channel.
LEMMA StepKeepsStreams ==
  ASSUME StreamInv, NEW c \in Channels,
         \A d \in Channels \ {c} : Same(d),
         dart'[c].phase # "closed" => Faithful(Stream(c), posted[c])'
  PROVE  StreamInv'
<1>1. ASSUME NEW d \in Channels, d # c, dart'[d].phase # "closed"
      PROVE  Faithful(Stream(d), posted[d])'
  BY <1>1 DEF StreamInv, Same, Stream
<1>. QED
  BY <1>1 DEF StreamInv

LEMMA SameKeepsStreams ==
  ASSUME StreamInv, UNCHANGED <<events, posted, pipe, dart>>
  PROVE  StreamInv'
BY DEF StreamInv, Stream

LEMMA NewChannelKeepsStreams ==
  ASSUME IInv, StreamInv, NEW p \in Peers, NEW c \in Channels,
         CreateDataChannel(p, c) \/ OnDataChannel(p, c)
  PROVE  StreamInv'
<1>1. /\ owner[c] = NoPeer
      /\ pipe' = [pipe EXCEPT ![c] = Append(@, Announcement)]
      /\ UNCHANGED <<events, posted, calls>>
      /\ dart' = dart \/ dart' = [dart EXCEPT ![c].state = "open"]
  BY DEF CreateDataChannel, OnDataChannel, Insert
<1>2. /\ events[c] = NewChannel /\ pipe[c] = <<>> /\ posted[c] = <<>>
      /\ dart[c].phase = "none"
      /\ pipe \in [Channels -> Seq(Nat)] /\ dart \in [Channels -> DartObject]
  BY <1>1 DEF IInv, TypeOK, Owned
<1>3. \A d \in Channels \ {c} : Same(d)
  BY <1>1, <1>2 DEF Same
<1>4. dart[c].got = <<>> /\ dart'[c].got = dart[c].got
  <2>1. dart[c].got = <<>>
    BY <1>2 DEF IInv, ChannelInv, Announced
  <2>. QED
    BY <1>1, <1>2, <2>1 DEF DartObject
<1>5. pipe'[c] = <<Announcement>>
  BY <1>1, <1>2
<1>6. Waiting(NewChannel) = <<>> /\ Posted(NewChannel) = <<>>
  BY DEF Waiting, Posted, NewChannel
<1>7. Stream(c)' = <<Announcement>>
  <2>1. Stream(c)' = ((<<>> \o <<Announcement>>) \o <<>>) \o <<>>
    BY <1>1, <1>2, <1>4, <1>5, <1>6 DEF Stream
  <2>. QED
    BY <2>1
<1>8. Faithful(<<Announcement>>, <<>>)
  BY DEF Faithful, Unraced
<1>. QED
  BY <1>1, <1>2, <1>3, <1>7, <1>8, StepKeepsStreams

LEMMA PostKeepsStreams ==
  ASSUME IInv, StreamInv, NEW c \in Channels, NEW kind \in EventKind, Post(c, kind)
  PROVE  StreamInv'
<1> DEFINE n == Len(posted[c]) + 1
           r == [kind |-> kind, raced |-> events[c].phase # "idle"]
           s == Before(c) \o Waiting(events[c])
<1>1. /\ events[c].post = <<>>
      /\ posted' = [posted EXCEPT ![c] = Append(@, r)]
      /\ events' = [events EXCEPT ![c] = SuccessStarts(@, n)]
      /\ UNCHANGED <<pipe, calls, dart>>
  BY DEF Post, SignalingIsIdle
<1>2. /\ events \in [Channels -> Channel(Nat)] /\ posted \in [Channels -> Seq(PostedEvent)]
      /\ posted[c] \in Seq(PostedEvent)
      /\ n \in Nat /\ r \in PostedEvent
  <2>1. events \in [Channels -> Channel(Nat)] /\ posted \in [Channels -> Seq(PostedEvent)]
    BY DEF IInv, TypeOK
  <2>. QED
    <3>1. posted[c] \in Seq(PostedEvent)
      BY <2>1
    <3>2. n \in Nat
      BY <3>1
    <3>3. r \in PostedEvent
      BY DEF PostedEvent
    <3>. QED
      BY <2>1, <3>1, <3>2, <3>3
<1>3. \A d \in Channels \ {c} : Same(d)
  BY <1>1, <1>2 DEF Same
<1>4. /\ Waiting(events'[c]) = Waiting(events[c])
      /\ events'[c].post = [event |-> n, listening |-> events[c].listening]
  BY <1>1, <1>2 DEF SuccessStarts, Channel, Waiting
<1>5. Posted(events[c]) = <<>> /\ Posted(events'[c]) = <<n>>
  BY <1>1, <1>4, RecordIsNotEmpty DEF Posted
<1>6. s \in Seq(Nat)
  BY Parts
<1>7. Stream(c) = s /\ Stream(c)' = Append(s, n)
  <2>1. Stream(c) = s \o <<>>
    BY <1>5, Parts
  <2>2. Stream(c)' = s \o <<n>>
    BY <1>1, <1>4, <1>5 DEF Stream, Before
  <2>. QED
    BY <1>2, <1>6, <2>1, <2>2, ConcatEmptySeq, AppendIsConcat
<1>8. posted'[c] = Append(posted[c], r)
  BY <1>1, <1>2
<1>9. ASSUME dart'[c].phase # "closed"
      PROVE  Faithful(Append(s, n), Append(posted[c], r))
  <2>1. Faithful(s, posted[c])
    BY <1>1, <1>7, <1>9 DEF StreamInv
  <2>. HIDE DEF s, r
  <2>. QED
    BY <1>2, <1>6, <2>1, FaithfulAppends
<1>. QED
  BY <1>3, <1>7, <1>8, <1>9, StepKeepsStreams

\* What the provers need to know of sequences of numbers.
LEMMA Associative ==
  ASSUME NEW s \in Seq(Nat), NEW t \in Seq(Nat), NEW u \in Seq(Nat)
  PROVE  (s \o t) \o u = s \o (t \o u)
BY ConcatAssociative

LEMMA AppendMoves ==
  ASSUME NEW s \in Seq(Nat), NEW t \in Seq(Nat), NEW e \in Nat
  PROVE  /\ s \o Append(t, e) = (s \o t) \o <<e>>
         /\ Append(s, e) \o t = s \o (<<e>> \o t)
<1>1. <<e>> \in Seq(Nat)
  OBVIOUS
<1>2. Append(s, e) = s \o <<e>> /\ Append(t, e) = t \o <<e>>
  BY AppendIsConcat
<1>3. (s \o t) \o <<e>> = s \o (t \o <<e>>)
  BY <1>1, Associative
<1>4. (s \o <<e>>) \o t = s \o (<<e>> \o t)
  BY <1>1, Associative
<1>. QED
  BY <1>2, <1>3, <1>4

\* What waits grows by an event whose Success read the flag before onListen.
LEMMA SubSeqOfAppend ==
  ASSUME NEW q \in Seq(Nat), NEW e \in Nat, NEW m \in 1 .. Len(q) + 1
  PROVE  SubSeq(Append(q, e), m, Len(Append(q, e))) = Append(SubSeq(q, m, Len(q)), e)
<1> DEFINE a == Append(q, e)
<1>1. /\ a \in Seq(Nat) /\ Len(a) = Len(q) + 1 /\ Len(q) \in Nat
      /\ a[Len(q) + 1] = e /\ a = q \o <<e>> /\ <<e>> \in Seq(Nat)
  BY AppendProperties, AppendIsConcat
<1>2. SubSeq(a, m, Len(q)) = SubSeq(q, m, Len(q))
  <2>1. CASE m \in 1 .. Len(q)
    BY <1>1, <2>1, SubSeqOfConcat1
  <2>2. CASE m = Len(q) + 1
    BY <1>1, <2>2, SubSeqEmpty
  <2>. QED
    BY <1>1, <2>1, <2>2
<1>3. SubSeq(q, m, Len(q)) \in Seq(Nat)
  OBVIOUS
<1>. HIDE DEF a
<1>4. SubSeq(a, m, Len(a)) = SubSeq(a, m, Len(q)) \o <<e>>
  <2>1. /\ m \in 1 .. Len(a) /\ Len(a) \in m .. Len(a) /\ Len(a) - 1 = Len(q)
        /\ a[Len(a)] = e
    BY <1>1
  <2>. QED
    BY <1>1, <2>1, SubSeqRecursiveSecond
<1>. QED
  BY <1>2, <1>3, <1>4, AppendIsConcat DEF a

LEMMA SuccessReturnsKeepsStreams ==
  ASSUME IInv, StreamInv, NEW c \in Channels, SuccessReturns(c)
  PROVE  StreamInv'
<1> DEFINE e == events[c].post.event
           b == Before(c)
           w == Waiting(events[c])
<1>1. /\ events[c].post # <<>>
      /\ pipe' = [pipe EXCEPT ![c] = @ \o SentAtOnce(events[c])]
      /\ events' = [events EXCEPT ![c] = SuccessEnds(@)]
      /\ UNCHANGED <<posted, calls, dart>>
  BY DEF SuccessReturns
<1>2. pipe \in [Channels -> Seq(Nat)] /\ events \in [Channels -> Channel(Nat)]
  BY DEF IInv, TypeOK
<1>3. Numbered(c) /\ Listens(c)
  BY DEF IInv, ChannelInv
<1>4. /\ e \in Nat /\ e \in DOMAIN posted[c]
      /\ events[c].queue \in Seq(Nat)
      /\ \A i \in DOMAIN events[c].queue : events[c].queue[i] \in DOMAIN posted[c]
      /\ events[c].next \in 1 .. Len(events[c].queue) + 1
      /\ events[c].phase \in ListenPhase
  BY <1>1, <1>3, Types DEF Numbered
<1>5. /\ events'[c].post = <<>>
      /\ events'[c].next = events[c].next /\ events'[c].phase = events[c].phase
      /\ events'[c].queue = IF events[c].post.listening THEN events[c].queue
                            ELSE Append(events[c].queue, e)
  BY <1>1, <1>2 DEF SuccessEnds, Channel
<1>6. pipe'[c] = IF events[c].post.listening THEN Append(pipe[c], e) ELSE pipe[c]
  BY <1>1, <1>2, <1>4 DEF SentAtOnce
<1>7. \A d \in Channels \ {c} : Same(d)
  BY <1>1, <1>2 DEF Same
<1>8. Posted(events[c]) = <<e>> /\ Posted(events'[c]) = <<>>
  BY <1>1, <1>5 DEF Posted
<1>9. /\ b \in Seq(Nat) /\ w \in Seq(Nat) /\ <<e>> \in Seq(Nat) /\ <<>> \in Seq(Nat)
      /\ posted[c] \in Seq(PostedEvent) /\ dart[c].got \in Seq(Nat) /\ pipe[c] \in Seq(Nat)
      /\ Stream(c) = (b \o w) \o <<e>>
  <2>1. <<e>> \in Seq(Nat) /\ <<>> \in Seq(Nat)
    BY <1>4
  <2>. QED
    BY <1>8, <2>1, Parts, Zenon
<1>10. Stream(c)' = ((dart[c].got \o pipe'[c]) \o Waiting(events'[c])) \o <<>>
  BY <1>1, <1>8 DEF Stream
<1> SUFFICES ASSUME dart[c].phase # "closed"
             PROVE  Faithful(Stream(c)', posted[c])
  BY <1>1, <1>7, StepKeepsStreams
<1>11. Faithful((b \o w) \o <<e>>, posted[c])
  BY <1>9 DEF StreamInv
<1>12. CASE events[c].post.listening
  <2>1. events[c].listening /\ events[c].phase = "idle" /\ events[c].next = 1
    BY <1>1, <1>3, <1>4, <1>12 DEF Listens, Numbered
  <2>2. w = events[c].queue /\ Waiting(events'[c]) = w
    BY <1>4, <1>5, <1>12, <2>1, SubSeqFull DEF Waiting
  <2>3. \A i \in DOMAIN w : w[i] \in DOMAIN posted[c] /\ ~Unraced(posted[c], w[i])
    BY <1>3, <1>4, <2>1, <2>2 DEF Listens
  <2>4. dart[c].got \o pipe'[c] = b \o <<e>>
    <3>1. dart[c].got \o Append(pipe[c], e) = (dart[c].got \o pipe[c]) \o <<e>>
      BY <1>4, <1>9, AppendMoves, Zenon
    <3>. QED
      BY <1>6, <1>12, <3>1 DEF Before
  <2>. HIDE DEF b, w
  <2>5. Faithful(b \o <<e>>, posted[c])
    BY <1>9, <1>11, <2>3, FaithfulWithout
  <2>6. b \o <<e>> \in Seq(Nat) /\ (b \o <<e>>) \o <<>> = b \o <<e>>
    BY <1>9
  <2>7. Faithful(((b \o <<e>>) \o w) \o <<>>, posted[c])
    BY <1>9, <2>3, <2>5, <2>6, FaithfulWith
  <2>. QED
    BY <1>10, <2>2, <2>4, <2>7
<1>13. CASE ~events[c].post.listening /\ events[c].phase \in {"idle", "sending"}
  <2>1. Waiting(events'[c]) = Append(w, e)
    BY <1>4, <1>5, <1>13, SubSeqOfAppend DEF Waiting
  <2>2. pipe'[c] = pipe[c]
    BY <1>6, <1>13
  <2>3. Stream(c)' = (b \o Append(w, e)) \o <<>>
    BY <1>10, <2>1, <2>2 DEF Before
  <2>. HIDE DEF b, w
  <2>4. (b \o Append(w, e)) \o <<>> = (b \o w) \o <<e>>
    BY <1>4, <1>9, AppendIsConcat, ConcatAssociative
  <2>. QED
    BY <1>11, <2>3, <2>4
<1>14. CASE ~events[c].post.listening /\ events[c].phase \in {"sent", "cleared"}
  <2>1. w = <<>> /\ Waiting(events'[c]) = <<>>
    BY <1>5, <1>14 DEF Waiting
  <2>2. ~Unraced(posted[c], e)
    BY <1>1, <1>3, <1>14 DEF Listens
  <2>3. Stream(c)' = (b \o <<>>) \o <<>>
    BY <1>6, <1>10, <1>14, <2>1 DEF Before
  <2>. HIDE DEF b, w
  <2>4. (b \o w) \o <<e>> = (b \o <<e>>) \o <<>> /\ (b \o <<>>) \o <<>> = b \o <<>>
    BY <1>9, <2>1
  <2>5. \A i \in DOMAIN <<e>> : ~Unraced(posted[c], <<e>>[i])
    BY <2>2
  <2>6. Faithful(b \o <<>>, posted[c])
    BY <1>9, <1>11, <2>4, <2>5, FaithfulWithout
  <2>. QED
    BY <2>3, <2>4, <2>6
<1>. QED
  BY <1>4, <1>12, <1>13, <1>14 DEF ListenPhase

LEMMA OnListenKeepsStreams ==
  ASSUME IInv, StreamInv, NEW c \in Channels, OnListen(c)
  PROVE  StreamInv'
<1>1. /\ Takes(c, "listen") /\ "listen" \in Call
      /\ events' = [events EXCEPT ![c] = ListenStarts(@)]
      /\ posted' = [posted EXCEPT ![c] =
                      [i \in DOMAIN @ |->
                         IF events[c].post # <<>> /\ events[c].post.event = i
                         THEN [@[i] EXCEPT !.raced = TRUE] ELSE @[i]]]
      /\ UNCHANGED <<pipe, dart>>
  BY DEF OnListen, Call
<1>2. events \in [Channels -> Channel(Nat)] /\ posted \in [Channels -> Seq(PostedEvent)]
  BY DEF IInv, TypeOK
<1>3. \A d \in Channels \ {c} : Same(d)
  BY <1>1, <1>2, TakesFacts DEF Same
<1>4. events[c].phase = "idle" /\ events[c].next = 1
  BY <1>1, TakesFacts DEF IInv, ChannelInv, Numbered
<1>5. /\ events'[c].queue = events[c].queue /\ events'[c].post = events[c].post
      /\ events'[c].next = 1 /\ events'[c].phase = "sending"
  BY <1>1, <1>2 DEF ListenStarts, Channel
<1>6. Stream(c)' = Stream(c)
  <2>1. Waiting(events'[c]) = Waiting(events[c]) /\ Posted(events'[c]) = Posted(events[c])
    BY <1>4, <1>5 DEF Waiting, Posted
  <2>. QED
    BY <1>1, <2>1 DEF Stream
<1>7. /\ DOMAIN posted'[c] = DOMAIN posted[c]
      /\ \A e \in DOMAIN posted[c] :
           posted'[c][e] \in {posted[c][e], [posted[c][e] EXCEPT !.raced = TRUE]}
  BY <1>1, <1>2
<1>8. \A e \in DOMAIN posted[c] : Unraced(posted'[c], e) => Unraced(posted[c], e)
  <2> SUFFICES ASSUME NEW e \in DOMAIN posted[c], Unraced(posted'[c], e)
               PROVE  Unraced(posted[c], e)
    OBVIOUS
  <2>1. posted[c] \in [DOMAIN posted[c] -> PostedEvent]
    BY <1>2
  <2>2. posted[c][e] \in PostedEvent
    BY <2>1, Zenon
  <2>3. [posted[c][e] EXCEPT !.raced = TRUE].raced
    BY <2>2 DEF PostedEvent
  <2>4. posted'[c][e] = posted[c][e]
    BY <1>7, <2>3 DEF Unraced
  <2>. QED
    BY <2>4 DEF Unraced
<1>9. dart'[c].phase # "closed" => Faithful(Stream(c)', posted'[c])
  BY <1>1, <1>6, <1>7, <1>8, FaithfulRaces DEF StreamInv
<1>. QED
  BY <1>3, <1>9, StepKeepsStreams

LEMMA SendQueuedKeepsStreams ==
  ASSUME IInv, StreamInv, NEW c \in Channels, SendQueued(c)
  PROVE  StreamInv'
<1> DEFINE q == events[c].queue
           n == events[c].next
           rest == SubSeq(q, n + 1, Len(q))
<1>1. /\ events[c].phase = "sending" /\ n <= Len(q)
      /\ pipe' = [pipe EXCEPT ![c] = Append(@, q[n])]
      /\ events' = [events EXCEPT ![c] = QueuedIsSent(@)]
      /\ UNCHANGED <<posted, calls, dart>>
  BY DEF SendQueued, MustSend, NextQueued
<1>2. events \in [Channels -> Channel(Nat)] /\ pipe \in [Channels -> Seq(Nat)]
  BY DEF IInv, TypeOK
<1>3. \A d \in Channels \ {c} : Same(d)
  BY <1>1, <1>2 DEF Same
<1>4. /\ events'[c].queue = q /\ events'[c].post = events[c].post
      /\ events'[c].next = n + 1 /\ events'[c].phase = "sending"
  BY <1>1, <1>2 DEF QueuedIsSent, Channel
<1>5. q \in Seq(Nat) /\ n \in 1 .. Len(q) /\ q[n] \in Nat /\ <<q[n]>> \in Seq(Nat)
  <2>1. q \in Seq(Nat) /\ n \in 1 .. Len(q) + 1
    BY Types DEF IInv, ChannelInv, Numbered
  <2>. QED
    BY <1>1, <2>1
<1>6. Waiting(events[c]) = <<q[n]>> \o rest /\ Waiting(events'[c]) = rest
  <2>1. Len(q) \in n .. Len(q)
    BY <1>5
  <2>2. SubSeq(q, n, Len(q)) = <<q[n]>> \o rest
    BY <1>5, <2>1, SubSeqRecursiveFirst
  <2>. QED
    BY <1>1, <1>4, <2>2 DEF Waiting
<1>7. rest \in Seq(Nat)
  BY <1>5
<1>8. pipe'[c] = Append(pipe[c], q[n])
  BY <1>1, <1>2
<1>9. Stream(c)' = Stream(c)
  <2>1. dart[c].got \o pipe'[c] = Before(c) \o <<q[n]>>
    <3>1. dart[c].got \o Append(pipe[c], q[n]) = (dart[c].got \o pipe[c]) \o <<q[n]>>
      BY <1>5, Parts, AppendMoves, Zenon
    <3>. QED
      BY <1>8, <3>1 DEF Before
  <2>. HIDE DEF q, n, rest
  <2>2. (Before(c) \o <<q[n]>>) \o rest = Before(c) \o (<<q[n]>> \o rest)
    <3>1. Before(c) \in Seq(Nat)
      BY Parts
    <3>. QED
      BY <1>5, <1>7, <3>1, Associative
  <2>3. Posted(events'[c]) = Posted(events[c])
    BY <1>4 DEF Posted
  <2>4. Stream(c)' = ((dart[c].got \o pipe'[c]) \o Waiting(events'[c])) \o Posted(events'[c])
    BY <1>1 DEF Stream
  <2>. QED
    BY <1>6, <2>1, <2>2, <2>3, <2>4, Parts
<1>. QED
  BY <1>1, <1>3, <1>9, StepKeepsStreams DEF StreamInv

LEMMA ListenGoesOnKeepsStreams ==
  ASSUME IInv, StreamInv, NEW c \in Channels, ListenGoesOn(c)
  PROVE  StreamInv'
<1> DEFINE ch == events[c]
<1>1. UNCHANGED <<posted, pipe, calls, dart>>
  BY DEF ListenGoesOn
<1>2. events \in [Channels -> Channel(Nat)]
  BY DEF IInv, TypeOK
<1>3. /\ ch.queue \in Seq(Nat) /\ ch.next \in Nat
      /\ ch.phase = "cleared" => ch.next = 1
      /\ \A i \in DOMAIN ch.queue : ch.queue[i] \in DOMAIN posted[c]
  <2>1. Numbered(c)
    BY DEF IInv, ChannelInv
  <2>2. \A i \in DOMAIN ch.queue : ch.queue[i] \in DOMAIN posted[c]
    BY <2>1 DEF Numbered
  <2>. QED
    BY <2>1, <2>2, Types DEF Numbered
<1>4. CASE LoopIsOver(ch) /\ events' = [events EXCEPT ![c] = LoopEnds(@)]
  <2>1. /\ events'[c].phase = "sent" /\ events'[c].post = ch.post
        /\ \A d \in Channels \ {c} : Same(d)
    BY <1>1, <1>2, <1>4 DEF LoopEnds, Channel, Same
  <2>2. Waiting(ch) = <<>>
    BY <1>3, <1>4, SubSeqEmpty DEF LoopIsOver, Waiting
  <2>3. Stream(c)' = Stream(c)
    <3>1. Waiting(events'[c]) = Waiting(ch) /\ Posted(events'[c]) = Posted(ch)
      BY <2>1, <2>2 DEF Waiting, Posted
    <3>. QED
      BY <1>1, <3>1 DEF Stream
  <2>. QED
    BY <1>1, <2>1, <2>3, StepKeepsStreams DEF StreamInv
<1>5. CASE ch.phase = "sent" /\ events' = [events EXCEPT ![c] = QueueCleared(@)]
  <2>1. /\ events'[c].phase = "cleared" /\ events'[c].post = ch.post
        /\ \A d \in Channels \ {c} : Same(d)
    BY <1>1, <1>2, <1>5 DEF QueueCleared, Channel, Same
  <2>2. Stream(c)' = Stream(c)
    <3>1. Waiting(events'[c]) = Waiting(ch) /\ Posted(events'[c]) = Posted(ch)
      BY <1>5, <2>1 DEF Waiting, Posted
    <3>. QED
      BY <1>1, <3>1 DEF Stream
  <2>. QED
    BY <1>1, <2>1, <2>2, StepKeepsStreams DEF StreamInv
<1>6. CASE ch.phase = "cleared" /\ events' = [events EXCEPT ![c] = ListenEnds(@)]
  <2> DEFINE q == ch.queue
             b == Before(c)
             l == Posted(ch)
  <2>1. /\ events'[c].phase = "idle" /\ events'[c].post = ch.post
        /\ events'[c].queue = q /\ events'[c].next = 1
        /\ \A d \in Channels \ {c} : Same(d)
    BY <1>1, <1>2, <1>3, <1>6 DEF ListenEnds, Channel, Same
  <2> SUFFICES ASSUME dart[c].phase # "closed"
               PROVE  Faithful(Stream(c)', posted[c])
    BY <1>1, <2>1, StepKeepsStreams
  <2>2. Waiting(ch) = <<>> /\ Waiting(events'[c]) = q /\ Posted(events'[c]) = l
    <3>1. SubSeq(q, 1, Len(q)) = q
      BY <1>3, SubSeqFull
    <3>2. Waiting(ch) = <<>>
      BY <1>6 DEF Waiting
    <3>3. Waiting(events'[c]) = q
      BY <2>1, <3>1 DEF Waiting
    <3>4. Posted(events'[c]) = l
      BY <2>1 DEF Posted
    <3>. QED
      BY <3>2, <3>3, <3>4
  <2>3. /\ b \in Seq(Nat) /\ l \in Seq(Nat) /\ posted[c] \in Seq(PostedEvent)
        /\ Stream(c) = (b \o <<>>) \o l
    BY <2>2, Parts
  <2>4. \A i \in DOMAIN q : q[i] \in DOMAIN posted[c] /\ ~Unraced(posted[c], q[i])
    BY <1>3, <1>6 DEF IInv, ChannelInv, Listens
  <2>5. Faithful(Stream(c), posted[c])
    BY DEF StreamInv
  <2>6. Stream(c)' = (b \o q) \o l
    BY <1>1, <2>2 DEF Stream, Before
  <2>. HIDE DEF q, b, l
  <2>7. Faithful(b \o l, posted[c])
    <3>1. b \o <<>> = b
      BY <2>3, ConcatEmptySeq
    <3>. QED
      BY <2>3, <2>5, <3>1
  <2>8. q \in Seq(Nat)
    BY <1>3 DEF q
  <2>. QED
    BY <2>3, <2>4, <2>6, <2>7, <2>8, FaithfulWith
<1>. QED
  BY <1>4, <1>5, <1>6 DEF ListenGoesOn

LEMMA ReceiveKeepsStreams ==
  ASSUME IInv, StreamInv, NEW c \in Channels, Receive(c)
  PROVE  StreamInv'
<1> DEFINE e == Head(pipe[c])
           w == Waiting(events[c])
           l == Posted(events[c])
<1>1. /\ pipe[c] # <<>>
      /\ pipe' = [pipe EXCEPT ![c] = Tail(@)]
      /\ UNCHANGED <<events, posted>>
  BY DEF Receive
<1>2. /\ pipe \in [Channels -> Seq(Nat)] /\ dart \in [Channels -> DartObject]
      /\ calls \in [Channels -> Seq(Call)]
  BY DEF IInv, TypeOK
<1>3. /\ dart[c].got \in Seq(Nat) /\ pipe[c] \in Seq(Nat) /\ w \in Seq(Nat) /\ l \in Seq(Nat)
      /\ posted[c] \in Seq(PostedEvent)
      /\ Stream(c) = ((dart[c].got \o pipe[c]) \o w) \o l
  BY Parts DEF Before
<1>4. pipe'[c] = Tail(pipe[c]) /\ Tail(pipe[c]) \in Seq(Nat) /\ e \in Nat /\ e = pipe[c][1]
      /\ 1 \in DOMAIN pipe[c]
  BY <1>1, <1>2, <1>3, TailFacts
<1>5. Stream(c)' = ((dart'[c].got \o Tail(pipe[c])) \o w) \o l
  BY <1>1, <1>4 DEF Stream
<1>6. \A d \in Channels \ {c} : Same(d)
  BY <1>1, <1>2 DEF Receive, Same
<1>7. CASE /\ e = Announcement
           /\ dart' = [dart EXCEPT ![c].phase = "subscribed"]
  <2>1. dart[c].phase = "none"
    BY <1>4, <1>7 DEF IInv, ChannelInv, Announced
  <2>2. dart[c].got = <<>> /\ pipe[c] = <<Announcement>>
    BY <1>1, <2>1 DEF IInv, ChannelInv, Announced
  <2>3. dart'[c].got = <<>> /\ Tail(pipe[c]) = <<>>
    BY <1>2, <1>7, <2>2 DEF DartObject
  <2>4. Faithful(Stream(c), posted[c])
    BY <2>1 DEF StreamInv
  <2>. HIDE DEF w, l
  <2>5. Stream(c) = (<<>> \o <<Announcement>>) \o (w \o l) /\ Stream(c)' = <<>> \o (w \o l)
    <3>1. <<>> \in Seq(Nat) /\ <<Announcement>> \in Seq(Nat) /\ <<>> \o <<Announcement>> \in Seq(Nat)
      BY DEF Announcement
    <3>2. ((<<>> \o <<Announcement>>) \o w) \o l = (<<>> \o <<Announcement>>) \o (w \o l)
      BY <1>3, <3>1, ConcatAssociative
    <3>3. ((<<>> \o <<>>) \o w) \o l = <<>> \o (w \o l)
      BY <1>3
    <3>. QED
      BY <1>3, <1>5, <2>2, <2>3, <3>2, <3>3
  <2>6. ~Unraced(posted[c], Announcement)
    BY <1>3 DEF Unraced, Announcement
  <2>7. Faithful(<<>> \o (w \o l), posted[c])
    <3> DEFINE s == <<>>
               a == <<Announcement>>
               t == w \o l
    <3>1. s \in Seq(Nat) /\ a \in Seq(Nat) /\ t \in Seq(Nat)
      BY <1>3 DEF Announcement
    <3>2. \A i \in DOMAIN a : ~Unraced(posted[c], a[i])
      BY <2>6
    <3>3. Faithful((s \o a) \o t, posted[c])
      BY <2>4, <2>5
    <3>. HIDE DEF s, a, t
    <3>4. Faithful(s \o t, posted[c])
      BY <1>3, <3>1, <3>2, <3>3, FaithfulWithout
    <3>. QED
      BY <3>4 DEF s, t
  <2>. QED
    BY <1>1, <1>6, <2>5, <2>7, StepKeepsStreams
<1>8. CASE /\ e # Announcement /\ dart[c].phase = "subscribed"
           /\ dart' = [dart EXCEPT ![c].got = Append(@, e),
                                   ![c].state = IF posted[c][e].kind = "message" THEN @
                                                ELSE posted[c][e].kind]
  <2>1. dart'[c].got = Append(dart[c].got, e)
    BY <1>2, <1>8 DEF DartObject
  <2>2. pipe[c] = <<e>> \o Tail(pipe[c]) /\ <<e>> \in Seq(Nat)
    BY <1>1, <1>3, <1>4
  <2>3. dart'[c].got \o Tail(pipe[c]) = dart[c].got \o pipe[c]
    <3>1. Append(dart[c].got, e) \o Tail(pipe[c]) = dart[c].got \o (<<e>> \o Tail(pipe[c]))
      BY <1>3, <1>4, AppendMoves
    <3>. QED
      BY <2>1, <2>2, <3>1
  <2>4. Stream(c)' = Stream(c)
    BY <1>3, <1>5, <2>3
  <2>5. Faithful(Stream(c), posted[c])
    BY <1>8 DEF StreamInv
  <2>. QED
    BY <1>1, <1>6, <2>4, <2>5, StepKeepsStreams
<1>9. CASE dart[c].phase = "closed" /\ UNCHANGED dart
  BY <1>6, <1>9, StepKeepsStreams
<1>. QED
  BY <1>7, <1>8, <1>9 DEF Receive

LEMMA CloseKeepsStreams ==
  ASSUME IInv, StreamInv, NEW c \in Channels, Close(c)
  PROVE  StreamInv'
<1>1. /\ dart' = [dart EXCEPT ![c].phase = "closed"]
      /\ calls' = [calls EXCEPT ![c] =
                     @ \o (IF dart[c].phase = "subscribed" THEN <<"cancel", "close">>
                           ELSE <<"close">>)]
      /\ UNCHANGED <<events, posted, pipe>>
      /\ dart \in [Channels -> DartObject] /\ calls \in [Channels -> Seq(Call)]
  BY DEF Close, IInv, TypeOK
<1>2. \A d \in Channels \ {c} : Same(d)
  BY <1>1 DEF Same
<1>3. dart'[c].phase = "closed"
  BY <1>1 DEF DartObject
<1>. QED
  BY <1>2, <1>3, StepKeepsStreams

\* Nobody cancels before the object is closed, and then its stream is over.
LEMMA OnCancelKeepsStreams ==
  ASSUME IInv, StreamInv, NEW c \in Channels, OnCancel(c)
  PROVE  StreamInv'
<1>1. /\ Takes(c, "cancel") /\ "cancel" \in Call
      /\ events' = [events EXCEPT ![c] = Cancelled(@)]
      /\ UNCHANGED <<posted, pipe, dart>>
      /\ events \in [Channels -> Channel(Nat)]
  BY DEF OnCancel, Call, IInv, TypeOK
<1>2. \A d \in Channels \ {c} : Same(d)
  BY <1>1, TakesFacts DEF Same
<1>3. dart'[c].phase = "closed"
  BY <1>1, TakesFacts DEF IInv, ChannelInv, Listens
<1>. QED
  BY <1>2, <1>3, StepKeepsStreams

LEMMA NextKeepsStreams ==
  ASSUME IInv, StreamInv, [Next]_vars
  PROVE  StreamInv'
<1>1. CASE UNCHANGED vars
  BY <1>1, SameKeepsStreams DEF vars
<1>2. ASSUME NEW p \in Peers, CreatePeerConnection(p) \/ PeerConnectionClose(p)
      PROVE  StreamInv'
  BY <1>2, SameKeepsStreams DEF CreatePeerConnection, PeerConnectionClose
<1>3. ASSUME NEW c \in Channels, \/ OnMessage(c)
                                 \/ \E state \in EventKind : OnStateChange(c, state)
      PROVE  StreamInv'
  BY <1>3, PostKeepsStreams DEF OnMessage, OnStateChange, EventKind
<1>4. ASSUME NEW c \in Channels, PlatformStep(c)
      PROVE  StreamInv'
  <2>1. CASE DataChannelSend(c) \/ DataChannelClose(c)
    BY <2>1, SameKeepsStreams DEF DataChannelSend, DataChannelClose
  <2>. QED
    BY <1>4, <2>1, OnListenKeepsStreams, SendQueuedKeepsStreams, ListenGoesOnKeepsStreams,
       OnCancelKeepsStreams DEF PlatformStep
<1>5. ASSUME NEW c \in Channels, Send(c)
      PROVE  StreamInv'
  BY <1>5, SameKeepsStreams DEF Send
<1>. QED
  BY <1>1, <1>2, <1>3, <1>4, <1>5, NewChannelKeepsStreams, SuccessReturnsKeepsStreams,
     ReceiveKeepsStreams, CloseKeepsStreams DEF Next

\* For any peer connections, channels and number of messages, wherever Success
\* and onListen meet: the events that onListen did not meet halfway reach the
\* Dart object of their channel once each and in the order they were posted.
THEOREM StreamsAreFaithful == Spec => []StreamIsFaithful
<1>1. IInv /\ StreamInv => StreamIsFaithful
  BY DEF IInv, TypeOK, StreamInv, StreamIsFaithful
<1>. QED
  BY <1>1, InitInv, NextKeepsInv, NextKeepsStreams, PTL DEF Spec
=============================================================================
