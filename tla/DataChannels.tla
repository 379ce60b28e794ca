----------------------------- MODULE DataChannels -----------------------------
(***************************************************************************)
(* The data channels of the WebRTC plugin for Windows and Linux: the table *)
(* of observers, each with its event channel, the peer connections they    *)
(* belong to, and the RTCDataChannelNative objects that Dart keeps.        *)
(*                                                                         *)
(* Three threads take part.  Dart calls; its calls on one channel reach    *)
(* the platform thread in their order, and what is sent to Dart arrives in *)
(* the order it was sent.  The platform thread runs one handler at a time, *)
(* onListen in the steps of EventChannel.  WebRTC's signaling thread runs  *)
(* one callback at a time, and the handlers that close something wait for  *)
(* it.                                                                     *)
(*                                                                         *)
(* Ids are fresh UUIDs, so a channel or a peer connection is its id.  Dart *)
(* closes a peer connection in one step with its handler.  A find or an    *)
(* erase in the table while the signaling thread inserts is a data race in *)
(* the code; here the two come one after the other.                        *)
(***************************************************************************)
EXTENDS EventChannel, FiniteSets

CONSTANTS
  Peers,         \* ids of peer connections
  Channels,      \* ids of data channels
  NoPeer,        \* the owner of a channel that is not there yet
  MaxMessages    \* bound: messages that arrive on one channel

ASSUME DataChannelsAssumption == NoPeer \notin Peers /\ MaxMessages \in Nat

VARIABLES
  peer,       \* peer -> where it is: the live ones are in peerconnections_
  observers,  \* data_channel_observers_, the channels in it
  owner,      \* channel -> the peer connection it was made by
  native,     \* channel -> the state WebRTC has it in
  events,     \* channel -> its observer's event channel
  posted,     \* channel -> every event its observer posted, in order
  pipe,       \* channel -> what is on its way to Dart
  calls,      \* channel -> the calls on their way to the platform thread
  dart,       \* channel -> Dart's object for it
  answer      \* channel -> what the last dataChannelSend or Close was answered

tables == <<peer, observers, owner>>
vars == <<peer, observers, owner, native, events, posted, pipe, calls, dart, answer>>

-----------------------------------------------------------------------------

PeerState == {"none", "live", "closed"}

\* RTCDataChannelState, before it and after it.
NativeState == {"none", "connecting", "open", "closing", "closed"}

\* What a posted event says: a state, or that a message came.  It is raced when
\* Success and an onListen overlapped.
EventKind == {"connecting", "open", "closing", "closed", "message"}
PostedEvent == [kind : EventKind, raced : BOOLEAN]

\* An event is its number in posted.  The announcement is the response of
\* createDataChannel or the event didOpenDataChannel.
Announcement == 0

Call == {"listen", "cancel", "send", "close"}

\* The state of an RTCDataChannelNative is null until an event sets it, unless
\* it was announced as open.
DartObject ==
  [phase : {"none", "subscribed", "closed"},
   state : {"null", "connecting", "open", "closing", "closed"},
   got : Seq(Nat)]

Messages(c) == Cardinality({i \in DOMAIN posted[c] : posted[c][i].kind = "message"})

Init ==
  /\ peer = [p \in Peers |-> "none"]
  /\ observers = {}
  /\ owner = [c \in Channels |-> NoPeer]
  /\ native = [c \in Channels |-> "none"]
  /\ events = [c \in Channels |-> NewChannel]
  /\ posted = [c \in Channels |-> <<>>]
  /\ pipe = [c \in Channels |-> <<>>]
  /\ calls = [c \in Channels |-> <<>>]
  /\ dart = [c \in Channels |-> [phase |-> "none", state |-> "null", got |-> <<>>]]
  /\ answer = [c \in Channels |-> "none"]

\* The platform thread is in no handler, the signaling thread in no callback.
PlatformIsIdle == \A c \in Channels : events[c].phase = "idle"
SignalingIsIdle == \A c \in Channels : events[c].post = <<>>

Live(p) == p # NoPeer /\ peer[p] = "live"

-----------------------------------------------------------------------------
(* Peer connections. *)

CreatePeerConnection(p) ==
  /\ PlatformIsIdle
  /\ peer[p] = "none"
  /\ peer' = [peer EXCEPT ![p] = "live"]
  /\ UNCHANGED <<observers, owner, native, events, posted, pipe, calls, dart, answer>>

\* peerConnectionClose: the peer connection and its observer leave their tables,
\* the observers of its channels stay in theirs.
PeerConnectionClose(p) ==
  /\ PlatformIsIdle /\ SignalingIsIdle
  /\ Live(p)
  /\ peer' = [peer EXCEPT ![p] = "closed"]
  /\ UNCHANGED <<observers, owner, native, events, posted, pipe, calls, dart, answer>>

-----------------------------------------------------------------------------
(* Channels come. *)

Insert(p, c) ==
  /\ Live(p) /\ owner[c] = NoPeer
  /\ owner' = [owner EXCEPT ![c] = p]
  /\ observers' = observers \cup {c}
  /\ pipe' = [pipe EXCEPT ![c] = Append(@, Announcement)]

CreateDataChannel(p, c) ==
  /\ PlatformIsIdle /\ SignalingIsIdle
  /\ Insert(p, c)
  /\ native' = [native EXCEPT ![c] = "connecting"]
  /\ UNCHANGED <<peer, events, posted, calls, dart, answer>>

\* The peer opened a channel: Dart is told that it is open.
OnDataChannel(p, c) ==
  /\ SignalingIsIdle
  /\ Insert(p, c)
  /\ native' = [native EXCEPT ![c] = "open"]
  /\ dart' = [dart EXCEPT ![c].state = "open"]
  /\ UNCHANGED <<peer, events, posted, calls, answer>>

-----------------------------------------------------------------------------
(* The signaling thread. *)

\* OnStateChange and OnMessage post an event.
Post(c, kind) ==
  /\ SignalingIsIdle
  /\ c \in observers
  /\ posted' = [posted EXCEPT ![c] = Append(@, [kind |-> kind, raced |-> events[c].phase # "idle"])]
  /\ events' = [events EXCEPT ![c] = SuccessStarts(@, Len(posted[c]) + 1)]
  /\ UNCHANGED <<peer, observers, owner, pipe, calls, dart, answer>>

\* WebRTC moves a channel on, and closes those of a closed peer connection.
OnStateChange(c, state) ==
  /\ \/ /\ native[c] = "connecting" /\ state = "open" /\ Live(owner[c])
     \/ /\ native[c] \in {"connecting", "open"} /\ state = "closing"
     \/ /\ native[c] = "closing" /\ state = "closed"
  /\ native' = [native EXCEPT ![c] = state]
  /\ Post(c, state)

OnMessage(c) ==
  /\ native[c] = "open" /\ Live(owner[c]) /\ Messages(c) < MaxMessages
  /\ UNCHANGED native
  /\ Post(c, "message")

SuccessReturns(c) ==
  /\ events[c].post # <<>>
  /\ pipe' = [pipe EXCEPT ![c] = @ \o SentAtOnce(events[c])]
  /\ events' = [events EXCEPT ![c] = SuccessEnds(@)]
  /\ UNCHANGED <<peer, observers, owner, native, posted, calls, dart, answer>>

-----------------------------------------------------------------------------
(* The platform thread. *)

\* The next call on c is taken up.
Takes(c, call) ==
  /\ PlatformIsIdle
  /\ calls[c] # <<>> /\ Head(calls[c]) = call
  /\ calls' = [calls EXCEPT ![c] = Tail(@)]

\* An event whose Success is under way is raced from here on.
OnListen(c) ==
  /\ Takes(c, "listen")
  /\ events' = [events EXCEPT ![c] = ListenStarts(@)]
  /\ posted' = [posted EXCEPT ![c] =
                  [i \in DOMAIN @ |->
                     IF events[c].post # <<>> /\ events[c].post.event = i
                     THEN [@[i] EXCEPT !.raced = TRUE] ELSE @[i]]]
  /\ UNCHANGED <<peer, observers, owner, native, pipe, dart, answer>>

SendQueued(c) ==
  /\ MustSend(events[c])
  /\ pipe' = [pipe EXCEPT ![c] = Append(@, NextQueued(events[c]))]
  /\ events' = [events EXCEPT ![c] = QueuedIsSent(@)]
  /\ UNCHANGED <<peer, observers, owner, native, posted, calls, dart, answer>>

\* The steps of onListen that send nothing.
ListenGoesOn(c) ==
  /\ \/ /\ LoopIsOver(events[c])
        /\ events' = [events EXCEPT ![c] = LoopEnds(@)]
     \/ /\ events[c].phase = "sent"
        /\ events' = [events EXCEPT ![c] = QueueCleared(@)]
     \/ /\ events[c].phase = "cleared"
        /\ events' = [events EXCEPT ![c] = ListenEnds(@)]
  /\ UNCHANGED <<peer, observers, owner, native, posted, pipe, calls, dart, answer>>

OnCancel(c) ==
  /\ Takes(c, "cancel")
  /\ events' = [events EXCEPT ![c] = Cancelled(@)]
  /\ UNCHANGED <<peer, observers, owner, native, posted, pipe, dart, answer>>

\* PeerConnectionForId and DataChannelForId find what the call names.
FoundWrong(c) == c \in observers
Found(c) == Live(owner[c]) /\ c \in observers

DataChannelSend(c) ==
  /\ Takes(c, "send")
  /\ answer' = [answer EXCEPT ![c] = IF Found(c) THEN "ok" ELSE "error"]
  /\ UNCHANGED <<peer, observers, owner, native, events, posted, pipe, dart>>

\* The channel is closed and its observer erased; the events of the close meet
\* a cancelled event channel and go with it.
DataChannelClose(c) ==
  /\ SignalingIsIdle
  /\ Takes(c, "close")
  /\ \/ /\ Found(c)
        /\ native' = [native EXCEPT ![c] = "closed"]
        /\ observers' = observers \ {c}
        /\ answer' = [answer EXCEPT ![c] = "ok"]
     \/ /\ ~Found(c)
        /\ answer' = [answer EXCEPT ![c] = "error"]
        /\ UNCHANGED <<native, observers>>
  /\ UNCHANGED <<peer, owner, events, posted, pipe, dart>>

-----------------------------------------------------------------------------
(* Dart. *)

\* The message case falls through to the state's.
ReceiveWrong(c) ==
  /\ pipe[c] # <<>>
  /\ pipe' = [pipe EXCEPT ![c] = Tail(@)]
  /\ LET e == Head(pipe[c])
     IN \/ /\ e = Announcement
           /\ dart' = [dart EXCEPT ![c].phase = "subscribed"]
           /\ calls' = [calls EXCEPT ![c] = Append(@, "listen")]
        \/ /\ e # Announcement /\ dart[c].phase = "subscribed"
           /\ dart' = [dart EXCEPT ![c].got = Append(@, e),
                                   ![c].state = posted[c][e].kind]
           /\ UNCHANGED calls
        \/ /\ e # Announcement /\ dart[c].phase = "closed"
           /\ UNCHANGED <<dart, calls>>
  /\ UNCHANGED <<peer, observers, owner, native, events, posted, answer>>

\* The announcement makes the object, which listens at once; an event changes
\* the object while it is subscribed.
Receive(c) ==
  /\ pipe[c] # <<>>
  /\ pipe' = [pipe EXCEPT ![c] = Tail(@)]
  /\ LET e == Head(pipe[c])
     IN \/ /\ e = Announcement
           /\ dart' = [dart EXCEPT ![c].phase = "subscribed"]
           /\ calls' = [calls EXCEPT ![c] = Append(@, "listen")]
        \/ /\ e # Announcement /\ dart[c].phase = "subscribed"
           /\ dart' = [dart EXCEPT ![c].got = Append(@, e),
                                   ![c].state = IF posted[c][e].kind = "message" THEN @
                                               ELSE posted[c][e].kind]
           /\ UNCHANGED calls
        \/ /\ e # Announcement /\ dart[c].phase = "closed"
           /\ UNCHANGED <<dart, calls>>
  /\ UNCHANGED <<peer, observers, owner, native, events, posted, answer>>

Called(c, call) == \E i \in DOMAIN calls[c] : calls[c][i] = call

Send(c) ==
  /\ dart[c].phase # "none" /\ ~Called(c, "send")
  /\ calls' = [calls EXCEPT ![c] = Append(@, "send")]
  /\ UNCHANGED <<peer, observers, owner, native, events, posted, pipe, dart, answer>>

\* A second close has no subscription to cancel.
Close(c) ==
  /\ dart[c].phase # "none" /\ ~Called(c, "close")
  /\ dart' = [dart EXCEPT ![c].phase = "closed"]
  /\ calls' = [calls EXCEPT ![c] =
                 @ \o (IF dart[c].phase = "subscribed" THEN <<"cancel", "close">> ELSE <<"close">>)]
  /\ UNCHANGED <<peer, observers, owner, native, events, posted, pipe, answer>>

-----------------------------------------------------------------------------

\* The thread goes on with the onListen it is in, or takes up the next call.
PlatformStep(c) ==
  \/ OnListen(c)
  \/ SendQueued(c)
  \/ ListenGoesOn(c)
  \/ OnCancel(c)
  \/ DataChannelSend(c)
  \/ DataChannelClose(c)

Next ==
  \/ \E p \in Peers : CreatePeerConnection(p) \/ PeerConnectionClose(p)
  \/ \E p \in Peers, c \in Channels : CreateDataChannel(p, c) \/ OnDataChannel(p, c)
  \/ \E c \in Channels, state \in EventKind : OnStateChange(c, state)
  \/ \E c \in Channels :
       \/ OnMessage(c)
       \/ SuccessReturns(c)
       \/ PlatformStep(c)
       \/ Receive(c)
       \/ Send(c)
       \/ Close(c)

Spec == Init /\ [][Next]_vars

\* A thread that can go on does, and what was sent arrives.  Several channels
\* share the platform thread and its queue is served in order, so no channel
\* waits forever for a thread that is idle again and again.
FairSpec ==
  /\ Spec
  /\ \A c \in Channels :
       /\ SF_vars(PlatformStep(c))
       /\ WF_vars(SuccessReturns(c))
       /\ WF_vars(Receive(c))

-----------------------------------------------------------------------------
(* Properties *)

TypeOK ==
  /\ peer \in [Peers -> PeerState]
  /\ observers \subseteq Channels
  /\ owner \in [Channels -> Peers \cup {NoPeer}]
  /\ native \in [Channels -> NativeState]
  /\ events \in [Channels -> Channel(Nat)]
  /\ posted \in [Channels -> Seq(PostedEvent)]
  /\ pipe \in [Channels -> Seq(Nat)]
  /\ calls \in [Channels -> Seq(Call)]
  /\ dart \in [Channels -> DartObject]
  /\ answer \in [Channels -> {"none", "ok", "error"}]

\* What onListen has yet to send; once its loop is over, nothing.
Waiting(ch) ==
  IF ch.phase \in {"sent", "cleared"} THEN <<>> ELSE SubSeq(ch.queue, ch.next, Len(ch.queue))

\* The event whose Success is under way.
Posted(ch) == IF ch.post = <<>> THEN <<>> ELSE <<ch.post.event>>

\* What Dart has had and will have of a channel's events, oldest first.
Stream(c) == ((dart[c].got \o pipe[c]) \o Waiting(events[c])) \o Posted(events[c])

\* An announcement is no event, so it is in no log.
Unraced(log, e) == e \in DOMAIN log /\ ~log[e].raced

\* s holds every event of the log that is not raced, once and in their order.
Faithful(s, log) ==
  /\ \A i \in DOMAIN s : s[i] \in DOMAIN log \cup {Announcement}
  /\ \A e \in DOMAIN log : Unraced(log, e) => \E i \in DOMAIN s : s[i] = e
  /\ \A i, j \in DOMAIN s :
       i < j /\ Unraced(log, s[i]) /\ Unraced(log, s[j]) => s[i] < s[j]

\* The events of a channel reach its Dart object once each and in the order they
\* were posted, those from before it listened included, except for the ones
\* that onListen met halfway (EventChannelProxyImpl's queue and flag).
StreamIsFaithful ==
  \A c \in observers : dart[c].phase # "closed" => Faithful(Stream(c), posted[c])

\* A Dart object that stays subscribed learns in the end that its channel is
\* closed, unless onListen met the event that says so halfway.
DartCatchesUp ==
  \A c \in Channels :
    native[c] = "closed" /\ dart[c].phase = "subscribed"
      ~> \/ dart[c].state = "closed"
         \/ dart[c].phase = "closed"
         \/ \E i \in DOMAIN posted[c] : posted[c][i].kind = "closed" /\ posted[c][i].raced

HandlesOf == {c \in observers : Live(owner[c])}

Table == INSTANCE HandleTable WITH
  Handles <- Channels,
  live <- HandlesOf,
  dead <- {c \in Channels : owner[c] # NoPeer} \ HandlesOf,
  reply <- answer

\* The ids of data channels are a handle table: every call on a channel that is
\* there works, none on one that was closed, or whose peer connection was, and
\* no id comes back (data_channel_observers_, DataChannelForId).
ChannelsAreHandles == Table!Spec
=============================================================================
