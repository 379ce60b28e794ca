----------------------------- MODULE PluginMedia ------------------------------
(***************************************************************************)
(* The media tables of the WebRTC plugin for Windows and Linux: the local  *)
(* streams and tracks, the cameras behind them, the remote streams of the  *)
(* peer connections, and the renderers that show them, with the Dart       *)
(* objects of the renderers (VideoRenderer).                               *)
(*                                                                         *)
(* Handlers run one at a time on the platform thread, in the order of      *)
(* Dart's calls, so a call is one step with its handler.  Frames and       *)
(* remote streams come on threads of WebRTC.  Dart does not await the call *)
(* behind srcObject: its response and a renderer's events are queued on    *)
(* their way back.                                                         *)
(*                                                                         *)
(* Ids are fresh UUIDs; a track object is an id and where it comes from,   *)
(* since in a loopback the remote stream has the ids of the local one.     *)
(*                                                                         *)
(* VideoRendererDispose is compiled in two ways.  On Linux the renderer    *)
(* leaves renderers_ at once; on Windows the engine's callback erases it,  *)
(* later, and until then a call finds it.  A frame for a renderer that is  *)
(* erased with a sink left, and a second dispose() of the same renderer    *)
(* while the first is awaited, are undefined behaviour and have no action. *)
(***************************************************************************)
EXTENDS VideoRenderer, Naturals, FiniteSets

CONSTANTS
  Streams,       \* ids of streams
  Tracks,        \* ids of tracks
  Peers,         \* ids of peer connections
  Renderers,     \* ids of textures
  Local,         \* where a local stream or track comes from
  Nothing,       \* a request to show nothing: setSrcObject(null)
  Sources,       \* desktop sources there may be
  MaxOnTheWay    \* bound: notices from a renderer on their way when a frame comes

ASSUME PluginMediaAssumption ==
  Local \notin Peers /\ MaxOnTheWay \in Nat

VARIABLES
  peer,           \* peer -> where it is: the live ones have an observer
  remote_streams, \* peer -> stream id -> the ids of its tracks, if it is there
  made,           \* stream ids given out
  local_streams,  \* stream ids in local_streams_
  members,        \* stream id -> the tracks of the local stream
  kind,           \* track id -> what it is a track of
  local_tracks,   \* the tracks in local_tracks_
  capturers,      \* track ids in video_capturers_
  running,        \* track ids whose camera captures
  disposed,       \* track ids that trackDispose was called for
  sources,        \* sources_, what the last listing found
  answer,         \* stream id -> what the last call on it was answered
  renderer,       \* texture -> its renderer
  texture,        \* texture -> where it is: those there and leaving are in renderers_
  sinks,          \* <<texture, track>>: the renderer gets the track's frames
  notices,        \* texture -> what is on its way to Dart
  value,          \* texture -> the value of Dart's RTCVideoRenderer
  subscribed,     \* textures whose Dart object takes events
  closed,         \* textures whose Dart object is _disposed
  windows         \* is it the build for Windows?  fixed from the start

peers == <<peer, remote_streams>>
tables == <<made, local_streams, members, kind, local_tracks, capturers, running,
            disposed, sources, answer>>
views == <<renderer, texture, sinks, notices, value, subscribed, closed, windows>>
vars == <<peers, tables, views>>

-----------------------------------------------------------------------------

Track == [id : Tracks, from : {Local} \cup Peers]
At(from, t) == [id |-> t, from |-> from]

Kind == {"none", "audio", "camera", "screen"}

\* What Dart may ask a renderer to show: a stream it knows by id and owner tag.
Request == [stream : Streams, owner : {Local} \cup Peers] \cup {Nothing}

Init ==
  /\ peer = [p \in Peers |-> "none"]
  /\ remote_streams = [p \in Peers |-> [s \in Streams |-> {}]]
  /\ made = {} /\ local_streams = {} /\ local_tracks = {}
  /\ members = [s \in Streams |-> {}]
  /\ kind = [t \in Tracks |-> "none"]
  /\ capturers = {} /\ running = {} /\ disposed = {} /\ sources = {}
  /\ answer = [s \in Streams |-> "none"]
  /\ renderer = [r \in Renderers |-> NewRenderer]
  /\ texture = [r \in Renderers |-> "none"]
  /\ sinks = {} /\ subscribed = {} /\ closed = {}
  /\ notices = [r \in Renderers |-> <<>>]
  /\ value = [r \in Renderers |-> EmptyValue]
  /\ windows \in BOOLEAN

-----------------------------------------------------------------------------
(* FlutterWebRTCBase: how a call finds what it names. *)

Live(p) == peer[p] = "live"

\* MediaTrackForId: local_tracks_ first, then the observers in any order.
MediaTrackForId(t) ==
  LET mine == {x \in local_tracks : x.id = t}
      theirs == {At(p, t) : p \in {q \in Peers : Live(q) /\ \E s \in Streams : t \in remote_streams[q][s]}}
  IN IF mine # {} THEN mine ELSE theirs

\* MediaStreamForId with an owner tag: the tracks of the observer's stream, or of
\* the local one of that id; the first result says whether there is one.
RemoteStreamIsThere(s, owner) ==
  owner # Local /\ Live(owner) /\ remote_streams[owner][s] # {}

StreamIsThere(s, owner) == RemoteStreamIsThere(s, owner) \/ s \in local_streams

TracksOf(s, owner) ==
  IF RemoteStreamIsThere(s, owner)
  THEN {At(owner, t) : t \in remote_streams[owner][s]}
  ELSE members[s]

IsVideo(x) == kind[x.id] \in {"camera", "screen"}

-----------------------------------------------------------------------------
(* Streams and tracks come. *)

Fresh == {t \in Tracks : kind[t] = "none"}

\* GetUserAudio and GetUserVideo make one track or none; GetUserVideo makes none
\* when no camera can be had.
AtMostOne(ts) == {{}} \cup {{t} : t \in ts}

StreamIsMade(s, ts) ==
  /\ s \notin made
  /\ made' = made \cup {s}
  /\ local_streams' = local_streams \cup {s}
  /\ members' = [members EXCEPT ![s] = {At(Local, t) : t \in ts}]
  /\ local_tracks' = local_tracks \cup {At(Local, t) : t \in ts}

\* A camera that does not start leaves its capturer in the table.
GetUserMedia(s) ==
  \E audio \in AtMostOne(Fresh) : \E video \in AtMostOne(Fresh \ audio) :
    /\ StreamIsMade(s, audio \cup video)
    /\ kind' = [t \in Tracks |-> IF t \in audio THEN "audio"
                                 ELSE IF t \in video THEN "camera" ELSE kind[t]]
    /\ capturers' = capturers \cup video
    /\ running' \in {running, running \cup video}
    /\ UNCHANGED <<peers, disposed, sources, answer, views>>

\* The list is emptied before its types are looked at, and an unknown type ends
\* the listing with what was found before it.
GetDesktopSources ==
  /\ sources' \in SUBSET Sources
  /\ UNCHANGED <<peers, made, local_streams, members, kind, local_tracks, capturers,
                 running, disposed, answer, views>>

\* Nothing holds the screen's capturer but the track.
GetDisplayMedia(s, t) ==
  /\ sources # {} /\ t \in Fresh
  /\ StreamIsMade(s, {t})
  /\ kind' = [kind EXCEPT ![t] = "screen"]
  /\ UNCHANGED <<peers, capturers, running, disposed, sources, answer, views>>

CreateLocalMediaStream(s) ==
  /\ StreamIsMade(s, {})
  /\ UNCHANGED <<peers, kind, capturers, running, disposed, sources, answer, views>>

-----------------------------------------------------------------------------
(* Calls on streams and tracks Dart knows. *)

Known(s) == s \in made

Answered(s, ok) == answer' = [answer EXCEPT ![s] = IF ok THEN "ok" ELSE "error"]

MediaStreamGetTracksWrong(s) ==
  /\ Known(s)
  /\ local_tracks' =
       IF s \in local_streams
       THEN members[s] \cup {x \in local_tracks : \A y \in members[s] : y.id # x.id}
       ELSE local_tracks
  /\ Answered(s, TRUE)
  /\ UNCHANGED <<peers, made, local_streams, members, kind, capturers, running,
                 disposed, sources, views>>

\* The tracks of the stream are entered in local_tracks_ again, an old one of the
\* same id replaced.
MediaStreamGetTracks(s) ==
  /\ Known(s)
  /\ local_tracks' =
       IF s \in local_streams
       THEN members[s] \cup {x \in local_tracks : \A y \in members[s] : y.id # x.id}
       ELSE local_tracks
  /\ Answered(s, s \in local_streams)
  /\ UNCHANGED <<peers, made, local_streams, members, kind, capturers, running,
                 disposed, sources, views>>

MediaStreamAddTrackWrong(s, t) ==
  /\ Known(s) /\ kind[t] # "none"
  /\ \/ /\ s \in local_streams
        /\ \E x \in MediaTrackForId(t) :
             members' = [members EXCEPT ![s] = @ \cup {x}]
        /\ Answered(s, TRUE)
     \/ /\ s \in local_streams /\ MediaTrackForId(t) = {}
        /\ UNCHANGED <<members, answer>>
     \/ /\ s \notin local_streams
        /\ Answered(s, FALSE)
        /\ UNCHANGED members
  /\ UNCHANGED <<peers, made, local_streams, kind, local_tracks, capturers, running,
                 disposed, sources, views>>

\* A stream has at most one track of an id.  An error about the track says
\* nothing about the stream.
MediaStreamAddTrack(s, t) ==
  /\ Known(s) /\ kind[t] # "none"
  /\ \/ /\ s \in local_streams
        /\ \E x \in MediaTrackForId(t) :
             members' = [members EXCEPT ![s] = IF \E y \in @ : y.id = t THEN @ ELSE @ \cup {x}]
        /\ Answered(s, TRUE)
     \/ /\ s \in local_streams /\ MediaTrackForId(t) = {}
        /\ UNCHANGED <<members, answer>>
     \/ /\ s \notin local_streams
        /\ Answered(s, FALSE)
        /\ UNCHANGED members
  /\ UNCHANGED <<peers, made, local_streams, kind, local_tracks, capturers, running,
                 disposed, sources, views>>

\* The renderers that the handler then looks through are those of a map that
\* nothing is ever put in.
MediaStreamRemoveTrack(s, t) ==
  /\ Known(s) /\ kind[t] # "none"
  /\ \/ /\ s \in local_streams
        /\ \E x \in MediaTrackForId(t) : members' = [members EXCEPT ![s] = @ \ {x}]
        /\ Answered(s, TRUE)
     \/ /\ s \in local_streams /\ MediaTrackForId(t) = {}
        /\ UNCHANGED <<members, answer>>
     \/ /\ s \notin local_streams
        /\ Answered(s, FALSE)
        /\ UNCHANGED members
  /\ UNCHANGED <<peers, made, local_streams, kind, local_tracks, capturers, running,
                 disposed, sources, views>>

CapturersGoWrong(ts) ==
  /\ capturers' = capturers \ ts
  /\ UNCHANGED running

\* A capturer that leaves the table is stopped, if it captures.
CapturersGo(ts) ==
  /\ capturers' = capturers \ ts
  /\ running' = running \ (ts \cap capturers)

MediaStreamDispose(s) ==
  /\ Known(s)
  /\ LET ids == {x.id : x \in members[s]}
         videos == {x.id : x \in {y \in members[s] : IsVideo(y)}}
     IN \/ /\ s \in local_streams
           /\ members' = [members EXCEPT ![s] = {}]
           /\ local_tracks' = {x \in local_tracks : x.id \notin ids}
           /\ CapturersGo(videos)
           /\ local_streams' = local_streams \ {s}
        \/ /\ s \notin local_streams
           /\ UNCHANGED <<members, local_tracks, capturers, running, local_streams>>
  /\ Answered(s, s \in local_streams)
  /\ UNCHANGED <<peers, made, kind, disposed, sources, views>>

\* Only the first stream that has the track is looked at.
MediaStreamTrackDisposeWrong(t) ==
  /\ kind[t] # "none"
  /\ \E holders \in AtMostOne({s \in local_streams : \E x \in members[s] : x.id = t}) :
        /\ members' = [s \in Streams |-> IF s \in holders THEN {x \in members[s] : x.id # t}
                                         ELSE members[s]]
        /\ IF holders # {} /\ IsVideo(At(Local, t)) THEN CapturersGo({t})
           ELSE UNCHANGED <<capturers, running>>
  /\ local_tracks' = {x \in local_tracks : x.id # t}
  /\ disposed' = disposed \cup {t}
  /\ UNCHANGED <<peers, made, local_streams, kind, sources, answer, views>>

\* The capturer goes with the first stream that has the track, so a track that is
\* in no local stream keeps it.
MediaStreamTrackDispose(t) ==
  /\ kind[t] # "none"
  /\ LET holders == {s \in local_streams : \E x \in members[s] : x.id = t}
     IN /\ members' = [s \in Streams |-> IF s \in holders THEN {x \in members[s] : x.id # t}
                                         ELSE members[s]]
        /\ IF holders # {} /\ IsVideo(At(Local, t)) THEN CapturersGo({t})
           ELSE UNCHANGED <<capturers, running>>
  /\ local_tracks' = {x \in local_tracks : x.id # t}
  /\ disposed' = disposed \cup {t}
  /\ UNCHANGED <<peers, made, local_streams, kind, sources, answer, views>>

-----------------------------------------------------------------------------
(* Peer connections. *)

CreateRTCPeerConnection(p) ==
  /\ peer[p] = "none"
  /\ peer' = [peer EXCEPT ![p] = "live"]
  /\ UNCHANGED <<remote_streams, tables, views>>

RTCPeerConnectionClose(p) ==
  /\ Live(p)
  /\ peer' = [peer EXCEPT ![p] = "closed"]
  /\ UNCHANGED <<remote_streams, tables, views>>

\* The stream has the ids its sender gave it: in a loopback, those of a local
\* stream.  OnRemoveStream leaves it in the table.
OnAddStream(p, s) ==
  /\ Live(p) /\ remote_streams[p][s] = {} /\ members[s] # {}
  /\ remote_streams' = [remote_streams EXCEPT ![p][s] = {x.id : x \in members[s]}]
  /\ UNCHANGED <<peer, tables, views>>

-----------------------------------------------------------------------------
(* Renderers. *)

\* Wrong: it stays with the old track too.
ShowsWrong(r, x) ==
  /\ renderer' = [renderer EXCEPT ![r] = SetVideoTrack(@, x)]
  /\ sinks' = sinks \cup ({<<r, x>>} \ {<<r, NoTrack>>})

\* SetVideoTrack leaves the old track's sinks before it enters the new one's.
Shows(r, x) ==
  /\ renderer' = [renderer EXCEPT ![r] = SetVideoTrack(@, x)]
  /\ sinks' = {k \in sinks : k[1] # r} \cup ({<<r, x>>} \ {<<r, NoTrack>>})

CreateVideoRendererTexture(r) ==
  /\ texture[r] = "none"
  /\ texture' = [texture EXCEPT ![r] = "there"]
  /\ subscribed' = subscribed \cup {r}
  /\ UNCHANGED <<peers, tables, renderer, sinks, notices, value, closed, windows>>

\* What a request makes of the renderer: the first video track of the stream, in
\* any order, or the one it names.  A stream that is there without the track, or
\* without any, leaves the renderer as it is; no stream empties it.
Chosen(r, request) ==
  IF request = Nothing \/ ~StreamIsThere(request.stream, request.owner) THEN {NoTrack}
  ELSE {renderer[r].track} \cup {x \in TracksOf(request.stream, request.owner) : IsVideo(x)}

\* Dart may still ask while it awaits its dispose, and then finds none on Linux.
VideoRendererSetSrcObject(r, request) ==
  /\ texture[r] # "none" /\ r \notin closed
  /\ Len(notices[r]) < MaxOnTheWay
  /\ request # Nothing => Known(request.stream)
  /\ \/ /\ texture[r] \in {"there", "leaving"}
        /\ \E x \in Chosen(r, request) : Shows(r, x)
     \/ /\ texture[r] = "gone"
        /\ UNCHANGED <<renderer, sinks>>
  /\ notices' = [notices EXCEPT ![r] = IF request = Nothing THEN Append(@, Emptied) ELSE @]
  /\ UNCHANGED <<peers, tables, texture, value, subscribed, closed, windows>>

\* Dispose in Dart ends the subscription first, and then calls.
Unsubscribe(r) ==
  /\ r \in subscribed
  /\ subscribed' = subscribed \ {r}
  /\ UNCHANGED <<peers, tables, renderer, texture, sinks, notices, value, closed, windows>>

Leaves(r) == texture' = [texture EXCEPT ![r] = IF windows THEN "leaving" ELSE "gone"]

VideoRendererDisposeWrong(r) ==
  /\ texture[r] = "there" /\ r \notin subscribed
  /\ Leaves(r)
  /\ UNCHANGED <<peers, tables, renderer, sinks, notices, value, subscribed, closed, windows>>

VideoRendererDispose(r) ==
  /\ texture[r] = "there" /\ r \notin subscribed
  /\ Shows(r, NoTrack)
  /\ Leaves(r)
  /\ UNCHANGED <<peers, tables, notices, value, subscribed, closed, windows>>

\* The callback of UnregisterTexture on Windows erases the renderer.
TextureUnregistered(r) ==
  /\ texture[r] = "leaving"
  /\ texture' = [texture EXCEPT ![r] = "gone"]
  /\ UNCHANGED <<peers, tables, renderer, sinks, notices, value, subscribed, closed, windows>>

\* The await of dispose() in Dart returns: setting srcObject throws from now on.
DisposeAnswered(r) ==
  /\ texture[r] \in {"leaving", "gone"} /\ r \notin closed
  /\ closed' = closed \cup {r}
  /\ UNCHANGED <<peers, tables, renderer, texture, sinks, notices, value, subscribed, windows>>

\* A track has frames while its camera runs, its screen is captured, or its peer
\* connection is there.
HasFrames(x) ==
  IF x.from = Local THEN kind[x.id] = "screen" \/ x.id \in running
  ELSE Live(x.from) /\ IsVideo(x)

FrameComes(r, frame) ==
  /\ texture[r] # "gone"
  /\ \E k \in sinks : k[1] = r /\ HasFrames(k[2])
  /\ Len(notices[r]) < MaxOnTheWay
  /\ notices' = [notices EXCEPT ![r] = @ \o OnFrameSends(renderer[r], frame)]
  /\ renderer' = [renderer EXCEPT ![r] = OnFrame(@, frame)]
  /\ UNCHANGED <<peers, tables, texture, sinks, value, subscribed, closed, windows>>

\* Events end with the subscription, responses do not.
Receive(r) ==
  /\ notices[r] # <<>>
  /\ notices' = [notices EXCEPT ![r] = Tail(@)]
  /\ value' = [value EXCEPT ![r] =
                 IF r \in subscribed \/ Head(notices[r]) = Emptied
                 THEN EventListener(@, Head(notices[r])) ELSE @]
  /\ UNCHANGED <<peers, tables, renderer, texture, sinks, subscribed, closed, windows>>

-----------------------------------------------------------------------------

Next ==
  \/ GetDesktopSources
  \/ \E s \in Streams :
       \/ GetUserMedia(s)
       \/ CreateLocalMediaStream(s)
       \/ MediaStreamGetTracks(s)
       \/ MediaStreamDispose(s)
  \/ \E t \in Tracks : MediaStreamTrackDispose(t)
  \/ \E s \in Streams, t \in Tracks :
       \/ GetDisplayMedia(s, t)
       \/ MediaStreamAddTrack(s, t)
       \/ MediaStreamRemoveTrack(s, t)
  \/ \E p \in Peers : CreateRTCPeerConnection(p) \/ RTCPeerConnectionClose(p)
  \/ \E p \in Peers, s \in Streams : OnAddStream(p, s)
  \/ \E r \in Renderers :
       \/ CreateVideoRendererTexture(r)
       \/ Unsubscribe(r)
       \/ VideoRendererDispose(r)
       \/ TextureUnregistered(r)
       \/ DisposeAnswered(r)
       \/ Receive(r)
  \/ \E r \in Renderers, request \in Request : VideoRendererSetSrcObject(r, request)
  \/ \E r \in Renderers, frame \in Frame : FrameComes(r, frame)

Spec == Init /\ [][Next]_vars

-----------------------------------------------------------------------------
(* Properties *)

OnePerId(xs) == \A x, y \in xs : x.id = y.id => x = y

TablesOK ==
  /\ peer \in [Peers -> {"none", "live", "closed"}]
  /\ remote_streams \in [Peers -> [Streams -> SUBSET Tracks]]
  /\ made \subseteq Streams /\ local_streams \subseteq made
  /\ members \in [Streams -> SUBSET Track]
  /\ kind \in [Tracks -> Kind]
  /\ local_tracks \subseteq Track
  /\ capturers \subseteq Tracks /\ running \subseteq Tracks /\ disposed \subseteq Tracks
  /\ sources \subseteq Sources
  /\ answer \in [Streams -> {"none", "ok", "error"}]
  /\ OnePerId(local_tracks) /\ \A s \in Streams : OnePerId(members[s])

ViewsOK ==
  /\ renderer \in [Renderers -> Renderer(Track)]
  /\ texture \in [Renderers -> {"none", "there", "leaving", "gone"}]
  /\ sinks \subseteq Renderers \X Track
  /\ notices \in [Renderers -> Seq(Notice)]
  /\ value \in [Renderers -> Value]
  /\ subscribed \subseteq Renderers /\ closed \subseteq Renderers
  /\ windows \in BOOLEAN

TypeOK == TablesOK /\ ViewsOK

\* A local track that was disposed of is in no local stream and under no id
\* again, whatever streams shared it and whatever calls are on it later
\* (MediaStreamTrackDispose against MediaStreamGetTracks, which enters tracks).
DisposedTrackStaysGone ==
  \A t \in disposed :
    /\ At(Local, t) \notin local_tracks
    /\ \A s \in local_streams : At(Local, t) \notin members[s]

\* A camera that runs, and whose track was not disposed of, is within reach: its
\* capturer is in the table and its track's id works.
CamerasStayInReach ==
  \A t \in running \ disposed : t \in capturers /\ At(Local, t) \in local_tracks

\* A renderer gets the frames of the track it shows, and of no other, whatever
\* requests and disposals follow each other; on Linux it gets none once it has
\* left the table (SetVideoTrack, VideoRendererDispose).
FramesAreCurrent ==
  /\ sinks = {<<r, renderer[r].track>> : r \in {q \in Renderers : renderer[q].track # NoTrack}}
  /\ ~windows => \A k \in sinks : texture[k[1]] = "there"

\* The size that Dart will have is this one: the last notice on its way that sets
\* a size sets it, or none does and Dart has it.
SetsSize(notice) == notice.about \in {"size", "empty"}
WillHaveSize(r, size) ==
  \/ /\ value[r].size = size
     /\ \A i \in DOMAIN notices[r] : ~SetsSize(notices[r][i])
  \/ \E i \in DOMAIN notices[r] :
       /\ notices[r][i] = SizeIs(size)
       /\ \A j \in DOMAIN notices[r] : j > i => ~SetsSize(notices[r][j])

\* With what is on its way to it, a Dart renderer has the size of the frames its
\* track shows, although both ends forget sizes: the native one when the track
\* changes, Dart when a null source is answered.
SizeIsKnown ==
  \A r \in subscribed :
    renderer[r].size # NoSize => WillHaveSize(r, renderer[r].size)

Table == INSTANCE HandleTable WITH
  Handles <- Streams,
  live <- local_streams,
  dead <- made \ local_streams,
  reply <- answer

\* The ids of local streams are a handle table: every call on a stream that is
\* there finds it, none finds one that was disposed of, and no id comes back.
StreamsAreHandles == Table!Spec
=============================================================================
