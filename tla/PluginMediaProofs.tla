-------------------------- MODULE PluginMediaProofs ---------------------------
(***************************************************************************)
(* The plugin's media tables, for any number of streams, tracks, peer      *)
(* connections and renderers.  That a track stays gone and a camera in     *)
(* reach takes two facts about the tables beside their types: what is in   *)
(* one of them has been given a kind, so a fresh id is in none (Kinds);    *)
(* and while a camera runs, the only track with its id in a local stream   *)
(* is its own (OwnTrackOnly), because MediaTrackForId looks among the      *)
(* local tracks first.  A remote track of that id, as a loopback has it,   *)
(* would otherwise replace the camera's in local_tracks_.  Of the          *)
(* renderers, TextureInv adds that Dart's subscription ends before the     *)
(* native renderer leaves, and that only Windows keeps one that leaves.    *)
(***************************************************************************)
EXTENDS PluginMedia, TLAPS

Kinds ==
  /\ \A t \in disposed : kind[t] # "none"
  /\ \A t \in running : kind[t] = "camera"
  /\ \A s \in Streams : \A x \in members[s] : kind[x.id] # "none"
  /\ \A x \in local_tracks : kind[x.id] # "none"

OwnTrackOnly ==
  \A t \in running \ disposed : \A s \in Streams : \A y \in members[s] :
    y.id = t => y.from = Local

TablesInv ==
  TablesOK /\ Kinds /\ OwnTrackOnly /\ DisposedTrackStaysGone /\ CamerasStayInReach

TextureInv ==
  \A r \in Renderers :
    /\ texture[r] = "none" => renderer[r].track = NoTrack
    /\ texture[r] \in {"leaving", "gone"} => r \notin subscribed
    /\ ~windows => texture[r] # "leaving"

ViewsInv == ViewsOK /\ FramesAreCurrent /\ TextureInv

IInv == TablesInv /\ ViewsInv

-----------------------------------------------------------------------------
LEMMA TablesKept ==
  ASSUME TablesInv, UNCHANGED <<peers, tables>>
  PROVE  TablesInv'
BY DEF TablesInv, TablesOK, Kinds, OwnTrackOnly, DisposedTrackStaysGone, CamerasStayInReach,
   peers, tables, OnePerId

\* The calls on peer connections leave the tables of streams and tracks alone.
LEMMA StreamsKept ==
  ASSUME TablesInv, UNCHANGED tables,
         peer' \in [Peers -> {"none", "live", "closed"}],
         remote_streams' \in [Peers -> [Streams -> SUBSET Tracks]]
  PROVE  TablesInv'
BY DEF TablesInv, TablesOK, Kinds, OwnTrackOnly, DisposedTrackStaysGone, CamerasStayInReach,
   tables, OnePerId

LEMMA ViewsKept ==
  ASSUME ViewsInv, UNCHANGED views
  PROVE  ViewsInv'
BY DEF ViewsInv, ViewsOK, FramesAreCurrent, TextureInv, views

\* Every stream that is made holds new tracks only, one of each id.
LEMMA StreamIsMadeKeeps ==
  ASSUME TablesInv, NEW s \in Streams, NEW ts \in SUBSET Fresh, NEW cams \in SUBSET ts,
         StreamIsMade(s, ts),
         kind' \in [Tracks -> Kind],
         \A t \in ts : kind'[t] # "none",
         \A t \in Tracks \ ts : kind'[t] = kind[t],
         \A t \in cams : kind'[t] = "camera",
         capturers' = capturers \cup cams,
         running' \in {running, running \cup cams},
         UNCHANGED <<peers, disposed, answer>>,
         sources' = sources
  PROVE  TablesInv'
<1>1. ts \subseteq Tracks /\ \A t \in ts : kind[t] = "none"
  BY DEF Fresh
<1>2. /\ made' = made \cup {s}
      /\ local_streams' = local_streams \cup {s}
      /\ members' = [members EXCEPT ![s] = {At(Local, t) : t \in ts}]
      /\ local_tracks' = local_tracks \cup {At(Local, t) : t \in ts}
  BY DEF StreamIsMade
<1>3. \A t \in ts : At(Local, t) \in Track /\ At(Local, t).id = t /\ At(Local, t).from = Local
  BY <1>1 DEF At, Track
<1>4. TablesOK'
  <2>1. OnePerId(local_tracks)' /\ \A r \in Streams : OnePerId(members'[r])
    BY <1>1, <1>2, <1>3 DEF TablesInv, TablesOK, Kinds, OnePerId
  <2>2. members' \in [Streams -> SUBSET Track]
    BY <1>2, <1>3 DEF TablesInv, TablesOK
  <2>3. local_tracks' \subseteq Track
    BY <1>2, <1>3 DEF TablesInv, TablesOK
  <2>4. capturers' \subseteq Tracks /\ running' \subseteq Tracks
    BY <1>1 DEF TablesInv, TablesOK
  <2>5. made' \subseteq Streams /\ local_streams' \subseteq made'
    BY <1>2 DEF TablesInv, TablesOK
  <2>. QED
    BY <2>1, <2>2, <2>3, <2>4, <2>5 DEF TablesInv, TablesOK, peers
<1>5. Kinds'
  <2>1. \A t \in Tracks : kind[t] # "none" => kind'[t] = kind[t] /\ kind'[t] # "none"
    BY <1>1
  <2>2. \A x \in Track : x.id \in Tracks
    BY DEF Track
  <2>3. \A t \in disposed : kind'[t] # "none"
    BY <2>1 DEF TablesInv, TablesOK, Kinds
  <2>4. \A t \in running' : kind'[t] = "camera"
    BY <2>1 DEF TablesInv, TablesOK, Kinds
  <2>5. \A x \in local_tracks' : kind'[x.id] # "none"
    BY <1>2, <1>3, <2>1, <2>2 DEF TablesInv, TablesOK, Kinds
  <2>6. \A r \in Streams : \A x \in members'[r] : kind'[x.id] # "none"
    BY <1>2, <1>3, <2>1, <2>2 DEF TablesInv, TablesOK, Kinds
  <2>. QED
    BY <2>3, <2>4, <2>5, <2>6 DEF Kinds
<1>6. OwnTrackOnly'
  BY <1>1, <1>2, <1>3 DEF TablesInv, TablesOK, Kinds, OwnTrackOnly
<1>7. DisposedTrackStaysGone'
  <2> SUFFICES ASSUME NEW t \in disposed
               PROVE  /\ At(Local, t) \notin local_tracks'
                      /\ \A r \in local_streams' : At(Local, t) \notin members'[r]
    BY DEF DisposedTrackStaysGone
  <2>1. /\ At(Local, t) \notin local_tracks
        /\ \A r \in local_streams : At(Local, t) \notin members[r]
    BY DEF TablesInv, DisposedTrackStaysGone
  <2>2. At(Local, t) \notin {At(Local, u) : u \in ts}
    <3>1. t \notin ts
      BY <1>1 DEF TablesInv, Kinds
    <3>2. At(Local, t).id = t
      BY DEF At
    <3>. QED
      BY <1>3, <3>1, <3>2
  <2>. QED
    BY <1>2, <2>1, <2>2 DEF TablesInv, TablesOK
<1>8. CamerasStayInReach'
  BY <1>1, <1>2, <1>3 DEF TablesInv, TablesOK, CamerasStayInReach
<1>. QED
  BY <1>4, <1>5, <1>6, <1>7, <1>8 DEF TablesInv

-----------------------------------------------------------------------------
(* The calls that make streams. *)

LEMMA GetUserMediaKeeps ==
  ASSUME TablesInv, NEW s \in Streams, GetUserMedia(s)
  PROVE  TablesInv'
<1>1. PICK audio \in AtMostOne(Fresh) : \E video \in AtMostOne(Fresh \ audio) :
        /\ StreamIsMade(s, audio \cup video)
        /\ kind' = [t \in Tracks |-> IF t \in audio THEN "audio"
                                     ELSE IF t \in video THEN "camera" ELSE kind[t]]
        /\ capturers' = capturers \cup video
        /\ running' \in {running, running \cup video}
        /\ UNCHANGED <<peers, disposed, sources, answer, views>>
  BY DEF GetUserMedia
<1>2. PICK video \in AtMostOne(Fresh \ audio) :
        /\ StreamIsMade(s, audio \cup video)
        /\ kind' = [t \in Tracks |-> IF t \in audio THEN "audio"
                                     ELSE IF t \in video THEN "camera" ELSE kind[t]]
        /\ capturers' = capturers \cup video
        /\ running' \in {running, running \cup video}
        /\ UNCHANGED <<peers, disposed, sources, answer, views>>
  BY <1>1
<1>3. audio \subseteq Fresh /\ video \subseteq Fresh \ audio
  BY DEF AtMostOne
<1>4. Fresh \subseteq Tracks /\ kind \in [Tracks -> Kind]
  BY DEF Fresh, TablesInv, TablesOK
<1>5. /\ kind' \in [Tracks -> Kind]
      /\ \A t \in audio \cup video : kind'[t] # "none"
      /\ \A t \in Tracks \ (audio \cup video) : kind'[t] = kind[t]
      /\ \A t \in video : kind'[t] = "camera"
  BY <1>2, <1>3, <1>4 DEF Kind
<1>6. audio \cup video \in SUBSET Fresh /\ video \in SUBSET (audio \cup video)
  BY <1>3
<1>. QED
  BY <1>2, <1>5, <1>6, StreamIsMadeKeeps

LEMMA GetDisplayMediaKeeps ==
  ASSUME TablesInv, NEW s \in Streams, NEW t \in Tracks, GetDisplayMedia(s, t)
  PROVE  TablesInv'
<1>1. /\ t \in Fresh /\ StreamIsMade(s, {t})
      /\ kind' = [kind EXCEPT ![t] = "screen"]
      /\ capturers' = capturers \cup {} /\ running' = running
      /\ UNCHANGED <<peers, disposed, answer>> /\ sources' = sources
  BY DEF GetDisplayMedia
<1>2. kind \in [Tracks -> Kind]
  BY DEF TablesInv, TablesOK
<1>3. /\ kind' \in [Tracks -> Kind]
      /\ \A u \in {t} : kind'[u] # "none"
      /\ \A u \in Tracks \ {t} : kind'[u] = kind[u]
  BY <1>1, <1>2 DEF Kind
<1>4. {t} \in SUBSET Fresh /\ {} \in SUBSET {t} /\ running' \in {running, running \cup {}}
  BY <1>1
<1>. QED
  BY <1>1, <1>3, <1>4, StreamIsMadeKeeps

LEMMA CreateLocalMediaStreamKeeps ==
  ASSUME TablesInv, NEW s \in Streams, CreateLocalMediaStream(s)
  PROVE  TablesInv'
<1>1. /\ StreamIsMade(s, {})
      /\ kind' = kind
      /\ capturers' = capturers \cup {} /\ running' = running
      /\ UNCHANGED <<peers, disposed, answer>> /\ sources' = sources
  BY DEF CreateLocalMediaStream
<1>2. kind \in [Tracks -> Kind]
  BY DEF TablesInv, TablesOK
<1>. QED
  BY <1>1, <1>2, StreamIsMadeKeeps

-----------------------------------------------------------------------------
(* The calls on streams and tracks. *)

\* Entering a stream's tracks again gives up no camera: what has a running
\* camera's id there is the camera's track.
LEMMA MediaStreamGetTracksKeeps ==
  ASSUME TablesInv, NEW s \in Streams, MediaStreamGetTracks(s)
  PROVE  TablesInv'
<1>1. /\ local_tracks' =
           IF s \in local_streams
           THEN members[s] \cup {x \in local_tracks : \A y \in members[s] : y.id # x.id}
           ELSE local_tracks
      /\ UNCHANGED <<peers, made, local_streams, members, kind, capturers, running,
                     disposed, sources>>
  BY DEF MediaStreamGetTracks
<1>2. answer' \in [Streams -> {"none", "ok", "error"}]
  BY DEF MediaStreamGetTracks, Answered, TablesInv, TablesOK
<1>3. members[s] \subseteq Track /\ OnePerId(members[s])
  BY DEF TablesInv, TablesOK
<1>4. TablesOK'
  <2>1. local_tracks' \subseteq Track
    BY <1>1, <1>3 DEF TablesInv, TablesOK
  <2>2. OnePerId(local_tracks)'
    BY <1>1, <1>3 DEF TablesInv, TablesOK, OnePerId
  <2>. QED
    BY <1>1, <1>2, <2>1, <2>2 DEF TablesInv, TablesOK, peers, OnePerId
<1>5. Kinds'
  BY <1>1 DEF TablesInv, Kinds
<1>6. OwnTrackOnly'
  BY <1>1 DEF TablesInv, OwnTrackOnly
<1>7. DisposedTrackStaysGone'
  BY <1>1 DEF TablesInv, DisposedTrackStaysGone
<1>8. CamerasStayInReach'
  <2> SUFFICES ASSUME NEW t \in running \ disposed
               PROVE  At(Local, t) \in local_tracks'
    BY <1>1 DEF TablesInv, CamerasStayInReach
  <2>1. At(Local, t) \in local_tracks /\ At(Local, t).id = t
    BY DEF TablesInv, CamerasStayInReach, At
  <2>2. \A y \in members[s] : y.id = t => y = At(Local, t)
    BY <1>3 DEF TablesInv, OwnTrackOnly, Track, At
  <2>. QED
    BY <1>1, <2>1, <2>2
<1>. QED
  BY <1>4, <1>5, <1>6, <1>7, <1>8 DEF TablesInv

\* An id finds the local track first, and no track that was disposed of.
LEMMA TrackForId ==
  ASSUME TablesInv, NEW t \in Tracks, NEW x \in MediaTrackForId(t)
  PROVE  /\ x \in Track /\ x.id = t
         /\ t \in disposed => x # At(Local, t)
         /\ t \in running \ disposed => x = At(Local, t)
<1>1. CASE x \in local_tracks /\ x.id = t
  <2>1. x \in Track
    BY <1>1 DEF TablesInv, TablesOK
  <2>2. t \in disposed => x # At(Local, t)
    BY <1>1 DEF TablesInv, DisposedTrackStaysGone
  <2>3. ASSUME t \in running \ disposed PROVE x = At(Local, t)
    <3>1. At(Local, t) \in local_tracks /\ At(Local, t).id = t
      BY <2>3 DEF TablesInv, CamerasStayInReach, At
    <3>. QED
      BY <1>1, <3>1 DEF TablesInv, TablesOK, OnePerId
  <2>. QED
    BY <1>1, <2>1, <2>2, <2>3
<1>2. CASE /\ \A y \in local_tracks : y.id # t
           /\ \E p \in Peers : x = At(p, t)
  <2>1. PICK p \in Peers : x = At(p, t)
    BY <1>2
  <2>2. x \in Track /\ x.id = t /\ x.from \in Peers
    BY <2>1 DEF At, Track
  <2>3. x # At(Local, t)
    BY <2>2, PluginMediaAssumption DEF At
  <2>4. t \notin running \ disposed
    <3>1. At(Local, t).id = t
      BY DEF At
    <3>. QED
      BY <1>2, <3>1 DEF TablesInv, CamerasStayInReach
  <2>. QED
    BY <2>2, <2>3, <2>4
<1>. QED
  <2>1. CASE {y \in local_tracks : y.id = t} # {}
    BY <1>1, <2>1 DEF MediaTrackForId
  <2>2. CASE {y \in local_tracks : y.id = t} = {}
    BY <1>2, <2>2 DEF MediaTrackForId
  <2>. QED
    BY <2>1, <2>2

\* Where the members of local streams change, and only by tracks an id finds.
LEMMA MembersChange ==
  ASSUME TablesInv,
         members' \in [Streams -> SUBSET Track],
         answer' \in [Streams -> {"none", "ok", "error"}],
         \A s \in Streams : OnePerId(members'[s]),
         \A s \in Streams : \A x \in members'[s] \ members[s] :
           /\ x.id \in Tracks /\ kind[x.id] # "none"
           /\ x.id \in disposed => x # At(Local, x.id)
           /\ x.id \in running \ disposed => x.from = Local,
         UNCHANGED <<peers, made, local_streams, kind, local_tracks, capturers, running,
                     disposed, sources>>
  PROVE  TablesInv'
<1>1. TablesOK'
  BY DEF TablesInv, TablesOK, peers, OnePerId
<1>2. Kinds'
  BY DEF TablesInv, Kinds, TablesOK
<1>3. OwnTrackOnly'
  BY DEF TablesInv, OwnTrackOnly
<1>4. DisposedTrackStaysGone'
  <2> SUFFICES ASSUME NEW t \in disposed, NEW s \in local_streams, At(Local, t) \in members'[s]
               PROVE  FALSE
    BY DEF TablesInv, DisposedTrackStaysGone
  <2>1. At(Local, t) \notin members[s]
    BY DEF TablesInv, DisposedTrackStaysGone
  <2>2. s \in Streams /\ At(Local, t).id = t
    BY DEF TablesInv, TablesOK, At
  <2>. QED
    BY <2>1, <2>2
<1>5. CamerasStayInReach'
  BY DEF TablesInv, CamerasStayInReach
<1>. QED
  BY <1>1, <1>2, <1>3, <1>4, <1>5 DEF TablesInv

LEMMA MediaStreamAddTrackKeeps ==
  ASSUME TablesInv, NEW s \in Streams, NEW t \in Tracks, MediaStreamAddTrack(s, t)
  PROVE  TablesInv'
<1>1. /\ kind[t] # "none"
      /\ UNCHANGED <<peers, made, local_streams, kind, local_tracks, capturers, running,
                     disposed, sources>>
  BY DEF MediaStreamAddTrack
<1>2. answer' \in [Streams -> {"none", "ok", "error"}]
  BY DEF MediaStreamAddTrack, Answered, TablesInv, TablesOK
<1>3. \/ \E x \in MediaTrackForId(t) :
           members' = [members EXCEPT ![s] = IF \E y \in @ : y.id = t THEN @ ELSE @ \cup {x}]
      \/ members' = members
  BY DEF MediaStreamAddTrack
<1>4. CASE members' = members
  BY <1>1, <1>2, <1>4, MembersChange DEF TablesInv, TablesOK
<1>5. ASSUME NEW x \in MediaTrackForId(t),
             members' = [members EXCEPT ![s] = IF \E y \in @ : y.id = t THEN @ ELSE @ \cup {x}]
      PROVE  TablesInv'
  <2>1. /\ x \in Track /\ x.id = t
        /\ t \in disposed => x # At(Local, t)
        /\ t \in running \ disposed => x.from = Local
    BY TrackForId DEF At
  <2>2. members' \in [Streams -> SUBSET Track]
    BY <1>5, <2>1 DEF TablesInv, TablesOK
  <2>3. \A r \in Streams : OnePerId(members'[r])
    BY <1>5, <2>1 DEF TablesInv, TablesOK, OnePerId
  <2>4. \A r \in Streams : \A z \in members'[r] \ members[r] : z = x
    BY <1>5 DEF TablesInv, TablesOK
  <2>. QED
    BY <1>1, <1>2, <2>1, <2>2, <2>3, <2>4, MembersChange
<1>. QED
  BY <1>3, <1>4, <1>5

LEMMA MediaStreamRemoveTrackKeeps ==
  ASSUME TablesInv, NEW s \in Streams, NEW t \in Tracks, MediaStreamRemoveTrack(s, t)
  PROVE  TablesInv'
<1>1. UNCHANGED <<peers, made, local_streams, kind, local_tracks, capturers, running,
                  disposed, sources>>
  BY DEF MediaStreamRemoveTrack
<1>2. answer' \in [Streams -> {"none", "ok", "error"}]
  BY DEF MediaStreamRemoveTrack, Answered, TablesInv, TablesOK
<1>3. \/ \E x \in MediaTrackForId(t) : members' = [members EXCEPT ![s] = @ \ {x}]
      \/ members' = members
  BY DEF MediaStreamRemoveTrack
<1>4. members' \in [Streams -> SUBSET Track] /\ \A r \in Streams : members'[r] \subseteq members[r]
  BY <1>3 DEF TablesInv, TablesOK
<1>5. \A r \in Streams : OnePerId(members'[r])
  BY <1>4 DEF TablesInv, TablesOK, OnePerId
<1>. QED
  BY <1>1, <1>2, <1>4, <1>5, MembersChange

\* Tables that only lose entries keep the invariant, when no camera that runs on
\* loses its capturer or its track.
LEMMA EntriesGo ==
  ASSUME TablesInv,
         members' \in [Streams -> SUBSET Track],
         answer' \in [Streams -> {"none", "ok", "error"}],
         \A s \in Streams : members'[s] \subseteq members[s],
         local_streams' \subseteq local_streams,
         local_tracks' \subseteq local_tracks,
         capturers' \subseteq capturers, running' \subseteq running,
         disposed \subseteq disposed', disposed' \subseteq Tracks,
         \A t \in disposed' \ disposed :
           /\ kind[t] # "none" /\ At(Local, t) \notin local_tracks'
           /\ \A s \in local_streams' : At(Local, t) \notin members'[s],
         \A t \in running' \ disposed' : t \in capturers' /\ At(Local, t) \in local_tracks',
         UNCHANGED <<peers, made, kind, sources>>
  PROVE  TablesInv'
<1>1. TablesOK'
  <2>1. OnePerId(local_tracks)' /\ \A s \in Streams : OnePerId(members'[s])
    BY DEF TablesInv, TablesOK, OnePerId
  <2>2. /\ local_tracks' \subseteq Track /\ capturers' \subseteq Tracks
        /\ running' \subseteq Tracks /\ made' \subseteq Streams /\ local_streams' \subseteq made'
    BY DEF TablesInv, TablesOK
  <2>. QED
    BY <2>1, <2>2 DEF TablesInv, TablesOK, peers
<1>2. Kinds'
  BY DEF TablesInv, Kinds, TablesOK
<1>3. OwnTrackOnly'
  BY DEF TablesInv, OwnTrackOnly
<1>4. DisposedTrackStaysGone'
  <2> SUFFICES ASSUME NEW t \in disposed
               PROVE  /\ At(Local, t) \notin local_tracks'
                      /\ \A s \in local_streams' : At(Local, t) \notin members'[s]
    BY DEF DisposedTrackStaysGone
  <2>. QED
    BY DEF TablesInv, TablesOK, DisposedTrackStaysGone
<1>5. CamerasStayInReach'
  BY DEF CamerasStayInReach
<1>. QED
  BY <1>1, <1>2, <1>3, <1>4, <1>5 DEF TablesInv

LEMMA MediaStreamDisposeKeeps ==
  ASSUME TablesInv, NEW s \in Streams, MediaStreamDispose(s)
  PROVE  TablesInv'
<1> DEFINE ids == {x.id : x \in members[s]}
           videos == {x.id : x \in {y \in members[s] : IsVideo(y)}}
<1>1. UNCHANGED <<peers, made, kind, disposed, sources>>
  BY DEF MediaStreamDispose
<1>2. answer' \in [Streams -> {"none", "ok", "error"}]
  BY DEF MediaStreamDispose, Answered, TablesInv, TablesOK
<1>3. CASE UNCHANGED <<members, local_tracks, capturers, running, local_streams>>
  BY <1>1, <1>2, <1>3, EntriesGo DEF TablesInv, TablesOK, CamerasStayInReach
<1>4. CASE /\ members' = [members EXCEPT ![s] = {}]
           /\ local_tracks' = {x \in local_tracks : x.id \notin ids}
           /\ CapturersGo(videos)
           /\ local_streams' = local_streams \ {s}
  <2>1. members' \in [Streams -> SUBSET Track] /\ \A r \in Streams : members'[r] \subseteq members[r]
    BY <1>4 DEF TablesInv, TablesOK
  <2>2. capturers' = capturers \ videos /\ running' = running \ (videos \cap capturers)
    BY <1>4 DEF CapturersGo
  <2>3. ASSUME NEW t \in running' \ disposed
        PROVE  t \in capturers' /\ At(Local, t) \in local_tracks'
    <3>1. t \in running \ disposed /\ kind[t] = "camera"
      BY <2>2, <2>3 DEF TablesInv, Kinds
    <3>2. t \in capturers /\ At(Local, t) \in local_tracks
      BY <3>1 DEF TablesInv, CamerasStayInReach
    <3>3. t \notin videos
      BY <2>2, <2>3, <3>2
    <3>4. t \notin ids
      BY <3>1, <3>3 DEF IsVideo
    <3>5. At(Local, t).id = t
      BY DEF At
    <3>. QED
      BY <1>4, <2>2, <3>2, <3>3, <3>4, <3>5
  <2>4. /\ local_tracks' \subseteq local_tracks /\ capturers' \subseteq capturers
        /\ running' \subseteq running /\ local_streams' \subseteq local_streams
        /\ disposed' = disposed /\ disposed' \subseteq Tracks
    BY <1>1, <1>4, <2>2 DEF TablesInv, TablesOK
  <2>. QED
    BY <1>1, <1>2, <2>1, <2>3, <2>4, EntriesGo
<1>. QED
  BY <1>3, <1>4 DEF MediaStreamDispose

LEMMA MediaStreamTrackDisposeKeeps ==
  ASSUME TablesInv, NEW t \in Tracks, MediaStreamTrackDispose(t)
  PROVE  TablesInv'
<1> DEFINE holders == {s \in local_streams : \E x \in members[s] : x.id = t}
<1>1. /\ kind[t] # "none"
      /\ members' = [s \in Streams |-> IF s \in holders THEN {x \in members[s] : x.id # t}
                                       ELSE members[s]]
      /\ \/ CapturersGo({t})
         \/ UNCHANGED <<capturers, running>>
      /\ local_tracks' = {x \in local_tracks : x.id # t}
      /\ disposed' = disposed \cup {t}
      /\ UNCHANGED <<peers, made, local_streams, kind, sources>>
      /\ UNCHANGED answer
  BY DEF MediaStreamTrackDispose
<1>2. members' \in [Streams -> SUBSET Track] /\ \A s \in Streams : members'[s] \subseteq members[s]
  BY <1>1 DEF TablesInv, TablesOK
<1>3. /\ capturers' \subseteq capturers /\ capturers \ {t} \subseteq capturers'
      /\ running' \subseteq running
  BY <1>1 DEF CapturersGo
<1>4. At(Local, t).id = t
  BY DEF At
<1>5. At(Local, t) \notin local_tracks'
  BY <1>1, <1>4
<1>6. \A s \in local_streams' : At(Local, t) \notin members'[s]
  BY <1>1, <1>4 DEF TablesInv, TablesOK
<1>7. ASSUME NEW u \in running' \ disposed'
      PROVE  u \in capturers' /\ At(Local, u) \in local_tracks'
  <2>1. u \in running \ disposed /\ u # t
    BY <1>1, <1>3, <1>7
  <2>2. u \in capturers /\ At(Local, u) \in local_tracks /\ At(Local, u).id = u
    BY <2>1 DEF TablesInv, CamerasStayInReach, At
  <2>. QED
    BY <1>1, <1>3, <2>1, <2>2
<1>8. /\ answer' \in [Streams -> {"none", "ok", "error"}]
      /\ local_streams' \subseteq local_streams /\ local_tracks' \subseteq local_tracks
      /\ disposed \subseteq disposed' /\ disposed' \subseteq Tracks
  BY <1>1 DEF TablesInv, TablesOK
<1>9. \A u \in disposed' \ disposed : u = t
  BY <1>1
<1>. QED
  BY <1>1, <1>2, <1>3, <1>5, <1>6, <1>7, <1>8, <1>9, EntriesGo

\* Peer connections and their streams come and go beside the local tables.
LEMMA PeerStepsKeep ==
  ASSUME TablesInv,
         NEW p \in Peers,
         \/ CreateRTCPeerConnection(p) \/ RTCPeerConnectionClose(p)
         \/ \E s \in Streams : OnAddStream(p, s)
  PROVE  TablesInv' /\ UNCHANGED views
<1>1. UNCHANGED tables /\ UNCHANGED views
  BY DEF CreateRTCPeerConnection, RTCPeerConnectionClose, OnAddStream
<1>2. peer' \in [Peers -> {"none", "live", "closed"}]
  BY DEF CreateRTCPeerConnection, RTCPeerConnectionClose, OnAddStream, TablesInv, TablesOK
<1>3. remote_streams' \in [Peers -> [Streams -> SUBSET Tracks]]
  <2>1. ASSUME NEW s \in Streams, OnAddStream(p, s)
        PROVE  remote_streams' \in [Peers -> [Streams -> SUBSET Tracks]]
    <3>1. {x.id : x \in members[s]} \in SUBSET Tracks
      BY DEF TablesInv, TablesOK, Track
    <3>. QED
      BY <2>1, <3>1 DEF OnAddStream, TablesInv, TablesOK
  <2>. QED
    BY <2>1 DEF CreateRTCPeerConnection, RTCPeerConnectionClose, TablesInv, TablesOK
<1>. QED
  BY <1>1, <1>2, <1>3, StreamsKept

-----------------------------------------------------------------------------
(* Renderers *)

LEMMA SetVideoTrackType ==
  ASSUME NEW ren \in Renderer(Track), NEW x \in Track \cup {NoTrack}
  PROVE  SetVideoTrack(ren, x) \in Renderer(Track) /\ SetVideoTrack(ren, x).track = x
BY DEF SetVideoTrack, Renderer

LEMMA SendsType ==
  ASSUME NEW ren \in Renderer(Track), NEW frame \in Frame
  PROVE  OnFrameSends(ren, frame) \in Seq(Notice)
<1>1. FirstFrame \in Notice /\ RotationIs(frame.rotation) \in Notice /\ SizeIs(frame.size) \in Notice
  BY DEF Notice, Frame
<1>2. (IF ren.first THEN << >> ELSE <<FirstFrame>>) \in Seq(Notice)
  BY <1>1
<1>3. (IF ren.rotation = frame.rotation THEN << >> ELSE <<RotationIs(frame.rotation)>>) \in Seq(Notice)
  BY <1>1
<1>4. (IF ren.size = frame.size THEN << >> ELSE <<SizeIs(frame.size)>>) \in Seq(Notice)
  BY <1>1
<1>5. \A S : \A a, b \in Seq(S) : a \o b \in Seq(S)
  OBVIOUS
<1>. QED
  BY <1>2, <1>3, <1>4, <1>5 DEF OnFrameSends

LEMMA EventListenerType ==
  ASSUME NEW v \in Value, NEW n \in Notice
  PROVE  EventListener(v, n) \in Value
<1>1. EmptyValue \in Value
  BY VideoRendererAssumption DEF EmptyValue, Value
<1>2. CASE n = FirstFrame
  BY <1>2 DEF EventListener, FirstFrame
<1>3. CASE n = Emptied
  BY <1>1, <1>3 DEF EventListener, Emptied
<1>4. ASSUME NEW r \in Rotations, n = RotationIs(r) PROVE EventListener(v, n) \in Value
  BY <1>4 DEF EventListener, RotationIs, Value
<1>5. ASSUME NEW s \in Sizes, n = SizeIs(s) PROVE EventListener(v, n) \in Value
  BY <1>5 DEF EventListener, SizeIs, Value
<1>. QED
  BY <1>2, <1>3, <1>4, <1>5 DEF Notice

\* Whatever a renderer that a call finds shows next, its sinks follow.
LEMMA ShowsKeeps ==
  ASSUME ViewsInv, NEW r \in Renderers, NEW x \in Track \cup {NoTrack},
         Shows(r, x),
         texture' \in [Renderers -> {"there", "leaving", "gone", "none"}],
         \A q \in Renderers \ {r} : texture'[q] = texture[q],
         texture'[r] # "none",
         texture'[r] \in {"leaving", "gone"} => r \notin subscribed,
         ~windows => /\ x = NoTrack \/ texture'[r] = "there"
                     /\ texture'[r] # "leaving",
         notices' \in [Renderers -> Seq(Notice)],
         UNCHANGED <<value, subscribed, closed, windows>>
  PROVE  ViewsInv'
<1>1. renderer' = [renderer EXCEPT ![r] = SetVideoTrack(@, x)]
  BY DEF Shows
<1>2. renderer \in [Renderers -> Renderer(Track)]
  BY DEF ViewsInv, ViewsOK
<1>3. renderer[r] \in Renderer(Track)
  BY <1>2
<1>4. renderer' \in [Renderers -> Renderer(Track)] /\ renderer'[r].track = x
  BY <1>1, <1>2, <1>3, SetVideoTrackType
<1>5. \A q \in Renderers \ {r} : renderer'[q] = renderer[q]
  BY <1>1, <1>2
<1>6. sinks' = {k \in sinks : k[1] # r} \cup ({<<r, x>>} \ {<<r, NoTrack>>})
  BY DEF Shows
<1>7. sinks = {<<q, renderer[q].track>> : q \in {p \in Renderers : renderer[p].track # NoTrack}}
  BY DEF ViewsInv, FramesAreCurrent
<1>8. sinks' = {<<q, renderer'[q].track>> : q \in {p \in Renderers : renderer'[p].track # NoTrack}}
  BY <1>4, <1>5, <1>6, <1>7
<1>9. ~windows => \A k \in sinks' : texture'[k[1]] = "there"
  BY <1>6, <1>7 DEF ViewsInv, FramesAreCurrent
<1>10. sinks' \subseteq Renderers \X Track
  BY <1>6 DEF ViewsInv, ViewsOK
<1>11. TextureInv'
  BY <1>5 DEF ViewsInv, TextureInv
<1>. QED
  BY <1>4, <1>8, <1>9, <1>10, <1>11 DEF ViewsInv, ViewsOK, FramesAreCurrent

LEMMA ChosenType ==
  ASSUME TablesInv, ViewsInv, NEW r \in Renderers, NEW request \in Request
  PROVE  Chosen(r, request) \subseteq Track \cup {NoTrack}
<1>1. renderer[r].track \in Track \cup {NoTrack}
  BY DEF ViewsInv, ViewsOK, Renderer
<1>2. ASSUME request # Nothing
      PROVE  TracksOf(request.stream, request.owner) \subseteq Track
  <2>1. request.stream \in Streams /\ request.owner \in {Local} \cup Peers
    BY <1>2 DEF Request
  <2>2. members[request.stream] \subseteq Track
    BY <2>1 DEF TablesInv, TablesOK
  <2>3. ASSUME request.owner \in Peers
        PROVE  {At(request.owner, t) : t \in remote_streams[request.owner][request.stream]} \subseteq Track
    BY <2>1, <2>3 DEF TablesInv, TablesOK, At, Track
  <2>. QED
    BY <2>1, <2>2, <2>3 DEF TracksOf, RemoteStreamIsThere
<1>. QED
  BY <1>1, <1>2 DEF Chosen

LEMMA SetSrcObjectKeeps ==
  ASSUME TablesInv, ViewsInv, NEW r \in Renderers, NEW request \in Request,
         VideoRendererSetSrcObject(r, request)
  PROVE  ViewsInv'
<1>1. notices' \in [Renderers -> Seq(Notice)]
  <2>1. Emptied \in Notice
    BY DEF Notice
  <2>. QED
    BY <2>1 DEF VideoRendererSetSrcObject, ViewsInv, ViewsOK
<1>2. UNCHANGED <<texture, value, subscribed, closed, windows>>
  BY DEF VideoRendererSetSrcObject
<1>3. CASE texture[r] \in {"there", "leaving"} /\ \E x \in Chosen(r, request) : Shows(r, x)
  <2>1. PICK x \in Track \cup {NoTrack} : Shows(r, x)
    BY <1>3, ChosenType
  <2>2. /\ texture' \in [Renderers -> {"there", "leaving", "gone", "none"}]
        /\ \A q \in Renderers \ {r} : texture'[q] = texture[q]
    BY <1>2 DEF ViewsInv, ViewsOK
  <2>3. /\ texture'[r] # "none"
        /\ texture'[r] \in {"leaving", "gone"} => r \notin subscribed
        /\ ~windows => texture'[r] = "there"
    BY <1>2, <1>3 DEF ViewsInv, TextureInv
  <2>. QED
    BY <1>1, <1>2, <2>1, <2>2, <2>3, ShowsKeeps
<1>4. CASE UNCHANGED <<renderer, sinks>>
  BY <1>1, <1>2, <1>4 DEF ViewsInv, ViewsOK, FramesAreCurrent, TextureInv
<1>. QED
  BY <1>3, <1>4 DEF VideoRendererSetSrcObject

LEMMA FrameComesKeeps ==
  ASSUME ViewsInv, NEW r \in Renderers, NEW frame \in Frame, FrameComes(r, frame)
  PROVE  ViewsInv'
<1>1. renderer[r] \in Renderer(Track)
  BY DEF ViewsInv, ViewsOK
<1>2. OnFrame(renderer[r], frame) \in Renderer(Track)
      /\ OnFrame(renderer[r], frame).track = renderer[r].track
  BY <1>1 DEF OnFrame, Renderer, Frame
<1>3. notices' \in [Renderers -> Seq(Notice)]
  <2>1. OnFrameSends(renderer[r], frame) \in Seq(Notice)
    BY <1>1, SendsType
  <2>2. notices[r] \o OnFrameSends(renderer[r], frame) \in Seq(Notice)
    BY <2>1 DEF ViewsInv, ViewsOK
  <2>. QED
    BY <2>2 DEF FrameComes, ViewsInv, ViewsOK
<1>4. /\ renderer' \in [Renderers -> Renderer(Track)]
      /\ \A q \in Renderers : renderer'[q].track = renderer[q].track
  BY <1>2 DEF FrameComes, ViewsInv, ViewsOK
<1>5. UNCHANGED <<texture, sinks, value, subscribed, closed, windows>>
  BY DEF FrameComes
<1>6. ViewsOK'
  BY <1>3, <1>4, <1>5 DEF ViewsInv, ViewsOK
<1>7. FramesAreCurrent' /\ TextureInv'
  BY <1>4, <1>5 DEF ViewsInv, FramesAreCurrent, TextureInv
<1>. QED
  BY <1>6, <1>7 DEF ViewsInv

LEMMA RendererStepsKeep ==
  ASSUME ViewsInv, NEW r \in Renderers,
         \/ CreateVideoRendererTexture(r) \/ Unsubscribe(r) \/ VideoRendererDispose(r)
         \/ TextureUnregistered(r) \/ DisposeAnswered(r) \/ Receive(r)
  PROVE  ViewsInv'
<1>1. CASE CreateVideoRendererTexture(r)
  <2>1. ViewsOK' /\ FramesAreCurrent'
    BY <1>1 DEF CreateVideoRendererTexture, ViewsInv, ViewsOK, FramesAreCurrent
  <2>2. TextureInv'
    BY <1>1 DEF CreateVideoRendererTexture, ViewsInv, ViewsOK, TextureInv
  <2>. QED
    BY <2>1, <2>2 DEF ViewsInv
<1>2. CASE Unsubscribe(r)
  BY <1>2 DEF Unsubscribe, ViewsInv, ViewsOK, FramesAreCurrent, TextureInv
<1>3. CASE VideoRendererDispose(r)
  <2>1. /\ r \notin subscribed /\ Shows(r, NoTrack)
        /\ texture' = [texture EXCEPT ![r] = IF windows THEN "leaving" ELSE "gone"]
        /\ UNCHANGED <<notices, value, subscribed, closed, windows>>
    BY <1>3 DEF VideoRendererDispose, Leaves
  <2>2. /\ texture' \in [Renderers -> {"there", "leaving", "gone", "none"}]
        /\ \A q \in Renderers \ {r} : texture'[q] = texture[q]
        /\ texture'[r] = IF windows THEN "leaving" ELSE "gone"
    BY <2>1 DEF ViewsInv, ViewsOK
  <2>3. notices' \in [Renderers -> Seq(Notice)]
    BY <2>1 DEF ViewsInv, ViewsOK
  <2>. QED
    BY <2>1, <2>2, <2>3, ShowsKeeps
<1>5. CASE TextureUnregistered(r)
  <2>1. /\ texture[r] = "leaving" /\ texture' = [texture EXCEPT ![r] = "gone"]
        /\ UNCHANGED <<renderer, sinks, notices, value, subscribed, closed, windows>>
    BY <1>5 DEF TextureUnregistered
  <2>2. windows /\ r \notin subscribed
    BY <2>1 DEF ViewsInv, TextureInv
  <2>3. ViewsOK'
    BY <2>1 DEF ViewsInv, ViewsOK
  <2>4. FramesAreCurrent'
    BY <2>1, <2>2 DEF ViewsInv, FramesAreCurrent
  <2>5. TextureInv'
    BY <2>1, <2>2 DEF ViewsInv, ViewsOK, TextureInv
  <2>. QED
    BY <2>3, <2>4, <2>5 DEF ViewsInv
<1>6. CASE DisposeAnswered(r)
  BY <1>6 DEF DisposeAnswered, ViewsInv, ViewsOK, FramesAreCurrent, TextureInv
<1>4. CASE Receive(r)
  <2>1. notices[r] \in Seq(Notice) /\ notices[r] # << >> /\ value[r] \in Value
    BY <1>4 DEF Receive, ViewsInv, ViewsOK
  <2>2. Head(notices[r]) \in Notice /\ Tail(notices[r]) \in Seq(Notice)
    BY <2>1
  <2>3. EventListener(value[r], Head(notices[r])) \in Value
    BY <2>1, <2>2, EventListenerType
  <2>4. notices' \in [Renderers -> Seq(Notice)]
    BY <1>4, <2>2 DEF Receive, ViewsInv, ViewsOK
  <2>5. value' \in [Renderers -> Value]
    BY <1>4, <2>1, <2>3 DEF Receive, ViewsInv, ViewsOK
  <2>. QED
    BY <1>4, <2>4, <2>5 DEF Receive, ViewsInv, ViewsOK, FramesAreCurrent, TextureInv
<1>. QED
  BY <1>1, <1>2, <1>3, <1>4, <1>5, <1>6

-----------------------------------------------------------------------------
LEMMA InitIInv == Init => IInv
<1>. SUFFICES ASSUME Init PROVE IInv
  OBVIOUS
<1>1. TablesOK
  BY DEF Init, TablesOK, Kind, OnePerId
<1>2. NewRenderer \in Renderer(Track) /\ EmptyValue \in Value
  BY VideoRendererAssumption DEF NewRenderer, Renderer, EmptyValue, Value
<1>3. ViewsOK
  BY <1>2 DEF Init, ViewsOK
<1>4. FramesAreCurrent /\ TextureInv
  BY DEF Init, FramesAreCurrent, TextureInv, NewRenderer
<1>5. Kinds /\ OwnTrackOnly /\ DisposedTrackStaysGone /\ CamerasStayInReach
  BY DEF Init, Kinds, OwnTrackOnly, DisposedTrackStaysGone, CamerasStayInReach
<1>. QED
  BY <1>1, <1>3, <1>4, <1>5 DEF IInv, TablesInv, ViewsInv

LEMMA NextIInv == IInv /\ [Next]_vars => IInv'
<1>. SUFFICES ASSUME IInv, [Next]_vars PROVE IInv'
  OBVIOUS
<1>. USE DEF IInv
<1>1. CASE GetDesktopSources
  <2>1. TablesInv'
    BY <1>1 DEF GetDesktopSources, TablesInv, TablesOK, Kinds, OwnTrackOnly,
       DisposedTrackStaysGone, CamerasStayInReach, peers, OnePerId
  <2>. QED
    BY <1>1, <2>1, ViewsKept DEF GetDesktopSources
<1>2. ASSUME NEW s \in Streams,
             GetUserMedia(s) \/ CreateLocalMediaStream(s) \/ MediaStreamGetTracks(s)
               \/ MediaStreamDispose(s)
      PROVE  IInv'
  <2>1. TablesInv'
    BY <1>2, GetUserMediaKeeps, CreateLocalMediaStreamKeeps, MediaStreamGetTracksKeeps,
       MediaStreamDisposeKeeps
  <2>2. UNCHANGED views
    BY <1>2 DEF GetUserMedia, CreateLocalMediaStream, MediaStreamGetTracks, MediaStreamDispose
  <2>. QED
    BY <2>1, <2>2, ViewsKept
<1>3. ASSUME NEW t \in Tracks, MediaStreamTrackDispose(t) PROVE IInv'
  BY <1>3, MediaStreamTrackDisposeKeeps, ViewsKept DEF MediaStreamTrackDispose
<1>4. ASSUME NEW s \in Streams, NEW t \in Tracks,
             GetDisplayMedia(s, t) \/ MediaStreamAddTrack(s, t) \/ MediaStreamRemoveTrack(s, t)
      PROVE  IInv'
  <2>1. TablesInv'
    BY <1>4, GetDisplayMediaKeeps, MediaStreamAddTrackKeeps, MediaStreamRemoveTrackKeeps
  <2>2. UNCHANGED views
    BY <1>4 DEF GetDisplayMedia, MediaStreamAddTrack, MediaStreamRemoveTrack
  <2>. QED
    BY <2>1, <2>2, ViewsKept
<1>5. ASSUME NEW p \in Peers,
             \/ CreateRTCPeerConnection(p) \/ RTCPeerConnectionClose(p)
             \/ \E s \in Streams : OnAddStream(p, s)
      PROVE  IInv'
  BY <1>5, PeerStepsKeep, ViewsKept
<1>6. ASSUME NEW r \in Renderers,
             \/ CreateVideoRendererTexture(r) \/ Unsubscribe(r) \/ VideoRendererDispose(r)
             \/ TextureUnregistered(r) \/ DisposeAnswered(r) \/ Receive(r)
      PROVE  IInv'
  <2>1. ViewsInv'
    BY <1>6, RendererStepsKeep
  <2>2. UNCHANGED <<peers, tables>>
    BY <1>6 DEF CreateVideoRendererTexture, Unsubscribe, VideoRendererDispose,
       TextureUnregistered, DisposeAnswered, Receive
  <2>. QED
    BY <2>1, <2>2, TablesKept
<1>7. ASSUME NEW r \in Renderers, NEW request \in Request, VideoRendererSetSrcObject(r, request)
      PROVE  IInv'
  BY <1>7, SetSrcObjectKeeps, TablesKept DEF VideoRendererSetSrcObject
<1>8. ASSUME NEW r \in Renderers, NEW frame \in Frame, FrameComes(r, frame) PROVE IInv'
  BY <1>8, FrameComesKeeps, TablesKept DEF FrameComes
<1>9. CASE UNCHANGED vars
  BY <1>9, TablesKept, ViewsKept DEF vars
<1>. QED
  BY <1>1, <1>2, <1>3, <1>4, <1>5, <1>6, <1>7, <1>8, <1>9 DEF Next

\* The invariant holds of every behaviour of the tables and the renderers.
THEOREM Invariance == Spec => []IInv
<1>. QED
  BY InitIInv, NextIInv, PTL DEF Spec

\* The tables, the renderers and what is on its way to Dart are well formed, and
\* no table has two tracks of one id.
THEOREM TypeCorrect == Spec => []TypeOK
<1>1. IInv => TypeOK
  BY DEF IInv, TablesInv, ViewsInv, TypeOK
<1>. QED
  BY <1>1, Invariance, PTL

\* For any number of streams that share it, a local track that was disposed of
\* comes back under its id in none of them (MediaStreamTrackDispose).
THEOREM DisposedTracksStayGone == Spec => []DisposedTrackStaysGone
<1>1. IInv => DisposedTrackStaysGone
  BY DEF IInv, TablesInv
<1>. QED
  BY <1>1, Invariance, PTL

\* No running camera is lost while its track was not disposed of, loopbacks with
\* remote tracks of the same id included (MediaTrackForId, MediaStreamGetTracks).
THEOREM CamerasInReach == Spec => []CamerasStayInReach
<1>1. IInv => CamerasStayInReach
  BY DEF IInv, TablesInv
<1>. QED
  BY <1>1, Invariance, PTL

\* In either build no renderer gets frames of a track it no longer shows, and on
\* Linux it gets none after its end; on Windows it may, while the engine's
\* callback is awaited (SetVideoTrack, VideoRendererDispose).
THEOREM RenderersFollowTracks == Spec => []FramesAreCurrent
<1>1. IInv => FramesAreCurrent
  BY DEF IInv, ViewsInv
<1>. QED
  BY <1>1, Invariance, PTL

-----------------------------------------------------------------------------
(* What sizes Dart's renderers have.                                       *)

\* A renderer that shows no track has no size to tell.
NoTrackNoSize == \A r \in Renderers : renderer[r].track = NoTrack => renderer[r].size = NoSize

SizeInv == NoTrackNoSize /\ SizeIsKnown

LEMMA ConcatElements ==
  ASSUME NEW S, NEW s \in Seq(S), NEW e \in Seq(S)
  PROVE  /\ s \o e \in Seq(S) /\ Len(s \o e) = Len(s) + Len(e)
         /\ \A i \in 1 .. Len(s) : (s \o e)[i] = s[i]
         /\ \A i \in 1 .. Len(e) : (s \o e)[Len(s) + i] = e[i]
         /\ \A i \in 1 .. Len(s \o e) : i \in 1 .. Len(s) \/ i - Len(s) \in 1 .. Len(e)
OBVIOUS

\* A frame's events end with its size when it is a new one, and set none otherwise.
LEMMA SendsElements ==
  ASSUME NEW ren \in Renderer(Track), NEW frame \in Frame
  PROVE  LET e == OnFrameSends(ren, frame)
         IN /\ ren.size = frame.size => \A i \in 1 .. Len(e) : ~SetsSize(e[i])
            /\ ren.size # frame.size => Len(e) > 0 /\ e[Len(e)] = SizeIs(frame.size)
<1> DEFINE a == IF ren.first THEN << >> ELSE <<FirstFrame>>
           b == IF ren.rotation = frame.rotation THEN << >> ELSE <<RotationIs(frame.rotation)>>
           e == OnFrameSends(ren, frame)
<1>0. /\ FirstFrame \in Notice /\ RotationIs(frame.rotation) \in Notice
      /\ SizeIs(frame.size) \in Notice
  BY DEF Notice, Frame
<1>1. a \in Seq(Notice) /\ \A i \in 1 .. Len(a) : ~SetsSize(a[i])
  BY <1>0 DEF SetsSize, FirstFrame
<1>2. b \in Seq(Notice) /\ \A i \in 1 .. Len(b) : ~SetsSize(b[i])
  BY <1>0 DEF SetsSize, RotationIs
<1>3. CASE ren.size = frame.size
  <2>1. e = (a \o b) \o << >>
    BY <1>3 DEF OnFrameSends
  <2> HIDE DEF a, b, e
  <2>2. e = a \o b
    BY <1>1, <1>2, <2>1
  <2>3. \A i \in 1 .. Len(e) : ~SetsSize(e[i])
    <3> SUFFICES ASSUME NEW i \in 1 .. Len(a \o b) PROVE ~SetsSize((a \o b)[i])
      BY <2>2
    <3>1. CASE i \in 1 .. Len(a)
      BY <1>1, <1>2, <3>1, ConcatElements
    <3>2. CASE i - Len(a) \in 1 .. Len(b)
      <4>1. (a \o b)[Len(a) + (i - Len(a))] = b[i - Len(a)]
        BY <1>1, <1>2, <3>2, ConcatElements
      <4>2. Len(a) + (i - Len(a)) = i
        BY <1>1
      <4>. QED
        BY <1>2, <3>2, <4>1, <4>2
    <3>. QED
      BY <1>1, <1>2, <3>1, <3>2, ConcatElements
  <2>. QED
    BY <1>3, <2>3 DEF e
<1>4. CASE ren.size # frame.size
  <2>1. e = (a \o b) \o <<SizeIs(frame.size)>>
    BY <1>4 DEF OnFrameSends
  <2> HIDE DEF a, b, e
  <2> DEFINE s == a \o b
             z == <<SizeIs(frame.size)>>
  <2>2. s \in Seq(Notice) /\ z \in Seq(Notice) /\ Len(z) = 1 /\ z[1] = SizeIs(frame.size)
    BY <1>0, <1>1, <1>2
  <2>3. e = s \o z
    BY <2>1
  <2> HIDE DEF s, z
  <2>4. s \in Seq(Notice) /\ z \in Seq(Notice)
    BY <2>2
  <2>5. /\ Len(s \o z) = Len(s) + Len(z)
        /\ \A i \in 1 .. Len(z) : (s \o z)[Len(s) + i] = z[i]
    BY ONLY <2>4, ConcatElements
  <2>6. Len(s) \in Nat
    BY ONLY <2>4
  <2>7. Len(e) = Len(s) + 1 /\ e[Len(s) + 1] = SizeIs(frame.size)
    BY <2>2, <2>3, <2>5
  <2>. QED
    BY <1>4, <2>6, <2>7 DEF e
<1>. QED
  BY <1>3, <1>4

\* A frame tells Dart its size, or Dart will have that size already.
LEMMA FrameTellsSize ==
  ASSUME ViewsInv, SizeInv, NEW r \in Renderers, NEW frame \in Frame, FrameComes(r, frame)
  PROVE  SizeInv'
<1> DEFINE e == OnFrameSends(renderer[r], frame)
           s == notices[r]
<1>0. /\ renderer \in [Renderers -> Renderer(Track)] /\ renderer[r] \in Renderer(Track)
      /\ notices \in [Renderers -> Seq(Notice)] /\ s \in Seq(Notice)
      /\ subscribed \subseteq Renderers
  BY DEF ViewsInv, ViewsOK
<1>1. /\ e \in Seq(Notice)
      /\ renderer[r].size = frame.size => \A i \in 1 .. Len(e) : ~SetsSize(e[i])
      /\ renderer[r].size # frame.size => Len(e) > 0 /\ e[Len(e)] = SizeIs(frame.size)
  BY <1>0, SendsElements, SendsType
<1>2. /\ notices' = [notices EXCEPT ![r] = s \o e]
      /\ renderer' = [renderer EXCEPT ![r] = OnFrame(@, frame)]
      /\ UNCHANGED <<value, subscribed>> /\ \E k \in sinks : k[1] = r
  BY DEF FrameComes
<1>3. notices'[r] = s \o e /\ renderer'[r] = OnFrame(renderer[r], frame)
      /\ \A q \in Renderers \ {r} : notices'[q] = notices[q] /\ renderer'[q] = renderer[q]
  BY <1>0, <1>2
<1>4. renderer'[r].size = frame.size /\ frame.size # NoSize
      /\ renderer'[r].track = renderer[r].track
  BY <1>0, <1>3, VideoRendererAssumption DEF OnFrame, Renderer, Frame
<1>5. NoTrackNoSize'
  <2>1. renderer[r].track # NoTrack
    BY <1>2 DEF ViewsInv, FramesAreCurrent
  <2>. QED
    BY <1>3, <1>4, <2>1 DEF SizeInv, NoTrackNoSize
<1> HIDE DEF e, s
<1>6. /\ s \o e \in Seq(Notice) /\ Len(s \o e) = Len(s) + Len(e)
      /\ Len(s) \in Nat /\ Len(e) \in Nat
      /\ DOMAIN s = 1 .. Len(s) /\ DOMAIN (s \o e) = 1 .. Len(s \o e)
      /\ \A i \in 1 .. Len(s) : (s \o e)[i] = s[i]
      /\ \A i \in 1 .. Len(e) : (s \o e)[Len(s) + i] = e[i]
      /\ \A i \in 1 .. Len(s \o e) : i \in 1 .. Len(s) \/ i - Len(s) \in 1 .. Len(e)
  BY <1>0, <1>1, ConcatElements
<1>7. ASSUME r \in subscribed PROVE WillHaveSize(r, frame.size)'
  <2>1. CASE renderer[r].size # frame.size
    <3>1. Len(s \o e) \in DOMAIN (s \o e) /\ (s \o e)[Len(s \o e)] = SizeIs(frame.size)
      BY <1>1, <1>6, <2>1
    <3>2. \A j \in DOMAIN (s \o e) : ~(j > Len(s \o e))
      BY <1>6
    <3>. QED
      BY <1>3, <3>1, <3>2 DEF WillHaveSize
  <2>2. CASE renderer[r].size = frame.size
    <3>1. \A j \in DOMAIN (s \o e) :
            \/ j \in DOMAIN s /\ (s \o e)[j] = s[j]
            \/ ~SetsSize((s \o e)[j])
      <4> SUFFICES ASSUME NEW j \in 1 .. Len(s \o e), j - Len(s) \in 1 .. Len(e)
                   PROVE  ~SetsSize((s \o e)[j])
        BY <1>6
      <4>1. (s \o e)[Len(s) + (j - Len(s))] = e[j - Len(s)] /\ Len(s) + (j - Len(s)) = j
        BY <1>6
      <4>. QED
        BY <1>1, <2>2, <4>1
    <3>2. WillHaveSize(r, frame.size)
      BY <1>4, <1>7, <2>2 DEF SizeInv, SizeIsKnown
    <3>3. CASE value[r].size = frame.size /\ \A i \in DOMAIN s : ~SetsSize(s[i])
      BY <1>2, <1>3, <3>1, <3>3 DEF WillHaveSize
    <3>4. ASSUME NEW i \in DOMAIN s, s[i] = SizeIs(frame.size),
                 \A j \in DOMAIN s : j > i => ~SetsSize(s[j])
          PROVE  WillHaveSize(r, frame.size)'
      <4>1. i \in DOMAIN (s \o e) /\ (s \o e)[i] = SizeIs(frame.size)
        BY <1>6, <3>4
      <4>2. \A j \in DOMAIN (s \o e) : j > i => ~SetsSize((s \o e)[j])
        BY <3>1, <3>4
      <4>. QED
        BY <1>3, <4>1, <4>2 DEF WillHaveSize
    <3>. QED
      BY <3>2, <3>3, <3>4 DEF WillHaveSize, s
  <2>. QED
    BY <2>1, <2>2
<1>8. ASSUME NEW q \in subscribed, q # r, renderer[q].size # NoSize
      PROVE  WillHaveSize(q, renderer[q].size)'
  BY <1>0, <1>2, <1>3, <1>8 DEF SizeInv, SizeIsKnown, WillHaveSize
<1>9. SizeIsKnown'
  BY <1>0, <1>2, <1>3, <1>4, <1>7, <1>8 DEF SizeIsKnown
<1>. QED
  BY <1>5, <1>9 DEF SizeInv

\* A renderer that is given another track, or none, forgets the old one's size; an
\* emptied value in Dart is on its way only when it has forgotten, or when Dart's
\* object takes no events any more.
LEMMA SetSrcObjectKeepsSize ==
  ASSUME ViewsInv, SizeInv, NEW r \in Renderers, NEW request \in Request,
         VideoRendererSetSrcObject(r, request)
  PROVE  SizeInv'
<1>0. /\ renderer \in [Renderers -> Renderer(Track)]
      /\ notices \in [Renderers -> Seq(Notice)] /\ subscribed \subseteq Renderers
  BY DEF ViewsInv, ViewsOK
<1>1. /\ UNCHANGED <<value, subscribed>>
      /\ notices' = [notices EXCEPT ![r] = IF request = Nothing THEN Append(@, Emptied) ELSE @]
      /\ \/ \E x \in Chosen(r, request) :
              renderer' = [renderer EXCEPT ![r] = SetVideoTrack(@, x)]
         \/ texture[r] = "gone" /\ renderer' = renderer
  BY DEF VideoRendererSetSrcObject, Shows
<1>2. \A q \in Renderers \ {r} : renderer'[q] = renderer[q] /\ notices'[q] = notices[q]
  BY <1>0, <1>1
<1>3. /\ renderer'[r].track = NoTrack => renderer'[r].size = NoSize
      /\ \/ renderer'[r].size = NoSize
         \/ renderer'[r] = renderer[r] /\ notices'[r] = notices[r]
         \/ r \notin subscribed
  <2>1. CASE texture[r] = "gone" /\ renderer' = renderer
    BY <2>1 DEF ViewsInv, TextureInv, SizeInv, NoTrackNoSize
  <2>2. ASSUME NEW x \in Chosen(r, request),
               renderer' = [renderer EXCEPT ![r] = SetVideoTrack(@, x)]
        PROVE  /\ renderer'[r].track = NoTrack => renderer'[r].size = NoSize
               /\ \/ renderer'[r].size = NoSize
                  \/ renderer'[r] = renderer[r] /\ notices'[r] = notices[r]
    <3>1. renderer'[r] = SetVideoTrack(renderer[r], x) /\ renderer[r] \in Renderer(Track)
      BY <1>0, <2>2
    <3>2. CASE renderer[r].track # x
      BY <3>1, <3>2 DEF SetVideoTrack, Renderer
    <3>3. CASE renderer[r].track = x
      <4>1. renderer'[r] = renderer[r]
        BY <3>1, <3>3 DEF SetVideoTrack
      <4>2. request = Nothing => x = NoTrack
        BY DEF Chosen
      <4>. QED
        BY <1>0, <1>1, <3>3, <4>1, <4>2 DEF SizeInv, NoTrackNoSize
    <3>. QED
      BY <3>2, <3>3
  <2>. QED
    BY <1>1, <2>1, <2>2
<1>4. NoTrackNoSize'
  BY <1>2, <1>3 DEF SizeInv, NoTrackNoSize
<1>5. SizeIsKnown'
  <2> SUFFICES ASSUME NEW q \in subscribed, renderer'[q].size # NoSize
               PROVE  WillHaveSize(q, renderer[q].size)'
    BY <1>1 DEF SizeIsKnown
  <2>1. renderer'[q] = renderer[q] /\ notices'[q] = notices[q] /\ value'[q] = value[q]
    BY <1>0, <1>1, <1>2, <1>3
  <2>2. WillHaveSize(q, renderer[q].size)
    BY <2>1 DEF SizeInv, SizeIsKnown
  <2>. QED
    BY <2>1, <2>2 DEF WillHaveSize
<1>. QED
  BY <1>4, <1>5 DEF SizeInv

\* What Dart takes off its way is what it has next.
LEMMA ReceiveKeepsSize ==
  ASSUME ViewsInv, SizeInv, NEW r \in Renderers, Receive(r)
  PROVE  SizeInv'
<1> DEFINE s == notices[r]
<1>0. /\ notices \in [Renderers -> Seq(Notice)] /\ s \in Seq(Notice) /\ s # << >>
      /\ value \in [Renderers -> Value] /\ subscribed \subseteq Renderers
      /\ notices' = [notices EXCEPT ![r] = Tail(s)]
      /\ UNCHANGED <<renderer, subscribed>>
      /\ r \in subscribed => value' = [value EXCEPT ![r] = EventListener(@, Head(s))]
      /\ \A q \in Renderers \ {r} : notices'[q] = notices[q] /\ value'[q] = value[q]
  BY DEF ViewsInv, ViewsOK, Receive
<1>1. /\ notices'[r] = Tail(s)
      /\ r \in subscribed => value'[r] = EventListener(value[r], Head(s))
  BY <1>0
<1> HIDE DEF s
<1>2. /\ Len(s) \in Nat /\ DOMAIN s = 1 .. Len(s) /\ 1 \in DOMAIN s
      /\ Head(s) = s[1] /\ s[1] \in Notice
      /\ DOMAIN Tail(s) = 1 .. (Len(s) - 1)
      /\ \A i \in DOMAIN Tail(s) : i + 1 \in DOMAIN s /\ Tail(s)[i] = s[i + 1]
      /\ \A i \in DOMAIN s : i # 1 => i - 1 \in DOMAIN Tail(s) /\ Tail(s)[i - 1] = s[i]
  BY <1>0
<1>3. /\ \A size : s[1] = SizeIs(size) => EventListener(value[r], s[1]).size = size
      /\ ~SetsSize(s[1]) => EventListener(value[r], s[1]).size = value[r].size
  <2>0. value[r] \in Value
    BY <1>0
  <2>1. \A size : s[1] = SizeIs(size) => EventListener(value[r], s[1]).size = size
    BY <2>0 DEF EventListener, SizeIs, Value
  <2>2. CASE s[1] = FirstFrame
    BY <2>1, <2>2 DEF EventListener, FirstFrame
  <2>3. CASE s[1] = Emptied
    BY <2>1, <2>3 DEF SetsSize, Emptied
  <2>4. CASE \E x \in Rotations : s[1] = RotationIs(x)
    BY <2>0, <2>1, <2>4 DEF EventListener, RotationIs, Value
  <2>5. CASE \E x \in Sizes : s[1] = SizeIs(x)
    BY <2>1, <2>5 DEF SetsSize, SizeIs
  <2>. QED
    BY <1>2, <2>2, <2>3, <2>4, <2>5 DEF Notice
<1>4. ASSUME r \in subscribed, NEW size, WillHaveSize(r, size)
      PROVE  WillHaveSize(r, size)'
  <2>1. CASE value[r].size = size /\ \A i \in DOMAIN s : ~SetsSize(s[i])
    <3>1. value'[r].size = size
      BY <1>1, <1>2, <1>3, <1>4, <2>1
    <3>2. \A i \in DOMAIN Tail(s) : ~SetsSize(Tail(s)[i])
      BY <1>2, <2>1
    <3>. QED
      BY <1>1, <3>1, <3>2 DEF WillHaveSize
  <2>2. ASSUME NEW i \in DOMAIN s, s[i] = SizeIs(size),
               \A j \in DOMAIN s : j > i => ~SetsSize(s[j])
        PROVE  WillHaveSize(r, size)'
    <3>1. CASE i = 1
      <4>1. value'[r].size = size
        BY <1>1, <1>2, <1>3, <1>4, <2>2, <3>1
      <4>2. \A j \in DOMAIN Tail(s) : ~SetsSize(Tail(s)[j])
        BY <1>2, <2>2, <3>1
      <4>. QED
        BY <1>1, <4>1, <4>2 DEF WillHaveSize
    <3>2. CASE i # 1
      <4>1. i - 1 \in DOMAIN Tail(s) /\ Tail(s)[i - 1] = SizeIs(size)
        BY <1>2, <2>2, <3>2
      <4>2. \A j \in DOMAIN Tail(s) : j > i - 1 => ~SetsSize(Tail(s)[j])
        BY <1>2, <2>2
      <4>. QED
        BY <1>1, <4>1, <4>2 DEF WillHaveSize
    <3>. QED
      BY <3>1, <3>2
  <2>. QED
    BY <1>4, <2>1, <2>2 DEF WillHaveSize, s
<1>5. ASSUME NEW q \in subscribed, q # r, NEW size, WillHaveSize(q, size)
      PROVE  WillHaveSize(q, size)'
  <2>1. notices'[q] = notices[q] /\ value'[q] = value[q]
    BY <1>0, <1>5
  <2>. QED
    BY <1>5, <2>1 DEF WillHaveSize
<1>6. SizeIsKnown'
  <2> SUFFICES ASSUME NEW q \in subscribed, renderer[q].size # NoSize
               PROVE  WillHaveSize(q, renderer[q].size)'
    BY <1>0 DEF SizeIsKnown
  <2> DEFINE size == renderer[q].size
  <2>1. size' = size /\ WillHaveSize(q, size)
    BY <1>0 DEF SizeInv, SizeIsKnown
  <2> HIDE DEF size
  <2>2. \A z : WillHaveSize(q, z) => WillHaveSize(q, z)'
    BY <1>4, <1>5
  <2>. QED
    BY <1>0, <2>1, <2>2 DEF size
<1>. QED
  BY <1>0, <1>6 DEF SizeInv, NoTrackNoSize

\* A renderer starts and ends without a size.
LEMMA TextureStepsKeepSize ==
  ASSUME ViewsInv, SizeInv, NEW r \in Renderers,
         \/ CreateVideoRendererTexture(r) \/ Unsubscribe(r) \/ VideoRendererDispose(r)
         \/ TextureUnregistered(r) \/ DisposeAnswered(r)
  PROVE  SizeInv'
<1>0. renderer \in [Renderers -> Renderer(Track)] /\ subscribed \subseteq Renderers
  BY DEF ViewsInv, ViewsOK
<1>1. UNCHANGED <<notices, value>>
  BY DEF CreateVideoRendererTexture, Unsubscribe, VideoRendererDispose, TextureUnregistered,
     DisposeAnswered
<1>2. CASE CreateVideoRendererTexture(r)
  <2>1. renderer' = renderer /\ subscribed' = subscribed \cup {r} /\ renderer[r].track = NoTrack
    BY <1>2 DEF CreateVideoRendererTexture, ViewsInv, TextureInv
  <2>2. renderer[r].size = NoSize
    BY <2>1 DEF SizeInv, NoTrackNoSize
  <2>. QED
    BY <1>1, <2>1, <2>2 DEF SizeInv, NoTrackNoSize, SizeIsKnown, WillHaveSize
<1>3. CASE Unsubscribe(r)
  <2>1. renderer' = renderer /\ subscribed' \subseteq subscribed
    BY <1>3 DEF Unsubscribe
  <2>. QED
    BY <1>1, <2>1 DEF SizeInv, NoTrackNoSize, SizeIsKnown, WillHaveSize
<1>4. CASE VideoRendererDispose(r)
  <2>1. renderer' = [renderer EXCEPT ![r] = SetVideoTrack(@, NoTrack)]
        /\ subscribed' = subscribed /\ r \notin subscribed
    BY <1>4 DEF VideoRendererDispose, Shows
  <2>2. renderer'[r].size = NoSize
    <3>1. renderer'[r] = SetVideoTrack(renderer[r], NoTrack) /\ renderer[r] \in Renderer(Track)
      BY <1>0, <2>1
    <3>. QED
      BY <3>1 DEF SetVideoTrack, Renderer, SizeInv, NoTrackNoSize
  <2>3. \A q \in Renderers \ {r} : renderer'[q] = renderer[q]
    BY <1>0, <2>1
  <2>. QED
    BY <1>0, <1>1, <2>1, <2>2, <2>3 DEF SizeInv, NoTrackNoSize, SizeIsKnown, WillHaveSize
<1>5. CASE TextureUnregistered(r) \/ DisposeAnswered(r)
  <2>1. UNCHANGED <<renderer, subscribed>>
    BY <1>5 DEF TextureUnregistered, DisposeAnswered
  <2>. QED
    BY <1>1, <2>1 DEF SizeInv, NoTrackNoSize, SizeIsKnown, WillHaveSize
<1>. QED
  BY <1>2, <1>3, <1>4, <1>5

LEMMA NextSize == IInv /\ SizeInv /\ [Next]_vars => SizeInv'
<1>. SUFFICES ASSUME IInv, SizeInv, [Next]_vars PROVE SizeInv'
  OBVIOUS
<1>1. ASSUME UNCHANGED views PROVE SizeInv'
  BY <1>1 DEF views, SizeInv, NoTrackNoSize, SizeIsKnown, WillHaveSize
<1>2. ViewsInv
  BY DEF IInv
<1>3. ASSUME \/ GetDesktopSources
             \/ \E s \in Streams : \/ GetUserMedia(s) \/ CreateLocalMediaStream(s)
                                   \/ MediaStreamGetTracks(s) \/ MediaStreamDispose(s)
             \/ \E t \in Tracks : MediaStreamTrackDispose(t)
             \/ \E s \in Streams, t \in Tracks :
                  GetDisplayMedia(s, t) \/ MediaStreamAddTrack(s, t) \/ MediaStreamRemoveTrack(s, t)
             \/ \E p \in Peers : CreateRTCPeerConnection(p) \/ RTCPeerConnectionClose(p)
             \/ \E p \in Peers, s \in Streams : OnAddStream(p, s)
      PROVE  UNCHANGED views
  BY <1>3 DEF GetDesktopSources, GetUserMedia, CreateLocalMediaStream, MediaStreamGetTracks,
     MediaStreamDispose, MediaStreamTrackDispose, GetDisplayMedia, MediaStreamAddTrack,
     MediaStreamRemoveTrack, CreateRTCPeerConnection, RTCPeerConnectionClose, OnAddStream
<1>4. ASSUME NEW r \in Renderers,
             \/ CreateVideoRendererTexture(r) \/ Unsubscribe(r) \/ VideoRendererDispose(r)
             \/ TextureUnregistered(r) \/ DisposeAnswered(r)
      PROVE  SizeInv'
  BY <1>2, <1>4, TextureStepsKeepSize
<1>5. ASSUME NEW r \in Renderers, Receive(r) PROVE SizeInv'
  BY <1>2, <1>5, ReceiveKeepsSize
<1>6. ASSUME NEW r \in Renderers, NEW request \in Request, VideoRendererSetSrcObject(r, request)
      PROVE  SizeInv'
  BY <1>2, <1>6, SetSrcObjectKeepsSize
<1>7. ASSUME NEW r \in Renderers, NEW frame \in Frame, FrameComes(r, frame) PROVE SizeInv'
  BY <1>2, <1>7, FrameTellsSize
<1>8. CASE UNCHANGED vars
  BY <1>1, <1>8 DEF vars
<1>. QED
  BY <1>1, <1>3, <1>4, <1>5, <1>6, <1>7, <1>8 DEF Next

\* However frames, tracks that come and go, and the answers to null sources cross,
\* and with any number of notices on their way, Dart ends with the size of the
\* frames its renderer shows (OnFrame, SetVideoTrack, RTCVideoRenderer).
THEOREM SizesAreKnown == Spec => []SizeIsKnown
<1>1. Init => SizeInv
  BY DEF Init, SizeInv, NoTrackNoSize, SizeIsKnown, NewRenderer
<1>2. SizeInv => SizeIsKnown
  BY DEF SizeInv
<1>. QED
  BY <1>1, <1>2, NextSize, Invariance, PTL DEF Spec

-----------------------------------------------------------------------------
(* The refinement of HandleTable *)

\* A stream that is made is a handle that opens.
LEMMA MadeIsOpen ==
  ASSUME NEW s \in Streams, NEW ts, local_streams \subseteq made, StreamIsMade(s, ts),
         UNCHANGED answer
  PROVE  Table!Open(s)
BY DEF StreamIsMade, Table!Open

\* A call on a stream is answered by whether it is there.
LEMMA AnswerIsUse ==
  ASSUME NEW s \in Streams, Known(s), Answered(s, s \in local_streams),
         local_streams \subseteq made, UNCHANGED <<made, local_streams>>
  PROVE  Table!Use(s)
BY DEF Known, Answered, Table!Use

LEMMA NextRefines == IInv /\ [Next]_vars => [Table!Next]_(Table!vars)
<1>. SUFFICES ASSUME IInv, [Next]_vars PROVE Table!Next \/ UNCHANGED <<made, local_streams, answer>>
  BY DEF Table!vars
<1>0. local_streams \subseteq made
  BY DEF IInv, TablesInv, TablesOK
<1>1. ASSUME NEW s \in Streams,
             \/ GetUserMedia(s) \/ CreateLocalMediaStream(s)
             \/ \E t \in Tracks : GetDisplayMedia(s, t)
      PROVE  Table!Next
  <2>1. UNCHANGED answer /\ \E ts : StreamIsMade(s, ts)
    BY <1>1 DEF GetUserMedia, CreateLocalMediaStream, GetDisplayMedia
  <2>. QED
    BY <1>0, <2>1, MadeIsOpen DEF Table!Next
<1>2. ASSUME NEW s \in Streams, MediaStreamGetTracks(s) PROVE Table!Next
  BY <1>0, <1>2, AnswerIsUse DEF MediaStreamGetTracks, Table!Next
<1>3. ASSUME NEW s \in Streams, NEW t \in Tracks,
             MediaStreamAddTrack(s, t) \/ MediaStreamRemoveTrack(s, t)
      PROVE  Table!Next \/ UNCHANGED <<made, local_streams, answer>>
  <2>1. Known(s) /\ UNCHANGED <<made, local_streams>>
    BY <1>3 DEF MediaStreamAddTrack, MediaStreamRemoveTrack
  <2>2. \/ s \in local_streams /\ Answered(s, TRUE)
        \/ s \notin local_streams /\ Answered(s, FALSE)
        \/ UNCHANGED answer
    BY <1>3 DEF MediaStreamAddTrack, MediaStreamRemoveTrack
  <2>3. Answered(s, s \in local_streams) \/ UNCHANGED answer
    BY <2>2 DEF Answered
  <2>. QED
    BY <1>0, <2>1, <2>3, AnswerIsUse DEF Table!Next
<1>4. ASSUME NEW s \in Streams, MediaStreamDispose(s) PROVE Table!Next
  <2>1. Known(s) /\ UNCHANGED made /\ Answered(s, s \in local_streams)
    BY <1>4 DEF MediaStreamDispose
  <2>2. CASE s \in local_streams
    <3>1. local_streams' = local_streams \ {s}
      BY <1>4, <2>2 DEF MediaStreamDispose
    <3>2. (made \ local_streams)' = (made \ local_streams) \cup {s}
      BY <2>1, <3>1, <2>2, <1>0
    <3>3. answer' = [answer EXCEPT ![s] = "ok"]
      BY <2>1, <2>2 DEF Answered
    <3>. QED
      BY <2>2, <3>1, <3>2, <3>3 DEF Table!Next, Table!Close
  <2>3. CASE s \notin local_streams
    BY <1>0, <1>4, <2>1, <2>3, AnswerIsUse DEF MediaStreamDispose, Table!Next
  <2>. QED
    BY <2>2, <2>3
<1>5. CASE GetDesktopSources \/ \E t \in Tracks : MediaStreamTrackDispose(t)
  BY <1>5 DEF GetDesktopSources, MediaStreamTrackDispose
<1>6. ASSUME NEW p \in Peers,
             \/ CreateRTCPeerConnection(p) \/ RTCPeerConnectionClose(p)
             \/ \E s \in Streams : OnAddStream(p, s)
      PROVE  UNCHANGED <<made, local_streams, answer>>
  BY <1>6 DEF CreateRTCPeerConnection, RTCPeerConnectionClose, OnAddStream, tables
<1>7. ASSUME NEW r \in Renderers,
             \/ CreateVideoRendererTexture(r) \/ Unsubscribe(r) \/ VideoRendererDispose(r)
             \/ TextureUnregistered(r) \/ DisposeAnswered(r) \/ Receive(r)
             \/ \E request \in Request : VideoRendererSetSrcObject(r, request)
             \/ \E frame \in Frame : FrameComes(r, frame)
      PROVE  UNCHANGED <<made, local_streams, answer>>
  BY <1>7 DEF CreateVideoRendererTexture, Unsubscribe, VideoRendererDispose,
     TextureUnregistered, DisposeAnswered, Receive, VideoRendererSetSrcObject, FrameComes,
     tables
<1>8. CASE UNCHANGED vars
  BY <1>8 DEF vars, tables
<1>. QED
  BY <1>1, <1>2, <1>3, <1>4, <1>5, <1>6, <1>7, <1>8 DEF Next

\* For any number of them, the ids of local streams are a handle table: they
\* work from the call that makes the stream to the one that disposes of it, and
\* never again.
THEOREM StreamsImplementHandles == Spec => StreamsAreHandles
<1>1. Init => Table!Init
  BY DEF Init, Table!Init
<1>. QED
  BY <1>1, NextRefines, Invariance, PTL DEF Spec, Table!Spec, StreamsAreHandles

=============================================================================
