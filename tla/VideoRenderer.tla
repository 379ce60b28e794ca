---------------------------- MODULE VideoRenderer -----------------------------
(***************************************************************************)
(* FlutterVideoRenderer of the WebRTC plugin for Windows and Linux: it     *)
(* tells Dart of the first frame of a track and of every change of         *)
(* rotation and size, and remembers what it told.                          *)
(*                                                                         *)
(* SetVideoTrack runs on the platform thread and OnFrame on the thread     *)
(* that delivers frames; WebRTC's AddRenderer and RemoveRenderer wait for  *)
(* a delivery under way, so OnFrame comes before or after them as a whole. *)
(* A renderer is a record, each step an operator that yields the next one. *)
(* The pixels, frame_ and pixel_buffer_, are left out.                     *)
(***************************************************************************)
EXTENDS Sequences

CONSTANTS
  Sizes,       \* sizes of frames
  NoSize,      \* {0, 0}
  Rotations,   \* rotations of frames
  Upright,     \* the rotation a renderer starts with
  NoTrack      \* track_ is null

ASSUME VideoRendererAssumption == NoSize \notin Sizes /\ Upright \in Rotations

Frame == [size : Sizes, rotation : Rotations]

\* track_, last_frame_size_, rotation_ and first_frame_rendered.
Renderer(Track) ==
  [track : Track \cup {NoTrack}, size : Sizes \cup {NoSize},
   rotation : Rotations, first : BOOLEAN]

NewRenderer == [track |-> NoTrack, size |-> NoSize, rotation |-> Upright, first |-> FALSE]

\* What Dart is sent: events, and the response to a setSrcObject(null), on which
\* it sets its value back to RTCVideoValue.empty.
FirstFrame == [about |-> "first"]
RotationIs(r) == [about |-> "rotation", is |-> r]
SizeIs(s) == [about |-> "size", is |-> s]
Emptied == [about |-> "empty"]

Notice ==
  {FirstFrame, Emptied} \cup {RotationIs(r) : r \in Rotations} \cup {SizeIs(s) : s \in Sizes}

-----------------------------------------------------------------------------

\* rotation_ keeps its value.
SetVideoTrackWrong(ren, x) ==
  IF ren.track = x THEN ren ELSE [ren EXCEPT !.track = x, !.first = FALSE]
SetVideoTrack(ren, x) ==
  IF ren.track = x THEN ren
  ELSE [ren EXCEPT !.track = x, !.size = NoSize, !.first = FALSE]

\* The events of OnFrame, in their order, and the renderer after it.
OnFrameSends(ren, frame) ==
  (IF ren.first THEN <<>> ELSE <<FirstFrame>>)
    \o (IF ren.rotation = frame.rotation THEN <<>> ELSE <<RotationIs(frame.rotation)>>)
    \o (IF ren.size = frame.size THEN <<>> ELSE <<SizeIs(frame.size)>>)

OnFrame(ren, frame) ==
  [ren EXCEPT !.first = TRUE, !.rotation = frame.rotation, !.size = frame.size]

-----------------------------------------------------------------------------
(* RTCVideoRenderer's value in Dart. *)

Value == [size : Sizes \cup {NoSize}, rotation : Rotations]

EmptyValue == [size |-> NoSize, rotation |-> Upright]

EventListener(value, notice) ==
  CASE notice.about = "first" -> value
    [] notice.about = "rotation" -> [value EXCEPT !.rotation = notice.is]
    [] notice.about = "size" -> [value EXCEPT !.size = notice.is]
    [] notice.about = "empty" -> EmptyValue
=============================================================================
