----------------------------- MODULE EventChannel -----------------------------
(***************************************************************************)
(* EventChannelProxyImpl of the WebRTC plugin for Windows and Linux: the   *)
(* native end of a stream of events to Dart.  Events posted while nobody   *)
(* listens wait in event_queue_, and onListen sends them before it sets    *)
(* on_listen_called_.                                                      *)
(*                                                                         *)
(* onListen and onCancel run on the platform thread, Success on a WebRTC   *)
(* thread, and nothing locks the flag or the list, so both are taken       *)
(* apart: onListen into its start, one step for each queued event, the end *)
(* of its loop, the clear of the list and the write of the flag, and       *)
(* Success into the read of the flag and what follows it.  An element      *)
(* appended to the list is there or, when the clear comes in between, is   *)
(* not; that a torn std::list may also crash the process is left out.      *)
(*                                                                         *)
(* A channel is a record, each step an operator that yields the next one;  *)
(* what a step sends to Dart is an operator of its own.  Every event       *)
(* modelled here is one that may be cached (cache_event is true).          *)
(***************************************************************************)
EXTENDS Naturals, Sequences

\* Where the platform thread is in onListen.
ListenPhase == {"idle", "sending", "sent", "cleared"}

\* Where a WebRTC thread is in Success: nowhere, or past the read of the flag.
Posting(Event) == {<<>>} \cup [event : Event, listening : BOOLEAN]

Channel(Event) ==
  [listening : BOOLEAN, queue : Seq(Event), phase : ListenPhase,
   next : Nat, post : Posting(Event)]

NewChannel ==
  [listening |-> FALSE, queue |-> <<>>, phase |-> "idle", next |-> 1, post |-> <<>>]

-----------------------------------------------------------------------------
(* The platform thread. *)

ListenStarts(ch) == [ch EXCEPT !.phase = "sending", !.next = 1]

MustSend(ch) == ch.phase = "sending" /\ ch.next <= Len(ch.queue)

\* The event the loop sends next, and the channel once it is sent.
NextQueued(ch) == ch.queue[ch.next]
QueuedIsSent(ch) == [ch EXCEPT !.next = @ + 1]

LoopIsOverWrong(ch) == ch.phase = "sending" /\ ch.next >= Len(ch.queue)
LoopIsOver(ch) == ch.phase = "sending" /\ ch.next > Len(ch.queue)
LoopEnds(ch) == [ch EXCEPT !.phase = "sent"]

QueueCleared(ch) == [ch EXCEPT !.queue = <<>>, !.phase = "cleared", !.next = 1]

ListenEndsWrong(ch) == [ch EXCEPT !.phase = "idle"]
ListenEnds(ch) == [ch EXCEPT !.listening = TRUE, !.phase = "idle"]

\* The sink stays: only the flag says that nobody listens.
Cancelled(ch) == [ch EXCEPT !.listening = FALSE]

-----------------------------------------------------------------------------
(* A WebRTC thread. *)

SuccessStarts(ch, e) == [ch EXCEPT !.post = [event |-> e, listening |-> ch.listening]]

\* What Success sends at once: the event, when the flag was set as it was read.
SentAtOnce(ch) == IF ch.post.listening THEN <<ch.post.event>> ELSE <<>>

SuccessEnds(ch) ==
  [ch EXCEPT !.post = <<>>,
             !.queue = IF ch.post.listening THEN @ ELSE Append(@, ch.post.event)]
=============================================================================
