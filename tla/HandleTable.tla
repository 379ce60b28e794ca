----------------------------- MODULE HandleTable ------------------------------
(***************************************************************************)
(* What a table of native objects promises to the Dart side that holds     *)
(* their ids: an id is opened once, works in every call until it is        *)
(* closed, alone or with others, and never works again.                    *)
(***************************************************************************)
CONSTANT Handles

VARIABLES
  live,    \* the ids that work
  dead,    \* the ids that worked once
  reply    \* what the last call on each id was answered

vars == <<live, dead, reply>>

Reply == {"none", "ok", "error"}

Init ==
  /\ live = {}
  /\ dead = {}
  /\ reply = [h \in Handles |-> "none"]

Open(h) ==
  /\ h \notin live \cup dead
  /\ live' = live \cup {h}
  /\ UNCHANGED <<dead, reply>>

Use(h) ==
  /\ h \in live \cup dead
  /\ reply' = [reply EXCEPT ![h] = IF h \in live THEN "ok" ELSE "error"]
  /\ UNCHANGED <<live, dead>>

Close(h) ==
  /\ h \in live
  /\ live' = live \ {h}
  /\ dead' = dead \cup {h}
  /\ reply' = [reply EXCEPT ![h] = "ok"]

\* What the ids belong to is closed, and they go with it.
CloseAll(gone) ==
  /\ gone \subseteq live
  /\ live' = live \ gone
  /\ dead' = dead \cup gone
  /\ UNCHANGED reply

Next ==
  \/ \E h \in Handles : Open(h) \/ Use(h) \/ Close(h)
  \/ \E gone \in SUBSET live : CloseAll(gone)

Spec == Init /\ [][Next]_vars
=============================================================================
