-------------------------------- MODULE Link --------------------------------
(***************************************************************************)
(* What the daemon asks of a connection to the relay, whichever class      *)
(* keeps it: there is one attempt or one connection at a time; a failed    *)
(* attempt and a lost connection are followed by another attempt as long   *)
(* as the link is wanted, and by none afterwards.                          *)
(***************************************************************************)

VARIABLES
  wanted,   \* started and not stopped
  link      \* what there is of the connection

vars == <<wanted, link>>

State == {"off", "dialing", "up", "waiting"}

TypeOK == wanted \in BOOLEAN /\ link \in State

Init == ~wanted /\ link = "off"

-----------------------------------------------------------------------------
Want ==
  /\ ~wanted /\ link = "off"
  /\ wanted' = TRUE
  /\ link' = "dialing"

\* Where the end of an attempt or of a connection leaves the link.
Down == IF wanted THEN "waiting" ELSE "off"

DialSucceeds == link = "dialing" /\ link' = "up" /\ UNCHANGED wanted

DialFails == link = "dialing" /\ link' = Down /\ UNCHANGED wanted

Lose == link = "up" /\ link' = Down /\ UNCHANGED wanted

Retry == wanted /\ link = "waiting" /\ link' = "dialing" /\ UNCHANGED wanted

\* An attempt in flight is not taken back; it may still succeed.
Unwant ==
  /\ wanted
  /\ wanted' = FALSE
  /\ link' = IF link = "waiting" THEN "off" ELSE link

Next == Want \/ DialSucceeds \/ DialFails \/ Lose \/ Retry \/ Unwant

Spec == Init /\ [][Next]_vars

=============================================================================
