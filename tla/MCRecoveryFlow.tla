--------------------------- MODULE MCRecoveryFlow ---------------------------
(* RecoveryFlow on a clock of a few ticks with the three-entry schedule. *)
EXTENDS RecoveryFlow

MCBackoff == <<5, 9, 26>>

=============================================================================
