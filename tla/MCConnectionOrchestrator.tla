---------------------- MODULE MCConnectionOrchestrator ----------------------
(* The orchestrator on a clock of a few ticks with a two-entry schedule. *)
EXTENDS ConnectionOrchestrator, TLC

MCBackoff == <<1, 2>>
MCSymmetry == Permutations(Flows) \cup Permutations(Addrs)

=============================================================================
