---------------------------- MODULE MCPluginMedia -----------------------------
(***************************************************************************)
(* PluginMedia for TLC: the ids of streams are alike.                       *)
(***************************************************************************)
EXTENDS PluginMedia, TLC

Symmetry == Permutations(Streams)
=============================================================================
