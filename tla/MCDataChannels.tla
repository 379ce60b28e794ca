---------------------------- MODULE MCDataChannels ----------------------------
(***************************************************************************)
(* DataChannels for TLC.                                                   *)
(***************************************************************************)
EXTENDS DataChannels
=============================================================================
