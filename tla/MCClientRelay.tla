---------------------------- MODULE MCClientRelay -----------------------------
(***************************************************************************)
(* ClientRelay for TLC.                                                    *)
(***************************************************************************)
EXTENDS ClientRelay
=============================================================================
