--------------------------- MODULE MCRelayServer ---------------------------
(* The relay with interchangeable connections, and few messages on the way. *)
EXTENDS RelayServer, TLC

MCSymmetry == Permutations(Conns)

\* A bound: the messages of any two connections.
Few == \A c, d \in Conns : c # d => sends[c] + sends[d] <= 2

=============================================================================
