---------------------------- MODULE MCHostDaemon ----------------------------
(* A daemon with two WebSockets for each service. *)
EXTENDS HostDaemon

=============================================================================
