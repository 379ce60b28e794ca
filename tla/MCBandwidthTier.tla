--------------------------- MODULE MCBandwidthTier ---------------------------
(***************************************************************************)
(* The default configuration with durations of a few ticks, on links at    *)
(* the thresholds.                                                         *)
(***************************************************************************)
EXTENDS BandwidthTier

L(bwe, loss, rtt, freeze) ==
  [bwe |-> bwe, loss |-> loss, rtt |-> rtt, freeze |-> freeze, area |-> 576 * 768]

\* Plenty, just at a threshold and at the loss limits for a step up, just under
\* 85 % of a threshold, at the loss limit for a step down, unknown and freezing.
MCLinks == {L(4000, 0, 0, 0), L(500, 9, 299, 0), L(424, 10, 40, 0), L(300, 30, 40, 0),
            L(0, 0, 0, 1)}

=============================================================================
