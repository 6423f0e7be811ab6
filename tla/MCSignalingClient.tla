------------------------- MODULE MCSignalingClient -------------------------
(* TLC instances of SignalingClient.                                       *)
EXTENDS SignalingClient, TLC

CONSTANTS s1, s2
=============================================================================
