----------------------------- MODULE MCBridge ------------------------------
(* Instances of MoBridge for TLC.                                            *)
EXTENDS MoBridge

CONSTANTS r1, r2, r3

ThreeRequests == {r1, r2, r3}
=============================================================================
