------------------------------- MODULE MCSweep -------------------------------
(* Instances of MoSweep for TLC.                                             *)
EXTENDS MoSweep, TLC

(* The ids are alike.                                                        *)
AnyIds == Permutations(Ids)
=============================================================================
