------------------------------- MODULE MCTurns -------------------------------
(* An instance of MoTurns for TLC: main's thread and one more.               *)
EXTENDS MoTurns, TLC

CONSTANTS s1

TwoThreads == {Main, s1}
=============================================================================
