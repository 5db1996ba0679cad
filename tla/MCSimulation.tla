---------------------------- MODULE MCSimulation ----------------------------
(* Instances of Simulation for TLC. *)
EXTENDS Simulation, TLC

CONSTANTS p1, p2, v1

MCProc == {p1, p2}
MCValue == {v1}
MCSymmetry == Permutations(MCProc)
=============================================================================
