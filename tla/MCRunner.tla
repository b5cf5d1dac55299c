------------------------------ MODULE MCRunner ------------------------------
(* Instances of Runner for TLC: MCRunner.cfg for safety and              *)
(* MCRunnerLive.cfg for liveness.                                           *)
EXTENDS Runner

Symmetry == Permutations(Clients)
=============================================================================
