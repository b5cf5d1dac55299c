----------------------------- MODULE MCStorage -----------------------------
(* Instances of Storage for TLC: MCStorage.cfg for safety and refinement,  *)
(* MCStorageLive.cfg for liveness.                                          *)
EXTENDS Storage
=============================================================================
