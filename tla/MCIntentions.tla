---------------------------- MODULE MCIntentions ----------------------------
(* Instances of Intentions for TLC.                                        *)
EXTENDS Intentions
=============================================================================
