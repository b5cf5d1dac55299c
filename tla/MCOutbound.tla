---------------------------- MODULE MCOutbound -----------------------------
(* Instances of Outbound for TLC. *)
EXTENDS Outbound
=============================================================================
