---------------------------- MODULE MCVcuEncoder ----------------------------
(* Instances of VcuEncoder for TLC. *)
EXTENDS VcuEncoder

MCTsMin == -2
=============================================================================
