---------------------------- MODULE MCXvbmFrames ----------------------------
(* Instances of XvbmFrames for TLC. *)
EXTENDS XvbmFrames
=============================================================================
