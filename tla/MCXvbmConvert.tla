---------------------------- MODULE MCXvbmConvert ----------------------------
(* Instances of XvbmConvert for TLC; the constants are in the cfg files. *)
EXTENDS XvbmConvert
=============================================================================
