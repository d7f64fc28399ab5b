---------------------------- MODULE MCVcuDecoder ----------------------------
(* Instances of VcuDecoder for TLC. *)
EXTENDS VcuDecoder

\* the first packet is no IDR picture
MCIdr == {2, 5}
=============================================================================
