---------------------------- MODULE MCMultiScaler ----------------------------
(* Instances of MultiScaler for TLC. *)
EXTENDS MultiScaler

MCMixed == <<"full", "full", "half">>   \* the full-rate outputs first
MCHalfFirst == <<"half", "full">>
=============================================================================
