--------------------------- MODULE MCXrmResources ---------------------------
(* Instances of XrmResources for TLC. *)
EXTENDS XrmResources
=============================================================================
