--------------------------- MODULE MCThreadMessage ---------------------------
(* The instance of ThreadMessage for TLC. *)
EXTENDS ThreadMessage
=============================================================================
