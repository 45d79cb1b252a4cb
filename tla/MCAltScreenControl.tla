------------------------- MODULE MCAltScreenControl -------------------------
(* A TLC instance of AltScreenControl. *)
EXTENDS AltScreenControl
=============================================================================
