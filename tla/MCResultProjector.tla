------------------------- MODULE MCResultProjector -------------------------
(* ResultProjector for TLC. *)
EXTENDS ResultProjector
=============================================================================
