------------------------------- MODULE MCGIL -------------------------------
(* The GIL for TLC. *)
EXTENDS GIL

=============================================================================
