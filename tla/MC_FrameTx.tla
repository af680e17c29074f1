------------------------------ MODULE MC_FrameTx ------------------------------
(* A small ring and frame buffer for TLC; see the .cfg files for the bounds. *)
EXTENDS FrameTx
==============================================================================
