--------------------------- MODULE MC_RecvTracking ---------------------------
(* Small streams for TLC; see the .cfg files for the bounds. *)
EXTENDS RecvTracking
==============================================================================
