----------------------------- MODULE MC_SendRing -----------------------------
(* Small rings for TLC; see the .cfg files for the bounds. *)
EXTENDS SendRing
==============================================================================
