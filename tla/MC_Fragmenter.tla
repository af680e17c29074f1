---------------------------- MODULE MC_Fragmenter ----------------------------
(* Requests of up to three chunks, at every offset in a packet. *)
EXTENDS Fragmenter
=============================================================================
