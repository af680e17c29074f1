----------------------------- MODULE MC_SendPath -----------------------------
(* Requests of up to three chunks, at every offset in a packet; one of two  *)
(* chunks and three packets is followed through two workers to the card.    *)
EXTENDS SendPath

CONSTANTS w1, w2

MCFollowed == {[addr |-> 3, length |-> 6]}
=============================================================================
