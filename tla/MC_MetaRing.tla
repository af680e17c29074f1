----------------------------- MODULE MC_MetaRing -----------------------------
(* Two queues: the reports of one are told apart, those of the other keep it busy. *)
EXTENDS MetaRing

OneTellsApart == [q \in 0 .. NumQueues - 1 |-> IF q = 0 THEN RING_BUF_LEN + 1 ELSE 1]
==============================================================================
