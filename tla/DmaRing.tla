------------------------------- MODULE DmaRing -------------------------------
(***************************************************************************)
(* DmaRingBuf (ringbuf/dma_rb.rs): a ring of RING_BUF_LEN descriptors in   *)
(* memory the host and the card share.  A pointer counts modulo twice the  *)
(* length, so that a full ring and an empty one differ; the slot it points *)
(* to is the pointer modulo the length.                                    *)
(*                                                                         *)
(* A ring as the host keeps it is [slots, head, tail].  One of the two     *)
(* pointers is the host's own, the other its copy of a register of the     *)
(* card, as old as the last time it was read.                              *)
(***************************************************************************)
EXTENDS Integers

CONSTANTS RING_BUF_LEN,    \* 4096
          Zeroed           \* what zero_index leaves in a slot

ASSUME RingLenAssumption == RING_BUF_LEN \in Nat \ {0}

Pointers == 0 .. 2 * RING_BUF_LEN - 1
Slots == 0 .. RING_BUF_LEN - 1

NewRing == [slots |-> [i \in Slots |-> Zeroed], head |-> 0, tail |-> 0]

\* head_idx, tail_idx
Index(p) == p % RING_BUF_LEN

\* Mutant of Inc: the pointer wraps at the length of the ring.
IncAtLen(p) == (p + 1) % RING_BUF_LEN

\* Mutant of Inc: the pointer never wraps.
IncUnmasked(p) == p + 1

\* inc_head, inc_tail
Inc(p) == (p + 1) % (2 * RING_BUF_LEN)

\* len, for any two pointers
Distance(head, tail) == (head - tail) % (2 * RING_BUF_LEN)

\* Mutant of Remaining: one slot too many.
RemainingPlusOne(r) == RING_BUF_LEN + 1 - Distance(r.head, r.tail)

Remaining(r) == RING_BUF_LEN - Distance(r.head, r.tail)

\* push, when it answers true
Push(r, d) == [r EXCEPT !.slots[Index(r.head)] = d, !.head = Inc(@)]

\* set_tail, with the card's register
SetTail(r, tail) == [r EXCEPT !.tail = tail]

\* read_and_advance: the slot at the tail is zeroed and the tail moves.
Advance(r) == [r EXCEPT !.slots[Index(r.tail)] = Zeroed, !.tail = Inc(@)]
==============================================================================
