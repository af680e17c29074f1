------------------------------- MODULE SendRing -------------------------------
(***************************************************************************)
(* The ring between a send worker and the card: SendQueueSync of           *)
(* workers/send/worker.rs over a DmaRingBuf.  The host writes the two      *)
(* descriptors of a request and later, once for a batch, the head register *)
(* of the card.  It learns how far the card has read only when it runs out *)
(* of room, from a tail register that may have moved on by then.           *)
(***************************************************************************)
EXTENDS DmaRing, Sequences

CONSTANT Requests

ASSUME SendRingAssumption == RING_BUF_LEN >= 2

VARIABLES ring,      \* the host's DmaRingBuf; its slots are the shared memory
          csrHead,   \* the card's head register: what it may read up to
          csrTail,   \* its tail register: what it has read
          taken      \* the descriptor it read last

ringVars == <<ring, csrHead, csrTail, taken>>

\* SendQueueReqDescSeg0 and SendQueueReqDescSeg1 of a request
Seg(c, i) == [req |-> c, seg |-> i]
Descs == [req : Requests, seg : {0, 1}]

RingInit ==
    /\ ring = NewRing
    /\ csrHead = 0
    /\ csrTail = 0
    /\ taken = Zeroed

\* sync_tail, if there is no room for two
SyncTail(r, tail) == IF Remaining(r) < 2 THEN SetTail(r, tail) ELSE r

\* Mutant of PushBoth: the second segment before the first.
PushBothSwapped(r, c) == Push(Push(r, Seg(c, 1)), Seg(c, 0))

PushBoth(r, c) == Push(Push(r, Seg(c, 0)), Seg(c, 1))

\* SendQueueSync::send; without room it answers false and the request goes back
\* to the worker's own queue.
Send(c) ==
    LET r == SyncTail(ring, csrTail)
    IN  /\ ring' = IF Remaining(r) < 2 THEN r ELSE PushBoth(r, c)
        /\ UNCHANGED <<csrHead, csrTail, taken>>

\* sync_head, at the end of a batch
SyncHead ==
    /\ csrHead' = ring.head
    /\ UNCHANGED <<ring, csrTail, taken>>

\* The card (external) reads the next descriptor the head register covers.
CardTakes ==
    /\ csrTail # csrHead
    /\ taken' = ring.slots[Index(csrTail)]
    /\ csrTail' = Inc(csrTail)
    /\ UNCHANGED <<ring, csrHead>>

RingNext == (\E c \in Requests : Send(c)) \/ SyncHead \/ CardTakes

RingSpec == RingInit /\ [][RingNext]_ringVars

------------------------------------------------------------------------------
\* The type of the ring and of the card's registers.
TypeOK ==
    /\ ring \in [slots : [Slots -> Descs \cup {Zeroed}], head : Pointers, tail : Pointers]
    /\ csrHead \in Pointers
    /\ csrTail \in Pointers
    /\ taken \in Descs \cup {Zeroed}

\* Going round the ring from the host's copy of the tail one passes the card's tail
\* register, its head register and the host's head, in this order, before the ring
\* has been gone round once: send never runs into slots the card has still to read.
PointersInOrder ==
    LET d(p) == Distance(p, ring.tail)
    IN  /\ d(csrTail) <= d(csrHead)
        /\ d(csrHead) <= d(ring.head)
        /\ d(ring.head) <= RING_BUF_LEN

\* What the card may read ends with the second segment of a request: the doorbell
\* of a batch never exposes half a request.
DoorbellAfterWholeRequest ==
    csrHead # csrTail =>
        LET d == ring.slots[Index(csrHead - 1)] IN d \in Descs /\ d.seg = 1

\* The descriptors in the slots from the pointer t up to the pointer h, in order.
Contents(s, h, t) == [k \in 1 .. Distance(h, t) |-> s[Index(t + k - 1)]]

\* The descriptors the card has still to read, in the order it will read them.
InRing == Contents(ring.slots, ring.head, csrTail)

Queue == INSTANCE DescQueue WITH Capacity <- RING_BUF_LEN, Nothing <- Zeroed,
                                  queue <- InRing

\* The ring is a bounded FIFO queue: the card takes every descriptor once, unchanged
\* and in the order it was pushed, whatever the age of the tail the host goes by.
IsAQueue == Queue!QSpec
==============================================================================
