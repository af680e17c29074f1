---------------------------- MODULE DmaRing_proofs ----------------------------
(***************************************************************************)
(* The arithmetic of ring pointers without the remainder, for a ring of    *)
(* any length: what Index, Inc and Distance are on the pointers the rings  *)
(* of this driver have.                                                    *)
(***************************************************************************)
EXTENDS DmaRing, TLAPS

\* Index subtracts the length as often as the pointers of this module need.
LEMMA IndexIs ==
    ASSUME NEW p \in -1 .. 3 * RING_BUF_LEN - 1
    PROVE  /\ Index(p) = IF p < 0 THEN p + RING_BUF_LEN
                         ELSE IF p < RING_BUF_LEN THEN p
                         ELSE IF p < 2 * RING_BUF_LEN THEN p - RING_BUF_LEN
                         ELSE p - 2 * RING_BUF_LEN
           /\ Index(p) \in Slots
<1> DEFINE L == RING_BUF_LEN
<1>1. L \in Nat /\ L > 0
  BY RingLenAssumption
<1>2. CASE p < 0
  BY <1>1, <1>2 DEF Index, Slots
<1>3. CASE p >= 0 /\ p < L
  BY <1>1, <1>3 DEF Index, Slots
<1>4. CASE p >= L /\ p < 2 * L
  BY <1>1, <1>4 DEF Index, Slots
<1>5. CASE p >= 2 * L
  BY <1>1, <1>5 DEF Index, Slots
<1> QED
  BY <1>1, <1>2, <1>3, <1>4, <1>5

\* Inc wraps at twice the length.
LEMMA IncIs ==
    ASSUME NEW p \in Pointers
    PROVE  /\ Inc(p) = IF p = 2 * RING_BUF_LEN - 1 THEN 0 ELSE p + 1
           /\ Inc(p) \in Pointers
<1>1. CASE p = 2 * RING_BUF_LEN - 1
  BY <1>1, RingLenAssumption DEF Inc, Pointers
<1>2. CASE p < 2 * RING_BUF_LEN - 1
  BY <1>2, RingLenAssumption DEF Inc, Pointers
<1> QED
  BY <1>1, <1>2, RingLenAssumption DEF Pointers

\* The distance of two pointers, going round from the second to the first.
LEMMA DistanceIs ==
    ASSUME NEW h \in Pointers, NEW t \in Pointers
    PROVE  /\ Distance(h, t) = IF h >= t THEN h - t ELSE h - t + 2 * RING_BUF_LEN
           /\ Distance(h, t) \in Pointers
<1>1. CASE h >= t
  BY <1>1, RingLenAssumption DEF Distance, Pointers
<1>2. CASE h < t
  BY <1>2, RingLenAssumption DEF Distance, Pointers
<1> QED
  BY <1>1, <1>2, RingLenAssumption DEF Pointers

\* Moving the head moves it one further from the tail.
LEMMA IncHead ==
    ASSUME NEW h \in Pointers, NEW t \in Pointers, Distance(h, t) < 2 * RING_BUF_LEN - 1
    PROVE  Distance(Inc(h), t) = Distance(h, t) + 1
<1>1. Inc(h) = IF h = 2 * RING_BUF_LEN - 1 THEN 0 ELSE h + 1
  BY IncIs
<1>2. Inc(h) \in Pointers
  BY IncIs
<1>3. Distance(h, t) = IF h >= t THEN h - t ELSE h - t + 2 * RING_BUF_LEN
  BY DistanceIs
<1>4. Distance(Inc(h), t) = IF Inc(h) >= t THEN Inc(h) - t ELSE Inc(h) - t + 2 * RING_BUF_LEN
  BY <1>2, DistanceIs
<1> QED
  BY <1>1, <1>3, <1>4, RingLenAssumption DEF Pointers

\* Moving the tail brings it one closer to the head.
LEMMA IncTail ==
    ASSUME NEW h \in Pointers, NEW t \in Pointers, h # t
    PROVE  Distance(h, Inc(t)) = Distance(h, t) - 1
<1>1. Inc(t) = IF t = 2 * RING_BUF_LEN - 1 THEN 0 ELSE t + 1
  BY IncIs
<1>2. Inc(t) \in Pointers
  BY IncIs
<1>3. Distance(h, t) = IF h >= t THEN h - t ELSE h - t + 2 * RING_BUF_LEN
  BY DistanceIs
<1>4. Distance(h, Inc(t)) = IF h >= Inc(t) THEN h - Inc(t) ELSE h - Inc(t) + 2 * RING_BUF_LEN
  BY <1>2, DistanceIs
<1> QED
  BY <1>1, <1>3, <1>4, RingLenAssumption DEF Pointers

\* Distances add up along the ring.
LEMMA DistanceSplits ==
    ASSUME NEW x \in Pointers, NEW y \in Pointers, NEW t \in Pointers,
           Distance(y, t) <= Distance(x, t)
    PROVE  Distance(x, y) = Distance(x, t) - Distance(y, t)
<1>1. Distance(x, y) = IF x >= y THEN x - y ELSE x - y + 2 * RING_BUF_LEN
  BY DistanceIs
<1>2. Distance(x, t) = IF x >= t THEN x - t ELSE x - t + 2 * RING_BUF_LEN
  BY DistanceIs
<1>3. Distance(y, t) = IF y >= t THEN y - t ELSE y - t + 2 * RING_BUF_LEN
  BY DistanceIs
<1> QED
  BY <1>1, <1>2, <1>3, RingLenAssumption DEF Pointers

\* The pointer n behind the tail is in the slot n behind the tail's.
LEMMA SlotOfHead ==
    ASSUME NEW h \in Pointers, NEW t \in Pointers, Distance(h, t) <= RING_BUF_LEN
    PROVE  Index(h) = Index(t + Distance(h, t))
<1>1. Distance(h, t) = IF h >= t THEN h - t ELSE h - t + 2 * RING_BUF_LEN
  BY DistanceIs
<1>2. t + Distance(h, t) = h \/ t + Distance(h, t) = h + 2 * RING_BUF_LEN
  BY <1>1, RingLenAssumption DEF Pointers
<1>3. t + Distance(h, t) \in -1 .. 3 * RING_BUF_LEN - 1 /\ h \in -1 .. 3 * RING_BUF_LEN - 1
  BY <1>1, RingLenAssumption DEF Pointers
<1> QED
  BY <1>2, <1>3, IndexIs, RingLenAssumption DEF Pointers

\* Pointers twice the length apart share a slot.
LEMMA SameSlot ==
    ASSUME NEW a \in -1 .. 3 * RING_BUF_LEN - 1, NEW b \in -1 .. 3 * RING_BUF_LEN - 1,
           a = b \/ (a >= 0 /\ a < RING_BUF_LEN /\ a = b - 2 * RING_BUF_LEN)
    PROVE  Index(a) = Index(b)
<1>1. CASE a = b
  BY <1>1
<1>2. CASE a >= 0 /\ a < RING_BUF_LEN /\ b = a + 2 * RING_BUF_LEN
  <2>1. Index(a) = a
    BY <1>2, IndexIs
  <2>2. Index(b) = b - 2 * RING_BUF_LEN
    BY <1>2, IndexIs, RingLenAssumption
  <2> QED
    BY <1>2, <2>1, <2>2, RingLenAssumption
<1> QED
  BY <1>1, <1>2, RingLenAssumption

\* Fewer than RING_BUF_LEN apart, two pointers never share a slot.
LEMMA SlotsDiffer ==
    ASSUME NEW t \in Pointers, NEW i \in Nat, NEW j \in Nat, i < j, j < RING_BUF_LEN
    PROVE  Index(t + i) # Index(t + j)
BY IndexIs, RingLenAssumption DEF Pointers
==============================================================================
