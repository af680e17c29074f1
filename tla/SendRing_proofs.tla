--------------------------- MODULE SendRing_proofs ---------------------------
(***************************************************************************)
(* For a ring of any length of at least two descriptors: the pointers of   *)
(* the host and of the card stay in order, and the ring implements the     *)
(* bounded queue of DescQueue.                                             *)
(***************************************************************************)
EXTENDS SendRing, DmaRing_proofs, SequenceTheorems, TLAPS

------------------------------------------------------------------------------
(* What push and the card's read do to the contents of the ring *)

\* The contents are a sequence as long as the distance of the pointers.
LEMMA ContentsIs ==
    ASSUME NEW V, NEW s \in [Slots -> V], NEW h \in Pointers, NEW t \in Pointers,
           Distance(h, t) <= RING_BUF_LEN
    PROVE  /\ Contents(s, h, t) \in Seq(V)
           /\ Len(Contents(s, h, t)) = Distance(h, t)
<1>1. Distance(h, t) \in Nat
  BY DistanceIs, RingLenAssumption DEF Pointers
<1>2. ASSUME NEW k \in 1 .. Distance(h, t)
      PROVE  s[Index(t + k - 1)] \in V
  BY <1>1, IndexIs, RingLenAssumption DEF Pointers
<1> QED
  BY <1>1, <1>2 DEF Contents

\* The slots after a push at h.
Write(s, h, d) == [s EXCEPT ![Index(h)] = d]

\* A push keeps the slots in their set.
LEMMA WriteType ==
    ASSUME NEW V, NEW s \in [Slots -> V], NEW h \in Pointers, NEW d \in V
    PROVE  Write(s, h, d) \in [Slots -> V]
<1>1. Index(h) \in Slots
  BY IndexIs, RingLenAssumption DEF Pointers
<1> QED
  BY <1>1 DEF Write

\* push appends to the contents and overwrites nothing in them.
LEMMA PushAppends ==
    ASSUME NEW V, NEW s \in [Slots -> V], NEW h \in Pointers, NEW t \in Pointers,
           NEW d \in V, Distance(h, t) < RING_BUF_LEN
    PROVE  Contents(Write(s, h, d), Inc(h), t) = Append(Contents(s, h, t), d)
<1> DEFINE n == Distance(h, t)
           s2 == [s EXCEPT ![Index(h)] = d]
<1>1. n \in Nat /\ n < RING_BUF_LEN
  BY DistanceIs, RingLenAssumption DEF Pointers
<1>2. Distance(Inc(h), t) = n + 1
  <2>1. Distance(h, t) < 2 * RING_BUF_LEN - 1
    BY <1>1, RingLenAssumption
  <2> QED
    BY <2>1, IncHead
<1>3. Contents(s, h, t) \in Seq(V) /\ Len(Contents(s, h, t)) = n
  BY <1>1, ContentsIs, RingLenAssumption
<1>4. Index(h) = Index(t + n) /\ Index(h) \in Slots
  BY <1>1, SlotOfHead, IndexIs, RingLenAssumption DEF Pointers
<1>5. ASSUME NEW k \in 1 .. n
      PROVE  s2[Index(t + k - 1)] = Contents(s, h, t)[k]
  <2>1. k - 1 \in Nat /\ k - 1 < n /\ t + (k - 1) = t + k - 1 /\ t + k - 1 \in -1 .. 3 * RING_BUF_LEN - 1
    BY <1>1, RingLenAssumption DEF Pointers
  <2>2. Index(t + k - 1) # Index(h)
    BY <1>1, <1>4, <2>1, SlotsDiffer
  <2>3. Index(t + k - 1) \in Slots
    BY <2>1, IndexIs
  <2> QED
    BY <2>2, <2>3 DEF Contents
<1>6. s2[Index(t + (n + 1) - 1)] = d
  <2>1. t + (n + 1) - 1 = t + n
    BY <1>1 DEF Pointers
  <2> QED
    BY <1>4, <2>1
<1>7. s2 \in [Slots -> V]
  BY <1>4
<1> HIDE DEF s2
<1>8. Contents(s2, Inc(h), t) \in Seq(V) /\ Len(Contents(s2, Inc(h), t)) = n + 1
  <2>1. Inc(h) \in Pointers /\ Distance(Inc(h), t) <= RING_BUF_LEN
    BY <1>1, <1>2, IncIs, RingLenAssumption
  <2> QED
    BY <1>2, <1>7, <2>1, ContentsIs, ZenonT(60)
<1>9. ASSUME NEW k \in 1 .. n + 1
      PROVE  Contents(s2, Inc(h), t)[k] = s2[Index(t + k - 1)]
  BY <1>2 DEF Contents
<1> HIDE DEF n
<1>10. \A k \in 1 .. n + 1 : Contents(s2, Inc(h), t)[k] = Append(Contents(s, h, t), d)[k]
  BY <1>1, <1>3, <1>5, <1>6, <1>9, AppendProperties
<1>11. Contents(s2, Inc(h), t) = Append(Contents(s, h, t), d)
  <2>1. Append(Contents(s, h, t), d) \in Seq(V) /\ Len(Append(Contents(s, h, t), d)) = n + 1
    BY <1>3, AppendProperties
  <2> QED
    BY <1>8, <1>10, <2>1, SeqEqual
<1> QED
  BY Zenon, <1>11 DEF s2, Write

\* The card's read takes the head of the contents.
LEMMA ReadTakesHead ==
    ASSUME NEW V, NEW s \in [Slots -> V], NEW h \in Pointers, NEW t \in Pointers,
           h # t, Distance(h, t) <= RING_BUF_LEN
    PROVE  /\ Contents(s, h, t) # <<>>
           /\ Head(Contents(s, h, t)) = s[Index(t)]
           /\ Contents(s, h, Inc(t)) = Tail(Contents(s, h, t))
<1> DEFINE n == Distance(h, t)
<1>1. n \in Nat /\ n > 0 /\ n <= RING_BUF_LEN
  <2>1. Distance(h, t) = IF h >= t THEN h - t ELSE h - t + 2 * RING_BUF_LEN
    BY DistanceIs
  <2> QED
    BY <2>1, RingLenAssumption DEF Pointers
<1>2. Contents(s, h, t) \in Seq(V) /\ Len(Contents(s, h, t)) = n
  BY ContentsIs
<1>3. Distance(h, Inc(t)) = n - 1 /\ Inc(t) \in Pointers
  BY IncTail, IncIs
<1>4. Contents(s, h, Inc(t)) \in Seq(V) /\ Len(Contents(s, h, Inc(t))) = n - 1
  <2>1. Distance(h, Inc(t)) <= RING_BUF_LEN
    BY <1>1, <1>3, RingLenAssumption
  <2> QED
    BY <1>3, <2>1, ContentsIs, ZenonT(60)
<1>5. ASSUME NEW k \in 1 .. n - 1
      PROVE  Contents(s, h, Inc(t))[k] = Contents(s, h, t)[k + 1]
  <2>1. Inc(t) = IF t = 2 * RING_BUF_LEN - 1 THEN 0 ELSE t + 1
    BY IncIs
  <2> DEFINE i == Inc(t) + k - 1
             j == t + (k + 1) - 1
  <2>2. i = j \/ (i >= 0 /\ i < RING_BUF_LEN /\ i = j - 2 * RING_BUF_LEN)
    BY <1>1, <2>1, RingLenAssumption DEF Pointers
  <2>3. i \in -1 .. 3 * RING_BUF_LEN - 1 /\ j \in -1 .. 3 * RING_BUF_LEN - 1
    BY <1>1, <2>1, RingLenAssumption DEF Pointers
  <2> HIDE DEF i, j
  <2>4. Index(i) = Index(j)
    BY <2>2, <2>3, SameSlot
  <2>5. k + 1 \in 1 .. n
    BY <1>1
  <2> QED
    BY <1>3, <2>4, <2>5 DEF Contents, i, j
<1>6. Contents(s, h, t)[1] = s[Index(t)]
  <2>1. t + 1 - 1 = t
    BY DEF Pointers
  <2> QED
    BY <1>1, <2>1 DEF Contents
<1> HIDE DEF n
<1>7. Contents(s, h, t) # <<>>
  BY <1>1, <1>2
<1>8. Contents(s, h, Inc(t)) = Tail(Contents(s, h, t))
  BY <1>1, <1>2, <1>4, <1>5, <1>7, HeadTailProperties, SeqEqual
<1> QED
  BY <1>2, <1>6, <1>7, <1>8

------------------------------------------------------------------------------
(* The order of the pointers *)

\* From t one passes ct, ch and h in this order, within one round.
InOrder(t, ct, ch, h) ==
    /\ Distance(ct, t) <= Distance(ch, t)
    /\ Distance(ch, t) <= Distance(h, t)
    /\ Distance(h, t) <= RING_BUF_LEN

\* sync_tail moves the host's copy of the tail to the card's.
LEMMA SyncKeepsOrder ==
    ASSUME NEW t \in Pointers, NEW ct \in Pointers, NEW ch \in Pointers, NEW h \in Pointers,
           InOrder(t, ct, ch, h)
    PROVE  InOrder(ct, ct, ch, h) /\ Distance(h, ct) <= Distance(h, t)
<1>1. /\ Distance(ct, t) \in Nat /\ Distance(ch, t) \in Nat /\ Distance(h, t) \in Nat
      /\ Distance(ct, t) <= Distance(h, t)
  BY DistanceIs, RingLenAssumption DEF Pointers, InOrder
<1>2. Distance(ct, ct) = 0
  BY DistanceIs, RingLenAssumption DEF Pointers
<1>3. Distance(ch, ct) = Distance(ch, t) - Distance(ct, t)
  BY DistanceSplits DEF InOrder
<1>4. Distance(h, ct) = Distance(h, t) - Distance(ct, t)
  BY <1>1, DistanceSplits
<1> QED
  BY <1>1, <1>2, <1>3, <1>4, RingLenAssumption DEF InOrder

\* push moves the head while the ring is not full.
LEMMA PushKeepsOrder ==
    ASSUME NEW t \in Pointers, NEW ct \in Pointers, NEW ch \in Pointers, NEW h \in Pointers,
           InOrder(t, ct, ch, h), Distance(h, t) < RING_BUF_LEN
    PROVE  /\ InOrder(t, ct, ch, Inc(h))
           /\ Distance(Inc(h), t) = Distance(h, t) + 1
           /\ Inc(h) \in Pointers
<1>1. Distance(h, t) \in Nat /\ Distance(ct, t) \in Nat /\ Distance(ch, t) \in Nat
  BY DistanceIs, RingLenAssumption DEF Pointers
<1>2. Distance(h, t) < 2 * RING_BUF_LEN - 1
  BY <1>1, RingLenAssumption
<1>3. Distance(Inc(h), t) = Distance(h, t) + 1
  BY <1>2, IncHead
<1> QED
  BY <1>1, <1>3, IncIs, RingLenAssumption DEF InOrder

\* The card's read moves its tail while it is not at its head register.
LEMMA ReadKeepsOrder ==
    ASSUME NEW t \in Pointers, NEW ct \in Pointers, NEW ch \in Pointers, NEW h \in Pointers,
           InOrder(t, ct, ch, h), ct # ch
    PROVE  InOrder(t, Inc(ct), ch, h) /\ Inc(ct) \in Pointers
<1>1. Distance(h, t) \in Nat /\ Distance(ct, t) \in Nat /\ Distance(ch, t) \in Nat
  BY DistanceIs, RingLenAssumption DEF Pointers
<1>2. Distance(ct, t) # Distance(ch, t)
  <2>1. Distance(ct, t) = IF ct >= t THEN ct - t ELSE ct - t + 2 * RING_BUF_LEN
    BY DistanceIs
  <2>2. Distance(ch, t) = IF ch >= t THEN ch - t ELSE ch - t + 2 * RING_BUF_LEN
    BY DistanceIs
  <2> QED
    BY <2>1, <2>2, RingLenAssumption DEF Pointers
<1>3. Distance(ct, t) < 2 * RING_BUF_LEN - 1
  BY <1>1, <1>2, RingLenAssumption DEF InOrder
<1>4. Distance(Inc(ct), t) = Distance(ct, t) + 1
  BY <1>3, IncHead
<1> QED
  BY <1>1, <1>2, <1>4, IncIs, RingLenAssumption DEF InOrder

------------------------------------------------------------------------------
(* The inductive invariant *)

\* The slot before pointer p holds the second segment of a request.
EndsRequest(s, p) == s[Index(p - 1)] \in Descs /\ s[Index(p - 1)].seg = 1

\* What the host has pushed and the card has not read ends with a whole request,
\* whether or not the doorbell has been rung for it.
WholeRequests ==
    /\ ring.head # csrTail => EndsRequest(ring.slots, ring.head)
    /\ csrHead # csrTail => EndsRequest(ring.slots, csrHead)

IInv == TypeOK /\ InOrder(ring.tail, csrTail, csrHead, ring.head) /\ WholeRequests

Entries == Descs \cup {Zeroed}

\* The slot before a pointer is the one after the predecessors of the pointer.
LEMMA SlotBefore ==
    ASSUME NEW h \in Pointers, NEW t \in Pointers, h # t, Distance(h, t) <= RING_BUF_LEN
    PROVE  Index(h - 1) = Index(t + (Distance(h, t) - 1)) /\ Distance(h, t) - 1 \in Nat
<1> DEFINE n == Distance(h, t) - 1
<1>1. Distance(h, t) = IF h >= t THEN h - t ELSE h - t + 2 * RING_BUF_LEN
  BY DistanceIs
<1>2. n \in Nat /\ n < RING_BUF_LEN
  BY <1>1, RingLenAssumption DEF Pointers
<1>3. h - 1 \in -1 .. 3 * RING_BUF_LEN - 1 /\ t + n \in -1 .. 3 * RING_BUF_LEN - 1
  BY <1>2, RingLenAssumption DEF Pointers
<1>4. CASE h - 1 = t + n
  BY <1>2, <1>4
<1>5. CASE h = 0
  <2>1. t + n = 2 * RING_BUF_LEN - 1 /\ h - 1 = -1
    BY <1>1, <1>5, RingLenAssumption DEF Pointers
  <2> HIDE DEF n
  <2>2. Index(t + n) = RING_BUF_LEN - 1 /\ Index(-1) = RING_BUF_LEN - 1
    BY <1>3, <2>1, IndexIs, RingLenAssumption
  <2> QED
    BY <1>2, <2>1, <2>2 DEF n
<1>6. CASE h # 0 /\ t + n = h - 1 + 2 * RING_BUF_LEN
  <2>1. h - 1 >= 0 /\ h - 1 < RING_BUF_LEN /\ h - 1 = (t + n) - 2 * RING_BUF_LEN
    BY <1>2, <1>6, RingLenAssumption DEF Pointers
  <2> HIDE DEF n
  <2>2. Index(h - 1) = Index(t + n)
    BY <1>3, <2>1, SameSlot
  <2> QED
    BY <1>2, <2>2 DEF n
<1> QED
  BY <1>1, <1>4, <1>5, <1>6, RingLenAssumption DEF Pointers

\* push leaves the slot before a pointer the card has still to reach alone.
LEMMA PushKeepsEnd ==
    ASSUME NEW s \in [Slots -> Entries], NEW d \in Entries,
           NEW p \in Pointers, NEW h \in Pointers, NEW ct \in Pointers,
           p # ct, Distance(p, ct) <= Distance(h, ct), Distance(h, ct) < RING_BUF_LEN,
           EndsRequest(s, p)
    PROVE  EndsRequest(Write(s, h, d), p)
<1>1. Distance(p, ct) \in Nat /\ Distance(h, ct) \in Nat
  BY DistanceIs, RingLenAssumption DEF Pointers
<1>2. Distance(p, ct) <= RING_BUF_LEN /\ Distance(h, ct) <= RING_BUF_LEN
  BY <1>1, RingLenAssumption
<1>3. Index(p - 1) = Index(ct + (Distance(p, ct) - 1)) /\ Distance(p, ct) - 1 \in Nat
  BY <1>2, SlotBefore
<1>4. Index(h) = Index(ct + Distance(h, ct))
  BY <1>2, SlotOfHead
<1>5. Distance(p, ct) - 1 < Distance(h, ct)
  BY <1>1
<1>6. Index(p - 1) # Index(h)
  BY <1>1, <1>3, <1>4, <1>5, SlotsDiffer
<1>7. Index(p - 1) \in Slots
  <2>1. p - 1 \in -1 .. 3 * RING_BUF_LEN - 1
    BY RingLenAssumption DEF Pointers
  <2> QED
    BY <2>1, IndexIs
<1> QED
  BY <1>6, <1>7 DEF EndsRequest, Write

\* push of a second segment ends a request.
LEMMA PushEnds ==
    ASSUME NEW s \in [Slots -> Entries], NEW c \in Requests, NEW h \in Pointers
    PROVE  EndsRequest(Write(s, h, Seg(c, 1)), Inc(h))
<1>1. Inc(h) = IF h = 2 * RING_BUF_LEN - 1 THEN 0 ELSE h + 1
  BY IncIs
<1>2. Index(Inc(h) - 1) = Index(h)
  <2>1. CASE h = 2 * RING_BUF_LEN - 1
    <3>1. Inc(h) - 1 = -1
      BY <1>1, <2>1
    <3>2. Index(-1) = RING_BUF_LEN - 1
      BY IndexIs, RingLenAssumption
    <3>3. Index(h) = RING_BUF_LEN - 1
      BY <2>1, IndexIs, RingLenAssumption DEF Pointers
    <3> QED
      BY <3>1, <3>2, <3>3
  <2>2. CASE h # 2 * RING_BUF_LEN - 1
    BY <1>1, <2>2, RingLenAssumption DEF Pointers
  <2> QED
    BY <2>1, <2>2
<1>3. Index(h) \in Slots
  BY IndexIs, RingLenAssumption DEF Pointers
<1> QED
  BY <1>2, <1>3 DEF EndsRequest, Seg, Descs, Write

\* What both pushes of send do, given room for them: the invariant's parts for the
\* new slots and head, and two more descriptors at the end of the contents.
LEMMA PushBothIs ==
    ASSUME NEW s \in [Slots -> Entries], NEW c \in Requests,
           NEW t \in Pointers, NEW ct \in Pointers, NEW ch \in Pointers, NEW h \in Pointers,
           InOrder(t, ct, ch, h), Distance(h, t) + 2 <= RING_BUF_LEN,
           ch # ct => EndsRequest(s, ch),
           NEW s1, s1 = Write(s, h, Seg(c, 0)),
           NEW s2, s2 = Write(s1, Inc(h), Seg(c, 1)),
           NEW h2, h2 = Inc(Inc(h))
    PROVE  /\ s2 \in [Slots -> Entries]
           /\ h2 \in Pointers
           /\ InOrder(t, ct, ch, h2)
           /\ EndsRequest(s2, h2)
           /\ ch # ct => EndsRequest(s2, ch)
           /\ Len(Contents(s, h, ct)) + 2 <= RING_BUF_LEN
           /\ Contents(s2, h2, ct) = Append(Append(Contents(s, h, ct), Seg(c, 0)), Seg(c, 1))
<1> DEFINE h1 == Inc(h)
<1>1. Distance(h, t) \in Nat /\ Distance(h, ct) \in Nat /\ Distance(h, t) < RING_BUF_LEN
  BY DistanceIs, RingLenAssumption DEF Pointers
<1>2. InOrder(t, ct, ch, h1) /\ Distance(h1, t) = Distance(h, t) + 1 /\ h1 \in Pointers
  BY <1>1, PushKeepsOrder
<1>3. Distance(h1, t) < RING_BUF_LEN
  BY <1>1, <1>2, RingLenAssumption
<1>4. InOrder(t, ct, ch, h2) /\ h2 \in Pointers
  BY <1>2, <1>3, PushKeepsOrder
<1>5. /\ InOrder(ct, ct, ch, h) /\ Distance(h, ct) <= Distance(h, t)
      /\ InOrder(ct, ct, ch, h1) /\ Distance(h1, ct) <= Distance(h1, t)
  BY <1>2, SyncKeepsOrder
<1>6. Distance(h, ct) + 2 <= RING_BUF_LEN /\ Distance(h, ct) < RING_BUF_LEN
  BY <1>1, <1>5, RingLenAssumption
<1>7. Distance(h1, ct) < RING_BUF_LEN /\ Distance(h1, ct) \in Nat
  <2>1. Distance(h1, ct) \in Pointers /\ Distance(h1, t) \in Pointers
    BY <1>2, DistanceIs
  <2> QED
    BY <1>3, <1>5, <2>1, RingLenAssumption DEF Pointers
<1>8. Seg(c, 0) \in Entries /\ Seg(c, 1) \in Entries
  BY DEF Seg, Entries, Descs
<1> HIDE DEF h1
<1>9. s2 = Write(s1, h1, Seg(c, 1)) /\ h2 = Inc(h1)
  BY DEF h1
<1>10. s1 \in [Slots -> Entries]
  BY Zenon, <1>8, WriteType
<1>11. s2 \in [Slots -> Entries]
  BY <1>2, <1>8, <1>9, <1>10, WriteType
<1>12. EndsRequest(s2, h2)
  BY <1>2, <1>9, <1>10, PushEnds
<1>13. ASSUME ch # ct
       PROVE  EndsRequest(s2, ch)
  <2>1. Distance(ch, ct) <= Distance(h, ct) /\ Distance(ch, ct) <= Distance(h1, ct)
    BY <1>5 DEF InOrder
  <2>2. EndsRequest(s1, ch)
    BY <1>6, <1>8, <1>13, <2>1, PushKeepsEnd
  <2> QED
    BY <1>2, <1>7, <1>8, <1>9, <1>10, <1>13, <2>1, <2>2, PushKeepsEnd
<1>14. Len(Contents(s, h, ct)) = Distance(h, ct)
  <2>1. Distance(h, ct) <= RING_BUF_LEN
    BY <1>1, <1>6, RingLenAssumption
  <2> QED
    BY <2>1, ContentsIs, ZenonT(60)
<1>15. Contents(s1, h1, ct) = Append(Contents(s, h, ct), Seg(c, 0))
  BY <1>6, <1>8, PushAppends DEF h1
<1>16. Contents(s2, h2, ct) = Append(Contents(s1, h1, ct), Seg(c, 1))
  BY <1>2, <1>7, <1>8, <1>9, <1>10, PushAppends
<1> QED
  BY <1>4, <1>6, <1>11, <1>12, <1>13, <1>14, <1>15, <1>16

------------------------------------------------------------------------------
(* One step of each kind: the invariant, and what the queue of the refinement does *)

Rings == [slots : [Slots -> Entries], head : Pointers, tail : Pointers]

\* A new ring is empty and in order.
LEMMA InitIInv == RingInit => IInv /\ Queue!QInit
<1> SUFFICES ASSUME RingInit PROVE IInv /\ Queue!QInit
  OBVIOUS
<1>1. 0 \in Pointers
  BY RingLenAssumption DEF Pointers
<1>2. Distance(0, 0) = 0
  BY <1>1, DistanceIs
<1>3. NewRing \in Rings
  BY <1>1 DEF NewRing, Rings, Entries
<1>4. TypeOK
  BY <1>1, <1>3 DEF RingInit, TypeOK, Rings, Entries
<1>5. InOrder(ring.tail, csrTail, csrHead, ring.head)
  BY <1>2, RingLenAssumption DEF RingInit, NewRing, InOrder
<1>6. WholeRequests
  BY DEF RingInit, NewRing, WholeRequests
<1>7. InRing = <<>>
  BY <1>2 DEF RingInit, NewRing, InRing, Contents
<1> QED
  BY <1>4, <1>5, <1>6, <1>7 DEF IInv, Queue!QInit, RingInit

\* send puts a whole request into the queue, or leaves the queue as it is.
LEMMA SendStep ==
    ASSUME NEW c \in Requests, IInv, Send(c)
    PROVE  IInv' /\ (Queue!Put(c) \/ (InRing' = InRing /\ taken' = taken))
<1> DEFINE r == SyncTail(ring, csrTail)
           s1 == Write(r.slots, r.head, Seg(c, 0))
           s2 == Write(s1, Inc(r.head), Seg(c, 1))
           h2 == Inc(Inc(r.head))
<1>1. ring \in Rings /\ csrHead \in Pointers /\ csrTail \in Pointers
  BY DEF IInv, TypeOK, Rings, Entries
<1>2. InOrder(ring.tail, csrTail, csrHead, ring.head)
  BY DEF IInv
<1>3. r \in Rings /\ r.slots = ring.slots /\ r.head = ring.head
  BY <1>1 DEF SyncTail, SetTail, Rings
<1>4. InOrder(r.tail, csrTail, csrHead, r.head)
  <2>1. InOrder(csrTail, csrTail, csrHead, ring.head)
    BY <1>1, <1>2, SyncKeepsOrder DEF Rings
  <2>2. r.tail = ring.tail \/ r.tail = csrTail
    BY <1>1 DEF SyncTail, SetTail, Rings
  <2> QED
    BY <1>2, <1>3, <2>1, <2>2
<1>5. csrHead' = csrHead /\ csrTail' = csrTail /\ taken' = taken
  BY DEF Send
<1>6. ring' = IF Remaining(r) < 2 THEN r ELSE PushBoth(r, c)
  BY DEF Send
<1> HIDE DEF r
<1>7. CASE Remaining(r) < 2
  <2>1. ring' = r
    BY <1>6, <1>7
  <2>2. TypeOK'
    BY <1>3, <1>5, <2>1 DEF IInv, TypeOK, Rings, Entries
  <2>3. WholeRequests'
    BY <1>3, <1>5, <2>1 DEF IInv, WholeRequests
  <2>4. InRing' = InRing
    BY <1>3, <1>5, <2>1 DEF InRing
  <2> QED
    BY <1>4, <1>5, <2>1, <2>2, <2>3, <2>4 DEF IInv
<1>8. CASE ~(Remaining(r) < 2)
  <2>1. Distance(r.head, r.tail) + 2 <= RING_BUF_LEN
    <3>1. Distance(r.head, r.tail) \in Pointers
      BY <1>3, DistanceIs DEF Rings
    <3> QED
      BY <1>8, <3>1, RingLenAssumption DEF Remaining, Pointers
  <2>2. ring' = [slots |-> s2, head |-> h2, tail |-> r.tail]
    BY Zenon, <1>3, <1>6, <1>8 DEF PushBoth, Push, Rings, Write
  <2>3. r.slots \in [Slots -> Entries] /\ r.head \in Pointers /\ r.tail \in Pointers
    BY <1>3 DEF Rings
  <2>4. csrHead # csrTail => EndsRequest(r.slots, csrHead)
    BY <1>3 DEF IInv, WholeRequests
  <2>4a. s1 = Write(r.slots, r.head, Seg(c, 0)) /\ s2 = Write(s1, Inc(r.head), Seg(c, 1))
        /\ h2 = Inc(Inc(r.head))
    OBVIOUS
  <2> HIDE DEF s1, s2, h2
  <2>5. /\ s2 \in [Slots -> Entries]
        /\ h2 \in Pointers
        /\ InOrder(r.tail, csrTail, csrHead, h2)
        /\ EndsRequest(s2, h2)
        /\ csrHead # csrTail => EndsRequest(s2, csrHead)
        /\ Len(Contents(r.slots, r.head, csrTail)) + 2 <= RING_BUF_LEN
        /\ Contents(s2, h2, csrTail)
             = Append(Append(Contents(r.slots, r.head, csrTail), Seg(c, 0)), Seg(c, 1))
    BY SMTT(60), <1>1, <1>4, <2>1, <2>3, <2>4, <2>4a, PushBothIs
  <2>6. ring'.slots = s2 /\ ring'.head = h2 /\ ring'.tail = r.tail
    BY <2>2
  <2>7. TypeOK'
    BY <1>5, <2>2, <2>3, <2>5 DEF IInv, TypeOK, Entries
  <2>8. WholeRequests'
    BY <1>5, <2>5, <2>6 DEF WholeRequests
  <2>9. InOrder(ring.tail, csrTail, csrHead, ring.head)'
    BY <1>5, <2>5, <2>6
  <2>10. InRing' = Append(Append(InRing, Seg(c, 0)), Seg(c, 1)) /\ Len(InRing) + 2 <= RING_BUF_LEN
    BY <1>3, <1>5, <2>5, <2>6 DEF InRing
  <2> QED
    BY <1>5, <2>7, <2>8, <2>9, <2>10 DEF IInv, Queue!Put, Queue!Seg, Seg
<1> QED
  BY <1>7, <1>8

\* Ringing the doorbell leaves the queue as it is.
LEMMA SyncHeadStep ==
    ASSUME IInv, SyncHead
    PROVE  IInv' /\ InRing' = InRing /\ taken' = taken
<1>1. ring \in Rings /\ csrHead \in Pointers /\ csrTail \in Pointers
  BY DEF IInv, TypeOK, Rings, Entries
<1>2. Distance(csrTail, ring.tail) \in Nat /\ Distance(csrHead, ring.tail) \in Nat
      /\ Distance(ring.head, ring.tail) \in Nat
  <2>1. ring.head \in Pointers /\ ring.tail \in Pointers
    BY <1>1 DEF Rings
  <2>2. /\ Distance(csrTail, ring.tail) \in Pointers
        /\ Distance(csrHead, ring.tail) \in Pointers
        /\ Distance(ring.head, ring.tail) \in Pointers
    BY <1>1, <2>1, DistanceIs
  <2> QED
    BY <2>2, RingLenAssumption DEF Pointers
<1>3. InOrder(ring.tail, csrTail, ring.head, ring.head)
  BY <1>2 DEF IInv, InOrder
<1>4. TypeOK'
  BY <1>1 DEF IInv, TypeOK, SyncHead, Rings
<1>5. WholeRequests'
  BY DEF IInv, WholeRequests, SyncHead
<1> QED
  BY <1>3, <1>4, <1>5 DEF IInv, SyncHead, InRing

\* The card's read takes the head of the queue.
LEMMA CardTakesStep ==
    ASSUME IInv, CardTakes
    PROVE  IInv' /\ Queue!Take
<1>1. ring \in Rings /\ csrHead \in Pointers /\ csrTail \in Pointers
  BY DEF IInv, TypeOK, Rings, Entries
<1>2. InOrder(ring.tail, Inc(csrTail), csrHead, ring.head) /\ Inc(csrTail) \in Pointers
  BY <1>1, ReadKeepsOrder DEF IInv, CardTakes, Rings
<1>3. InOrder(csrTail, csrTail, csrHead, ring.head)
  BY <1>1, SyncKeepsOrder DEF IInv, Rings
<1>4. csrTail # ring.head /\ Distance(ring.head, csrTail) <= RING_BUF_LEN
  <2>1. Distance(csrHead, csrTail) # 0 /\ Distance(csrHead, csrTail) \in Nat
    <3>1. Distance(csrHead, csrTail) = IF csrHead >= csrTail THEN csrHead - csrTail
                                       ELSE csrHead - csrTail + 2 * RING_BUF_LEN
      BY <1>1, DistanceIs
    <3> QED
      BY <1>1, <3>1, RingLenAssumption DEF CardTakes, Pointers
  <2>2. Distance(csrTail, csrTail) = 0
    BY <1>1, DistanceIs, RingLenAssumption DEF Pointers
  <2> QED
    BY <1>3, <2>1, <2>2 DEF InOrder
<1>5. /\ InRing # <<>>
      /\ Head(InRing) = ring.slots[Index(csrTail)]
      /\ Contents(ring.slots, ring.head, Inc(csrTail)) = Tail(InRing)
  BY Zenon, <1>1, <1>4, ReadTakesHead DEF InRing, Rings
<1>6. Queue!Take
  BY <1>5 DEF Queue!Take, CardTakes, InRing
<1>7. ring.slots[Index(csrTail)] \in Entries
  BY <1>1, IndexIs, RingLenAssumption DEF Rings, Pointers
<1>8. TypeOK'
  BY <1>1, <1>2, <1>7 DEF TypeOK, CardTakes, Rings, Entries
<1>9. WholeRequests'
  BY <1>4 DEF IInv, WholeRequests, CardTakes
<1> QED
  BY <1>2, <1>6, <1>8, <1>9 DEF IInv, CardTakes

------------------------------------------------------------------------------
(* The theorems *)

\* The invariant is inductive, and every step of the ring is a step of the queue or
\* none.
LEMMA NextStep ==
    ASSUME IInv, [RingNext]_ringVars
    PROVE  IInv' /\ [Queue!QNext]_<<InRing, taken>>
<1>1. ASSUME NEW c \in Requests, Send(c)
      PROVE  IInv' /\ [Queue!QNext]_<<InRing, taken>>
  BY <1>1, SendStep DEF Queue!QNext
<1>2. CASE SyncHead
  BY <1>2, SyncHeadStep
<1>3. CASE CardTakes
  BY <1>3, CardTakesStep DEF Queue!QNext
<1>4. CASE UNCHANGED ringVars
  <2>1. InRing' = InRing /\ taken' = taken
    BY <1>4 DEF ringVars, InRing
  <2>2. IInv'
    BY <1>4 DEF ringVars, IInv, TypeOK, WholeRequests
  <2> QED
    BY <2>1, <2>2
<1> QED
  BY <1>1, <1>2, <1>3, <1>4 DEF RingNext

\* The invariant holds in every state.
LEMMA Invariance == RingSpec => []IInv
<1>1. RingInit => IInv
  BY InitIInv
<1>2. IInv /\ [RingNext]_ringVars => IInv'
  BY NextStep
<1> QED
  BY <1>1, <1>2, PTL DEF RingSpec

\* The ring and the registers keep their types.
THEOREM RingTypeCorrect == RingSpec => []TypeOK
<1>1. IInv => TypeOK
  BY DEF IInv
<1> QED
  BY <1>1, Invariance, PTL

\* send never runs into slots the card has still to read, though it goes by a tail
\* register read an unbounded time ago.
THEOREM RingInOrder == RingSpec => []PointersInOrder
<1>1. IInv => PointersInOrder
  BY DEF IInv, InOrder, PointersInOrder
<1> QED
  BY <1>1, Invariance, PTL

\* The doorbell of a batch never exposes half a request.
THEOREM DoorbellIsWhole == RingSpec => []DoorbellAfterWholeRequest
<1>1. IInv => DoorbellAfterWholeRequest
  BY DEF IInv, WholeRequests, EndsRequest, DoorbellAfterWholeRequest
<1> QED
  BY <1>1, Invariance, PTL

\* The ring implements the bounded FIFO queue: the card reads every descriptor that
\* send pushed once, unchanged and in order.
THEOREM RingImplementsQueue == RingSpec => IsAQueue
<1>1. RingInit => Queue!QInit
  BY InitIInv
<1>2. IInv /\ [RingNext]_ringVars => [Queue!QNext]_(Queue!qvars)
  BY NextStep DEF Queue!qvars
<1> QED
  BY <1>1, <1>2, Invariance, PTL DEF RingSpec, IsAQueue, Queue!QSpec
==============================================================================
