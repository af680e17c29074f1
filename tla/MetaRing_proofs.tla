--------------------------- MODULE MetaRing_proofs ---------------------------
(***************************************************************************)
(* For any number of queues and rings of any length of at least two        *)
(* descriptors: the MetaWorker takes the card's reports whole, one after   *)
(* the other, and the slots the card may write to are zeroed.              *)
(*                                                                         *)
(* The invariant (QueueOK) describes a ring from the host's tail on: first *)
(* a chain of valid descriptors, each followed by the one the card writes  *)
(* after it, then the slot the card is at, then zeroed slots.              *)
(***************************************************************************)
EXTENDS MetaRing, DmaRing_proofs

\* Which half of which report a descriptor is.
Key(b) == [id |-> b.id, part |-> b.part]
Keys(m) == [id : 0 .. m - 1, part : {0, 1}]

\* What follows a descriptor with this body.
After(b, m) ==
    IF b.next THEN [id |-> b.id, part |-> 1] ELSE [id |-> (b.id + 1) % m, part |-> 0]

\* The slot k behind the tail, and how many of them the card has filled up to h.
At(r, k) == r.slots[Index(r.tail + k)]
Used(r, h) == Distance(h, r.tail)

\* The descriptor k behind the tail; after the last one, the card's next.
KeyAt(r, h, c, k) ==
    IF k < Used(r, h) THEN Key(At(r, k).body) ELSE [id |-> c.id, part |-> c.part]

Written(d) == d \in Descs /\ d.valid /\ (d.body.part = 1 => ~d.body.next)

Ring == [slots : [Slots -> Descs \cup {Zeroed}], head : Pointers, tail : Pointers]
CardState(m) == [id : 0 .. m - 1, part : {0, 1}, pair : BOOLEAN, writing : BOOLEAN]

\* The card's pointer is at most a ring ahead of the register it respects.
InBounds(r, h, ct, c) ==
    /\ Used(r, h) <= Distance(h, ct)
    /\ Distance(h, ct) <= RING_BUF_LEN
    /\ c.writing => Distance(h, ct) < RING_BUF_LEN

\* From the tail to the card's pointer, each descriptor is the one after the last.
Chained(r, h, c, key, m) ==
    /\ KeyAt(r, h, c, 0) = key
    /\ \A k \in 0 .. Used(r, h) - 1 :
        Written(At(r, k)) /\ KeyAt(r, h, c, k + 1) = After(At(r, k).body, m)

\* Behind it everything is zeroed but the descriptor half written.
RestIsZeroed(r, h, c) ==
    /\ \A k \in Used(r, h) .. RING_BUF_LEN - 1 :
        At(r, k) = Zeroed \/ (k = Used(r, h) /\ c.writing)
    /\ c.writing =>
        /\ At(r, Used(r, h)) =
                Desc([id |-> c.id, part |-> c.part, next |-> c.pair], FALSE)
        /\ c.part = 1 => ~c.pair

QueueTypes(r, h, ct, c, key, m) ==
    /\ r \in Ring /\ h \in Pointers /\ ct \in Pointers
    /\ m \in Nat \ {0} /\ c \in CardState(m) /\ key \in Keys(m)

QueueOK(r, h, ct, c, key, m) ==
    /\ QueueTypes(r, h, ct, c, key, m)
    /\ InBounds(r, h, ct, c)
    /\ Chained(r, h, c, key, m)
    /\ RestIsZeroed(r, h, c)

------------------------------------------------------------------------------
Wanted(q) == [id |-> wanted[q], part |-> 0]

HostTypes ==
    /\ pos \in Queues
    /\ host \in [pc : {"poll", "check", "take one", "take two", "publish"}, i : Queues,
                 first : Descs \cup {Zeroed}, next : Descs \cup {Zeroed}]

Shapes ==
    /\ rings \in [Queues -> Ring]
    /\ csrHead \in [Queues -> Pointers]
    /\ csrTail \in [Queues -> Pointers]
    /\ card \in [Queues -> [id : Nat, part : {0, 1}, pair : BOOLEAN, writing : BOOLEAN]]
    /\ wanted \in [Queues -> Nat]

QueuesOK ==
    \A q \in Queues :
        QueueOK(rings[q], csrHead[q], csrTail[q], card[q], Wanted(q), Ids[q])

\* The register is behind the tail only between Take and Publish.
TailsPublished ==
    \A q \in Queues : csrTail[q] = rings[q].tail \/ (host.pc = "publish" /\ q = Polled)

\* What CheckFlags saw is still there when Take reads again.
Decided ==
    /\ host.pc = "take one" => TakesOf(rings[Polled]) = 1
    /\ host.pc = "take two" => TakesOf(rings[Polled]) = 2

IInv == HostTypes /\ Shapes /\ QueuesOK /\ TailsPublished /\ Decided /\ TakesNextReport

------------------------------------------------------------------------------
(* What the card's writes and the host's advance do to one ring *)

\* The slots behind the tail are slots of the ring, and the first RING_BUF_LEN of
\* them differ.
LEMMA AtIs ==
    ASSUME NEW t \in Pointers, NEW k \in 0 .. RING_BUF_LEN
    PROVE  /\ Index(t + k) \in Slots
           /\ t + k \in -1 .. 3 * RING_BUF_LEN - 1
<1>1. t + k \in -1 .. 3 * RING_BUF_LEN - 1
  BY RingLenAssumption DEF Pointers
<1> QED
  BY <1>1, IndexIs

\* Seen from the next tail, the slots are one closer.
LEMMA AtNextTail ==
    ASSUME NEW t \in Pointers, NEW k \in 0 .. RING_BUF_LEN - 1
    PROVE  /\ Index(Inc(t) + k) = Index(t + (k + 1))
           /\ (k = RING_BUF_LEN - 1) => Index(t + (k + 1)) = Index(t)
           /\ (k < RING_BUF_LEN - 1) => Index(t + (k + 1)) # Index(t)
<1>1. Inc(t) = IF t = 2 * RING_BUF_LEN - 1 THEN 0 ELSE t + 1
  BY IncIs
<1>2. /\ t + (k + 1) \in -1 .. 3 * RING_BUF_LEN - 1
      /\ t \in -1 .. 3 * RING_BUF_LEN - 1
      /\ Inc(t) + k \in -1 .. 3 * RING_BUF_LEN - 1
  BY <1>1, RingLenAssumption DEF Pointers
<1>3. Index(Inc(t) + k) = Index(t + (k + 1))
  BY <1>1, <1>2, IndexIs, RingLenAssumption DEF Pointers
<1>4. ASSUME k = RING_BUF_LEN - 1 PROVE Index(t + (k + 1)) = Index(t)
  BY <1>2, <1>4, IndexIs, RingLenAssumption DEF Pointers
<1>5. ASSUME k < RING_BUF_LEN - 1 PROVE Index(t + (k + 1)) # Index(t)
  BY <1>2, <1>5, IndexIs, RingLenAssumption DEF Pointers
<1> QED
  BY <1>3, <1>4, <1>5

\* A ring with d in the card's slot, and the card during and after a write.
PutAt(r, h, d) == [r EXCEPT !.slots[Index(h)] = d]
Writing(c, pair) == [c EXCEPT !.pair = pair, !.writing = TRUE]
WroteFlags(c, m) ==
    IF c.pair THEN [c EXCEPT !.part = 1, !.writing = FALSE]
    ELSE [id |-> (c.id + 1) % m, part |-> 0, pair |-> FALSE, writing |-> FALSE]
BodyOf(c, pair) == [id |-> c.id, part |-> c.part, next |-> pair]

LEMMA PutAtTail == ASSUME NEW r \in Ring, NEW h, NEW d PROVE PutAt(r, h, d).tail = r.tail
BY DEF Ring, PutAt

\* A write to the card's slot changes the slot Used behind the tail and no other.
LEMMA WriteAtHead ==
    ASSUME NEW r \in Ring, NEW h \in Pointers, NEW d \in Descs, Used(r, h) < RING_BUF_LEN
    PROVE  /\ PutAt(r, h, d) \in Ring
           /\ PutAt(r, h, d).tail = r.tail
           /\ At(PutAt(r, h, d), Used(r, h)) = d
           /\ \A k \in 0 .. RING_BUF_LEN - 1 :
                k # Used(r, h) => At(PutAt(r, h, d), k) = At(r, k)
<1> DEFINE n == Used(r, h)
           r2 == PutAt(r, h, d)
<1>1. r.tail \in Pointers /\ r.slots \in [Slots -> Descs \cup {Zeroed}]
  BY DEF Ring
<1>2. n \in Nat /\ n < RING_BUF_LEN
  BY <1>1, DistanceIs, RingLenAssumption DEF Pointers, Used
<1>3. Index(h) = Index(r.tail + n) /\ Index(h) \in Slots
  <2>1. Distance(h, r.tail) <= RING_BUF_LEN
    BY <1>2, RingLenAssumption DEF Used
  <2>2. Index(h) = Index(r.tail + n)
    BY <1>1, <2>1, SlotOfHead DEF Used
  <2> QED
    BY <1>1, <1>2, <2>2, AtIs, RingLenAssumption
<1>4. r2 \in Ring /\ r2.tail = r.tail
  BY <1>1, <1>3 DEF Ring, PutAt
<1>5. r2.slots = [r.slots EXCEPT ![Index(h)] = d]
  BY DEF Ring, PutAt
<1>6. At(r2, n) = d
  BY <1>1, <1>3, <1>4, <1>5 DEF At
<1>7. ASSUME NEW k \in 0 .. RING_BUF_LEN - 1, k # n
      PROVE  At(r2, k) = At(r, k)
  <2>1. Index(r.tail + k) # Index(r.tail + n)
    <3>1. CASE k < n
      BY <1>1, <1>2, <3>1, SlotsDiffer, RingLenAssumption
    <3>2. CASE n < k
      BY <1>1, <1>2, <3>2, SlotsDiffer, RingLenAssumption
    <3> QED
      BY <1>2, <1>7, <3>1, <3>2
  <2>2. Index(r.tail + k) \in Slots
    BY <1>1, AtIs, RingLenAssumption
  <2> QED
    BY <1>1, <1>3, <1>4, <1>5, <2>1, <2>2 DEF At
<1> QED
  BY <1>4, <1>6, <1>7

\* read_and_advance takes the slot at the tail off and leaves a zeroed slot behind.
LEMMA AdvanceAt ==
    ASSUME NEW r \in Ring, NEW h \in Pointers, h # r.tail
    PROVE  /\ Advance(r) \in Ring
           /\ Advance(r).tail = Inc(r.tail) /\ Advance(r).head = r.head
           /\ Used(Advance(r), h) = Used(r, h) - 1
           /\ \A k \in 0 .. RING_BUF_LEN - 2 : At(Advance(r), k) = At(r, k + 1)
           /\ At(Advance(r), RING_BUF_LEN - 1) = Zeroed
<1> DEFINE r2 == Advance(r)
<1>1. r.tail \in Pointers /\ r.slots \in [Slots -> Descs \cup {Zeroed}]
  BY DEF Ring
<1>2. Inc(r.tail) \in Pointers
  BY <1>1, IncIs
<1>3. Index(r.tail) \in Slots
  <2>1. r.tail + 0 = r.tail
    BY <1>1 DEF Pointers
  <2> QED
    BY <1>1, <2>1, AtIs, RingLenAssumption
<1>4. r2 \in Ring /\ r2.tail = Inc(r.tail) /\ r2.head = r.head
  BY Zenon, <1>1, <1>2, <1>3 DEF Ring, Advance
<1>5. r2.slots = [r.slots EXCEPT ![Index(r.tail)] = Zeroed]
  BY DEF Ring, Advance
<1>6. Used(r2, h) = Used(r, h) - 1
  BY <1>1, <1>4, IncTail DEF Used
<1>7. ASSUME NEW k \in 0 .. RING_BUF_LEN - 1
      PROVE  At(r2, k) = [r.slots EXCEPT ![Index(r.tail)] = Zeroed][Index(r.tail + (k + 1))]
  BY <1>1, <1>4, <1>5, AtNextTail DEF At
<1>8. ASSUME NEW k \in 0 .. RING_BUF_LEN - 2
      PROVE  At(r2, k) = At(r, k + 1)
  <2>1. k \in 0 .. RING_BUF_LEN - 1 /\ k < RING_BUF_LEN - 1 /\ k + 1 \in 0 .. RING_BUF_LEN
    BY RingLenAssumption
  <2>2. Index(r.tail + (k + 1)) # Index(r.tail)
    BY <1>1, <2>1, AtNextTail
  <2>3. Index(r.tail + (k + 1)) \in Slots
    BY <1>1, <2>1, AtIs
  <2> QED
    BY <1>1, <1>7, <2>1, <2>2, <2>3 DEF At
<1>9. At(r2, RING_BUF_LEN - 1) = Zeroed
  <2>1. RING_BUF_LEN - 1 \in 0 .. RING_BUF_LEN - 1
    BY RingLenAssumption
  <2>2. Index(r.tail + ((RING_BUF_LEN - 1) + 1)) = Index(r.tail)
    BY <1>1, <2>1, AtNextTail
  <2> QED
    BY <1>1, <1>3, <1>7, <2>1, <2>2
<1> QED
  BY <1>4, <1>6, <1>8, <1>9
\* Two rings agree on the first n slots behind the tail.
SameUpTo(r2, r, n) == \A k \in 0 .. n - 1 : At(r2, k) = At(r, k)

\* How far the card is ahead of the host's tail.
LEMMA UsedIs ==
    ASSUME NEW r \in Ring, NEW h \in Pointers
    PROVE  /\ r.tail \in Pointers
           /\ Used(r, h) \in Nat
           /\ (h = r.tail) <=> (Used(r, h) = 0)
<1>1. r.tail \in Pointers
  BY DEF Ring
<1>2. Distance(h, r.tail) = IF h >= r.tail THEN h - r.tail ELSE h - r.tail + 2 * RING_BUF_LEN
  BY <1>1, DistanceIs
<1> QED
  BY <1>1, <1>2, RingLenAssumption DEF Used, Pointers

\* CardWritesBody keeps the queue in order.
LEMMA WriteBodyKeeps ==
    ASSUME NEW r, NEW h, NEW ct, NEW c, NEW key, NEW m, QueueOK(r, h, ct, c, key, m),
           Distance(h, ct) < RING_BUF_LEN,
           NEW pair, pair \in BOOLEAN, ~c.writing, c.part = 1 => pair = FALSE
    PROVE  /\ QueueOK(PutAt(r, h, Desc(BodyOf(c, pair), FALSE)), h, ct, Writing(c, pair), key, m)
           /\ PutAt(r, h, Desc(BodyOf(c, pair), FALSE)).tail = r.tail
           /\ SameUpTo(PutAt(r, h, Desc(BodyOf(c, pair), FALSE)), r, Used(r, h))
<1> DEFINE d == Desc(BodyOf(c, pair), FALSE)
           n == Used(r, h)
           r2 == PutAt(r, h, d)
           c2 == Writing(c, pair)
<1>1. /\ r \in Ring /\ h \in Pointers /\ ct \in Pointers
      /\ m \in Nat \ {0} /\ c \in CardState(m) /\ key \in Keys(m)
  BY DEF QueueOK, QueueTypes
<1>2. n \in Nat /\ r.tail \in Pointers
  BY <1>1, UsedIs
<1>3. n < RING_BUF_LEN
  BY <1>1, <1>2, DistanceIs, RingLenAssumption DEF QueueOK, InBounds, Pointers
<1>4. d \in Descs
  BY <1>1 DEF Descs, Desc, Body, CardState, BodyOf
<1>5. c2 \in CardState(m) /\ c2.id = c.id /\ c2.part = c.part /\ c2.pair = pair /\ c2.writing
  BY Zenon, <1>1 DEF CardState, Writing
<1>6. /\ r2 \in Ring /\ r2.tail = r.tail
      /\ At(r2, n) = d
      /\ \A k \in 0 .. RING_BUF_LEN - 1 : k # n => At(r2, k) = At(r, k)
  BY ZenonT(60), <1>1, <1>3, <1>4, WriteAtHead
<1>7. Used(r2, h) = n
  BY Zenon, <1>6 DEF Used
<1> HIDE DEF n, r2, c2, d
<1>8. QueueTypes(r2, h, ct, c2, key, m)
  BY <1>1, <1>5, <1>6 DEF QueueTypes
<1>9. InBounds(r2, h, ct, c2)
  BY <1>7 DEF QueueOK, InBounds, n
<1>10. \A k \in 0 .. n - 1 : At(r2, k) = At(r, k)
  BY <1>2, <1>3, <1>6, RingLenAssumption
<1>11. \A k \in 0 .. n : KeyAt(r2, h, c2, k) = KeyAt(r, h, c, k)
  BY <1>2, <1>5, <1>7, <1>10 DEF KeyAt, n
<1>12. Chained(r2, h, c2, key, m)
  <2>1. Chained(r, h, c, key, m)
    BY DEF QueueOK
  <2>2. KeyAt(r2, h, c2, 0) = key
    BY <1>2, <1>11, <2>1 DEF Chained
  <2>3. ASSUME NEW k \in 0 .. n - 1
        PROVE  Written(At(r2, k)) /\ KeyAt(r2, h, c2, k + 1) = After(At(r2, k).body, m)
    <3>1. k + 1 \in 0 .. n
      BY <1>2
    <3>2. Written(At(r, k)) /\ KeyAt(r, h, c, k + 1) = After(At(r, k).body, m)
      BY <2>1 DEF Chained, n
    <3> QED
      BY <1>10, <1>11, <3>1, <3>2
  <2> QED
    BY <1>7, <2>2, <2>3 DEF Chained
<1>13. RestIsZeroed(r2, h, c2)
  <2>1. RestIsZeroed(r, h, c)
    BY DEF QueueOK
  <2>2. ASSUME NEW k \in n .. RING_BUF_LEN - 1 PROVE At(r2, k) = Zeroed \/ k = n
    BY <1>2, <1>6, <2>1, RingLenAssumption DEF RestIsZeroed, n
  <2> QED
    BY <1>5, <1>6, <1>7, <2>2 DEF RestIsZeroed, d, BodyOf
<1> QED
  BY Zenon, <1>6, <1>8, <1>9, <1>10, <1>12, <1>13 DEF QueueOK, SameUpTo, n, r2, c2, d

\* CardWritesFlags adds the descriptor to the chain.
LEMMA WriteFlagsKeeps ==
    ASSUME NEW r, NEW h, NEW ct, NEW c, NEW key, NEW m, QueueOK(r, h, ct, c, key, m),
           c.writing
    PROVE  /\ BodyOf(c, c.pair) \in Body
           /\ r.slots[Index(h)] = Desc(BodyOf(c, c.pair), FALSE)
           /\ QueueOK(PutAt(r, h, Desc(BodyOf(c, c.pair), TRUE)), Inc(h), ct,
                      WroteFlags(c, m), key, m)
           /\ PutAt(r, h, Desc(BodyOf(c, c.pair), TRUE)).tail = r.tail
           /\ SameUpTo(PutAt(r, h, Desc(BodyOf(c, c.pair), TRUE)), r, Used(r, h))
<1> DEFINE b == BodyOf(c, c.pair)
           d == Desc(b, TRUE)
           n == Used(r, h)
           h2 == Inc(h)
           r2 == PutAt(r, h, d)
           c2 == WroteFlags(c, m)
<1>1. /\ r \in Ring /\ h \in Pointers /\ ct \in Pointers
      /\ m \in Nat \ {0} /\ c \in CardState(m) /\ key \in Keys(m)
  BY DEF QueueOK, QueueTypes
<1>2. n \in Nat /\ r.tail \in Pointers
  BY <1>1, UsedIs
<1>3. /\ Distance(h, ct) \in Nat
      /\ n <= Distance(h, ct) /\ Distance(h, ct) < RING_BUF_LEN /\ n < RING_BUF_LEN
  <2>1. Distance(h, ct) \in Nat
    BY <1>1, DistanceIs, RingLenAssumption DEF Pointers
  <2> QED
    BY <1>2, <2>1, RingLenAssumption DEF QueueOK, InBounds
<1>4. b \in Body /\ d \in Descs /\ Written(d) /\ d.body = b
  <2>1. c.id \in Nat /\ c.part \in {0, 1} /\ c.pair \in BOOLEAN
    BY <1>1 DEF CardState
  <2>2. c.part = 1 => ~c.pair
    BY DEF QueueOK, RestIsZeroed
  <2> QED
    BY <2>1, <2>2 DEF Descs, Desc, Body, Written, BodyOf
<1>5. /\ c2 \in CardState(m) /\ ~c2.writing
      /\ [id |-> c2.id, part |-> c2.part] = After(b, m)
  <2>1. c.id \in 0 .. m - 1 /\ (c.id + 1) % m \in 0 .. m - 1
    BY <1>1 DEF CardState
  <2>2. c2 \in CardState(m) /\ ~c2.writing
    BY Zenon, <1>1, <2>1 DEF CardState, WroteFlags
  <2>3. [id |-> c2.id, part |-> c2.part] =
            IF c.pair THEN [id |-> c.id, part |-> 1] ELSE [id |-> (c.id + 1) % m, part |-> 0]
    BY <1>1 DEF CardState, WroteFlags
  <2>4. b.next = c.pair /\ b.id = c.id
    BY DEF BodyOf
  <2> QED
    BY Zenon, <2>2, <2>3, <2>4 DEF After
<1>6. r.slots[Index(h)] = Desc(b, FALSE)
  <2>1. At(r, n) = Desc(b, FALSE)
    BY DEF QueueOK, RestIsZeroed, BodyOf
  <2>2. Distance(h, r.tail) <= RING_BUF_LEN
    BY <1>2, <1>3, RingLenAssumption DEF Used
  <2>3. Index(h) = Index(r.tail + n)
    BY <1>1, <1>2, <2>2, SlotOfHead DEF Used
  <2> QED
    BY Zenon, <2>1, <2>3 DEF At
<1>7. /\ r2 \in Ring /\ r2.tail = r.tail
      /\ At(r2, n) = d
      /\ \A k \in 0 .. RING_BUF_LEN - 1 : k # n => At(r2, k) = At(r, k)
  BY ZenonT(60), <1>1, <1>3, <1>4, WriteAtHead
<1>8. h2 \in Pointers /\ Used(r2, h2) = n + 1 /\ Distance(h2, ct) = Distance(h, ct) + 1
  <2>1. n < 2 * RING_BUF_LEN - 1 /\ Distance(h, ct) < 2 * RING_BUF_LEN - 1
    BY <1>2, <1>3, RingLenAssumption
  <2> QED
    BY ZenonT(60), <1>1, <1>2, <1>7, <2>1, IncHead, IncIs DEF Used
<1> HIDE DEF n, h2, b, d, r2, c2
<1>9. QueueTypes(r2, h2, ct, c2, key, m)
  BY <1>1, <1>5, <1>7, <1>8 DEF QueueTypes
<1>10. InBounds(r2, h2, ct, c2)
  BY <1>2, <1>3, <1>5, <1>8, RingLenAssumption DEF InBounds
<1>11. \A k \in 0 .. n - 1 : At(r2, k) = At(r, k)
  BY <1>2, <1>3, <1>7, RingLenAssumption
<1>12. \A k \in 0 .. n : KeyAt(r2, h2, c2, k) = KeyAt(r, h, c, k)
  <2>1. KeyAt(r2, h2, c2, n) = KeyAt(r, h, c, n)
    <3>1. Key(b) = [id |-> c.id, part |-> c.part]
      BY DEF Key, b, BodyOf
    <3> QED
      BY <1>2, <1>4, <1>7, <1>8, <3>1 DEF KeyAt, n
  <2>2. ASSUME NEW k \in 0 .. n - 1 PROVE KeyAt(r2, h2, c2, k) = KeyAt(r, h, c, k)
    BY <1>2, <1>8, <1>11 DEF KeyAt, n
  <2> QED
    BY <1>2, <2>1, <2>2
<1>13. KeyAt(r2, h2, c2, n + 1) = After(b, m)
  BY <1>2, <1>5, <1>8 DEF KeyAt
<1>14. Chained(r2, h2, c2, key, m)
  <2>1. Chained(r, h, c, key, m)
    BY DEF QueueOK
  <2>2. KeyAt(r2, h2, c2, 0) = key
    BY <1>2, <1>12, <2>1 DEF Chained
  <2>3. ASSUME NEW k \in 0 .. n
        PROVE  Written(At(r2, k)) /\ KeyAt(r2, h2, c2, k + 1) = After(At(r2, k).body, m)
    <3>1. CASE k = n
      BY <1>4, <1>7, <1>13, <3>1
    <3>2. CASE k \in 0 .. n - 1
      <4>1. k + 1 \in 0 .. n
        BY <1>2, <3>2
      <4>2. Written(At(r, k)) /\ KeyAt(r, h, c, k + 1) = After(At(r, k).body, m)
        BY <2>1, <3>2 DEF Chained, n
      <4> QED
        BY <1>11, <1>12, <3>2, <4>1, <4>2
    <3> QED
      BY <1>2, <3>1, <3>2
  <2>4. 0 .. Used(r2, h2) - 1 = 0 .. n
    BY <1>2, <1>8
  <2> QED
    BY Zenon, <2>2, <2>3, <2>4 DEF Chained
<1>15. RestIsZeroed(r2, h2, c2)
  <2>1. RestIsZeroed(r, h, c)
    BY DEF QueueOK
  <2>2. ASSUME NEW k \in n + 1 .. RING_BUF_LEN - 1 PROVE At(r2, k) = Zeroed
    BY <1>2, <1>7, <2>1, RingLenAssumption DEF RestIsZeroed, n
  <2> QED
    BY Zenon, <1>5, <1>8, <2>2 DEF RestIsZeroed
<1> QED
  BY Zenon, <1>4, <1>6, <1>7, <1>9, <1>10, <1>11, <1>14, <1>15
  DEF QueueOK, SameUpTo, n, h2, b, d, r2, c2
\* A read_and_advance takes the first descriptor of the chain off.
LEMMA AdvanceKeeps ==
    ASSUME NEW r, NEW h, NEW ct, NEW c, NEW key, NEW m, QueueOK(r, h, ct, c, key, m),
           h # r.tail
    PROVE  /\ QueueOK(Advance(r), h, ct, c, After(At(r, 0).body, m), m)
           /\ Written(At(r, 0)) /\ Key(At(r, 0).body) = key
           /\ Used(Advance(r), h) = Used(r, h) - 1
           /\ Used(r, h) > 1 => At(Advance(r), 0) = At(r, 1)
<1> DEFINE n == Used(r, h)
           b == At(r, 0).body
           r2 == Advance(r)
<1>1. /\ r \in Ring /\ h \in Pointers /\ ct \in Pointers
      /\ m \in Nat \ {0} /\ c \in CardState(m) /\ key \in Keys(m)
  BY DEF QueueOK, QueueTypes
<1>2. n \in Nat /\ n > 0 /\ n - 1 \in Nat
  BY <1>1, UsedIs
<1>3. /\ Distance(h, ct) \in Nat
      /\ n <= Distance(h, ct) /\ Distance(h, ct) <= RING_BUF_LEN /\ n <= RING_BUF_LEN
      /\ c.writing => Distance(h, ct) < RING_BUF_LEN /\ n < RING_BUF_LEN
  <2>1. Distance(h, ct) \in Nat
    BY <1>1, DistanceIs, RingLenAssumption DEF Pointers
  <2> QED
    BY <1>2, <2>1, RingLenAssumption DEF QueueOK, InBounds
<1>4. /\ r2 \in Ring /\ Used(r2, h) = n - 1
      /\ \A k \in 0 .. RING_BUF_LEN - 2 : At(r2, k) = At(r, k + 1)
      /\ At(r2, RING_BUF_LEN - 1) = Zeroed
  BY <1>1, AdvanceAt
<1> HIDE DEF n, r2
<1>5. Written(At(r, 0)) /\ Key(b) = key /\ KeyAt(r, h, c, 1) = After(b, m)
  BY <1>2 DEF QueueOK, Chained, KeyAt, n
<1>6. After(b, m) \in Keys(m)
  <2>1. b.id \in 0 .. m - 1 /\ (b.id + 1) % m \in 0 .. m - 1
    BY <1>1, <1>5 DEF Key, Keys
  <2> HIDE DEF b
  <2> QED
    BY <2>1 DEF After, Keys
<1> HIDE DEF b
<1>7. QueueTypes(r2, h, ct, c, After(b, m), m)
  BY <1>1, <1>4, <1>6 DEF QueueTypes
<1>8. InBounds(r2, h, ct, c)
  BY <1>2, <1>3, <1>4 DEF InBounds
<1>9. ASSUME NEW k \in 0 .. n - 1
      PROVE  KeyAt(r2, h, c, k) = KeyAt(r, h, c, k + 1)
  <2>1. CASE k < n - 1
    <3>1. k \in 0 .. RING_BUF_LEN - 2 /\ k + 1 < n
      BY <1>2, <1>3, <2>1, RingLenAssumption
    <3> QED
      BY <1>4, <2>1, <3>1 DEF KeyAt, n
  <2>2. CASE k = n - 1
    <3>1. ~(k < n - 1) /\ ~(k + 1 < n)
      BY <1>2, <2>2
    <3> QED
      BY <1>4, <3>1 DEF KeyAt, n
  <2> QED
    BY <1>2, <2>1, <2>2
<1>10. Chained(r2, h, c, After(b, m), m)
  <2>1. KeyAt(r2, h, c, 0) = After(b, m)
    <3>1. 0 \in 0 .. n - 1 /\ 0 + 1 = 1
      BY <1>2
    <3> QED
      BY <1>5, <1>9, <3>1
  <2>2. ASSUME NEW k \in 0 .. n - 2
        PROVE  Written(At(r2, k)) /\ KeyAt(r2, h, c, k + 1) = After(At(r2, k).body, m)
    <3>1. k + 1 \in 0 .. n - 1 /\ k \in 0 .. RING_BUF_LEN - 2
      BY <1>2, <1>3, RingLenAssumption
    <3>2. Written(At(r, k + 1)) /\ KeyAt(r, h, c, (k + 1) + 1) = After(At(r, k + 1).body, m)
      BY <3>1 DEF QueueOK, Chained, n
    <3> QED
      BY <1>4, <1>9, <3>1, <3>2
  <2>3. 0 .. Used(r2, h) - 1 = 0 .. n - 2
    BY <1>2, <1>4
  <2> QED
    BY Zenon, <2>1, <2>2, <2>3 DEF Chained
<1>11. RestIsZeroed(r2, h, c)
  <2>1. RestIsZeroed(r, h, c)
    BY DEF QueueOK
  <2>2. ASSUME NEW k \in n - 1 .. RING_BUF_LEN - 1
        PROVE  At(r2, k) = Zeroed \/ (k = n - 1 /\ c.writing)
    <3>1. CASE k = RING_BUF_LEN - 1
      BY <1>4, <3>1
    <3>2. CASE k < RING_BUF_LEN - 1
      <4>1. k \in 0 .. RING_BUF_LEN - 2 /\ k + 1 \in n .. RING_BUF_LEN - 1
        BY <1>2, <3>2, RingLenAssumption
      <4>2. At(r2, k) = At(r, k + 1)
        BY <1>4, <4>1
      <4>3. At(r, k + 1) = Zeroed \/ (k + 1 = n /\ c.writing)
        BY <2>1, <4>1 DEF RestIsZeroed, n
      <4> QED
        BY <1>2, <4>2, <4>3
    <3> QED
      BY <1>2, <3>1, <3>2, RingLenAssumption
  <2>3. ASSUME c.writing
        PROVE  /\ At(r2, n - 1) =
                    Desc([id |-> c.id, part |-> c.part, next |-> c.pair], FALSE)
               /\ c.part = 1 => ~c.pair
    <3>1. n - 1 \in 0 .. RING_BUF_LEN - 2 /\ (n - 1) + 1 = n
      BY <1>2, <1>3, <2>3, RingLenAssumption
    <3>2. At(r2, n - 1) = At(r, n)
      BY <1>4, <3>1
    <3> QED
      BY Zenon, <2>1, <2>3, <3>2 DEF RestIsZeroed, n
  <2> QED
    BY Zenon, <1>4, <2>2, <2>3 DEF RestIsZeroed
<1>12. n > 1 => At(r2, 0) = At(r, 1)
  <2>1. n > 1 => 0 \in 0 .. RING_BUF_LEN - 2 /\ 0 + 1 = 1
    BY <1>2, <1>3, RingLenAssumption
  <2> QED
    BY <1>4, <2>1
<1> QED
  BY <1>4, <1>5, <1>7, <1>8, <1>10, <1>11, <1>12 DEF QueueOK, n, b, r2
\* A whole descriptor of report id.
Half(id, p, n) == Desc([id |-> id, part |-> p, next |-> n], TRUE)

\* The slots pop_two looks at are the first two behind the tail.
LEMMA SlotsAre ==
    ASSUME NEW r \in Ring
    PROVE  FirstSlot(r) = At(r, 0) /\ NextSlot(r) = At(r, 1)
<1>1. r.tail \in Pointers
  BY DEF Ring
<1>2. r.tail + 0 = r.tail
  BY <1>1 DEF Pointers
<1> QED
  BY <1>2 DEF FirstSlot, NextSlot, At

\* When pop_two takes a descriptor the card has written it, and when it takes two the
\* second is the other half of the first.
LEMMA TakesMeans ==
    ASSUME NEW r, NEW h, NEW ct, NEW c, NEW id, NEW m,
           QueueOK(r, h, ct, c, [id |-> id, part |-> 0], m)
    PROVE  /\ TakesOf(r) \in {0, 1, 2}
           /\ TakesOf(r) = 1 => Used(r, h) > 0 /\ At(r, 0) = Half(id, 0, FALSE)
           /\ TakesOf(r) = 2 => /\ Used(r, h) > 1
                                /\ At(r, 0) = Half(id, 0, TRUE)
                                /\ At(r, 1) = Half(id, 1, FALSE)
<1> DEFINE n == Used(r, h)
           key == [id |-> id, part |-> 0]
<1>1. r \in Ring /\ h \in Pointers /\ m \in Nat \ {0} /\ n \in Nat
  BY UsedIs DEF QueueOK, QueueTypes
<1>2. TakesOf(r) = Takes(At(r, 0), At(r, 1))
  BY <1>1, SlotsAre DEF TakesOf
<1>3. TakesOf(r) \in {0, 1, 2}
  BY Zenon DEF TakesOf, Takes
<1>4. ASSUME NEW k \in {0, 1}, IsValid(At(r, k)), k <= n PROVE k < n
  <2>1. k \in 0 .. RING_BUF_LEN - 1
    BY MetaAssumption, RingLenAssumption
  <2>2. SUFFICES ASSUME k = n PROVE FALSE
    BY <1>1, <1>4
  <2>3. k \in n .. RING_BUF_LEN - 1
    BY <1>1, <2>1, <2>2
  <2>4. At(r, k) = Zeroed \/ c.writing
    BY <2>3 DEF QueueOK, RestIsZeroed
  <2>5. CASE c.writing
    <3>1. At(r, k) = Desc([id |-> c.id, part |-> c.part, next |-> c.pair], FALSE)
      BY <2>2, <2>5 DEF QueueOK, RestIsZeroed
    <3> QED
      BY <1>4, <3>1 DEF IsValid, Desc
  <2>6. CASE At(r, k) = Zeroed
    BY <1>4, <2>6 DEF IsValid
  <2> QED
    BY <2>4, <2>5, <2>6
<1>5. ASSUME n > 0 PROVE Written(At(r, 0)) /\ Key(At(r, 0).body) = key
  BY <1>1, <1>5 DEF QueueOK, Chained, KeyAt
<1>6. ASSUME NEW d, Written(d), NEW i, NEW p, Key(d.body) = [id |-> i, part |-> p]
      PROVE  d = Half(i, p, d.body.next) /\ d.body.next \in BOOLEAN /\ (p = 1 => ~d.body.next)
  <2>1. d.body.id = i /\ d.body.part = p
    BY <1>6 DEF Key
  <2>2. d.body \in Body /\ d = [body |-> d.body, valid |-> TRUE]
    BY <1>6 DEF Written, Descs
  <2>3. d.body = [id |-> i, part |-> p, next |-> d.body.next]
    BY <2>1, <2>2 DEF Body
  <2>4. d.body.next \in BOOLEAN /\ (p = 1 => ~d.body.next)
    BY <1>6, <2>1, <2>2 DEF Written, Body
  <2> QED
    BY <2>2, <2>3, <2>4 DEF Half, Desc
<1>7. ASSUME TakesOf(r) = 1 PROVE n > 0 /\ At(r, 0) = Half(id, 0, FALSE)
  <2>1. IsValid(At(r, 0)) /\ ~HasNext(At(r, 0))
    BY <1>2, <1>7 DEF Takes
  <2>2. n > 0
    BY <1>1, <1>4, <2>1
  <2>3. At(r, 0) = Half(id, 0, At(r, 0).body.next) /\ At(r, 0).body.next \in BOOLEAN
    BY <1>5, <1>6, <2>2
  <2>4. At(r, 0).body.next = FALSE
    BY <2>1, <2>3 DEF IsValid, HasNext
  <2> QED
    BY Zenon, <2>2, <2>3, <2>4
<1>8. ASSUME TakesOf(r) = 2
      PROVE  n > 1 /\ At(r, 0) = Half(id, 0, TRUE) /\ At(r, 1) = Half(id, 1, FALSE)
  <2>1. IsValid(At(r, 0)) /\ HasNext(At(r, 0)) /\ IsValid(At(r, 1))
    BY <1>2, <1>8 DEF Takes
  <2>2. n > 0
    BY <1>1, <1>4, <2>1
  <2>3. n > 1
    BY <1>1, <1>4, <2>1, <2>2
  <2>4. At(r, 0) = Half(id, 0, At(r, 0).body.next) /\ At(r, 0).body.next \in BOOLEAN
    BY <1>5, <1>6, <2>2
  <2>5. At(r, 0).body.next = TRUE
    BY <2>1, <2>4 DEF HasNext
  <2>6. At(r, 0) = Half(id, 0, TRUE) /\ At(r, 0).body.id = id
    BY <2>4, <2>5 DEF Half, Desc
  <2>7. 0 \in 0 .. n - 1 /\ 1 \in 0 .. n - 1 /\ 0 + 1 = 1
    BY <1>1, <2>3
  <2>8. KeyAt(r, h, c, 1) = [id |-> id, part |-> 1]
    BY Zenon, <2>5, <2>6, <2>7 DEF QueueOK, Chained, After
  <2>9. Written(At(r, 1)) /\ Key(At(r, 1).body) = [id |-> id, part |-> 1]
    BY <2>3, <2>7, <2>8 DEF QueueOK, Chained, KeyAt
  <2>10. At(r, 1) = Half(id, 1, At(r, 1).body.next) /\ At(r, 1).body.next = FALSE
    BY <1>6, <2>9
  <2> QED
    BY Zenon, <2>3, <2>6, <2>10
<1> QED
  BY Zenon, <1>3, <1>7, <1>8

\* What pop_two decides stays so while the card writes on.
LEMMA DecisionStays ==
    ASSUME NEW r, NEW h, NEW ct, NEW c, NEW id, NEW m,
           QueueOK(r, h, ct, c, [id |-> id, part |-> 0], m),
           NEW r2 \in Ring, r2.tail = r.tail, TakesOf(r) # 0,
           SameUpTo(r2, r, Used(r, h))
    PROVE  TakesOf(r2) = TakesOf(r)
<1>1. r \in Ring /\ h \in Pointers /\ Used(r, h) \in Nat
  BY UsedIs DEF QueueOK, QueueTypes
<1>2. TakesOf(r) = Takes(At(r, 0), At(r, 1)) /\ TakesOf(r2) = Takes(At(r2, 0), At(r2, 1))
  BY <1>1, SlotsAre DEF TakesOf
<1>3. CASE TakesOf(r) = 1
  <2>1. Used(r, h) > 0
    BY Zenon, <1>3, TakesMeans
  <2>2. At(r2, 0) = At(r, 0)
    BY <1>1, <2>1 DEF SameUpTo
  <2>3. IsValid(At(r, 0)) /\ ~HasNext(At(r, 0))
    BY <1>2, <1>3 DEF Takes
  <2> QED
    BY <1>2, <1>3, <2>2, <2>3 DEF Takes
<1>4. CASE TakesOf(r) = 2
  <2>1. Used(r, h) > 1
    BY Zenon, <1>4, TakesMeans
  <2>2. At(r2, 0) = At(r, 0) /\ At(r2, 1) = At(r, 1)
    BY <1>1, <2>1 DEF SameUpTo
  <2> QED
    BY <1>2, <2>2
<1> QED
  BY Zenon, <1>3, <1>4, TakesMeans
------------------------------------------------------------------------------
(* The inductive invariant *)

\* The queue the worker polls is one of the queues.
LEMMA PolledType == ASSUME HostTypes PROVE Polled \in Queues
<1>1. pos \in Nat /\ host.i \in Nat /\ NumQueues \in Nat \ {0}
  <2>1. pos \in Queues /\ host.i \in Queues
    BY Zenon DEF HostTypes
  <2> QED
    BY <2>1, MetaAssumption DEF Queues
<1> QED
  BY <1>1 DEF Polled, Queues

LEMMA InitIInv == Init => IInv
<1> SUFFICES ASSUME Init PROVE IInv
  OBVIOUS
<1>1. HostTypes /\ Decided /\ TakesNextReport
  <2>1. pos = 0 /\ host = Idle /\ 0 \in Queues /\ host.pc = "poll"
    BY MetaAssumption DEF Init, Idle, Queues
  <2>2. HostTypes
    BY <2>1 DEF Idle, HostTypes
  <2> QED
    BY <2>1, <2>2 DEF Decided, TakesNextReport
<1>2. NewRing \in Ring /\ NewRing.tail = 0 /\ 0 \in Pointers
  BY RingLenAssumption DEF NewRing, Ring, Pointers
<1>3. Shapes
  BY <1>2 DEF Init, Shapes
<1>4. ASSUME NEW q \in Queues
      PROVE  QueueOK(rings[q], csrHead[q], csrTail[q], card[q], Wanted(q), Ids[q])
  <2> DEFINE c == [id |-> 0, part |-> 0, pair |-> FALSE, writing |-> FALSE]
             key == [id |-> 0, part |-> 0]
             m == Ids[q]
  <2>1. /\ rings[q] = NewRing /\ csrHead[q] = 0 /\ csrTail[q] = 0
        /\ card[q] = c /\ Wanted(q) = key
    BY DEF Init, Wanted
  <2>2. m \in Nat \ {0}
    BY MetaAssumption DEF Queues
  <2>3. Used(NewRing, 0) = 0 /\ Distance(0, 0) = 0
    BY <1>2, DistanceIs DEF Used
  <2>4. c \in CardState(m) /\ key \in Keys(m) /\ ~c.writing
    BY <2>2 DEF CardState, Keys
  <2>5. QueueTypes(NewRing, 0, 0, c, key, m)
    BY <1>2, <2>2, <2>4 DEF QueueTypes
  <2>6. InBounds(NewRing, 0, 0, c)
    BY <2>3, <2>4, RingLenAssumption DEF InBounds
  <2>7. Chained(NewRing, 0, c, key, m)
    BY <2>3 DEF Chained, KeyAt
  <2>8. RestIsZeroed(NewRing, 0, c)
    <3>1. ASSUME NEW k \in 0 .. RING_BUF_LEN - 1 PROVE At(NewRing, k) = Zeroed
      <4>1. Index(0 + k) \in Slots
        BY <1>2, AtIs, RingLenAssumption
      <4> QED
        BY <1>2, <4>1 DEF At, NewRing
    <3> QED
      BY <2>3, <2>4, <3>1 DEF RestIsZeroed
  <2> QED
    BY <2>1, <2>5, <2>6, <2>7, <2>8 DEF QueueOK
<1>5. TailsPublished
  BY <1>2 DEF Init, TailsPublished
<1> QED
  BY <1>1, <1>3, <1>4, <1>5 DEF IInv, QueuesOK

LEMMA DecidedStays ==
    ASSUME Decided, host' = host,
           TakesOf(rings[Polled]) # 0 => TakesOf(rings[Polled])' = TakesOf(rings[Polled])
    PROVE  Decided'
<1> DEFINE t == TakesOf(rings[Polled])
<1>1. (t = 1 => t # 0) /\ (t = 2 => t # 0)
  OBVIOUS
<1> QED
  BY Zenon, <1>1 DEF Decided

LEMMA FlagsOf ==
    ASSUME NEW b \in Body PROVE [Desc(b, FALSE) EXCEPT !.valid = TRUE] = Desc(b, TRUE)
<1> DEFINE d == Desc(b, FALSE)
           d2 == [d EXCEPT !.valid = TRUE]
<1>1. d \in Descs /\ d.body = b
  BY DEF Desc, Descs
<1> HIDE DEF d
<1>2. d2 \in Descs /\ d2.body = b /\ d2.valid = TRUE
  BY ZenonT(60), <1>1 DEF Descs
<1> HIDE DEF d2
<1>3. d2 = [body |-> b, valid |-> TRUE]
  BY <1>2 DEF Descs
<1> QED
  BY Zenon, <1>3 DEF Desc, d, d2

\* A step of the card at queue q that keeps that queue in order keeps everything.
LEMMA CardStepIInv ==
    ASSUME IInv, NEW q \in Queues, NEW r2, NEW h2, NEW c2,
           QueueOK(r2, h2, csrTail[q], c2, Wanted(q), Ids[q]),
           r2.tail = rings[q].tail,
           SameUpTo(r2, rings[q], Used(rings[q], csrHead[q])),
           rings' = [rings EXCEPT ![q] = r2],
           csrHead' = [csrHead EXCEPT ![q] = h2],
           card' = [card EXCEPT ![q] = c2],
           UNCHANGED <<csrTail, pos, host, wanted>>
    PROVE  IInv'
<1>1. r2 \in Ring /\ h2 \in Pointers /\ c2 \in CardState(Ids[q])
  BY DEF QueueOK, QueueTypes
<1>2. c2 \in [id : Nat, part : {0, 1}, pair : BOOLEAN, writing : BOOLEAN]
  <2>1. Ids[q] \in Nat
    BY MetaAssumption DEF Queues
  <2> QED
    BY <1>1, <2>1 DEF CardState
<1>3. HostTypes' /\ Shapes'
  BY Zenon, <1>1, <1>2 DEF IInv, HostTypes, Shapes
<1>4. ASSUME NEW p \in Queues
      PROVE  /\ rings'[p] = IF p = q THEN r2 ELSE rings[p]
             /\ csrHead'[p] = IF p = q THEN h2 ELSE csrHead[p]
             /\ card'[p] = IF p = q THEN c2 ELSE card[p]
  BY DEF IInv, Shapes
<1>5. QueuesOK'
  <2> SUFFICES ASSUME NEW p \in Queues
               PROVE  QueueOK(rings'[p], csrHead'[p], csrTail'[p], card'[p], Wanted(p)', Ids[p])
    BY DEF QueuesOK
  <2>1. Wanted(p)' = Wanted(p) /\ csrTail'[p] = csrTail[p]
    BY DEF Wanted
  <2>2. QueueOK(rings[p], csrHead[p], csrTail[p], card[p], Wanted(p), Ids[p])
    BY DEF IInv, QueuesOK
  <2> QED
    BY <1>4, <2>1, <2>2
<1>6. Polled' = Polled /\ Polled \in Queues
  BY SMTT(60), PolledType DEF Polled, IInv
<1>7. TailsPublished'
  BY SMTT(60), <1>4, <1>6 DEF IInv, TailsPublished
<1>8. Decided'
  <2>1. Decided
    BY DEF IInv
  <2>2. CASE Polled = q
    <3>1. rings'[Polled] = r2
      BY <1>4, <1>6, <2>2
    <3>2. TakesOf(rings[q]) # 0 => TakesOf(r2) = TakesOf(rings[q])
      <4>1. QueueOK(rings[q], csrHead[q], csrTail[q], card[q], Wanted(q), Ids[q])
        BY DEF IInv, QueuesOK
      <4> QED
        BY Zenon, <1>1, <4>1, DecisionStays DEF Wanted
    <3>3. TakesOf(rings[Polled]) # 0 => TakesOf(rings[Polled])' = TakesOf(rings[Polled])
      BY Zenon, <1>6, <2>2, <3>1, <3>2
    <3>4. host' = host
      OBVIOUS
    <3> QED
      BY Zenon, <2>1, <3>3, <3>4, DecidedStays
  <2>3. CASE Polled # q
    <3>1. rings'[Polled] = rings[Polled]
      BY SMTT(60), <1>4, <1>6, <2>3
    <3> QED
      BY ZenonT(60), <1>6, <2>1, <3>1 DEF Decided
  <2> QED
    BY SMTT(60), <2>2, <2>3
<1>9. TakesNextReport'
  BY Zenon, <1>6 DEF IInv, TakesNextReport
<1> QED
  BY <1>3, <1>5, <1>7, <1>8, <1>9 DEF IInv

LEMMA CardWritesBodyIInv ==
    ASSUME IInv, NEW q \in Queues, CardWritesBody(q) PROVE IInv'
<1> DEFINE r == rings[q]
           h == csrHead[q]
           c == card[q]
<1>1. PICK pair \in BOOLEAN :
        /\ c.part = 1 => ~pair
        /\ rings' = [rings EXCEPT ![q].slots[Index(h)] =
                Desc([id |-> c.id, part |-> c.part, next |-> pair], FALSE)]
        /\ card' = [card EXCEPT ![q].pair = pair, ![q].writing = TRUE]
  <2>1. CASE c.part = 0
    <3>1. c.part # 1
      BY <2>1
    <3> QED
      BY Zenon, <2>1, <3>1 DEF CardWritesBody
  <2>2. CASE c.part # 0
    BY Zenon, <2>2 DEF CardWritesBody
  <2> QED
    BY Zenon, <2>1, <2>2
<1>2. pair \in BOOLEAN /\ (c.part = 1 => pair = FALSE)
  BY <1>1
<1>3. QueueOK(r, h, csrTail[q], c, Wanted(q), Ids[q])
  BY SMTT(60) DEF IInv, QueuesOK
<1> DEFINE r2 == PutAt(r, h, Desc(BodyOf(c, pair), FALSE))
           c2 == Writing(c, pair)
<1>4. /\ QueueOK(r2, h, csrTail[q], c2, Wanted(q), Ids[q])
      /\ r2.tail = r.tail
      /\ SameUpTo(r2, r, Used(r, h))
  <2>1. Distance(h, csrTail[q]) < RING_BUF_LEN /\ ~c.writing
    BY Zenon DEF CardWritesBody
  <2> HIDE DEF r, h, c
  <2>2. r2.tail = r.tail
    BY Zenon, <1>3, PutAtTail DEF QueueOK, QueueTypes
  <2>3. SameUpTo(r2, r, Used(r, h))
    BY Zenon, <1>2, <1>3, <2>1, WriteBodyKeeps
  <2>4. QueueOK(r2, h, csrTail[q], c2, Wanted(q), Ids[q])
    BY Zenon, <1>2, <1>3, <2>1, WriteBodyKeeps
  <2> QED
    BY Zenon, <2>2, <2>3, <2>4
<1>5. rings' = [rings EXCEPT ![q] = r2] /\ card' = [card EXCEPT ![q] = c2]
  BY Zenon, <1>1 DEF PutAt, BodyOf, Writing
<1>6. csrHead' = [csrHead EXCEPT ![q] = h] /\ UNCHANGED <<csrTail, pos, host, wanted>>
  BY DEF CardWritesBody, IInv, Shapes
<1> HIDE DEF r2, c2
<1> QED
  BY Zenon, <1>4, <1>5, <1>6, CardStepIInv

LEMMA CardWritesFlagsIInv ==
    ASSUME IInv, NEW q \in Queues, CardWritesFlags(q) PROVE IInv'
<1> DEFINE r == rings[q]
           h == csrHead[q]
           c == card[q]
           r2 == PutAt(r, h, Desc(BodyOf(c, c.pair), TRUE))
           c2 == WroteFlags(c, Ids[q])
<1>1. QueueOK(r, h, csrTail[q], c, Wanted(q), Ids[q]) /\ c.writing
  BY DEF IInv, QueuesOK, CardWritesFlags
<1>2. /\ BodyOf(c, c.pair) \in Body
      /\ r.slots[Index(h)] = Desc(BodyOf(c, c.pair), FALSE)
      /\ QueueOK(r2, Inc(h), csrTail[q], c2, Wanted(q), Ids[q])
      /\ r2.tail = r.tail
      /\ SameUpTo(r2, r, Used(r, h))
  <2> HIDE DEF r, h, c
  <2> QED
    BY ZenonT(60), <1>1, WriteFlagsKeeps
<1>3. [r.slots[Index(h)] EXCEPT !.valid = TRUE] = Desc(BodyOf(c, c.pair), TRUE)
  BY Zenon, <1>2, FlagsOf
<1>4. rings' = [rings EXCEPT ![q] = r2]
  BY Zenon, <1>3 DEF CardWritesFlags, PutAt
<1>5. card' = [card EXCEPT ![q] = c2]
  BY Zenon DEF CardWritesFlags, WroteFlags
<1>6. csrHead' = [csrHead EXCEPT ![q] = Inc(h)] /\ UNCHANGED <<csrTail, pos, host, wanted>>
  BY DEF CardWritesFlags
<1> HIDE DEF r2, c2
<1> QED
  BY Zenon, <1>2, <1>4, <1>5, <1>6, CardStepIInv
\* A step that leaves the queues alone.
LEMMA QueuesStay ==
    ASSUME IInv, UNCHANGED <<rings, csrHead, csrTail, card, wanted>>
    PROVE  Shapes' /\ QueuesOK'
BY DEF IInv, Shapes, QueuesOK, Wanted

LEMMA ReadBodiesIInv == ASSUME IInv, ReadBodies PROVE IInv'
<1>1. HostTypes /\ Polled \in Queues /\ rings[Polled] \in Ring
  BY PolledType DEF IInv, Shapes
<1>2. FirstSlot(rings[Polled]) \in Descs \cup {Zeroed} /\ NextSlot(rings[Polled]) \in Descs \cup {Zeroed}
  <2> DEFINE r == rings[Polled]
  <2>1. r.tail \in Pointers /\ r.slots \in [Slots -> Descs \cup {Zeroed}]
    BY <1>1 DEF Ring
  <2>2. Index(r.tail + 0) \in Slots /\ Index(r.tail + 1) \in Slots
    BY <2>1, AtIs, RingLenAssumption
  <2> HIDE DEF r
  <2>3. At(r, 0) \in Descs \cup {Zeroed} /\ At(r, 1) \in Descs \cup {Zeroed}
    BY <2>1, <2>2 DEF At
  <2> QED
    BY <1>1, <2>3, SlotsAre DEF r
<1>3. /\ host' = [host EXCEPT !.pc = "check", !.first = FirstSlot(rings[Polled]),
                            !.next = NextSlot(rings[Polled])]
      /\ host.pc = "poll" /\ UNCHANGED <<rings, csrHead, csrTail, card, pos, wanted>>
  BY DEF ReadBodies
<1>4. HostTypes' /\ host'.pc = "check" /\ host'.i = host.i
  BY Zenon, <1>1, <1>2, <1>3 DEF HostTypes
<1>5. Shapes' /\ QueuesOK'
  BY <1>3, QueuesStay
<1>6. TailsPublished'
  BY <1>3 DEF IInv, TailsPublished
<1>7. Decided' /\ TakesNextReport'
  BY <1>4 DEF Decided, TakesNextReport
<1> QED
  BY <1>4, <1>5, <1>6, <1>7 DEF IInv

LEMMA CheckFlagsIInv == ASSUME IInv, CheckFlags PROVE IInv'
<1> DEFINE n == TakesOf(rings[Polled])
<1>1. HostTypes /\ Polled \in Queues
  BY PolledType DEF IInv
<1>2. n \in {0, 1, 2}
  <2>1. QueueOK(rings[Polled], csrHead[Polled], csrTail[Polled], card[Polled],
                [id |-> wanted[Polled], part |-> 0], Ids[Polled])
    BY <1>1 DEF IInv, QueuesOK, Wanted
  <2> QED
    BY ZenonT(60), <2>1, TakesMeans
<1>3. /\ host' = IF n = 0 THEN [Idle EXCEPT !.i = (host.i + 1) % NumQueues]
                 ELSE [host EXCEPT !.pc = IF n = 2 THEN "take two" ELSE "take one"]
      /\ host.pc = "check" /\ UNCHANGED <<rings, csrHead, csrTail, card, pos, wanted>>
  BY Zenon DEF CheckFlags
<1> HIDE DEF n
<1>4. Shapes' /\ QueuesOK'
  BY Zenon, <1>3, QueuesStay
<1>5. TailsPublished'
  BY Zenon, <1>3 DEF IInv, TailsPublished
<1>6. CASE n = 0
  <2>1. host.i \in Queues /\ pos \in Queues
    BY Zenon, <1>1 DEF HostTypes
  <2>2. (host.i + 1) % NumQueues \in Queues
    BY SMTT(60), <2>1, MetaAssumption DEF Queues
  <2>3. HostTypes' /\ host'.pc = "poll"
    BY Zenon, <1>3, <1>6, <2>1, <2>2 DEF HostTypes, Idle
  <2>4. Decided' /\ TakesNextReport'
    BY <2>3 DEF Decided, TakesNextReport
  <2> QED
    BY <1>4, <1>5, <2>3, <2>4 DEF IInv
<1>7. CASE n # 0
  <2>1. HostTypes' /\ host'.pc = (IF n = 2 THEN "take two" ELSE "take one") /\ host'.i = host.i
    BY Zenon, <1>1, <1>2, <1>3, <1>7 DEF HostTypes
  <2>2. rings'[Polled'] = rings[Polled]
    BY Zenon, <1>3, <2>1 DEF Polled
  <2>3. TakesOf(rings[Polled])' = n
    BY Zenon, <2>2 DEF n
  <2>4. (n = 2 \/ n = 1) /\ ~(n = 2 /\ n = 1)
    BY <1>2, <1>7
  <2>5. Decided' /\ TakesNextReport'
    BY Zenon, <2>1, <2>3, <2>4 DEF Decided, TakesNextReport
  <2> QED
    BY Zenon, <1>4, <1>5, <2>1, <2>5 DEF IInv
<1> QED
  BY <1>6, <1>7

\* What Take makes of the ring it takes from.
LEMMA TakeKeeps ==
    ASSUME NEW r, NEW h, NEW ct, NEW c, NEW id, NEW m, NEW two \in BOOLEAN,
           QueueOK(r, h, ct, c, [id |-> id, part |-> 0], m),
           TakesOf(r) = IF two THEN 2 ELSE 1
    PROVE  /\ QueueOK(Freed(r, two), h, ct, c, [id |-> (id + 1) % m, part |-> 0], m)
           /\ FirstSlot(r) = Half(id, 0, two)
           /\ two => NextSlot(r) = Half(id, 1, FALSE)
<1>1. r \in Ring /\ h \in Pointers /\ Used(r, h) \in Nat
  BY UsedIs DEF QueueOK, QueueTypes
<1>2. FirstSlot(r) = At(r, 0) /\ NextSlot(r) = At(r, 1)
  BY <1>1, SlotsAre
<1>3. ASSUME NEW p
      PROVE  After(Half(id, p, FALSE).body, m) = [id |-> (id + 1) % m, part |-> 0]
  BY DEF Half, Desc, After
<1>4. CASE ~two
  <2>1. Used(r, h) > 0 /\ At(r, 0) = Half(id, 0, FALSE)
    BY Zenon, <1>4, TakesMeans
  <2>2. h # r.tail
    BY <1>1, <2>1, UsedIs
  <2>3. QueueOK(Advance(r), h, ct, c, After(At(r, 0).body, m), m)
    BY <2>2, AdvanceKeeps
  <2>4. After(At(r, 0).body, m) = [id |-> (id + 1) % m, part |-> 0]
    BY Zenon, <1>3, <2>1
  <2>5. Freed(r, two) = Advance(r) /\ two = FALSE
    BY Zenon, <1>4 DEF Freed
  <2> QED
    BY Zenon, <1>2, <1>4, <2>1, <2>3, <2>4, <2>5
<1>5. CASE two
  <2>1. Used(r, h) > 1 /\ At(r, 0) = Half(id, 0, TRUE) /\ At(r, 1) = Half(id, 1, FALSE)
    BY ZenonT(60), <1>5, TakesMeans
  <2> DEFINE r2 == Advance(r)
  <2>2. h # r.tail
    BY <1>1, <2>1, UsedIs
  <2>3. /\ QueueOK(r2, h, ct, c, After(At(r, 0).body, m), m)
        /\ Used(r2, h) = Used(r, h) - 1
        /\ At(r2, 0) = At(r, 1)
    BY <2>1, <2>2, AdvanceKeeps
  <2>4. h # r2.tail
    <3>1. r2 \in Ring
      BY <2>3 DEF QueueOK, QueueTypes
    <3> QED
      BY <1>1, <2>1, <2>3, <3>1, UsedIs
  <2> HIDE DEF r2
  <2>5. QueueOK(Advance(r2), h, ct, c, After(At(r2, 0).body, m), m)
    BY <2>3, <2>4, AdvanceKeeps
  <2>6. After(At(r2, 0).body, m) = [id |-> (id + 1) % m, part |-> 0]
    BY Zenon, <1>3, <2>1, <2>3
  <2>7. Freed(r, two) = Advance(r2) /\ two = TRUE
    BY Zenon, <1>5 DEF Freed, r2
  <2> QED
    BY Zenon, <1>2, <2>1, <2>5, <2>6, <2>7
<1> QED
  BY Zenon, <1>4, <1>5
LEMMA TakeIInv == ASSUME IInv, Take PROVE IInv'
<1> DEFINE q == Polled
           two == host.pc = "take two"
           r == rings[q]
           id == wanted[q]
           m == Ids[q]
<1>1. HostTypes /\ q \in Queues /\ two \in BOOLEAN
  BY PolledType DEF IInv
<1>2. QueueOK(r, csrHead[q], csrTail[q], card[q], [id |-> id, part |-> 0], m)
  BY <1>1 DEF IInv, QueuesOK, Wanted
<1>3. TakesOf(r) = IF two THEN 2 ELSE 1
  <2>1. host.pc = "take one" \/ host.pc = "take two"
    BY Zenon DEF Take
  <2> QED
    BY Zenon, <2>1 DEF IInv, Decided
<1>4. /\ QueueOK(Freed(r, two), csrHead[q], csrTail[q], card[q],
                 [id |-> (id + 1) % m, part |-> 0], m)
      /\ FirstSlot(r) = Half(id, 0, two)
      /\ two => NextSlot(r) = Half(id, 1, FALSE)
  <2> HIDE DEF r, id, m, two, q
  <2> QED
    BY ZenonT(60), <1>1, <1>2, <1>3, TakeKeeps
<1>5. /\ host' = [host EXCEPT !.pc = "publish", !.first = FirstSlot(r),
                              !.next = IF two THEN NextSlot(r) ELSE Zeroed]
      /\ rings' = [rings EXCEPT ![q] = Freed(r, two)]
      /\ wanted' = [wanted EXCEPT ![q] = (id + 1) % m]
      /\ UNCHANGED <<csrHead, csrTail, card, pos>>
  BY Zenon DEF Take, ReadAgain
<1>6. m \in Nat \ {0} /\ id \in 0 .. m - 1 /\ (id + 1) % m \in 0 .. m - 1
  <2>1. m \in Nat \ {0} /\ [id |-> id, part |-> 0] \in Keys(m)
    BY <1>2 DEF QueueOK, QueueTypes
  <2>2. id \in 0 .. m - 1
    BY <2>1 DEF Keys
  <2> HIDE DEF id, m
  <2> QED
    BY <2>1, <2>2
<1>7. (((id + 1) % m) - 1) % m = id
  <2> HIDE DEF id, m
  <2>1. CASE id = m - 1
    BY <1>6, <2>1
  <2>2. CASE id < m - 1
    BY <1>6, <2>2
  <2> QED
    BY <1>6, <2>1, <2>2
<1>8. Half(id, 0, two) \in Descs /\ Half(id, 1, FALSE) \in Descs
  <2>1. id \in Nat
    BY <1>6
  <2> HIDE DEF id
  <2> QED
    BY <1>1, <2>1 DEF Half, Desc, Descs, Body
<1>9. HostTypes' /\ host'.pc = "publish" /\ host'.i = host.i
  <2> HIDE DEF r, id, two, q
  <2>1. host' = [host EXCEPT !.pc = "publish", !.first = Half(id, 0, two),
                             !.next = IF two THEN Half(id, 1, FALSE) ELSE Zeroed]
    BY ZenonT(60), <1>4, <1>5
  <2> QED
    BY Zenon, <1>1, <1>5, <1>8, <2>1 DEF HostTypes
<1>10. Freed(r, two) \in Ring
  BY Zenon, <1>4 DEF QueueOK, QueueTypes
<1>11. Shapes'
  <2>1. (id + 1) % m \in Nat
    BY <1>6
  <2> QED
    BY Zenon, <1>1, <1>5, <1>10, <2>1 DEF IInv, Shapes
<1>12. ASSUME NEW p \in Queues
       PROVE  /\ rings'[p] = IF p = q THEN Freed(r, two) ELSE rings[p]
              /\ wanted'[p] = IF p = q THEN (id + 1) % m ELSE wanted[p]
              /\ csrHead'[p] = csrHead[p] /\ csrTail'[p] = csrTail[p] /\ card'[p] = card[p]
  BY Zenon, <1>5 DEF IInv, Shapes
<1>13. QueuesOK'
  <2> SUFFICES ASSUME NEW p \in Queues
               PROVE  QueueOK(rings'[p], csrHead'[p], csrTail'[p], card'[p],
                              [id |-> wanted'[p], part |-> 0], Ids[p])
    BY ZenonT(60) DEF QueuesOK, Wanted
  <2>1. CASE p = q
    <3> HIDE DEF q, two
    <3> QED
      BY SMTT(60), <1>4, <1>12, <2>1
  <2>2. CASE p # q
    <3>1. QueueOK(rings[p], csrHead[p], csrTail[p], card[p], [id |-> wanted[p], part |-> 0], Ids[p])
      BY DEF IInv, QueuesOK, Wanted
    <3> QED
      BY ZenonT(60), <1>12, <2>2, <3>1
  <2> QED
    BY <2>1, <2>2
<1>14. Polled' = q
  BY Zenon, <1>5, <1>9 DEF Polled
<1>15. TailsPublished'
  <2> SUFFICES ASSUME NEW p \in Queues, p # q PROVE csrTail'[p] = rings'[p].tail
    BY <1>9, <1>14 DEF TailsPublished
  <2>1. csrTail[p] = rings[p].tail
    BY DEF IInv, TailsPublished
  <2> QED
    BY ZenonT(60), <1>12, <2>1
<1>16. Decided'
  BY <1>9 DEF Decided
<1>17. TakesNextReport'
  <2>1. wanted'[q] = (id + 1) % m
    BY Zenon, <1>1, <1>12
  <2>2. host'.first = Half(id, 0, two) /\ host'.next = IF two THEN Half(id, 1, FALSE) ELSE Zeroed
    <3> HIDE DEF r, id, two, q
    <3> QED
      BY Zenon, <1>1, <1>4, <1>5 DEF HostTypes
  <2>3. (wanted'[Polled'] - 1) % Ids[Polled'] = id
    BY Zenon, <1>7, <1>14, <2>1
  <2>4. \/ host'.first = Half(id, 0, FALSE) /\ host'.next = Zeroed
        \/ host'.first = Half(id, 0, TRUE) /\ host'.next = Half(id, 1, FALSE)
    <3> HIDE DEF id, two
    <3>1. CASE two = TRUE
      BY Zenon, <2>2, <3>1
    <3>2. CASE two = FALSE
      BY Zenon, <2>2, <3>2
    <3> QED
      BY Zenon, <1>1, <3>1, <3>2
  <2> HIDE DEF id, two, q
  <2> QED
    BY Zenon, <2>3, <2>4 DEF TakesNextReport, Half
<1> QED
  BY <1>9, <1>11, <1>13, <1>15, <1>16, <1>17 DEF IInv
\* write_tail tells the card how far the host is, and changes nothing in the ring.
LEMMA PublishKeeps ==
    ASSUME NEW r, NEW h, NEW ct, NEW c, NEW key, NEW m, QueueOK(r, h, ct, c, key, m)
    PROVE  /\ QueueOK([r EXCEPT !.head = h], h, r.tail, c, key, m)
           /\ [r EXCEPT !.head = h].tail = r.tail
<1> DEFINE r2 == [r EXCEPT !.head = h]
<1>1. /\ r \in Ring /\ h \in Pointers /\ ct \in Pointers
      /\ m \in Nat \ {0} /\ c \in CardState(m) /\ key \in Keys(m)
  BY DEF QueueOK, QueueTypes
<1>2. r2 \in Ring /\ r2.tail = r.tail /\ r2.slots = r.slots /\ r.tail \in Pointers
  BY <1>1 DEF Ring
<1> HIDE DEF r2
<1>3. Used(r2, h) = Used(r, h) /\ \A k : At(r2, k) = At(r, k)
  BY Zenon, <1>2 DEF Used, At
<1>4. \A k : KeyAt(r2, h, c, k) = KeyAt(r, h, c, k)
  BY Zenon, <1>3 DEF KeyAt
<1>5. QueueTypes(r2, h, r.tail, c, key, m)
  BY SMTT(60), <1>1, <1>2 DEF QueueTypes
<1>6. InBounds(r2, h, r.tail, c)
  <2>1. Distance(h, ct) \in Nat /\ Used(r, h) \in Nat
    <3>1. Distance(h, ct) \in Nat
      BY <1>1, DistanceIs, RingLenAssumption DEF Pointers
    <3> QED
      BY <1>1, <3>1, UsedIs
  <2>2. Distance(h, r.tail) = Used(r, h)
    BY DEF Used
  <2> QED
    BY <1>3, <2>1, <2>2, RingLenAssumption DEF QueueOK, InBounds
<1>7. Chained(r2, h, c, key, m)
  BY Zenon, <1>3, <1>4 DEF QueueOK, Chained
<1>8. RestIsZeroed(r2, h, c)
  BY Zenon, <1>3 DEF QueueOK, RestIsZeroed
<1> QED
  BY <1>2, <1>5, <1>6, <1>7, <1>8 DEF QueueOK, r2

LEMMA PublishIInv == ASSUME IInv, Publish PROVE IInv'
<1> DEFINE q == Polled
           r2 == [rings[q] EXCEPT !.head = csrHead[q]]
<1>1. HostTypes /\ q \in Queues
  BY PolledType DEF IInv
<1>2. QueueOK(rings[q], csrHead[q], csrTail[q], card[q], Wanted(q), Ids[q])
  BY <1>1 DEF IInv, QueuesOK
<1>3. QueueOK(r2, csrHead[q], rings[q].tail, card[q], Wanted(q), Ids[q]) /\ r2.tail = rings[q].tail
  BY <1>2, PublishKeeps
<1>4. /\ csrTail' = [csrTail EXCEPT ![q] = rings[q].tail]
      /\ rings' = [rings EXCEPT ![q] = r2]
      /\ pos' = NextPos(q) /\ host' = Idle
      /\ UNCHANGED <<csrHead, card, wanted>>
      /\ host.pc = "publish"
  BY Zenon DEF Publish
<1>5. r2 \in Ring /\ rings[q].tail \in Pointers
  BY <1>3 DEF QueueOK, QueueTypes
<1> HIDE DEF r2
<1>6. HostTypes' /\ host'.pc = "poll"
  <2>1. NextPos(q) \in Queues /\ 0 \in Queues
    BY <1>1, MetaAssumption DEF NextPos, Queues
  <2> QED
    BY <1>4, <2>1 DEF HostTypes, Idle
<1>7. Shapes'
  BY <1>1, <1>4, <1>5 DEF IInv, Shapes
<1>8. ASSUME NEW p \in Queues
      PROVE  /\ rings'[p] = IF p = q THEN r2 ELSE rings[p]
             /\ csrTail'[p] = IF p = q THEN rings[q].tail ELSE csrTail[p]
             /\ csrHead'[p] = csrHead[p] /\ card'[p] = card[p] /\ wanted'[p] = wanted[p]
  BY SMTT(60), <1>4 DEF IInv, Shapes
<1>9. QueuesOK'
  <2> SUFFICES ASSUME NEW p \in Queues
               PROVE  QueueOK(rings'[p], csrHead'[p], csrTail'[p], card'[p], Wanted(p)', Ids[p])
    BY DEF QueuesOK
  <2>1. Wanted(p)' = Wanted(p)
    BY <1>4 DEF Wanted
  <2>2. QueueOK(rings[p], csrHead[p], csrTail[p], card[p], Wanted(p), Ids[p])
    BY DEF IInv, QueuesOK
  <2> HIDE DEF q
  <2> QED
    BY SMTT(60), <1>3, <1>8, <2>1, <2>2
<1>10. TailsPublished'
  <2> SUFFICES ASSUME NEW p \in Queues PROVE csrTail'[p] = rings'[p].tail
    BY DEF TailsPublished
  <2>1. p # q => csrTail[p] = rings[p].tail
    BY DEF IInv, TailsPublished
  <2> HIDE DEF q
  <2> QED
    BY <1>3, <1>8, <2>1
<1>11. Decided' /\ TakesNextReport'
  BY <1>6 DEF Decided, TakesNextReport
<1> QED
  BY <1>6, <1>7, <1>9, <1>10, <1>11 DEF IInv

LEMMA NextIInv == IInv /\ [Next]_vars => IInv'
<1> SUFFICES ASSUME IInv, [Next]_vars PROVE IInv'
  OBVIOUS
<1>1. CASE ReadBodies
  BY <1>1, ReadBodiesIInv
<1>2. CASE CheckFlags
  BY <1>2, CheckFlagsIInv
<1>3. CASE Take
  BY <1>3, TakeIInv
<1>4. CASE Publish
  BY <1>4, PublishIInv
<1>5. ASSUME NEW q \in Queues, CardWritesBody(q) PROVE IInv'
  BY <1>5, CardWritesBodyIInv
<1>6. ASSUME NEW q \in Queues, CardWritesFlags(q) PROVE IInv'
  BY <1>6, CardWritesFlagsIInv
<1>7. CASE UNCHANGED vars
  <2>1. Shapes' /\ QueuesOK'
    BY <1>7, QueuesStay DEF vars
  <2>2. host' = host /\ pos' = pos /\ rings' = rings /\ csrTail' = csrTail /\ wanted' = wanted
    BY <1>7 DEF vars
  <2>3. HostTypes' /\ TailsPublished' /\ Decided' /\ TakesNextReport'
    BY Zenon, <2>2 DEF IInv, HostTypes, TailsPublished, Decided, TakesNextReport, Polled
  <2> QED
    BY <2>1, <2>3 DEF IInv
<1> QED
  BY <1>1, <1>2, <1>3, <1>4, <1>5, <1>6, <1>7 DEF Next, Host, Card

------------------------------------------------------------------------------
LEMMA IInvTypeOK == IInv => TypeOK
<1> SUFFICES ASSUME IInv PROVE TypeOK
  OBVIOUS
<1>1. /\ pos \in Queues /\ host.i \in Queues
      /\ host.pc \in {"poll", "check", "take one", "take two", "publish"}
  BY Zenon DEF IInv, HostTypes
<1>2. ASSUME NEW q \in Queues
      PROVE  /\ \A i \in Slots : rings[q].slots[i] \in Descs \cup {Zeroed}
             /\ {rings[q].head, rings[q].tail, csrHead[q], csrTail[q]} \subseteq Pointers
             /\ card[q] \in [id : 0 .. Ids[q] - 1, part : {0, 1}, pair : BOOLEAN, writing : BOOLEAN]
  <2>1. QueueTypes(rings[q], csrHead[q], csrTail[q], card[q], Wanted(q), Ids[q])
    BY SMTT(60) DEF IInv, QueuesOK, QueueOK
  <2>2. /\ rings[q].slots \in [Slots -> Descs \cup {Zeroed}]
        /\ rings[q].head \in Pointers /\ rings[q].tail \in Pointers
    BY SMTT(60), <2>1 DEF QueueTypes, Ring
  <2> QED
    BY SMTT(60), <2>1, <2>2 DEF QueueTypes, CardState
<1> QED
  BY Zenon, <1>1, <1>2 DEF TypeOK

\* The slots from the card's pointer to a ring behind the register are among those
\* RestIsZeroed speaks of: the host's tail is at or ahead of the register.
LEMMA IInvFree == IInv => FreeSlotsAreZeroed
<1> SUFFICES ASSUME IInv, NEW q \in Queues,
                    NEW k \in 1 .. RING_BUF_LEN - Distance(csrHead[q], csrTail[q])
             PROVE  \/ rings[q].slots[Index(csrHead[q] + k - 1)] = Zeroed
                    \/ k = 1 /\ card[q].writing
  BY DEF FreeSlotsAreZeroed
<1> DEFINE r == rings[q]
           h == csrHead[q]
           ct == csrTail[q]
           c == card[q]
           n == Used(r, h)
           i == n + (k - 1)
<1>1. QueueOK(r, h, ct, c, Wanted(q), Ids[q])
  BY SMTT(60) DEF IInv, QueuesOK
<1> HIDE DEF r, h, ct, c
<1>2. r \in Ring /\ h \in Pointers /\ ct \in Pointers /\ r.tail \in Pointers /\ n \in Nat
  BY SMTT(60), <1>1, UsedIs DEF QueueOK, QueueTypes
<1>3. Distance(h, ct) \in Nat /\ n <= Distance(h, ct) /\ Distance(h, ct) <= RING_BUF_LEN
  BY <1>1, <1>2, DistanceIs, RingLenAssumption DEF QueueOK, InBounds, Pointers
<1>4. k \in 1 .. RING_BUF_LEN - Distance(h, ct)
  BY SMTT(60) DEF h, ct
<1>5. i \in n .. RING_BUF_LEN - 1 /\ (i = n => k = 1)
  BY <1>2, <1>3, <1>4, RingLenAssumption
<1>6. Index(h + k - 1) = Index(r.tail + i)
  <2>1. n = IF h >= r.tail THEN h - r.tail ELSE h - r.tail + 2 * RING_BUF_LEN
    BY <1>2, DistanceIs DEF Used
  <2>2. h + k - 1 \in -1 .. 3 * RING_BUF_LEN - 1 /\ r.tail + i \in -1 .. 3 * RING_BUF_LEN - 1
    BY SMTT(60), <1>2, <1>3, <1>4, <1>5, RingLenAssumption DEF Pointers
  <2> HIDE DEF n
  <2>3. \/ h + k - 1 = r.tail + i
        \/ h + k - 1 >= 0 /\ h + k - 1 < RING_BUF_LEN /\ h + k - 1 = (r.tail + i) - 2 * RING_BUF_LEN
    BY SMTT(60), <1>2, <1>3, <1>4, <1>5, <2>1, <2>2, RingLenAssumption DEF Pointers
  <2> QED
    BY <2>2, <2>3, SameSlot
<1>7. At(r, i) = Zeroed \/ (i = n /\ c.writing)
  BY <1>1, <1>5 DEF QueueOK, RestIsZeroed
<1> QED
  BY <1>5, <1>6, <1>7 DEF At, r, h, c

\* The rings, the registers and the worker's variables keep their types.
THEOREM TypeCorrect == Spec => []TypeOK
<1>1. Init => IInv
  BY InitIInv
<1>2. IInv /\ [Next]_vars => IInv'
  BY NextIInv
<1>3. IInv => TypeOK
  BY IInvTypeOK
<1> QED BY <1>1, <1>2, <1>3, PTL DEF Spec

\* What pop_two takes is the next report of the card, whole: no report of any queue
\* is lost, repeated, torn or split between two takes (desc.rs, dma_rb.rs).
THEOREM ReportsInOrder == Spec => []TakesNextReport
<1>1. Init => IInv
  BY InitIInv
<1>2. IInv /\ [Next]_vars => IInv'
  BY NextIInv
<1>3. IInv => TakesNextReport
  BY DEF IInv
<1> QED BY <1>1, <1>2, <1>3, PTL DEF Spec

\* Every slot the tail register lets the card write to has been zeroed.
THEOREM FreeSlotsZeroed == Spec => []FreeSlotsAreZeroed
<1>1. Init => IInv
  BY InitIInv
<1>2. IInv /\ [Next]_vars => IInv'
  BY NextIInv
<1>3. IInv => FreeSlotsAreZeroed
  BY IInvFree
<1> QED BY <1>1, <1>2, <1>3, PTL DEF Spec
==============================================================================
