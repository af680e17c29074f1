------------------------- MODULE RecvTracking_proofs -------------------------
(***************************************************************************)
(* Proofs about RecvTracking, for streams that do not reach the end of the *)
(* sequence space: every distance between two packets in play is then      *)
(* below MAX_PSN_WINDOW.  (Across the end the properties are only          *)
(* model-checked, and BaseIsFirstMissing says nothing.)                    *)
(***************************************************************************)
EXTENDS RecvTracking, WellFoundedInduction, TLAPS

NoWrap == NumPkts + BITMAP_WIDTH < MAX_PSN_WINDOW

\* The packets a report can name: the first bitmap starts before packet 0.
Seqs == 1 - BITMAP_WIDTH .. NumPkts

USE PsnWindowAssumption, BitmapWidthAssumption, StreamAssumption

------------------------------------------------------------------------------
(* Arithmetic of Psns that are less than a window apart. *)

\* The Psn of a packet a report can name: only a bitmap that starts before packet 0
\* has a left edge that wraps.
LEMMA PsnOfIs ==
    ASSUME NoWrap, NEW x \in Seqs
    PROVE  PsnOf(x) = IF x >= 0 THEN x ELSE x + PSN_COUNT
<1>1. CASE x >= 0
  <2>1. x \in 0 .. PSN_COUNT - 1
    BY <1>1 DEF NoWrap, Seqs, PSN_COUNT
  <2> QED BY <1>1, <2>1 DEF PsnOf, PSN_COUNT
<1>2. CASE x < 0
  <2>1. x \in -PSN_COUNT .. -1
    BY <1>2 DEF NoWrap, Seqs, PSN_COUNT
  <2> QED BY <1>2, <2>1 DEF PsnOf, PSN_COUNT
<1> QED BY <1>1, <1>2 DEF Seqs

\* rstart is the distance from the base.
LEMMA RStartIs ==
    ASSUME NoWrap, NEW x \in Seqs, NEW t, t.base \in 0 .. NumPkts
    PROVE  RStart(t, PsnOf(x)) = x - t.base
BY PsnOfIs DEF NoWrap, Seqs, RStart, PSN_COUNT

\* The comparison of Psns is that of the packets they stand for.
LEMMA PsnLTIs ==
    ASSUME NoWrap, NEW a \in 0 .. NumPkts, NEW x \in Seqs
    PROVE  PsnLT(a, PsnOf(x)) <=> a < x
<1> DEFINE d == a - PsnOf(x)
<1>0. PsnOf(x) = IF x >= 0 THEN x ELSE x + PSN_COUNT
  BY PsnOfIs
<1>1. d \in -PSN_COUNT .. PSN_COUNT - 1
  BY <1>0 DEF NoWrap, Seqs, PSN_COUNT
<1>2. d % PSN_COUNT = IF d >= 0 THEN d ELSE d + PSN_COUNT
  <2> HIDE DEF d
  <2>1. CASE d \in 0 .. PSN_COUNT - 1
    BY <2>1 DEF PSN_COUNT
  <2>2. CASE d \in -PSN_COUNT .. -1
    BY <2>2 DEF PSN_COUNT
  <2> QED BY <1>1, <2>1, <2>2
<1> QED BY <1>0, <1>1, <1>2 DEF PsnLT, PsnSub, NoWrap, Seqs, PSN_COUNT

\* The same for `at most', between Psns of the stream.
LEMMA PsnLEIs ==
    ASSUME NoWrap, NEW a \in 0 .. NumPkts, NEW b \in 0 .. NumPkts
    PROVE  PsnLE(a, b) <=> a <= b
<1>1. b \in Seqs /\ PsnOf(b) = b
  BY PsnOfIs DEF Seqs
<1> QED BY <1>1, PsnLTIs DEF PsnLE

\* A nonempty set of naturals has a least element.
LEMMA LeastNat ==
    ASSUME NEW S \in SUBSET Nat, S # {}
    PROVE  \E n \in S : \A m \in S : n <= m
<1> DEFINE R == {ss \in Nat \X Nat : ss[1] < ss[2]}
<1>1. IsWellFoundedOn(R, Nat)
  BY NatLessThanWellFounded, Zenon DEF OpToRel
<1>2. \E n \in S : \A m \in S : ~ (<<m, n>> \in R)
  <2> HIDE DEF R
  <2> QED BY Zenon, <1>1, WFMin
<1>3. \A m, n \in Nat : <<m, n>> \in R <=> m < n
  OBVIOUS
<1> HIDE DEF R
<1>4. PICK n \in S : \A m \in S : ~ (<<m, n>> \in R)
  BY <1>2
<1>5. ASSUME NEW m \in S
      PROVE  n <= m
  <2>1. ~ (m < n)
    BY Zenon, <1>3, <1>4
  <2> QED BY <2>1
<1> QED BY <1>5

------------------------------------------------------------------------------
(* What the methods of a tracker do to the set of acknowledged packets. *)

Acked(t, s) == s < t.base \/ s - t.base \in t.inner

TrkOK(t) ==
    /\ t \in [base : 0 .. NumPkts, inner : SUBSET Nat]
    /\ \A s \in Nat : Acked(t, s) => s < NumPkts

\* res is what a method answers that acknowledges exactly the packets of C: those,
\* and those acknowledged before, are acknowledged afterwards, and the answer
\* tells whether, and where to, the base has moved.
Acks(t, res, C) ==
    /\ TrkOK(res.t)
    /\ \A s \in Nat : Acked(res.t, s) <=> Acked(t, s) \/ s \in C
    /\ t.base <= res.t.base
    /\ \/ res.ret = res.t.base
       \/ res.ret = NoPsn /\ res.t.base = t.base

\* first_zero answers the least bit that is not set.
LEMMA FirstZeroIs ==
    ASSUME NoWrap, NEW inner \in SUBSET Nat, \A i \in inner : i < NumPkts
    PROVE  /\ FirstZero(inner) \in 0 .. NumPkts
           /\ FirstZero(inner) \notin inner
           /\ \A j \in 0 .. FirstZero(inner) - 1 : j \in inner
<1> DEFINE P(i) == i \notin inner /\ \A j \in 0 .. i - 1 : j \in inner
<1>1. PICK n \in Nat \ inner : \A m \in Nat \ inner : n <= m
  <2>1. NumPkts \in Nat \ inner
    OBVIOUS
  <2> QED BY Zenon, <2>1, LeastNat
<1>2. n \in 0 .. NumPkts /\ P(n)
  BY <1>1
<1>3. n \in 0 .. MAX_PSN_WINDOW + BITMAP_WIDTH
  BY <1>2 DEF NoWrap
<1>4. /\ FirstZero(inner) \in 0 .. MAX_PSN_WINDOW + BITMAP_WIDTH
      /\ P(FirstZero(inner))
  <2> HIDE DEF P
  <2>1. FirstZero(inner) = CHOOSE i \in 0 .. MAX_PSN_WINDOW + BITMAP_WIDTH : P(i)
    BY DEF FirstZero, P
  <2> QED BY <1>2, <1>3, <2>1
<1>5. FirstZero(inner) <= NumPkts
  BY <1>4
<1> QED BY <1>4, <1>5

\* try_advance acknowledges nothing new and leaves the base at a packet that is not
\* acknowledged.
LEMMA TryAdvanceAcks ==
    ASSUME NoWrap, NEW t, TrkOK(t)
    PROVE  Acks(t, TryAdvance(t), {}) /\ 0 \notin TryAdvance(t).t.inner
<1> DEFINE pos == FirstZero(t.inner)
<1>0. /\ t.base \in 0 .. NumPkts
      /\ t.inner \in SUBSET Nat
      /\ \A i \in t.inner : t.base + i < NumPkts
  BY DEF TrkOK, Acked
<1>1. /\ pos \in 0 .. NumPkts
      /\ pos \notin t.inner
      /\ \A j \in 0 .. pos - 1 : j \in t.inner
  BY <1>0, FirstZeroIs
<1>2. t.base + pos \in 0 .. NumPkts
  BY <1>0, <1>1
<1> HIDE DEF pos
<1>3. PsnAdd(t.base, pos) = t.base + pos
  BY <1>2 DEF PsnAdd, PSN_COUNT, NoWrap
<1>4. CASE pos = 0
  <2>1. TryAdvance(t) = [t |-> t, ret |-> NoPsn]
    BY <1>4 DEF TryAdvance, pos
  <2> QED BY <1>0, <1>1, <1>4, <2>1 DEF Acks
<1>5. CASE pos # 0
  <2> DEFINE u == [base |-> t.base + pos, inner |-> ShiftLeft(t.inner, pos)]
  <2>1. TryAdvance(t) = [t |-> u, ret |-> t.base + pos]
    BY <1>3, <1>5 DEF TryAdvance, pos
  <2>2. \A i \in Nat : i \in u.inner <=> i + pos \in t.inner
    BY <1>0, <1>1 DEF ShiftLeft
  <2>3. u \in [base : 0 .. NumPkts, inner : SUBSET Nat]
    BY <1>0, <1>1, <1>2 DEF ShiftLeft
  <2>4. \A s \in Nat : Acked(u, s) <=> Acked(t, s)
    <3> SUFFICES ASSUME NEW s \in Nat PROVE Acked(u, s) <=> Acked(t, s)
      OBVIOUS
    <3>1. CASE s < t.base
      BY <3>1, <1>0, <1>1 DEF Acked
    <3>2. CASE t.base <= s /\ s < t.base + pos
      <4>1. s - t.base \in 0 .. pos - 1
        BY <3>2, <1>0, <1>1
      <4> QED BY <3>2, <4>1, <1>1 DEF Acked
    <3>3. CASE t.base + pos <= s
      <4>1. s - (t.base + pos) \in Nat /\ s - (t.base + pos) + pos = s - t.base
        BY <3>3, <1>0, <1>1
      <4>2. s - (t.base + pos) \in u.inner <=> s - t.base \in t.inner
        BY <4>1, <2>2
      <4> QED BY <3>3, <4>2, <1>0, <1>1 DEF Acked
    <3> QED BY <3>1, <3>2, <3>3, <1>0, <1>1
  <2>5. 0 \notin u.inner
    BY <2>2, <1>1
  <2> HIDE DEF u
  <2>6. u.base = t.base + pos
    BY DEF u
  <2> QED BY <2>1, <2>3, <2>4, <2>5, <2>6, <1>0, <1>1 DEF Acks, TrkOK
<1> QED BY <1>4, <1>5

\* ack_one acknowledges its packet.
LEMMA AckOneAcks ==
    ASSUME NoWrap, NEW t, TrkOK(t), NEW x \in Pkts
    PROVE  /\ Acks(t, AckOne(t, PsnOf(x)), {x})
           /\ 0 \notin t.inner => 0 \notin AckOne(t, PsnOf(x)).t.inner
<1> DEFINE r == x - t.base
<1>0. /\ t.base \in 0 .. NumPkts
      /\ t.inner \in SUBSET Nat
      /\ t = [base |-> t.base, inner |-> t.inner]
  BY DEF TrkOK
<1>1. RStart(t, PsnOf(x)) = r
  BY <1>0, RStartIs DEF Pkts, Seqs
<1>2. CASE r < 0
  <2>1. AckOne(t, PsnOf(x)) = [t |-> t, ret |-> NoPsn]
    BY <1>1, <1>2 DEF AckOne
  <2>2. Acked(t, x)
    BY <1>0, <1>2 DEF Acked, Pkts
  <2> QED BY <1>0, <2>1, <2>2 DEF Acks
<1>3. CASE r >= 0
  <2> DEFINE u == [base |-> t.base, inner |-> t.inner \cup {r}]
  <2>0. x \in Int /\ r \in Nat /\ [t EXCEPT !.inner = @ \cup {r}] = u
    BY <1>0, <1>3 DEF TrkOK, Pkts
  <2>1. AckOne(t, PsnOf(x)) = TryAdvance(u)
    BY <1>1, <1>3, <2>0 DEF AckOne
  <2>2. \A s \in Nat : Acked(u, s) <=> Acked(t, s) \/ s \in {x}
    BY <1>0, <1>3 DEF Acked, Pkts
  <2>3. TrkOK(u)
    <3>1. u \in [base : 0 .. NumPkts, inner : SUBSET Nat]
      BY <1>0, <2>0
    <3>2. \A s \in Nat : Acked(u, s) => s < NumPkts
      BY <2>2 DEF TrkOK, Pkts
    <3> QED BY <3>1, <3>2 DEF TrkOK
  <2>4. Acks(u, TryAdvance(u), {}) /\ 0 \notin TryAdvance(u).t.inner
    BY <2>3, TryAdvanceAcks
  <2>5. u.base = t.base
    OBVIOUS
  <2> HIDE DEF u
  <2> QED BY <2>1, <2>2, <2>4, <2>5 DEF Acks
<1> QED BY <1>0, <1>2, <1>3 DEF Pkts

\* ack_before(y) acknowledges the packets from the base to y.
LEMMA AckBeforeAcks ==
    ASSUME NoWrap, NEW t, TrkOK(t), NEW y \in Seqs
    PROVE  Acks(t, AckBefore(t, PsnOf(y)), {s \in Nat : t.base <= s /\ s < y})
<1> DEFINE r == y - t.base
           C == {s \in Nat : t.base <= s /\ s < y}
<1>0. /\ t.base \in 0 .. NumPkts
      /\ t.inner \in SUBSET Nat
      /\ y \in Int
  BY DEF TrkOK, Seqs
<1> SUFFICES Acks(t, AckBefore(t, PsnOf(y)), C)
  OBVIOUS
<1>1. RStart(t, PsnOf(y)) = r
  BY <1>0, RStartIs
<1>2. CASE r < 0
  <2>1. AckBefore(t, PsnOf(y)) = [t |-> t, ret |-> NoPsn]
    BY <1>1, <1>2 DEF AckBefore
  <2>2. \A s \in Nat : s \notin C
    BY <1>0, <1>2
  <2> HIDE DEF C
  <2> QED BY <1>0, <2>1, <2>2 DEF Acks
<1>3. CASE r >= 0
  <2> DEFINE u == [base |-> y, inner |-> ShiftLeft(t.inner, r)]
  <2>1. PsnOf(y) = y /\ y \in 0 .. NumPkts
    BY <1>0, <1>3, PsnOfIs DEF Seqs
  <2>2. AckBefore(t, PsnOf(y)) = [t |-> u, ret |-> y]
    BY <1>0, <1>1, <1>3, <2>1 DEF AckBefore
  <2>3. \A i \in Nat : i \in u.inner <=> i + r \in t.inner
    BY <1>0, <1>3 DEF ShiftLeft
  <2>4. u \in [base : 0 .. NumPkts, inner : SUBSET Nat]
    BY <1>0, <1>3, <2>1 DEF ShiftLeft
  <2>5. ASSUME NEW s \in Nat
        PROVE  Acked(u, s) <=> Acked(t, s) \/ s \in C
    <3>1. CASE s < y
      BY <3>1, <1>0 DEF Acked
    <3>2. CASE y <= s
      <4>1. s - y \in Nat /\ (s - y) + r = s - t.base /\ ~ (s < t.base)
        BY <3>2, <1>0, <1>3
      <4>2. s - y \in u.inner <=> s - t.base \in t.inner
        BY <4>1, <2>3
      <4>3. u.base = y /\ ~ (s < y) /\ s \notin C
        BY <3>2, <1>0
      <4> HIDE DEF u, C
      <4> QED BY <4>1, <4>2, <4>3 DEF Acked
    <3> QED BY <3>1, <3>2, <1>0
  <2>6. TrkOK(u)
    BY <1>0, <2>1, <2>4, <2>5 DEF TrkOK
  <2>7. u.base = y /\ t.base <= y
    BY <1>0, <1>3
  <2> HIDE DEF u, C
  <2> QED BY <2>2, <2>5, <2>6, <2>7 DEF Acks
<1> QED BY <1>0, <1>2, <1>3

\* ack_range(low, y) acknowledges the packets from low to y.
LEMMA AckRangeAcks ==
    ASSUME NoWrap, NEW t, TrkOK(t), NEW low \in 0 .. NumPkts, NEW y \in Seqs
    PROVE  Acks(t, AckRange(t, low, PsnOf(y)), {s \in Nat : low <= s /\ s < y})
<1> DEFINE C == {s \in Nat : low <= s /\ s < y}
<1> SUFFICES Acks(t, AckRange(t, low, PsnOf(y)), C)
  OBVIOUS
<1>0. /\ t.base \in 0 .. NumPkts
      /\ t.inner \in SUBSET Nat
      /\ t = [base |-> t.base, inner |-> t.inner]
      /\ y \in Int /\ y <= NumPkts
      /\ low \in Seqs
  BY DEF TrkOK, Seqs
<1>1. /\ RStart(t, low) = low - t.base
      /\ RStart(t, PsnOf(y)) = y - t.base
      /\ PsnLE(low, t.base) <=> low <= t.base
  BY <1>0, RStartIs, PsnOfIs, PsnLEIs
<1>2. CASE low <= t.base
  <2> DEFINE D == {s \in Nat : t.base <= s /\ s < y}
  <2>1. AckRange(t, low, PsnOf(y)) = AckBefore(t, PsnOf(y))
    BY <1>1, <1>2 DEF AckRange
  <2>2. Acks(t, AckBefore(t, PsnOf(y)), D)
    BY AckBeforeAcks
  <2>3. \A s \in Nat : Acked(t, s) \/ s \in D <=> Acked(t, s) \/ s \in C
    BY <1>0, <1>2 DEF Acked
  <2> HIDE DEF C, D
  <2> QED BY <2>1, <2>2, <2>3 DEF Acks
<1>3. CASE low > t.base /\ y < t.base
  <2>1. AckRange(t, low, PsnOf(y)) = [t |-> t, ret |-> NoPsn]
    BY <1>0, <1>1, <1>3 DEF AckRange
  <2>2. \A s \in Nat : s \notin C
    BY <1>0, <1>3
  <2> HIDE DEF C
  <2> QED BY <1>0, <2>1, <2>2 DEF Acks
<1>4. CASE low > t.base /\ y >= t.base
  <2> DEFINE new == (low - t.base) .. (y - t.base - 1)
             u   == [base |-> t.base, inner |-> t.inner \cup new]
  <2>1. AckRange(t, low, PsnOf(y)) = [t |-> u, ret |-> NoPsn]
    <3>1. [t EXCEPT !.inner = @ \cup new] = u
      BY <1>0
    <3>2. ~ (low <= t.base) /\ ~ (low - t.base < 0) /\ ~ (y - t.base < 0)
      BY <1>0, <1>4
    <3> QED BY Zenon, <1>1, <3>1, <3>2 DEF AckRange
  <2>2. \A s \in Nat : s - t.base \in new <=> s \in C
    BY <1>0, <1>4
  <2>3. u \in [base : 0 .. NumPkts, inner : SUBSET Nat]
    BY <1>0, <1>4
  <2>4. \A s \in C : s < NumPkts
    BY <1>0
  <2> HIDE DEF C, new
  <2>5. \A s \in Nat : Acked(u, s) <=> Acked(t, s) \/ s \in C
    BY <2>2 DEF Acked
  <2>6. TrkOK(u) /\ u.base = t.base
    BY <2>3, <2>4, <2>5 DEF TrkOK
  <2> HIDE DEF u
  <2> QED BY <1>0, <2>1, <2>5, <2>6 DEF Acks
<1> QED BY <1>0, <1>2, <1>3, <1>4

\* ack_bitmap(y, bits) acknowledges the packets of the bits, counted from y.
LEMMA AckBitmapAcks ==
    ASSUME NoWrap, NEW t, TrkOK(t), NEW y \in Seqs, NEW bits \in SUBSET Nat,
           \A s \in Nat : s - y \in bits => s < NumPkts
    PROVE  /\ Acks(t, AckBitmap(t, PsnOf(y), bits), {s \in Nat : s - y \in bits})
           /\ 0 \notin AckBitmap(t, PsnOf(y), bits).t.inner
<1> DEFINE C   == {s \in Nat : s - y \in bits}
           r   == y - t.base
           new == {i \in {r + b : b \in bits} : i >= 0}
           u   == [base |-> t.base, inner |-> t.inner \cup new]
<1> SUFFICES /\ Acks(t, AckBitmap(t, PsnOf(y), bits), C)
             /\ 0 \notin AckBitmap(t, PsnOf(y), bits).t.inner
  OBVIOUS
<1>0. /\ t.base \in 0 .. NumPkts
      /\ t.inner \in SUBSET Nat
      /\ t = [base |-> t.base, inner |-> t.inner]
      /\ y \in Int
  BY DEF TrkOK, Seqs
<1>1. AckBitmap(t, PsnOf(y), bits) = TryAdvance(u)
  <2>1. RStart(t, PsnOf(y)) = r
    BY <1>0, RStartIs
  <2>2. [t EXCEPT !.inner = @ \cup new] = u
    <3> HIDE DEF new
    <3> QED BY <1>0
  <2>3. AckBitmap(t, PsnOf(y), bits) = TryAdvance([t EXCEPT !.inner = @ \cup new])
    BY <2>1 DEF AckBitmap
  <2> QED BY <2>2, <2>3
<1>2. new \in SUBSET Nat
  BY <1>0
<1>3. ASSUME NEW s \in Nat, t.base <= s
      PROVE  s - t.base \in new <=> s \in C
  <2>1. ASSUME s - t.base \in new
        PROVE  s \in C
    <3>1. PICK b \in bits : s - t.base = r + b
      BY <2>1
    <3>2. s - y = b
      BY <1>0, <3>1
    <3> QED BY <3>2
  <2>2. ASSUME s \in C
        PROVE  s - t.base \in new
    <3>1. s - t.base = r + (s - y) /\ s - y \in bits /\ s - t.base >= 0
      BY <1>0, <1>3, <2>2
    <3>2. s - t.base \in {r + b : b \in bits}
      BY Zenon, <3>1
    <3> QED BY <3>1, <3>2
  <2> QED BY <2>1, <2>2
<1>4. \A s \in Nat : Acked(u, s) <=> Acked(t, s) \/ (s >= t.base /\ s \in C)
  <2> SUFFICES ASSUME NEW s \in Nat
               PROVE  Acked(u, s) <=> Acked(t, s) \/ (s >= t.base /\ s \in C)
    OBVIOUS
  <2> HIDE DEF C, new
  <2>1. CASE s >= t.base
    BY <1>0, <1>3, <2>1 DEF Acked
  <2>2. CASE s < t.base
    BY <1>0, <2>2 DEF Acked
  <2> QED BY <1>0, <2>1, <2>2
<1>5. \A s \in Nat : Acked(u, s) <=> Acked(t, s) \/ s \in C
  BY <1>0, <1>4 DEF Acked
<1>6. TrkOK(u) /\ u.base = t.base
  <2>1. u \in [base : 0 .. NumPkts, inner : SUBSET Nat]
    BY <1>0, <1>2
  <2>2. \A s \in Nat : Acked(u, s) => s < NumPkts
    BY <1>5 DEF TrkOK
  <2> QED BY <2>1, <2>2 DEF TrkOK
<1>7. Acks(u, TryAdvance(u), {}) /\ 0 \notin TryAdvance(u).t.inner
  BY <1>6, TryAdvanceAcks
<1> HIDE DEF u, C
<1> QED BY <1>1, <1>5, <1>6, <1>7 DEF Acks

\* Two calls, one after the other, with the answers combined by Option::or.
LEMMA AcksCompose ==
    ASSUME NEW t, NEW x, NEW y, NEW C, NEW D, TrkOK(t),
           Acks(t, x, C), Acks(x.t, y, D)
    PROVE  Acks(t, [t |-> y.t, ret |-> Or(y.ret, x.ret)], C \cup D)
<1>1. t.base \in Nat /\ x.t.base \in Nat /\ y.t.base \in Nat
  BY DEF Acks, TrkOK
<1> QED BY <1>1 DEF Acks, Or, NoPsn

LocalOK(l) ==
    /\ l = [trk |-> l.trk, psnPre |-> l.psnPre]
    /\ TrkOK(l.trk)
    /\ l.psnPre \in 0 .. NumPkts

\* psn_pre after a report whose left edge is packet y.
LEMMA PsnPreIs ==
    ASSUME NoWrap, NEW a \in 0 .. NumPkts, NEW y \in Seqs
    PROVE  (IF PsnLT(a, PsnOf(y)) THEN PsnOf(y) ELSE a) = (IF a < y THEN y ELSE a)
BY PsnLTIs, PsnOfIs DEF Seqs

\* LocalAckTracker::ack_bitmap acknowledges the packets from the last report's
\* left edge to this one's and those of the bits.
LEMMA LocalAckBitmapAcks ==
    ASSUME NoWrap, NEW l, LocalOK(l), NEW y \in Seqs, NEW bits \in SUBSET Nat,
           \A s \in Nat : s - y \in bits => s < NumPkts
    PROVE  LET res == LocalAckBitmap(l, PsnOf(y), bits)
           IN  /\ Acks(l.trk, [t |-> res.l.trk, ret |-> res.ret],
                       {s \in Nat : l.psnPre <= s /\ s < y} \cup {s \in Nat : s - y \in bits})
               /\ LocalOK(res.l)
               /\ 0 \notin res.l.trk.inner
               /\ res.l.psnPre = IF l.psnPre < y THEN y ELSE l.psnPre
<1> DEFINE C == {s \in Nat : l.psnPre <= s /\ s < y}
           D == {s \in Nat : s - y \in bits}
           x == AckRange(l.trk, l.psnPre, PsnOf(y))
           z == AckBitmap(x.t, PsnOf(y), bits)
           p == IF PsnLT(l.psnPre, PsnOf(y)) THEN PsnOf(y) ELSE l.psnPre
<1>1. Acks(l.trk, x, C)
  BY AckRangeAcks DEF LocalOK
<1>2. TrkOK(x.t)
  <2> HIDE DEF C, x
  <2> QED BY <1>1 DEF Acks
<1>3. Acks(x.t, z, D) /\ 0 \notin z.t.inner
  <2> HIDE DEF x
  <2> QED BY <1>2, AckBitmapAcks
<1>4. p = IF l.psnPre < y THEN y ELSE l.psnPre
  BY PsnPreIs DEF LocalOK
<1>5. p \in 0 .. NumPkts
  <2> HIDE DEF p
  <2> QED BY <1>4 DEF LocalOK, Seqs
<1>6. LocalAckBitmap(l, PsnOf(y), bits)
         = [l |-> [trk |-> z.t, psnPre |-> p], ret |-> Or(z.ret, x.ret)]
  BY DEF LocalAckBitmap
<1> HIDE DEF C, D, x, z, p
<1>7. Acks(l.trk, [t |-> z.t, ret |-> Or(z.ret, x.ret)], C \cup D)
  BY <1>1, <1>3, AcksCompose DEF LocalOK
<1>8. TrkOK(z.t)
  BY <1>3 DEF Acks
<1>9. LocalOK([trk |-> z.t, psnPre |-> p])
  BY <1>5, <1>8 DEF LocalOK
<1> QED BY <1>3, <1>4, <1>6, <1>7, <1>9 DEF C, D

\* What a nak report says was received, to a tracker whose psn_pre is pre.
NakClaims(pre, x, preBits, y, nowBits) ==
    ({s \in Nat : pre <= s /\ s < x} \cup {s \in Nat : s - x \in preBits})
       \cup {s \in Nat : s - y \in nowBits}

\* The bits of a window at y stand for packets the sender has.
WithinPkts(bits, y) == \A s \in Nat : s - y \in bits => s < NumPkts

\* LocalAckTracker::nak_bitmap acknowledges the packets up to the left edge
\* before the slide and those of both bitmaps, and nothing of the hole.
LEMMA LocalNakBitmapAcks ==
    ASSUME NoWrap, NEW l, LocalOK(l), NEW x \in Seqs, NEW y \in Seqs,
           NEW preBits \in SUBSET Nat, NEW nowBits \in SUBSET Nat,
           WithinPkts(preBits, x), WithinPkts(nowBits, y)
    PROVE  LET res == LocalNakBitmap(l, PsnOf(x), preBits, PsnOf(y), nowBits)
           IN  /\ Acks(l.trk, [t |-> res.l.trk, ret |-> res.ret],
                       NakClaims(l.psnPre, x, preBits, y, nowBits))
               /\ LocalOK(res.l)
               /\ 0 \notin res.l.trk.inner
               /\ res.l.psnPre = IF l.psnPre < y THEN y ELSE l.psnPre
<1> DEFINE C == {s \in Nat : l.psnPre <= s /\ s < x}
           D == {s \in Nat : s - x \in preBits}
           E == {s \in Nat : s - y \in nowBits}
           u == AckRange(l.trk, l.psnPre, PsnOf(x))
           v == AckBitmap(u.t, PsnOf(x), preBits)
           w == AckBitmap(v.t, PsnOf(y), nowBits)
           p == IF PsnLT(l.psnPre, PsnOf(y)) THEN PsnOf(y) ELSE l.psnPre
<1>1. Acks(l.trk, u, C)
  BY AckRangeAcks DEF LocalOK
<1>2. TrkOK(u.t)
  <2> HIDE DEF C, u
  <2> QED BY <1>1 DEF Acks
<1>3. Acks(u.t, v, D)
  <2> HIDE DEF u
  <2> QED BY <1>2, AckBitmapAcks DEF WithinPkts
<1>4. TrkOK(v.t)
  <2> HIDE DEF D, u, v
  <2> QED BY <1>3 DEF Acks
<1>5. Acks(v.t, w, E) /\ 0 \notin w.t.inner
  <2> HIDE DEF v
  <2> QED BY <1>4, AckBitmapAcks DEF WithinPkts
<1>6. p = IF l.psnPre < y THEN y ELSE l.psnPre
  BY PsnPreIs DEF LocalOK
<1>7. p \in 0 .. NumPkts
  <2> HIDE DEF p
  <2> QED BY <1>6 DEF LocalOK, Seqs
<1>8. LocalNakBitmap(l, PsnOf(x), preBits, PsnOf(y), nowBits)
         = [l |-> [trk |-> w.t, psnPre |-> p], ret |-> Or(Or(w.ret, v.ret), u.ret)]
  BY DEF LocalNakBitmap
<1> HIDE DEF C, D, E, u, v, w, p
<1>9. Acks(l.trk, [t |-> v.t, ret |-> Or(v.ret, u.ret)], C \cup D)
  BY <1>1, <1>3, AcksCompose DEF LocalOK
<1>10. Acks(l.trk, [t |-> w.t, ret |-> Or(w.ret, Or(v.ret, u.ret))], (C \cup D) \cup E)
  <2> DEFINE q == [t |-> v.t, ret |-> Or(v.ret, u.ret)]
  <2>1. q.t = v.t /\ q.ret = Or(v.ret, u.ret) /\ Acks(l.trk, q, C \cup D)
    BY <1>9
  <2> HIDE DEF q
  <2>2. Acks(q.t, w, E) /\ TrkOK(l.trk)
    BY <1>5, <2>1 DEF LocalOK
  <2>3. Acks(l.trk, [t |-> w.t, ret |-> Or(w.ret, q.ret)], (C \cup D) \cup E)
    BY <2>1, <2>2, AcksCompose
  <2> QED BY <2>1, <2>3
<1>11. Or(w.ret, Or(v.ret, u.ret)) = Or(Or(w.ret, v.ret), u.ret)
  BY DEF Or
<1>12. TrkOK(w.t)
  BY <1>5 DEF Acks
<1>13. LocalOK([trk |-> w.t, psnPre |-> p])
  BY <1>7, <1>12 DEF LocalOK
<1> DEFINE res == LocalNakBitmap(l, PsnOf(x), preBits, PsnOf(y), nowBits)
<1>14. /\ [t |-> res.l.trk, ret |-> res.ret]
             = [t |-> w.t, ret |-> Or(w.ret, Or(v.ret, u.ret))]
       /\ res.l = [trk |-> w.t, psnPre |-> p]
  BY <1>8, <1>11
<1>15. /\ Acks(l.trk, [t |-> res.l.trk, ret |-> res.ret], (C \cup D) \cup E)
       /\ LocalOK(res.l)
       /\ 0 \notin res.l.trk.inner
       /\ res.l.psnPre = IF l.psnPre < y THEN y ELSE l.psnPre
  <2> HIDE DEF res
  <2>1. res.l.trk = w.t /\ res.l.psnPre = p
    BY <1>14
  <2> QED
    BY <1>5, <1>6, <1>10, <1>13, <1>14, <2>1
<1> QED BY <1>15 DEF C, D, E, NakClaims

------------------------------------------------------------------------------
(* The inductive invariant. *)

Received ==
    /\ rcvd \subseteq Pkts
    /\ win \subseteq rcvd
    /\ headers \subseteq rcvd

\* The tracker acknowledges the packets received whose header has been handled,
\* and at most those received; the base is a packet it does not acknowledge.
TrackerExact ==
    /\ LocalOK(local)
    /\ 0 \notin local.trk.inner
    /\ absBase = local.trk.base
    /\ told = local.trk.base
    /\ \A s \in Nat : Acked(local.trk, s) => s \in rcvd
    /\ \A s \in rcvd : Acked(local.trk, s) \/ s \in headers

\* What report r says of the packets R received is so.
ReportOK(r, R) ==
    /\ r.from \in Seqs /\ r.to \in Seqs /\ r.from <= r.to
    /\ r.now = PsnOf(r.to)
    /\ \A b \in r.nowBits : r.to + b \in R
    /\ r.type = "ack" => \A s \in Pkts : r.from <= s /\ s < r.to => s \in R
    /\ r.type = "nak" => /\ r.pre = PsnOf(r.from)
                         /\ \A b \in r.preBits : r.from + b \in R

NonNeg(x) == IF x >= 0 THEN x ELSE 0

\* The reports reps are a chain of left edges, from the tracker's psn_pre to the
\* left edge st of the NIC's bitmap: no slide of the bitmap is skipped.
Chain(pre, reps, st, R) ==
    /\ st \in Seqs
    /\ reps \in Seq(Reports)
    /\ \A i \in 1 .. Len(reps) : ReportOK(reps[i], R)
    /\ \A i \in 1 .. Len(reps) - 1 : reps[i].to = reps[i + 1].from
    /\ reps = <<>> => pre = NonNeg(st)
    /\ reps # <<>> => reps[Len(reps)].to = st /\ pre = NonNeg(reps[1].from)

Chained == Chain(local.psnPre, reports, start, rcvd)

IInv == Received /\ TrackerExact /\ Chained

\* A step leaves acknowledged what was acknowledged.
AckedGrows == \A s \in Nat : Acked(local.trk, s) => Acked(local.trk, s)'

------------------------------------------------------------------------------
(* The chain of reports when one is added and when one is handled. *)

\* What reports say stays so when more packets are received.
LEMMA ChainGrows ==
    ASSUME NEW pre, NEW reps, NEW st, NEW R, NEW R2,
           Chain(pre, reps, st, R), R \subseteq R2
    PROVE  Chain(pre, reps, st, R2)
BY DEF Chain, ReportOK

\* A report the NIC adds continues the chain from its last left edge.
LEMMA ChainAppend ==
    ASSUME NEW pre, NEW reps, NEW st, NEW R, NEW r \in Reports, NEW st2, NEW R2,
           Chain(pre, reps, st, R), R \subseteq R2,
           ReportOK(r, R2), r.from = st, r.to = st2
    PROVE  Chain(pre, Append(reps, r), st2, R2)
<1> DEFINE new == Append(reps, r)
<1>0. reps \in Seq(Reports)
  BY DEF Chain
<1>1. /\ new \in Seq(Reports)
      /\ Len(reps) \in Nat
      /\ Len(new) = Len(reps) + 1
      /\ new # <<>>
      /\ \A i \in 1 .. Len(reps) : new[i] = reps[i]
      /\ new[Len(new)] = r
      /\ reps = <<>> <=> Len(reps) = 0
  BY <1>0
<1> HIDE DEF new
<1>2. \A i \in 1 .. Len(new) : ReportOK(new[i], R2)
  <2>1. \A i \in 1 .. Len(reps) : ReportOK(reps[i], R2)
    BY ZenonT(60), ChainGrows DEF Chain
  <2> QED BY <1>1, <2>1
<1>3. \A i \in 1 .. Len(new) - 1 : new[i].to = new[i + 1].from
  <2> SUFFICES ASSUME NEW i \in 1 .. Len(new) - 1
               PROVE  new[i].to = new[i + 1].from
    OBVIOUS
  <2>1. CASE i < Len(reps)
    BY <1>1, <2>1 DEF Chain
  <2>2. CASE i = Len(reps)
    BY <1>1, <2>2 DEF Chain
  <2> QED BY <1>1, <2>1, <2>2
<1>4. pre = NonNeg(new[1].from)
  <2>1. CASE reps = <<>>
    BY <1>1, <2>1 DEF Chain
  <2>2. CASE reps # <<>>
    BY <1>1, <2>2 DEF Chain
  <2> QED BY <2>1, <2>2
<1>5. st2 \in Seqs
  BY DEF ReportOK
<1> QED BY <1>1, <1>2, <1>3, <1>4, <1>5 DEF Chain, new

\* The report handled starts at psn_pre, and leaves a chain that starts at the
\* psn_pre its handler sets.
LEMMA ChainTail ==
    ASSUME NEW pre \in Nat, NEW reps, NEW st, NEW R,
           Chain(pre, reps, st, R), reps # <<>>
    PROVE  /\ ReportOK(Head(reps), R) /\ Head(reps) \in Reports
           /\ pre = NonNeg(Head(reps).from)
           /\ Chain(IF pre < Head(reps).to THEN Head(reps).to ELSE pre, Tail(reps), st, R)
<1> DEFINE tl == Tail(reps)
           h  == Head(reps)
           p  == IF pre < h.to THEN h.to ELSE pre
<1>0. reps \in Seq(Reports)
  BY DEF Chain
<1>a. /\ Len(reps) \in Nat /\ Len(reps) >= 1
      /\ tl \in Seq(Reports)
      /\ Len(tl) = Len(reps) - 1
  BY <1>0
<1>b. \A i \in 1 .. Len(tl) : tl[i] = reps[i + 1]
  BY <1>0
<1>c. h = reps[1] /\ h \in Reports
  BY <1>0, <1>a
<1>d. tl = <<>> <=> Len(reps) = 1
  <2> HIDE DEF tl
  <2> QED BY <1>a
<1>1. /\ Len(reps) \in Nat /\ Len(reps) >= 1
      /\ h = reps[1] /\ h \in Reports
      /\ tl \in Seq(Reports)
      /\ Len(tl) = Len(reps) - 1
      /\ \A i \in 1 .. Len(tl) : tl[i] = reps[i + 1]
      /\ tl = <<>> <=> Len(reps) = 1
  BY <1>a, <1>b, <1>c, <1>d
<1> HIDE DEF tl, h
<1>2. ReportOK(h, R) /\ pre = NonNeg(h.from)
  BY <1>1 DEF Chain
<1>3. p = NonNeg(h.to)
  BY <1>2 DEF NonNeg, ReportOK, Seqs
<1>4. \A i \in 1 .. Len(tl) : ReportOK(tl[i], R)
  BY <1>1 DEF Chain
<1>5. \A i \in 1 .. Len(tl) - 1 : tl[i].to = tl[i + 1].from
  BY SMTT(60), <1>1 DEF Chain
<1>6. tl = <<>> => h.to = st
  BY Zenon, <1>1 DEF Chain
<1>7. tl # <<>> => tl[Len(tl)].to = st /\ h.to = tl[1].from
  BY <1>1 DEF Chain
<1>8. Chain(p, tl, st, R)
  <2> HIDE DEF p
  <2> QED BY <1>1, <1>3, <1>4, <1>5, <1>6, <1>7 DEF Chain
<1> QED BY <1>1, <1>2, <1>8 DEF tl, h

------------------------------------------------------------------------------
(* Every step preserves the invariant. *)

\* The invariant holds at first: nothing received, nothing acknowledged.
LEMMA InitIInv == NoWrap /\ Init => IInv
<1> SUFFICES ASSUME NoWrap, Init PROVE IInv
  OBVIOUS
<1>1. Received
  BY DEF Init, Received
<1>2. TrackerExact
  BY DEF Init, TrackerExact, LocalOK, TrkOK, Acked, NewLocal, NewTracker
<1>3. Chained
  BY SMTT(60) DEF Init, Chained, Chain, NonNeg, Seqs, NewLocal
<1> QED BY <1>1, <1>2, <1>3 DEF IInv

\* A handler whose tracker call acknowledges the packets C, all of them received.
LEMMA UpdateIs ==
    ASSUME NoWrap, TrackerExact, NEW res, NEW C, Update(res), LocalOK(res.l),
           Acks(local.trk, [t |-> res.l.trk, ret |-> res.ret], C)
    PROVE  /\ local' = res.l
           /\ absBase' = local'.trk.base
           /\ told' = local'.trk.base
           /\ \A s \in Nat : Acked(local'.trk, s) <=> Acked(local.trk, s) \/ s \in C
           /\ local.trk.base <= local'.trk.base
<1> DEFINE b  == local.trk.base
           b2 == res.l.trk.base
<1>1. /\ b \in 0 .. NumPkts /\ b2 \in 0 .. NumPkts /\ b <= b2
      /\ res.ret = b2 \/ (res.ret = NoPsn /\ b2 = b)
      /\ \A s \in Nat : Acked(res.l.trk, s) <=> Acked(local.trk, s) \/ s \in C
  BY DEF TrackerExact, LocalOK, TrkOK, Acks
<1>2. PsnSub(b2, b) = b2 - b
  <2>1. b2 - b \in 0 .. PSN_COUNT - 1
    BY SMTT(60), <1>1 DEF NoWrap, PSN_COUNT
  <2> QED BY SMTT(60), <2>1 DEF PsnSub, PSN_COUNT
<1>3. local' = res.l
  BY DEF Update
<1>4. absBase' = b2
  BY <1>1, <1>2 DEF Update, TrackerExact
<1>5. told' = b2
  BY SMTT(60), <1>1 DEF Update, TrackerExact, NoPsn
<1> QED BY <1>1, <1>3, <1>4, <1>5

\* handle_header_write acknowledges one packet, which has been received.
LEMMA HeaderStep == ASSUME NoWrap, IInv, HandleHeader PROVE IInv' /\ AckedGrows
<1>1. PICK s \in headers : /\ headers' = headers \ {s}
                           /\ Update(LocalAckOne(local, PsnOf(s)))
  BY DEF HandleHeader
<1>2. UNCHANGED <<rcvd, start, win, reports>>
  BY DEF HandleHeader
<1>3. s \in Pkts /\ s \in rcvd /\ s \in Nat
  BY DEF IInv, Received, Pkts
<1> DEFINE x   == AckOne(local.trk, PsnOf(s))
           res == LocalAckOne(local, PsnOf(s))
<1>4. Acks(local.trk, x, {s}) /\ 0 \notin x.t.inner
  BY <1>3, AckOneAcks DEF IInv, TrackerExact, LocalOK
<1> HIDE DEF x
<1>5. res = [l |-> [trk |-> x.t, psnPre |-> local.psnPre], ret |-> x.ret]
  <2>1. [local EXCEPT !.trk = x.t] = [trk |-> x.t, psnPre |-> local.psnPre]
    BY DEF IInv, TrackerExact, LocalOK
  <2> QED BY <2>1 DEF LocalAckOne, x
<1>6. LocalOK(res.l)
  BY SMTT(60), <1>4, <1>5 DEF IInv, TrackerExact, LocalOK, Acks
<1>7. Acks(local.trk, [t |-> res.l.trk, ret |-> res.ret], {s})
  BY SMTT(60), <1>4, <1>5 DEF Acks
<1>8. Update(res) /\ res.l.psnPre = local.psnPre /\ 0 \notin res.l.trk.inner
  BY <1>1, <1>4, <1>5
<1> HIDE DEF res
<1>9. /\ local' = res.l
      /\ absBase' = local'.trk.base
      /\ told' = local'.trk.base
      /\ \A y \in Nat : Acked(local'.trk, y) <=> Acked(local.trk, y) \/ y \in {s}
  BY <1>6, <1>7, <1>8, UpdateIs DEF IInv
<1>10. Received'
  BY <1>1, <1>2 DEF IInv, Received
<1>11. TrackerExact'
  <2>1. LocalOK(local)' /\ (0 \notin local.trk.inner)'
    BY <1>6, <1>8, <1>9
  <2>2. \A y \in Nat : Acked(local'.trk, y) => y \in rcvd'
    BY <1>2, <1>3, <1>9 DEF IInv, TrackerExact
  <2>3. \A y \in rcvd' : Acked(local'.trk, y) \/ y \in headers'
    BY <1>1, <1>2, <1>9 DEF IInv, TrackerExact, Received, Pkts
  <2> QED BY <1>9, <2>1, <2>2, <2>3 DEF TrackerExact
<1>12. Chained'
  BY <1>2, <1>8, <1>9 DEF IInv, Chained
<1>13. AckedGrows
  BY <1>9 DEF AckedGrows
<1> QED BY <1>10, <1>11, <1>12, <1>13 DEF IInv

\* A bitmap report handled: C is what it acknowledges.
LEMMA ReportStep ==
    ASSUME NoWrap, IInv, reports # <<>>, reports' = Tail(reports),
           UNCHANGED <<rcvd, start, win, headers>>,
           NEW res, NEW C \in SUBSET rcvd, Update(res), LocalOK(res.l),
           Acks(local.trk, [t |-> res.l.trk, ret |-> res.ret], C),
           0 \notin res.l.trk.inner,
           res.l.psnPre = IF local.psnPre < Head(reports).to
                          THEN Head(reports).to ELSE local.psnPre
    PROVE  IInv' /\ AckedGrows
<1>1. /\ local' = res.l
      /\ absBase' = local'.trk.base
      /\ told' = local'.trk.base
      /\ \A y \in Nat : Acked(local'.trk, y) <=> Acked(local.trk, y) \/ y \in C
  BY UpdateIs DEF IInv
<1>2. Received'
  BY DEF IInv, Received
<1>3. TrackerExact'
  <2>1. LocalOK(local)' /\ (0 \notin local.trk.inner)'
    BY <1>1
  <2>2. \A y \in Nat : Acked(local'.trk, y) => y \in rcvd'
    BY SMTT(60), <1>1 DEF IInv, TrackerExact
  <2>3. \A y \in rcvd' : Acked(local'.trk, y) \/ y \in headers'
    BY SMTT(60), <1>1 DEF IInv, TrackerExact, Received, Pkts
  <2> QED BY SMTT(60), <1>1, <2>1, <2>2, <2>3 DEF TrackerExact
<1>4. Chained'
  <2>1. local.psnPre \in Nat
    BY SMTT(60) DEF IInv, TrackerExact, LocalOK
  <2>2. Chain(IF local.psnPre < Head(reports).to THEN Head(reports).to ELSE local.psnPre,
              Tail(reports), start, rcvd)
    BY <2>1, ChainTail DEF IInv, Chained
  <2> QED BY <1>1, <2>2 DEF Chained
<1>5. AckedGrows
  BY SMTT(60), <1>1 DEF AckedGrows
<1> QED BY <1>2, <1>3, <1>4, <1>5 DEF IInv

\* The packets before the left edge of a report that the tracker has not been
\* told of by an earlier one.
LEMMA HeadReport ==
    ASSUME NoWrap, IInv, reports # <<>>
    PROVE  /\ Head(reports) \in Reports
           /\ ReportOK(Head(reports), rcvd)
           /\ local.psnPre = NonNeg(Head(reports).from)
           /\ LocalOK(local)
<1>1. local.psnPre \in Nat
  BY DEF IInv, TrackerExact, LocalOK
<1> QED BY <1>1, ChainTail DEF IInv, Chained, TrackerExact

\* handle_ack_local_hw acknowledges all from psn_pre to the window, which the chain
\* makes packets received, and the window's bits.
LEMMA AckStep == ASSUME NoWrap, IInv, HandleAckLocalHw PROVE IInv' /\ AckedGrows
<1> DEFINE r   == Head(reports)
           y   == r.to
           res == LocalAckBitmap(local, PsnOf(y), r.nowBits)
           C   == {s \in Nat : local.psnPre <= s /\ s < y}
           D   == {s \in Nat : s - y \in r.nowBits}
<1>1. /\ reports # <<>> /\ r.type = "ack"
      /\ reports' = Tail(reports)
      /\ UNCHANGED <<rcvd, start, win, headers>>
      /\ Update(LocalAckBitmap(local, r.now, r.nowBits))
  BY SMTT(60) DEF HandleAckLocalHw
<1>2. /\ r \in Reports /\ ReportOK(r, rcvd)
      /\ local.psnPre = NonNeg(r.from)
      /\ LocalOK(local)
  BY <1>1, HeadReport
<1> HIDE DEF r
<1>3. /\ y \in Seqs /\ y \in Int /\ r.from \in Int
      /\ r.nowBits \in SUBSET Nat
      /\ r.now = PsnOf(y)
  BY <1>1, <1>2 DEF ReportOK, Reports, BitSets, Seqs
<1>4. D \subseteq rcvd
  BY SMTT(60), <1>2, <1>3 DEF ReportOK
<1>5. C \subseteq rcvd
  <2> SUFFICES ASSUME NEW s \in Nat, local.psnPre <= s, s < y
               PROVE  s \in rcvd
    OBVIOUS
  <2>1. s \in Pkts /\ r.from <= s
    BY <1>2, <1>3 DEF NonNeg, Pkts, Seqs
  <2> QED BY <1>1, <1>2, <2>1 DEF ReportOK
<1>6. \A s \in Nat : s - y \in r.nowBits => s < NumPkts
  BY SMTT(60), <1>4 DEF IInv, Received, Pkts
<1>7. /\ Acks(local.trk, [t |-> res.l.trk, ret |-> res.ret], C \cup D)
      /\ LocalOK(res.l)
      /\ 0 \notin res.l.trk.inner
      /\ res.l.psnPre = IF local.psnPre < y THEN y ELSE local.psnPre
  BY ZenonT(60), <1>2, <1>3, <1>6, LocalAckBitmapAcks
<1>8. Update(res)
  BY <1>1, <1>3
<1> HIDE DEF res, C, D
<1> QED BY <1>1, <1>4, <1>5, <1>7, <1>8, ReportStep DEF r

\* handle_nak_local_hw acknowledges the bits of both windows and nothing between.
LEMMA NakStep == ASSUME NoWrap, IInv, HandleNakLocalHw PROVE IInv' /\ AckedGrows
<1> DEFINE r   == Head(reports)
           x   == r.from
           y   == r.to
           pb  == r.preBits
           nb  == r.nowBits
           res == LocalNakBitmap(local, PsnOf(x), pb, PsnOf(y), nb)
           C   == NakClaims(local.psnPre, x, pb, y, nb)
<1>1. /\ reports # <<>> /\ r.type = "nak"
      /\ reports' = Tail(reports)
      /\ UNCHANGED <<rcvd, start, win, headers>>
      /\ Update(LocalNakBitmap(local, r.pre, r.preBits, r.now, r.nowBits))
  BY DEF HandleNakLocalHw
<1>2. /\ r \in Reports /\ ReportOK(r, rcvd)
      /\ local.psnPre = NonNeg(r.from)
      /\ LocalOK(local)
  BY <1>1, HeadReport
<1> HIDE DEF r
<1>3. /\ x \in Seqs /\ x \in Int /\ y \in Seqs /\ y \in Int
      /\ pb \in SUBSET Nat /\ nb \in SUBSET Nat
      /\ r.pre = PsnOf(x) /\ r.now = PsnOf(y)
  BY <1>1, <1>2 DEF ReportOK, Reports, BitSets, Seqs
<1>4. /\ \A s \in Nat : s - x \in pb => s \in rcvd
      /\ \A s \in Nat : s - y \in nb => s \in rcvd
  BY SMTT(60), <1>1, <1>2, <1>3 DEF ReportOK
<1>5. C \subseteq rcvd
  BY SMTT(60), <1>2, <1>3, <1>4 DEF NonNeg, NakClaims
<1>6. WithinPkts(pb, x) /\ WithinPkts(nb, y)
  BY SMTT(60), <1>4 DEF WithinPkts, IInv, Received, Pkts
<1>7. /\ Acks(local.trk, [t |-> res.l.trk, ret |-> res.ret], C)
      /\ LocalOK(res.l)
      /\ 0 \notin res.l.trk.inner
      /\ res.l.psnPre = IF local.psnPre < y THEN y ELSE local.psnPre
  <2> HIDE DEF x, y, pb, nb
  <2> QED BY SMTT(60), <1>2, <1>3, <1>6, LocalNakBitmapAcks
<1>8. Update(res)
  BY <1>1, <1>3
<1> HIDE DEF res, C
<1> QED BY <1>1, <1>5, <1>7, <1>8, ReportStep DEF r

\* The reports the NIC writes are well formed and true.
LEMMA NewReport ==
    ASSUME NoWrap, NEW x \in Seqs, NEW y \in Seqs, x <= y,
           NEW R \in SUBSET Pkts, NEW v \in SUBSET R, NEW w \in SUBSET R
    PROVE  /\ AckReport(x, y, w) \in Reports /\ NakReport(x, v, y, w) \in Reports
           /\ ReportOK(NakReport(x, v, y, w), R)
           /\ (\A s \in Pkts : x <= s /\ s < y => s \in R) => ReportOK(AckReport(x, y, w), R)
<1>1. /\ Bits(x, v) \in BitSets /\ \A b \in Bits(x, v) : x + b \in R
      /\ Bits(y, w) \in BitSets /\ \A b \in Bits(y, w) : y + b \in R
  BY DEF Bits, BitSets, Pkts, Seqs
<1>2. x \in Int /\ y \in Int /\ PsnOf(x) \in Psn /\ PsnOf(y) \in Psn
  BY PsnOfIs DEF Seqs, NoWrap, Psn, PSN_COUNT
<1>3. AckReport(x, y, w) \in Reports /\ NakReport(x, v, y, w) \in Reports
  BY SMTT(60), <1>1, <1>2 DEF AckReport, NakReport, Reports
<1>4. ReportOK(NakReport(x, v, y, w), R)
  BY <1>1 DEF ReportOK, NakReport
<1>5. ASSUME \A s \in Pkts : x <= s /\ s < y => s \in R
      PROVE  ReportOK(AckReport(x, y, w), R)
  BY <1>1, <1>5 DEF ReportOK, AckReport
<1> QED BY <1>3, <1>4, <1>5

\* The NIC reports what it has received, and starts a report where the last one
\* ended.
LEMMA NicStep == ASSUME NoWrap, IInv, Nic PROVE IInv' /\ AckedGrows
<1>1. PICK s \in OnWire :
         /\ \/ \E report \in BOOLEAN : NicReceive(s, report)
            \/ \E new \in start + 1 .. s : NicSlide(s, new)
            \/ NicStale(s)
         /\ rcvd' = rcvd \cup {s}
         /\ headers' = headers \cup {s}
  BY DEF Nic
<1>2. UNCHANGED <<local, absBase, told>>
  BY DEF Nic
<1>3. s \in Pkts /\ rcvd \subseteq rcvd' /\ rcvd' \subseteq Pkts /\ start \in Seqs
      /\ win \subseteq rcvd
  BY <1>1 DEF OnWire, IInv, Received, Chained, Chain
<1>4. TrackerExact'
  BY <1>1, <1>2 DEF IInv, TrackerExact
<1>5. Chain(local.psnPre, reports, start, rcvd)
  BY DEF IInv, Chained
<1>6. ASSUME NicStale(s)
      PROVE  IInv'
  <2>1. Chained'
    BY <1>2, <1>3, <1>5, <1>6, ChainGrows DEF NicStale, Chained
  <2>2. Received'
    BY <1>1, <1>3, <1>6 DEF NicStale, IInv, Received
  <2> QED BY <1>4, <2>1, <2>2 DEF IInv
<1>7. ASSUME NEW report \in BOOLEAN, NicReceive(s, report)
      PROVE  IInv'
  <2>1. win' = win \cup {s} /\ start' = start /\ win' \subseteq rcvd'
    BY <1>1, <1>3, <1>7 DEF NicReceive
  <2>2. Received'
    BY <1>1, <1>3, <2>1 DEF IInv, Received
  <2>3. Chained'
    <3>1. CASE ~report
      <4>1. reports' = reports
        BY <1>7, <3>1 DEF NicReceive
      <4> QED BY <1>2, <1>3, <1>5, <2>1, <4>1, ChainGrows DEF Chained
    <3>2. CASE report
      <4> DEFINE r == AckReport(start, start, win')
      <4>1. reports' = Append(reports, r)
        BY <1>7, <3>2 DEF NicReceive
      <4>2. r \in Reports /\ ReportOK(r, rcvd')
        <5>1. start <= start /\ \A q \in Pkts : start <= q /\ q < start => q \in rcvd'
          BY <1>3 DEF Seqs, Pkts
        <5> QED BY <1>3, <2>1, <5>1, NewReport
      <4>3. r.from = start /\ r.to = start
        BY SMTT(60) DEF AckReport
      <4> HIDE DEF r
      <4>4. Chain(local.psnPre, Append(reports, r), start, rcvd')
        BY <1>3, <1>5, <4>2, <4>3, ChainAppend
      <4> QED BY <1>2, <2>1, <4>1, <4>4 DEF Chained
    <3> QED BY <3>1, <3>2
  <2> QED BY <1>4, <2>2, <2>3 DEF IInv
<1>8. ASSUME NEW new \in start + 1 .. s, NicSlide(s, new)
      PROVE  IInv'
  <2>1. start' = new /\ win' \subseteq rcvd'
    BY <1>1, <1>3, <1>8 DEF NicSlide
  <2>2. new \in Seqs /\ start <= new
    BY <1>3 DEF Seqs, Pkts
  <2>3. Received'
    BY <1>1, <1>3, <2>1 DEF IInv, Received
  <2> DEFINE lost == \E q \in Pkts \ win : start <= q /\ q < new
             r    == IF lost THEN NakReport(start, win, new, win')
                             ELSE AckReport(start, new, win')
  <2>4. reports' = Append(reports, r)
    BY <1>8 DEF NicSlide
  <2>5. win \subseteq rcvd'
    BY <1>3
  <2>6. r \in Reports /\ ReportOK(r, rcvd')
    <3>1. CASE lost
      BY <1>3, <2>1, <2>2, <2>5, <3>1, NewReport
    <3>2. CASE ~lost
      <4>1. \A q \in Pkts : start <= q /\ q < new => q \in rcvd'
        BY SMTT(60), <2>5, <3>2
      <4> QED BY <1>3, <2>1, <2>2, <2>5, <3>2, <4>1, NewReport
    <3> QED BY <3>1, <3>2
  <2>7. r.from = start /\ r.to = new
    BY DEF AckReport, NakReport
  <2> HIDE DEF r
  <2>8. Chain(local.psnPre, Append(reports, r), new, rcvd')
    BY <1>3, <1>5, <2>6, <2>7, ChainAppend
  <2>9. Chained'
    BY <1>2, <2>1, <2>4, <2>8 DEF Chained
  <2> QED BY <1>4, <2>3, <2>9 DEF IInv
<1>9. AckedGrows
  BY <1>2 DEF AckedGrows
<1> QED BY <1>1, <1>6, <1>7, <1>8, <1>9

\* The invariant is inductive.
LEMMA NextIInv == ASSUME NoWrap, IInv, [Next]_vars PROVE IInv' /\ AckedGrows
<1>1. CASE UNCHANGED vars
  <2>1. IInv'
    BY <1>1 DEF vars, IInv, Received, TrackerExact, Chained
  <2>2. AckedGrows
    BY <1>1 DEF vars, AckedGrows
  <2> QED BY SMTT(60), <2>1, <2>2
<1>2. CASE Next
  BY <1>2, NicStep, HeaderStep, AckStep, NakStep DEF Next
<1> QED BY <1>1, <1>2

\* It implies the invariants of the specification.
LEMMA IInvTypeOK == NoWrap /\ IInv => TypeOK
<1> SUFFICES ASSUME NoWrap, IInv PROVE TypeOK
  OBVIOUS
<1>1. rcvd \subseteq Pkts /\ win \subseteq rcvd /\ headers \subseteq rcvd
  BY DEF IInv, Received
<1>2. start \in Int /\ reports \in Seq(Reports)
  BY DEF IInv, Chained, Chain, Seqs
<1>3. 0 .. NumPkts \subseteq Psn
  BY DEF NoWrap, Psn, PSN_COUNT
<1>4. /\ local = [trk |-> local.trk, psnPre |-> local.psnPre]
      /\ local.psnPre \in Psn
      /\ local.trk \in [base : 0 .. NumPkts, inner : SUBSET Nat]
      /\ absBase = local.trk.base /\ told = local.trk.base
  BY <1>3 DEF IInv, TrackerExact, LocalOK, TrkOK
<1>5. local.trk \in [base : Psn, inner : SUBSET Nat]
  BY <1>3, <1>4
<1>6. absBase \in Nat /\ told \in Psn
  BY <1>3, <1>4
<1>7. local \in [trk : [base : Psn, inner : SUBSET Nat], psnPre : Psn]
  BY <1>4, <1>5
<1> QED BY <1>1, <1>2, <1>6, <1>7 DEF TypeOK

\* The safety properties follow from the invariant.
LEMMA IInvSafe == IInv => NeverAckUnreceived /\ CompletionToldTheBase
<1> SUFFICES ASSUME IInv PROVE NeverAckUnreceived /\ CompletionToldTheBase
  OBVIOUS
<1>1. /\ absBase = local.trk.base /\ told = local.trk.base
      /\ absBase \in Nat /\ local.trk.inner \subseteq Nat
      /\ \A s \in Nat : Acked(local.trk, s) => s \in rcvd
  BY DEF IInv, TrackerExact, LocalOK, TrkOK
<1>2. ASSUME NEW s \in Pkts, s < absBase PROVE s \in rcvd
  BY <1>1, <1>2 DEF Acked, Pkts
<1>3. ASSUME NEW i \in local.trk.inner PROVE absBase + i \in rcvd
  <2>1. absBase + i \in Nat /\ (absBase + i) - local.trk.base = i
    BY <1>1
  <2> QED BY <1>1, <2>1 DEF Acked
<1> QED BY <1>1, <1>2, <1>3 DEF NeverAckUnreceived, CompletionToldTheBase

\* So does the exactness of the base.
LEMMA IInvExact == IInv => BaseIsFirstMissing
<1> SUFFICES ASSUME IInv, headers = {} PROVE absBase = FirstMissing
  BY DEF BaseIsFirstMissing
<1> DEFINE b == absBase
           Gap(s) == s \notin rcvd /\ \A x \in 0 .. s - 1 : x \in rcvd
<1>1. /\ b = local.trk.base /\ b \in 0 .. NumPkts
      /\ 0 \notin local.trk.inner /\ rcvd \subseteq Nat
      /\ \A s \in Nat : Acked(local.trk, s) <=> s \in rcvd
  BY DEF IInv, TrackerExact, LocalOK, TrkOK, Received, Pkts
<1>2. Gap(b)
  BY <1>1 DEF Acked
<1>3. ASSUME NEW s \in 0 .. NumPkts, Gap(s) PROVE s = b
  BY <1>1, <1>2, <1>3
<1>4. FirstMissing = CHOOSE s \in 0 .. NumPkts : Gap(s)
  BY DEF FirstMissing
<1> HIDE DEF Gap
<1> QED BY <1>1, <1>2, <1>3, <1>4

\* Nothing is forgotten by a step after which what was acknowledged still is.
LEMMA GrowsForgetsNothing ==
    ASSUME IInv, IInv', AckedGrows PROVE AckedPkts \subseteq AckedPkts'
<1> DEFINE T == local.trk
<1>1. /\ absBase = T.base /\ T.base \in Nat /\ T.inner \subseteq Nat
      /\ absBase' = T'.base /\ T'.base \in Nat /\ T'.inner \subseteq Nat
  BY DEF IInv, TrackerExact, LocalOK, TrkOK
<1>2. \A s : s \in AckedPkts <=> (s \in Nat /\ Acked(T, s))
  BY <1>1 DEF AckedPkts, Acked
<1>3. \A s : s \in AckedPkts' <=> (s \in Nat /\ Acked(T', s))
  BY <1>1 DEF AckedPkts, Acked
<1> QED BY <1>2, <1>3 DEF AckedGrows

------------------------------------------------------------------------------
\* For every stream shorter than half the Psn space, every bitmap width and
\* every order of header and bitmap reports, the variables of the receive path
\* keep their types: no handler of MetaHandler moves a base or a psn_pre outside
\* the Psn space or sets a bit before the base.
THEOREM TypeCorrect == ASSUME NoWrap PROVE Spec => []TypeOK
<1>1. Init => IInv
  BY InitIInv
<1>2. IInv /\ [Next]_vars => IInv'
  BY NextIInv
<1>3. IInv => TypeOK
  BY IInvTypeOK
<1> QED BY <1>1, <1>2, <1>3, PTL DEF Spec

\* The tracker claims only packets the NIC has received: AckOne, AckRange, AckBitmap
\* and the local NAK's bitmap never set the bit of another packet (packet_tracker.rs).
THEOREM AcksAreTrue == ASSUME NoWrap PROVE Spec => []NeverAckUnreceived
<1>1. Init => IInv
  BY InitIInv
<1>2. IInv /\ [Next]_vars => IInv'
  BY NextIInv
<1>3. IInv => NeverAckUnreceived
  BY IInvSafe
<1> QED BY <1>1, <1>2, <1>3, PTL DEF Spec

\* The completion worker has always been told the tracker's base: no handler moves
\* the base without sending the new one.
THEOREM BaseIsTold == ASSUME NoWrap PROVE Spec => []CompletionToldTheBase
<1>1. Init => IInv
  BY InitIInv
<1>2. IInv /\ [Next]_vars => IInv'
  BY NextIInv
<1>3. IInv => CompletionToldTheBase
  BY IInvSafe
<1> QED BY <1>1, <1>2, <1>3, PTL DEF Spec

\* When every report has been handled the tracker's base is the first packet
\* missing.
THEOREM AcksAreExact == ASSUME NoWrap PROVE Spec => []BaseIsFirstMissing
<1>1. Init => IInv
  BY InitIInv
<1>2. IInv /\ [Next]_vars => IInv'
  BY NextIInv
<1>3. IInv => BaseIsFirstMissing
  BY IInvExact
<1> QED BY <1>1, <1>2, <1>3, PTL DEF Spec

\* No handler forgets a packet acknowledged before.
THEOREM NothingForgotten == ASSUME NoWrap PROVE Spec => AcksAreNeverForgotten
<1>1. Init => IInv
  BY InitIInv
<1>2. IInv /\ [Next]_vars => IInv'
  BY NextIInv
<1>3. IInv /\ IInv' /\ [Next]_vars => [AckedPkts \subseteq AckedPkts']_vars
  BY NextIInv, GrowsForgetsNothing
<1> QED BY <1>1, <1>2, <1>3, PTL DEF Spec, AcksAreNeverForgotten

==============================================================================
