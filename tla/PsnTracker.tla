------------------------------ MODULE PsnTracker ------------------------------
(***************************************************************************)
(* The acknowledgement trackers of rdma_utils/psn_tracker.rs, as functions *)
(* from a tracker to [t |-> the tracker afterwards, ret |-> the Option<Psn> *)
(* the method returns].                                                    *)
(*                                                                         *)
(* PsnTracker is [base, inner]: `base' is base_psn and `inner' the set of  *)
(* offsets from it whose bit is set.  The length of the bit vector is left *)
(* out: bits past its end and cleared bits mean the same to every method.  *)
(***************************************************************************)
EXTENDS Psn

CONSTANT BITMAP_WIDTH      \* bits of a hardware report: 128

ASSUME BitmapWidthAssumption == BITMAP_WIDTH \in Nat \ {0}

NewTracker == [base |-> 0, inner |-> {}]

(***************************************************************************)
(* rstart: the signed distance from the base to psn.  The subtraction is   *)
(* done on the u32s and NOT masked to 24 bits.  If bit 23 of it is set the *)
(* upper byte is filled with ones, giving d or d - 2^24 in -2^23 .. -1;    *)
(* otherwise the u32 is read as an i32, which for d < -2^23 is d itself    *)
(* and not d + 2^24.                                                       *)
(***************************************************************************)
RStart(t, psn) ==
    LET d == psn - t.base
    IN  IF d >= MAX_PSN_WINDOW THEN d - PSN_COUNT ELSE d

\* inner.shift_left(n)
ShiftLeft(inner, n) == {i - n : i \in {j \in inner : j >= n}}

\* inner.first_zero(), or the length when every bit is set.
FirstZero(inner) ==
    CHOOSE i \in 0 .. MAX_PSN_WINDOW + BITMAP_WIDTH :
        i \notin inner /\ \A j \in 0 .. i - 1 : j \in inner

TryAdvance(t) ==
    LET pos == FirstZero(t.inner)
        new == PsnAdd(t.base, pos)
    IN  IF pos = 0
        THEN [t |-> t, ret |-> NoPsn]
        ELSE [t |-> [base |-> new, inner |-> ShiftLeft(t.inner, pos)], ret |-> new]

\* ack_one
AckOne(t, psn) ==
    LET r == RStart(t, psn)
    IN  IF r < 0
        THEN [t |-> t, ret |-> NoPsn]
        ELSE TryAdvance([t EXCEPT !.inner = @ \cup {r}])

\* Mutant of AckBefore: the bits are cleared where they should be shifted.
AckBeforeClears(t, psn) ==
    IF RStart(t, psn) < 0
    THEN [t |-> t, ret |-> NoPsn]
    ELSE [t |-> [base |-> psn, inner |-> {}], ret |-> psn]

\* ack_before: moves the base without looking at the bits it lands on, and
\* answers Some even when the base does not move.
AckBefore(t, psn) ==
    LET r == RStart(t, psn)
    IN  IF r < 0
        THEN [t |-> t, ret |-> NoPsn]
        ELSE [t |-> [base |-> psn, inner |-> ShiftLeft(t.inner, r)], ret |-> psn]

\* ack_range: [low, high) is acknowledged; only the first form moves the base.
AckRange(t, low, high) ==
    LET rstart == RStart(t, low)
        rend   == RStart(t, high)
    IN  IF PsnLE(low, t.base)
        THEN AckBefore(t, high)
        ELSE IF rstart < 0 \/ rend < 0
             THEN [t |-> t, ret |-> NoPsn]
             ELSE [t |-> [t EXCEPT !.inner = @ \cup rstart .. rend - 1], ret |-> NoPsn]

\* Mutant of AckBitmap: the bits of the report are assigned to those of the tracker,
\* zeros included.
AckBitmapAssigns(t, now, bits) ==
    LET r == RStart(t, now)
    IN  TryAdvance([t EXCEPT !.inner = (@ \ (r .. r + BITMAP_WIDTH - 1))
                                         \cup {i \in {r + b : b \in bits} : i >= 0}])

\* ack_bitmap: `bits' is the set of bit numbers that are one in the u128.
AckBitmap(t, now, bits) ==
    LET r == RStart(t, now)
    IN  TryAdvance([t EXCEPT !.inner = @ \cup {i \in {r + b : b \in bits} : i >= 0}])

------------------------------------------------------------------------------
(***************************************************************************)
(* LocalAckTracker: what this node has received, [trk, psnPre].            *)
(***************************************************************************)
NewLocal == [trk |-> NewTracker, psnPre |-> 0]

\* Option::or
Or(x, y) == IF x # NoPsn THEN x ELSE y

LocalAckOne(l, psn) ==
    LET x == AckOne(l.trk, psn)
    IN  [l |-> [l EXCEPT !.trk = x.t], ret |-> x.ret]

\* Mutant of LocalAckBitmap: x.or(y) for y.or(x).
LocalAckBitmapStaleRet(l, now, bits) ==
    LET x == AckRange(l.trk, l.psnPre, now)
        y == AckBitmap(x.t, now, bits)
    IN  [l   |-> [trk    |-> y.t,
                  psnPre |-> IF PsnLT(l.psnPre, now) THEN now ELSE l.psnPre],
         ret |-> Or(x.ret, y.ret)]

LocalAckBitmap(l, now, bits) ==
    LET x == AckRange(l.trk, l.psnPre, now)
        y == AckBitmap(x.t, now, bits)
    IN  [l   |-> [trk    |-> y.t,
                  psnPre |-> IF PsnLT(l.psnPre, now) THEN now ELSE l.psnPre],
         ret |-> Or(y.ret, x.ret)]

\* Mutant of LocalNakBitmap: the range reaches over the hole of the nak.
LocalNakBitmapOverHole(l, pre, preBits, now, nowBits) ==
    LET x == AckRange(l.trk, l.psnPre, now)
        z == AckBitmap(x.t, now, nowBits)
    IN  [l |-> [trk |-> z.t, psnPre |-> now], ret |-> Or(z.ret, x.ret)]

LocalNakBitmap(l, pre, preBits, now, nowBits) ==
    LET x == AckRange(l.trk, l.psnPre, pre)
        y == AckBitmap(x.t, pre, preBits)
        z == AckBitmap(y.t, now, nowBits)
    IN  [l   |-> [trk    |-> z.t,
                  psnPre |-> IF PsnLT(l.psnPre, now) THEN now ELSE l.psnPre],
         ret |-> Or(Or(z.ret, y.ret), x.ret)]

(***************************************************************************)
(* RemoteAckTracker: what the peer has acknowledged, [trk, msnPre, psnPre]. *)
(***************************************************************************)
NewRemote == [trk |-> NewTracker, msnPre |-> 0, psnPre |-> 0]

RemoteAckBefore(m, psn) ==
    LET x == AckBefore(m.trk, psn)
    IN  [m |-> [m EXCEPT !.trk = x.t], ret |-> x.ret]

\* Mutant of RemoteNakBitmap: everything before the second bitmap is acknowledged.
RemoteNakBitmapOverHole(m, msn, pre, preBits, now, nowBits) ==
    LET x == AckBefore(m.trk, now)
        z == AckBitmap(x.t, now, nowBits)
    IN  [m |-> [trk |-> z.t, msnPre |-> msn, psnPre |-> now], ret |-> Or(z.ret, x.ret)]

RemoteNakBitmap(m, msn, pre, preBits, now, nowBits) ==
    LET x == IF msn = (m.msnPre + 1) % MSN_COUNT
             THEN AckRange(m.trk, m.psnPre, pre)
             ELSE [t |-> m.trk, ret |-> NoPsn]
        y == AckBitmap(x.t, pre, preBits)
        z == AckBitmap(y.t, now, nowBits)
        newer == PsnLT(m.psnPre, now)
    IN  [m   |-> [trk    |-> z.t,
                  msnPre |-> IF newer THEN msn ELSE m.msnPre,
                  psnPre |-> IF newer THEN now ELSE m.psnPre],
         ret |-> Or(Or(z.ret, y.ret), x.ret)]
==============================================================================
