------------------------------ MODULE Fragmenter ------------------------------
(***************************************************************************)
(* How a work request is cut (rdma_utils/fragmenter.rs): into chunks of    *)
(* WR_CHUNK_SIZE for the card when it is first sent (WrChunkFragmenter),   *)
(* into packets when it is sent again (WrPacketFragmenter); and how many   *)
(* Psns are set aside for it (num_psn of rdma_utils/qp.rs).                *)
(*                                                                         *)
(* The two iterators run side by side over a request chosen at the start.  *)
(* The request begins with Psn 0; Psns wrap in Psn.                        *)
(***************************************************************************)
EXTENDS Integers, Sequences

CONSTANTS PMTU, WR_CHUNK_SIZE,
          MaxAddr, MaxLength    \* bounds on the request

ASSUME FragmenterAssumption ==
    /\ PMTU \in Nat \ {0}
    /\ WR_CHUNK_SIZE \in Nat \ {0} /\ WR_CHUNK_SIZE % PMTU = 0
    /\ MaxAddr \in Nat /\ MaxLength \in Nat

VARIABLES addr, length,   \* raddr and length of the request
          iter            \* for both fragmenters, the IntoIterChunk and what it has given

vars == <<addr, length, iter>>

Kinds == {"chunk", "packet"}
SegmentSize(k) == IF k = "chunk" THEN WR_CHUNK_SIZE ELSE PMTU

DivCeil(x, y) == (x + y - 1) \div y
AlignDown(x) == x - (x % PMTU)
SaturatingSub(x, y) == IF x > y THEN x - y ELSE 0

\* Mutant of NumSegments: the first segment is taken to be a full one.
NumSegmentsAligned(a, len, seg) == DivCeil(len, seg)

\* Fragmenter::num_segments: the first segment ends at an aligned address.
NumSegments(a, len, seg) ==
    IF len = 0 THEN 0
    ELSE DivCeil(SaturatingSub(a + len, AlignDown(a + seg)), seg) + 1

NewIter(a, len, seg) ==
    LET n == NumSegments(a, len, seg)
    IN  [addr |-> a, count |-> n, psn |-> 0, out |-> <<>>,
         pos |-> IF n = 1 THEN "only" ELSE "first"]

Init ==
    /\ addr \in 0 .. MaxAddr
    /\ length \in 0 .. MaxLength
    /\ iter = [k \in Kinds |-> NewIter(addr, length, SegmentSize(k))]

\* Mutant of NextPos: a segment is the last one when none is left.
NextPosLate(count, pos) ==
    IF pos = "only" THEN "only" ELSE IF count = 0 \/ pos = "last" THEN "last" ELSE "middle"

NextPos(count, pos) ==
    IF pos = "only" THEN "only" ELSE IF count = 1 \/ pos = "last" THEN "last" ELSE "middle"

\* Mutant of NumPackets: an incomplete packet has no Psn.
NumPacketsFloor(len) == len \div PMTU

NumPackets(len) == DivCeil(len, PMTU)

\* IntoIterChunk::next, with the Fragmenter's next
FragmentNext(k) ==
    LET it  == iter[k]
        end == IF AlignDown(it.addr + SegmentSize(k)) < addr + length
               THEN AlignDown(it.addr + SegmentSize(k)) ELSE addr + length
        len == end - it.addr
    IN  /\ it.count > 0
        /\ iter' = [iter EXCEPT ![k] =
                [addr  |-> end,
                 count |-> it.count - 1,
                 psn   |-> it.psn + NumPackets(len),
                 out   |-> Append(it.out, [addr |-> it.addr, len |-> len, pos |-> it.pos,
                                           psn |-> it.psn]),
                 pos   |-> NextPos(it.count - 1, it.pos)]]
        /\ UNCHANGED <<addr, length>>

Next == \E k \in Kinds : FragmentNext(k)

Spec == Init /\ [][Next]_vars

\* Mutant of NumPsn: one too many.
NumPsnPlusOne(a, len) == (len \div PMTU) + 1

\* num_psn: what lies before the first aligned address is taken off, and not counted.
NumPsn(a, len) ==
    LET gap == AlignDown(a + PMTU - 1) - a
    IN  DivCeil(IF gap <= len THEN len - gap ELSE len, PMTU)

------------------------------------------------------------------------------
Out(k) == iter[k].out
Done(k) == iter[k].count = 0

\* The fragments of a request are nonempty and follow each other without a gap or an
\* overlap from its first byte, and when the iterator ends they have reached the last:
\* the number of segments computed beforehand is the number that next needs.
FragmentsTile ==
    \A k \in Kinds :
        LET o == Out(k)
        IN  /\ \A i \in DOMAIN o :
                 /\ o[i].len > 0
                 /\ o[i].addr = (IF i = 1 THEN addr ELSE o[i-1].addr + o[i-1].len)
            /\ Done(k) => iter[k].addr = addr + length

\* The position a fragment carries, which makes the receiver register the message at
\* its last packet, is right: only the last fragment is marked as the last, and only
\* the first as the first.
PositionsAreRight ==
    \A k \in Kinds : Done(k) =>
        LET o == Out(k)
        IN  \A i \in DOMAIN o :
              o[i].pos = IF Len(o) = 1 THEN "only"
                         ELSE IF i = 1 THEN "first"
                         ELSE IF i = Len(o) THEN "last" ELSE "middle"

\* Packets sent again have consecutive Psns, and a chunk starts with the Psn of the
\* packet at the same address: a packet has the same bytes each time it is sent.
RetryHasSamePsns ==
    Done("packet") =>
        /\ \A j \in DOMAIN Out("packet") : Out("packet")[j].psn = j - 1
        /\ \A i \in DOMAIN Out("chunk") : \E j \in DOMAIN Out("packet") :
              /\ Out("chunk")[i].addr = Out("packet")[j].addr
              /\ Out("chunk")[i].psn = Out("packet")[j].psn

\* The Psns set aside by num_psn are as many as the packets of the request, so that
\* the next request starts behind them.
NumPsnIsRight == Done("packet") => NumPsn(addr, length) = Len(Out("packet"))

\* The same for a request that starts at a packet boundary or lies within one packet.
NumPsnIsRightIfAligned ==
    addr % PMTU = 0 \/ (addr % PMTU) + length < PMTU => NumPsnIsRight
==============================================================================
