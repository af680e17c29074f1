----------------------------- MODULE RecvTracking -----------------------------
(***************************************************************************)
(* How a node learns which packets of a queue pair it has received: the    *)
(* NIC (external) reports packet headers and its sliding receive bitmap in *)
(* the meta report queues, and MetaHandler feeds them to the queue pair's  *)
(* LocalAckTracker and tells the completion worker the new base.           *)
(*                                                                         *)
(* Packets are named by their sequence number in the stream, 0, 1, 2 ...;  *)
(* on the wire packet s carries the Psn s % PSN_COUNT.                     *)
(*                                                                         *)
(* The NIC's bitmap is a window of BITMAP_WIDTH packets.  Its first stride *)
(* holds packet 0, so it starts BITMAP_WIDTH - STRIDE packets before that  *)
(* (remap_psn, with STRIDE = 16, turns the Psn of the stride in the        *)
(* descriptor into that of the window's left edge).  What leaves the       *)
(* window complete is reported as an ack, what leaves it with a hole as a  *)
(* nak with the bitmap before and after the slide.  The bitmap reports of  *)
(* one queue pair are delivered in order; headers, spread over the four    *)
(* meta report queues, in any order.                                       *)
(***************************************************************************)
EXTENDS PsnTracker, Sequences

CONSTANTS NumPkts,      \* packets of the stream
          STRIDE,       \* the packets of the bitmap's first stride
          MaxReports,   \* bound on undelivered bitmap reports
          MaxLead       \* bound on how far apart two packets in play can be

ASSUME StreamAssumption ==
    /\ NumPkts \in Nat
    /\ STRIDE \in 1 .. BITMAP_WIDTH
    /\ MaxReports \in Nat
    /\ MaxLead \in Nat

VARIABLES rcvd,      \* the packets the NIC has received
          start,     \* the left edge of the NIC's bitmap
          win,       \* the packets whose bit is set in it
          headers,   \* header reports not yet handled
          reports,   \* bitmap reports not yet handled
          local,     \* the LocalAckTracker
          absBase,   \* history: the packet local.trk.base stands for
          told       \* the base_psn of the last AckRecv sent to the completion worker

vars == <<rcvd, start, win, headers, reports, local, absBase, told>>

Pkts == 0 .. NumPkts - 1
PsnOf(s) == s % PSN_COUNT

\* The bits of a report on the window that starts at st.
Bits(st, w) == {s - st : s \in {x \in w : st <= x /\ x < st + BITMAP_WIDTH}}

\* A report of the bitmap at its left edge `to'.  `from', the left edge at the
\* report before, is in the descriptor of a nak only; the packets that from and to
\* name are carried as Psns.
AckReport(from, to, w) ==
    [type |-> "ack", from |-> from, to |-> to, now |-> PsnOf(to), nowBits |-> Bits(to, w)]

NakReport(from, fromW, to, w) ==
    [type |-> "nak", from |-> from, to |-> to,
     pre |-> PsnOf(from), preBits |-> Bits(from, fromW),
     now |-> PsnOf(to), nowBits |-> Bits(to, w)]

------------------------------------------------------------------------------
Init ==
    /\ rcvd = {}
    /\ start = STRIDE - BITMAP_WIDTH
    /\ win = {}
    /\ headers = {}
    /\ reports = <<>>
    /\ local = NewLocal
    /\ absBase = 0
    /\ told = 0

\* The packets that may arrive: retransmitted, late or ahead of the others, but
\* never more than MaxLead away from the base, from the right edge of the bitmap
\* or from a report that is still to be handled.
InPlay == {absBase, start + BITMAP_WIDTH} \cup headers
            \cup (IF reports = <<>> THEN {} ELSE {Head(reports).from})
OnWire == {s \in Pkts : \A x \in InPlay : x - s <= MaxLead /\ s - x <= MaxLead}

\* Packet s falls in the NIC's bitmap.
NicReceive(s, report) ==
    /\ start <= s /\ s < start + BITMAP_WIDTH
    /\ win' = win \cup {s}
    /\ reports' = IF report THEN Append(reports, AckReport(start, start, win')) ELSE reports
    /\ UNCHANGED start

\* Packet s lies beyond the bitmap, which slides to a left edge that takes it in.
NicSlide(s, new) ==
    /\ start + BITMAP_WIDTH <= s
    /\ s < new + BITMAP_WIDTH
    /\ start' = new
    /\ win' = {x \in win : x >= new} \cup {s}
    /\ LET lost == \E x \in Pkts \ win : start <= x /\ x < new
       IN  reports' = Append(reports, IF lost THEN NakReport(start, win, new, win')
                                              ELSE AckReport(start, new, win'))

\* Packet s was already left behind by the bitmap: only its header is reported.
NicStale(s) ==
    /\ s < start
    /\ UNCHANGED <<start, win, reports>>

Nic ==
    /\ Len(reports) < MaxReports
    /\ \E s \in OnWire :
          /\ \/ \E report \in BOOLEAN : NicReceive(s, report)
             \/ \E new \in start + 1 .. s : NicSlide(s, new)
             \/ NicStale(s)
          /\ rcvd' = rcvd \cup {s}
          /\ headers' = headers \cup {s}
    /\ UNCHANGED <<local, absBase, told>>

------------------------------------------------------------------------------
\* What every handler does with the result of the tracker.
Update(res) ==
    /\ local' = res.l
    /\ told' = IF res.ret # NoPsn THEN res.ret ELSE told
    /\ absBase' = absBase + PsnSub(res.l.trk.base, local.trk.base)

\* handle_header_write: the tracker's part of it.
HandleHeader ==
    /\ \E s \in headers :
          /\ headers' = headers \ {s}
          /\ Update(LocalAckOne(local, PsnOf(s)))
    /\ UNCHANGED <<rcvd, start, win, reports>>

\* handle_ack_local_hw
HandleAckLocalHw ==
    /\ reports # <<>>
    /\ Head(reports).type = "ack"
    /\ LET r == Head(reports)
       IN  Update(LocalAckBitmap(local, r.now, r.nowBits))
    /\ reports' = Tail(reports)
    /\ UNCHANGED <<rcvd, start, win, headers>>

\* handle_nak_local_hw
HandleNakLocalHw ==
    /\ reports # <<>>
    /\ Head(reports).type = "nak"
    /\ LET r == Head(reports)
       IN  Update(LocalNakBitmap(local, r.pre, r.preBits, r.now, r.nowBits))
    /\ reports' = Tail(reports)
    /\ UNCHANGED <<rcvd, start, win, headers>>

Next == Nic \/ HandleHeader \/ HandleAckLocalHw \/ HandleNakLocalHw

Spec == Init /\ [][Next]_vars

------------------------------------------------------------------------------
BitSets == SUBSET (0 .. BITMAP_WIDTH - 1)

Reports ==
    [type : {"ack"}, from : Int, to : Int, now : Psn, nowBits : BitSets]
      \cup [type : {"nak"}, from : Int, to : Int, pre : Psn, preBits : BitSets, now : Psn, nowBits : BitSets]

\* The type of every variable of the receive path.
TypeOK ==
    /\ rcvd \subseteq Pkts
    /\ start \in Int
    /\ win \subseteq rcvd
    /\ headers \subseteq rcvd
    /\ reports \in Seq(Reports)
    /\ local \in [trk : [base : Psn, inner : SUBSET Nat], psnPre : Psn]
    /\ absBase \in Nat
    /\ told \in Psn

\* handle_header_write, handle_ack_local_hw and handle_nak_local_hw never make
\* the tracker claim a packet the NIC has not received: neither below its base
\* (which is what AckRecv lets the completion worker complete and acknowledge)
\* nor by a bit of the bitmap.  A window report skipped, or a hole of a nak
\* report papered over by ack_range, breaks it.
NeverAckUnreceived ==
    /\ \A s \in Pkts : s < absBase => s \in rcvd
    /\ \A i \in local.trk.inner : absBase + i \in rcvd

\* The base_psn last sent to the completion worker is the tracker's base: no
\* advance goes untold and no stale value is told, whichever of the up to three
\* tracker calls of a handler moved the base.
CompletionToldTheBase == told = local.trk.base

\* When every report has been handled the base is the first packet missing: the
\* tracker forgets nothing it was told, in whatever order headers, acks and naks
\* came.  This is so until Psns wrap: rstart does not mask its difference, and a
\* header from beyond the wrap is dropped while the base is before it.
FirstMissing == CHOOSE s \in 0 .. NumPkts :
                   s \notin rcvd /\ \A x \in 0 .. s - 1 : x \in rcvd
BaseIsFirstMissing ==
    headers = {} /\ reports = <<>> /\ (\A s \in rcvd : s < PSN_COUNT) => absBase = FirstMissing

\* The base only moves forward, and a bit once set stays set until the base has
\* passed it, whatever mixture of ack_one, ack_range, ack_before and ack_bitmap
\* a handler makes of a report.
AckedPkts == (0 .. absBase - 1) \cup {absBase + i : i \in local.trk.inner}
AcksAreNeverForgotten == [][AckedPkts \subseteq AckedPkts']_vars
==============================================================================
