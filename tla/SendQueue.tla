------------------------------- MODULE SendQueue -------------------------------
(***************************************************************************)
(* The requester's side of one queue pair: the SendQueueContext that hands *)
(* out message and packet sequence numbers (rdma_utils/qp.rs), the queue   *)
(* of work requests kept for retransmission (workers/retransmit.rs) and    *)
(* the transport timer (workers/qp_timeout.rs).                            *)
(*                                                                         *)
(* A queued work request is [psn, n, msn, op, ack, id, resp]: its first    *)
(* Psn, its number of packets, its message number, its operation, whether  *)
(* it is signaled, its wr_id and, for a read, the packets of the response. *)
(***************************************************************************)
EXTENDS Psn, SequencesExt

CONSTANT INIT_RETRY     \* init_retry_count of AckTimeoutConfig

ASSUME RetryAssumption == INIT_RETRY \in Nat

------------------------------------------------------------------------------
NewSendCtx == [msn |-> 0, psn |-> 0, psnAcked |-> 0, msnAcked |-> 0]

\* Mutant of WindowOpen: the window of messages is not looked at.
WindowOpenPsnOnly(c, n) == PsnAdd(PsnSub(c.psn, c.psnAcked), n) <= MAX_PSN_WINDOW

\* next_wr answers Some: n more packets fit in the windows of packets and messages.
WindowOpen(c, n) ==
    /\ PsnAdd(PsnSub(c.psn, c.psnAcked), n) <= MAX_PSN_WINDOW
    /\ MsnSub(c.msn, c.msnAcked) < MAX_SEND_WR

\* What next_wr leaves behind.
NextWr(c, n) == [c EXCEPT !.msn = (@ + 1) % MSN_COUNT, !.psn = PsnAdd(@, n)]

------------------------------------------------------------------------------
NewSendQueue == [inner |-> <<>>, base |-> 0]

Push(q, wr) == [q EXCEPT !.inner = Append(@, wr)]

\* partition_point: the queue is sorted by Psn, and all of it lies in one window.
PartitionPoint(q, psn) == Cardinality({i \in DOMAIN q.inner : PsnLT(q.inner[i].psn, psn)})

\* Mutant of PopUntil: the request that psn lies in is dropped as well.
PopUntilAll(q, psn) ==
    [inner |-> SubSeq(q.inner, PartitionPoint(q, psn) + 1, Len(q.inner)), base |-> psn]

\* pop_until keeps the last request that starts before psn.
PopUntil(q, psn) ==
    LET a == PartitionPoint(q, psn)
    IN  [inner |-> SubSeq(q.inner, IF a = 0 THEN 1 ELSE a, Len(q.inner)), base |-> psn]

\* range: the requests that START in [low, high).
WrRange(q, low, high) ==
    SubSeq(q.inner, PartitionPoint(q, low) + 1, PartitionPoint(q, high))

\* The packets of a request: one for every Psn of it, cut by the NIC on the first
\* transmission and by WrPacketFragmenter on a retry.  A read, which has one Psn, is
\* fragmented by its length like a write when it is sent again.
PacketCount(wr, retry) == IF retry /\ wr.op = "read" THEN wr.resp ELSE wr.n
Packets(wr, retry) ==
    LET n == PacketCount(wr, retry)
    IN  {[psn |-> PsnAdd(wr.psn, i), msn |-> wr.msn, last |-> i = n - 1, op |-> wr.op,
          ack |-> wr.ack, id |-> wr.id, resp |-> wr.resp, retry |-> retry] : i \in 0 .. n - 1}

PacketsOf(wrs, retry) == UNION {Packets(wrs[i], retry) : i \in DOMAIN wrs}

\* RetransmitRange and RetransmitAll: the packets sent again.
RangePackets(q, low, high) ==
    {p \in PacketsOf(WrRange(q, low, high), TRUE) : ~PsnLT(p.psn, low) /\ PsnLT(p.psn, high)}

\* Mutant of AllPackets: the packet at the base is skipped as well.
AllPacketsPastBase(q) == {p \in PacketsOf(q.inner, TRUE) : PsnLT(q.base, p.psn)}

AllPackets(q) == {p \in PacketsOf(q.inner, TRUE) : ~PsnLT(p.psn, q.base)}

------------------------------------------------------------------------------
(***************************************************************************)
(* The TransportTimer of a queue pair with its outstanding_ack_req_cnt.    *)
(***************************************************************************)
NewTimer == [running |-> FALSE, retry |-> INIT_RETRY, outstanding |-> 0]

Restart(t) == [t EXCEPT !.running = TRUE, !.retry = INIT_RETRY]

\* The tasks NewAckReq, RecvMeta and Ack, n acknowledgements at once.
NewAckReq(t) == Restart([t EXCEPT !.outstanding = @ + 1])
RecvMeta(t)  == Restart(t)

\* Mutant of AckReqs: the timer is stopped by every acknowledgement.
AckReqsStop(t, n) ==
    IF n = 0 THEN t ELSE [t EXCEPT !.outstanding = @ - n, !.running = FALSE]

AckReqs(t, n) ==
    [t EXCEPT !.outstanding = @ - n,
              !.running = IF n > 0 /\ t.outstanding = n THEN FALSE ELSE @]

\* Mutant of GivesUp: one retry more, from a counter at zero.
GivesUpLate(t) == t.running /\ t.retry < 0

\* check_timeout answers Timeout; RetryLimitExceeded.
Expired(t) == [t EXCEPT !.retry = @ - 1]
GivesUp(t) == t.running /\ t.retry = 0
==============================================================================
