---------------------------- MODULE MessageTracker ----------------------------
(***************************************************************************)
(* The completion worker's view of one queue pair (workers/completion.rs): *)
(* which messages are waiting for their last packet to be acknowledged, in *)
(* what order they complete, and which completions they give.              *)
(*                                                                         *)
(* A send event is [msn, end, op, id] with op in {"write", "send", "read"} *)
(* and id the work request's wr_id; a receive event is [msn, end, op, ack, *)
(* id] with op in {"write", "writeImm", "send", "sendImm", "readResp",     *)
(* "read"}.  The id of a receive event, the work request at the peer that  *)
(* the message belongs to, stands for the message's contents.              *)
(***************************************************************************)
EXTENDS Psn, SequencesExt

\* MessageTracker<E> is [inner, base].
NewMessageTracker == [inner |-> <<>>, base |-> 0]

\* Mutant of Insert: at the end, as if messages always came in order.
InsertAtEnd(t, e) == [t EXCEPT !.inner = Append(@, e)]

\* MessageTracker::append: behind the last event with a smaller msn, unless the
\* event that follows has this very msn.
Insert(t, e) ==
    LET at == SelectLastInSeq(t.inner, LAMBDA x : MsnLT(x.msn, e.msn)) + 1
    IN  IF at <= Len(t.inner) /\ t.inner[at].msn = e.msn
        THEN t
        ELSE [t EXCEPT !.inner = InsertAt(@, at, e)]

\* Mutants of AckAndPop: the base is not looked at; the events are read, not taken.
AckAndPopAll(t, base) ==
    [t |-> [inner |-> <<>>, base |-> base], popped |-> t.inner]
AckAndPeek(t, base) ==
    [t |-> [t EXCEPT !.base = base],
     popped |-> SelectSeq(t.inner, LAMBDA x : PsnLE(x.end, base))]

\* MessageTracker::ack, then pop until it answers None.
AckAndPop(t, base) ==
    LET open == SelectInSeq(t.inner, LAMBDA x : ~PsnLE(x.end, base))
        n    == IF open = 0 THEN Len(t.inner) ELSE open - 1
    IN  [t |-> [inner |-> SubSeq(t.inner, n + 1, Len(t.inner)), base |-> base],
         popped |-> SubSeq(t.inner, 1, n)]

------------------------------------------------------------------------------
(***************************************************************************)
(* QueuePairMessageTracker with its MergeQueue.                            *)
(***************************************************************************)
NewQpTracker ==
    [send |-> NewMessageTracker, recv |-> NewMessageTracker, postRecv |-> <<>>,
     mergeSend |-> <<>>, mergeRecv |-> <<>>, mergeReadResp |-> <<>>]

AppendSend(q, e) == [q EXCEPT !.send = Insert(@, e)]
AppendRecv(q, e) == [q EXCEPT !.recv = Insert(@, e)]
AppendPostRecv(q, id) == [q EXCEPT !.postRecv = Append(@, id)]

AckSend(q, base) ==
    LET a == AckAndPop(q.send, base)
    IN  [q EXCEPT !.send = a.t, !.mergeSend = @ \o a.popped]

IsReadResp(e) == e.op = "readResp"
IsNotReadResp(e) == e.op # "readResp"

AckRecv(q, base) ==
    LET a == AckAndPop(q.recv, base)
    IN  [q EXCEPT !.recv          = a.t,
                  !.mergeRecv     = @ \o SelectSeq(a.popped, IsNotReadResp),
                  !.mergeReadResp = @ \o SelectSeq(a.popped, IsReadResp)]

\* Mutants of PollSend: a read does not wait for its response; what is behind a read
\* does not wait for it.
PollSendAll(q) ==
    [q |-> [q EXCEPT !.mergeSend = <<>>], events |-> q.mergeSend]
PollSendOvertakes(q) ==
    LET reads == SelectSeq(q.mergeSend, LAMBDA e : e.op = "read")
        r     == Min({Len(reads), Len(q.mergeReadResp)})
    IN  [q      |-> [q EXCEPT !.mergeSend     = SubSeq(reads, r + 1, Len(reads)),
                              !.mergeReadResp = SubSeq(@, r + 1, Len(@))],
         events |-> SelectSeq(q.mergeSend, LAMBDA e : e.op # "read") \o SubSeq(reads, 1, r)]

(***************************************************************************)
(* poll_send_completion until it answers None: a read at the front of the  *)
(* queue takes one read response or holds back everything behind it.       *)
(***************************************************************************)
Reads(s, n) == Cardinality({i \in 1 .. n : s[i].op = "read"})

PollSend(q) ==
    LET n == Max({k \in 0 .. Len(q.mergeSend) :
                    Reads(q.mergeSend, k) <= Len(q.mergeReadResp)})
        r == Reads(q.mergeSend, n)
    IN  [q      |-> [q EXCEPT !.mergeSend     = SubSeq(@, n + 1, Len(@)),
                              !.mergeReadResp = SubSeq(@, r + 1, Len(@))],
         events |-> SubSeq(q.mergeSend, 1, n)]

(***************************************************************************)
(* poll_recv_completion until it answers None.  A send takes the work      *)
(* request at the BACK of post_recv_queue; without one the worker panics.  *)
(***************************************************************************)
\* Mutant of TakesPostRecv: a write with immediate data takes one too.
TakesPostRecvImm(e) == e.op \in {"send", "sendImm", "writeImm"}

TakesPostRecv(e) == e.op \in {"send", "sendImm"}

RecvTaken(q, n) == Cardinality({i \in 1 .. n : TakesPostRecv(q.mergeRecv[i])})

NoPostedRecv(q) == RecvTaken(q, Len(q.mergeRecv)) > Len(q.postRecv)

RecvCompletion(q, i) ==
    LET e == q.mergeRecv[i]
    IN  CASE TakesPostRecv(e)    -> <<[op |-> "recv", of |-> e.id,
                                       id |-> q.postRecv[Len(q.postRecv) + 1 - RecvTaken(q, i)]]>>
          [] e.op = "writeImm"   -> <<[op |-> "recvImm", of |-> e.id, id |-> 0]>>
          [] OTHER               -> <<>>

PollRecv(q) ==
    [q      |-> [q EXCEPT !.mergeRecv = <<>>,
                          !.postRecv  = SubSeq(@, 1, Len(@) - RecvTaken(q, Len(q.mergeRecv)))],
     events |-> q.mergeRecv,
     done   |-> FlattenSeq([i \in 1 .. Len(q.mergeRecv) |-> RecvCompletion(q, i)])]
==============================================================================
