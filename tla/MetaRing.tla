------------------------------- MODULE MetaRing -------------------------------
(***************************************************************************)
(* The rings the card writes its reports to, and the MetaWorker that polls *)
(* them: try_recv_meta and MetaReportQueue (workers/meta_report/types.rs)  *)
(* over DescRingBuffer (ringbuf/desc.rs) and DmaRingBuf.                   *)
(*                                                                         *)
(* The card (external) writes a report of one or two descriptors.  The     *)
(* last byte of a descriptor holds its valid bit and is written last; the  *)
(* host reads 32 bytes without any lock, so what it reads first can be the *)
(* old body with the new flags.  It frees a slot by zeroing it and then    *)
(* moving the tail register, which the card respects.                      *)
(***************************************************************************)
EXTENDS DmaRing

CONSTANTS NumQueues,   \* 4
          Ids          \* reports of queue q are numbered modulo Ids[q]; more than fit
                       \* into the ring tell every lost or repeated report from the next

ASSUME MetaAssumption ==
    /\ NumQueues \in Nat \ {0}
    /\ Ids \in [0 .. NumQueues - 1 -> Nat \ {0}]
    /\ RING_BUF_LEN >= 2

Queues == 0 .. NumQueues - 1

VARIABLES rings,     \* the host's DmaRingBuf of each queue
          csrHead,   \* each queue's head register, the card's own pointer
          csrTail,   \* each queue's tail register, written by the host
          card,      \* the report the card is writing to each queue
          pos,       \* MetaReportQueueHandler.pos
          host,      \* where the MetaWorker is in try_recv_meta, and what it has read
          wanted     \* history: the number of the next report of each queue

vars == <<rings, csrHead, csrTail, card, pos, host, wanted>>

\* The body of a descriptor: the report's number, whether it is its second half and
\* whether a second half follows (has_next).
Body == [id : Nat, part : {0, 1}, next : BOOLEAN]
Desc(b, v) == [body |-> b, valid |-> v]
Descs == [body : Body, valid : BOOLEAN]

IsValid(d) == d # Zeroed /\ d.valid
HasNext(d) == d # Zeroed /\ d.valid /\ d.body.next

Idle == [pc |-> "poll", i |-> 0, first |-> Zeroed, next |-> Zeroed]

Init ==
    /\ rings = [q \in Queues |-> NewRing]
    /\ csrHead = [q \in Queues |-> 0]
    /\ csrTail = [q \in Queues |-> 0]
    /\ card = [q \in Queues |-> [id |-> 0, part |-> 0, pair |-> FALSE, writing |-> FALSE]]
    /\ pos = 0
    /\ host = Idle
    /\ wanted = [q \in Queues |-> 0]

------------------------------------------------------------------------------
(* The card *)

\* All but the last byte of the next descriptor.
CardWritesBody(q) ==
    /\ Distance(csrHead[q], csrTail[q]) < RING_BUF_LEN
    /\ ~card[q].writing
    /\ \E pair \in (IF card[q].part = 0 THEN BOOLEAN ELSE {FALSE}) :
        /\ rings' = [rings EXCEPT ![q].slots[Index(csrHead[q])] =
                Desc([id |-> card[q].id, part |-> card[q].part, next |-> pair], FALSE)]
        /\ card' = [card EXCEPT ![q].pair = pair, ![q].writing = TRUE]
    /\ UNCHANGED <<csrHead, csrTail, pos, host, wanted>>

\* Its last byte, and the head.
CardWritesFlags(q) ==
    /\ card[q].writing
    /\ rings' = [rings EXCEPT ![q].slots[Index(csrHead[q])].valid = TRUE]
    /\ csrHead' = [csrHead EXCEPT ![q] = Inc(@)]
    /\ card' = [card EXCEPT ![q] =
                    IF @.pair THEN [@ EXCEPT !.part = 1, !.writing = FALSE]
                    ELSE [id |-> (@.id + 1) % Ids[q], part |-> 0, pair |-> FALSE, writing |-> FALSE]]
    /\ UNCHANGED <<csrTail, pos, host, wanted>>

------------------------------------------------------------------------------
(* The MetaWorker *)

Polled == (pos + host.i) % NumQueues

FirstSlot(r) == r.slots[Index(r.tail)]
NextSlot(r) == r.slots[Index(r.tail + 1)]

\* pop_two's first reads, the bodies: they may be older than the flags.
ReadBodies ==
    /\ host.pc = "poll"
    /\ host' = [host EXCEPT !.pc = "check", !.first = FirstSlot(rings[Polled]),
                            !.next = NextSlot(rings[Polled])]
    /\ UNCHANGED <<rings, csrHead, csrTail, card, pos, wanted>>

\* How many descriptors pop_two takes, by the flags of the two slots.
Takes(first, next) ==
    CASE IsValid(first) /\ HasNext(first) /\ IsValid(next) -> 2
      [] IsValid(first) /\ ~HasNext(first) -> 1
      [] OTHER -> 0

TakesOf(r) == Takes(FirstSlot(r), NextSlot(r))

\* pop_two's match; with nothing to take, try_recv_meta looks at the next queue, and
\* after the last one the worker polls again.
CheckFlags ==
    /\ host.pc = "check"
    /\ LET n == TakesOf(rings[Polled])
       IN  host' = IF n = 0
                   THEN [Idle EXCEPT !.i = (host.i + 1) % NumQueues]
                   ELSE [host EXCEPT !.pc = IF n = 2 THEN "take two" ELSE "take one"]
    /\ UNCHANGED <<rings, csrHead, csrTail, card, pos, wanted>>

\* Mutant of ReadAgain: the values of the first reads are good enough.
ReadOnce(r) == [first |-> host.first, second |-> host.next]

\* read_and_advance reads the slots again, after the fence.
ReadAgain(r) == [first |-> FirstSlot(r), second |-> NextSlot(r)]

\* Mutant of Freed: the slot is not zeroed.
FreedNotZeroed(r, two) ==
    [r EXCEPT !.tail = IF two THEN Inc(Inc(@)) ELSE Inc(@)]

Freed(r, two) == IF two THEN Advance(Advance(r)) ELSE Advance(r)

Take ==
    /\ host.pc \in {"take one", "take two"}
    /\ LET q == Polled
           two == host.pc = "take two"
           v == ReadAgain(rings[q])
       IN  /\ host' = [host EXCEPT !.pc = "publish", !.first = v.first,
                                   !.next = IF two THEN v.second ELSE Zeroed]
           /\ rings' = [rings EXCEPT ![q] = Freed(@, two)]
           /\ wanted' = [wanted EXCEPT ![q] = (@ + 1) % Ids[q]]
    /\ UNCHANGED <<csrHead, csrTail, card, pos>>

\* Mutant of NextPos: polling always starts at the first queue.
NextPosFirst(q) == 0

NextPos(q) == (q + 1) % NumQueues

\* write_tail, read_head and the round robin of try_recv_meta
Publish ==
    /\ host.pc = "publish"
    /\ LET q == Polled
       IN  /\ csrTail' = [csrTail EXCEPT ![q] = rings[q].tail]
           /\ rings' = [rings EXCEPT ![q].head = csrHead[q]]
           /\ pos' = NextPos(q)
    /\ host' = Idle
    /\ UNCHANGED <<csrHead, card, wanted>>

Host == ReadBodies \/ CheckFlags \/ Take \/ Publish
Card(q) == CardWritesBody(q) \/ CardWritesFlags(q)

Next == Host \/ \E q \in Queues : Card(q)

Spec == Init /\ [][Next]_vars

\* The worker's thread polls for ever (SingleThreadPollingWorker); nothing is asked of the card.
FairSpec == Spec /\ WF_vars(Host)

------------------------------------------------------------------------------
\* The types of the rings, the registers and the worker's variables.
TypeOK ==
    /\ \A q \in Queues :
        /\ \A i \in Slots : rings[q].slots[i] \in Descs \cup {Zeroed}
        /\ {rings[q].head, rings[q].tail, csrHead[q], csrTail[q]} \subseteq Pointers
        /\ card[q] \in [id : 0 .. Ids[q] - 1, part : {0, 1}, pair : BOOLEAN, writing : BOOLEAN]
    /\ pos \in Queues
    /\ host.pc \in {"poll", "check", "take one", "take two", "publish"}
    /\ host.i \in Queues

\* What the worker takes from a queue is the report the card wrote after the one it
\* took before, whole: none is lost, repeated, torn or split, and a pair comes with
\* its own second half.
TakesNextReport ==
    host.pc = "publish" =>
        LET id == (wanted[Polled] - 1) % Ids[Polled]
            part(p, n) == Desc([id |-> id, part |-> p, next |-> n], TRUE)
        IN  \/ host.first = part(0, FALSE) /\ host.next = Zeroed
            \/ host.first = part(0, TRUE) /\ host.next = part(1, FALSE)

\* The card never finds a slot it may write to occupied: the worker has zeroed it
\* before it moved the tail register.  Only the slot the card is writing to may hold
\* a body.
FreeSlotsAreZeroed ==
    \A q \in Queues : \A k \in 1 .. RING_BUF_LEN - Distance(csrHead[q], csrTail[q]) :
        LET d == rings[q].slots[Index(csrHead[q] + k - 1)]
        IN  d = Zeroed \/ (k = 1 /\ card[q].writing)

\* A report waiting in any queue is taken, however busy the other queues are: the
\* round robin starves none.
NoQueueStarves ==
    \A q \in Queues : TakesOf(rings[q]) > 0 ~> Polled = q /\ host.pc = "publish"
==============================================================================
