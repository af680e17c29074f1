------------------------------- MODULE Transport -------------------------------
(***************************************************************************)
(* The reliable transport between two nodes, one queue pair on each: the   *)
(* verbs thread, RdmaWriteWorker, CompletionWorker, PacketRetransmitWorker,*)
(* QpAckTimeoutWorker and MetaWorker of each node with the FIFO channels   *)
(* between them, over NICs and a network that lose and reorder packets.    *)
(*                                                                         *)
(* A step is one task of one worker.  Three threads have no step of their  *)
(* own.  The timeout worker drains its channel at every poll before it     *)
(* looks at its timers, so a task sent to it counts as done when sent.     *)
(* AckResponder and the send workers only pass frames and packets on to a  *)
(* NIC and a network that reorder them anyway.                             *)
(*                                                                         *)
(* The stream is shorter than a Psn window here; RecvTracking looks at     *)
(* what happens when Psns wrap.                                            *)
(***************************************************************************)
EXTENDS PsnTracker, SendQueue, MessageTracker

CONSTANTS STRIDE,      \* see RecvTracking
          Envs         \* what the applications, the network and the clocks may do: a
                       \* set of records, of which Init takes any

Node == {"a", "b"}
Peer(n) == CHOOSE m \in Node : m # n

Ops == {"write", "writeImm", "send", "sendImm", "read"}

\* An environment: for each node the work requests its application posts and the
\* number of receives; the nodes whose local_ack_timeout is not 0; whether
\* applications pause between two posts; the bounds on lost packets and frames and
\* on timeouts with an answer still under way.
ASSUME TransportAssumption ==
    /\ STRIDE \in 1 .. BITMAP_WIDTH
    /\ \A e \in Envs :
          /\ \A n \in Node : e.wrs[n] \in Seq([op : Ops, n : Nat, ack : BOOLEAN, resp : Nat])
          /\ \A n \in Node : e.recvs[n] \in Nat
          /\ e.timersOn \subseteq Node
          /\ e.postsLate \in BOOLEAN
          /\ e.maxLoss \in Nat /\ e.maxEarly \in Nat

VARIABLES env,     \* the environment
          app,     \* per node: [sends, recvs] posted; `credits', the peer's posted receives;
                   \* and (history) the signaled requests `dropped' by a full window
          rdma, comp, retr,   \* per node: the channels of three workers
          sq,      \* per node: SendQueueContext
          rq,      \* per node: IbvSendQueue of the retransmit worker
          timer,   \* per node: transport timer
          snd,     \* per node: RemoteAckTracker of the MetaHandler
          rcv,     \* per node: LocalAckTracker of the MetaHandler
          trk,     \* per node: QueuePairMessageTracker
          cq,      \* per node: history of the completions pushed
          nic,     \* per node: receive window of the NIC, and (history) the packets it received
          meta,    \* per node: header and ack reports, not yet handled, in any order
          bits,    \* per node: bitmap reports, not yet handled, in order
          wire,    \* packets and frames in flight, with their destination
          panic,   \* per node: the panic that has ended a worker
          loss, early

nodeVars == <<app, rdma, comp, retr, sq, rq, timer, snd, rcv, trk, cq, nic, meta, bits>>
vars == <<env, nodeVars, wire, panic, loss, early>>

Wrs(n) == env.wrs[n]

Init ==
    /\ env \in Envs
    /\ app = [n \in Node |-> [sends |-> 0, recvs |-> 0, credits |-> 0, dropped |-> 0]]
    /\ rdma = [n \in Node |-> <<>>] /\ comp = [n \in Node |-> <<>>]
    /\ retr = [n \in Node |-> <<>>]
    /\ sq = [n \in Node |-> NewSendCtx] /\ rq = [n \in Node |-> NewSendQueue]
    /\ timer = [n \in Node |-> NewTimer]
    /\ snd = [n \in Node |-> NewRemote] /\ rcv = [n \in Node |-> NewLocal]
    /\ trk = [n \in Node |-> NewQpTracker]
    /\ cq = [n \in Node |-> <<>>]
    /\ nic = [n \in Node |-> [start |-> STRIDE - BITMAP_WIDTH, win |-> {}, rcvd |-> {}, naks |-> 0]]
    /\ meta = [n \in Node |-> {}] /\ bits = [n \in Node |-> <<>>]
    /\ wire = {}
    /\ panic = [n \in Node |-> "none"]
    /\ loss = 0 /\ early = 0

\* A worker that panics takes every worker that sends to it along: a node whose
\* timeout worker has panicked runs until one of the others sends it a task.
Alive(n) == panic[n] \in {"none", "retry limit"}
TimerAlive(n) == panic[n] = "none"

Send(ch, n, msgs) == ch' = [ch EXCEPT ![n] = @ \o msgs]
Take(ch, n) == ch' = [ch EXCEPT ![n] = Tail(@)]
HeadIs(ch, n, type) == ch[n] # <<>> /\ Head(ch[n]).type = type
Transmit(n, pkts) == wire' = wire \cup {[kind |-> "packet", to |-> Peer(n), pkt |-> p] : p \in pkts}

------------------------------------------------------------------------------
(***************************************************************************)
(* The verbs thread.                                                       *)
(***************************************************************************)

\* post_send.  A send needs a receive the peer has posted (otherwise ctx.send
\* has no work request to write to: receiver not ready is not implemented).
PostSend(n) ==
    LET wr == Wrs(n)[app[n].sends + 1]
        credit == IF wr.op \in {"send", "sendImm"} THEN 1 ELSE 0
    IN  /\ Alive(n)
        /\ app[n].sends < Len(Wrs(n))
        /\ app[n].credits >= credit
        /\ app' = [app EXCEPT ![n].sends = @ + 1, ![n].credits = @ - credit]
        /\ Send(rdma, n, <<[type |-> "write", op |-> wr.op, n |-> wr.n, ack |-> wr.ack,
                            resp |-> wr.resp, id |-> app[n].sends + 1]>>)
        /\ UNCHANGED <<comp, retr, sq, rq, timer, snd, rcv, trk, cq, nic, meta, bits, wire, panic, loss, early>>

\* post_recv
PostRecv(n) ==
    /\ Alive(n)
    /\ app[n].recvs < env.recvs[n]
    /\ app' = [app EXCEPT ![n].recvs = @ + 1, ![Peer(n)].credits = @ + 1]
    /\ Send(comp, n, <<[type |-> "postRecv", id |-> app[n].recvs + 1]>>)
    /\ UNCHANGED <<rdma, retr, sq, rq, timer, snd, rcv, trk, cq, nic, meta, bits, wire, panic, loss, early>>

------------------------------------------------------------------------------
(***************************************************************************)
(* RdmaWriteWorker.                                                        *)
(***************************************************************************)
SendEventOp(op) == CASE op \in {"write", "writeImm"} -> "write"
                     [] op \in {"send", "sendImm"}   -> "send"
                     [] OTHER                        -> "read"

\* write and rdma_read.  A request that does not fit in the window is dropped.
\* A signaled request without packets is registered, and then forgotten.
RdmaWrite(n) ==
    /\ Alive(n) /\ HeadIs(rdma, n, "write")
    /\ LET t    == Head(rdma[n])
           wr   == [psn |-> sq[n].psn, n |-> t.n, msn |-> sq[n].msn, op |-> t.op,
                    ack |-> t.ack, id |-> t.id, resp |-> t.resp]
           fits == WindowOpen(sq[n], t.n)
           sent == fits /\ (t.ack => t.n > 0)
           event == [type |-> "send", msn |-> wr.msn, end |-> PsnAdd(wr.psn, t.n),
                     op |-> SendEventOp(t.op), id |-> t.id]
       IN  /\ sent /\ t.ack => TimerAlive(n)
           /\ sq' = IF fits THEN [sq EXCEPT ![n] = NextWr(@, t.n)] ELSE sq
           /\ app' = IF t.ack /\ ~fits THEN [app EXCEPT ![n].dropped = @ + 1] ELSE app
           /\ Send(comp, n, IF fits /\ t.ack THEN <<event>> ELSE <<>>)
           /\ timer' = IF sent /\ t.ack THEN [timer EXCEPT ![n] = NewAckReq(@)] ELSE timer
           /\ Send(retr, n, IF sent THEN <<[type |-> "newWr", wr |-> wr]>> ELSE <<>>)
           /\ Transmit(n, IF sent THEN Packets(wr, FALSE) ELSE {})
    /\ Take(rdma, n)
    /\ UNCHANGED <<rq, snd, rcv, trk, cq, nic, meta, bits, panic, loss, early>>

\* The tasks Ack and NewComplete.
RdmaAcked(n) ==
    /\ Alive(n) /\ (HeadIs(rdma, n, "ack") \/ HeadIs(rdma, n, "complete"))
    /\ LET t == Head(rdma[n])
       IN  sq' = IF t.type = "ack" THEN [sq EXCEPT ![n].psnAcked = t.psn]
                                   ELSE [sq EXCEPT ![n].msnAcked = t.msn]
    /\ Take(rdma, n)
    /\ UNCHANGED <<app, comp, retr, rq, timer, snd, rcv, trk, cq, nic, meta, bits, wire, panic, loss, early>>

------------------------------------------------------------------------------
(***************************************************************************)
(* CompletionWorker.                                                       *)
(***************************************************************************)
Register(n) ==
    /\ Alive(n)
    /\ HeadIs(comp, n, "send") \/ HeadIs(comp, n, "recv") \/ HeadIs(comp, n, "postRecv")
    /\ LET e == Head(comp[n])
       IN  trk' = [trk EXCEPT ![n] = CASE e.type = "send" -> AppendSend(@, e)
                                       [] e.type = "recv" -> AppendRecv(@, e)
                                       [] OTHER           -> AppendPostRecv(@, e.id)]
    /\ Take(comp, n)
    /\ UNCHANGED <<app, rdma, retr, sq, rq, timer, snd, rcv, cq, nic, meta, bits, wire, panic, loss, early>>

\* Send completions are pushed, and the timeout and write workers told.
Completed(n, events) ==
    /\ timer' = [timer EXCEPT ![n] = AckReqs(@, Len(events))]
    /\ Send(rdma, n, [i \in 1 .. Len(events) |-> [type |-> "complete", msn |-> events[i].msn]])

Completions(events) == [i \in 1 .. Len(events) |-> [op |-> events[i].op, id |-> events[i].id]]

CompleteSend(n) ==
    /\ Alive(n) /\ HeadIs(comp, n, "ackSend")
    /\ LET polled == PollSend(AckSend(trk[n], Head(comp[n]).psn))
       IN  /\ trk' = [trk EXCEPT ![n] = polled.q]
           /\ Send(cq, n, Completions(polled.events))
           /\ Completed(n, polled.events)
    /\ Take(comp, n)
    /\ UNCHANGED <<app, retr, sq, rq, snd, rcv, nic, meta, bits, wire, panic, loss, early>>

\* AckResponse::Ack, with the frame AckResponder makes of it.
AckFrame(n, psn) == [kind |-> "ack", to |-> Peer(n), now |-> psn]

CompleteRecv(n) ==
    /\ Alive(n) /\ HeadIs(comp, n, "ackRecv")
    /\ LET sent == PollSend(AckRecv(trk[n], Head(comp[n]).psn))
           got  == PollRecv(sent.q)
       IN  \/ /\ ~NoPostedRecv(sent.q)
              /\ trk' = [trk EXCEPT ![n] = got.q]
              /\ Send(cq, n, Completions(sent.events) \o got.done)
              /\ Completed(n, sent.events)
              /\ wire' = wire \cup {AckFrame(n, got.events[i].end) :
                                      i \in {j \in DOMAIN got.events : got.events[j].ack}}
              /\ UNCHANGED panic
           \/ /\ NoPostedRecv(sent.q)
              /\ panic' = [panic EXCEPT ![n] = "no posted recv wr"]
              /\ UNCHANGED <<trk, cq, timer, rdma, wire>>
    /\ Take(comp, n)
    /\ UNCHANGED <<app, retr, sq, rq, snd, rcv, nic, meta, bits, loss, early>>

------------------------------------------------------------------------------
(***************************************************************************)
(* PacketRetransmitWorker and QpAckTimeoutWorker.                          *)
(***************************************************************************)
Retransmit(n) ==
    /\ Alive(n) /\ retr[n] # <<>>
    /\ LET t == Head(retr[n])
       IN  \/ /\ t.type = "newWr"
              /\ rq' = [rq EXCEPT ![n] = Push(@, t.wr)]
              /\ UNCHANGED wire
           \/ /\ t.type = "ack"
              /\ rq' = [rq EXCEPT ![n] = PopUntil(@, t.psn)]
              /\ UNCHANGED wire
           \/ /\ t.type = "range"
              /\ Transmit(n, RangePackets(rq[n], t.low, t.high))
              /\ UNCHANGED rq
           \/ /\ t.type = "all"
              /\ Transmit(n, AllPackets(rq[n]))
              /\ UNCHANGED rq
    /\ Take(retr, n)
    /\ UNCHANGED <<app, rdma, comp, sq, timer, snd, rcv, trk, cq, nic, meta, bits, panic, loss, early>>

\* No worker has a task and nothing is in flight: only a timer can go off.
Quiet ==
    /\ wire = {}
    /\ \A n \in Node :
          /\ Alive(n) => rdma[n] = <<>> /\ comp[n] = <<>> /\ retr[n] = <<>>
          /\ Alive(n) => meta[n] = {} /\ bits[n] = <<>>
          /\ env.postsLate \/ app[n].sends = Len(Wrs(n))

\* maintainance.  The timeout interval is longer than an answer takes, except
\* maxEarly times; a node never gives up early.
Timeout(n) ==
    /\ TimerAlive(n) /\ n \in env.timersOn /\ timer[n].running
    /\ \/ Quiet /\ UNCHANGED early
       \/ ~Quiet /\ ~GivesUp(timer[n]) /\ early < env.maxEarly /\ early' = early + 1
    /\ \/ /\ GivesUp(timer[n])
          /\ panic' = [panic EXCEPT ![n] = "retry limit"]
          /\ UNCHANGED <<timer, retr>>
       \/ /\ ~GivesUp(timer[n])
          /\ timer' = [timer EXCEPT ![n] = Expired(@)]
          /\ Send(retr, n, <<[type |-> "all"]>>)
          /\ UNCHANGED panic
    /\ UNCHANGED <<app, rdma, comp, sq, rq, snd, rcv, trk, cq, nic, meta, bits, wire, loss>>

\* The channel of the timeout worker is closed: who sends to it panics.
SendToClosed(n) ==
    /\ panic[n] = "retry limit"
    /\ \/ meta[n] # {} \/ bits[n] # <<>>
       \/ HeadIs(rdma, n, "write") /\ Head(rdma[n]).ack
    /\ panic' = [panic EXCEPT ![n] = "closed channel"]
    /\ UNCHANGED <<nodeVars, wire, loss, early>>

------------------------------------------------------------------------------
(***************************************************************************)
(* The NICs and the network (external).                                    *)
(***************************************************************************)

\* The bits of the window at st, for the packets w received in it.
WindowBits(st, w) == {s - st : s \in {x \in w : st <= x /\ x < st + BITMAP_WIDTH}}

\* Packet p reaches the NIC of node n.  Beyond the window it makes the window
\* slide, which is reported to the driver, and to the peer if it leaves a hole.
NicReceive(n, p) ==
    LET c    == nic[n]
        s    == p.psn
        rcvd == c.rcvd \cup {[psn |-> s, op |-> p.op, id |-> p.id]}
        new  == s - BITMAP_WIDTH + 1
        win  == {x \in c.win : x >= new} \cup {s}
        hole == \E x \in c.start .. new - 1 : x >= 0 /\ x \notin c.win
        rep  == [pre |-> PsnSub(c.start, 0), preBits |-> WindowBits(c.start, c.win),
                 now |-> PsnSub(new, 0), nowBits |-> WindowBits(new, win)]
    IN  IF s >= c.start + BITMAP_WIDTH
        THEN [nic     |-> [start |-> new, win |-> win, rcvd |-> rcvd,
                           naks |-> IF hole THEN c.naks + 1 ELSE c.naks],
              reports |-> <<[type |-> IF hole THEN "nak" ELSE "ack", rep |-> rep]>>,
              frames  |-> IF hole THEN {[kind |-> "hwnak", to |-> Peer(n), msn |-> c.naks + 1, rep |-> rep]}
                                  ELSE {}]
        ELSE [nic     |-> [c EXCEPT !.rcvd = rcvd,
                                    !.win  = IF s >= c.start THEN @ \cup {s} ELSE @],
              reports |-> <<>>,
              frames  |-> {}]

DeliverPacket(n) ==
    /\ \E x \in wire :
          LET res == NicReceive(n, x.pkt)
          IN  /\ x.kind = "packet" /\ x.to = n
              /\ nic' = [nic EXCEPT ![n] = res.nic]
              /\ Send(bits, n, res.reports)
              /\ wire' = (wire \ {x}) \cup res.frames
              /\ meta' = [meta EXCEPT ![n] = @ \cup {x}]
    /\ UNCHANGED <<app, rdma, comp, retr, sq, rq, timer, snd, rcv, trk, cq, panic, loss, early>>

DeliverFrame(n) ==
    /\ \E x \in wire :
          /\ x.kind # "packet" /\ x.to = n
          /\ wire' = wire \ {x}
          /\ meta' = [meta EXCEPT ![n] = @ \cup {x}]
    /\ UNCHANGED <<app, rdma, comp, retr, sq, rq, timer, snd, rcv, trk, cq, nic, bits, panic, loss, early>>

Lose ==
    /\ loss < env.maxLoss
    /\ loss' = loss + 1
    /\ \E x \in wire : wire' = wire \ {x}
    /\ UNCHANGED <<env, nodeVars, panic, early>>

------------------------------------------------------------------------------
(***************************************************************************)
(* MetaWorker: one action for each kind of report.  Every report restarts  *)
(* the timer first (update_ack_timer).                                     *)
(***************************************************************************)
Reported(n, x) ==
    /\ x \in meta[n]
    /\ TimerAlive(n)
    /\ timer' = [timer EXCEPT ![n] = RecvMeta(@)]
    /\ meta' = [meta EXCEPT ![n] = @ \ {x}]
    /\ UNCHANGED bits

BitmapReported(n, type) ==
    /\ HeadIs(bits, n, type)
    /\ TimerAlive(n)
    /\ timer' = [timer EXCEPT ![n] = RecvMeta(@)]
    /\ Take(bits, n)
    /\ UNCHANGED meta

RecvEvent(p, op, ack) ==
    [type |-> "recv", msn |-> p.msn, end |-> PsnAdd(p.psn, 1), op |-> op, ack |-> ack, id |-> p.id]

TellAckRecv(psn) == IF psn # NoPsn THEN <<[type |-> "ackRecv", psn |-> psn]>> ELSE <<>>

\* Mutant of AnswersRetry: a retry counts as a duplicate, of no interest.
AnswersRetryNever(p) == FALSE

\* The last packet of a request, sent again, that asks for an acknowledgement.
AnswersRetry(p) == p.last /\ p.retry /\ p.ack

\* handle_header_write.  The last packet registers its message; a Nak with the
\* tracker's base answers a retry.
HandleHeaderWrite(n) ==
    /\ \E x \in meta[n] :
          LET p   == x.pkt
              res == LocalAckOne(rcv[n], p.psn)
              nak == [kind |-> "nak", to |-> Peer(n), pre |-> res.l.trk.base, now |-> p.psn]
          IN  /\ x.kind = "packet" /\ p.op # "read"
              /\ Reported(n, x)
              /\ rcv' = [rcv EXCEPT ![n] = res.l]
              /\ Send(comp, n, (IF p.last THEN <<RecvEvent(p, p.op, p.ack)>> ELSE <<>>)
                                 \o TellAckRecv(res.ret))
              /\ wire' = IF AnswersRetry(p) THEN wire \cup {nak} ELSE wire
    /\ UNCHANGED <<app, rdma, retr, sq, rq, snd, trk, cq, nic, panic, loss, early>>

\* handle_header_read: the packet is acknowledged only if the read is signaled;
\* every report of it, a retry's too, makes a response.
HandleHeaderRead(n) ==
    /\ \E x \in meta[n] :
          LET p   == x.pkt
              res == LocalAckOne(rcv[n], p.psn)
          IN  /\ x.kind = "packet" /\ p.op = "read"
              /\ Reported(n, x)
              /\ rcv' = IF p.ack THEN [rcv EXCEPT ![n] = res.l] ELSE rcv
              /\ Send(comp, n, IF p.ack THEN <<RecvEvent(p, "read", TRUE)>> \o TellAckRecv(res.ret)
                                        ELSE <<>>)
              /\ Send(rdma, n, <<[type |-> "write", op |-> "readResp", n |-> p.resp, ack |-> FALSE,
                                  resp |-> 0, id |-> p.id]>>)
    /\ UNCHANGED <<app, retr, sq, rq, snd, trk, cq, nic, wire, panic, loss, early>>

\* sender_updates and receiver_updates, if the tracker answered Some; `after' is
\* what the handler sends to the retransmit worker next.
SenderUpdates(n, psn, after) ==
    LET some == psn # NoPsn
    IN  /\ Send(comp, n, IF some THEN <<[type |-> "ackSend", psn |-> psn]>> ELSE <<>>)
        /\ Send(retr, n, (IF some THEN <<[type |-> "ack", psn |-> psn]>> ELSE <<>>) \o after)
        /\ Send(rdma, n, IF some THEN <<[type |-> "ack", psn |-> psn]>> ELSE <<>>)

ReceiverUpdates(n, psn) ==
    /\ Send(comp, n, TellAckRecv(psn))
    /\ Send(retr, n, IF psn # NoPsn THEN <<[type |-> "ack", psn |-> psn]>> ELSE <<>>)

HandleAckRemoteDriver(n) ==
    /\ \E x \in meta[n] :
          LET res == RemoteAckBefore(snd[n], x.now)
          IN  /\ x.kind = "ack"
              /\ Reported(n, x)
              /\ snd' = [snd EXCEPT ![n] = res.m]
              /\ SenderUpdates(n, res.ret, <<>>)
    /\ UNCHANGED <<app, sq, rq, rcv, trk, cq, nic, wire, panic, loss, early>>

HandleNakRemoteDriver(n) ==
    /\ \E x \in meta[n] :
          LET res == RemoteAckBefore(snd[n], x.pre)
          IN  /\ x.kind = "nak"
              /\ Reported(n, x)
              /\ snd' = [snd EXCEPT ![n] = res.m]
              /\ SenderUpdates(n, res.ret, <<[type |-> "range", low |-> x.pre, high |-> x.now]>>)
    /\ UNCHANGED <<app, sq, rq, rcv, trk, cq, nic, wire, panic, loss, early>>

HandleNakRemoteHw(n) ==
    /\ \E x \in meta[n] :
          LET res == RemoteNakBitmap(snd[n], x.msn, x.rep.pre, x.rep.preBits, x.rep.now, x.rep.nowBits)
          IN  /\ x.kind = "hwnak"
              /\ Reported(n, x)
              /\ snd' = [snd EXCEPT ![n] = res.m]
              /\ SenderUpdates(n, res.ret, <<[type |-> "range", low |-> x.rep.pre,
                                             high |-> PsnAdd(x.rep.now, BITMAP_WIDTH)]>>)
    /\ UNCHANGED <<app, sq, rq, rcv, trk, cq, nic, wire, panic, loss, early>>

HandleAckLocalHw(n) ==
    /\ BitmapReported(n, "ack")
    /\ LET rep == Head(bits[n]).rep
           res == LocalAckBitmap(rcv[n], rep.now, rep.nowBits)
       IN  /\ rcv' = [rcv EXCEPT ![n] = res.l]
           /\ ReceiverUpdates(n, res.ret)
    /\ UNCHANGED <<app, rdma, sq, rq, snd, trk, cq, nic, wire, panic, loss, early>>

HandleNakLocalHw(n) ==
    /\ BitmapReported(n, "nak")
    /\ LET rep == Head(bits[n]).rep
           res == LocalNakBitmap(rcv[n], rep.pre, rep.preBits, rep.now, rep.nowBits)
       IN  /\ rcv' = [rcv EXCEPT ![n] = res.l]
           /\ ReceiverUpdates(n, res.ret)
    /\ UNCHANGED <<app, rdma, sq, rq, snd, trk, cq, nic, wire, panic, loss, early>>

------------------------------------------------------------------------------
Meta(n) ==
    \/ HandleHeaderWrite(n) \/ HandleHeaderRead(n)
    \/ HandleAckRemoteDriver(n) \/ HandleNakRemoteDriver(n) \/ HandleNakRemoteHw(n)
    \/ HandleAckLocalHw(n) \/ HandleNakLocalHw(n)

Step(n) ==
    /\ \/ PostSend(n) \/ PostRecv(n)
       \/ RdmaWrite(n) \/ RdmaAcked(n)
       \/ Register(n) \/ CompleteSend(n) \/ CompleteRecv(n)
       \/ Retransmit(n) \/ Timeout(n) \/ SendToClosed(n)
       \/ DeliverPacket(n) \/ DeliverFrame(n)
       \/ Meta(n)
    /\ UNCHANGED env

Next == Lose \/ \E n \in Node : Step(n)

Spec == Init /\ [][Next]_vars

\* Some thread that has something to do does it.  This follows from the fairness of
\* the operating system to each of them, and is enough: with a bounded number of
\* losses there are no cycles.
FairSpec == Spec /\ WF_vars(Next)

------------------------------------------------------------------------------
\* The type of every variable of the two nodes.
TypeOK ==
    /\ \A n \in Node :
          /\ sq[n] \in [msn : Msn, psn : Psn, psnAcked : Psn, msnAcked : Msn]
          /\ rq[n].base \in Psn
          /\ timer[n] \in [running : BOOLEAN, retry : 0 .. INIT_RETRY, outstanding : Nat]
          /\ snd[n].trk.base \in Psn /\ rcv[n].trk.base \in Psn
          /\ nic[n].rcvd \subseteq [psn : Psn, op : Ops \cup {"readResp"}, id : Nat]
    /\ panic \in [Node -> {"none", "retry limit", "closed channel", "no posted recv wr"}]
    /\ loss \in 0 .. env.maxLoss /\ early \in 0 .. env.maxEarly

RcvdPsns(n) == {p.psn : p \in nic[n].rcvd}

\* The whole request `id' of node n has been received by the NIC of its peer; the
\* whole response to read `id' by its own.
Delivered(n, id) ==
    Cardinality({p \in nic[Peer(n)].rcvd : p.id = id /\ p.op # "readResp"}) >= Wrs(n)[id].n
Answered(n, id) ==
    Cardinality({p \in nic[n].rcvd : p.id = id /\ p.op = "readResp"}) >= Wrs(n)[id].resp

SendDone(n) == SelectSeq(cq[n], LAMBDA c : c.op \in {"write", "send", "read"})
RecvDone(n) == SelectSeq(cq[n], LAMBDA c : c.op \in {"recv", "recvImm"})

\* What MetaWorker takes from Ack and Nak frames, from the answers of the peer's
\* driver and of its NIC alike, never moves the base of the send tracker past a
\* packet the peer's NIC has not received, however frames are lost or reordered.
AckedIsReceived ==
    \A n \in Node : \A s \in 0 .. snd[n].trk.base - 1 : s \in RcvdPsns(Peer(n))

\* CompletionWorker pushes the completion of a write or send only when every packet
\* of it has reached the peer.
SendCompletesAfterDelivery ==
    \A n \in Node : \A i \in DOMAIN SendDone(n) : Delivered(n, SendDone(n)[i].id)

\* It pushes the completion of a read only when the whole response is here.
ReadCompletesAfterResponse ==
    \A n \in Node : \A i \in DOMAIN SendDone(n) :
        SendDone(n)[i].op = "read" => Answered(n, SendDone(n)[i].id)

\* Signaled requests complete in the order they were posted, each at most once,
\* also when acknowledgements arrive late or twice.
SendCompletionsInOrder ==
    \A n \in Node :
        /\ \A i \in DOMAIN SendDone(n) : Wrs(n)[SendDone(n)[i].id].ack
        /\ \A i, j \in DOMAIN SendDone(n) : i < j => SendDone(n)[i].id < SendDone(n)[j].id

\* Every packet sent and not acknowledged is still in the retransmit worker's
\* queue, or in its channel: RetransmitAll can send it again.
Resendable(n) ==
    {p.psn : p \in AllPackets(rq[n])}
      \cup {p.psn : p \in UNION {Packets(retr[n][i].wr, TRUE) :
                                   i \in {j \in DOMAIN retr[n] : retr[n][j].type = "newWr"}}}
UnackedIsRetained ==
    \A n \in Node : snd[n].trk.base .. sq[n].psn - 1 \subseteq Resendable(n)

\* The timeout worker's outstanding_ack_req_cnt is the number of signaled requests
\* registered and not completed, and its timer runs as long as there is one: an
\* answer that never comes is always noticed.
Incomplete(n) ==
    Len(trk[n].send.inner) + Len(trk[n].mergeSend)
      + Cardinality({i \in DOMAIN comp[n] : comp[n][i].type = "send"})
TimerCoversIncomplete ==
    \A n \in Node : panic[n] = "none" =>
        /\ timer[n].outstanding = Incomplete(n)
        /\ Incomplete(n) > 0 => timer[n].running

\* next_wr, which looks at copies of the two acknowledged numbers that reach it by
\* message, never lets more than MAX_PSN_WINDOW packets be unacknowledged or
\* MAX_SEND_WR messages be incomplete.
WindowIsRespected ==
    \A n \in Node : /\ sq[n].psn - snd[n].trk.base <= MAX_PSN_WINDOW
                    /\ Incomplete(n) <= MAX_SEND_WR

\* A receiver is told of every message at most once, in the order they were sent,
\* and only when the whole message is here.
RecvCompletionsInOrder ==
    \A n \in Node :
        /\ \A i, j \in DOMAIN RecvDone(n) : i < j => RecvDone(n)[i].of < RecvDone(n)[j].of
        /\ \A i \in DOMAIN RecvDone(n) : Delivered(Peer(n), RecvDone(n)[i].of)

\* Every message that takes a posted receive finds one
\* (completion.rs: expect("no posted recv wr")).
RecvIsPosted == \A n \in Node : panic[n] # "no posted recv wr"

\* The wr_id of a receive completion names the posted receive whose buffer the
\* sender took for the message.
BufferOf(n, id) == Cardinality({i \in 1 .. id : Wrs(n)[i].op \in {"send", "sendImm"}})
RecvNamesItsBuffer ==
    \A n \in Node : \A i \in DOMAIN RecvDone(n) :
        LET c == RecvDone(n)[i] IN c.op = "recv" => c.id = BufferOf(Peer(n), c.of)

\* No worker sends to a worker that has ended
\* (spawner.rs: expect("failed to send task to channel")).
ChannelsStayOpen == \A n \in Node : panic[n] # "closed channel"

\* All signaled requests have completed, but for those dropped when posted.
AllDone ==
    \A n \in Node : Len(SendDone(n)) + app[n].dropped = Cardinality({i \in DOMAIN Wrs(n) : Wrs(n)[i].ack})

\* A node that posts nothing has given up (see ChannelsStayOpen): it no longer answers.
PeerGaveUp == \E n \in Node : Wrs(n) = <<>> /\ panic[n] # "none"

\* Every signaled request completes, unless the peer has given up: what is lost is
\* sent again, and what the receiver has acknowledged in vain is acknowledged again.
AllComplete == <>(AllDone \/ PeerGaveUp)

\* The same, said of the states in which no thread of either node has anything left
\* to do, no timer is running and the network is empty.
Stopped ==
    /\ Quiet /\ ~PeerGaveUp
    /\ \A n \in Node : /\ app[n].sends = Len(Wrs(n))
                       /\ ~(TimerAlive(n) /\ n \in env.timersOn /\ timer[n].running)
StopsOnlyWhenDone == Stopped => AllDone
==============================================================================
