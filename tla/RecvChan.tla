------------------------------- MODULE RecvChan -------------------------------
(***************************************************************************)
(* How a receive reaches the peer that will send into it: the queue pairs  *)
(* of two nodes (QpManager, rdma_utils/qp.rs; create_qp, update_qp,        *)
(* destroy_qp, post_recv and send, verbs/ctx.rs) and, per queue pair, a    *)
(* TCP connection to the peer and a thread that reads the peer's           *)
(* connection into the queue of receives (net/recv_chan.rs).  The tables   *)
(* are indexed by the high part of the queue pair number; destroy_qp frees *)
(* the index and leaves what the tables hold for it.                       *)
(***************************************************************************)
EXTENDS Integers, Sequences, FiniteSets

CONSTANTS Node,         \* the two hosts
          MAX_QP_CNT    \* queue pair indices; 0 is reserved

ASSUME ChanAssumption == MAX_QP_CNT \in Nat

QPN_KEY_PART == 256  \* 1 << QPN_KEY_PART_WIDTH
NoQp         == 0
NoConn       == 0

Indices == 1 .. MAX_QP_CNT - 1

qpn_to_index(qpn) == qpn \div QPN_KEY_PART

\* qpn * 0x9E3779B9 modulo 2^32, modulo PORT_RANGE, by halves of 16 bits
qpn_to_port(qpn) ==
    LET low  == qpn * 31161                           \* 0x79B9
        high == (qpn * 40503 + (low \div 65536)) % 65536  \* 0x9E37
    IN  60000 + ((high * (65536 % 5535) + (low % 65536)) % 5535)

VARIABLES use,       \* how the applications use the nodes: the queue pairs they create, in order
                     \* (plan), each with the random part of its number (key), the one it is
                     \* connected to (peer) and how many receives it posts (recvs); whether they
                     \* wait until both ends are connected before they post (handshake); whether
                     \* they destroy queue pairs (destroy)
          used,      \* QpManager's bitmap
          attr,      \* qp_attr_table
          tx,        \* post_recv_tx_table: the peer, and the connection once there is one
          queue,     \* recv_wr_queue_table
          workers,   \* the RecvWorker threads, each with its listening socket
          conns,     \* the TCP connections and what is in them
          qps        \* history: the queue pairs of the applications, in the order of creation

chanVars == <<use, used, attr, tx, queue, workers, conns, qps>>

NoAttr == [qpn |-> 0, dqpn |-> 0, ip |-> 0]
NoTx   == [dqpn |-> 0, ip |-> 0, conn |-> NoConn]

ChanInit ==
    /\ used = [n \in Node |-> {}]
    /\ attr = [n \in Node |-> [i \in Indices |-> NoAttr]]
    /\ tx = [n \in Node |-> [i \in Indices |-> NoTx]]
    /\ queue = [n \in Node |-> [i \in Indices |-> <<>>]]
    /\ workers = <<>>
    /\ conns = <<>>
    /\ qps = <<>>

\* The index of a queue pair of an application
IndexOf(q) == qpn_to_index(qps[q].qpn)

Peer(q) == use.plan[q].peer

Live == {q \in DOMAIN qps : qps[q].live}

\* create_qp; a reused index keeps the dqpn and dqp_ip of the queue pair before.
CreateQp(n) ==
    /\ Len(qps) < Len(use.plan)
    /\ n = use.plan[Len(qps) + 1].node
    /\ \E i \in Indices \ used[n] :
          LET qpn == i * QPN_KEY_PART + use.plan[Len(qps) + 1].key
          IN     /\ \A j \in Indices \ used[n] : i <= j
                 /\ used' = [used EXCEPT ![n] = @ \cup {i}]
                 /\ attr' = [attr EXCEPT ![n][i].qpn = qpn]
                 /\ qps' = Append(qps, [node |-> n, qpn |-> qpn, live |-> TRUE,
                                        posted |-> 0, got |-> <<>>])
    /\ UNCHANGED <<use, tx, queue, workers, conns>>

\* The listening socket at an address, if there is one
Listeners(n, port) == {w \in DOMAIN workers : workers[w].node = n /\ workers[w].port = port}

\* The attributes update_qp gives a queue pair: the destination is what the caller
\* passes, or else what the table has.
NewAttr(q, dqpn, ip) ==
    [attr[qps[q].node][IndexOf(q)] EXCEPT !.dqpn = IF dqpn = 0 THEN @ ELSE dqpn,
                                          !.ip   = IF ip = 0 THEN @ ELSE ip]

SetAttr(q, to) == attr' = [attr EXCEPT ![qps[q].node][IndexOf(q)] = to]

\* The end of update_qp: a channel is made when there is a destination and no channel.
\* When the port cannot be bound the call fails, with all the rest of it done.
MakeChannel(q, to) ==
    LET n    == qps[q].node
        i    == IndexOf(q)
        port == qpn_to_port(qps[q].qpn)
    IN  IF to.dqpn # 0 /\ to.ip # 0 /\ tx[n][i] = NoTx /\ Listeners(n, port) = {}
        THEN /\ tx' = [tx EXCEPT ![n][i] = [dqpn |-> to.dqpn, ip |-> to.ip, conn |-> NoConn]]
             /\ workers' = Append(workers, [node |-> n, port |-> port, index |-> i,
                                            conn |-> NoConn])
        ELSE UNCHANGED <<tx, workers>>

\* What update_qp is called with: nothing of a destination (to INIT, to RTS), or the
\* number and the address of the peer (to RTR)
Destinations(q) ==
    {[qpn |-> 0, node |-> 0]}
    \cup {[qpn |-> qps[p].qpn, node |-> qps[p].node] : p \in {Peer(q)} \cap DOMAIN qps}

UpdateQp(q) ==
    \E d \in Destinations(q) :
        LET to == NewAttr(q, d.qpn, d.node)
        IN  SetAttr(q, to) /\ MakeChannel(q, to) /\ UNCHANGED <<use, used, queue, conns, qps>>

\* destroy_qp
DestroyQp(q) ==
    /\ use.destroy
    /\ used' = [used EXCEPT ![qps[q].node] = @ \ {IndexOf(q)}]
    /\ qps' = [qps EXCEPT ![q].live = FALSE]
    /\ UNCHANGED <<use, attr, tx, queue, workers, conns>>

\* modify_qp has succeeded at both ends, and neither has been destroyed.
Connected(q) ==
    /\ {q, Peer(q)} \subseteq Live
    /\ \A p \in {q, Peer(q)} :
          /\ tx[qps[p].node][IndexOf(p)] # NoTx
          /\ attr[qps[p].node][IndexOf(p)] =
                [qpn |-> qps[p].qpn, dqpn |-> qps[Peer(p)].qpn, ip |-> qps[Peer(p)].node]

\* Mutant of Enqueue: the thread puts a receive in front.
EnqueueFront(s, wr) == <<wr>> \o s

\* push_back in RecvWorker::run
Enqueue(s, wr) == Append(s, wr)

\* post_recv: the completion's event is registered first, so it is there when the call
\* then fails for want of a channel or of a peer that listens.  The first receive
\* makes the connection.
PostRecv(q) ==
    LET n   == qps[q].node
        i   == IndexOf(q)
        wr  == [qp |-> q, n |-> qps[q].posted + 1]
        t   == tx[n][i]
        to  == Listeners(t.ip, qpn_to_port(t.dqpn))
    IN  /\ qps[q].posted < use.plan[q].recvs
        /\ use.handshake => Connected(q)
        /\ qps' = [qps EXCEPT ![q].posted = @ + 1]
        /\ \/ /\ t.conn # NoConn
              /\ conns' = [conns EXCEPT ![t.conn].data = Append(@, wr)]
              /\ UNCHANGED tx
           \/ /\ t # NoTx /\ t.conn = NoConn
              /\ \E w \in to : conns' = Append(conns, [worker |-> w, data |-> <<wr>>])
              /\ tx' = [tx EXCEPT ![n][i].conn = Len(conns) + 1]
           \/ /\ t = NoTx \/ (t.conn = NoConn /\ to = {})
              /\ UNCHANGED <<tx, conns>>
        /\ UNCHANGED <<use, used, attr, queue, workers>>

\* TcpChannelRx::recv accepts one connection, the first one made.
Accept(w) ==
    /\ workers[w].conn = NoConn
    /\ \E c \in DOMAIN conns :
          /\ conns[c].worker = w
          /\ \A d \in 1 .. c - 1 : conns[d].worker # w
          /\ workers' = [workers EXCEPT ![w].conn = c]
    /\ UNCHANGED <<use, used, attr, tx, queue, conns, qps>>

\* RecvWorker::run
Receive(w) ==
    LET c == workers[w].conn
    IN  /\ c # NoConn
        /\ conns[c].data # <<>>
        /\ queue' = [queue EXCEPT ![workers[w].node][workers[w].index] =
                        Enqueue(@, Head(conns[c].data))]
        /\ conns' = [conns EXCEPT ![c].data = Tail(@)]
        /\ UNCHANGED <<use, used, attr, tx, workers, qps>>

\* send takes the next receive of the peer; without one it does not return (todo!).
Send(q) ==
    LET n == qps[q].node
        i == IndexOf(q)
    IN  /\ queue[n][i] # <<>>
        /\ qps' = [qps EXCEPT ![q].got = Append(@, Head(queue[n][i]))]
        /\ queue' = [queue EXCEPT ![n][i] = Tail(@)]
        /\ UNCHANGED <<use, used, attr, tx, workers, conns>>

\* HwDeviceCtx::initialize for another instance of the driver on a node: its tables are
\* new and know none of the queue pairs.  The threads and sockets of the instance before
\* are still there.
NewTables(n) ==
    /\ used' = [used EXCEPT ![n] = {}]
    /\ attr' = [attr EXCEPT ![n] = [i \in Indices |-> NoAttr]]
    /\ tx' = [tx EXCEPT ![n] = [i \in Indices |-> NoTx]]
    /\ queue' = [queue EXCEPT ![n] = [i \in Indices |-> <<>>]]
    /\ qps' = [q \in DOMAIN qps |-> [qps[q] EXCEPT !.live = @ /\ qps[q].node # n]]
    /\ UNCHANGED <<use, workers, conns>>

\* The verbs of a queue pair that give the card no command
DataVerb(q) == DestroyQp(q) \/ PostRecv(q) \/ Send(q)

RecvWorker == \E w \in DOMAIN workers : Accept(w) \/ Receive(w)

------------------------------------------------------------------------------
\* The receives that reach a queue pair are those its peer has registered for
\* completion, from the first one on and in that order: the k-th send goes into the
\* buffer that the k-th receive completion will name.
ReceivesInOrder(q) ==
    LET s == qps[q].got \o queue[qps[q].node][IndexOf(q)]
    IN  \A k \in 1 .. Len(s) : s[k] = [qp |-> Peer(q), n |-> k]

\* A receive posted to a queue pair reaches the queue pair it is connected to, and no
\* other, in order ("a channel for the responder to pass ibv_recv_wr to the initiator"),
\* for applications that connect both ends before they post.
ReceivesReachPeer == use.handshake => \A q \in Live : ReceivesInOrder(q)

\* The same, for applications that do not destroy queue pairs.
ReceivesReachPeerOnce == ~use.destroy => ReceivesReachPeer
==============================================================================
