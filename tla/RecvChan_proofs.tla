--------------------------- MODULE RecvChan_proofs ---------------------------
(***************************************************************************)
(* The receives on their way from one queue pair to its peer, for          *)
(* applications that connect both ends before they post and destroy no     *)
(* queue pair: what each operation of RecvChan does to them.  Verbs_proofs *)
(* composes the operations.                                                *)
(***************************************************************************)
EXTENDS RecvChan, SequenceTheorems, TLAPS

------------------------------------------------------------------------------
(* The receives *)

Wr      == [qp : Nat, n : Nat]
Planned == [node : Node, key : 0 .. QPN_KEY_PART - 1, peer : Nat, recvs : Nat]
Ports   == {qpn_to_port(n) : n \in Nat}

AttrType   == [qpn : Nat, dqpn : Nat, ip : Node \cup {0}]
TxType     == [dqpn : Nat, ip : Node \cup {0}, conn : Nat]
WorkerType == [node : Node, port : Ports, index : Indices, conn : Nat]
ConnType   == [worker : Nat, data : Seq(Wr)]
QpType     == [node : Node, qpn : Nat, live : BOOLEAN, posted : Nat, got : Seq(Wr)]

ChanTypes ==
    /\ use.plan \in Seq(Planned)
    /\ \A q, p \in DOMAIN use.plan : use.plan[q].peer = p => use.plan[p].peer = q
    /\ used \in [Node -> SUBSET Indices]
    /\ attr \in [Node -> [Indices -> AttrType]]
    /\ tx \in [Node -> [Indices -> TxType]]
    /\ queue \in [Node -> [Indices -> Seq(Wr)]]
    /\ workers \in Seq(WorkerType)
    /\ conns \in Seq(ConnType)
    /\ qps \in Seq(QpType)
    /\ Len(qps) <= Len(use.plan)

\* What the tables of its node have for a queue pair
Attr(q)    == attr[qps[q].node][IndexOf(q)]
Tx(q)      == tx[qps[q].node][IndexOf(q)]
Waiting(q) == queue[qps[q].node][IndexOf(q)]

\* Every queue pair has an index of its own; the tables have nothing for the others.
Places ==
    /\ \A q \in DOMAIN qps : /\ qps[q].node = use.plan[q].node
                             /\ IndexOf(q) \in used[qps[q].node]
    /\ \A p, q \in DOMAIN qps : qps[p].node = qps[q].node /\ IndexOf(p) = IndexOf(q) => p = q
    /\ \A n \in Node : \A i \in Indices \ used[n] :
          attr[n][i] = NoAttr /\ tx[n][i] = NoTx /\ queue[n][i] = <<>>

\* The destination a is that of q, as far as it is set.
Reaches(q, a) ==
    /\ a.dqpn # 0 => Peer(q) \in DOMAIN qps /\ a.dqpn = qps[Peer(q)].qpn
    /\ a.ip # 0 => Peer(q) \in DOMAIN qps /\ a.ip = qps[Peer(q)].node

Attrs == \A q \in DOMAIN qps : Reaches(q, Attr(q))

\* The thread w listens for q.
Serves(w, q) ==
    /\ workers[w].node = qps[q].node
    /\ workers[w].port = qpn_to_port(qps[q].qpn)
    /\ workers[w].index = IndexOf(q)

\* A queue pair with a channel has a thread that listens for it, and its channel is to
\* its peer; no two threads listen at the same address.
Channels ==
    /\ \A q \in DOMAIN qps : Tx(q) # NoTx =>
          /\ Peer(q) \in DOMAIN qps
          /\ Tx(q).dqpn = qps[Peer(q)].qpn /\ Tx(q).ip = qps[Peer(q)].node
          /\ \E w \in DOMAIN workers : Serves(w, q)
    /\ \A w, v \in DOMAIN workers :
          workers[w].node = workers[v].node /\ workers[w].port = workers[v].port => w = v

\* A connection is that of one queue pair, and ends at the thread of its peer.
Connections ==
    /\ \A q \in DOMAIN qps : Tx(q).conn \in 0 .. Len(conns)
    /\ \A c \in DOMAIN conns : \E q \in DOMAIN qps :
          /\ Tx(q).conn = c
          /\ Peer(q) \in DOMAIN qps /\ conns[c].worker \in DOMAIN workers
          /\ Serves(conns[c].worker, Peer(q))
    /\ \A p, q \in DOMAIN qps : Tx(p).conn = Tx(q).conn /\ Tx(p).conn # NoConn => p = q
    /\ \A w \in DOMAIN workers : workers[w].conn # NoConn =>
          workers[w].conn \in DOMAIN conns /\ conns[workers[w].conn].worker = w

\* What q has sent and its peer's thread has not read
Sending(q) ==
    IF q \in DOMAIN qps /\ Tx(q).conn # NoConn THEN conns[Tx(q).conn].data ELSE <<>>

\* The receives on their way to a queue pair and those it has got
Coming(q) == (qps[q].got \o Waiting(q)) \o Sending(Peer(q))

InOrder(s, p) == \A k \in 1 .. Len(s) : s[k] = [qp |-> p, n |-> k]

Flow ==
    /\ \A q \in DOMAIN qps :
          /\ InOrder(Coming(q), Peer(q))
          /\ Len(Coming(q)) = IF Peer(q) \in DOMAIN qps THEN qps[Peer(q)].posted ELSE 0
    /\ \A q \in DOMAIN qps : Tx(q).conn = NoConn => qps[q].posted = 0

ChanOK == ChanTypes /\ Places /\ Attrs /\ Channels /\ Connections /\ Flow

\* No queue pair goes away or moves to another node.
QpsStay == \A p \in DOMAIN qps : p \in DOMAIN qps' /\ qps'[p].node = qps[p].node

------------------------------------------------------------------------------
(* Sequences *)

\* A receive moves on from a connection to a queue, and from a queue to a send.
LEMMA MoveOne ==
    ASSUME NEW S, NEW a \in Seq(S), NEW b \in Seq(S), b # <<>>
    PROVE  Append(a, Head(b)) \o Tail(b) = a \o b
<1>1. /\ Head(b) \in S /\ Tail(b) \in Seq(S) /\ Len(Tail(b)) = Len(b) - 1 /\ Len(b) > 0
      /\ \A i \in 1 .. Len(b) - 1 : Tail(b)[i] = b[i + 1]
  OBVIOUS
<1> DEFINE h == Head(b)
           t == Tail(b)
<1>2. h \in S /\ h = b[1]
  OBVIOUS
<1> HIDE DEF h, t
<1>3. Append(a, h) \o t \in Seq(S) /\ a \o b \in Seq(S)
  BY <1>1, <1>2 DEF t
<1>4. Len(Append(a, h) \o t) = Len(a) + Len(b) /\ Len(a \o b) = Len(a) + Len(b)
  BY <1>1, <1>2 DEF t
<1>6. t \in Seq(S) /\ Append(a, h) \in Seq(S) /\ Len(t) \in Nat
      /\ Len(Append(a, h)) = Len(a) + 1 /\ Append(a, h)[Len(a) + 1] = h
      /\ \A i \in 1 .. Len(a) : Append(a, h)[i] = a[i]
  BY <1>1, <1>2 DEF t
<1> DEFINE u == Append(a, h)
<1> HIDE DEF u
<1>7. Len(u \o t) = Len(u) + Len(t) /\ \A i \in 1 .. Len(u) : (u \o t)[i] = u[i]
  BY <1>6 DEF u
<1>5. ASSUME NEW k \in 1 .. Len(a) + Len(b)
      PROVE  (Append(a, h) \o t)[k] = (a \o b)[k]
  <2>1. CASE k <= Len(a)
    BY <1>1, <1>2, <2>1 DEF t
  <2>2. CASE k = Len(a) + 1
    <3>1. (u \o t)[k] = h
      BY <1>6, <1>7, <2>2 DEF u
    <3>2. (a \o b)[k] = b[1]
      BY <1>1, <2>2
    <3> QED
      BY <1>2, <3>1, <3>2 DEF u
  <2>3. CASE k > Len(a) + 1
    <3>1. (Append(a, h) \o t)[k] = t[k - (Len(a) + 1)]
      BY <1>1, <1>2, <2>3 DEF t
    <3>2. (a \o b)[k] = b[k - Len(a)]
      BY <1>1, <2>3
    <3>3. k - (Len(a) + 1) \in 1 .. Len(b) - 1 /\ (k - (Len(a) + 1)) + 1 = k - Len(a)
      BY <1>1, <2>3
    <3> QED
      BY <1>1, <3>1, <3>2, <3>3 DEF t
  <2>4. k <= Len(a) \/ k = Len(a) + 1 \/ k > Len(a) + 1
    OBVIOUS
  <2> QED
    BY Zenon, <2>1, <2>2, <2>3, <2>4
<1>8. u \o t = a \o b
  <2> DEFINE v == u \o t
             w == a \o b
  <2>1. v \in Seq(S) /\ w \in Seq(S) /\ Len(v) = Len(w) /\ Len(v) = Len(a) + Len(b)
        /\ \A i \in 1 .. Len(a) + Len(b) : v[i] = w[i]
    BY <1>3, <1>4, <1>5 DEF u
  <2> HIDE DEF v, w
  <2>2. \A i \in 1 .. Len(v) : v[i] = w[i]
    BY Zenon, <2>1
  <2>3. v = w
    BY Zenon, <2>1, <2>2, SeqEqual
  <2> QED
    BY <2>3 DEF v, w
<1> QED
  BY Zenon, <1>8 DEF h, t, u

Joined(a, b, c) == (a \o b) \o c

LEMMA MoveToQueue ==
    ASSUME NEW S, NEW a \in Seq(S), NEW b \in Seq(S), NEW c \in Seq(S), c # <<>>
    PROVE  Joined(a, Append(b, Head(c)), Tail(c)) = Joined(a, b, c)
<1>1. Append(b, Head(c)) \in Seq(S) /\ Tail(c) \in Seq(S)
  OBVIOUS
<1>2. ASSUME NEW x \in Seq(S), NEW y \in Seq(S)
      PROVE  (a \o x) \o y = a \o (x \o y)
  BY SMTT(30)
<1>3. (a \o Append(b, Head(c))) \o Tail(c) = a \o (Append(b, Head(c)) \o Tail(c))
  BY Zenon, <1>1, <1>2
<1>4. Append(b, Head(c)) \o Tail(c) = b \o c
  BY SMTT(60), MoveOne
<1>5. (a \o b) \o c = a \o (b \o c)
  BY Zenon, <1>2
<1> QED
  BY Zenon, <1>3, <1>4, <1>5 DEF Joined

\* One more receive is sent.
LEMMA SendOne ==
    ASSUME NEW S, NEW a \in Seq(S), NEW b \in Seq(S), NEW x \in S
    PROVE  a \o Append(b, x) = Append(a \o b, x)
  OBVIOUS

LEMMA InOrderAppend ==
    ASSUME NEW S, NEW s \in Seq(S), NEW p, InOrder(s, p),
           NEW x \in S, x = [qp |-> p, n |-> Len(s) + 1]
    PROVE  InOrder(Append(s, x), p) /\ Len(Append(s, x)) = Len(s) + 1
  BY DEF InOrder

------------------------------------------------------------------------------
(* The tables *)

LEMMA PutAt ==
    ASSUME NEW N, NEW I, NEW S, NEW f \in [N -> [I -> S]], NEW n \in N, NEW i \in I, NEW v \in S
    PROVE  /\ [f EXCEPT ![n][i] = v] \in [N -> [I -> S]]
           /\ \A m \in N, j \in I :
                 [f EXCEPT ![n][i] = v][m][j] = IF m = n /\ j = i THEN v ELSE f[m][j]
  OBVIOUS

LEMMA Element ==
    ASSUME NEW S, NEW s \in Seq(S), NEW k \in DOMAIN s
    PROVE  s[k] \in S
  OBVIOUS

LEMMA EmptyTypes == NoAttr \in AttrType /\ NoTx \in TxType /\ NoTx.conn = NoConn /\ <<>> \in Seq(Wr)
  BY DEF NoAttr, NoTx, AttrType, TxType, NoConn

\* A queue pair of the plan, its index, and what the tables have for it
LEMMA Located ==
    ASSUME ChanTypes, Places, NEW q \in DOMAIN qps
    PROVE  /\ q \in DOMAIN use.plan /\ Peer(q) \in Nat
           /\ qps[q] \in QpType
           /\ qps[q].node \in Node /\ qps[q].posted \in Nat /\ qps[q].got \in Seq(Wr)
           /\ IndexOf(q) \in Indices /\ IndexOf(q) \in used[qps[q].node]
           /\ Attr(q) \in AttrType /\ Tx(q) \in TxType /\ Waiting(q) \in Seq(Wr)
<1>1. q \in DOMAIN use.plan
  BY DEF ChanTypes
<1>2. Peer(q) \in Nat
  <2>1. use.plan[q] \in Planned
    BY Zenon, <1>1, Element DEF ChanTypes
  <2> QED
    BY Zenon, <2>1 DEF Peer, Planned
<1>3. qps[q] \in QpType
  BY Zenon, Element DEF ChanTypes
<1>4. qps[q].node \in Node /\ qps[q].posted \in Nat /\ qps[q].got \in Seq(Wr)
  BY Zenon, <1>3 DEF QpType
<1>5. IndexOf(q) \in used[qps[q].node] /\ used[qps[q].node] \subseteq Indices
  BY <1>4 DEF ChanTypes, Places
<1>6. Attr(q) \in AttrType /\ Tx(q) \in TxType /\ Waiting(q) \in Seq(Wr)
  BY <1>4, <1>5 DEF ChanTypes, Attr, Tx, Waiting
<1> QED
  BY Zenon, <1>1, <1>2, <1>3, <1>4, <1>5, <1>6

\* The index in the number of a new queue pair
LEMMA NumberIndex ==
    ASSUME NEW i \in Indices, NEW k \in 0 .. QPN_KEY_PART - 1
    PROVE  qpn_to_index(i * QPN_KEY_PART + k) = i /\ i * QPN_KEY_PART + k \in Nat
  BY ChanAssumption DEF Indices, QPN_KEY_PART, qpn_to_index

LEMMA InitChanOK ==
    ASSUME ChanInit, use.plan \in Seq(Planned),
           \A q, p \in DOMAIN use.plan : use.plan[q].peer = p => use.plan[p].peer = q
    PROVE  ChanOK
<1>1. DOMAIN qps = {} /\ DOMAIN workers = {} /\ DOMAIN conns = {} /\ Len(qps) = 0
  BY DEF ChanInit
<1>2. ChanTypes
  BY <1>1, EmptyTypes DEF ChanInit, ChanTypes, AttrType, TxType
<1>3. Places
  BY <1>1 DEF ChanInit, Places
<1> QED
  BY <1>1, <1>2, <1>3 DEF ChanOK, Attrs, Channels, Connections, Flow

------------------------------------------------------------------------------
(* create_qp *)

\* One more queue pair
LEMMA AddQp ==
    ASSUME NEW S, NEW s \in Seq(S), NEW x \in S
    PROVE  /\ Append(s, x) \in Seq(S) /\ Len(Append(s, x)) = Len(s) + 1
           /\ DOMAIN Append(s, x) = DOMAIN s \cup {Len(s) + 1}
           /\ Len(s) + 1 \notin DOMAIN s /\ Append(s, x)[Len(s) + 1] = x
           /\ \A k \in DOMAIN s : Append(s, x)[k] = s[k]
  OBVIOUS

LEMMA CreateChanOK ==
    ASSUME ChanOK, NEW n \in Node, CreateQp(n)
    PROVE  ChanOK' /\ QpsStay
<1> USE DEF ChanOK
<1>0. PICK new : new = Len(qps) + 1
  OBVIOUS
<1> DEFINE key == use.plan[new].key
<1>1. PICK i \in Indices \ used[n] :
         /\ used' = [used EXCEPT ![n] = @ \cup {i}]
         /\ attr' = [attr EXCEPT ![n][i].qpn = i * QPN_KEY_PART + key]
         /\ qps' = Append(qps, [node |-> n, qpn |-> i * QPN_KEY_PART + key, live |-> TRUE,
                                posted |-> 0, got |-> <<>>])
  BY ZenonT(60), <1>0 DEF CreateQp
<1> DEFINE qpn == i * QPN_KEY_PART + key
           r == [node |-> n, qpn |-> qpn, live |-> TRUE, posted |-> 0, got |-> <<>>]
           v == [attr[n][i] EXCEPT !.qpn = qpn]
<1>2. /\ new \in DOMAIN use.plan /\ n = use.plan[new].node
      /\ new <= Len(use.plan) /\ UNCHANGED <<use, tx, queue, workers, conns>>
  BY <1>0 DEF CreateQp, ChanTypes
<1>3. qpn_to_index(qpn) = i /\ qpn \in Nat
  <2>1. use.plan[new] \in Planned
    BY Zenon, <1>2, Element DEF ChanTypes
  <2>2. key \in 0 .. QPN_KEY_PART - 1
    BY Zenon, <2>1 DEF Planned
  <2> HIDE DEF key
  <2> QED
    BY <2>2, NumberIndex
<1> HIDE DEF qpn
<1>4. r \in QpType /\ r.node = n /\ r.qpn = qpn /\ r.posted = 0 /\ r.got = <<>>
  BY <1>3 DEF QpType
<1>5. /\ qps' \in Seq(QpType) /\ Len(qps') = new
      /\ DOMAIN qps' = DOMAIN qps \cup {new}
      /\ new \notin DOMAIN qps /\ qps'[new] = r
      /\ \A q \in DOMAIN qps : qps'[q] = qps[q]
  <2>1. qps' = Append(qps, r) /\ qps \in Seq(QpType)
    BY Zenon, <1>1 DEF qpn, ChanTypes
  <2> HIDE DEF r
  <2> QED
    BY <1>0, <1>4, <2>1, AddQp
<1> HIDE DEF r
<1>6. v \in AttrType /\ v.dqpn = 0 /\ v.ip = 0
  <2>1. attr[n][i] = NoAttr
    BY <1>1 DEF Places
  <2> QED
    BY <1>3, <2>1 DEF NoAttr, AttrType
<1>7. /\ attr' \in [Node -> [Indices -> AttrType]]
      /\ \A m \in Node, j \in Indices : attr'[m][j] = IF m = n /\ j = i THEN v ELSE attr[m][j]
  <2>1. attr' = [attr EXCEPT ![n][i] = v]
    BY <1>1 DEF qpn, ChanTypes
  <2>2. attr \in [Node -> [Indices -> AttrType]]
    BY DEF ChanTypes
  <2>3. i \in Indices
    BY <1>1
  <2> HIDE DEF v
  <2>4. /\ [attr EXCEPT ![n][i] = v] \in [Node -> [Indices -> AttrType]]
        /\ \A m \in Node, j \in Indices :
              [attr EXCEPT ![n][i] = v][m][j] = IF m = n /\ j = i THEN v ELSE attr[m][j]
    BY <1>6, <2>2, <2>3, PutAt
  <2> QED
    BY Zenon, <2>1, <2>4
<1> HIDE DEF v
<1>8. /\ used' \in [Node -> SUBSET Indices]
      /\ used'[n] = used[n] \cup {i}
      /\ \A m \in Node : used[m] \subseteq used'[m]
  BY <1>1 DEF ChanTypes
<1>9. ASSUME NEW q \in DOMAIN qps
      PROVE  /\ q # new /\ qps'[q] = qps[q] /\ IndexOf(q)' = IndexOf(q)
             /\ ~(qps[q].node = n /\ IndexOf(q) = i)
             /\ Attr(q)' = Attr(q) /\ Tx(q)' = Tx(q) /\ Waiting(q)' = Waiting(q)
             /\ Peer(q)' = Peer(q)
  <2>1. qps'[q] = qps[q] /\ q # new /\ IndexOf(q)' = IndexOf(q)
    BY Zenon, <1>5 DEF IndexOf
  <2>2. ~(qps[q].node = n /\ IndexOf(q) = i)
    BY <1>1 DEF Places
  <2>3. Attr(q)' = Attr(q)
    BY <1>7, <2>1, <2>2, Located DEF Attr
  <2>4. Tx(q)' = Tx(q) /\ Waiting(q)' = Waiting(q) /\ Peer(q)' = Peer(q)
    BY Zenon, <1>2, <2>1 DEF Tx, Waiting, Peer
  <2> QED
    BY Zenon, <2>1, <2>2, <2>3, <2>4
<1>10. /\ qps'[new].node = n /\ IndexOf(new)' = i /\ qps'[new].posted = 0 /\ qps'[new].got = <<>>
       /\ Attr(new)' = v /\ Tx(new)' = NoTx /\ Waiting(new)' = <<>> /\ Peer(new)' = Peer(new)
  <2>1. /\ qps'[new].node = n /\ qps'[new].posted = 0 /\ qps'[new].got = <<>>
        /\ IndexOf(new)' = i
    BY Zenon, <1>3, <1>4, <1>5 DEF IndexOf
  <2>2. tx[n][i] = NoTx /\ queue[n][i] = <<>>
    BY <1>1 DEF Places
  <2>3. Attr(new)' = v
    BY ZenonT(60), <1>1, <1>7, <2>1 DEF Attr
  <2> QED
    BY Zenon, <1>2, <2>1, <2>2, <2>3 DEF Tx, Waiting, Peer
<1>11. ChanTypes'
  BY <1>2, <1>5, <1>7, <1>8 DEF ChanTypes
<1>12. Places'
  <2>1. ASSUME NEW q \in DOMAIN qps'
        PROVE  qps'[q].node = use'.plan[q].node /\ IndexOf(q)' \in used'[qps'[q].node]
    <3>1. CASE q = new
      BY <1>2, <1>8, <1>10, <3>1
    <3>2. CASE q \in DOMAIN qps
      BY ZenonT(60), <1>2, <1>8, <1>9, <3>2, Located DEF Places
    <3> QED
      BY <1>5, <3>1, <3>2
  <2>2. ASSUME NEW p \in DOMAIN qps', NEW q \in DOMAIN qps',
               qps'[p].node = qps'[q].node, IndexOf(p)' = IndexOf(q)'
        PROVE  p = q
    BY <1>5, <1>9, <1>10, <2>2 DEF Places
  <2>3. ASSUME NEW m \in Node, NEW j \in Indices \ used'[m]
        PROVE  attr'[m][j] = NoAttr /\ tx'[m][j] = NoTx /\ queue'[m][j] = <<>>
    <3>1. j \notin used[m] /\ ~(m = n /\ j = i)
      BY <1>8
    <3> QED
      BY <1>2, <1>7, <3>1 DEF Places
  <2> QED
    BY Zenon, <2>1, <2>2, <2>3 DEF Places
<1>13. Attrs'
  <2> SUFFICES ASSUME NEW q \in DOMAIN qps'
               PROVE  Reaches(q, Attr(q))'
    BY Zenon DEF Attrs
  <2>1. CASE q = new
    BY <1>6, <1>10, <2>1 DEF Reaches
  <2>2. CASE q \in DOMAIN qps
    BY <1>5, <1>9, <2>2 DEF Attrs, Reaches
  <2> QED
    BY <1>5, <2>1, <2>2
<1>14. Channels'
  <2>1. ASSUME NEW q \in DOMAIN qps', Tx(q)' # NoTx
        PROVE  /\ Peer(q)' \in DOMAIN qps'
               /\ Tx(q)'.dqpn = qps'[Peer(q)'].qpn /\ Tx(q)'.ip = qps'[Peer(q)'].node
               /\ \E w \in DOMAIN workers' : Serves(w, q)'
    <3>1. q \in DOMAIN qps
      BY <1>5, <1>10, <2>1
    <3> QED
      BY <1>2, <1>5, <1>9, <2>1, <3>1 DEF Channels, Serves
  <2> QED
    BY <1>2, <2>1 DEF Channels
<1>15. Connections'
  <2>0. Tx(new)'.conn = NoConn
    BY SMTT(60), <1>10, EmptyTypes
  <2>1. ASSUME NEW q \in DOMAIN qps'
        PROVE  Tx(q)'.conn \in 0 .. Len(conns')
    BY <1>2, <1>5, <1>9, <2>0 DEF Connections, NoConn, ChanTypes
  <2>2. ASSUME NEW c \in DOMAIN conns'
        PROVE  \E q \in DOMAIN qps' :
                  /\ Tx(q)'.conn = c
                  /\ Peer(q)' \in DOMAIN qps' /\ conns'[c].worker \in DOMAIN workers'
                  /\ Serves(conns[c].worker, Peer(q))'
    <3>1. PICK q \in DOMAIN qps :
             /\ Tx(q).conn = c
             /\ Peer(q) \in DOMAIN qps /\ conns[c].worker \in DOMAIN workers
             /\ Serves(conns[c].worker, Peer(q))
      BY Zenon, <1>2, <2>2 DEF Connections
    <3>2. Serves(conns[c].worker, Peer(q))'
      BY Zenon, <1>2, <1>9, <3>1 DEF Serves
    <3> QED
      BY <1>2, <1>5, <1>9, <3>1, <3>2
  <2>3. ASSUME NEW p \in DOMAIN qps', NEW q \in DOMAIN qps',
               Tx(p)'.conn = Tx(q)'.conn, Tx(p)'.conn # NoConn
        PROVE  p = q
    BY <1>5, <1>9, <2>0, <2>3 DEF Connections
  <2> QED
    BY Zenon, <1>2, <2>1, <2>2, <2>3 DEF Connections
<1>16. Flow'
  <2>0. Tx(new)'.conn = NoConn
    BY <1>10, EmptyTypes
  <2>1. ASSUME NEW q \in DOMAIN qps
        PROVE  /\ Coming(q)' = Coming(q)
               /\ (IF Peer(q) \in DOMAIN qps THEN qps[Peer(q)].posted ELSE 0)
                     = IF Peer(q)' \in DOMAIN qps' THEN qps'[Peer(q)'].posted ELSE 0
    <3>1. Sending(Peer(q))' = Sending(Peer(q))
      <4>1. CASE Peer(q) \in DOMAIN qps
        BY <1>2, <1>5, <1>9, <4>1 DEF Sending
      <4>2. CASE Peer(q) = new
        BY <1>5, <1>9, <2>0, <4>2 DEF Sending
      <4>3. CASE Peer(q) \notin DOMAIN qps'
        BY <1>5, <1>9, <4>3 DEF Sending
      <4> QED
        BY <1>5, <4>1, <4>2, <4>3
    <3>2. Coming(q)' = Coming(q)
      BY Zenon, <1>9, <3>1 DEF Coming
    <3> QED
      BY <1>5, <1>9, <1>10, <3>2
  <2>2. /\ Coming(new)' = <<>>
        /\ Peer(new)' \in DOMAIN qps' => qps'[Peer(new)'].posted = 0
    <3>1. ASSUME NEW p \in DOMAIN qps, Peer(new) = p
          PROVE  Tx(p).conn = NoConn /\ qps[p].posted = 0
      <4>1. Peer(p) = new
        BY Zenon, <1>2, <3>1, Located DEF ChanTypes, Peer
      <4>2. Tx(p) = NoTx
        BY <1>5, <4>1 DEF Channels
      <4> QED
        BY <4>2, EmptyTypes DEF Flow
    <3>2. Sending(Peer(new))' = <<>> /\ (Peer(new)' \in DOMAIN qps' => qps'[Peer(new)'].posted = 0)
      BY <1>5, <1>9, <1>10, <2>0, <3>1 DEF Sending
    <3>3. Coming(new)' = (<<>> \o <<>>) \o <<>>
      BY Zenon, <1>10, <3>2 DEF Coming
    <3> QED
      BY <3>2, <3>3
  <2>3. ASSUME NEW q \in DOMAIN qps'
        PROVE  /\ InOrder(Coming(q), Peer(q))'
               /\ Len(Coming(q)') = IF Peer(q)' \in DOMAIN qps' THEN qps'[Peer(q)'].posted ELSE 0
               /\ Tx(q)'.conn = NoConn => qps'[q].posted = 0
    <3>1. CASE q = new
      BY <1>10, <2>2, <3>1 DEF InOrder
    <3>2. CASE q \in DOMAIN qps
      <4>1. InOrder(Coming(q), Peer(q))'
        BY <1>9, <2>1, <3>2 DEF Flow, InOrder
      <4>2. Len(Coming(q)') = IF Peer(q)' \in DOMAIN qps' THEN qps'[Peer(q)'].posted ELSE 0
        BY Zenon, <2>1, <3>2 DEF Flow
      <4>3. Tx(q)'.conn = NoConn => qps'[q].posted = 0
        BY Zenon, <1>9, <3>2 DEF Flow
      <4> QED
        BY SMTT(60), <4>1, <4>2, <4>3
    <3> QED
      BY <1>5, <3>1, <3>2
  <2> QED
    BY Zenon, <2>3 DEF Flow
<1> QED
  BY <1>5, <1>11, <1>12, <1>13, <1>14, <1>15, <1>16 DEF QpsStay

------------------------------------------------------------------------------
(* update_qp *)

LEMMA PutIn ==
    ASSUME NEW N, NEW I, NEW S, NEW f \in [N -> [I -> S]], NEW n \in N, NEW i \in I, NEW v \in S,
           NEW g, g = [f EXCEPT ![n][i] = v]
    PROVE  /\ g \in [N -> [I -> S]]
           /\ \A m \in N, j \in I : g[m][j] = IF m = n /\ j = i THEN v ELSE f[m][j]
  BY ZenonT(60), PutAt

\* What update_qp may leave of the channels
Linked ==
    /\ tx' \in [Node -> [Indices -> TxType]]
    /\ workers' \in Seq(WorkerType)
    /\ DOMAIN workers \subseteq DOMAIN workers'
    /\ \A w \in DOMAIN workers : workers'[w] = workers[w]
    /\ \A w \in DOMAIN workers' \ DOMAIN workers : workers'[w].conn = NoConn
    /\ \A p \in DOMAIN qps : Tx(p)'.conn = Tx(p).conn
    /\ \A n \in Node : \A i \in Indices \ used[n] : tx'[n][i] = NoTx
    /\ Channels'

LEMMA KeptLinked ==
    ASSUME ChanOK, UNCHANGED <<tx, workers, use, used, qps>>
    PROVE  Linked
<1>1. ASSUME NEW p \in DOMAIN qps
      PROVE  Tx(p)' = Tx(p) /\ IndexOf(p)' = IndexOf(p) /\ Peer(p)' = Peer(p)
  BY Zenon DEF Tx, IndexOf, Peer
<1>2. Channels'
  BY Zenon DEF ChanOK, Channels, Tx, Peer, Serves, IndexOf
<1> QED
  BY <1>1, <1>2 DEF Linked, ChanOK, ChanTypes, Places

LEMMA MakeChannelLinked ==
    ASSUME ChanOK, NEW q \in DOMAIN qps, NEW to \in AttrType, Reaches(q, to),
           MakeChannel(q, to), UNCHANGED <<use, used, qps>>
    PROVE  Linked
<1> USE DEF ChanOK
<1>1. PICK n \in Node, i \in Indices, port \in Ports :
         n = qps[q].node /\ i = IndexOf(q) /\ port = qpn_to_port(qps[q].qpn)
  <2>1. qps[q].node \in Node /\ IndexOf(q) \in Indices /\ qps[q].qpn \in Nat
    BY Zenon, Located DEF QpType
  <2> QED
    BY <2>1 DEF Ports
<1>2. CASE UNCHANGED <<tx, workers>>
  BY Zenon, <1>2, KeptLinked
<1>3. CASE ~ UNCHANGED <<tx, workers>>
  <2> DEFINE t == [dqpn |-> to.dqpn, ip |-> to.ip, conn |-> NoConn]
             x == [node |-> n, port |-> port, index |-> i, conn |-> NoConn]
  <2>1. /\ to.dqpn # 0 /\ to.ip # 0 /\ tx[n][i] = NoTx /\ Listeners(n, port) = {}
        /\ tx' = [tx EXCEPT ![n][i] = t]
        /\ workers' = Append(workers, x)
    BY Zenon, <1>1, <1>3 DEF MakeChannel
  <2>2. t \in TxType /\ x \in WorkerType /\ t.conn = NoConn /\ t.dqpn = to.dqpn /\ t.ip = to.ip
        /\ x.node = n /\ x.port = port /\ x.index = i /\ x.conn = NoConn
    BY DEF AttrType, TxType, WorkerType, NoConn
  <2> HIDE DEF t, x
  <2>3. /\ tx' \in [Node -> [Indices -> TxType]]
        /\ \A m \in Node, j \in Indices : tx'[m][j] = IF m = n /\ j = i THEN t ELSE tx[m][j]
    <3>1. tx \in [Node -> [Indices -> TxType]]
      BY DEF ChanTypes
    <3> QED
      BY ZenonT(60), <2>1, <2>2, <3>1, PutIn
  <2>4. PICK new : new = Len(workers) + 1
    OBVIOUS
  <2>5. /\ workers' \in Seq(WorkerType)
        /\ DOMAIN workers' = DOMAIN workers \cup {new}
        /\ workers'[new] = x /\ new \notin DOMAIN workers
        /\ \A w \in DOMAIN workers : workers'[w] = workers[w]
    <3>1. workers \in Seq(WorkerType)
      BY DEF ChanTypes
    <3> QED
      BY <2>1, <2>2, <2>4, <3>1, AddQp
  <2>6. ASSUME NEW p \in DOMAIN qps
        PROVE  /\ Tx(p)' = IF p = q THEN t ELSE Tx(p)
               /\ IndexOf(p)' = IndexOf(p) /\ Peer(p)' = Peer(p) /\ qps'[p] = qps[p]
    <3>1. IndexOf(p)' = IndexOf(p) /\ Peer(p)' = Peer(p) /\ qps'[p] = qps[p]
      BY Zenon DEF IndexOf, Peer
    <3>2. qps[p].node = n /\ IndexOf(p) = i <=> p = q
      BY Zenon, <1>1 DEF Places
    <3>3. qps[p].node \in Node /\ IndexOf(p) \in Indices
      BY Zenon, Located
    <3> QED
      BY <2>3, <3>1, <3>2, <3>3 DEF Tx
  <2>7. Tx(q) = NoTx
    BY <1>1, <2>1 DEF Tx
  <2>8. \A p \in DOMAIN qps : Tx(p)'.conn = Tx(p).conn
    BY SMTT(60), <2>2, <2>6, <2>7, EmptyTypes
  <2>9. ASSUME NEW m \in Node, NEW j \in Indices \ used[m]
        PROVE  tx'[m][j] = NoTx
    <3>1. i \in used[n]
      BY Zenon, <1>1, Located
    <3> QED
      BY <2>3, <3>1 DEF Places
  <2>10. ASSUME NEW p \in DOMAIN qps', Tx(p)' # NoTx
         PROVE  /\ Peer(p)' \in DOMAIN qps'
                /\ Tx(p)'.dqpn = qps'[Peer(p)'].qpn /\ Tx(p)'.ip = qps'[Peer(p)'].node
                /\ \E w \in DOMAIN workers' : Serves(w, p)'
    <3>1. CASE p = q
      <4>1. Serves(new, q)'
        BY SMTT(60), <1>1, <2>2, <2>5, <2>6 DEF Serves
      <4> QED
        BY SMTT(60), <2>1, <2>2, <2>5, <2>6, <3>1, <4>1 DEF Reaches
    <3>2. CASE p # q
      <4>1. PICK w \in DOMAIN workers : Serves(w, p)
        BY SMTT(60), <2>6, <2>10, <3>2 DEF Channels
      <4>2. w \in DOMAIN workers' /\ Serves(w, p)'
        BY SMTT(60), <2>5, <2>6, <4>1 DEF Serves
      <4> QED
        BY SMTT(60), <2>6, <2>10, <3>2, <4>2 DEF Channels
    <3> QED
      BY <3>1, <3>2
  <2>11. ASSUME NEW w \in DOMAIN workers', NEW v \in DOMAIN workers',
                workers'[w].node = workers'[v].node, workers'[w].port = workers'[v].port
         PROVE  w = v
    <3>1. \A u \in DOMAIN workers : ~(workers[u].node = n /\ workers[u].port = port)
      BY <2>1 DEF Listeners
    <3> QED
      BY <2>2, <2>5, <2>11, <3>1 DEF Channels
  <2>12. Channels'
    BY Zenon, <2>10, <2>11 DEF Channels
  <2>13. \A w \in DOMAIN workers' \ DOMAIN workers : workers'[w].conn = NoConn
    BY <2>2, <2>5
  <2> QED
    BY <2>3, <2>5, <2>8, <2>9, <2>12, <2>13 DEF Linked
<1> QED
  BY <1>2, <1>3

LEMMA UpdateChanOK ==
    ASSUME ChanOK, NEW q \in DOMAIN qps, NEW to \in AttrType, Reaches(q, to),
           SetAttr(q, to), Linked, UNCHANGED <<use, used, queue, conns, qps>>
    PROVE  ChanOK'
<1> USE DEF ChanOK
<1>1. PICK n \in Node, i \in Indices : n = qps[q].node /\ i = IndexOf(q)
  BY Zenon, Located
<1>2. /\ attr' \in [Node -> [Indices -> AttrType]]
      /\ \A m \in Node, j \in Indices : attr'[m][j] = IF m = n /\ j = i THEN to ELSE attr[m][j]
  <2>1. attr \in [Node -> [Indices -> AttrType]]
    BY DEF ChanTypes
  <2>2. attr' = [attr EXCEPT ![n][i] = to]
    BY Zenon, <1>1 DEF SetAttr
  <2> QED
    BY ZenonT(60), <2>1, <2>2, PutIn
<1>3. ASSUME NEW p \in DOMAIN qps
      PROVE  /\ Attr(p)' = IF p = q THEN to ELSE Attr(p)
             /\ IndexOf(p)' = IndexOf(p) /\ Peer(p)' = Peer(p) /\ qps'[p] = qps[p]
             /\ Waiting(p)' = Waiting(p) /\ Tx(p)'.conn = Tx(p).conn
  <2>1. /\ IndexOf(p)' = IndexOf(p) /\ Peer(p)' = Peer(p) /\ qps'[p] = qps[p]
        /\ Waiting(p)' = Waiting(p)
    BY Zenon DEF IndexOf, Peer, Waiting
  <2>2. qps[p].node = n /\ IndexOf(p) = i <=> p = q
    BY Zenon, <1>1 DEF Places
  <2>3. qps[p].node \in Node /\ IndexOf(p) \in Indices
    BY Zenon, Located
  <2>4. Attr(p)' = IF p = q THEN to ELSE Attr(p)
    BY SMTT(60), <1>2, <2>1, <2>2, <2>3 DEF Attr
  <2> QED
    BY Zenon, <2>1, <2>4 DEF Linked
<1>4. ChanTypes'
  BY SMTT(60), <1>2 DEF ChanTypes, Linked
<1>5. Places'
  <2>1. ASSUME NEW m \in Node, NEW j \in Indices \ used[m]
        PROVE  attr'[m][j] = NoAttr
    <3>1. i \in used[n]
      BY Zenon, <1>1, Located
    <3> QED
      BY <1>2, <3>1 DEF Places
  <2> QED
    BY SMTT(60), <1>3, <2>1 DEF Places, Linked
<1>6. Attrs'
  <2> SUFFICES ASSUME NEW p \in DOMAIN qps
               PROVE  Reaches(p, Attr(p))'
    BY Zenon DEF Attrs
  <2> QED
    BY <1>3 DEF Attrs, Reaches
<1>7. Connections'
  <2>1. ASSUME NEW p \in DOMAIN qps
        PROVE  Tx(p)'.conn \in 0 .. Len(conns')
    BY ZenonT(60), <1>3 DEF Connections
  <2>2. ASSUME NEW c \in DOMAIN conns
        PROVE  \E p \in DOMAIN qps :
                  /\ Tx(p)'.conn = c
                  /\ Peer(p)' \in DOMAIN qps' /\ conns'[c].worker \in DOMAIN workers'
                  /\ Serves(conns[c].worker, Peer(p))'
    <3>1. PICK p \in DOMAIN qps :
             /\ Tx(p).conn = c
             /\ Peer(p) \in DOMAIN qps /\ conns[c].worker \in DOMAIN workers
             /\ Serves(conns[c].worker, Peer(p))
      BY Zenon DEF Connections
    <3>2. Serves(conns[c].worker, Peer(p))'
      BY ZenonT(60), <1>3, <3>1 DEF Serves, Linked
    <3> QED
      BY <1>3, <3>1, <3>2 DEF Linked
  <2>3. ASSUME NEW p \in DOMAIN qps, NEW r \in DOMAIN qps,
               Tx(p)'.conn = Tx(r)'.conn, Tx(p)'.conn # NoConn
        PROVE  p = r
    BY <1>3, <2>3 DEF Connections
  <2>4. ASSUME NEW w \in DOMAIN workers', workers'[w].conn # NoConn
        PROVE  workers'[w].conn \in DOMAIN conns' /\ conns'[workers'[w].conn].worker = w
    <3>1. w \in DOMAIN workers /\ workers'[w] = workers[w]
      BY Zenon, <2>4 DEF Linked
    <3> QED
      BY Zenon, <2>4, <3>1 DEF Connections
  <2> QED
    BY Zenon, <2>1, <2>2, <2>3, <2>4 DEF Connections
<1>8. Flow'
  <2>1. ASSUME NEW p \in DOMAIN qps
        PROVE  Coming(p)' = Coming(p)
    <3>1. Sending(Peer(p))' = Sending(Peer(p))
      BY SMTT(60), <1>3 DEF Sending
    <3> QED
      BY Zenon, <1>3, <3>1 DEF Coming
  <2>2. ASSUME NEW p \in DOMAIN qps
        PROVE  InOrder(Coming(p), Peer(p))'
    BY <1>3, <2>1 DEF Flow, InOrder
  <2> QED
    BY ZenonT(60), <1>3, <2>1, <2>2 DEF Flow
<1> QED
  BY <1>4, <1>5, <1>6, <1>7, <1>8 DEF Linked

------------------------------------------------------------------------------
(* post_recv *)

LEMMA PutEntry ==
    ASSUME NEW S, NEW s \in Seq(S), NEW k \in DOMAIN s, NEW v \in S,
           NEW t, t = [s EXCEPT ![k] = v]
    PROVE  /\ t \in Seq(S) /\ DOMAIN t = DOMAIN s /\ Len(t) = Len(s)
           /\ \A j \in DOMAIN s : t[j] = IF j = k THEN v ELSE s[j]
  OBVIOUS

\* The queue pairs keep their places.
SamePlaces ==
    /\ qps' \in Seq(QpType) /\ DOMAIN qps' = DOMAIN qps /\ Len(qps') = Len(qps)
    /\ \A p \in DOMAIN qps : /\ qps'[p].node = qps[p].node /\ qps'[p].qpn = qps[p].qpn
                             /\ IndexOf(p)' = IndexOf(p) /\ Peer(p)' = Peer(p)

\* What post_recv does with the receive wr of q
Posted(q, wr) ==
    /\ tx' \in [Node -> [Indices -> TxType]]
    /\ conns' \in Seq(ConnType)
    /\ \A n \in Node : \A i \in Indices \ used[n] : tx'[n][i] = NoTx
    /\ Tx(q)'.conn # NoConn
    /\ \A p \in DOMAIN qps : /\ p # q => Tx(p)' = Tx(p)
                             /\ Tx(p)'.dqpn = Tx(p).dqpn /\ Tx(p)'.ip = Tx(p).ip
    /\ Connections'
    /\ Sending(q)' = Append(Sending(q), wr)
    /\ \A p \in DOMAIN qps : p # q => Sending(p)' = Sending(p)

\* The connection c has other data.
DataIs(c, y) ==
    /\ conns' \in Seq(ConnType) /\ DOMAIN conns' = DOMAIN conns /\ Len(conns') = Len(conns)
    /\ \A d \in DOMAIN conns : conns'[d].worker = conns[d].worker
    /\ \A d \in DOMAIN conns : d # c => conns'[d].data = conns[d].data
    /\ conns'[c].data = y

LEMMA SetData ==
    ASSUME conns \in Seq(ConnType), NEW c \in DOMAIN conns, NEW y, NEW v \in ConnType,
           v.worker = conns[c].worker, v.data = y, conns' = [conns EXCEPT ![c] = v]
    PROVE  DataIs(c, y)
<1>1. /\ conns' \in Seq(ConnType) /\ DOMAIN conns' = DOMAIN conns /\ Len(conns') = Len(conns)
      /\ \A d \in DOMAIN conns : conns'[d] = IF d = c THEN v ELSE conns[d]
  BY SMTT(60), PutEntry
<1> QED
  BY <1>1 DEF DataIs

LEMMA PostedOnConnection ==
    ASSUME ChanOK, NEW q \in DOMAIN qps, NEW wr \in Wr, NEW c \in DOMAIN conns,
           c = Tx(q).conn, DataIs(c, Append(conns[c].data, wr)),
           UNCHANGED <<use, used, tx, workers>>, SamePlaces
    PROVE  Posted(q, wr)
<1> USE DEF ChanOK
<1>1. ASSUME NEW p \in DOMAIN qps
      PROVE  Tx(p)' = Tx(p)
  BY ZenonT(60) DEF Tx, SamePlaces
<1>2. c # NoConn
  BY DEF NoConn, ChanTypes
<1>6. DOMAIN conns' = DOMAIN conns /\ Len(conns') = Len(conns)
  BY Zenon DEF DataIs
<1>7. \A d \in DOMAIN conns : conns'[d].worker = conns[d].worker
  BY Zenon DEF DataIs
<1>8. Connections'
  <2>1. ASSUME NEW p \in DOMAIN qps'
        PROVE  Tx(p)'.conn \in 0 .. Len(conns')
    BY ZenonT(60), <1>1, <1>6 DEF Connections, SamePlaces
  <2>2. ASSUME NEW d \in DOMAIN conns'
        PROVE  \E p \in DOMAIN qps' :
                  /\ Tx(p)'.conn = d
                  /\ Peer(p)' \in DOMAIN qps' /\ conns'[d].worker \in DOMAIN workers'
                  /\ Serves(conns[d].worker, Peer(p))'
    <3>1. PICK p \in DOMAIN qps :
             /\ Tx(p).conn = d
             /\ Peer(p) \in DOMAIN qps /\ conns[d].worker \in DOMAIN workers
             /\ Serves(conns[d].worker, Peer(p))
      BY Zenon, <1>6 DEF Connections
    <3>2. Serves(conns[d].worker, Peer(p))'
      BY SMTT(60), <1>6, <1>7, <3>1 DEF Serves, SamePlaces
    <3> QED
      BY <1>1, <1>6, <1>7, <3>1, <3>2 DEF SamePlaces
  <2>3. ASSUME NEW p \in DOMAIN qps', NEW r \in DOMAIN qps',
               Tx(p)'.conn = Tx(r)'.conn, Tx(p)'.conn # NoConn
        PROVE  p = r
    BY SMTT(60), <1>1, <2>3 DEF Connections, SamePlaces
  <2>4. ASSUME NEW w \in DOMAIN workers', workers'[w].conn # NoConn
        PROVE  workers'[w].conn \in DOMAIN conns' /\ conns'[workers'[w].conn].worker = w
    BY SMTT(60), <1>6, <1>7, <2>4 DEF Connections
  <2> QED
    BY Zenon, <2>1, <2>2, <2>3, <2>4 DEF Connections
<1>9. Sending(q)' = Append(Sending(q), wr)
  BY SMTT(60), <1>1, <1>2 DEF Sending, SamePlaces, DataIs
<1>10. ASSUME NEW p \in DOMAIN qps, p # q
       PROVE  Sending(p)' = Sending(p)
  <2>1. CASE Tx(p).conn = NoConn
    BY SMTT(60), <1>1, <2>1 DEF Sending, SamePlaces
  <2>2. CASE Tx(p).conn # NoConn
    <3>1. Tx(p).conn \in DOMAIN conns
      BY SMTT(60), <2>2 DEF Connections, NoConn, ChanTypes
    <3>2. Tx(p).conn # c
      BY <1>2, <1>10, <2>2 DEF Connections
    <3>3. conns'[Tx(p).conn].data = conns[Tx(p).conn].data
      BY ZenonT(60), <3>1, <3>2 DEF DataIs
    <3> QED
      BY SMTT(60), <1>1, <3>3 DEF Sending, SamePlaces
  <2> QED
    BY <2>1, <2>2
<1>11. /\ tx' \in [Node -> [Indices -> TxType]]
       /\ \A n \in Node : \A i \in Indices \ used[n] : tx'[n][i] = NoTx
  BY DEF ChanTypes, Places
<1> QED
  BY <1>1, <1>2, <1>8, <1>9, <1>10, <1>11 DEF Posted, DataIs

\* Queue pair q has the connection new, and the rest of the channels is as it was.
TxIs(q, new) ==
    /\ tx' \in [Node -> [Indices -> TxType]]
    /\ \A n \in Node : \A i \in Indices \ used[n] : tx'[n][i] = NoTx
    /\ Tx(q)'.conn = new /\ Tx(q)'.dqpn = Tx(q).dqpn /\ Tx(q)'.ip = Tx(q).ip
    /\ \A p \in DOMAIN qps : p # q => Tx(p)' = Tx(p)

LEMMA SetConn ==
    ASSUME ChanTypes, Places, NEW q \in DOMAIN qps, NEW new \in Nat, SamePlaces,
           NEW n \in Node, NEW i \in Indices, n = qps[q].node, i = IndexOf(q),
           NEW v \in TxType, v.conn = new, v.dqpn = Tx(q).dqpn, v.ip = Tx(q).ip,
           tx' = [tx EXCEPT ![n][i] = v]
    PROVE  TxIs(q, new)
<1>1. tx \in [Node -> [Indices -> TxType]] /\ i \in used[n] /\ Tx(q) = tx[n][i]
  BY Zenon DEF ChanTypes, Places, Tx
<1>2. /\ tx' \in [Node -> [Indices -> TxType]]
      /\ \A m \in Node, j \in Indices : tx'[m][j] = IF m = n /\ j = i THEN v ELSE tx[m][j]
  BY Zenon, <1>1, PutIn
<1>3. Tx(q)' = v
  <2>1. qps'[q].node = n /\ IndexOf(q)' = i
    BY Zenon DEF SamePlaces
  <2>2. tx'[n][i] = v
    BY Zenon, <1>2
  <2> QED
    BY Zenon, <2>1, <2>2 DEF Tx
<1>4. ASSUME NEW p \in DOMAIN qps, p # q
      PROVE  Tx(p)' = Tx(p)
  <2>1. qps'[p].node = qps[p].node /\ IndexOf(p)' = IndexOf(p)
    BY Zenon DEF SamePlaces
  <2>2. ~(qps[p].node = n /\ IndexOf(p) = i)
    BY Zenon, <1>4 DEF Places
  <2>3. qps[p].node \in Node /\ IndexOf(p) \in Indices
    BY Zenon, Located
  <2>4. tx'[qps[p].node][IndexOf(p)] = tx[qps[p].node][IndexOf(p)]
    BY ZenonT(60), <1>2, <2>2, <2>3
  <2> QED
    BY Zenon, <2>1, <2>4 DEF Tx
<1>5. ASSUME NEW m \in Node, NEW j \in Indices \ used[m]
      PROVE  tx'[m][j] = NoTx
  <2>1. m # n \/ j # i
    BY <1>1
  <2> QED
    BY ZenonT(60), <1>2, <2>1 DEF Places
<1> QED
  BY Zenon, <1>1, <1>2, <1>3, <1>4, <1>5 DEF TxIs

LEMMA PostedOnNewConnection ==
    ASSUME ChanOK, NEW q \in DOMAIN qps, NEW wr \in Wr, Tx(q).conn = NoConn,
           NEW w \in DOMAIN workers, Peer(q) \in DOMAIN qps, Serves(w, Peer(q)),
           NEW new, new = Len(conns) + 1, TxIs(q, new),
           NEW x, x = [worker |-> w, data |-> <<wr>>], conns' = Append(conns, x),
           UNCHANGED <<use, used, workers>>, SamePlaces
    PROVE  Posted(q, wr)
<1> USE DEF ChanOK
<1>2. new \in Nat /\ new # NoConn
  BY DEF ChanTypes, NoConn
<1>3. x \in ConnType /\ x.worker = w /\ x.data = <<wr>>
  BY SMTT(60) DEF ConnType, ChanTypes
<1>7. /\ conns' \in Seq(ConnType) /\ Len(conns') = new
      /\ DOMAIN conns' = DOMAIN conns \cup {new} /\ new \notin DOMAIN conns
      /\ conns'[new] = x /\ \A d \in DOMAIN conns : conns'[d] = conns[d]
  <2>1. conns \in Seq(ConnType)
    BY DEF ChanTypes
  <2> QED
    BY SMTT(60), <1>3, <2>1, AddQp
<1>4. Tx(q)'.conn = new
  BY Zenon DEF TxIs
<1>8. \A p \in DOMAIN qps : p # q => Tx(p)' = Tx(p)
  BY ZenonT(60) DEF TxIs
<1>9. ASSUME NEW p \in DOMAIN qps
      PROVE  Tx(p).conn \in 0 .. Len(conns) /\ Tx(p).conn # new
             /\ (Tx(p).conn # NoConn => Tx(p).conn \in DOMAIN conns)
  BY SMTT(60) DEF Connections, NoConn, ChanTypes
<1>10. Connections'
  <2>1. ASSUME NEW p \in DOMAIN qps'
        PROVE  Tx(p)'.conn \in 0 .. Len(conns')
    <3>1. p \in DOMAIN qps /\ Len(conns) \in Nat
      BY SMTT(60) DEF SamePlaces, ChanTypes
    <3>2. CASE p = q
      BY SMTT(60), <1>2, <1>4, <1>7, <1>8, <3>1, <3>2
    <3>3. CASE p # q
      BY SMTT(60), <1>2, <1>7, <1>8, <1>9, <3>1, <3>3
    <3> QED
      BY SMTT(60), <3>2, <3>3
  <2>2. ASSUME NEW d \in DOMAIN conns'
        PROVE  \E p \in DOMAIN qps' :
                  /\ Tx(p)'.conn = d
                  /\ Peer(p)' \in DOMAIN qps' /\ conns'[d].worker \in DOMAIN workers'
                  /\ Serves(conns[d].worker, Peer(p))'
    <3>1. CASE d = new
      <4>1. Serves(conns[d].worker, Peer(q))'
        BY SMTT(60), <1>3, <1>7, <3>1 DEF Serves, SamePlaces
      <4> QED
        BY SMTT(60), <1>3, <1>4, <1>7, <1>8, <3>1, <4>1 DEF SamePlaces
    <3>2. CASE d \in DOMAIN conns
      <4>1. PICK p \in DOMAIN qps :
               /\ Tx(p).conn = d
               /\ Peer(p) \in DOMAIN qps /\ conns[d].worker \in DOMAIN workers
               /\ Serves(conns[d].worker, Peer(p))
        BY Zenon, <3>2 DEF Connections
      <4>2. p # q
        BY SMTT(60), <3>2, <4>1 DEF NoConn, ChanTypes
      <4>3. Serves(conns[d].worker, Peer(p))'
        BY SMTT(60), <1>7, <3>2, <4>1 DEF Serves, SamePlaces
      <4> QED
        BY SMTT(60), <1>7, <1>8, <3>2, <4>1, <4>2, <4>3 DEF SamePlaces
    <3> QED
      BY SMTT(60), <1>7, <3>1, <3>2
  <2>3. ASSUME NEW p \in DOMAIN qps', NEW r \in DOMAIN qps',
               Tx(p)'.conn = Tx(r)'.conn, Tx(p)'.conn # NoConn
        PROVE  p = r
    <3>1. p \in DOMAIN qps /\ r \in DOMAIN qps
      BY SMTT(60) DEF SamePlaces
    <3>2. CASE p # q /\ r # q
      <4>1. Tx(p)' = Tx(p) /\ Tx(r)' = Tx(r)
        BY Zenon, <1>8, <3>1, <3>2
      <4> QED
        BY <2>3, <3>1, <4>1 DEF Connections
    <3>3. CASE p = q /\ r # q
      BY Zenon, <1>4, <1>8, <1>9, <2>3, <3>1, <3>3
    <3>4. CASE p # q /\ r = q
      BY ZenonT(60), <1>4, <1>8, <1>9, <2>3, <3>1, <3>4
    <3> QED
      BY SMTT(60), <3>2, <3>3, <3>4
  <2>4. ASSUME NEW u \in DOMAIN workers', workers'[u].conn # NoConn
        PROVE  workers'[u].conn \in DOMAIN conns' /\ conns'[workers'[u].conn].worker = u
    BY <1>7, <2>4 DEF Connections
  <2> QED
    BY Zenon, <2>1, <2>2, <2>3, <2>4 DEF Connections
<1>11. Sending(q)' = Append(Sending(q), wr)
  <2>1. Sending(q)' = <<wr>>
    BY <1>2, <1>3, <1>4, <1>7, <1>8 DEF Sending, SamePlaces
  <2>2. Sending(q) = <<>>
    BY ZenonT(60) DEF Sending
  <2> QED
    BY SMTT(60), <2>1, <2>2
<1>12. ASSUME NEW p \in DOMAIN qps, p # q
       PROVE  Sending(p)' = Sending(p)
  BY SMTT(60), <1>7, <1>8, <1>9, <1>12 DEF Sending, SamePlaces
<1> QED
  BY <1>2, <1>7, <1>10, <1>11, <1>12 DEF Posted, TxIs

\* The receive q posts next
NextWr(q) == [qp |-> q, n |-> qps[q].posted + 1]

\* One more receive is counted at q.
Counted(q) ==
    \A p \in DOMAIN qps : /\ qps'[p].got = qps[p].got
                          /\ qps'[p].posted = qps[p].posted + (IF p = q THEN 1 ELSE 0)

LEMMA PostedChanOK ==
    ASSUME ChanOK, NEW q \in DOMAIN qps, SamePlaces, Tx(q) # NoTx,
           NEW wr \in Wr, wr = NextWr(q), Posted(q, wr), Counted(q),
           UNCHANGED <<use, used, attr, queue, workers>>
    PROVE  ChanOK'
<1> USE DEF ChanOK
<1>0. ASSUME NEW p \in DOMAIN qps
      PROVE  /\ qps'[p].got = qps[p].got
             /\ p # q => qps'[p].posted = qps[p].posted
             /\ p = q => qps'[p].posted = qps[p].posted + 1
  <2>1. qps[p].posted \in Nat
    BY Zenon, Located
  <2> QED
    BY <2>1 DEF Counted
<1>1. ASSUME NEW p \in DOMAIN qps
      PROVE  Attr(p)' = Attr(p) /\ Waiting(p)' = Waiting(p)
  BY ZenonT(60) DEF Attr, Waiting, SamePlaces
<1>2. ChanTypes'
  BY SMTT(60) DEF ChanTypes, SamePlaces, Posted
<1>3. Places'
  <2>1. ASSUME NEW p \in DOMAIN qps
        PROVE  qps'[p].node = use'.plan[p].node /\ IndexOf(p)' \in used'[qps'[p].node]
    BY SMTT(60) DEF Places, SamePlaces
  <2>2. ASSUME NEW p \in DOMAIN qps, NEW r \in DOMAIN qps,
               qps'[p].node = qps'[r].node, IndexOf(p)' = IndexOf(r)'
        PROVE  p = r
    BY SMTT(60), <2>2 DEF Places, SamePlaces
  <2>3. ASSUME NEW m \in Node, NEW j \in Indices \ used[m]
        PROVE  attr'[m][j] = NoAttr /\ tx'[m][j] = NoTx /\ queue'[m][j] = <<>>
    BY SMTT(60) DEF Places, Posted
  <2> QED
    BY ZenonT(60), <2>1, <2>2, <2>3 DEF Places, SamePlaces
<1>4. Attrs'
  <2> SUFFICES ASSUME NEW p \in DOMAIN qps
               PROVE  Reaches(p, Attr(p))'
    BY ZenonT(60) DEF Attrs, SamePlaces
  <2> QED
    BY <1>1 DEF Attrs, Reaches, SamePlaces
<1>5. Channels'
  <2>1. ASSUME NEW p \in DOMAIN qps, Tx(p)' # NoTx
        PROVE  /\ Peer(p)' \in DOMAIN qps'
               /\ Tx(p)'.dqpn = qps'[Peer(p)'].qpn /\ Tx(p)'.ip = qps'[Peer(p)'].node
               /\ \E w \in DOMAIN workers' : Serves(w, p)'
    <3>1. Tx(p) # NoTx
      BY Zenon, <2>1 DEF Posted
    <3>2. PICK w \in DOMAIN workers : Serves(w, p)
      BY Zenon, <3>1 DEF Channels
    <3>3. w \in DOMAIN workers' /\ Serves(w, p)'
      BY ZenonT(60), <3>2 DEF Serves, SamePlaces
    <3> QED
      BY <3>1, <3>3 DEF Channels, Posted, SamePlaces
  <2> QED
    BY SMTT(60), <2>1 DEF Channels, SamePlaces
<1>6. ASSUME NEW p \in DOMAIN qps
      PROVE  /\ InOrder(Coming(p), Peer(p))'
             /\ Len(Coming(p)') = IF Peer(p)' \in DOMAIN qps' THEN qps'[Peer(p)'].posted ELSE 0
             /\ Tx(p)'.conn = NoConn => qps'[p].posted = 0
  <2>0. Tx(p)'.conn = NoConn => qps'[p].posted = 0
    <3>1. CASE p = q
      BY Zenon, <3>1 DEF Posted
    <3>2. CASE p # q
      <4>1. qps'[p].posted = qps[p].posted
        BY ZenonT(60), <1>0, <3>2
      <4> QED
        BY Zenon, <3>2, <4>1 DEF Posted, Flow
    <3> QED
      BY <3>1, <3>2
  <2>1. CASE Peer(p) = q
    <3> DEFINE a == qps[p].got \o Waiting(p)
    <3>1. a \in Seq(Wr) /\ Sending(q) \in Seq(Wr)
      <4>1. qps[p].got \in Seq(Wr) /\ Waiting(p) \in Seq(Wr)
        BY Zenon, Located
      <4>2. CASE Tx(q).conn = NoConn
        BY SMTT(60), <4>1, <4>2 DEF Sending
      <4>3. CASE Tx(q).conn # NoConn
        <5>1. Tx(q).conn \in DOMAIN conns
          BY <4>3 DEF Connections, NoConn, ChanTypes
        <5>2. conns[Tx(q).conn] \in ConnType
          BY Zenon, <5>1, Element DEF ChanTypes
        <5>3. conns[Tx(q).conn].data \in Seq(Wr)
          BY Zenon, <5>2 DEF ConnType
        <5> QED
          BY SMTT(60), <4>1, <4>3, <5>3 DEF Sending
      <4> QED
        BY <4>2, <4>3
    <3>2. Coming(p)' = a \o Append(Sending(q), wr)
      BY Zenon, <1>0, <1>1, <2>1 DEF Coming, Posted, SamePlaces
    <3>3. Coming(p) = a \o Sending(q)
      BY Zenon, <2>1 DEF Coming
    <3> HIDE DEF a
    <3>4. Coming(p)' = Append(Coming(p), wr) /\ Coming(p) \in Seq(Wr)
      <4>1. a \o Append(Sending(q), wr) = Append(a \o Sending(q), wr)
        BY <3>1, SendOne
      <4>2. a \o Sending(q) \in Seq(Wr)
        BY SMTT(60), <3>1
      <4> QED
        BY Zenon, <3>2, <3>3, <4>1, <4>2
    <3>5. InOrder(Coming(p), q) /\ Len(Coming(p)) = qps[q].posted
      BY SMTT(60), <2>1 DEF Flow
    <3>6. InOrder(Append(Coming(p), wr), q) /\ Len(Append(Coming(p), wr)) = qps[q].posted + 1
      BY <3>4, <3>5, InOrderAppend DEF NextWr
    <3>7. Peer(p)' = q /\ DOMAIN qps' = DOMAIN qps /\ qps'[q].posted = qps[q].posted + 1
      BY ZenonT(60), <1>0, <2>1 DEF SamePlaces
    <3>8. InOrder(Coming(p), Peer(p))'
      BY SMTT(60), <3>4, <3>6, <3>7 DEF InOrder
    <3> QED
      BY <2>0, <3>4, <3>6, <3>7, <3>8
  <2>2. CASE Peer(p) # q
    <3>1. Sending(Peer(p))' = Sending(Peer(p))
      <4>1. CASE Peer(p) \in DOMAIN qps
        BY Zenon, <2>2, <4>1 DEF Posted, SamePlaces
      <4>2. CASE Peer(p) \notin DOMAIN qps
        BY Zenon, <4>2 DEF Sending, SamePlaces
      <4> QED
        BY <4>1, <4>2
    <3>2. Coming(p)' = Coming(p) /\ Peer(p)' = Peer(p)
      BY ZenonT(60), <1>0, <1>1, <3>1 DEF Coming, SamePlaces
    <3>3. InOrder(Coming(p), Peer(p))'
      BY <3>2 DEF InOrder, Flow
    <3>4. Peer(p)' \in DOMAIN qps' => qps'[Peer(p)'].posted = qps[Peer(p)].posted
      BY ZenonT(60), <1>0, <2>2, <3>2 DEF SamePlaces
    <3> QED
      BY <2>0, <3>2, <3>3, <3>4 DEF Flow, SamePlaces
  <2> QED
    BY SMTT(60), <2>1, <2>2
<1>7. Flow'
  BY <1>6 DEF Flow, SamePlaces
<1> QED
  BY SMTT(60), <1>2, <1>3, <1>4, <1>5, <1>7 DEF Posted

\* One more receive is posted, and the rest of the queue pair is as before.
LEMMA CountPosted ==
    ASSUME ChanTypes, NEW q \in DOMAIN qps, UNCHANGED use,
           qps' = [qps EXCEPT ![q].posted = @ + 1]
    PROVE  SamePlaces /\ Counted(q)
<1>1. qps \in Seq(QpType) /\ \A p \in DOMAIN qps : qps[p] \in QpType
  BY Zenon, Element DEF ChanTypes
<1>0. qps[q].posted + 1 \in Nat
  BY <1>1 DEF QpType
<1>2. PICK c, v : c \in Nat /\ c = qps[q].posted + 1 /\ v = [qps[q] EXCEPT !.posted = c]
  BY Zenon, <1>0
<1>3. /\ v \in QpType /\ v.node = qps[q].node /\ v.qpn = qps[q].qpn /\ v.got = qps[q].got
      /\ v.posted = c
  <2>1. PICK x \in QpType : x = qps[q]
    BY Zenon, <1>1
  <2>2. v = [x EXCEPT !.posted = c]
    BY Zenon, <1>2, <2>1
  <2>3. /\ v \in QpType /\ v.node = x.node /\ v.qpn = x.qpn /\ v.got = x.got
        /\ v.posted = c
    BY Zenon, <1>2, <2>2 DEF QpType
  <2> QED
    BY Zenon, <2>1, <2>3
<1>4. qps' = [qps EXCEPT ![q] = v]
  BY Zenon, <1>2
<1>5. /\ qps' \in Seq(QpType) /\ DOMAIN qps' = DOMAIN qps /\ Len(qps') = Len(qps)
      /\ \A p \in DOMAIN qps : qps'[p] = IF p = q THEN v ELSE qps[p]
  BY SMTT(60), <1>1, <1>3, <1>4, PutEntry
<1>6. \A p \in DOMAIN qps : qps[p].posted \in Nat
  BY Zenon, <1>1 DEF QpType
<1> QED
  BY <1>2, <1>3, <1>5, <1>6 DEF SamePlaces, Counted, IndexOf, Peer

LEMMA PostRecvChanOK ==
    ASSUME ChanOK, NEW q \in DOMAIN qps, use.handshake, PostRecv(q)
    PROVE  ChanOK' /\ QpsStay
<1> USE DEF ChanOK
<1>1. PICK n \in Node, i \in Indices : n = qps[q].node /\ i = IndexOf(q) /\ Tx(q) = tx[n][i]
  BY Zenon, Located DEF Tx
<1>2. PICK wr : wr = [qp |-> q, n |-> qps[q].posted + 1]
  BY Zenon
<1>3. wr \in Wr /\ wr = NextWr(q)
  <2>1. qps[q].posted \in Nat
    BY Zenon, Located
  <2>2. q \in Nat
    BY DEF ChanTypes
  <2> QED
    BY <1>2, <2>1, <2>2 DEF Wr, NextWr
<1>4. UNCHANGED <<use, used, attr, queue, workers>> /\ Connected(q)
  BY Zenon DEF PostRecv
<1>5. SamePlaces /\ Counted(q)
  <2>1. qps' = [qps EXCEPT ![q].posted = @ + 1]
    BY Zenon DEF PostRecv
  <2> QED
    BY Zenon, <1>4, <2>1, CountPosted
<1>6. /\ Tx(q) # NoTx /\ Peer(q) \in DOMAIN qps /\ Tx(Peer(q)) # NoTx
      /\ Tx(q).dqpn = qps[Peer(q)].qpn /\ Tx(q).ip = qps[Peer(q)].node
  <2>1. Tx(q) # NoTx /\ Peer(q) \in DOMAIN qps /\ Tx(Peer(q)) # NoTx
    BY <1>4 DEF Connected, Live, Tx
  <2> QED
    BY ZenonT(60), <2>1 DEF Channels
<1>7. PICK u \in DOMAIN workers : Serves(u, Peer(q))
  BY Zenon, <1>6 DEF Channels
<1>8. Listeners(Tx(q).ip, qpn_to_port(Tx(q).dqpn)) = {u}
  <2>1. u \in Listeners(Tx(q).ip, qpn_to_port(Tx(q).dqpn))
    BY SMTT(60), <1>6, <1>7 DEF Listeners, Serves
  <2>2. ASSUME NEW w \in Listeners(Tx(q).ip, qpn_to_port(Tx(q).dqpn))
        PROVE  w = u
    BY <1>6, <1>7 DEF Listeners, Serves, Channels
  <2> QED
    BY SMTT(60), <2>1, <2>2
<1>9. Posted(q, wr)
  <2>1. CASE Tx(q).conn # NoConn
    <3>1. Tx(q).conn \in DOMAIN conns
      BY <2>1 DEF Connections, NoConn, ChanTypes
    <3>2. PICK c \in DOMAIN conns : c = Tx(q).conn
      BY <3>1
    <3>3. conns' = [conns EXCEPT ![c].data = Append(@, wr)] /\ UNCHANGED tx
      <4>1. \/ conns' = [conns EXCEPT ![c].data = Append(@, wr)] /\ UNCHANGED tx
            \/ Tx(q).conn = NoConn
            \/ Tx(q) = NoTx
        BY Zenon, <1>1, <1>2, <3>2 DEF PostRecv
      <4> QED
        BY Zenon, <2>1, <1>6, <4>1
    <3>4. conns \in Seq(ConnType) /\ conns[c] \in ConnType
      BY Zenon, Element DEF ChanTypes
    <3>5. PICK y : y = Append(conns[c].data, wr)
      BY Zenon
    <3>6. PICK v : v = [conns[c] EXCEPT !.data = y]
      BY Zenon
    <3>7. v \in ConnType /\ v.worker = conns[c].worker /\ v.data = y
      <4>1. conns[c].data \in Seq(Wr)
        BY Zenon, <3>4 DEF ConnType
      <4>2. y \in Seq(Wr)
        BY <1>3, <3>5, <4>1
      <4> QED
        BY SMTT(60), <3>4, <3>6, <4>2 DEF ConnType
    <3>8. conns' = [conns EXCEPT ![c] = v]
      BY Zenon, <3>3, <3>5, <3>6
    <3>9. DataIs(c, y)
      BY Zenon, <3>4, <3>7, <3>8, SetData
    <3> QED
      BY ZenonT(60), <1>3, <1>4, <1>5, <3>2, <3>3, <3>5, <3>9, PostedOnConnection
  <2>2. CASE Tx(q).conn = NoConn
    <3>1. /\ conns' = Append(conns, [worker |-> u, data |-> <<wr>>])
          /\ tx' = [tx EXCEPT ![n][i].conn = Len(conns) + 1]
      <4>1. \/ /\ \E w \in Listeners(Tx(q).ip, qpn_to_port(Tx(q).dqpn)) :
                     conns' = Append(conns, [worker |-> w, data |-> <<wr>>])
               /\ tx' = [tx EXCEPT ![n][i].conn = Len(conns) + 1]
            \/ Tx(q).conn # NoConn
            \/ Tx(q) = NoTx
            \/ Listeners(Tx(q).ip, qpn_to_port(Tx(q).dqpn)) = {}
        BY Zenon, <1>1, <1>2 DEF PostRecv
      <4> QED
        BY Zenon, <1>6, <1>8, <2>2, <4>1
    <3>2. PICK new \in Nat : new = Len(conns) + 1
      BY DEF ChanTypes
    <3>3. PICK v : v = [Tx(q) EXCEPT !.conn = new]
      BY Zenon
    <3>4. v \in TxType /\ v.conn = new /\ v.dqpn = Tx(q).dqpn /\ v.ip = Tx(q).ip
      BY Zenon, <3>3, Located DEF TxType
    <3>5. tx' = [tx EXCEPT ![n][i] = v]
      BY Zenon, <1>1, <3>1, <3>2, <3>3
    <3>6. TxIs(q, new)
      BY Zenon, <1>1, <1>5, <3>4, <3>5, SetConn
    <3>7. PICK x : x = [worker |-> u, data |-> <<wr>>]
      BY Zenon
    <3>8. conns' = Append(conns, x)
      BY Zenon, <3>1, <3>7
    <3> QED
      BY Zenon, <1>3, <1>4, <1>5, <1>6, <1>7, <2>2, <3>2, <3>6, <3>7, <3>8, PostedOnNewConnection
  <2> QED
    BY <2>1, <2>2
<1>10. ChanOK'
  BY Zenon, <1>2, <1>3, <1>4, <1>5, <1>6, <1>9, PostedChanOK
<1> QED
  BY Zenon, <1>5, <1>10 DEF QpsStay, SamePlaces

------------------------------------------------------------------------------
(* The threads, and send *)

\* The threads listen as before, and read connections that are made to them.
SameThreads ==
    /\ workers' \in Seq(WorkerType) /\ DOMAIN workers' = DOMAIN workers
    /\ \A w \in DOMAIN workers :
          /\ workers'[w].node = workers[w].node /\ workers'[w].port = workers[w].port
          /\ workers'[w].index = workers[w].index
          /\ workers'[w].conn # NoConn =>
                workers'[w].conn \in DOMAIN conns /\ conns[workers'[w].conn].worker = w

\* The connections are those there were.
SameConns ==
    /\ conns' \in Seq(ConnType) /\ DOMAIN conns' = DOMAIN conns /\ Len(conns') = Len(conns)
    /\ \A c \in DOMAIN conns : conns'[c].worker = conns[c].worker

\* No receive is posted, lost or overtaken.
SameFlow ==
    /\ queue' \in [Node -> [Indices -> Seq(Wr)]]
    /\ \A n \in Node : \A i \in Indices \ used[n] : queue'[n][i] = <<>>
    /\ \A p \in DOMAIN qps : qps'[p].posted = qps[p].posted /\ Coming(p)' = Coming(p)

\* A receive may move on, and a thread accept a connection, with nothing else changed.
LEMMA MovedChanOK ==
    ASSUME ChanOK, SamePlaces, UNCHANGED <<use, used, attr, tx>>,
           SameThreads, SameConns, SameFlow
    PROVE  ChanOK'
<1> USE DEF ChanOK
<1>1. ASSUME NEW p \in DOMAIN qps
      PROVE  Attr(p)' = Attr(p) /\ Tx(p)' = Tx(p)
  BY ZenonT(60) DEF Attr, Tx, SamePlaces
<1>2. ChanTypes'
  BY SMTT(60) DEF ChanTypes, SamePlaces, SameThreads, SameConns, SameFlow
<1>3. Places'
  <2>1. ASSUME NEW p \in DOMAIN qps
        PROVE  qps'[p].node = use'.plan[p].node /\ IndexOf(p)' \in used'[qps'[p].node]
    BY SMTT(60) DEF Places, SamePlaces
  <2>2. ASSUME NEW p \in DOMAIN qps, NEW r \in DOMAIN qps,
               qps'[p].node = qps'[r].node, IndexOf(p)' = IndexOf(r)'
        PROVE  p = r
    BY SMTT(60), <2>2 DEF Places, SamePlaces
  <2>3. ASSUME NEW m \in Node, NEW j \in Indices \ used[m]
        PROVE  attr'[m][j] = NoAttr /\ tx'[m][j] = NoTx /\ queue'[m][j] = <<>>
    BY DEF Places, SameFlow
  <2> QED
    BY SMTT(60), <2>1, <2>2, <2>3 DEF Places, SamePlaces
<1>4. Attrs'
  <2> SUFFICES ASSUME NEW p \in DOMAIN qps
               PROVE  Reaches(p, Attr(p))'
    BY Zenon DEF Attrs, SamePlaces
  <2>1. Reaches(p, Attr(p))
    BY Zenon DEF Attrs
  <2> QED
    BY Zenon, <1>1, <2>1 DEF Reaches, SamePlaces
<1>5. ASSUME NEW w \in DOMAIN workers, NEW p \in DOMAIN qps, Serves(w, p)
      PROVE  w \in DOMAIN workers' /\ Serves(w, p)'
  BY Zenon, <1>5 DEF Serves, SamePlaces, SameThreads
<1>6. Channels'
  <2>1. ASSUME NEW p \in DOMAIN qps, Tx(p)' # NoTx
        PROVE  /\ Peer(p)' \in DOMAIN qps'
               /\ Tx(p)'.dqpn = qps'[Peer(p)'].qpn /\ Tx(p)'.ip = qps'[Peer(p)'].node
               /\ \E w \in DOMAIN workers' : Serves(w, p)'
    <3>1. PICK w \in DOMAIN workers : Serves(w, p)
      BY Zenon, <1>1, <2>1 DEF Channels
    <3>2. w \in DOMAIN workers' /\ Serves(w, p)'
      BY Zenon, <1>5, <3>1
    <3>3. /\ Tx(p) # NoTx /\ Peer(p) \in DOMAIN qps
          /\ Tx(p).dqpn = qps[Peer(p)].qpn /\ Tx(p).ip = qps[Peer(p)].node
      BY Zenon, <1>1, <2>1 DEF Channels
    <3>4. /\ Peer(p)' = Peer(p) /\ DOMAIN qps' = DOMAIN qps
          /\ qps'[Peer(p)].qpn = qps[Peer(p)].qpn /\ qps'[Peer(p)].node = qps[Peer(p)].node
      BY Zenon, <3>3 DEF SamePlaces
    <3> QED
      BY Zenon, <1>1, <3>2, <3>3, <3>4
  <2>2. ASSUME NEW w \in DOMAIN workers, NEW u \in DOMAIN workers,
               workers'[w].node = workers'[u].node, workers'[w].port = workers'[u].port
        PROVE  w = u
    BY Zenon, <2>2 DEF Channels, SameThreads
  <2> QED
    BY Zenon, <2>1, <2>2 DEF Channels, SamePlaces, SameThreads
<1>7. Connections'
  <2>1. ASSUME NEW p \in DOMAIN qps
        PROVE  Tx(p)'.conn \in 0 .. Len(conns')
    BY Zenon, <1>1 DEF Connections, SameConns
  <2>2. ASSUME NEW d \in DOMAIN conns
        PROVE  \E p \in DOMAIN qps' :
                  /\ Tx(p)'.conn = d
                  /\ Peer(p)' \in DOMAIN qps' /\ conns'[d].worker \in DOMAIN workers'
                  /\ Serves(conns[d].worker, Peer(p))'
    <3>1. PICK p \in DOMAIN qps :
             /\ Tx(p).conn = d
             /\ Peer(p) \in DOMAIN qps /\ conns[d].worker \in DOMAIN workers
             /\ Serves(conns[d].worker, Peer(p))
      BY Zenon DEF Connections
    <3>2. PICK w \in DOMAIN workers, r \in DOMAIN qps : w = conns[d].worker /\ r = Peer(p)
      BY Zenon, <3>1
    <3>3. w \in DOMAIN workers' /\ Serves(w, r)' /\ conns'[d].worker = w /\ Peer(p)' = r
      BY Zenon, <1>5, <3>1, <3>2 DEF SamePlaces, SameConns
    <3>4. Tx(p)'.conn = d /\ DOMAIN qps' = DOMAIN qps
      BY Zenon, <1>1, <3>1 DEF SamePlaces
    <3>5. Serves(conns[d].worker, Peer(p))'
      BY Zenon, <3>3 DEF Serves
    <3> QED
      BY Zenon, <3>2, <3>3, <3>4, <3>5
  <2>3. ASSUME NEW p \in DOMAIN qps, NEW r \in DOMAIN qps,
               Tx(p)'.conn = Tx(r)'.conn, Tx(p)'.conn # NoConn
        PROVE  p = r
    BY ZenonT(60), <1>1, <2>3 DEF Connections
  <2>4. ASSUME NEW w \in DOMAIN workers, workers'[w].conn # NoConn
        PROVE  workers'[w].conn \in DOMAIN conns' /\ conns'[workers'[w].conn].worker = w
    BY Zenon, <2>4 DEF SameThreads, SameConns
  <2> QED
    <3>1. DOMAIN qps' = DOMAIN qps /\ DOMAIN conns' = DOMAIN conns /\ DOMAIN workers' = DOMAIN workers
      BY Zenon DEF SamePlaces, SameConns, SameThreads
    <3> QED
      BY Zenon, <2>1, <2>2, <2>3, <2>4, <3>1 DEF Connections
<1>8. Flow'
  <2>1. ASSUME NEW p \in DOMAIN qps
        PROVE  InOrder(Coming(p), Peer(p))'
    <3>1. Coming(p)' = Coming(p) /\ Peer(p)' = Peer(p) /\ InOrder(Coming(p), Peer(p))
      BY Zenon DEF Flow, SamePlaces, SameFlow
    <3> QED
      BY Zenon, <3>1 DEF InOrder
  <2>2. ASSUME NEW p \in DOMAIN qps
        PROVE  Len(Coming(p)') = IF Peer(p)' \in DOMAIN qps' THEN qps'[Peer(p)'].posted ELSE 0
    <3>1. Peer(p)' = Peer(p) /\ DOMAIN qps' = DOMAIN qps
      BY Zenon DEF SamePlaces
    <3>2. Peer(p) \in DOMAIN qps => qps'[Peer(p)].posted = qps[Peer(p)].posted
      BY Zenon DEF SameFlow
    <3>3. Coming(p)' = Coming(p)
      BY Zenon DEF SameFlow
    <3> QED
      BY <3>1, <3>2, <3>3 DEF Flow
  <2>3. ASSUME NEW p \in DOMAIN qps
        PROVE  Tx(p)'.conn = NoConn => qps'[p].posted = 0
    BY Zenon, <1>1 DEF Flow, SameFlow
  <2>4. DOMAIN qps' = DOMAIN qps
    BY Zenon DEF SamePlaces
  <2> QED
    BY Zenon, <2>1, <2>2, <2>3, <2>4 DEF Flow
<1> QED
  BY <1>2, <1>3, <1>4, <1>6, <1>7, <1>8

LEMMA SameQps ==
    ASSUME ChanTypes, UNCHANGED <<use, qps>>
    PROVE  SamePlaces
  BY DEF SamePlaces, ChanTypes, IndexOf, Peer

LEMMA AcceptChanOK ==
    ASSUME ChanOK, NEW w \in DOMAIN workers, Accept(w)
    PROVE  ChanOK'
<1> USE DEF ChanOK
<1>1. UNCHANGED <<use, used, attr, tx, queue, conns, qps>>
  BY Zenon DEF Accept
<1>2. PICK c \in DOMAIN conns : conns[c].worker = w /\ workers' = [workers EXCEPT ![w].conn = c]
  BY Zenon DEF Accept
<1>3. SamePlaces
  BY Zenon, <1>1, SameQps
<1>4. workers \in Seq(WorkerType) /\ workers[w] \in WorkerType /\ c \in Nat
  <2>1. c \in Nat
    BY DEF ChanTypes
  <2> QED
    BY Zenon, <2>1, Element DEF ChanTypes
<1>5. PICK x : x = [workers[w] EXCEPT !.conn = c]
  BY Zenon
<1>6. /\ x \in WorkerType /\ x.node = workers[w].node /\ x.port = workers[w].port
      /\ x.index = workers[w].index /\ x.conn = c
  BY Zenon, <1>4, <1>5 DEF WorkerType
<1>7. workers' = [workers EXCEPT ![w] = x]
  BY Zenon, <1>2, <1>5
<1>8. /\ workers' \in Seq(WorkerType) /\ DOMAIN workers' = DOMAIN workers
      /\ \A u \in DOMAIN workers : workers'[u] = IF u = w THEN x ELSE workers[u]
  BY SMTT(60), <1>4, <1>6, <1>7, PutEntry
<1>9. ASSUME NEW u \in DOMAIN workers
      PROVE  /\ workers'[u].node = workers[u].node /\ workers'[u].port = workers[u].port
             /\ workers'[u].index = workers[u].index
             /\ workers'[u].conn # NoConn =>
                   workers'[u].conn \in DOMAIN conns /\ conns[workers'[u].conn].worker = u
  <2>1. CASE u = w
    BY Zenon, <1>2, <1>6, <1>8, <2>1
  <2>2. CASE u # w
    BY Zenon, <1>8, <2>2 DEF Connections
  <2> QED
    BY <2>1, <2>2
<1>10. ASSUME NEW p \in DOMAIN qps
       PROVE  Coming(p)' = Coming(p)
  BY ZenonT(60), <1>1 DEF Coming, Waiting, Sending, Tx, IndexOf, Peer
<1>11. /\ queue' \in [Node -> [Indices -> Seq(Wr)]] /\ conns' \in Seq(ConnType)
       /\ \A n \in Node : \A i \in Indices \ used[n] : queue'[n][i] = <<>>
  BY <1>1 DEF ChanTypes, Places
<1>12. \A p \in DOMAIN qps : qps'[p].posted = qps[p].posted /\ Coming(p)' = Coming(p)
  BY Zenon, <1>1, <1>10
<1>13. SameThreads
  BY Zenon, <1>8, <1>9 DEF SameThreads
<1>14. SameConns /\ SameFlow
  BY Zenon, <1>1, <1>11, <1>12 DEF SameConns, SameFlow
<1> HIDE DEF ChanOK
<1> QED
  BY Zenon, <1>1, <1>3, <1>13, <1>14, MovedChanOK

LEMMA ReceiveChanOK ==
    ASSUME ChanOK, NEW w \in DOMAIN workers, Receive(w)
    PROVE  ChanOK'
<1> USE DEF ChanOK
<1>1. UNCHANGED <<use, used, attr, tx, workers, qps>>
  BY Zenon DEF Receive
<1>2. PICK c \in DOMAIN conns :
         /\ c = workers[w].conn /\ conns[c].worker = w /\ conns[c].data # <<>>
         /\ queue' = [queue EXCEPT ![workers[w].node][workers[w].index] =
                         Append(@, Head(conns[c].data))]
         /\ conns' = [conns EXCEPT ![c].data = Tail(@)]
  BY ZenonT(60) DEF Receive, Enqueue, Connections
<1>3. PICK q \in DOMAIN qps :
         /\ Tx(q).conn = c /\ Peer(q) \in DOMAIN qps /\ Serves(w, Peer(q))
  <2>1. \E q \in DOMAIN qps :
           Tx(q).conn = c /\ Peer(q) \in DOMAIN qps /\ Serves(conns[c].worker, Peer(q))
    BY Zenon DEF Connections
  <2>2. conns[c].worker = w
    BY ZenonT(60), <1>2
  <2> QED
    BY <2>1, <2>2
<1>4. PICK p \in DOMAIN qps : p = Peer(q)
  BY <1>3
<1>5. Peer(p) = q /\ c # NoConn
  <2>1. p \in DOMAIN use.plan /\ q \in DOMAIN use.plan
    BY Zenon, Located
  <2>2. Peer(p) = q
    BY Zenon, <1>4, <2>1 DEF ChanTypes, Peer
  <2>3. c # NoConn
    BY DEF ChanTypes, NoConn
  <2> QED
    BY <2>2, <2>3
<1>6. PICK n \in Node, i \in Indices :
         n = qps[p].node /\ i = IndexOf(p) /\ Waiting(p) = queue[n][i] /\ i \in used[n]
  BY Zenon, Located DEF Waiting
<1>7. conns \in Seq(ConnType) /\ conns[c] \in ConnType /\ conns[c].data \in Seq(Wr)
  <2>1. conns \in Seq(ConnType) /\ conns[c] \in ConnType
    BY Zenon, Element DEF ChanTypes
  <2> QED
    BY Zenon, <2>1 DEF ConnType
<1>8. PICK d, y, x, v :
         /\ d \in Seq(Wr) /\ d = conns[c].data /\ y = Tail(d) /\ x = Append(queue[n][i], Head(d))
         /\ v = [conns[c] EXCEPT !.data = y]
  BY Zenon, <1>7
<1>9. d \in Seq(Wr) /\ d # <<>> /\ y \in Seq(Wr) /\ x \in Seq(Wr)
  <2>1. queue[n][i] \in Seq(Wr)
    BY DEF ChanTypes
  <2> QED
    BY SMTT(60), <1>2, <1>8, <2>1
<1>10. v \in ConnType /\ v.worker = conns[c].worker /\ v.data = y
  BY ZenonT(60), <1>7, <1>8, <1>9 DEF ConnType
<1>11. conns' = [conns EXCEPT ![c] = v]
  BY Zenon, <1>2, <1>8
<1>12. DataIs(c, y)
  BY Zenon, <1>7, <1>10, <1>11, SetData
<1>13. queue' = [queue EXCEPT ![n][i] = x]
  BY Zenon, <1>2, <1>3, <1>4, <1>6, <1>8 DEF Serves
<1>14. /\ queue' \in [Node -> [Indices -> Seq(Wr)]]
       /\ \A m \in Node, j \in Indices : queue'[m][j] = IF m = n /\ j = i THEN x ELSE queue[m][j]
  <2>1. queue \in [Node -> [Indices -> Seq(Wr)]]
    BY DEF ChanTypes
  <2> QED
    BY ZenonT(60), <1>9, <1>13, <2>1, PutIn
<1>15. SamePlaces
  BY Zenon, <1>1, SameQps
<1>16. ASSUME NEW r \in DOMAIN qps
       PROVE  Waiting(r)' = IF r = p THEN x ELSE Waiting(r)
  <2>1. qps'[r].node = qps[r].node /\ IndexOf(r)' = IndexOf(r)
    BY Zenon, <1>15 DEF SamePlaces
  <2>2. qps[r].node = n /\ IndexOf(r) = i <=> r = p
    BY Zenon, <1>6 DEF Places
  <2>3. qps[r].node \in Node /\ IndexOf(r) \in Indices
    BY Zenon, Located
  <2> QED
    BY <1>14, <2>1, <2>2, <2>3 DEF Waiting
<1>17. ASSUME NEW r
       PROVE  Sending(r)' = IF r = q THEN y ELSE Sending(r)
  <2>1. (r \in DOMAIN qps)' = (r \in DOMAIN qps) /\ Tx(r)' = Tx(r)
    BY ZenonT(60), <1>1 DEF Tx, IndexOf
  <2>2. CASE r = q
    BY SMTT(60), <1>3, <1>5, <1>12, <2>1, <2>2 DEF Sending, DataIs
  <2>3. CASE r # q /\ r \in DOMAIN qps /\ Tx(r).conn # NoConn
    <3>1. Tx(r).conn \in DOMAIN conns /\ Tx(r).conn # c
      <4>1. Tx(r).conn # c
        BY Zenon, <1>3, <2>3 DEF Connections
      <4>2. Tx(r).conn \in 0 .. Len(conns) /\ conns \in Seq(ConnType)
        BY Zenon, <2>3 DEF Connections, ChanTypes
      <4>3. Tx(r).conn \in DOMAIN conns
        BY <2>3, <4>2 DEF NoConn
      <4> QED
        BY <4>1, <4>3
    <3>2. conns'[Tx(r).conn].data = conns[Tx(r).conn].data
      BY Zenon, <1>12, <3>1 DEF DataIs
    <3> QED
      BY SMTT(60), <2>1, <2>3, <3>2 DEF Sending
  <2>4. CASE r # q /\ ~(r \in DOMAIN qps /\ Tx(r).conn # NoConn)
    BY <2>1, <2>4 DEF Sending
  <2> QED
    BY <2>2, <2>3, <2>4
<1>18. ASSUME NEW r \in DOMAIN qps
       PROVE  Coming(r)' = Coming(r)
  <2>1. Peer(r)' = Peer(r) /\ qps'[r].got = qps[r].got
    BY Zenon, <1>1 DEF Peer
  <2>2. CASE r = p
    <3>1. Coming(r)' = (qps[p].got \o x) \o y
      BY ZenonT(60), <1>5, <1>16, <1>17, <2>1, <2>2 DEF Coming
    <3>2. Coming(r) = (qps[p].got \o queue[n][i]) \o d
      BY Zenon, <1>3, <1>5, <1>6, <1>8, <2>2 DEF Coming, Sending
    <3>3. (qps[p].got \o x) \o y = (qps[p].got \o queue[n][i]) \o d
      <4>1. qps[p].got \in Seq(Wr) /\ queue[n][i] \in Seq(Wr)
        BY Zenon, <1>6, Located
      <4>2. Joined(qps[p].got, Append(queue[n][i], Head(d)), Tail(d))
               = Joined(qps[p].got, queue[n][i], d)
        BY <1>9, <4>1, MoveToQueue
      <4> QED
        BY Zenon, <1>8, <4>2 DEF Joined
    <3> QED
      BY Zenon, <3>1, <3>2, <3>3
  <2>3. CASE r # p
    <3>1. Peer(r) # q
      BY Zenon, <1>4, <2>3, Located DEF ChanTypes, Peer
    <3> QED
      BY Zenon, <1>16, <1>17, <2>1, <2>3, <3>1 DEF Coming
  <2> QED
    BY <2>2, <2>3
<1>19. ASSUME NEW m \in Node, NEW j \in Indices \ used[m]
       PROVE  queue'[m][j] = <<>>
  <2>1. m # n \/ j # i
    BY <1>6
  <2>2. queue'[m][j] = queue[m][j]
    BY <1>14, <2>1
  <2> QED
    BY ZenonT(60), <2>2 DEF Places
<1>20. ASSUME NEW u \in DOMAIN workers
       PROVE  workers'[u].conn # NoConn =>
                 workers'[u].conn \in DOMAIN conns /\ conns[workers'[u].conn].worker = u
  BY Zenon, <1>1 DEF Connections
<1>21. workers' \in Seq(WorkerType) /\ DOMAIN workers' = DOMAIN workers
  BY Zenon, <1>1 DEF ChanTypes
<1>22. /\ conns' \in Seq(ConnType) /\ DOMAIN conns' = DOMAIN conns /\ Len(conns') = Len(conns)
       /\ \A e \in DOMAIN conns : conns'[e].worker = conns[e].worker
  BY Zenon, <1>12 DEF DataIs
<1>23. \A r \in DOMAIN qps : qps'[r].posted = qps[r].posted /\ Coming(r)' = Coming(r)
  BY Zenon, <1>1, <1>18
<1>24. SameThreads
  BY Zenon, <1>1, <1>20, <1>21 DEF SameThreads
<1>25. SameConns /\ SameFlow
  BY Zenon, <1>14, <1>19, <1>22, <1>23 DEF SameConns, SameFlow
<1> HIDE DEF ChanOK
<1> QED
  BY Zenon, <1>1, <1>15, <1>24, <1>25, MovedChanOK

LEMMA SendChanOK ==
    ASSUME ChanOK, NEW q \in DOMAIN qps, Send(q)
    PROVE  ChanOK' /\ QpsStay
<1> USE DEF ChanOK
<1>1. UNCHANGED <<use, used, attr, tx, workers, conns>>
  BY Zenon DEF Send
<1>2. PICK n \in Node, i \in Indices :
         n = qps[q].node /\ i = IndexOf(q) /\ Waiting(q) = queue[n][i] /\ i \in used[n]
  BY Zenon, Located DEF Waiting
<1>3. PICK d, y, g, v :
         /\ d = queue[n][i] /\ y = Tail(d) /\ g = Append(qps[q].got, Head(d))
         /\ v = [qps[q] EXCEPT !.got = g]
  BY Zenon
<1>4. d # <<>> /\ qps' = [qps EXCEPT ![q] = v] /\ queue' = [queue EXCEPT ![n][i] = y]
  BY Zenon, <1>2, <1>3 DEF Send
<1>5. qps \in Seq(QpType) /\ qps[q] \in QpType /\ qps[q].got \in Seq(Wr) /\ d \in Seq(Wr)
  BY ZenonT(60), <1>2, <1>3, Located DEF ChanTypes
<1>6. y \in Seq(Wr) /\ g \in Seq(Wr)
  BY <1>3, <1>4, <1>5
<1>7. /\ v \in QpType /\ v.node = qps[q].node /\ v.qpn = qps[q].qpn /\ v.posted = qps[q].posted
      /\ v.got = g
  <2>1. PICK x \in QpType : x = qps[q]
    BY Zenon, <1>5
  <2>2. v = [x EXCEPT !.got = g]
    BY Zenon, <1>3, <2>1
  <2>3. /\ v \in QpType /\ v.node = x.node /\ v.qpn = x.qpn /\ v.posted = x.posted
        /\ v.got = g
    BY Zenon, <1>6, <2>2 DEF QpType
  <2> QED
    BY Zenon, <2>1, <2>3
<1>8. /\ qps' \in Seq(QpType) /\ DOMAIN qps' = DOMAIN qps /\ Len(qps') = Len(qps)
      /\ \A p \in DOMAIN qps : qps'[p] = IF p = q THEN v ELSE qps[p]
  BY <1>4, <1>5, <1>7, PutEntry
<1>9. ASSUME NEW p \in DOMAIN qps
      PROVE  /\ qps'[p].node = qps[p].node /\ qps'[p].qpn = qps[p].qpn
             /\ qps'[p].posted = qps[p].posted
             /\ qps'[p].got = IF p = q THEN g ELSE qps[p].got
  BY ZenonT(60), <1>7, <1>8
<1>10. SamePlaces
  BY <1>1, <1>8, <1>9 DEF SamePlaces, IndexOf, Peer
<1>11. /\ queue' \in [Node -> [Indices -> Seq(Wr)]]
       /\ \A m \in Node, j \in Indices : queue'[m][j] = IF m = n /\ j = i THEN y ELSE queue[m][j]
  <2>1. queue \in [Node -> [Indices -> Seq(Wr)]]
    BY SMTT(60) DEF ChanTypes
  <2> QED
    BY ZenonT(60), <1>4, <1>6, <2>1, PutIn
<1>12. ASSUME NEW r \in DOMAIN qps
       PROVE  Waiting(r)' = IF r = q THEN y ELSE Waiting(r)
  <2>1. qps'[r].node = qps[r].node /\ IndexOf(r)' = IndexOf(r)
    BY Zenon, <1>10 DEF SamePlaces
  <2>2. qps[r].node = n /\ IndexOf(r) = i <=> r = q
    BY Zenon, <1>2 DEF Places
  <2>3. qps[r].node \in Node /\ IndexOf(r) \in Indices
    BY Zenon, Located
  <2> QED
    BY <1>11, <2>1, <2>2, <2>3 DEF Waiting
<1>13. ASSUME NEW r
       PROVE  Sending(r)' = Sending(r)
  <2>1. CASE r \in DOMAIN qps
    <3>1. Tx(r)' = Tx(r)
      BY Zenon, <1>1, <1>10, <2>1 DEF Tx, SamePlaces
    <3> QED
      BY Zenon, <1>1, <1>8, <3>1 DEF Sending
  <2>2. CASE r \notin DOMAIN qps
    BY Zenon, <1>8, <2>2 DEF Sending
  <2> QED
    BY <2>1, <2>2
<1>14. ASSUME NEW r \in DOMAIN qps
       PROVE  Coming(r)' = Coming(r)
  <2>1. Peer(r)' = Peer(r) /\ Sending(Peer(r))' = Sending(Peer(r))
    BY Zenon, <1>1, <1>13 DEF Peer
  <2>2. CASE r = q
    <3>1. Coming(r)' = (g \o y) \o Sending(Peer(r))
      BY Zenon, <1>9, <1>12, <2>1, <2>2 DEF Coming
    <3>2. Coming(r) = (qps[q].got \o d) \o Sending(Peer(r))
      BY Zenon, <1>2, <1>3, <2>2 DEF Coming
    <3>3. g \o y = qps[q].got \o d
      <4>1. ASSUME NEW a \in Seq(Wr)
            PROVE  Append(a, Head(d)) \o Tail(d) = a \o d
        BY SMTT(60), <1>4, <1>5, MoveOne
      <4> QED
        BY Zenon, <1>3, <1>5, <4>1
    <3> QED
      BY Zenon, <3>1, <3>2, <3>3
  <2>3. CASE r # q
    BY Zenon, <1>9, <1>12, <2>1, <2>3 DEF Coming
  <2> QED
    BY <2>2, <2>3
<1>15. ASSUME NEW m \in Node, NEW j \in Indices \ used[m]
       PROVE  queue'[m][j] = <<>>
  <2>1. m # n \/ j # i
    BY <1>2
  <2>2. queue'[m][j] = queue[m][j]
    BY <1>11, <2>1
  <2> QED
    BY Zenon, <2>2 DEF Places
<1>16. ASSUME NEW u \in DOMAIN workers
       PROVE  workers'[u].conn # NoConn =>
                 workers'[u].conn \in DOMAIN conns /\ conns[workers'[u].conn].worker = u
  BY Zenon, <1>1 DEF Connections
<1>17. workers' \in Seq(WorkerType) /\ DOMAIN workers' = DOMAIN workers
       /\ conns' \in Seq(ConnType)
  BY Zenon, <1>1 DEF ChanTypes
<1>18. \A r \in DOMAIN qps : qps'[r].posted = qps[r].posted /\ Coming(r)' = Coming(r)
  BY Zenon, <1>9, <1>14
<1>19. SameThreads
  BY Zenon, <1>1, <1>16, <1>17 DEF SameThreads
<1>20. SameConns /\ SameFlow
  BY Zenon, <1>1, <1>11, <1>15, <1>17, <1>18 DEF SameConns, SameFlow
<1> HIDE DEF ChanOK
<1>21. ChanOK'
  BY Zenon, <1>1, <1>10, <1>19, <1>20, MovedChanOK
<1> QED
  BY Zenon, <1>10, <1>21 DEF QpsStay, SamePlaces

------------------------------------------------------------------------------
(* Every step *)

LEMMA SameChanOK ==
    ASSUME ChanOK, UNCHANGED chanVars
    PROVE  ChanOK'
<1> USE DEF ChanOK
<1>1. UNCHANGED <<use, used, attr, tx, queue, workers, conns, qps>>
  BY DEF chanVars
<1>2. SamePlaces
  BY Zenon, <1>1, SameQps
<1>3. ASSUME NEW p \in DOMAIN qps
      PROVE  qps'[p].posted = qps[p].posted /\ Coming(p)' = Coming(p)
  BY Zenon, <1>1 DEF Coming, Waiting, Sending, Tx, IndexOf, Peer
<1>4. ASSUME NEW u \in DOMAIN workers
      PROVE  workers'[u].conn # NoConn =>
                workers'[u].conn \in DOMAIN conns /\ conns[workers'[u].conn].worker = u
  BY ZenonT(60), <1>1 DEF Connections
<1>5. /\ queue' \in [Node -> [Indices -> Seq(Wr)]] /\ conns' \in Seq(ConnType)
      /\ workers' \in Seq(WorkerType)
      /\ \A n \in Node : \A i \in Indices \ used[n] : queue'[n][i] = <<>>
  BY <1>1 DEF ChanTypes, Places
<1>6. SameThreads
  BY Zenon, <1>1, <1>4, <1>5 DEF SameThreads
<1>7. SameConns /\ SameFlow
  BY Zenon, <1>1, <1>3, <1>5 DEF SameConns, SameFlow
<1> HIDE DEF ChanOK
<1> QED
  BY Zenon, <1>1, <1>2, <1>6, <1>7, MovedChanOK

LEMMA NewAttrReaches ==
    ASSUME ChanOK, NEW q \in DOMAIN qps, NEW d \in Destinations(q)
    PROVE  NewAttr(q, d.qpn, d.node) \in AttrType /\ Reaches(q, NewAttr(q, d.qpn, d.node))
<1> USE DEF ChanOK
<1>1. Attr(q) \in AttrType /\ Reaches(q, Attr(q))
  BY Zenon, Located DEF Attrs
<1>2. PICK a \in AttrType : a = Attr(q)
  BY <1>1
<1>3. \/ d.qpn = 0 /\ d.node = 0
      \/ Peer(q) \in DOMAIN qps /\ d.qpn = qps[Peer(q)].qpn /\ d.node = qps[Peer(q)].node
  BY DEF Destinations
<1>4. d.qpn \in Nat /\ d.node \in Node \cup {0}
  <2>1. CASE d.qpn = 0 /\ d.node = 0
    BY <2>1
  <2>2. CASE Peer(q) \in DOMAIN qps /\ d.qpn = qps[Peer(q)].qpn /\ d.node = qps[Peer(q)].node
    <3>1. qps[Peer(q)] \in QpType
      BY Zenon, <2>2, Located
    <3> QED
      BY <2>2, <3>1 DEF QpType
  <2> QED
    BY <1>3, <2>1, <2>2
<1>5. PICK b : b = NewAttr(q, d.qpn, d.node)
  OBVIOUS
<1>6. b = [a EXCEPT !.dqpn = IF d.qpn = 0 THEN @ ELSE d.qpn,
                    !.ip   = IF d.node = 0 THEN @ ELSE d.node]
  BY Zenon, <1>2, <1>5 DEF NewAttr, Attr
<1>7. /\ b \in AttrType
      /\ b.dqpn = IF d.qpn = 0 THEN a.dqpn ELSE d.qpn
      /\ b.ip = IF d.node = 0 THEN a.ip ELSE d.node
  BY ZenonT(60), <1>4, <1>6 DEF AttrType
<1>8. Reaches(q, b)
  BY <1>1, <1>2, <1>3, <1>7 DEF Reaches
<1> QED
  BY Zenon, <1>5, <1>7, <1>8

LEMMA NewTablesChanOK ==
    ASSUME ChanOK, NEW n \in Node, use.plan = <<>>, NewTables(n)
    PROVE  ChanOK' /\ QpsStay
<1> USE DEF ChanOK
<1>1. UNCHANGED <<use, workers, conns>>
  BY Zenon DEF NewTables
<1>2. qps = <<>> /\ DOMAIN qps = {}
  BY DEF ChanTypes
<1>3. qps' = <<>> /\ DOMAIN qps' = {}
  BY <1>2 DEF NewTables
<1>4. ChanTypes'
  <2>1. /\ attr' \in [Node -> [Indices -> AttrType]] /\ tx' \in [Node -> [Indices -> TxType]]
        /\ queue' \in [Node -> [Indices -> Seq(Wr)]] /\ used' \in [Node -> SUBSET Indices]
    BY EmptyTypes DEF NewTables, ChanTypes
  <2>2. qps' \in Seq(QpType) /\ Len(qps') <= Len(use'.plan)
    BY <1>1, <1>3
  <2>3. /\ use'.plan \in Seq(Planned)
        /\ \A q, p \in DOMAIN use'.plan : use'.plan[q].peer = p => use'.plan[p].peer = q
        /\ workers' \in Seq(WorkerType) /\ conns' \in Seq(ConnType)
    BY ZenonT(60), <1>1 DEF ChanTypes
  <2> QED
    BY Zenon, <2>1, <2>2, <2>3 DEF ChanTypes
<1>5. Places'
  <2>1. ASSUME NEW m \in Node, NEW j \in Indices \ used'[m]
        PROVE  attr'[m][j] = NoAttr /\ tx'[m][j] = NoTx /\ queue'[m][j] = <<>>
    BY SMTT(60) DEF NewTables, ChanTypes, Places
  <2> QED
    BY ZenonT(60), <1>3, <2>1 DEF Places
<1>6. DOMAIN conns = {}
  BY SMTT(60), <1>2 DEF Connections
<1>7. Attrs' /\ Channels' /\ Connections' /\ Flow'
  BY Zenon, <1>1, <1>3, <1>6 DEF Attrs, Channels, Connections, Flow
<1> QED
  BY <1>2, <1>4, <1>5, <1>7 DEF QpsStay
==============================================================================
