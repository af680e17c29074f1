------------------------------- MODULE SendPath -------------------------------
(***************************************************************************)
(* The way of a request to the card: its fragments (Fragmenter) go one by  *)
(* one into the injector all send workers share (SendHandle), the chunks   *)
(* of the first transmission and the packets of the next one alike.  A     *)
(* worker (workers/send/worker.rs) collects a batch, from its own queue,   *)
(* from the injector or from another worker's queue, and then gives each   *)
(* fragment to its ring; what the full ring does not take goes back into   *)
(* its own queue.  One register write at the end of a batch shows the card *)
(* what is new.                                                            *)
(*                                                                         *)
(* The queues of crossbeam_deque are external, each of their operations is *)
(* atomic, and stealing a batch moves some of it.  A ring is what SendRing *)
(* implements: a bounded queue.  A worker that is about to find a ring     *)
(* full reads the card's tail first, so that it is full only if it is.     *)
(***************************************************************************)
EXTENDS Fragmenter, FiniteSets

CONSTANTS Workers,
          BATCH,        \* how often poll looks for a fragment: 16
          RING_CHUNKS,  \* the fragments a ring has room for: half of RING_BUF_LEN
          Followed      \* the requests, [addr, length], that are followed to the card;
                        \* of the others only the fragments are computed

ASSUME SendPathAssumption == BATCH \in Nat \ {0} /\ RING_CHUNKS \in Nat \ {0}

VARIABLES injector,  \* the fragments no worker has: <<kind, number>>
          local,     \* the workers' own queues
          batch,     \* per worker: what it has collected (wrs), how often poll still looks
                     \* (left), has_new_desc (new)
          rings,     \* per worker: what its ring holds
          shown,     \* per worker: how much of that the head register covers
          onCard     \* what the card has taken, in order

workVars == <<injector, local, batch, rings, shown, onCard>>
pathVars == <<vars, workVars>>

NewBatch == [wrs |-> <<>>, left |-> BATCH, new |-> FALSE]

PathInit ==
    /\ Init
    /\ injector = <<>>
    /\ local = [w \in Workers |-> <<>>]
    /\ batch = [w \in Workers |-> NewBatch]
    /\ rings = [w \in Workers |-> <<>>]
    /\ shown = [w \in Workers |-> 0]
    /\ onCard = <<>>

Follows == [addr |-> addr, length |-> length] \in Followed

\* The loops of rdma.rs and retransmit.rs: SendHandle::send for each fragment
Produce(k) ==
    /\ FragmentNext(k)
    /\ injector' = IF Follows THEN Append(injector, <<k, Len(iter[k].out) + 1>>) ELSE injector
    /\ UNCHANGED <<local, batch, rings, shown, onCard>>

\* poll has found something, or nothing.
Collect(w, wrs) == batch' = [batch EXCEPT ![w].wrs = @ \o wrs, ![w].left = @ - 1]

PopLocal(w) ==
    /\ local[w] # <<>>
    /\ Collect(w, <<Head(local[w])>>)
    /\ local' = [local EXCEPT ![w] = Tail(@)]
    /\ UNCHANGED injector

\* steal_batch_and_pop: the first is popped, some of the next ones go into the own queue.
StealGlobal(w) ==
    /\ local[w] = <<>> /\ injector # <<>>
    /\ Collect(w, <<Head(injector)>>)
    /\ \E n \in 1 .. Len(injector) :
          /\ local' = [local EXCEPT ![w] = SubSeq(injector, 2, n)]
          /\ injector' = SubSeq(injector, n + 1, Len(injector))

\* Stealer::steal
StealRemote(w, v) ==
    /\ local[w] = <<>> /\ injector = <<>> /\ local[v] # <<>>
    /\ Collect(w, <<Head(local[v])>>)
    /\ local' = [local EXCEPT ![v] = Tail(@)]
    /\ UNCHANGED injector

\* No queue had anything when it was looked at.
FindNothing(w) ==
    /\ local[w] = <<>> /\ injector = <<>>
    /\ Collect(w, <<>>)
    /\ UNCHANGED <<local, injector>>

\* One round of the loop of SendWorker::poll
Poll(w) ==
    /\ Follows /\ batch[w].left > 0
    /\ \/ PopLocal(w) \/ StealGlobal(w) \/ FindNothing(w)
       \/ \E v \in Workers \ {w} : StealRemote(w, v)
    /\ UNCHANGED <<vars, rings, shown, onCard>>

\* Mutant of Process: what the ring does not take is gone.
ProcessForgets(w) ==
    LET wr  == Head(batch[w].wrs)
        fit == Len(rings[w]) < RING_CHUNKS
    IN  /\ batch[w].left = 0 /\ batch[w].wrs # <<>>
        /\ rings' = IF fit THEN [rings EXCEPT ![w] = Append(@, wr)] ELSE rings
        /\ batch' = [batch EXCEPT ![w].wrs = Tail(@), ![w].new = @ \/ fit]
        /\ UNCHANGED <<vars, local, injector, shown, onCard>>

\* Mutant of Process: only the last fragment of a batch decides on has_new_desc.
ProcessLastDecides(w) ==
    LET wr  == Head(batch[w].wrs)
        fit == Len(rings[w]) < RING_CHUNKS
    IN  /\ batch[w].left = 0 /\ batch[w].wrs # <<>>
        /\ rings' = IF fit THEN [rings EXCEPT ![w] = Append(@, wr)] ELSE rings
        /\ local' = IF fit THEN local ELSE [local EXCEPT ![w] = Append(@, wr)]
        /\ batch' = [batch EXCEPT ![w].wrs = Tail(@), ![w].new = fit]
        /\ UNCHANGED <<vars, injector, shown, onCard>>

\* One round of the loop of SendWorker::process, with SendQueueSync::send
Process(w) ==
    LET wr  == Head(batch[w].wrs)
        fit == Len(rings[w]) < RING_CHUNKS
    IN  /\ batch[w].left = 0 /\ batch[w].wrs # <<>>
        /\ rings' = IF fit THEN [rings EXCEPT ![w] = Append(@, wr)] ELSE rings
        /\ local' = IF fit THEN local ELSE [local EXCEPT ![w] = Append(@, wr)]
        /\ batch' = [batch EXCEPT ![w].wrs = Tail(@), ![w].new = @ \/ fit]
        /\ UNCHANGED <<vars, injector, shown, onCard>>

\* The end of process: sync_head, if has_new_desc
Finish(w) ==
    /\ batch[w].left = 0 /\ batch[w].wrs = <<>>
    /\ shown' = IF batch[w].new THEN [shown EXCEPT ![w] = Len(rings[w])] ELSE shown
    /\ batch' = [batch EXCEPT ![w] = NewBatch]
    /\ UNCHANGED <<vars, injector, local, rings, onCard>>

Worker(w) == Poll(w) \/ Process(w) \/ Finish(w)

\* The card (external)
CardFetches(w) ==
    /\ shown[w] > 0
    /\ onCard' = Append(onCard, Head(rings[w]))
    /\ rings' = [rings EXCEPT ![w] = Tail(@)]
    /\ shown' = [shown EXCEPT ![w] = @ - 1]
    /\ UNCHANGED <<vars, injector, local, batch>>

PathNext ==
    \/ \E k \in Kinds : Produce(k)
    \/ \E w \in Workers : Worker(w) \/ CardFetches(w)

\* The sender finishes its loop, a worker's thread runs until it is told to stop, and
\* the card takes what it is shown.
PathSpec ==
    /\ PathInit /\ [][PathNext]_pathVars
    /\ \A k \in Kinds : WF_pathVars(Produce(k))
    /\ \A w \in Workers : WF_pathVars(Worker(w)) /\ WF_pathVars(CardFetches(w))

------------------------------------------------------------------------------
Fragments == UNION {{<<k, i>> : i \in DOMAIN Out(k)} : k \in Kinds}

\* How often a fragment is in a sequence
Times(f, s) == Cardinality({i \in DOMAIN s : s[i] = f})

Everywhere ==
    [w \in Workers |-> local[w] \o batch[w].wrs \o rings[w]]

\* A fragment that was sent is in one place, once: workers that steal from each other
\* and put back what a full ring refuses neither lose one nor send one twice.
FragmentsAreSomewhere ==
    Follows => \A f \in Fragments :
        LET with == {w \in Workers : Times(f, Everywhere[w]) > 0}
        IN  /\ \A w \in with : Times(f, Everywhere[w]) = 1
            /\ Times(f, injector) + Cardinality(with) + Times(f, onCard) = 1

\* Every fragment reaches the card: none stays in a queue no worker looks at, or in a
\* ring behind a register that is not written again.
FragmentsReachCard ==
    \A k \in Kinds : Follows ~>
        Done(k) /\ \A i \in DOMAIN Out(k) : \E j \in DOMAIN onCard : onCard[j] = <<k, i>>
==============================================================================
