------------------------------- MODULE FrameTx -------------------------------
(***************************************************************************)
(* FrameTxQueue (net/simple_nic/worker.rs), through which the ack          *)
(* responder sends its raw frames: a ring of descriptors to the card, and  *)
(* a buffer of frame slots the descriptors point into.  The buffer is one  *)
(* ring allocation of RING_BUF_LEN * 32 bytes, and a slot has 128 bytes:   *)
(* there are a quarter as many slots as descriptors.                       *)
(***************************************************************************)
EXTENDS DmaRing

CONSTANTS Frames, FrameSlots   \* 1024, to a RING_BUF_LEN of 4096

VARIABLES ring,      \* the host's DmaRingBuf of descriptors
          csrHead, csrTail,
          buf,       \* the frame in each slot of the buffer
          bufHead,   \* buf_head, in slots
          pc,        \* where the worker is in send
          pending    \* the descriptor send is trying to push, or Zeroed

vars == <<ring, csrHead, csrTail, buf, bufHead, pc, pending>>

FrameIdx == 0 .. FrameSlots - 1


Init ==
    /\ ring = NewRing
    /\ csrHead = 0
    /\ csrTail = 0
    /\ buf = [i \in FrameIdx |-> Zeroed]
    /\ bufHead = 0
    /\ pc = "idle"
    /\ pending = Zeroed

NextFrame(i) == (i + 1) % FrameSlots

\* build_desc and write_next: the frame is copied before there is room for it.
WriteNext(f) ==
    /\ pc = "idle"
    /\ pc' = "push"
    /\ buf' = [buf EXCEPT ![bufHead] = f]
    /\ bufHead' = NextFrame(bufHead)
    /\ pending' = [slot |-> bufHead]
    /\ UNCHANGED <<ring, csrHead, csrTail>>

\* The loop of send ends when push finds room by the tail as last read; then the
\* doorbell is rung.
PushFrame ==
    /\ pc = "push"
    /\ Remaining(ring) > 0
    /\ ring' = Push(ring, pending)
    /\ csrHead' = Inc(ring.head)
    /\ pc' = "read tail"
    /\ pending' = Zeroed
    /\ UNCHANGED <<csrTail, buf, bufHead>>

\* While there is no room the loop spins: it does not read the tail register.
PushSpins ==
    /\ pc = "push"
    /\ Remaining(ring) = 0
    /\ UNCHANGED vars

\* The tail register is read once, before send returns.
ReadTail ==
    /\ pc = "read tail"
    /\ ring' = SetTail(ring, csrTail)
    /\ pc' = "idle"
    /\ UNCHANGED <<csrHead, csrTail, buf, bufHead, pending>>

\* The card (external) sends the frame the next descriptor points to.
CardSends ==
    /\ csrTail # csrHead
    /\ csrTail' = Inc(csrTail)
    /\ UNCHANGED <<ring, csrHead, buf, bufHead, pc, pending>>

Next == (\E f \in Frames : WriteNext(f)) \/ PushFrame \/ PushSpins \/ ReadTail \/ CardSends

Spec == Init /\ [][Next]_vars

\* The worker's thread runs and the card drains its ring.
FairSpec == Spec /\ WF_vars(PushFrame \/ ReadTail) /\ WF_vars(CardSends)

------------------------------------------------------------------------------
\* send returns, as a caller of FrameTx::send expects: the card makes room sooner or
\* later, and the loop of send notices.
SendReturns == pc = "push" ~> pc = "idle"
==============================================================================
