---------------------------- MODULE Host_proofs ----------------------------
(***************************************************************************)
(* The command queue, for any number of threads and rings of any length of *)
(* at least two: no command is dropped, and a command returns only after   *)
(* the card has executed it.  A response names no command, so the argument *)
(* is about the whole of both rings: under the lock they hold at most one  *)
(* command or its response, and nothing of a command before.               *)
(*                                                                         *)
(* The devices: what is used exists, and every reference has an owner,     *)
(* whichever step of a load, a rescan or an open fails.                    *)
(***************************************************************************)
EXTENDS CmdQueue, DmaRing_proofs, Device, FiniteSetTheorems

------------------------------------------------------------------------------
(* The command queue *)

Request == [thread : Threads, cmd : Cmds]

\* The types, in full
CmdTypes ==
    /\ lock \in Threads \cup {NoThread}
    /\ pc \in [Threads -> {"idle", "push", "flush", "read tail", "wait"}]
    /\ req \in [slots : [Slots -> Request \cup {Zeroed}], head : Pointers, tail : Pointers]
    /\ resp \in [slots : [Slots -> {"done", Zeroed}], head : Pointers, tail : Pointers]
    /\ reqHead \in Pointers /\ reqTail \in Pointers
    /\ respHead \in Pointers /\ respTail \in Pointers
    /\ executed \in SUBSET Threads

\* Only the thread that has the lock is in a command.
Locked == \A t \in Threads : pc[t] # "idle" <=> lock = t

\* There is no response.
NoResponse ==
    /\ respHead = respTail /\ resp.tail = respTail
    /\ \A i \in Slots : resp.slots[i] = Zeroed
    /\ executed = {}

\* The card has nothing to do, and the host nothing to read.
Quiet == reqTail = reqHead /\ NoResponse

\* The card has the command of t before it, and no other.
Sent(t) ==
    /\ reqHead = Inc(reqTail)
    /\ req.slots[Index(reqTail)] \in Request /\ req.slots[Index(reqTail)].thread = t
    /\ NoResponse

\* The card has executed it, and the host has not read the response.
Done(t) ==
    /\ reqTail = reqHead
    /\ respHead = Inc(respTail) /\ resp.tail = respTail
    /\ \A i \in Slots : i # Index(resp.tail) => resp.slots[i] = Zeroed
    /\ executed = {t}

\* The host's copy of the tail is old by one command at most.
TailIsFresh == Distance(req.head, req.tail) <= 1

Phases ==
    /\ lock = NoThread => Quiet /\ req.head = reqHead /\ TailIsFresh
    /\ \A t \in Threads :
          /\ pc[t] = "push" => Quiet /\ req.head = reqHead /\ TailIsFresh
          /\ pc[t] = "flush" =>
                /\ Quiet /\ req.head = Inc(reqHead)
                /\ req.slots[Index(reqHead)] \in Request
                /\ req.slots[Index(reqHead)].thread = t
          /\ pc[t] \in {"read tail", "wait"} => (Sent(t) \/ Done(t)) /\ req.head = reqHead
          /\ pc[t] = "wait" => TailIsFresh

CmdInv == CmdTypes /\ Locked /\ Phases

------------------------------------------------------------------------------
(* Pointers and slots *)

LEMMA RingLen == RING_BUF_LEN \in Nat /\ RING_BUF_LEN >= 2 /\ Zeroed \notin Threads
  BY SMTT(60), RingLenAssumption, CmdQueueAssumption

LEMMA PointerIs ==
    ASSUME NEW p \in Pointers
    PROVE  /\ Index(p) \in Slots /\ Inc(p) \in Pointers /\ Inc(p) # p
           /\ Distance(p, p) = 0 /\ Distance(Inc(p), p) = 1
<1>1. p \in -1 .. 3 * RING_BUF_LEN - 1
  BY RingLen DEF Pointers
<1>2. Index(p) \in Slots
  BY <1>1, IndexIs
<1>3. Inc(p) \in Pointers /\ Inc(p) = IF p = 2 * RING_BUF_LEN - 1 THEN 0 ELSE p + 1
  BY IncIs
<1>4. Inc(p) # p
  BY <1>3, RingLen DEF Pointers
<1>5. Distance(p, p) = 0
  BY DistanceIs, RingLen DEF Pointers
<1>6. Distance(Inc(p), p) = IF Inc(p) >= p THEN Inc(p) - p ELSE Inc(p) - p + 2 * RING_BUF_LEN
  BY <1>3, DistanceIs
<1> QED
  BY <1>2, <1>3, <1>4, <1>5, <1>6, RingLen DEF Pointers

\* A fresh tail leaves room for a command.
LEMMA FreshLeavesRoom == CmdTypes /\ TailIsFresh => Remaining(req) > 0
<1> SUFFICES ASSUME CmdTypes, TailIsFresh PROVE Remaining(req) > 0
  OBVIOUS
<1>1. req.head \in Pointers /\ req.tail \in Pointers
  BY Zenon DEF CmdTypes
<1> DEFINE d == Distance(req.head, req.tail)
<1>2. d \in Int /\ d <= 1
  BY <1>1, DistanceIs DEF TailIsFresh, Pointers
<1>3. Remaining(req) = RING_BUF_LEN - d
  BY DEF Remaining
<1> HIDE DEF d
<1>4. RING_BUF_LEN - d > 0
  BY <1>2, RingLen
<1> QED
  BY <1>3, <1>4

\* With the lock free or taken, the places of the threads follow.
LEMMA OneCommand ==
    ASSUME CmdTypes, Locked, NEW t \in Threads, pc[t] # "idle"
    PROVE  lock = t /\ lock # NoThread /\ \A u \in Threads : u # t => pc[u] = "idle"
  BY RingLen, Zenon DEF Locked, NoThread

------------------------------------------------------------------------------
(* Each action preserves CmdInv *)

\* A thread that moves on in its command
LEMMA MoveOn ==
    ASSUME CmdTypes, Locked, NEW t \in Threads, NEW from, NEW to, Goto(t, from, to),
           from # "idle", to \in {"push", "flush", "read tail", "wait"}, lock' = lock
    PROVE  /\ lock = t /\ lock' # NoThread /\ Locked'
           /\ pc' \in [Threads -> {"idle", "push", "flush", "read tail", "wait"}]
           /\ pc[t] = from /\ pc'[t] = to /\ \A u \in Threads : u # t => pc'[u] = "idle"
<1>1. pc[t] = from /\ pc' = [pc EXCEPT ![t] = to]
  BY Zenon DEF Goto
<1>2. lock = t /\ lock # NoThread /\ \A u \in Threads : u # t => pc[u] = "idle"
  BY Zenon, <1>1, OneCommand
<1>3. pc \in [Threads -> {"idle", "push", "flush", "read tail", "wait"}]
  BY Zenon DEF CmdTypes
<1>4. pc'[t] = to /\ \A u \in Threads : u # t => pc'[u] = pc[u]
  BY Zenon, <1>1, <1>3
<1>5. pc' \in [Threads -> {"idle", "push", "flush", "read tail", "wait"}]
  BY Zenon, <1>1, <1>3
<1> QED
  BY Zenon, <1>1, <1>2, <1>4, <1>5 DEF Locked

LEMMA InitCmdInv == CmdInit => CmdInv
<1> SUFFICES ASSUME CmdInit PROVE CmdInv
  OBVIOUS
<1>1. 0 \in Pointers /\ Distance(0, 0) = 0
  BY SMTT(60), PointerIs, RingLen DEF Pointers
<1>2. CmdTypes
  BY <1>1 DEF CmdInit, CmdTypes, NewRing
<1>3. Locked
  BY SMTT(60), RingLen DEF CmdInit, Locked, NoThread
<1>4. Phases
  BY <1>1 DEF CmdInit, Phases, Quiet, NoResponse, TailIsFresh, NewRing
<1> QED
  BY <1>2, <1>3, <1>4 DEF CmdInv

LEMMA LockCmdInv ==
    ASSUME CmdInv, NEW t \in Threads, Lock(t)
    PROVE  CmdInv'
<1>1. /\ pc[t] = "idle" /\ pc' = [pc EXCEPT ![t] = "push"] /\ lock = NoThread /\ lock' = t
      /\ UNCHANGED <<req, reqHead, reqTail, resp, respHead, respTail, executed>>
  BY DEF Lock, Goto, LockFree
<1>2. \A u \in Threads : pc[u] = "idle"
  BY <1>1, RingLen DEF CmdInv, Locked, NoThread
<1>3. pc'[t] = "push" /\ \A u \in Threads : u # t => pc'[u] = "idle"
  BY Zenon, <1>1, <1>2 DEF CmdInv, CmdTypes
<1>4. CmdTypes'
  BY Zenon, <1>1 DEF CmdInv, CmdTypes
<1>5. Locked'
  BY <1>1, <1>3 DEF Locked
<1>6. Quiet' /\ req'.head = reqHead' /\ TailIsFresh'
  BY Zenon, <1>1 DEF CmdInv, Phases, Quiet, NoResponse, TailIsFresh
<1>7. Phases'
  BY Zenon, <1>1, <1>3, <1>6, RingLen DEF Phases, NoThread
<1> QED
  BY <1>4, <1>5, <1>7 DEF CmdInv

LEMMA PushCmdInv ==
    ASSUME CmdInv, NEW t \in Threads, NEW cmd \in Cmds, PushCmd(t, cmd)
    PROVE  CmdInv'
<1> DEFINE d == [thread |-> t, cmd |-> cmd]
<1>1. /\ Goto(t, "push", "flush")
      /\ UNCHANGED <<lock, reqHead, reqTail, resp, respHead, respTail, executed>>
  BY DEF PushCmd
<1>2. /\ lock = t /\ lock' # NoThread /\ Locked'
      /\ pc' \in [Threads -> {"idle", "push", "flush", "read tail", "wait"}]
      /\ pc[t] = "push" /\ pc'[t] = "flush" /\ \A u \in Threads : u # t => pc'[u] = "idle"
  BY Zenon, <1>1, MoveOn DEF CmdInv
<1>3. Quiet /\ req.head = reqHead /\ TailIsFresh
  BY Zenon, <1>2 DEF CmdInv, Phases
<1>4. req' = Push(req, d)
  BY <1>3, FreshLeavesRoom DEF CmdInv, PushCmd
<1>5. d \in Request
  BY DEF Request
<1>6. /\ req \in [slots : [Slots -> Request \cup {Zeroed}], head : Pointers, tail : Pointers]
      /\ Index(req.head) \in Slots /\ Inc(req.head) \in Pointers
  BY Zenon, PointerIs DEF CmdInv, CmdTypes
<1> HIDE DEF d
<1>7. /\ req' \in [slots : [Slots -> Request \cup {Zeroed}], head : Pointers, tail : Pointers]
      /\ req'.head = Inc(req.head) /\ req'.slots[Index(req.head)] = d
  BY Zenon, <1>4, <1>5, <1>6 DEF Push
<1>8. CmdTypes'
  BY Zenon, <1>1, <1>2, <1>7 DEF CmdInv, CmdTypes
<1>9. Quiet'
  BY <1>1, <1>3 DEF Quiet, NoResponse
<1>10. d.thread = t
  BY DEF d
<1>11. /\ req'.head = Inc(reqHead') /\ req'.slots[Index(reqHead')] \in Request
       /\ req'.slots[Index(reqHead')].thread = t
  BY <1>1, <1>3, <1>5, <1>7, <1>10
<1>12. Phases'
  BY Zenon, <1>2, <1>9, <1>11 DEF Phases
<1> QED
  BY Zenon, <1>2, <1>8, <1>12 DEF CmdInv

LEMMA FlushCmdInv ==
    ASSUME CmdInv, NEW t \in Threads, Flush(t)
    PROVE  CmdInv'
<1>1. /\ Goto(t, "flush", "read tail") /\ reqHead' = req.head
      /\ UNCHANGED <<lock, req, reqTail, resp, respHead, respTail, executed>>
  BY Zenon DEF Flush
<1>2. /\ lock = t /\ lock' # NoThread /\ Locked'
      /\ pc' \in [Threads -> {"idle", "push", "flush", "read tail", "wait"}]
      /\ pc[t] = "flush" /\ pc'[t] = "read tail" /\ \A u \in Threads : u # t => pc'[u] = "idle"
  BY Zenon, <1>1, MoveOn DEF CmdInv
<1>3. /\ Quiet /\ req.head = Inc(reqHead)
      /\ req.slots[Index(reqHead)] \in Request /\ req.slots[Index(reqHead)].thread = t
  BY Zenon, <1>2 DEF CmdInv, Phases
<1>4. CmdTypes'
  BY Zenon, <1>1, <1>2 DEF CmdInv, CmdTypes
<1>5. Sent(t)'
  BY Zenon, <1>1, <1>3 DEF Quiet, NoResponse, Sent
<1>6. Phases'
  BY Zenon, <1>1, <1>2, <1>5 DEF Phases
<1> QED
  BY Zenon, <1>2, <1>4, <1>6 DEF CmdInv

LEMMA ReadTailCmdInv ==
    ASSUME CmdInv, NEW t \in Threads, ReadTail(t)
    PROVE  CmdInv'
<1>1. /\ Goto(t, "read tail", "wait") /\ req' = SetTail(req, reqTail)
      /\ UNCHANGED <<lock, reqHead, reqTail, resp, respHead, respTail, executed>>
  BY Zenon DEF ReadTail
<1>2. /\ lock = t /\ lock' # NoThread /\ Locked'
      /\ pc' \in [Threads -> {"idle", "push", "flush", "read tail", "wait"}]
      /\ pc[t] = "read tail" /\ pc'[t] = "wait" /\ \A u \in Threads : u # t => pc'[u] = "idle"
  BY Zenon, <1>1, MoveOn DEF CmdInv
<1>3. (Sent(t) \/ Done(t)) /\ req.head = reqHead
  BY Zenon, <1>2 DEF CmdInv, Phases
<1>4. /\ req' \in [slots : [Slots -> Request \cup {Zeroed}], head : Pointers, tail : Pointers]
      /\ req'.head = req.head /\ req'.slots = req.slots /\ req'.tail = reqTail
  BY Zenon, <1>1 DEF CmdInv, CmdTypes, SetTail
<1>5. CmdTypes'
  BY Zenon, <1>1, <1>2, <1>4 DEF CmdInv, CmdTypes
<1>6. Sent(t)' \/ Done(t)'
  BY Zenon, <1>1, <1>3, <1>4 DEF Sent, Done, NoResponse
<1>7. TailIsFresh'
  <2>1. reqTail \in Pointers
    BY ZenonT(60) DEF CmdInv, CmdTypes
  <2>2. Distance(reqHead, reqTail) <= 1
    BY <1>3, <2>1, PointerIs DEF Sent, Done
  <2> QED
    BY <1>3, <1>4, <2>2 DEF TailIsFresh
<1>8. Phases'
  BY ZenonT(60), <1>1, <1>2, <1>3, <1>4, <1>6, <1>7 DEF Phases
<1> QED
  BY Zenon, <1>2, <1>5, <1>8 DEF CmdInv

\* A response can only be the one to this thread's command.
LEMMA WaitCmdInv ==
    ASSUME CmdInv, NEW t \in Threads, Wait(t)
    PROVE  CmdInv' /\ t \in executed
<1>1. /\ pc[t] = "wait" /\ pc' = [pc EXCEPT ![t] = "idle"]
      /\ resp.slots[Index(resp.tail)] # Zeroed
      /\ resp' = [Advance(resp) EXCEPT !.head = respHead] /\ respTail' = Inc(resp.tail)
      /\ lock' = NoThread /\ executed' = executed \ {t}
      /\ UNCHANGED <<req, reqHead, reqTail, respHead>>
  BY DEF Wait, Goto
<1>2. \A u \in Threads : pc'[u] = "idle"
  BY ZenonT(60), <1>1, OneCommand DEF CmdInv, CmdTypes
<1>3. /\ resp \in [slots : [Slots -> {"done", Zeroed}], head : Pointers, tail : Pointers]
      /\ Index(resp.tail) \in Slots /\ Inc(resp.tail) \in Pointers /\ respHead \in Pointers
  BY Zenon, PointerIs DEF CmdInv, CmdTypes
<1>4. Done(t) /\ req.head = reqHead /\ TailIsFresh
  BY Zenon, <1>1, <1>3 DEF CmdInv, Phases, Sent, NoResponse
<1>5. /\ resp' \in [slots : [Slots -> {"done", Zeroed}], head : Pointers, tail : Pointers]
      /\ resp'.tail = Inc(resp.tail)
      /\ \A i \in Slots : resp'.slots[i] = IF i = Index(resp.tail) THEN Zeroed ELSE resp.slots[i]
  BY Zenon, <1>1, <1>3 DEF Advance
<1>6. CmdTypes'
  BY Zenon, <1>1, <1>3, <1>5 DEF CmdInv, CmdTypes
<1>7. Locked'
  BY <1>1, <1>2, RingLen DEF Locked, NoThread
<1>8. NoResponse'
  BY <1>1, <1>4, <1>5 DEF NoResponse, Done
<1>9. Quiet' /\ req'.head = reqHead' /\ TailIsFresh'
  BY <1>1, <1>4, <1>8 DEF Quiet, Done, TailIsFresh
<1>10. Phases'
  BY Zenon, <1>2, <1>9 DEF Phases
<1> QED
  BY <1>4, <1>6, <1>7, <1>10 DEF CmdInv, Done

LEMMA CardCmdInv ==
    ASSUME CmdInv, CardExecutes
    PROVE  CmdInv'
<1>1. /\ reqTail # reqHead /\ resp' = [resp EXCEPT !.slots[Index(respHead)] = "done"]
      /\ executed' = executed \cup {req.slots[Index(reqTail)].thread}
      /\ reqTail' = Inc(reqTail) /\ respHead' = Inc(respHead)
      /\ UNCHANGED <<lock, pc, req, reqHead, respTail>>
  BY DEF CardExecutes, NextCmd
<1>2. PICK t \in Threads : pc[t] \in {"read tail", "wait"} /\ Sent(t) /\ lock = t
  <2>1. lock # NoThread
    BY Zenon, <1>1 DEF CmdInv, Phases, Quiet
  <2>2. lock \in Threads /\ pc[lock] # "idle"
    BY Zenon, <2>1 DEF CmdInv, CmdTypes, Locked
  <2>3. pc[lock] \in {"push", "flush", "read tail", "wait"}
    BY Zenon, <2>2 DEF CmdInv, CmdTypes
  <2>4. pc[lock] \in {"read tail", "wait"} /\ Sent(lock)
    BY Zenon, <1>1, <2>2, <2>3 DEF CmdInv, Phases, Quiet, Done
  <2> QED
    BY Zenon, <2>2, <2>4
<1>3. /\ lock # NoThread /\ \A u \in Threads : u # t => pc[u] = "idle"
      /\ req.head = reqHead /\ (pc[t] = "wait" => TailIsFresh)
  BY Zenon, <1>2, OneCommand DEF CmdInv, Phases
<1>4. /\ resp \in [slots : [Slots -> {"done", Zeroed}], head : Pointers, tail : Pointers]
      /\ Index(respHead) \in Slots /\ Inc(respHead) \in Pointers /\ Inc(reqTail) \in Pointers
  BY Zenon, PointerIs DEF CmdInv, CmdTypes
<1>5. /\ resp' \in [slots : [Slots -> {"done", Zeroed}], head : Pointers, tail : Pointers]
      /\ resp'.tail = resp.tail
      /\ \A i \in Slots : i # Index(respHead) => resp'.slots[i] = resp.slots[i]
  BY <1>1, <1>4
<1>6. executed' = {t}
  BY Zenon, <1>1, <1>2 DEF Sent, NoResponse
<1>7. CmdTypes'
  BY Zenon, <1>1, <1>4, <1>5, <1>6 DEF CmdInv, CmdTypes
<1>8. Locked'
  BY <1>1 DEF CmdInv, Locked
<1>9. Done(t)'
  BY Zenon, <1>1, <1>2, <1>5, <1>6 DEF Sent, NoResponse, Done
<1>10. Phases'
  <2>1. TailIsFresh => TailIsFresh'
    BY <1>1 DEF TailIsFresh
  <2> QED
    BY Zenon, <1>1, <1>2, <1>3, <1>9, <2>1 DEF Phases
<1> QED
  BY <1>7, <1>8, <1>10 DEF CmdInv

LEMMA NewRingsCmdInv ==
    ASSUME CmdInv, NewRings
    PROVE  CmdInv'
<1>1. /\ \A t \in Threads : pc[t] = "idle"
      /\ req' = NewRing /\ reqHead' = 0 /\ reqTail' = 0
      /\ resp' = NewRing /\ respHead' = 0 /\ respTail' = 0
      /\ UNCHANGED <<lock, pc, executed>>
  BY DEF NewRings
<1>2. 0 \in Pointers /\ Distance(0, 0) = 0
  BY PointerIs, RingLen DEF Pointers
<1>3. lock = NoThread
  BY Zenon, <1>1 DEF CmdInv, CmdTypes, Locked
<1>4. executed = {}
  BY Zenon, <1>3 DEF CmdInv, Phases, Quiet, NoResponse
<1>5. CmdTypes'
  BY Zenon, <1>1, <1>2 DEF CmdInv, CmdTypes, NewRing
<1>6. Locked'
  BY <1>1 DEF CmdInv, Locked
<1>7. Phases'
  <2>1. Quiet' /\ req'.head = reqHead' /\ TailIsFresh'
    BY <1>1, <1>2, <1>4 DEF Quiet, NoResponse, TailIsFresh, NewRing
  <2> QED
    BY Zenon, <1>1, <2>1 DEF Phases
<1> QED
  BY <1>5, <1>6, <1>7 DEF CmdInv

LEMMA NextCmdInv == CmdInv /\ [CmdNext]_cmdVars => CmdInv'
<1> SUFFICES ASSUME CmdInv, [CmdNext]_cmdVars PROVE CmdInv'
  OBVIOUS
<1>1. ASSUME NEW t \in Threads, Lock(t) \/ Command(t) PROVE CmdInv'
  <2>1. CASE Lock(t)
    BY <2>1, LockCmdInv
  <2>2. CASE \E cmd \in Cmds : PushCmd(t, cmd)
    BY <2>2, PushCmdInv
  <2>3. CASE Flush(t)
    BY <2>3, FlushCmdInv
  <2>4. CASE ReadTail(t)
    BY <2>4, ReadTailCmdInv
  <2>5. CASE Wait(t)
    BY <2>5, WaitCmdInv
  <2>6. CASE WaitSpins(t)
    BY ZenonT(60), <2>6 DEF WaitSpins, cmdVars, CmdInv, CmdTypes, Locked, Phases, Quiet, NoResponse, Sent, Done,
       TailIsFresh
  <2> QED
    BY <1>1, <2>1, <2>2, <2>3, <2>4, <2>5, <2>6 DEF Command
<1>2. CASE CardExecutes
  BY <1>2, CardCmdInv
<1>3. CASE NewRings
  BY <1>3, NewRingsCmdInv
<1>4. CASE UNCHANGED cmdVars
  BY ZenonT(60), <1>4 DEF cmdVars, CmdInv, CmdTypes, Locked, Phases, Quiet, NoResponse, Sent, Done, TailIsFresh
<1> QED
  BY SMTT(60), <1>1, <1>2, <1>3, <1>4 DEF CmdNext

LEMMA CmdInvariance == CmdSpec => []CmdInv
  BY InitCmdInv, NextCmdInv, PTL DEF CmdSpec

------------------------------------------------------------------------------
\* QpUpdate::push never meets a full ring, for rings of two descriptors or more and any
\* number of threads.
THEOREM QueueIsNeverFull == CmdSpec => []NeverFull
<1>1. CmdInv => NeverFull
  BY Zenon, FreshLeavesRoom DEF CmdInv, Phases, NeverFull
<1> QED
  BY <1>1, CmdInvariance, PTL

\* The response QpUpdate::wait takes is the one to the command of the thread that waits.
THEOREM CommandsReturnExecuted == CmdSpec => ReturnsAfterExecution
<1> DEFINE Answered == \A t \in Threads : pc[t] = "wait" /\ pc'[t] = "idle" => t \in executed
<1>1. CmdInv /\ [CmdNext]_cmdVars => [Answered]_cmdVars
  <2> SUFFICES ASSUME CmdInv, CmdNext, NEW t \in Threads, pc[t] = "wait", pc'[t] = "idle"
               PROVE  t \in executed
    OBVIOUS
  <2>1. pc \in [Threads -> {"idle", "push", "flush", "read tail", "wait"}]
    BY ZenonT(60) DEF CmdInv, CmdTypes
  <2>2. ASSUME NEW u \in Threads, Lock(u) \/ Command(u) PROVE t \in executed
    <3>1. CASE Wait(u)
      <4>1. u = t
        BY Zenon, <2>1, <3>1 DEF Wait, Goto
      <4> QED
        BY <3>1, <4>1, WaitCmdInv
    <3>2. CASE ~Wait(u)
      <4>1. pc'[t] # "idle"
        BY Zenon, <2>1, <2>2, <3>2 DEF Lock, Command, PushCmd, Flush, ReadTail, WaitSpins, Goto, cmdVars
      <4> QED
        BY <4>1
    <3> QED
      BY <3>1, <3>2
  <2> QED
    BY <2>2 DEF CmdNext, CardExecutes, NewRings
<1> QED
  BY <1>1, CmdInvariance, PTL DEF CmdSpec, ReturnsAfterExecution

------------------------------------------------------------------------------
(* The devices *)

VerbsDevice == [refs : Int, driver : Nat]

\* Every device that is held exists, and a number of a load is used once: a device that
\* is registered and has a verbs_device is in device_list.
DevInv ==
    /\ kernel.loads \in Nat /\ opens \in Nat
    /\ devs \in [DOMAIN devs -> VerbsDevice]
    /\ lost \in [DOMAIN lost -> Nat]
    /\ \A d \in sysfs \cup DOMAIN devs : d[1] \in Nat /\ d[1] <= kernel.loads
    /\ \A d \in sysfs : kernel.testing[d[2]] = "device"
    /\ IsFiniteSet(lists) /\ IsFiniteSet(ctxs)
    /\ listed \subseteq DOMAIN devs /\ DOMAIN lost \subseteq DOMAIN devs
    /\ \A l \in lists : l.devs \subseteq DOMAIN devs
    /\ \A c \in ctxs : c.dev \in DOMAIN devs
    /\ sysfs \cap DOMAIN devs \subseteq listed
    /\ ReferencesAreOwned

\* The lists and the contexts that hold a device, in sets of lists and of contexts
Holding(S, d) == {l \in S : d \in l.devs}
OpenOn(S, d)  == {c \in S : c.dev = d}

One(d, S) == IF d \in S THEN 1 ELSE 0

LEMMA FreshIs ==
    ASSUME NEW S, IsFiniteSet(S)
    PROVE  Fresh(S) \in Nat /\ \A x \in S : x.n # Fresh(S)
<1> DEFINE k == Cardinality(S)
<1>1. k \in Nat
  BY FS_CardinalityType
<1> HIDE DEF k
<1>2. IsFiniteSet(1 .. k + 1) /\ Cardinality(1 .. k + 1) = k + 1
  BY <1>1, FS_Interval
<1>3. \E n \in 1 .. k + 1 : \A x \in S : x.n # n
  <2> SUFFICES ASSUME \A n \in 1 .. k + 1 : \E x \in S : x.n = n PROVE FALSE
    BY Zenon
  <2> DEFINE f == [n \in 1 .. k + 1 |-> CHOOSE x \in S : x.n = n]
  <2>1. \A n \in 1 .. k + 1 : f[n] \in S /\ f[n].n = n
    BY Zenon
  <2>2. f \in [1 .. k + 1 -> S]
    BY Zenon, <2>1
  <2>3. Cardinality(S) < Cardinality(1 .. k + 1)
    BY SMTT(60), <1>1, <1>2 DEF k
  <2> HIDE DEF f
  <2>4. \E m, n \in 1 .. k + 1 : m # n /\ f[m] = f[n]
    <3> DEFINE D == 1 .. k + 1
    <3>1. IsFiniteSet(D) /\ Cardinality(S) < Cardinality(D) /\ f \in [D -> S]
      BY SMTT(60), <1>2, <2>2, <2>3
    <3> HIDE DEF D
    <3>2. \A g \in [D -> S] : \E m, n \in D : m # n /\ g[m] = g[n]
      BY <3>1, FS_PigeonHole
    <3>3. \E m, n \in D : m # n /\ f[m] = f[n]
      BY Zenon, <3>1, <3>2
    <3> QED
      BY <3>3 DEF D
  <2> QED
    BY Zenon, <2>1, <2>4
<1>4. Fresh(S) \in 1 .. k + 1 /\ \A x \in S : x.n # Fresh(S)
  BY Zenon, <1>3 DEF Fresh, k
<1> QED
  BY <1>1, <1>4

\* How the counts change with a list or a context
LEMMA ListAdded ==
    ASSUME NEW S, IsFiniteSet(S), NEW x, x \notin S, NEW d
    PROVE  /\ IsFiniteSet(S \cup {x}) /\ Cardinality(Holding(S, d)) \in Nat
           /\ Cardinality(Holding(S \cup {x}, d)) = Cardinality(Holding(S, d)) + One(d, x.devs)
<1>1. IsFiniteSet(S \cup {x})
  BY FS_AddElement
<1>2. IsFiniteSet(Holding(S, d)) /\ x \notin Holding(S, d)
  BY FS_Subset DEF Holding
<1>3. Cardinality(Holding(S, d)) \in Nat
  BY <1>2, FS_CardinalityType
<1>4. CASE d \in x.devs
  <2>1. Holding(S \cup {x}, d) = Holding(S, d) \cup {x}
    BY <1>4 DEF Holding
  <2> QED
    BY Zenon, <1>1, <1>2, <1>3, <1>4, <2>1, FS_AddElement DEF One
<1>5. CASE d \notin x.devs
  <2>1. Holding(S \cup {x}, d) = Holding(S, d)
    BY <1>5 DEF Holding
  <2> QED
    BY <1>1, <1>3, <1>5, <2>1 DEF One
<1> QED
  BY <1>4, <1>5

LEMMA ListRemoved ==
    ASSUME NEW S, IsFiniteSet(S), NEW x \in S, NEW d
    PROVE  /\ IsFiniteSet(S \ {x}) /\ Cardinality(Holding(S, d)) \in Nat
           /\ Cardinality(Holding(S \ {x}, d)) = Cardinality(Holding(S, d)) - One(d, x.devs)
<1>1. IsFiniteSet(S \ {x}) /\ x \notin S \ {x} /\ (S \ {x}) \cup {x} = S
  BY FS_RemoveElement
<1> DEFINE T == S \ {x}
<1> HIDE DEF T
<1>2. /\ IsFiniteSet(T \cup {x}) /\ Cardinality(Holding(T, d)) \in Nat
      /\ Cardinality(Holding(T \cup {x}, d)) = Cardinality(Holding(T, d)) + One(d, x.devs)
  BY SMTT(60), <1>1, ListAdded DEF T
<1>3. One(d, x.devs) \in Nat
  BY DEF One
<1>4. T \cup {x} = S /\ IsFiniteSet(T)
  BY <1>1 DEF T
<1> DEFINE o == One(d, x.devs)
           h == Cardinality(Holding(S, d))
           g == Cardinality(Holding(T, d))
<1>5. o \in Nat /\ g \in Nat /\ h = g + o
  BY ZenonT(60), <1>2, <1>3, <1>4
<1> HIDE DEF o, h, g
<1>6. h \in Nat /\ g = h - o
  BY <1>5
<1> QED
  BY Zenon, <1>4, <1>6 DEF T, o, h, g

LEMMA CtxAdded ==
    ASSUME NEW S, IsFiniteSet(S), NEW x, x \notin S, NEW d
    PROVE  /\ IsFiniteSet(S \cup {x}) /\ Cardinality(OpenOn(S, d)) \in Nat
           /\ Cardinality(S) \in Nat /\ Cardinality(S \cup {x}) = Cardinality(S) + 1
           /\ Cardinality(OpenOn(S \cup {x}, d)) = Cardinality(OpenOn(S, d)) + One(d, {x.dev})
<1>1. /\ IsFiniteSet(S \cup {x})
      /\ Cardinality(S) \in Nat /\ Cardinality(S \cup {x}) = Cardinality(S) + 1
  BY FS_AddElement, FS_CardinalityType
<1>2. IsFiniteSet(OpenOn(S, d)) /\ x \notin OpenOn(S, d)
  BY SMTT(60), FS_Subset DEF OpenOn
<1>3. Cardinality(OpenOn(S, d)) \in Nat
  BY <1>2, FS_CardinalityType
<1>4. CASE x.dev = d
  <2>1. OpenOn(S \cup {x}, d) = OpenOn(S, d) \cup {x}
    BY <1>4 DEF OpenOn
  <2>2. Cardinality(OpenOn(S, d) \cup {x}) = Cardinality(OpenOn(S, d)) + 1
    BY <1>2, FS_AddElement
  <2>3. One(d, {x.dev}) = 1
    BY <1>4 DEF One
  <2> QED
    BY ZenonT(60), <1>1, <1>3, <2>1, <2>2, <2>3
<1>5. CASE x.dev # d
  <2>1. OpenOn(S \cup {x}, d) = OpenOn(S, d)
    BY <1>5 DEF OpenOn
  <2> QED
    BY SMTT(60), <1>1, <1>3, <1>5, <2>1 DEF One
<1> QED
  BY SMTT(60), <1>4, <1>5

LEMMA CtxRemoved ==
    ASSUME NEW S, IsFiniteSet(S), NEW x \in S, NEW d
    PROVE  /\ IsFiniteSet(S \ {x}) /\ Cardinality(OpenOn(S, d)) \in Nat
           /\ Cardinality(S) \in Nat /\ Cardinality(S \ {x}) = Cardinality(S) - 1
           /\ Cardinality(OpenOn(S \ {x}, d)) = Cardinality(OpenOn(S, d)) - One(d, {x.dev})
<1>1. IsFiniteSet(S \ {x}) /\ x \notin S \ {x} /\ (S \ {x}) \cup {x} = S
  BY FS_RemoveElement
<1> DEFINE T == S \ {x}
<1> HIDE DEF T
<1>2. /\ IsFiniteSet(T \cup {x}) /\ Cardinality(OpenOn(T, d)) \in Nat
      /\ Cardinality(T) \in Nat /\ Cardinality(T \cup {x}) = Cardinality(T) + 1
      /\ Cardinality(OpenOn(T \cup {x}, d)) = Cardinality(OpenOn(T, d)) + One(d, {x.dev})
  BY ZenonT(60), <1>1, CtxAdded DEF T
<1>3. One(d, {x.dev}) \in Nat
  BY DEF One
<1>4. T \cup {x} = S /\ IsFiniteSet(T)
  BY <1>1 DEF T
<1> DEFINE o == One(d, {x.dev})
           h == Cardinality(OpenOn(S, d))
           g == Cardinality(OpenOn(T, d))
           j == Cardinality(S)
           k == Cardinality(T)
<1>5. o \in Nat /\ g \in Nat /\ h = g + o /\ k \in Nat /\ j = k + 1
  BY Zenon, <1>2, <1>3, <1>4
<1> HIDE DEF o, h, g, j, k
<1>6. h \in Nat /\ g = h - o /\ j \in Nat /\ k = j - 1
  BY <1>5
<1> QED
  BY ZenonT(60), <1>4, <1>6 DEF T, o, h, g, j, k

\* ibverbs_device_hold and ibverbs_device_put change the count by one.
LEMMA HoldIs ==
    ASSUME NEW D, NEW f \in [D -> VerbsDevice], NEW S
    PROVE  /\ DOMAIN Hold(f, S) = D /\ Hold(f, S) \in [D -> VerbsDevice]
           /\ \A d \in D : Hold(f, S)[d].refs = f[d].refs + One(d, S)
  BY DEF Hold, VerbsDevice, One

LEMMA PutIs ==
    ASSUME NEW D, NEW f \in [D -> VerbsDevice], NEW S
    PROVE  /\ DOMAIN Put(f, S) = D /\ Put(f, S) \in [D -> VerbsDevice]
           /\ \A d \in D : Put(f, S)[d].refs = f[d].refs - One(d, S)
  BY DEF Put, VerbsDevice, One

\* The references, by who has them
LEMMA ReferencesIs ==
    ASSUME NEW d
    PROVE  References(d) = One(d, listed) + Cardinality(Holding(lists, d))
                           + Cardinality(OpenOn(ctxs, d))
                           + (IF d \in DOMAIN lost THEN lost[d] ELSE 0)
  BY DEF References, One, Holding, OpenOn

Lost(d) == IF d \in DOMAIN lost THEN lost[d] ELSE 0

LEMMA CountsAre ==
    ASSUME DevInv, NEW d
    PROVE  /\ References(d) = One(d, listed) + Cardinality(Holding(lists, d))
                              + Cardinality(OpenOn(ctxs, d)) + Lost(d)
           /\ One(d, listed) \in Nat /\ Cardinality(Holding(lists, d)) \in Nat
           /\ Cardinality(OpenOn(ctxs, d)) \in Nat /\ Lost(d) \in Nat
<1>1. IsFiniteSet(Holding(lists, d)) /\ IsFiniteSet(OpenOn(ctxs, d))
  BY FS_Subset DEF Holding, OpenOn, DevInv
<1>2. Lost(d) \in Nat /\ One(d, listed) \in Nat
  BY DEF DevInv, Lost, One
<1> QED
  BY <1>1, <1>2, ReferencesIs, FS_CardinalityType DEF Lost

\* A device that someone holds has a reference.
LEMMA UsedIsHeld == DevInv => UsedDevicesExist
<1> SUFFICES ASSUME DevInv,
                    NEW d \in listed \cup (UNION {l.devs : l \in lists}) \cup {c.dev : c \in ctxs}
             PROVE  devs[d].refs > 0
  BY Zenon DEF UsedDevicesExist, DevInv
<1>0. d \in listed \/ (\E l \in lists : d \in l.devs) \/ (\E x \in ctxs : x.dev = d)
  BY Zenon
<1>1. d \in DOMAIN devs
  BY Zenon, <1>0 DEF DevInv
<1>2. devs[d].refs = One(d, listed) + Cardinality(Holding(lists, d))
                     + Cardinality(OpenOn(ctxs, d)) + Lost(d)
  BY SMTT(60), <1>1, CountsAre DEF DevInv, ReferencesAreOwned
<1> DEFINE a == One(d, listed)
           b == Cardinality(Holding(lists, d))
           c == Cardinality(OpenOn(ctxs, d))
           e == Lost(d)
<1>3. a \in Nat /\ b \in Nat /\ c \in Nat /\ e \in Nat
  BY SMTT(60), CountsAre
<1>4. a # 0 \/ b # 0 \/ c # 0
  <2>1. CASE d \in listed
    BY <2>1 DEF One
  <2>2. CASE \E l \in lists : d \in l.devs
    <3>1. IsFiniteSet(Holding(lists, d)) /\ Holding(lists, d) # {}
      BY SMTT(60), <2>2, FS_Subset DEF Holding, DevInv
    <3> QED
      BY SMTT(60), <3>1, FS_EmptySet
  <2>3. CASE \E x \in ctxs : x.dev = d
    <3>1. IsFiniteSet(OpenOn(ctxs, d)) /\ OpenOn(ctxs, d) # {}
      BY SMTT(60), <2>3, FS_Subset DEF OpenOn, DevInv
    <3> QED
      BY SMTT(60), <3>1, FS_EmptySet
  <2> QED
    BY SMTT(60), <1>0, <2>1, <2>2, <2>3
<1> HIDE DEF a, b, c, e
<1>5. a + b + c + e > 0
  BY SMTT(60), <1>3, <1>4
<1> QED
  BY <1>2, <1>5 DEF a, b, c, e

LEMMA NoneHeld ==
    ASSUME NEW S, NEW d
    PROVE  /\ (\A l \in S : d \notin l.devs) => Cardinality(Holding(S, d)) = 0
           /\ (\A c \in S : c.dev # d) => Cardinality(OpenOn(S, d)) = 0
  BY FS_EmptySet DEF Holding, OpenOn

LEMMA InitDevInv == DevInit \/ Opened => DevInv
<1>1. ASSUME DevInit PROVE DevInv
  <2>1. \A d : References(d) = 0
    <3> SUFFICES ASSUME NEW d PROVE References(d) = 0
      OBVIOUS
    <3>1. lists = {} /\ ctxs = {} /\ d \notin listed /\ d \notin DOMAIN lost
      BY <1>1 DEF DevInit
    <3>2. Cardinality(Holding(lists, d)) = 0 /\ Cardinality(OpenOn(ctxs, d)) = 0
      BY SMTT(60), <3>1, NoneHeld
    <3> QED
      BY SMTT(60), <3>1, <3>2, ReferencesIs DEF One
  <2>2. kernel.loads = 0 /\ opens = 0 /\ devs = <<>> /\ lost = <<>> /\ sysfs = {} /\ listed = {}
        /\ lists = {} /\ ctxs = {} /\ fds = 0
    BY SMTT(60), <1>1 DEF DevInit
  <2> QED
    BY SMTT(60), <2>1, <2>2, FS_EmptySet DEF DevInv, ReferencesAreOwned
<1>2. ASSUME Opened PROVE DevInv
  <2> DEFINE d == <<1, 0>>
             x == [n |-> 1, dev |-> d]
  <2>1. /\ kernel = [loaded |-> TRUE, loads |-> 1, testing |-> [i \in TestingIndex |-> "device"]]
        /\ sysfs = {d} /\ listed = {d} /\ lists = {} /\ ctxs = {x}
        /\ fds = 1 /\ opens = MaxOpens /\ lost = <<>>
        /\ devs = [y \in {d} |-> [refs |-> 2, driver |-> 1]]
    BY SMTT(60), <1>2 DEF Opened
  <2>2. References(d) = 2
    <3>1. Cardinality(Holding(lists, d)) = 0
      BY SMTT(60), <2>1, NoneHeld
    <3>2. OpenOn(ctxs, d) = {x}
      BY <2>1 DEF OpenOn
    <3>3. Cardinality(OpenOn(ctxs, d)) = 1
      BY Zenon, <3>2, FS_Singleton
    <3> QED
      BY SMTT(60), <2>1, <3>1, <3>3, ReferencesIs DEF One
  <2>3. d[1] = 1 /\ d[2] = 0 /\ x.dev = d
    OBVIOUS
  <2>4. kernel.loads = 1 /\ kernel.testing[0] = "device"
    BY <2>1, DeviceAssumption DEF TestingIndex
  <2> HIDE DEF d, x
  <2>5. IsFiniteSet(lists) /\ IsFiniteSet(ctxs) /\ Cardinality(ctxs) = 1
    BY ZenonT(60), <2>1, FS_Singleton, FS_EmptySet
  <2>6. DOMAIN devs = {d} /\ devs[d].refs = 2 /\ devs \in [DOMAIN devs -> VerbsDevice]
    BY <2>1 DEF VerbsDevice
  <2>7. DOMAIN lost = {} /\ lost \in [DOMAIN lost -> Nat]
    BY <2>1
  <2>8. opens \in Nat
    BY <2>1, DeviceAssumption
  <2> QED
    BY SMTT(60), <2>1, <2>2, <2>3, <2>4, <2>5, <2>6, <2>7, <2>8 DEF DevInv, ReferencesAreOwned
<1> QED
  BY SMTT(60), <1>1, <1>2

LEMMA LoadDevInv ==
    ASSUME DevInv, Load \/ Unload
    PROVE  DevInv'
<1>1. UNCHANGED <<devs, listed, lists, ctxs, fds, opens, lost>>
  BY Zenon DEF Load, Unload
<1>2. ReferencesAreOwned'
  <2>1. \A d : References(d)' = References(d)
    BY ZenonT(60), <1>1 DEF References
  <2> QED
    BY ZenonT(60), <1>1, <2>1 DEF DevInv, ReferencesAreOwned
<1>3. /\ kernel'.loads \in Nat
      /\ \A d \in sysfs' \cup DOMAIN devs : d[1] \in Nat /\ d[1] <= kernel'.loads
      /\ \A d \in sysfs' : kernel'.testing[d[2]] = "device"
      /\ sysfs' \cap DOMAIN devs \subseteq listed
  <2>1. CASE Load
    <3>1. PICK step \in {"ok", "alloc", "netdev", "register"}, i \in TestingIndex :
              /\ kernel' = [loaded |-> TRUE, loads |-> kernel.loads + 1,
                            testing |-> TestingDev(step, i)]
              /\ sysfs' = {<<kernel.loads + 1, j>> : j \in RegisteredDevs(step, i)}
      BY ZenonT(60), <2>1 DEF Load
    <3>2. kernel'.loads = kernel.loads + 1 /\ kernel'.testing = TestingDev(step, i)
      BY SMTT(60), <3>1
    <3>3. ASSUME NEW d \in sysfs'
          PROVE  d[1] = kernel.loads + 1 /\ kernel'.testing[d[2]] = "device"
      <4>1. PICK j \in RegisteredDevs(step, i) : d = <<kernel.loads + 1, j>>
        BY <3>1
      <4>2. step = "ok" /\ j \in TestingIndex
        BY <4>1 DEF RegisteredDevs
      <4>3. TestingDev(step, i)[j] = "device"
        BY ZenonT(60), <4>2 DEF TestingDev
      <4> QED
        BY SMTT(60), <3>2, <4>1, <4>3
    <3> QED
      BY SMTT(60), <3>2, <3>3 DEF DevInv
  <2>2. CASE Unload
    <3>1. sysfs' = {} /\ kernel'.loads = kernel.loads
      BY SMTT(60), <2>2 DEF Unload
    <3> QED
      BY <3>1 DEF DevInv
  <2> QED
    BY SMTT(60), <2>1, <2>2
<1> QED
  BY SMTT(60), <1>1, <1>2, <1>3 DEF DevInv

LEMMA RescanDevInv ==
    ASSUME DevInv, Rescan
    PROVE  DevInv'
<1>1. PICK new \in SUBSET (sysfs \ listed) :
          /\ listed' = (listed \cap sysfs) \cup new
          /\ devs' = [d \in DOMAIN devs \cup new |->
                         IF d \in new THEN [refs |-> 1, driver |-> Null]
                         ELSE Put(devs, listed \ sysfs)[d]]
  BY Zenon DEF Rescan
<1>2. UNCHANGED <<kernel, sysfs, lists, ctxs, fds, opens, lost>>
  BY Zenon DEF Rescan
<1> DEFINE f == Put(devs, listed \ sysfs)
<1>3. /\ f \in [DOMAIN devs -> VerbsDevice] /\ devs \in [DOMAIN devs -> VerbsDevice]
      /\ \A d \in DOMAIN devs : f[d].refs = devs[d].refs - One(d, listed \ sysfs)
  BY PutIs DEF DevInv
<1>4. devs' = [d \in DOMAIN devs \cup new |->
                  IF d \in new THEN [refs |-> 1, driver |-> Null] ELSE f[d]]
  BY ZenonT(60), <1>1
<1> HIDE DEF f
<1>5. new \cap DOMAIN devs = {}
  BY DEF DevInv
<1>6. /\ DOMAIN devs' = DOMAIN devs \cup new /\ devs' \in [DOMAIN devs' -> VerbsDevice]
      /\ \A d \in new : devs'[d].refs = 1
      /\ \A d \in DOMAIN devs : devs'[d].refs = devs[d].refs - One(d, listed \ sysfs)
  <2> DEFINE r == [refs |-> 1, driver |-> Null]
  <2>1. r \in VerbsDevice /\ r.refs = 1
    BY DEF VerbsDevice, Null
  <2> HIDE DEF r
  <2>2. /\ DOMAIN devs' = DOMAIN devs \cup new
        /\ \A d \in new : devs'[d] = r
        /\ \A d \in DOMAIN devs : devs'[d] = f[d]
        /\ devs' \in [DOMAIN devs' -> VerbsDevice]
    BY SMTT(60), <1>3, <1>4, <1>5, <2>1 DEF r
  <2> QED
    BY ZenonT(60), <1>3, <2>1, <2>2
<1>7. ASSUME NEW d \in DOMAIN devs' PROVE devs'[d].refs = References(d)'
  <2> DEFINE a == One(d, listed)
             z == One(d, listed')
             b == Cardinality(Holding(lists, d))
             c == Cardinality(OpenOn(ctxs, d))
             e == Lost(d)
  <2>1. References(d)' = z + b + c + e
    <3>1. References(d)' = One(d, listed') + Cardinality(Holding(lists', d))
                           + Cardinality(OpenOn(ctxs', d)) + Lost(d)'
      BY DEF References, One, Holding, OpenOn, Lost
    <3> QED
      BY SMTT(60), <1>2, <3>1 DEF Lost
  <2>2. CASE d \in new
    <3>1. d \in listed' /\ d \notin DOMAIN devs
      BY SMTT(60), <1>1, <1>5, <2>2
    <3>2. b = 0 /\ c = 0 /\ e = 0
      BY SMTT(60), <3>1, NoneHeld DEF DevInv, Lost
    <3> QED
      BY SMTT(60), <1>6, <2>1, <2>2, <3>1, <3>2 DEF One
  <2>3. CASE d \notin new
    <3>1. d \in DOMAIN devs
      BY SMTT(60), <1>6, <2>3
    <3>2. devs[d].refs = a + b + c + e /\ b \in Nat /\ c \in Nat /\ e \in Nat
      BY SMTT(60), <3>1, CountsAre DEF DevInv, ReferencesAreOwned
    <3>3. d \in listed' <=> d \in listed /\ d \in sysfs
      BY SMTT(60), <1>1, <2>3
    <3>4. devs'[d].refs = devs[d].refs - One(d, listed \ sysfs)
      BY ZenonT(60), <1>6, <3>1
    <3>5. z = a - One(d, listed \ sysfs) /\ a \in Nat /\ One(d, listed \ sysfs) \in Nat
      BY <3>3 DEF One
    <3> DEFINE o == One(d, listed \ sysfs)
    <3> HIDE DEF a, b, c, e, z, o
    <3>6. (a + b + c + e) - o = z + b + c + e
      BY <3>2, <3>5 DEF o
    <3> QED
      BY SMTT(60), <2>1, <3>2, <3>4, <3>6 DEF o
  <2> QED
    BY SMTT(60), <2>2, <2>3
<1>8. ReferencesAreOwned'
  BY Zenon, <1>2, <1>7 DEF DevInv, ReferencesAreOwned
<1>9. listed' \subseteq DOMAIN devs' /\ sysfs' \cap DOMAIN devs' \subseteq listed'
  BY SMTT(60), <1>1, <1>2, <1>6 DEF DevInv
<1>10. \A d \in sysfs' \cup DOMAIN devs' : d[1] \in Nat /\ d[1] <= kernel'.loads
  BY SMTT(60), <1>1, <1>2, <1>6 DEF DevInv
<1> QED
  BY SMTT(60), <1>2, <1>6, <1>8, <1>9, <1>10 DEF DevInv

\* A step that leaves the devices, their loads and what is registered alone keeps the
\* rest of the invariant when what is held is still among the devices.
LEMMA HeldDevInv ==
    ASSUME DevInv, UNCHANGED <<kernel, sysfs, listed>>, DOMAIN devs' = DOMAIN devs,
           devs' \in [DOMAIN devs -> VerbsDevice], opens' \in Nat,
           lost' \in [DOMAIN lost' -> Nat], DOMAIN lost' \subseteq DOMAIN devs,
           IsFiniteSet(lists'), IsFiniteSet(ctxs'),
           \A l \in lists' : l.devs \subseteq DOMAIN devs,
           \A c \in ctxs' : c.dev \in DOMAIN devs,
           \A d \in DOMAIN devs : devs'[d].refs = References(d)', fds' = Cardinality(ctxs')
    PROVE  DevInv'
<1>1. ReferencesAreOwned'
  BY Zenon DEF ReferencesAreOwned
<1> QED
  BY <1>1 DEF DevInv

LEMMA GetListDevInv ==
    ASSUME DevInv, GetDeviceList
    PROVE  DevInv'
<1>1. UNCHANGED <<kernel, sysfs, listed, ctxs, fds, opens, lost>>
  BY ZenonT(60) DEF GetDeviceList
<1> DEFINE x == [n |-> Fresh(lists), devs |-> listed]
<1>2. CASE lists' = lists \cup {x} /\ devs' = Hold(devs, listed)
  <2>1. x \notin lists /\ x.devs = listed
    BY SMTT(60), FreshIs DEF DevInv
  <2> HIDE DEF x
  <2>2. /\ IsFiniteSet(lists') /\ \A d : Cardinality(Holding(lists', d))
                                         = Cardinality(Holding(lists, d)) + One(d, listed)
    BY ZenonT(60), <1>2, <2>1, ListAdded DEF DevInv
  <2>3. /\ DOMAIN devs' = DOMAIN devs /\ devs' \in [DOMAIN devs -> VerbsDevice]
        /\ \A d \in DOMAIN devs : devs'[d].refs = devs[d].refs + One(d, listed)
    BY <1>2, HoldIs DEF DevInv
  <2>4. ASSUME NEW d \in DOMAIN devs PROVE devs'[d].refs = References(d)'
    <3> DEFINE a == One(d, listed)
               b == Cardinality(Holding(lists, d))
               c == Cardinality(OpenOn(ctxs, d))
               e == Lost(d)
    <3>1. /\ devs[d].refs = a + b + c + e
          /\ a \in Nat /\ b \in Nat /\ c \in Nat /\ e \in Nat
      BY SMTT(60), CountsAre DEF DevInv, ReferencesAreOwned
    <3>2. References(d)' = a + Cardinality(Holding(lists', d)) + c + e
      BY SMTT(60), <1>1 DEF References, One, Holding, OpenOn, Lost
    <3> HIDE DEF a, b, c, e
    <3>3. References(d)' = a + (b + a) + c + e /\ devs'[d].refs = (a + b + c + e) + a
      BY SMTT(60), <2>2, <2>3, <3>1, <3>2 DEF a, b
    <3> QED
      BY <3>1, <3>3
  <2>5. \A l \in lists' : l.devs \subseteq DOMAIN devs
    BY SMTT(60), <1>2, <2>1 DEF DevInv
  <2> QED
    BY SMTT(60), <1>1, <2>2, <2>3, <2>4, <2>5, HeldDevInv DEF DevInv, ReferencesAreOwned
<1>3. CASE UNCHANGED <<lists, devs>>
  <2>1. \A d : References(d)' = References(d)
    BY ZenonT(60), <1>1, <1>3 DEF References
  <2> QED
    BY SMTT(60), <1>1, <1>3, <2>1 DEF DevInv, ReferencesAreOwned
<1> QED
  BY ZenonT(60), <1>2, <1>3 DEF GetDeviceList

LEMMA FreeListDevInv ==
    ASSUME DevInv, NEW l \in lists, FreeDeviceList(l)
    PROVE  DevInv'
<1>1. /\ lists' = lists \ {l} /\ devs' = Put(devs, l.devs)
      /\ UNCHANGED <<kernel, sysfs, listed, ctxs, fds, opens, lost>>
  BY ZenonT(60) DEF FreeDeviceList
<1>2. /\ IsFiniteSet(lists') /\ \A d : Cardinality(Holding(lists', d))
                                       = Cardinality(Holding(lists, d)) - One(d, l.devs)
  BY ZenonT(60), <1>1, ListRemoved DEF DevInv
<1>3. /\ DOMAIN devs' = DOMAIN devs /\ devs' \in [DOMAIN devs -> VerbsDevice]
      /\ \A d \in DOMAIN devs : devs'[d].refs = devs[d].refs - One(d, l.devs)
  BY <1>1, PutIs DEF DevInv
<1>4. ASSUME NEW d \in DOMAIN devs PROVE devs'[d].refs = References(d)'
  <2> DEFINE a == One(d, listed)
             b == Cardinality(Holding(lists, d))
             c == Cardinality(OpenOn(ctxs, d))
             e == Lost(d)
             o == One(d, l.devs)
  <2>1. /\ devs[d].refs = a + b + c + e
        /\ a \in Nat /\ b \in Nat /\ c \in Nat /\ e \in Nat
    BY SMTT(60), CountsAre DEF DevInv, ReferencesAreOwned
  <2>2. References(d)' = a + Cardinality(Holding(lists', d)) + c + e
    BY SMTT(60), <1>1 DEF References, One, Holding, OpenOn, Lost
  <2>3. o \in Nat
    BY SMTT(60) DEF One
  <2> HIDE DEF a, b, c, e, o
  <2>4. References(d)' = a + (b - o) + c + e /\ devs'[d].refs = (a + b + c + e) - o
    BY SMTT(60), <1>2, <1>3, <2>1, <2>2 DEF b, o
  <2> QED
    BY <2>1, <2>3, <2>4
<1>5. \A k \in lists' : k.devs \subseteq DOMAIN devs
  BY SMTT(60), <1>1 DEF DevInv
<1> QED
  BY SMTT(60), <1>1, <1>2, <1>3, <1>4, <1>5, HeldDevInv DEF DevInv, ReferencesAreOwned

LEMMA CloseDevInv ==
    ASSUME DevInv, NEW x \in ctxs, CloseDevice(x)
    PROVE  DevInv'
<1>1. /\ ctxs' = ctxs \ {x} /\ fds' = fds - 1 /\ devs' = Put(devs, {x.dev})
      /\ UNCHANGED <<kernel, sysfs, listed, lists, opens, lost>>
  BY Zenon DEF CloseDevice
<1>2. /\ IsFiniteSet(ctxs') /\ Cardinality(ctxs') = Cardinality(ctxs) - 1
      /\ \A d : Cardinality(OpenOn(ctxs', d)) = Cardinality(OpenOn(ctxs, d)) - One(d, {x.dev})
  <2>1. ASSUME NEW d
        PROVE  /\ IsFiniteSet(ctxs \ {x}) /\ Cardinality(ctxs \ {x}) = Cardinality(ctxs) - 1
               /\ Cardinality(OpenOn(ctxs \ {x}, d)) = Cardinality(OpenOn(ctxs, d)) - One(d, {x.dev})
    BY ZenonT(60), CtxRemoved DEF DevInv
  <2> QED
    BY Zenon, <1>1, <2>1
<1>3. /\ DOMAIN devs' = DOMAIN devs /\ devs' \in [DOMAIN devs -> VerbsDevice]
      /\ \A d \in DOMAIN devs : devs'[d].refs = devs[d].refs - One(d, {x.dev})
  BY SMTT(60), <1>1, PutIs DEF DevInv
<1>4. ASSUME NEW d \in DOMAIN devs PROVE devs'[d].refs = References(d)'
  <2> DEFINE a == One(d, listed)
             b == Cardinality(Holding(lists, d))
             c == Cardinality(OpenOn(ctxs, d))
             e == Lost(d)
             o == One(d, {x.dev})
  <2>1. /\ devs[d].refs = a + b + c + e
        /\ a \in Nat /\ b \in Nat /\ c \in Nat /\ e \in Nat
    BY SMTT(60), CountsAre DEF DevInv, ReferencesAreOwned
  <2>2. References(d)' = a + b + Cardinality(OpenOn(ctxs', d)) + e
    BY SMTT(60), <1>1 DEF References, One, Holding, OpenOn, Lost
  <2>3. o \in Nat
    BY SMTT(60) DEF One
  <2> HIDE DEF a, b, c, e, o
  <2>4. References(d)' = a + b + (c - o) + e /\ devs'[d].refs = (a + b + c + e) - o
    BY ZenonT(60), <1>2, <1>3, <2>1, <2>2, <2>3 DEF c, o
  <2> QED
    BY SMTT(60), <2>1, <2>3, <2>4
<1>5. \A y \in ctxs' : y.dev \in DOMAIN devs
  BY <1>1 DEF DevInv
<1>6. fds' = Cardinality(ctxs')
  BY <1>1, <1>2 DEF DevInv, ReferencesAreOwned
<1> QED
  BY ZenonT(60), <1>1, <1>2, <1>3, <1>4, <1>5, <1>6, HeldDevInv DEF DevInv

LEMMA OpenDevInv ==
    ASSUME DevInv, NEW x, x \in DOMAIN devs, OpenDevice(x)
    PROVE  DevInv'
<1>1. opens' = opens + 1 /\ UNCHANGED <<kernel, sysfs, listed, lists>>
  BY Zenon DEF OpenDevice
<1>2. opens' \in Nat
  BY SMTT(60), <1>1 DEF DevInv
<1> DEFINE f == Hold(devs, {x})
           o(d) == One(d, {x})
<1>3. /\ DOMAIN f = DOMAIN devs /\ f \in [DOMAIN devs -> VerbsDevice]
      /\ \A d \in DOMAIN devs : f[d].refs = devs[d].refs + o(d)
  BY SMTT(60), HoldIs DEF DevInv
<1>4. \A d : o(d) \in Nat
  BY SMTT(60) DEF One
<1> DEFINE a(d) == One(d, listed)
           b(d) == Cardinality(Holding(lists, d))
           c(d) == Cardinality(OpenOn(ctxs, d))
<1>5. /\ \A d \in DOMAIN devs : devs[d].refs = a(d) + b(d) + c(d) + Lost(d)
      /\ \A d : a(d) \in Nat /\ b(d) \in Nat /\ c(d) \in Nat /\ Lost(d) \in Nat
  BY SMTT(60), CountsAre DEF DevInv, ReferencesAreOwned
<1>6. \A d : References(d)' = a(d) + b(d) + Cardinality(OpenOn(ctxs', d)) + Lost(d)'
  BY <1>1 DEF References, One, Holding, OpenOn, Lost
<1>7. ASSUME NEW data \in DriverNew(x)
      PROVE  /\ data \in Nat
             /\ [f EXCEPT ![x].driver = data] \in [DOMAIN devs -> VerbsDevice]
             /\ \A d \in DOMAIN devs : [f EXCEPT ![x].driver = data][d].refs = f[d].refs
  <2>1. data \in Nat
    BY SMTT(60) DEF DevInv, DriverNew, Null
  <2> HIDE DEF f
  <2> QED
    BY SMTT(60), <1>3, <2>1 DEF VerbsDevice
<1> HIDE DEF f, o, a, b, c
<1>8. CASE /\ devs' = f
           /\ lost' = [y \in DOMAIN lost \cup {x} |->
                          (IF y \in DOMAIN lost THEN lost[y] ELSE 0) + (IF y = x THEN 1 ELSE 0)]
           /\ UNCHANGED <<ctxs, fds>>
  <2>1. /\ DOMAIN lost' = DOMAIN lost \cup {x} /\ lost' \in [DOMAIN lost' -> Nat]
        /\ \A d : Lost(d)' = Lost(d) + o(d)
    BY <1>8 DEF DevInv, Lost, o, One
  <2>2. \A d : References(d)' = a(d) + b(d) + c(d) + (Lost(d) + o(d))
    BY ZenonT(60), <1>6, <1>8, <2>1 DEF c
  <2>3. ASSUME NEW d \in DOMAIN devs PROVE devs'[d].refs = References(d)'
    <3>1. devs'[d].refs = (a(d) + b(d) + c(d) + Lost(d)) + o(d)
      BY ZenonT(60), <1>3, <1>5, <1>8
    <3> QED
      BY SMTT(60), <1>4, <1>5, <2>2, <3>1
  <2> QED
    BY SMTT(60), <1>1, <1>2, <1>3, <1>8, <2>1, <2>3, HeldDevInv DEF DevInv, ReferencesAreOwned
<1>9. ASSUME NEW data \in DriverNew(x),
             devs' = [f EXCEPT ![x].driver = data],
             ctxs' = ctxs \cup {[n |-> Fresh(ctxs), dev |-> x]}, fds' = fds + 1, UNCHANGED lost
      PROVE  DevInv'
  <2> DEFINE y == [n |-> Fresh(ctxs), dev |-> x]
  <2>1. y \notin ctxs /\ y.dev = x
    BY FreshIs DEF DevInv
  <2> HIDE DEF y
  <2>2. ASSUME NEW d
        PROVE  /\ IsFiniteSet(ctxs \cup {y})
               /\ Cardinality(ctxs) \in Nat /\ Cardinality(ctxs \cup {y}) = Cardinality(ctxs) + 1
               /\ Cardinality(OpenOn(ctxs \cup {y}, d)) = c(d) + One(d, {y.dev})
    BY ZenonT(60), <2>1, CtxAdded DEF DevInv, c
  <2>3. /\ IsFiniteSet(ctxs') /\ fds' = Cardinality(ctxs')
        /\ \A d : Cardinality(OpenOn(ctxs', d)) = c(d) + o(d)
    <3>1. ctxs' = ctxs \cup {y} /\ fds' = fds + 1 /\ fds = Cardinality(ctxs)
      BY Zenon, <1>9 DEF y, DevInv, ReferencesAreOwned
    <3>2. \A d : One(d, {y.dev}) = o(d)
      BY Zenon, <2>1 DEF o
    <3> QED
      BY ZenonT(60), <2>2, <3>1, <3>2
  <2>4. \A d : References(d)' = a(d) + b(d) + (c(d) + o(d)) + Lost(d)
    <3>1. \A d : Lost(d)' = Lost(d)
      BY <1>9 DEF Lost
    <3> QED
      BY ZenonT(60), <1>6, <2>3, <3>1
  <2>5. /\ DOMAIN devs' = DOMAIN devs /\ devs' \in [DOMAIN devs -> VerbsDevice]
        /\ \A d \in DOMAIN devs : devs'[d].refs = f[d].refs
    BY SMTT(60), <1>7, <1>9
  <2>6. ASSUME NEW d \in DOMAIN devs PROVE devs'[d].refs = References(d)'
    <3>1. devs'[d].refs = (a(d) + b(d) + c(d) + Lost(d)) + o(d)
      BY ZenonT(60), <1>3, <1>5, <2>5
    <3> QED
      BY SMTT(60), <1>4, <1>5, <2>4, <3>1
  <2>7. \A z \in ctxs' : z.dev \in DOMAIN devs
    BY SMTT(60), <1>9, <2>1 DEF DevInv, y
  <2> QED
    BY SMTT(60), <1>1, <1>2, <1>9, <2>3, <2>5, <2>6, <2>7, HeldDevInv DEF DevInv
<1>10. ASSUME NEW data \in DriverNew(x),
              devs' = Put([f EXCEPT ![x].driver = data], {x}), UNCHANGED <<ctxs, fds, lost>>
       PROVE  DevInv'
  <2> DEFINE g == [f EXCEPT ![x].driver = data]
  <2>1. g \in [DOMAIN devs -> VerbsDevice] /\ \A d \in DOMAIN devs : g[d].refs = f[d].refs
    BY <1>7
  <2> HIDE DEF g
  <2>2. /\ DOMAIN devs' = DOMAIN devs /\ devs' \in [DOMAIN devs -> VerbsDevice]
        /\ \A d \in DOMAIN devs : devs'[d].refs = g[d].refs - o(d)
    <3>1. devs' = Put(g, {x})
      BY Zenon, <1>10 DEF g
    <3>2. /\ DOMAIN Put(g, {x}) = DOMAIN devs /\ Put(g, {x}) \in [DOMAIN devs -> VerbsDevice]
          /\ \A d \in DOMAIN devs : Put(g, {x})[d].refs = g[d].refs - One(d, {x})
      BY SMTT(60), <2>1, PutIs
    <3> QED
      BY Zenon, <3>1, <3>2 DEF o
  <2>3. \A d : References(d)' = a(d) + b(d) + c(d) + Lost(d)
    <3>1. \A d : Lost(d)' = Lost(d)
      BY SMTT(60), <1>10 DEF Lost
    <3> QED
      BY ZenonT(60), <1>6, <1>10, <3>1 DEF c
  <2>4. ASSUME NEW d \in DOMAIN devs PROVE devs'[d].refs = References(d)'
    <3>1. devs'[d].refs = ((a(d) + b(d) + c(d) + Lost(d)) + o(d)) - o(d)
      BY ZenonT(60), <1>3, <1>5, <2>1, <2>2
    <3> QED
      BY SMTT(60), <1>4, <1>5, <2>3, <3>1
  <2> QED
    BY ZenonT(60), <1>1, <1>2, <1>10, <2>2, <2>4, HeldDevInv DEF DevInv, ReferencesAreOwned
<1> QED
  BY ZenonT(60), <1>8, <1>9, <1>10 DEF OpenDevice, f

LEMMA NextDevInv == DevInv /\ [DevNext]_devVars => DevInv'
<1> SUFFICES ASSUME DevInv, [DevNext]_devVars PROVE DevInv'
  OBVIOUS
<1>1. CASE Load \/ Unload
  BY SMTT(60), <1>1, LoadDevInv
<1>2. CASE Rescan
  BY SMTT(60), <1>2, RescanDevInv
<1>3. CASE GetDeviceList
  BY SMTT(60), <1>3, GetListDevInv
<1>4. CASE \E l \in lists : FreeDeviceList(l)
  BY SMTT(60), <1>4, FreeListDevInv
<1>5. CASE \E l \in lists : \E d \in l.devs : OpenDevice(d)
  <2>1. PICK l \in lists : \E d \in l.devs : OpenDevice(d)
    BY SMTT(60), <1>5
  <2>2. \A d \in l.devs : d \in DOMAIN devs
    BY SMTT(60) DEF DevInv
  <2> QED
    BY ZenonT(60), <2>1, <2>2, OpenDevInv
<1>6. CASE \E x \in ctxs : CloseDevice(x)
  BY <1>6, CloseDevInv
<1>7. CASE UNCHANGED devVars
  <2>1. UNCHANGED <<kernel, sysfs, devs, listed, lists, ctxs, fds, opens, lost>>
    BY Zenon, <1>7 DEF devVars
  <2>2. \A d : References(d)' = References(d)
    BY Zenon, <2>1 DEF References
  <2> QED
    BY SMTT(60), <2>1, <2>2 DEF DevInv, ReferencesAreOwned
<1> QED
  BY ZenonT(60), <1>1, <1>2, <1>3, <1>4, <1>5, <1>6, <1>7 DEF DevNext
==============================================================================
