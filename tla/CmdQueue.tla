------------------------------- MODULE CmdQueue -------------------------------
(***************************************************************************)
(* CommandConfigurator (cmd/configurator.rs): the verbs threads that       *)
(* register memory or modify queue pairs send one command each to the card *)
(* through a pair of rings, under a lock, and busy-wait for its response.  *)
(* A response says that the card is done; nothing in it names the command. *)
(***************************************************************************)
EXTENDS DmaRing

CONSTANTS Threads,
          Cmds       \* what a command says

ASSUME CmdQueueAssumption == RING_BUF_LEN >= 2 /\ Zeroed \notin Threads

NoThread == Zeroed

VARIABLES lock,      \* the thread that holds cmd_qp, or NoThread
          pc,        \* where each thread is in its command
          req,       \* the host's DmaRingBuf of requests
          reqHead, reqTail,     \* its registers
          resp,      \* the host's DmaRingBuf of responses
          respHead, respTail,   \* its registers
          executed   \* history: the threads whose command the card has executed and
                     \* that have not returned

cmdVars == <<lock, pc, req, reqHead, reqTail, resp, respHead, respTail, executed>>

CmdInit ==
    /\ lock = NoThread
    /\ pc = [t \in Threads |-> "idle"]
    /\ req = NewRing
    /\ reqHead = 0 /\ reqTail = 0
    /\ resp = NewRing
    /\ respHead = 0 /\ respTail = 0
    /\ executed = {}

Goto(t, from, to) == pc[t] = from /\ pc' = [pc EXCEPT ![t] = to]

\* Mutant of LockFree: no lock is taken.
LockFreeAlways == TRUE

LockFree == lock = NoThread

\* self.cmd_qp.lock()
Lock(t) ==
    /\ Goto(t, "idle", "push")
    /\ LockFree
    /\ lock' = t
    /\ UNCHANGED <<req, reqHead, reqTail, resp, respHead, respTail, executed>>

\* QpUpdate::push; a full ring is ignored, and the command with it.
PushCmd(t, cmd) ==
    /\ Goto(t, "push", "flush")
    /\ req' = IF Remaining(req) > 0 THEN Push(req, [thread |-> t, cmd |-> cmd]) ELSE req
    /\ UNCHANGED <<lock, reqHead, reqTail, resp, respHead, respTail, executed>>

\* Mutant of Flush: the head is not written.
FlushForgotten(t) ==
    /\ Goto(t, "flush", "read tail")
    /\ UNCHANGED <<lock, req, reqHead, reqTail, resp, respHead, respTail, executed>>

\* QpUpdate::flush: write_head, then the tail is read.
Flush(t) ==
    /\ Goto(t, "flush", "read tail")
    /\ reqHead' = req.head
    /\ UNCHANGED <<lock, req, reqTail, resp, respHead, respTail, executed>>

\* Mutant of ReadTail: the tail is not read.
ReadTailForgotten(t) ==
    /\ Goto(t, "read tail", "wait")
    /\ UNCHANGED <<lock, req, reqHead, reqTail, resp, respHead, respTail, executed>>

ReadTail(t) ==
    /\ Goto(t, "read tail", "wait")
    /\ req' = SetTail(req, reqTail)
    /\ UNCHANGED <<lock, reqHead, reqTail, resp, respHead, respTail, executed>>

\* QpUpdate::wait ends with the first response there is; the lock is released when
\* the command returns.
Wait(t) ==
    /\ Goto(t, "wait", "idle")
    /\ resp.slots[Index(resp.tail)] # Zeroed
    /\ resp' = [Advance(resp) EXCEPT !.head = respHead]
    /\ respTail' = Inc(resp.tail)
    /\ lock' = NoThread
    /\ executed' = executed \ {t}
    /\ UNCHANGED <<req, reqHead, reqTail, respHead>>

\* QpUpdate::wait spins while there is none.
WaitSpins(t) ==
    /\ pc[t] = "wait"
    /\ resp.slots[Index(resp.tail)] = Zeroed
    /\ UNCHANGED cmdVars

\* The command the card executes next
NextCmd == req.slots[Index(reqTail)]

\* The card (external) executes the next command and answers it.
CardExecutes ==
    /\ reqTail # reqHead
    /\ Distance(respHead, respTail) < RING_BUF_LEN
    /\ resp' = [resp EXCEPT !.slots[Index(respHead)] = "done"]
    /\ executed' = executed \cup {NextCmd.thread}
    /\ reqTail' = Inc(reqTail)
    /\ respHead' = Inc(respHead)
    /\ UNCHANGED <<lock, pc, req, reqHead, respTail>>

\* A thread that has the lock goes on with its command.
Command(t) ==
    \/ \E cmd \in Cmds : PushCmd(t, cmd)
    \/ Flush(t) \/ ReadTail(t) \/ Wait(t) \/ WaitSpins(t)

\* CommandConfigurator::init for another instance of the driver, when the card is reset
NewRings ==
    /\ \A t \in Threads : pc[t] = "idle"
    /\ req' = NewRing /\ reqHead' = 0 /\ reqTail' = 0
    /\ resp' = NewRing /\ respHead' = 0 /\ respTail' = 0
    /\ UNCHANGED <<lock, pc, executed>>

CmdNext == (\E t \in Threads : Lock(t) \/ Command(t)) \/ CardExecutes \/ NewRings

CmdSpec == CmdInit /\ [][CmdNext]_cmdVars

------------------------------------------------------------------------------
\* The types of the threads' places, the rings and the registers.
CmdTypeOK ==
    /\ lock \in Threads \cup {NoThread}
    /\ \A t \in Threads : pc[t] \in {"idle", "push", "flush", "read tail", "wait"}
    /\ \A i \in Slots :
          /\ req.slots[i] \in [thread : Threads, cmd : Cmds] \cup {Zeroed}
          /\ resp.slots[i] \in {"done", Zeroed}
    /\ {req.head, req.tail, resp.head, resp.tail,
        reqHead, reqTail, respHead, respTail} \subseteq Pointers

\* A command returns only after the card has executed that command, though a response
\* does not say which command it is for.
ReturnsAfterExecution ==
    [][\A t \in Threads : pc[t] = "wait" /\ pc'[t] = "idle" => t \in executed]_cmdVars

\* No command is dropped: the ring has room whenever push is called, by a tail that is
\* as old as the last command.
NeverFull == \A t \in Threads : pc[t] = "push" => Remaining(req) > 0

\* Every command that has the lock returns: no thread waits for a response to a command
\* that was dropped, or that another thread has taken.
CommandsReturn == \A t \in Threads : pc[t] = "push" ~> pc[t] = "idle"
==============================================================================
