-------------------------------- MODULE Verbs --------------------------------
(***************************************************************************)
(* HwDeviceCtx (verbs/ctx.rs) on one host: a device is opened (Device),    *)
(* and then one thread of the application registers memory (MemoryRegions) *)
(* while another creates and connects queue pairs (RecvChan).  Both send   *)
(* their commands to the card through the one command queue (CmdQueue).    *)
(* The other host's driver is at the far end of the channels; its commands *)
(* to its card are not modelled.                                           *)
(***************************************************************************)
EXTENDS MemoryRegions, RecvChan, Device, CmdQueue

CONSTANTS Here,        \* the node of this host
          Scenarios    \* what the applications do: how often reg_mr is called (regs), how
                       \* queue pairs are used (use), whether the device is opened and
                       \* closed (device) or is open from the start, and the build (debug)

ASSUME VerbsAssumption == Here \in Node /\ Threads = {"memory", "queue pairs"}

\* The command queue takes every command that names entries of the card's tables, and
\* the commands of create_qp and update_qp.
ASSUME CmdsAssumption ==
    [op : {"mtt"}, key : 0 .. MAX_MR_CNT * KEY_PART - 1, base : 0 .. PGT_LEN - 1]
    \cup [op : {"pgt"}, index : 0 .. PGT_LEN - 1, count : 1 .. MAX_NUM_PGT_ENTRY_PER_ALLOC]
    \cup {[op |-> "qp"]} \subseteq Cmds

\* The random part of a number has its width, and an application connects a queue pair to
\* the one that is connected to it.
ASSUME ScenariosAssumption ==
    \A s \in Scenarios :
        /\ s.use.plan \in Seq([node : Node, key : 0 .. QPN_KEY_PART - 1, peer : Nat, recvs : Nat])
        /\ \A q, p \in DOMAIN s.use.plan : s.use.plan[q].peer = p => s.use.plan[p].peer = q

VARIABLES opening,   \* whether the application opens and closes the device
          regs,      \* how often it may still call reg_mr
          call       \* the queue pair whose create_qp or update_qp waits for its command

vars == <<regVars, chanVars, devVars, cmdVars, opening, regs, call>>

NoCall == [verb |-> "none", qp |-> NoQp]

Init ==
    /\ RegInit /\ ChanInit /\ CmdInit
    /\ \E s \in Scenarios :
          /\ opening = s.device
          /\ IF s.device THEN DevInit ELSE Opened
          /\ regs = s.regs
          /\ use = s.use
          /\ debug = s.debug
    /\ call = NoCall

\* get_device finds a driver instance.
Ready == \E c \in ctxs : devs[c.dev].driver # Null

Idle(t) == pc[t] = "idle"

------------------------------------------------------------------------------
\* The thread that registers memory, between its commands
Memory ==
    /\ Ready /\ Idle("memory")
    /\ \/ /\ regs > 0
          /\ regs' = regs - 1
          /\ \E pages \in Areas : Register(pages)
       \/ /\ FillBuffer \/ Registered \/ \E r \in regions : Deregister(r)
          /\ UNCHANGED regs
    /\ UNCHANGED <<chanVars, devVars, cmdVars, opening, call>>

\* The thread that has the queue pairs: create_qp and update_qp up to their command, and
\* the verbs without one
QueuePairs ==
    /\ Ready
    /\ call = NoCall
    /\ \/ /\ CreateQp(Here)
          /\ call' = [verb |-> "create", qp |-> Len(qps) + 1]
       \/ \E q \in Live :
             /\ qps[q].node = Here
             /\ \/ /\ \E d \in Destinations(q) : SetAttr(q, NewAttr(q, d.qpn, d.node))
                   /\ call' = [verb |-> "update", qp |-> q]
                   /\ UNCHANGED <<use, used, tx, queue, workers, conns, qps>>
                \/ DataVerb(q) /\ UNCHANGED call
    /\ UNCHANGED <<regVars, devVars, cmdVars, opening, regs>>

\* The other node, where a whole verb is one step, and the threads of both nodes
OtherNode ==
    /\ \/ \E n \in Node \ {Here} : CreateQp(n)
       \/ \E q \in Live : qps[q].node # Here /\ (UpdateQp(q) \/ DataVerb(q))
       \/ RecvWorker
    /\ UNCHANGED <<regVars, devVars, cmdVars, opening, regs, call>>

------------------------------------------------------------------------------
\* What a thread wants the card to do
Wants(t) == IF t = "memory" THEN reg.pc \in {"mtt", "pgt"} ELSE call # NoCall

Cmd(t) == CASE t = "memory" /\ reg.pc = "mtt" -> MttUpdate
            [] t = "memory" /\ reg.pc = "pgt" -> PgtUpdate
            [] OTHER                          -> [op |-> "qp"]

\* A thread takes the lock of the command queue, and goes on until it waits.
Issue(t) ==
    /\ \/ Wants(t) /\ Lock(t)
       \/ PushCmd(t, Cmd(t))
       \/ Flush(t)
       \/ ReadTail(t)
    /\ UNCHANGED <<regVars, chanVars, devVars, opening, regs, call>>

\* The command of reg_mr returns.
MemoryReturns ==
    /\ Wait("memory")
    /\ reg' = AfterCommand(reg)
    /\ ran' = FALSE
    /\ UNCHANGED <<debug, mtt, buf, card, regions, chanVars, devVars, opening, regs, call>>

\* The command of create_qp or update_qp returns; update_qp makes the channel.
QueuePairReturns ==
    /\ Wait("queue pairs")
    /\ call' = NoCall
    /\ IF call.verb = "update"
       THEN MakeChannel(call.qp, attr[Here][IndexOf(call.qp)])
       ELSE UNCHANGED <<tx, workers>>
    /\ UNCHANGED <<regVars, use, used, attr, queue, conns, qps, devVars, opening, regs>>

\* The card (external) executes a command of either thread.
Card ==
    /\ CardExecutes
    /\ IF NextCmd.thread = "memory"
       THEN card' = Execute(NextCmd.cmd) /\ ran' = TRUE
       ELSE UNCHANGED <<card, ran>>
    /\ UNCHANGED <<debug, mtt, reg, buf, regions, chanVars, devVars, opening, regs, call>>

\* The device is opened, closed, unplugged...; a new instance of the driver has new
\* tables and a card that was reset.  No verb is under way.
Devices ==
    /\ opening
    /\ call = NoCall /\ \A t \in Threads : Idle(t)
    /\ DevNext
    /\ IF \E d \in DOMAIN devs' : d \in DOMAIN devs /\ devs'[d].driver \notin {Null, devs[d].driver}
       THEN NewInstance /\ NewTables(Here) /\ NewRings
       ELSE reg.pc = "idle" /\ UNCHANGED <<regVars, chanVars, cmdVars>>
    /\ UNCHANGED <<opening, regs, call>>

Next ==
    \/ Memory \/ QueuePairs \/ OtherNode \/ Devices \/ Card
    \/ \E t \in Threads : Issue(t)
    \/ MemoryReturns \/ QueuePairReturns

Spec == Init /\ [][Next]_vars

\* A thread in a command keeps running, and the card executes what it is given.
FairSpec ==
    /\ Spec
    /\ WF_vars(Card)
    /\ \A t \in Threads : WF_vars(Issue(t))
    /\ WF_vars(MemoryReturns) /\ WF_vars(QueuePairReturns)
==============================================================================
