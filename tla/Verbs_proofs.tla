---------------------------- MODULE Verbs_proofs ----------------------------
(***************************************************************************)
(* The host as a whole: what is proved of memory registration and of the   *)
(* command queue on their own holds of their composition, where two        *)
(* threads share the queue; the devices of the host and who holds them;    *)
(* and the receives on their way from one queue pair to its peer.          *)
(***************************************************************************)
EXTENDS Verbs, Host_proofs, MemoryRegions_proofs, RecvChan_proofs

------------------------------------------------------------------------------
(* The threads and the card, through the command queue *)

\* What the command queue has is what reg_mr waits for: the card has executed a command
\* of the thread that registers memory just when ran says so, the thread is in a command
\* only where reg_mr calls one, and the command that is pushed or before the card is the
\* one of this registration, and of the buffer as it still is.
Link ==
    /\ ran <=> "memory" \in executed
    /\ pc["memory"] # "idle" => reg.pc \in {"mtt", "pgt"}
    /\ pc["queue pairs"] # "idle" => call # NoCall
    /\ pc["memory"] = "flush" => req.slots[Index(reqHead)].cmd = Cmd("memory")
    /\ pc["memory"] \in {"read tail", "wait"} /\ reqTail # reqHead
          => req.slots[Index(reqTail)].cmd = Cmd("memory")

HostInv == RegInv /\ RegBounds /\ CmdInv /\ Link

LEMMA TheThreads ==
    /\ "memory" \in Threads /\ "queue pairs" \in Threads
    /\ \A t \in Threads : t = "memory" \/ t = "queue pairs"
  BY ZenonT(60), VerbsAssumption

\* The commands are those of the command queue.
LEMMA CmdIs ==
    ASSUME RegInv, RegBounds
    PROVE  /\ Cmd("queue pairs") \in Cmds
           /\ reg.pc \in {"mtt", "pgt"} =>
                 /\ Cmd("memory") \in Cmds
                 /\ Cmd("memory") = IF reg.pc = "mtt" THEN MttUpdate ELSE PgtUpdate
<1>1. Cmd("queue pairs") \in Cmds
  BY CmdsAssumption DEF Cmd
<1>2. ASSUME reg.pc = "mtt"
      PROVE  Cmd("memory") = MttUpdate /\ MttUpdate \in Cmds
  <2>1. reg.key \in 0 .. MAX_MR_CNT * KEY_PART - 1 /\ reg.index \in 0 .. PGT_LEN - 1
    BY SMTT(60), <1>2, CommandsFit
  <2>2. MttUpdate \in [op : {"mtt"}, key : 0 .. MAX_MR_CNT * KEY_PART - 1, base : 0 .. PGT_LEN - 1]
    BY <2>1, Zenon DEF MttUpdate
  <2> QED
    BY <1>2, <2>2, CmdsAssumption, Zenon DEF Cmd
<1>3. ASSUME reg.pc = "pgt"
      PROVE  Cmd("memory") = PgtUpdate /\ PgtUpdate \in Cmds
  <2>1. /\ reg.index + reg.done \in 0 .. PGT_LEN - 1
        /\ Len(buf) \in 1 .. MAX_NUM_PGT_ENTRY_PER_ALLOC
    BY SMTT(60), <1>3, CommandsFit
  <2>2. PgtUpdate \in [op : {"pgt"}, index : 0 .. PGT_LEN - 1,
                       count : 1 .. MAX_NUM_PGT_ENTRY_PER_ALLOC]
    BY <2>1, Zenon DEF PgtUpdate
  <2>3. Cmd("memory") = PgtUpdate
    BY <1>3 DEF Cmd
  <2> QED
    BY <2>2, <2>3, CmdsAssumption, Zenon
<1> QED
  BY ZenonT(60), <1>1, <1>2, <1>3

\* Link, when the thread that registers memory is in no command
LEMMA IdleLink ==
    ASSUME pc'["memory"] = "idle", pc'["queue pairs"] # "idle" => call' # NoCall,
           ran' <=> "memory" \in executed'
    PROVE  Link'
  BY Zenon DEF Link

LEMMA MemoryStep ==
    ASSUME HostInv, Memory
    PROVE  RegNext /\ UNCHANGED cmdVars /\ Link'
<1>1. RegNext /\ UNCHANGED <<cmdVars, call>> /\ pc["memory"] = "idle"
  BY Zenon DEF Memory, RegNext, Idle
<1>2. UNCHANGED <<ran, executed, pc>>
  BY Zenon, <1>1 DEF Memory, Register, FillBuffer, Registered, Deregister, cmdVars
<1> QED
  BY ZenonT(60), <1>1, <1>2, IdleLink DEF HostInv, Link

LEMMA QueuePairsStep ==
    ASSUME HostInv, QueuePairs
    PROVE  UNCHANGED regVars /\ UNCHANGED cmdVars /\ Link'
<1>1. UNCHANGED <<regVars, cmdVars>> /\ call = NoCall
  BY Zenon DEF QueuePairs
<1>2. UNCHANGED <<reg, buf, ran, executed, pc, req, reqHead, reqTail>>
  BY ZenonT(60), <1>1 DEF regVars, cmdVars
<1>3. pc["queue pairs"] = "idle"
  BY Zenon, <1>1 DEF HostInv, Link
<1> QED
  BY ZenonT(60), <1>1, <1>2, <1>3 DEF HostInv, Link, Cmd, MttUpdate, PgtUpdate

\* A step that changes neither registration, the command queue nor the calls
LEMMA SameLink ==
    ASSUME HostInv, UNCHANGED <<regVars, cmdVars, call>>
    PROVE  Link'
<1>1. UNCHANGED <<reg, buf, ran, executed, pc, req, reqHead, reqTail, call>>
  BY Zenon DEF regVars, cmdVars
<1> QED
  BY ZenonT(60), <1>1 DEF HostInv, Link, Cmd, MttUpdate, PgtUpdate

\* Taking the lock and the steps up to the wait
LEMMA IssueStep ==
    ASSUME HostInv, NEW t \in Threads, Issue(t)
    PROVE  UNCHANGED regVars /\ CmdNext /\ Link'
<1>1. UNCHANGED <<regVars, call>> /\ UNCHANGED <<reg, buf, ran>>
  BY Zenon DEF Issue, regVars
<1>2. pc \in [Threads -> {"idle", "push", "flush", "read tail", "wait"}] /\ CmdTypes /\ Locked
  BY Zenon DEF HostInv, CmdInv, CmdTypes
<1>3. Cmd("memory")' = Cmd("memory")
  BY ZenonT(60), <1>1 DEF Cmd, MttUpdate, PgtUpdate
<1>4. executed' = executed
  BY Zenon DEF Issue, Lock, PushCmd, Flush, ReadTail
<1>5. ran' <=> "memory" \in executed'
  BY ZenonT(60), <1>1, <1>4 DEF HostInv, Link
<1>6. CASE t = "queue pairs"
  <2>1. Lock(t) \/ (\E cmd \in Cmds : PushCmd(t, cmd)) \/ Flush(t) \/ ReadTail(t)
    BY ZenonT(60), <1>6, CmdIs DEF Issue, HostInv
  <2>2. CmdNext
    BY ZenonT(60), <2>1 DEF CmdNext, Command
  <2>3. pc["memory"] = "idle" /\ call # NoCall
    <3>1. CASE Lock(t)
      BY ZenonT(60), <1>2, <1>6, <3>1, TheThreads, RingLen DEF Lock, LockFree, Locked, NoThread, Issue, Wants,
         PushCmd, Flush, ReadTail, Goto
    <3>2. CASE ~Lock(t)
      <4>1. pc[t] # "idle"
        BY ZenonT(60), <2>1, <3>2 DEF PushCmd, Flush, ReadTail, Goto
      <4> QED
        BY ZenonT(60), <1>2, <1>6, <4>1, OneCommand, TheThreads DEF HostInv, Link
    <3> QED
      BY SMTT(60), <3>1, <3>2
  <2>4. pc'["memory"] = "idle"
    <3>1. \E to : pc' = [pc EXCEPT ![t] = to]
      BY ZenonT(60), <2>1 DEF Lock, PushCmd, Flush, ReadTail, Goto
    <3> QED
      BY ZenonT(60), <1>2, <1>6, <2>3, <3>1, TheThreads
  <2> QED
    BY ZenonT(60), <1>1, <1>5, <2>2, <2>3, <2>4, IdleLink
<1>7. CASE t = "memory"
  <2>1. reg.pc \in {"mtt", "pgt"} /\ pc["queue pairs"] = "idle"
    <3>1. CASE Wants(t) /\ Lock(t)
      BY ZenonT(60), <1>2, <1>7, <3>1, TheThreads, RingLen DEF Lock, LockFree, Locked, NoThread, Wants
    <3>2. CASE ~(Wants(t) /\ Lock(t))
      <4>1. pc[t] # "idle"
        BY ZenonT(60), <3>2 DEF Issue, PushCmd, Flush, ReadTail, Goto
      <4> QED
        BY ZenonT(60), <1>2, <1>7, <4>1, OneCommand, TheThreads DEF HostInv, Link
    <3> QED
      BY ZenonT(60), <3>1, <3>2
  <2>2. Cmd(t) \in Cmds
    BY ZenonT(60), <1>7, <2>1, CmdIs DEF HostInv
  <2>3. CmdNext
    BY ZenonT(60), <2>2 DEF Issue, CmdNext, Command
  <2>4. \E to : pc' = [pc EXCEPT ![t] = to]
    BY Zenon DEF Issue, Lock, PushCmd, Flush, ReadTail, Goto
  <2>5. pc'["queue pairs"] = "idle" /\ reg'.pc \in {"mtt", "pgt"}
    BY ZenonT(60), <1>1, <1>2, <1>7, <2>1, <2>4, TheThreads
  <2>6. CASE Lock(t)
    <3>1. pc'["memory"] = "push"
      BY ZenonT(60), <1>2, <1>7, <2>6, TheThreads DEF Lock, Goto
    <3> QED
      BY ZenonT(60), <1>1, <1>5, <2>3, <2>5, <3>1 DEF Link
  <2>7. CASE PushCmd(t, Cmd(t))
    <3>1. pc[t] = "push" /\ pc'["memory"] = "flush" /\ UNCHANGED reqHead
      BY ZenonT(60), <1>2, <1>7, <2>7, TheThreads DEF PushCmd, Goto
    <3>2. TailIsFresh /\ req.head = reqHead
      BY ZenonT(60), <3>1 DEF HostInv, CmdInv, Phases
    <3>3. req' = Push(req, [thread |-> t, cmd |-> Cmd(t)])
      BY ZenonT(60), <1>2, <2>7, <3>2, FreshLeavesRoom DEF PushCmd
    <3>4. /\ req \in [slots : [Slots -> Request \cup {Zeroed}], head : Pointers, tail : Pointers]
          /\ Index(req.head) \in Slots
      BY ZenonT(60), <1>2, PointerIs DEF CmdTypes
    <3> DEFINE d == [thread |-> t, cmd |-> Cmd(t)]
    <3>5. d.cmd = Cmd(t)
      OBVIOUS
    <3> HIDE DEF d
    <3>6. req'.slots[Index(req.head)] = d
      BY ZenonT(60), <3>3, <3>4 DEF Push, d
    <3>7. req'.slots[Index(reqHead')].cmd = Cmd("memory")'
      BY ZenonT(60), <1>3, <1>7, <3>1, <3>2, <3>5, <3>6
    <3> QED
      BY ZenonT(60), <1>1, <1>5, <2>3, <2>5, <3>1, <3>7 DEF Link
  <2>8. CASE Flush(t)
    <3>1. pc[t] = "flush" /\ pc'["memory"] = "read tail" /\ UNCHANGED <<req, reqTail>>
      BY ZenonT(60), <1>2, <1>7, <2>8, TheThreads DEF Flush, Goto
    <3>2. reqTail = reqHead /\ req.slots[Index(reqHead)].cmd = Cmd("memory")
      BY ZenonT(60), <1>7, <3>1 DEF HostInv, CmdInv, Phases, Quiet, Link
    <3>3. req'.slots[Index(reqTail')].cmd = Cmd("memory")'
      BY ZenonT(60), <1>3, <3>1, <3>2
    <3> QED
      BY ZenonT(60), <1>1, <1>5, <2>3, <2>5, <3>1, <3>3 DEF Link
  <2>9. CASE ReadTail(t)
    <3>1. /\ pc[t] = "read tail" /\ pc'["memory"] = "wait" /\ UNCHANGED <<reqHead, reqTail>>
          /\ req' = SetTail(req, reqTail)
      BY ZenonT(60), <1>2, <1>7, <2>9, TheThreads DEF ReadTail, Goto
    <3>2. req'.slots = req.slots
      BY ZenonT(60), <1>2, <3>1 DEF CmdTypes, SetTail
    <3>3. reqTail' # reqHead' => req'.slots[Index(reqTail')].cmd = Cmd("memory")'
      BY ZenonT(60), <1>3, <1>7, <3>1, <3>2 DEF HostInv, Link
    <3> QED
      BY ZenonT(60), <1>1, <1>5, <2>3, <2>5, <3>1, <3>3 DEF Link
  <2> QED
    BY ZenonT(60), <2>6, <2>7, <2>8, <2>9 DEF Issue
<1> QED
  BY ZenonT(60), <1>6, <1>7, TheThreads

LEMMA MemoryReturnsStep ==
    ASSUME HostInv, MemoryReturns
    PROVE  RegNext /\ CmdNext /\ Link'
<1>1. /\ Wait("memory") /\ reg' = AfterCommand(reg) /\ ran' = FALSE
      /\ UNCHANGED <<debug, mtt, buf, card, regions, call>>
  BY Zenon DEF MemoryReturns
<1>2. "memory" \in executed
  BY ZenonT(60), <1>1, TheThreads, WaitCmdInv DEF HostInv
<1>3. CmdTypes /\ Locked /\ pc["memory"] = "wait"
  BY ZenonT(60), <1>1 DEF HostInv, CmdInv, Wait, Goto
<1>4. RegNext
  BY ZenonT(60), <1>1, <1>2, <1>3 DEF HostInv, Link, CommandReturns, RegNext
<1>5. CmdNext
  BY ZenonT(60), <1>1, TheThreads DEF CmdNext, Command
<1>6. pc'["memory"] = "idle" /\ pc'["queue pairs"] = "idle" /\ "memory" \notin executed'
  <2>1. pc["queue pairs"] = "idle"
    BY ZenonT(60), <1>3, OneCommand, TheThreads
  <2> QED
    BY ZenonT(60), <1>1, <1>3, <2>1, TheThreads DEF Wait, Goto, CmdTypes
<1> QED
  BY ZenonT(60), <1>1, <1>4, <1>5, <1>6, IdleLink

LEMMA QueuePairReturnsStep ==
    ASSUME HostInv, QueuePairReturns
    PROVE  UNCHANGED regVars /\ CmdNext /\ Link'
<1>1. Wait("queue pairs") /\ UNCHANGED regVars
  BY Zenon DEF QueuePairReturns
<1>2. CmdTypes /\ Locked /\ pc["queue pairs"] = "wait"
  BY ZenonT(60), <1>1 DEF HostInv, CmdInv, Wait, Goto
<1>3. CmdNext
  BY ZenonT(60), <1>1, TheThreads DEF CmdNext, Command
<1>4. pc'["memory"] = "idle" /\ pc'["queue pairs"] = "idle"
  <2>1. pc["memory"] = "idle"
    BY ZenonT(60), <1>2, OneCommand, TheThreads
  <2> QED
    BY ZenonT(60), <1>1, <1>2, <2>1, TheThreads DEF Wait, Goto, CmdTypes
<1>5. ran' <=> "memory" \in executed'
  BY ZenonT(60), <1>1 DEF HostInv, Link, Wait, regVars
<1> QED
  BY ZenonT(60), <1>1, <1>3, <1>4, <1>5, IdleLink

LEMMA CardStep ==
    ASSUME HostInv, Card
    PROVE  [RegNext]_regVars /\ CmdNext /\ Link'
<1>1. /\ CardExecutes /\ reqTail # reqHead /\ executed' = executed \cup {NextCmd.thread}
      /\ UNCHANGED <<debug, mtt, reg, buf, regions, call, pc>>
      /\ IF NextCmd.thread = "memory"
         THEN card' = Execute(NextCmd.cmd) /\ ran' = TRUE
         ELSE UNCHANGED <<card, ran>>
  BY Zenon DEF Card, CardExecutes
<1>2. CmdNext
  BY ZenonT(60), <1>1 DEF CmdNext
<1>3. PICK t \in Threads : pc[t] \in {"read tail", "wait"} /\ Sent(t)
  <2>1. lock # NoThread
    BY ZenonT(60), <1>1 DEF HostInv, CmdInv, Phases, Quiet
  <2>2. lock \in Threads /\ pc[lock] # "idle"
    BY ZenonT(60), <2>1 DEF HostInv, CmdInv, CmdTypes, Locked
  <2>3. pc[lock] \in {"push", "flush", "read tail", "wait"}
    BY ZenonT(60), <2>2 DEF HostInv, CmdInv, CmdTypes
  <2>4. pc[lock] \in {"read tail", "wait"} /\ Sent(lock)
    BY ZenonT(60), <1>1, <2>2, <2>3 DEF HostInv, CmdInv, Phases, Quiet, Done
  <2> QED
    BY ZenonT(60), <2>2, <2>4
<1>4. NextCmd.thread = t /\ executed = {} /\ reqHead = Inc(reqTail) /\ reqTail' = Inc(reqTail)
      /\ reqHead' = reqHead
  BY ZenonT(60), <1>1, <1>3 DEF Sent, NoResponse, NextCmd, CardExecutes
<1>5. ran' <=> "memory" \in executed'
  <2>1. ~ran
    BY ZenonT(60), <1>4 DEF HostInv, Link
  <2> QED
    BY SMTT(60), <1>1, <1>4, <2>1
<1>6. Link'
  <2>1. pc'["memory"] # "flush" /\ reqTail' = reqHead'
    BY ZenonT(60), <1>1, <1>3, <1>4, OneCommand, TheThreads DEF HostInv, CmdInv
  <2> QED
    BY ZenonT(60), <1>1, <1>5, <2>1 DEF HostInv, Link
<1>7. [RegNext]_regVars
  <2>1. CASE t = "memory"
    <3>1. reg.pc \in {"mtt", "pgt"} /\ NextCmd.cmd = Cmd("memory") /\ ~ran
      BY ZenonT(60), <1>1, <1>3, <1>4, <2>1 DEF HostInv, Link, NextCmd
    <3>2. Cmd("memory") = IF reg.pc = "mtt" THEN MttUpdate ELSE PgtUpdate
      BY ZenonT(60), <3>1, CmdIs DEF HostInv
    <3>3. card' = Execute(IF reg.pc = "mtt" THEN MttUpdate ELSE PgtUpdate) /\ ran' = TRUE
      BY ZenonT(60), <1>1, <1>4, <2>1, <3>1, <3>2
    <3> QED
      BY ZenonT(60), <1>1, <3>1, <3>3 DEF CardExecutesUpdate, RegNext
  <2>2. CASE t # "memory"
    BY ZenonT(60), <1>1, <1>4, <2>2 DEF regVars
  <2> QED
    BY SMTT(60), <2>1, <2>2
<1> QED
  BY SMTT(60), <1>2, <1>6, <1>7

LEMMA DevicesStep ==
    ASSUME HostInv, Devices
    PROVE  [RegNext]_regVars /\ [CmdNext]_cmdVars /\ Link'
<1>1. pc["memory"] = "idle" /\ pc["queue pairs"] = "idle" /\ UNCHANGED call
  BY ZenonT(60), TheThreads DEF Devices, Idle
<1>2. (NewInstance /\ NewRings) \/ UNCHANGED <<regVars, cmdVars>>
  BY Zenon DEF Devices
<1>3. CASE NewInstance /\ NewRings
  <2>1. UNCHANGED <<ran, executed, pc>>
    BY ZenonT(60), <1>3 DEF NewInstance, NewRings
  <2>2. Link'
    BY ZenonT(60), <1>1, <2>1, IdleLink DEF HostInv, Link
  <2> QED
    BY ZenonT(60), <1>3, <2>2 DEF RegNext, CmdNext
<1>4. CASE UNCHANGED <<regVars, cmdVars>>
  BY ZenonT(60), <1>1, <1>4, SameLink
<1> QED
  BY SMTT(60), <1>2, <1>3, <1>4

\* Every step of the host is one of registration, or leaves it alone, and one of the
\* command queue, or leaves it alone.
LEMMA HostStep ==
    HostInv /\ [Next]_vars => [RegNext]_regVars /\ [CmdNext]_cmdVars /\ Link'
<1> SUFFICES ASSUME HostInv, [Next]_vars
             PROVE  [RegNext]_regVars /\ [CmdNext]_cmdVars /\ Link'
  OBVIOUS
<1>1. CASE Memory
  BY ZenonT(60), <1>1, MemoryStep
<1>2. CASE QueuePairs
  BY ZenonT(60), <1>2, QueuePairsStep
<1>3. CASE OtherNode
  BY ZenonT(60), <1>3, SameLink DEF OtherNode
<1>4. CASE Devices
  BY ZenonT(60), <1>4, DevicesStep
<1>5. CASE Card
  BY ZenonT(60), <1>5, CardStep
<1>6. CASE \E t \in Threads : Issue(t)
  BY ZenonT(60), <1>6, IssueStep
<1>7. CASE MemoryReturns
  BY ZenonT(60), <1>7, MemoryReturnsStep
<1>8. CASE QueuePairReturns
  BY ZenonT(60), <1>8, QueuePairReturnsStep
<1>9. CASE UNCHANGED vars
  BY ZenonT(60), <1>9, SameLink DEF vars
<1> QED
  BY ZenonT(60), <1>1, <1>2, <1>3, <1>4, <1>5, <1>6, <1>7, <1>8, <1>9 DEF Next

LEMMA NextHostInv == HostInv /\ [Next]_vars => HostInv'
<1> SUFFICES ASSUME HostInv, [Next]_vars PROVE HostInv'
  OBVIOUS
<1>1. [RegNext]_regVars /\ [CmdNext]_cmdVars /\ Link'
  BY SMTT(60), HostStep
<1>2. RegInv' /\ RegBounds' /\ CmdInv'
  BY SMTT(60), <1>1, NextRegInv, NextRegBounds, NextCmdInv DEF HostInv
<1> QED
  BY SMTT(60), <1>1, <1>2 DEF HostInv

LEMMA InitHostInv == Init => HostInv
<1> SUFFICES ASSUME Init PROVE HostInv
  OBVIOUS
<1>1. RegInit /\ CmdInit
  BY Zenon DEF Init
<1>2. Link
  BY ZenonT(60), <1>1, TheThreads DEF RegInit, CmdInit, Link
<1> QED
  BY SMTT(60), <1>1, <1>2, InitRegInv, InitRegBounds, InitCmdInv DEF HostInv

LEMMA HostInvariance == Spec => []HostInv
  BY InitHostInv, NextHostInv, PTL DEF Spec

\* The host implements memory registration by one thread: update_mtt and update_pgt
\* return once the card has executed this very command, on the buffer as it was filled
\* for it, with the command queue that the threads share in between.
THEOREM HostRegisters == Spec => RegSpec
<1>1. Init => RegInit
  BY ZenonT(60) DEF Init
<1> QED
  BY <1>1, HostStep, HostInvariance, PTL DEF Spec, RegSpec

\* The host's threads and its card use the command queue as CmdQueue describes.
THEOREM HostSendsCommands == Spec => CmdSpec
<1>1. Init => CmdInit
  BY ZenonT(60) DEF Init
<1> QED
  BY <1>1, HostStep, HostInvariance, PTL DEF Spec, CmdSpec

\* On the host as a whole the card translates the key of every region to its pages, and
\* no key is inserted twice into mrkey_map.
THEOREM HostTranslates == Spec => []RegionsTranslate /\ []KeysAreFresh
  BY HostRegisters, RegionsAlwaysTranslate, KeysAreAlwaysFresh, PTL

\* On the host as a whole no command is dropped, and each returns after the card has
\* executed it.
THEOREM HostCommandsReturn == Spec => []NeverFull /\ ReturnsAfterExecution
  BY HostSendsCommands, QueueIsNeverFull, CommandsReturnExecuted, PTL

------------------------------------------------------------------------------
(* The devices *)

LEMMA DevInvariance == Spec => []DevInv
<1>1. Init => DevInv
  <2>1. Init => DevInit \/ Opened
    BY Zenon DEF Init
  <2> QED
    BY SMTT(60), <2>1, InitDevInv
<1>2. [Next]_vars => [DevNext]_devVars
  BY ZenonT(60) DEF Next, vars, Memory, QueuePairs, OtherNode, Devices, Card, Issue, MemoryReturns,
     QueuePairReturns
<1> QED
  BY <1>1, <1>2, NextDevInv, PTL DEF Spec

\* A device that is visible, listed or opened exists, with its driver instance, for any
\* number of devices, loads of the module, lists and opens, whichever of their steps fail.
THEOREM UsedDevicesAlwaysExist == Spec => []UsedDevicesExist
  BY DevInvariance, UsedIsHeld, PTL

\* Each reference of ibverbs_device_hold and each open file has one owner.
THEOREM ReferencesAreAlwaysOwned == Spec => []ReferencesAreOwned
<1>1. DevInv => ReferencesAreOwned
  BY SMTT(60) DEF DevInv
<1> QED
  BY <1>1, DevInvariance, PTL

------------------------------------------------------------------------------
(* The receives *)

\* update_qp waits for its command on a queue pair of this node.
Updates == call.verb = "update" => call.qp \in DOMAIN qps /\ qps[call.qp].node = Here

\* The receives of applications that wait until both ends are connected and destroy
\* nothing
ChanInv ==
    /\ opening => use.plan = <<>>
    /\ use.handshake /\ ~use.destroy => ChanOK /\ Updates

LEMMA SameUpdates ==
    ASSUME Updates, QpsStay, UNCHANGED call
    PROVE  Updates'
  BY SMTT(60) DEF Updates, QpsStay

LEMMA IdleUpdates ==
    ASSUME call' = NoCall \/ call'.verb = "create"
    PROVE  Updates'
  BY DEF Updates, NoCall

LEMMA UnchangedChan ==
    ASSUME ChanOK, Updates, UNCHANGED <<chanVars, call>>
    PROVE  ChanOK' /\ Updates'
<1>1. ChanOK'
  BY ZenonT(60), SameChanOK
<1>2. QpsStay
  BY DEF QpsStay, chanVars
<1> QED
  BY ZenonT(60), <1>1, <1>2, SameUpdates

LEMMA QueuePairsChan ==
    ASSUME ChanOK, Updates, use.handshake, ~use.destroy, QueuePairs
    PROVE  ChanOK' /\ Updates'
<1>1. CASE CreateQp(Here) /\ call' = [verb |-> "create", qp |-> Len(qps) + 1]
  <2>1. ChanOK'
    BY ZenonT(60), <1>1, CreateChanOK, VerbsAssumption
  <2>2. call'.verb = "create"
    BY SMTT(60), <1>1
  <2> QED
    BY ZenonT(60), <2>1, <2>2, IdleUpdates
<1>2. ASSUME NEW q \in Live, qps[q].node = Here, NEW d \in Destinations(q),
             SetAttr(q, NewAttr(q, d.qpn, d.node)), call' = [verb |-> "update", qp |-> q],
             UNCHANGED <<use, used, tx, queue, workers, conns, qps>>
      PROVE  ChanOK' /\ Updates'
  <2>1. q \in DOMAIN qps
    BY DEF Live
  <2>2. PICK to \in AttrType : to = NewAttr(q, d.qpn, d.node) /\ Reaches(q, to)
    BY ZenonT(60), <2>1, NewAttrReaches
  <2>3. SetAttr(q, to)
    BY ZenonT(60), <1>2, <2>2
  <2>4. UNCHANGED <<tx, workers, use, used, qps>> /\ UNCHANGED <<use, used, queue, conns, qps>>
    BY ZenonT(60), <1>2
  <2>5. Linked
    BY ZenonT(60), <2>4, KeptLinked
  <2>6. ChanOK'
    BY ZenonT(60), <2>1, <2>2, <2>3, <2>4, <2>5, UpdateChanOK
  <2>7. Updates'
    BY SMTT(60), <1>2, <2>1 DEF Updates
  <2> QED
    BY ZenonT(60), <2>6, <2>7
<1>3. ASSUME NEW q \in Live, DataVerb(q), UNCHANGED call
      PROVE  ChanOK' /\ Updates'
  <2>1. q \in DOMAIN qps
    BY DEF Live
  <2>2. PostRecv(q) \/ Send(q)
    BY ZenonT(60), <1>3 DEF DataVerb, DestroyQp
  <2>3. ChanOK' /\ QpsStay
    BY ZenonT(60), <2>1, <2>2, PostRecvChanOK, SendChanOK
  <2> QED
    BY ZenonT(60), <1>3, <2>3, SameUpdates
<1> QED
  BY ZenonT(60), <1>1, <1>2, <1>3 DEF QueuePairs

LEMMA OtherNodeChan ==
    ASSUME ChanOK, Updates, use.handshake, ~use.destroy, OtherNode
    PROVE  ChanOK' /\ Updates'
<1>0. UNCHANGED call
  BY ZenonT(60) DEF OtherNode
<1>1. ASSUME NEW n \in Node, CreateQp(n)
      PROVE  ChanOK' /\ QpsStay
  BY ZenonT(60), <1>1, CreateChanOK
<1>2. ASSUME NEW q \in Live, UpdateQp(q)
      PROVE  ChanOK' /\ QpsStay
  <2>1. q \in DOMAIN qps
    BY DEF Live
  <2>2. PICK d \in Destinations(q) :
           /\ SetAttr(q, NewAttr(q, d.qpn, d.node)) /\ MakeChannel(q, NewAttr(q, d.qpn, d.node))
           /\ UNCHANGED <<use, used, queue, conns, qps>>
    BY ZenonT(60), <1>2 DEF UpdateQp
  <2>3. PICK to \in AttrType : to = NewAttr(q, d.qpn, d.node) /\ Reaches(q, to)
    BY ZenonT(60), <2>1, NewAttrReaches
  <2>4. SetAttr(q, to) /\ MakeChannel(q, to) /\ UNCHANGED <<use, used, qps>>
    BY ZenonT(60), <2>2, <2>3
  <2>5. Linked
    BY ZenonT(60), <2>1, <2>3, <2>4, MakeChannelLinked
  <2>6. ChanOK'
    BY ZenonT(60), <2>1, <2>2, <2>3, <2>4, <2>5, UpdateChanOK
  <2> QED
    BY ZenonT(60), <2>4, <2>6 DEF QpsStay
<1>3. ASSUME NEW q \in Live, DataVerb(q)
      PROVE  ChanOK' /\ QpsStay
  <2>1. q \in DOMAIN qps
    BY DEF Live
  <2>2. PostRecv(q) \/ Send(q)
    BY ZenonT(60), <1>3 DEF DataVerb, DestroyQp
  <2> QED
    BY Zenon, <2>1, <2>2, PostRecvChanOK, SendChanOK
<1>4. ASSUME RecvWorker
      PROVE  ChanOK' /\ QpsStay
  <2>1. PICK w \in DOMAIN workers : Accept(w) \/ Receive(w)
    BY ZenonT(60), <1>4 DEF RecvWorker
  <2>2. UNCHANGED qps
    BY ZenonT(60), <2>1 DEF Accept, Receive
  <2>3. ChanOK'
    BY ZenonT(60), <2>1, AcceptChanOK, ReceiveChanOK
  <2> QED
    BY ZenonT(60), <2>2, <2>3 DEF QpsStay
<1>5. ChanOK' /\ QpsStay
  <2>1. \/ \E n \in Node : CreateQp(n)
        \/ \E q \in Live : UpdateQp(q)
        \/ \E q \in Live : DataVerb(q)
        \/ RecvWorker
    BY DEF OtherNode
  <2> QED
    BY ZenonT(60), <1>1, <1>2, <1>3, <1>4, <2>1
<1> QED
  BY ZenonT(60), <1>0, <1>5, SameUpdates

LEMMA QueuePairReturnsChan ==
    ASSUME ChanOK, Updates, QueuePairReturns
    PROVE  ChanOK' /\ Updates'
<1>1. UNCHANGED <<use, used, attr, queue, conns, qps>> /\ call' = NoCall
  BY ZenonT(60) DEF QueuePairReturns
<1>2. Updates'
  BY ZenonT(60), <1>1, IdleUpdates
<1>3. CASE call.verb = "update"
  <2>1. PICK q \in DOMAIN qps : q = call.qp /\ qps[q].node = Here
    BY ZenonT(60), <1>3 DEF Updates
  <2>2. PICK to \in AttrType : to = Attr(q) /\ Reaches(q, to)
    BY ZenonT(60), Located DEF ChanOK, Attrs
  <2>3. MakeChannel(q, to)
    BY ZenonT(60), <1>3, <2>1, <2>2 DEF QueuePairReturns, Attr
  <2>4. Linked
    BY ZenonT(60), <1>1, <2>2, <2>3, MakeChannelLinked
  <2>5. SetAttr(q, to)
    <3>1. qps[q].node \in Node /\ IndexOf(q) \in Indices /\ to = attr[qps[q].node][IndexOf(q)]
      BY ZenonT(60), <2>2, Located DEF ChanOK, Attr
    <3>2. attr \in [Node -> [Indices -> AttrType]]
      BY SMTT(60) DEF ChanOK, ChanTypes
    <3>3. ASSUME NEW n \in Node, NEW i \in Indices
          PROVE  attr = [attr EXCEPT ![n][i] = attr[n][i]]
      BY SMTT(60), <3>2
    <3> QED
      BY ZenonT(60), <1>1, <3>1, <3>3 DEF SetAttr
  <2>6. ChanOK'
    BY ZenonT(60), <1>1, <2>2, <2>4, <2>5, UpdateChanOK
  <2> QED
    BY SMTT(60), <1>2, <2>6
<1>4. CASE call.verb # "update"
  <2>1. UNCHANGED chanVars
    BY ZenonT(60), <1>1, <1>4 DEF QueuePairReturns, chanVars
  <2> QED
    BY ZenonT(60), <1>2, <2>1, SameChanOK
<1> QED
  BY SMTT(60), <1>3, <1>4

LEMMA DevicesChan ==
    ASSUME ChanOK, Updates, opening => use.plan = <<>>, Devices
    PROVE  ChanOK' /\ Updates'
<1>1. opening /\ UNCHANGED call
  BY ZenonT(60) DEF Devices
<1>2. NewTables(Here) \/ UNCHANGED chanVars
  BY ZenonT(60) DEF Devices
<1>3. CASE NewTables(Here)
  BY ZenonT(60), <1>1, <1>3, VerbsAssumption, NewTablesChanOK, SameUpdates
<1>4. CASE UNCHANGED chanVars
  BY ZenonT(60), <1>1, <1>4, UnchangedChan
<1> QED
  BY SMTT(60), <1>2, <1>3, <1>4

LEMMA NextChanInv ==
    ASSUME ChanInv, [Next]_vars
    PROVE  ChanInv'
<1>1. UNCHANGED <<use, opening>>
  <2>1. CASE UNCHANGED vars
    BY ZenonT(60), <2>1 DEF vars, chanVars
  <2>2. CASE Memory
    BY ZenonT(60), <2>2 DEF Memory, chanVars
  <2>3. CASE QueuePairs
    BY ZenonT(60), <2>3 DEF QueuePairs, CreateQp, DataVerb, DestroyQp, PostRecv, Send
  <2>4. CASE OtherNode
    BY ZenonT(60), <2>4 DEF OtherNode, CreateQp, UpdateQp, DataVerb, DestroyQp, PostRecv, Send,
                       RecvWorker, Accept, Receive
  <2>5. CASE Devices
    BY ZenonT(60), <2>5 DEF Devices, NewTables, chanVars
  <2>6. CASE Card
    BY ZenonT(60), <2>6 DEF Card, chanVars
  <2>7. CASE \E t \in Threads : Issue(t)
    BY ZenonT(60), <2>7 DEF Issue, chanVars
  <2>8. CASE MemoryReturns
    BY ZenonT(60), <2>8 DEF MemoryReturns, chanVars
  <2>9. CASE QueuePairReturns
    BY ZenonT(60), <2>9 DEF QueuePairReturns
  <2> QED
    BY ZenonT(60), <2>1, <2>2, <2>3, <2>4, <2>5, <2>6, <2>7, <2>8, <2>9 DEF Next
<1>2. SUFFICES ASSUME use.handshake, ~use.destroy, ChanOK, Updates
               PROVE  ChanOK' /\ Updates'
  BY ZenonT(60), <1>1 DEF ChanInv
<1>3. CASE UNCHANGED vars
  <2>1. UNCHANGED <<chanVars, call>>
    BY ZenonT(60), <1>3 DEF vars
  <2> QED
    BY ZenonT(60), <1>2, <2>1, UnchangedChan
<1>4. CASE Memory
  <2>1. UNCHANGED <<chanVars, call>>
    BY ZenonT(60), <1>4 DEF Memory
  <2> QED
    BY Zenon, <1>2, <2>1, UnchangedChan
<1>5. CASE QueuePairs
  BY ZenonT(60), <1>2, <1>5, QueuePairsChan
<1>6. CASE OtherNode
  BY Zenon, <1>2, <1>6, OtherNodeChan
<1>7. CASE Devices
  BY ZenonT(60), <1>2, <1>7, DevicesChan DEF ChanInv
<1>8. CASE Card \/ MemoryReturns \/ \E t \in Threads : Issue(t)
  <2>1. UNCHANGED <<chanVars, call>>
    BY ZenonT(60), <1>8 DEF Card, MemoryReturns, Issue
  <2> QED
    BY Zenon, <1>2, <2>1, UnchangedChan
<1>9. CASE QueuePairReturns
  BY ZenonT(60), <1>2, <1>9, QueuePairReturnsChan
<1> QED
  BY ZenonT(60), <1>3, <1>4, <1>5, <1>6, <1>7, <1>8, <1>9 DEF Next

\* The driver of a node with queue pairs is the one that was opened first.
OneInstance == \A s \in Scenarios : s.device => s.use.plan = <<>>

LEMMA InitChanInv ==
    ASSUME OneInstance, Init
    PROVE  ChanInv
<1>1. PICK s \in Scenarios : opening = s.device /\ use = s.use
  BY ZenonT(60) DEF Init
<1>2. ChanInit /\ call = NoCall
  BY ZenonT(60) DEF Init
<1>3. opening => use.plan = <<>>
  BY ZenonT(60), <1>1 DEF OneInstance
<1>4. /\ use.plan \in Seq(Planned)
      /\ \A q, p \in DOMAIN use.plan : use.plan[q].peer = p => use.plan[p].peer = q
  BY ZenonT(60), <1>1, ScenariosAssumption DEF Planned
<1>5. ChanOK
  BY ZenonT(60), <1>2, <1>4, InitChanOK
<1>6. Updates
  BY SMTT(60), <1>2 DEF Updates, NoCall
<1> QED
  BY ZenonT(60), <1>3, <1>5, <1>6 DEF ChanInv

LEMMA ChanOrder ==
    ASSUME ChanInv
    PROVE  ReceivesReachPeerOnce
<1> SUFFICES ASSUME ~use.destroy, use.handshake, NEW q \in Live
             PROVE  ReceivesInOrder(q)
  BY ZenonT(60) DEF ReceivesReachPeerOnce, ReceivesReachPeer
<1>1. ChanOK /\ q \in DOMAIN qps
  BY SMTT(60) DEF ChanInv, Live
<1>2. qps[q].got \in Seq(Wr) /\ Waiting(q) \in Seq(Wr) /\ Sending(Peer(q)) \in Seq(Wr)
  <2>1. qps[q].got \in Seq(Wr) /\ Waiting(q) \in Seq(Wr)
    BY ZenonT(60), <1>1, Located DEF ChanOK
  <2>2. CASE Peer(q) \in DOMAIN qps /\ Tx(Peer(q)).conn # NoConn
    <3>1. Tx(Peer(q)).conn \in DOMAIN conns
      BY SMTT(60), <1>1, <2>2 DEF ChanOK, Connections, NoConn, ChanTypes
    <3>2. conns[Tx(Peer(q)).conn] \in ConnType
      BY ZenonT(60), <1>1, <3>1, Element DEF ChanOK, ChanTypes
    <3>3. conns[Tx(Peer(q)).conn].data \in Seq(Wr)
      BY ZenonT(60), <3>2 DEF ConnType
    <3> QED
      BY SMTT(60), <2>1, <2>2, <3>3 DEF Sending
  <2>3. CASE ~(Peer(q) \in DOMAIN qps /\ Tx(Peer(q)).conn # NoConn)
    BY SMTT(60), <2>1, <2>3 DEF Sending
  <2> QED
    BY SMTT(60), <2>2, <2>3
<1>3. PICK s : s = qps[q].got \o Waiting(q)
  BY ZenonT(60)
<1>4. s \in Seq(Wr)
  BY <1>2, <1>3
<1>5. Coming(q) = s \o Sending(Peer(q)) /\ InOrder(Coming(q), Peer(q))
  BY Zenon, <1>1, <1>3 DEF Coming, ChanOK, Flow
<1>6. ASSUME NEW k \in 1 .. Len(s)
      PROVE  s[k] = [qp |-> Peer(q), n |-> k]
  <2>1. PICK z \in Seq(Wr) : z = Sending(Peer(q))
    BY SMTT(60), <1>2
  <2>2. k \in 1 .. Len(s \o z) /\ (s \o z)[k] = s[k]
    BY SMTT(60), <1>4
  <2> QED
    BY ZenonT(60), <1>5, <2>1, <2>2 DEF InOrder
<1> QED
  BY ZenonT(60), <1>3, <1>6 DEF ReceivesInOrder, Waiting

\* A receive posted to a queue pair reaches the queue pair it is connected to, in order
\* and once (post_recv, RecvWorker::run, send), whatever queue pairs the applications
\* create on the nodes, when they connect both ends before they post and destroy none.
THEOREM ReceivesArriveInOrder ==
    ASSUME OneInstance
    PROVE  Spec => []ReceivesReachPeerOnce
<1>1. Init => ChanInv
  BY SMTT(60), InitChanInv
<1>2. ChanInv /\ [Next]_vars => ChanInv'
  BY SMTT(60), NextChanInv
<1>3. ChanInv => ReceivesReachPeerOnce
  BY ChanOrder
<1> QED
  BY <1>1, <1>2, <1>3, PTL DEF Spec
==============================================================================
