-------------------------------- MODULE Device --------------------------------
(***************************************************************************)
(* The life of a device before any verb: the kernel module makes its       *)
(* devices (kernel-driver/main.c, ethernet.c), libibverbs finds them and   *)
(* counts the references to them (libibverbs/init.c, device.c), and the    *)
(* provider opens them (providers/bluerdma/bluerdma.c), which creates an   *)
(* instance of the driver.  The instance belongs to the device and not to  *)
(* the context: the last one opened is the one every context uses.         *)
(***************************************************************************)
EXTENDS Integers, FiniteSets

CONSTANTS N_TESTING,     \* the devices the module makes
          MaxLoads,      \* bound: how often the module is loaded
          MaxLists,      \* bound: device lists an application holds at a time
          MaxOpens       \* bound: calls of ibv_open_device

ASSUME DeviceAssumption == N_TESTING \in Nat \ {0} /\ {MaxLoads, MaxLists, MaxOpens} \subseteq Nat

Null == 0

VARIABLES kernel,    \* the module: whether it is loaded, how often it was, testing_dev[]
          sysfs,     \* the devices that are registered: <<load, index>>
          devs,      \* the verbs_devices: references (0 when freed) and driver_data
          listed,    \* device_list
          listLock,  \* whether a thread in ibv_get_device_list has dev_list_lock
          lists,     \* the lists an application holds: a number and the devices
          ctxs,      \* the contexts an application holds: a number and the device
          fds,       \* the open files of contexts
          opens,     \* calls of ibv_open_device
          lost       \* history: references that no one will drop

devVars == <<kernel, sysfs, devs, listed, listLock, lists, ctxs, fds, opens, lost>>

TestingIndex == 0 .. N_TESTING - 1

DevInit ==
    /\ kernel = [loaded |-> FALSE, loads |-> 0, testing |-> [i \in TestingIndex |-> "NULL"]]
    /\ sysfs = {}
    /\ devs = <<>>
    /\ listed = {}
    /\ listLock = FALSE
    /\ lists = {}
    /\ ctxs = {}
    /\ fds = 0
    /\ opens = 0
    /\ lost = <<>>

\* A process that has opened the only device of the module and freed its list
Opened ==
    LET d == <<1, 0>>
    IN  /\ kernel = [loaded |-> TRUE, loads |-> 1, testing |-> [i \in TestingIndex |-> "device"]]
        /\ sysfs = {d}
        /\ devs = [x \in {d} |-> [refs |-> 2, driver |-> 1]]
        /\ listed = {d}
        /\ listLock = FALSE
        /\ lists = {}
        /\ ctxs = {[n |-> 1, dev |-> d]}
        /\ fds = 1
        /\ opens = MaxOpens
        /\ lost = <<>>

\* bluerdma_ib_device_add: which devices are registered when it has ended, by the step
\* that failed and its index.  A failure to register undoes the ones before.
RegisteredDevs(step, i) == IF step = "ok" THEN TestingIndex ELSE {}

\* testing_dev[] then.  The error path of bluerdma_create_netdev frees the device and
\* keeps the pointer to it.
TestingDev(step, i) ==
    [j \in TestingIndex |-> CASE step = "ok"              -> "device"
                              [] step = "netdev" /\ j = i -> "freed"
                              [] OTHER                    -> "NULL"]

\* bluerdma_init_module, which returns 0 whatever bluerdma_probe returns.
Load ==
    /\ ~kernel.loaded
    /\ kernel.loads < MaxLoads
    /\ \E step \in {"ok", "alloc", "netdev", "register"}, i \in TestingIndex :
          /\ kernel' = [loaded |-> TRUE, loads |-> kernel.loads + 1,
                        testing |-> TestingDev(step, i)]
          /\ sysfs' = {<<kernel.loads + 1, j>> : j \in RegisteredDevs(step, i)}
    /\ UNCHANGED <<devs, listed, listLock, lists, ctxs, fds, opens, lost>>

\* bluerdma_exit_module.  An open context keeps the module (external: ib_uverbs).  A
\* testing_dev that is freed is not modelled any further: the kernel may crash.
Unload ==
    /\ kernel.loaded
    /\ fds = 0
    /\ \A i \in TestingIndex : kernel.testing[i] # "freed"
    /\ kernel' = [kernel EXCEPT !.loaded = FALSE, !.testing = [i \in TestingIndex |-> "NULL"]]
    /\ sysfs' = {}
    /\ UNCHANGED <<devs, listed, listLock, lists, ctxs, fds, opens, lost>>

\* Mutant of Hold: no reference is taken.
HoldForgotten(f, S) == f

\* ibverbs_device_hold
Hold(f, S) == [d \in DOMAIN f |-> IF d \in S THEN [f[d] EXCEPT !.refs = @ + 1] ELSE f[d]]

\* ibverbs_device_put; the last one frees the device and the driver instance it has.
Put(f, S) == [d \in DOMAIN f |-> IF d \in S THEN [f[d] EXCEPT !.refs = @ - 1] ELSE f[d]]

\* ibverbs_get_device_list: devices that are gone lose the list's reference, new ones
\* get one, unless bluerdma_device_alloc fails.
Rescan ==
    /\ ~listLock
    /\ Cardinality(lists) < MaxLists
    /\ listLock' = TRUE
    /\ \E new \in SUBSET (sysfs \ listed) :
          /\ listed' = (listed \cap sysfs) \cup new
          /\ devs' = [d \in DOMAIN devs \cup new |->
                         IF d \in new THEN [refs |-> 1, driver |-> Null]
                         ELSE Put(devs, listed \ sysfs)[d]]
    /\ UNCHANGED <<kernel, sysfs, lists, ctxs, fds, opens, lost>>

\* A number that is not in use
Fresh(S) == CHOOSE n \in 1 .. Cardinality(S) + 1 : \A x \in S : x.n # n

\* The rest of ibv_get_device_list: each device is held, unless calloc fails.
GetDeviceList ==
    /\ listLock
    /\ listLock' = FALSE
    /\ \/ /\ lists' = lists \cup {[n |-> Fresh(lists), devs |-> listed]}
          /\ devs' = Hold(devs, listed)
       \/ UNCHANGED <<lists, devs>>
    /\ UNCHANGED <<kernel, sysfs, listed, ctxs, fds, opens, lost>>

\* ibv_free_device_list
FreeDeviceList(l) ==
    /\ lists' = lists \ {l}
    /\ devs' = Put(devs, l.devs)
    /\ UNCHANGED <<kernel, sysfs, listed, listLock, ctxs, fds, opens, lost>>

\* What driver_new may leave in driver_data: its result is not looked at.
DriverNew(d) == {Null, opens + 1}

\* ibv_open_device of a device of a list, after open_cdev.  It fails without a trace when
\* the context is not allocated or the kernel refuses it; it leaves a reference behind
\* when verbs_init_context cannot allocate; and it leaves the new driver instance, and
\* not the one before, when there is no file for events.
OpenDevice(d) ==
    /\ opens < MaxOpens
    /\ d \in sysfs
    /\ opens' = opens + 1
    /\ \/ /\ devs' = Hold(devs, {d})
          /\ lost' = [x \in DOMAIN lost \cup {d} |->
                         (IF x \in DOMAIN lost THEN lost[x] ELSE 0) + (IF x = d THEN 1 ELSE 0)]
          /\ UNCHANGED <<ctxs, fds>>
       \/ \E data \in DriverNew(d) :
             \/ /\ devs' = [Hold(devs, {d}) EXCEPT ![d].driver = data]
                /\ ctxs' = ctxs \cup {[n |-> Fresh(ctxs), dev |-> d]}
                /\ fds' = fds + 1
                /\ UNCHANGED lost
             \/ /\ devs' = Put([Hold(devs, {d}) EXCEPT ![d].driver = data], {d})
                /\ UNCHANGED <<ctxs, fds, lost>>
    /\ UNCHANGED <<kernel, sysfs, listed, listLock, lists>>

\* ibv_close_device, bluerdma_free_context, verbs_uninit_context
CloseDevice(c) ==
    /\ ctxs' = ctxs \ {c}
    /\ fds' = fds - 1
    /\ devs' = Put(devs, {c.dev})
    /\ UNCHANGED <<kernel, sysfs, listed, listLock, lists, opens, lost>>

DevNext ==
    \/ Load \/ Unload \/ Rescan \/ GetDeviceList
    \/ \E l \in lists : FreeDeviceList(l) \/ \E d \in l.devs : OpenDevice(d)
    \/ \E c \in ctxs : CloseDevice(c)

------------------------------------------------------------------------------
\* The references the library's own list, the application's lists and its contexts
\* have on a device, and the lost ones
References(d) ==
    (IF d \in listed THEN 1 ELSE 0)
    + Cardinality({l \in lists : d \in l.devs})
    + Cardinality({c \in ctxs : c.dev = d})
    + (IF d \in DOMAIN lost THEN lost[d] ELSE 0)

\* A device that is visible or used exists: one in sysfs has its bluerdma_dev, however
\* the load of the module ended, and one in device_list, in a list or under a context
\* of the application has not been freed, and its driver instance with it, whichever
\* thread dropped the last other reference.
UsedDevicesExist ==
    /\ \A d \in sysfs : kernel.testing[d[2]] = "device"
    /\ \A d \in listed \cup (UNION {l.devs : l \in lists}) \cup {c.dev : c \in ctxs} :
          devs[d].refs > 0

\* Nothing is kept or dropped twice: each reference belongs to device_list, to one list
\* or to one context ("Ownership of cmd_fd is transferred": device.c), and each open
\* file to one context, whatever step of an open fails.  Only a verbs_init_context that
\* fails loses a reference.
ReferencesAreOwned ==
    /\ \A d \in DOMAIN devs : devs[d].refs = References(d)
    /\ fds = Cardinality(ctxs)
==============================================================================
