--------------------------- MODULE VfioPciDevice ---------------------------
(***************************************************************************)
(* The life of the devices bound to the vfio-pci driver: open and release  *)
(* under driver_lock, enabling and disabling the PCI function, the bus or  *)
(* slot reset tried at the last release, the hot reset a user asks for,    *)
(* and the probe and remove callbacks of the PCI core.                     *)
(*                                                                         *)
(* Source: kernel/kernel-examples/lock/vfio_pci.c.                         *)
(*                                                                         *)
(* One File is one struct file of a VFIO device together with the thread   *)
(* that works on it; pc says where in the driver that thread is.  What the *)
(* driver_lock section of one thread cannot show to any other thread is    *)
(* one step.  The device lock of the PCI core is held exactly while a      *)
(* device is probed or removed, so it is derived from drv.                 *)
(***************************************************************************)
EXTENDS Integers, FiniteSets

CONSTANTS
    Device,         \* the PCI functions of one bus
    Group,          \* the IOMMU groups
    File,           \* the device files the users may have open
    User,           \* the processes that own groups and files
    OwnerOf,        \* the user of each file
    GroupOf,        \* the IOMMU group of each device
    SlotOf,         \* the hot-plug slot of each device
    SlotReset,      \* the slots pci_probe_reset_slot accepts
    BusReset,       \* does pci_probe_reset_bus accept the bus?
    Flr,            \* the devices with a function reset
    Igd,            \* the Intel graphics devices (vfio_pci_igd_init runs)
    DisableIdleD3,  \* the module parameter disable_idle_d3
    Rebind,         \* may the administrator bind and unbind drivers?
    Reliable,       \* do resets and allocations succeed when they are possible?
    None            \* no file, no user

ASSUME FileAssumption == IsFiniteSet(File) /\ None \notin File
ASSUME UserAssumption == None \notin User /\ OwnerOf \in [File -> User]
ASSUME DeviceAssumption ==
    /\ None \notin Device
    /\ GroupOf \in [Device -> Group]
    /\ Flr \subseteq Device
    /\ Igd \subseteq Device
ASSUME ParameterAssumption ==
    {BusReset, DisableIdleD3, Rebind, Reliable} \subseteq BOOLEAN

VARIABLES
    drv,            \* which driver a device is bound to
    power,          \* the PCI power state
    refcnt,         \* vfio_pci_device.refcnt
    enable_cnt,     \* the enable count of pci_enable_device
    needs_reset,    \* vfio_pci_device.needs_reset
    reset_works,    \* vfio_pci_device.reset_works
    list_init,      \* is dummy_resources_list initialised?
    dirty,          \* used by its present driver and not reset since
    driver_lock,    \* the file whose thread holds driver_lock
    module,         \* is the module live or going?
    modrefs,        \* the reference count of the module
    gowner,         \* the user of each group
    pc,             \* where the thread of each file is
    dev,            \* the device of each file
    devs,           \* the vfio_devices collected by vfio_pci_try_bus_reset
    ok,             \* the outcome of its steps so far (ret = 0)
    ext             \* the groups held by a hot reset

devVars  == <<drv, power, refcnt, enable_cnt, needs_reset, reset_works,
              list_init, dirty>>
fileVars == <<pc, dev, devs, ok, ext>>
modVars  == <<driver_lock, module, modrefs>>
vars     == <<devVars, modVars, gowner, fileVars>>

(* Control points.  The threads at Critical hold driver_lock. *)
Waiting  == {"lock", "rel"}
Opened   == {"open", "hot", "hotput", "rel"}
Critical == {"enable", "init", "disable", "collect", "judge", "put", "oops"}
PCs      == {"closed", "entry"} \cup Waiting \cup Opened \cup Critical

FlagsOK ==
    /\ drv         \in [Device -> {"none", "probing", "vfio", "removing", "other"}]
    /\ power       \in [Device -> {"D0", "D3hot"}]
    /\ needs_reset \in [Device -> BOOLEAN]
    /\ reset_works \in [Device -> BOOLEAN]
    /\ list_init   \in [Device -> BOOLEAN]
    /\ dirty       \in [Device -> BOOLEAN]

CountsOK ==
    /\ refcnt      \in [Device -> Nat]
    /\ enable_cnt  \in [Device -> Nat]
    /\ modrefs     \in Nat

ThreadsOK ==
    /\ driver_lock \in File \cup {None}
    /\ module      \in {"live", "going"}
    /\ gowner      \in [Group -> User \cup {None}]
    /\ pc          \in [File -> PCs]
    /\ dev         \in [File -> Device \cup {None}]
    /\ devs        \in [File -> SUBSET Device]
    /\ ok          \in [File -> BOOLEAN]
    /\ ext         \in [File -> SUBSET Group]

TypeOK == FlagsOK /\ CountsOK /\ ThreadsOK

----------------------------------------------------------------------------
(* A vfio_device exists for d; its vfio_pci_device is allocated. *)
Present(d) == drv[d] \in {"probing", "vfio", "removing"}

(* The PCI core holds the device lock of d. *)
Locked(d) == drv[d] \in {"probing", "removing"}

(* Somebody holds a reference to the vfio_device of d. *)
Held(d) == \E f \in File : dev[f] = d \/ d \in devs[f]

(* The files whose open of d has succeeded and whose release has not yet   *)
(* dropped the count.                                                      *)
OpenFiles(d) == {f \in File : dev[f] = d /\ pc[f] \in Opened}

(* The files on whose behalf the module is referenced. *)
ModuleFiles == {f \in File : pc[f] \notin {"closed", "entry"}}

(* The devices a reset of the slot or bus of d reaches: those              *)
(* vfio_pci_for_each_slot_or_bus walks, none when neither can be reset.    *)
Affected(d) ==
    IF SlotOf[d] \in SlotReset THEN {e \in Device : SlotOf[e] = SlotOf[d]}
    ELSE IF BusReset THEN Device ELSE {}

(* A reset wakes every device it reaches and wipes what was done to it. *)
Reset(S) ==
    /\ dirty' = [d \in Device |-> IF d \in S THEN FALSE ELSE dirty[d]]
    /\ power' = [d \in Device |-> IF d \in S THEN "D0" ELSE power[d]]

(* What an operation that may fail for reasons outside the model returns,  *)
(* where b says whether it can succeed.                                    *)
Outcome(b) == {r \in BOOLEAN : (r => b) /\ (Reliable => (r <=> b))}

(* The thread of f leaves the driver for good: the fd is gone, or was      *)
(* never created, and the references to device and module are dropped.     *)
Leave(f) ==
    /\ pc' = [pc EXCEPT ![f] = "closed"]
    /\ dev' = [dev EXCEPT ![f] = None]
    /\ modrefs' = modrefs - 1

Goto(f, l) == pc' = [pc EXCEPT ![f] = l]

----------------------------------------------------------------------------
Init ==
    /\ drv = [d \in Device |-> "vfio"]
    /\ power = [d \in Device |-> IF DisableIdleD3 THEN "D0" ELSE "D3hot"]
    /\ refcnt = [d \in Device |-> 0]
    /\ enable_cnt = [d \in Device |-> 0]
    /\ needs_reset = [d \in Device |-> FALSE]
    /\ reset_works = [d \in Device |-> FALSE]
    /\ list_init = [d \in Device |-> FALSE]
    /\ dirty = [d \in Device |-> FALSE]
    /\ driver_lock = None
    /\ module = "live"
    /\ modrefs = 0
    /\ gowner = [g \in Group |-> None]
    /\ pc = [f \in File |-> "closed"]
    /\ dev = [f \in File |-> None]
    /\ devs = [f \in File |-> {}]
    /\ ok = [f \in File |-> FALSE]
    /\ ext = [f \in File |-> {}]

----------------------------------------------------------------------------
(* The vfio core, as the driver relies on it.                              *)

(* A group has one user at a time, and none while a device of it belongs   *)
(* to a host driver.                                                       *)
OpenGroup(u, g) ==
    /\ gowner[g] = None
    /\ \A d \in Device : GroupOf[d] = g => drv[d] # "other"
    /\ gowner' = [gowner EXCEPT ![g] = u]
    /\ UNCHANGED <<devVars, modVars, fileVars>>

(* The group is free again when its devices are closed and no hot reset    *)
(* holds it.                                                               *)
CloseGroup(g) ==
    /\ gowner[g] # None
    /\ \A f \in File : /\ dev[f] # None => GroupOf[dev[f]] # g
                       /\ g \notin ext[f]
    /\ gowner' = [gowner EXCEPT ![g] = None]
    /\ UNCHANGED <<devVars, modVars, fileVars>>

(* VFIO_GROUP_GET_DEVICE_FD takes a reference to the device and calls the  *)
(* driver's open.                                                          *)
GetDeviceFd(f, d) ==
    /\ pc[f] = "closed"
    /\ Present(d)
    /\ gowner[GroupOf[d]] = OwnerOf[f]
    /\ Goto(f, "entry")
    /\ dev' = [dev EXCEPT ![f] = d]
    /\ UNCHANGED <<devVars, modVars, gowner, devs, ok, ext>>

(* The last reference to the file goes away: the core calls release. *)
PutDeviceFd(f) ==
    /\ pc[f] = "open"
    /\ Goto(f, "rel")
    /\ UNCHANGED <<devVars, modVars, gowner, dev, devs, ok, ext>>

(* The user works with the device through reads, writes, maps, interrupts. *)
Use(f) ==
    /\ pc[f] = "open"
    /\ dirty' = [dirty EXCEPT ![dev[f]] = TRUE]
    /\ UNCHANGED <<drv, power, refcnt, enable_cnt, needs_reset, reset_works,
                   list_init, modVars, gowner, fileVars>>

----------------------------------------------------------------------------
(* vfio_pci_open                                                           *)

OpenTryModuleGet(f) ==
    /\ pc[f] = "entry"
    /\ \/ /\ module = "live"
          /\ modrefs' = modrefs + 1
          /\ Goto(f, "lock")
          /\ dev' = dev
       \/ /\ module = "going"               \* -ENODEV
          /\ Goto(f, "closed")
          /\ dev' = [dev EXCEPT ![f] = None]
          /\ modrefs' = modrefs
    /\ UNCHANGED <<devVars, driver_lock, module, gowner, devs, ok, ext>>

(* The device is in use already: only the count changes. *)
OpenAgain(f) ==
    LET d == dev[f] IN
    /\ pc[f] = "lock"
    /\ driver_lock = None
    /\ refcnt[d] # 0
    /\ refcnt' = [refcnt EXCEPT ![d] = @ + 1]
    /\ Goto(f, "open")
    /\ UNCHANGED <<drv, power, enable_cnt, needs_reset, reset_works, list_init,
                   dirty, modVars, gowner, dev, devs, ok, ext>>

(* vfio_pci_enable up to pci_enable_device, which may fail: the device is  *)
(* then left in D0.  Mutant: every open enables the device.                *)
OpenFirstAlways(f) ==
    LET d == dev[f] IN
    /\ pc[f] = "lock"
    /\ driver_lock = None
    /\ power' = [power EXCEPT ![d] = "D0"]
    /\ \/ /\ enable_cnt' = [enable_cnt EXCEPT ![d] = @ + 1]
          /\ driver_lock' = f
          /\ Goto(f, "enable")
          /\ UNCHANGED <<dev, modrefs>>
       \/ /\ Leave(f)
          /\ UNCHANGED <<enable_cnt, driver_lock>>
    /\ UNCHANGED <<drv, refcnt, needs_reset, reset_works, list_init, dirty,
                   module, gowner, devs, ok, ext>>

OpenFirst(f) ==
    LET d == dev[f] IN
    /\ pc[f] = "lock"
    /\ driver_lock = None
    /\ refcnt[d] = 0
    /\ power' = [power EXCEPT ![d] = "D0"]
    /\ \/ /\ enable_cnt' = [enable_cnt EXCEPT ![d] = @ + 1]
          /\ driver_lock' = f
          /\ Goto(f, "enable")
          /\ UNCHANGED <<dev, modrefs>>
       \/ /\ Leave(f)
          /\ UNCHANGED <<enable_cnt, driver_lock>>
    /\ UNCHANGED <<drv, refcnt, needs_reset, reset_works, list_init, dirty,
                   module, gowner, devs, ok, ext>>

(* pci_reset_function waits for the device lock where there is a function  *)
(* reset, and fails at once where there is none.                           *)
EnableReset(f) ==
    LET d == dev[f] IN
    /\ pc[f] = "enable"
    /\ d \in Flr => ~Locked(d)
    /\ \E works \in Outcome(d \in Flr) :
        /\ reset_works' = [reset_works EXCEPT ![d] = works]
        /\ Reset(IF works THEN {d} ELSE {})
    /\ Goto(f, "init")
    /\ UNCHANGED <<drv, refcnt, enable_cnt, needs_reset, list_init, modVars,
                   gowner, dev, devs, ok, ext>>

(* The rest of vfio_pci_enable succeeds; vfio_pci_probe_mmaps initialises  *)
(* the list of dummy resources; the count is taken and the lock dropped.   *)
(* Mutant: the count is not taken.                                         *)
EnableDoneNoCount(f) ==
    /\ pc[f] = "init"
    /\ list_init' = [list_init EXCEPT ![dev[f]] = TRUE]
    /\ driver_lock' = None
    /\ Goto(f, "open")
    /\ UNCHANGED <<drv, power, refcnt, enable_cnt, needs_reset, reset_works,
                   dirty, module, modrefs, gowner, dev, devs, ok, ext>>

EnableDone(f) ==
    LET d == dev[f] IN
    /\ pc[f] = "init"
    /\ list_init' = [list_init EXCEPT ![d] = TRUE]
    /\ refcnt' = [refcnt EXCEPT ![d] = @ + 1]
    /\ driver_lock' = None
    /\ Goto(f, "open")
    /\ UNCHANGED <<drv, power, enable_cnt, needs_reset, reset_works, dirty,
                   module, modrefs, gowner, dev, devs, ok, ext>>

(* vfio_config_init fails: the device is disabled again, not reset.        *)
EnableConfigFails(f) ==
    /\ pc[f] = "init"
    /\ enable_cnt' = [enable_cnt EXCEPT ![dev[f]] = @ - 1]
    /\ driver_lock' = None
    /\ Leave(f)
    /\ UNCHANGED <<drv, power, refcnt, needs_reset, reset_works, list_init,
                   dirty, module, gowner, devs, ok, ext>>

(* vfio_pci_igd_init fails: vfio_pci_disable undoes everything. *)
EnableIgdFails(f) ==
    /\ pc[f] = "init"
    /\ dev[f] \in Igd
    /\ Goto(f, "disable")
    /\ UNCHANGED <<devVars, modVars, gowner, dev, devs, ok, ext>>

----------------------------------------------------------------------------
(* vfio_pci_release                                                        *)

(* Others still use the device: only the count changes. *)
ReleaseAgain(f) ==
    LET d == dev[f] IN
    /\ pc[f] = "rel"
    /\ driver_lock = None
    /\ refcnt[d] # 1
    /\ refcnt' = [refcnt EXCEPT ![d] = @ - 1]
    /\ Leave(f)
    /\ UNCHANGED <<drv, power, enable_cnt, needs_reset, reset_works, list_init,
                   dirty, driver_lock, module, gowner, devs, ok, ext>>

(* The last release disables the device. *)
ReleaseLast(f) ==
    LET d == dev[f] IN
    /\ pc[f] = "rel"
    /\ driver_lock = None
    /\ refcnt[d] = 1
    /\ refcnt' = [refcnt EXCEPT ![d] = 0]
    /\ driver_lock' = f
    /\ Goto(f, "disable")
    /\ UNCHANGED <<drv, power, enable_cnt, needs_reset, reset_works, list_init,
                   dirty, module, modrefs, gowner, dev, devs, ok, ext>>

----------------------------------------------------------------------------
(* vfio_pci_disable and vfio_pci_try_bus_reset, under driver_lock          *)

(* The walk of a list that no successful open has initialised faults; the  *)
(* thread dies with the lock.                                              *)
DisableFaults(f) ==
    /\ pc[f] = "disable"
    /\ ~list_init[dev[f]]
    /\ Goto(f, "oops")
    /\ UNCHANGED <<devVars, modVars, gowner, dev, devs, ok, ext>>

(* The function reset is only tried, so that it fails while the PCI core   *)
(* holds the device lock; the device needs a reset until one works.        *)
Disable(f) ==
    LET d == dev[f] IN
    /\ pc[f] = "disable"
    /\ list_init[d]
    /\ \E done \in Outcome(reset_works[d] /\ ~Locked(d)) :
        /\ needs_reset' = [needs_reset EXCEPT ![d] = ~done]
        /\ Reset(IF done THEN {d} ELSE {})
    /\ enable_cnt' = [enable_cnt EXCEPT ![d] = @ - 1]
    /\ Goto(f, "collect")
    /\ UNCHANGED <<drv, refcnt, reset_works, list_init, modVars, gowner, dev,
                   devs, ok, ext>>

(* vfio_pci_get_devs takes a reference to every affected device; the walk  *)
(* stops at the first one that is not ours, with what it has.  Mutant: it  *)
(* does not ask whether there is a vfio_device.                            *)
BusCollectAny(f) ==
    /\ pc[f] = "collect"
    /\ devs' = [devs EXCEPT ![f] = Affected(dev[f])]
    /\ Goto(f, IF Affected(dev[f]) = {} THEN "put" ELSE "judge")
    /\ UNCHANGED <<devVars, modVars, gowner, dev, ok, ext>>

BusCollect(f) ==
    LET A == Affected(dev[f]) IN
    /\ pc[f] = "collect"
    /\ \/ /\ A # {}
          /\ \A d \in A : Present(d)
          /\ devs' = [devs EXCEPT ![f] = A]
          /\ Goto(f, "judge")
       \/ \E S \in SUBSET {d \in A : Present(d)} :
          /\ (S = {} /\ ~Reliable) \/ A = {} \/ \E d \in A : ~Present(d)
          /\ devs' = [devs EXCEPT ![f] = S]
          /\ Goto(f, "put")
    /\ UNCHANGED <<devVars, modVars, gowner, dev, ok, ext>>

(* Mutant: the users of the collected devices are not looked at. *)
ResetDueAnyUse(f) == \E d \in devs[f] : needs_reset[d]

(* A reset is due if no affected device is in use and one needs it. *)
ResetDue(f) ==
    /\ \A d \in devs[f] : refcnt[d] = 0
    /\ \E d \in devs[f] : needs_reset[d]

(* pci_try_reset_slot and pci_try_reset_bus succeed only if the locks of   *)
(* all the affected devices can be taken.                                  *)
AllFree(d) == \A e \in Affected(d) : ~Locked(e)

(* Mutant: the reset waits for the device locks. *)
BusJudgeBlocking(f) ==
    /\ pc[f] = "judge"
    /\ ResetDue(f) => AllFree(dev[f])
    /\ \E done \in Outcome(ResetDue(f)) :
        /\ ok' = [ok EXCEPT ![f] = done]
        /\ Reset(IF done THEN Affected(dev[f]) ELSE {})
    /\ Goto(f, "put")
    /\ UNCHANGED <<drv, refcnt, enable_cnt, needs_reset, reset_works, list_init,
                   modVars, gowner, dev, devs, ext>>

(* Examine the collected devices and try the reset if it is due. *)
BusJudge(f) ==
    /\ pc[f] = "judge"
    /\ \E done \in Outcome(ResetDue(f) /\ AllFree(dev[f])) :
        /\ ok' = [ok EXCEPT ![f] = done]
        /\ Reset(IF done THEN Affected(dev[f]) ELSE {})
    /\ Goto(f, "put")
    /\ UNCHANGED <<drv, refcnt, enable_cnt, needs_reset, reset_works, list_init,
                   modVars, gowner, dev, devs, ext>>

(* The devices whose needs_reset put_devs clears.  Mutant: whatever came   *)
(* of the reset.                                                           *)
ClearedAlways(f) == devs[f]

Cleared(f) == IF ok[f] THEN devs[f] ELSE {}

(* The devices put_devs and the end of vfio_pci_disable put to sleep.      *)
(* Mutant: the ones in use too.                                            *)
SleepyAll(f) == IF DisableIdleD3 THEN {} ELSE {dev[f]} \cup devs[f]

Sleepy(f) ==
    IF DisableIdleD3 THEN {}
    ELSE {dev[f]} \cup {d \in devs[f] : refcnt[d] = 0}

(* put_devs, then the end of vfio_pci_disable and of its caller. *)
BusPut(f) ==
    /\ pc[f] = "put"
    /\ needs_reset' = [d \in Device |->
                          IF d \in Cleared(f) THEN FALSE ELSE needs_reset[d]]
    /\ power' = [d \in Device |-> IF d \in Sleepy(f) THEN "D3hot" ELSE power[d]]
    /\ devs' = [devs EXCEPT ![f] = {}]
    /\ ok' = [ok EXCEPT ![f] = FALSE]
    /\ driver_lock' = None
    /\ Leave(f)
    /\ UNCHANGED <<drv, refcnt, enable_cnt, reset_works, list_init, dirty,
                   module, gowner, ext>>

----------------------------------------------------------------------------
(* vfio_pci_ioctl: the resets a user asks for                              *)

(* VFIO_DEVICE_RESET *)
DeviceReset(f) ==
    LET d == dev[f] IN
    /\ pc[f] = "open"
    /\ reset_works[d]
    /\ ~Locked(d)
    /\ Reset({d})
    /\ UNCHANGED <<drv, refcnt, enable_cnt, needs_reset, reset_works, list_init,
                   modVars, gowner, fileVars>>

(* VFIO_DEVICE_PCI_HOT_RESET: hold the groups the user names. *)
HotResetGet(f, S) ==
    LET A == Affected(dev[f]) IN
    /\ pc[f] = "open"
    /\ A # {}
    /\ S # {}
    /\ Cardinality(S) <= Cardinality(A)
    /\ \A g \in S : gowner[g] = OwnerOf[f]
    /\ ext' = [ext EXCEPT ![f] = S]
    /\ Goto(f, "hot")
    /\ UNCHANGED <<devVars, modVars, gowner, dev, devs, ok>>

(* vfio_pci_validate_devs: the groups cover every affected device. *)
GroupsCover(f) == \A d \in Affected(dev[f]) : GroupOf[d] \in ext[f]

(* Reset if they do. *)
HotReset(f) ==
    /\ pc[f] = "hot"
    /\ \E done \in Outcome(GroupsCover(f) /\ AllFree(dev[f])) :
        Reset(IF done THEN Affected(dev[f]) ELSE {})
    /\ Goto(f, "hotput")
    /\ UNCHANGED <<drv, refcnt, enable_cnt, needs_reset, reset_works, list_init,
                   modVars, gowner, dev, devs, ok, ext>>

(* hot_reset_release *)
HotResetPut(f) ==
    /\ pc[f] = "hotput"
    /\ ext' = [ext EXCEPT ![f] = {}]
    /\ Goto(f, "open")
    /\ UNCHANGED <<devVars, modVars, gowner, dev, devs, ok>>

----------------------------------------------------------------------------
(* The callbacks of the PCI core, and the module                           *)

(* vfio_pci_probe allocates a zeroed vfio_pci_device and registers it; it  *)
(* can be opened from here on.                                             *)
ProbeStart(d) ==
    /\ Rebind
    /\ module = "live"
    /\ drv[d] = "none"
    /\ drv' = [drv EXCEPT ![d] = "probing"]
    /\ refcnt' = [refcnt EXCEPT ![d] = 0]
    /\ needs_reset' = [needs_reset EXCEPT ![d] = FALSE]
    /\ reset_works' = [reset_works EXCEPT ![d] = FALSE]
    /\ list_init' = [list_init EXCEPT ![d] = FALSE]
    /\ dirty' = [dirty EXCEPT ![d] = FALSE]
    /\ UNCHANGED <<power, enable_cnt, modVars, gowner, fileVars>>

ProbeEnd(d) ==
    /\ drv[d] = "probing"
    /\ drv' = [drv EXCEPT ![d] = "vfio"]
    /\ power' = [power EXCEPT ![d] = IF DisableIdleD3 THEN @ ELSE "D3hot"]
    /\ UNCHANGED <<refcnt, enable_cnt, needs_reset, reset_works, list_init,
                   dirty, modVars, gowner, fileVars>>

RemoveStart(d) ==
    /\ drv[d] = "vfio"
    /\ Rebind \/ module = "going"
    /\ drv' = [drv EXCEPT ![d] = "removing"]
    /\ UNCHANGED <<power, refcnt, enable_cnt, needs_reset, reset_works,
                   list_init, dirty, modVars, gowner, fileVars>>

(* vfio_del_group_dev returns once no reference is left; the device is     *)
(* freed and woken.                                                        *)
RemoveEnd(d) ==
    /\ drv[d] = "removing"
    /\ ~Held(d)
    /\ drv' = [drv EXCEPT ![d] = "none"]
    /\ power' = [power EXCEPT ![d] = IF DisableIdleD3 THEN @ ELSE "D0"]
    /\ UNCHANGED <<refcnt, enable_cnt, needs_reset, reset_works, list_init,
                   dirty, modVars, gowner, fileVars>>

(* A host driver takes the device, which the vfio core refuses while the   *)
(* group has a user, and gives it back.                                    *)
BindHost(d) ==
    /\ Rebind
    /\ drv[d] = "none"
    /\ gowner[GroupOf[d]] = None
    /\ drv' = [drv EXCEPT ![d] = "other"]
    /\ dirty' = [dirty EXCEPT ![d] = TRUE]
    /\ UNCHANGED <<power, refcnt, enable_cnt, needs_reset, reset_works,
                   list_init, modVars, gowner, fileVars>>

UnbindHost(d) ==
    /\ Rebind
    /\ drv[d] = "other"
    /\ drv' = [drv EXCEPT ![d] = "none"]
    /\ UNCHANGED <<power, refcnt, enable_cnt, needs_reset, reset_works,
                   list_init, dirty, modVars, gowner, fileVars>>

(* rmmod: the module is going once nobody holds a reference to it; its     *)
(* exit function, vfio_pci_cleanup, then removes every device.             *)
Unload ==
    /\ module = "live"
    /\ modrefs = 0
    /\ module' = "going"
    /\ UNCHANGED <<devVars, driver_lock, modrefs, gowner, fileVars>>

----------------------------------------------------------------------------
Open(f) == OpenTryModuleGet(f) \/ OpenAgain(f) \/ OpenFirst(f)
Enable(f) == \/ EnableReset(f) \/ EnableDone(f)
             \/ EnableConfigFails(f) \/ EnableIgdFails(f)
Release(f) == ReleaseAgain(f) \/ ReleaseLast(f)
DisableAll(f) == \/ DisableFaults(f) \/ Disable(f)
                 \/ BusCollect(f) \/ BusJudge(f) \/ BusPut(f)
Ioctl(f) == \/ DeviceReset(f) \/ HotReset(f) \/ HotResetPut(f)
            \/ \E S \in SUBSET Group : HotResetGet(f, S)
Core(d) == ProbeStart(d) \/ ProbeEnd(d) \/ RemoveStart(d) \/ RemoveEnd(d)
Host(d) == BindHost(d) \/ UnbindHost(d)

Next ==
    \/ \E f \in File : \/ Open(f) \/ Enable(f) \/ Release(f) \/ DisableAll(f)
                       \/ Ioctl(f) \/ Use(f) \/ PutDeviceFd(f)
                       \/ \E d \in Device : GetDeviceFd(f, d)
    \/ \E d \in Device : Core(d) \/ Host(d)
    \/ \E g \in Group : CloseGroup(g) \/ \E u \in User : OpenGroup(u, g)
    \/ Unload

(* The threads inside the driver keep running; users need not.  Waiters    *)
(* for driver_lock are served in turn, and the last reference to a removed *)
(* device ends its removal, hence strong fairness for both.                *)
Fairness ==
    /\ \A f \in File :
        /\ WF_vars(OpenTryModuleGet(f))
        /\ SF_vars(OpenAgain(f) \/ OpenFirst(f))
        /\ WF_vars(Enable(f))
        /\ SF_vars(Release(f))
        /\ WF_vars(DisableAll(f))
        /\ WF_vars(HotReset(f) \/ HotResetPut(f))
    /\ \A d \in Device : WF_vars(ProbeEnd(d)) /\ SF_vars(RemoveEnd(d))

Spec == Init /\ [][Next]_vars

FairSpec == Spec /\ Fairness

----------------------------------------------------------------------------
(* Safety                                                                  *)

(* A vfio_pci_device is not freed while a thread in open, release or ioctl *)
(* works on it, or while vfio_pci_try_bus_reset has it in its list: "We    *)
(* prevent device unbinds by acquiring and holding a reference".           *)
HeldDevicesAlive ==
    \A f \in File : \A d \in devs[f] \cup ({dev[f]} \ {None}) : Present(d)

(* Whatever the interleaving of opens, releases and failed opens, refcnt   *)
(* is the number of files that have the device open.                       *)
RefcntCountsFiles == \A d \in Device : refcnt[d] = Cardinality(OpenFiles(d))

(* Outside the driver_lock sections a device is enabled exactly once while *)
(* it is in use and not at all otherwise: no error path leaks the enable   *)
(* count of the PCI core.                                                  *)
EnableBalanced ==
    driver_lock = None =>
        \A d \in Device : enable_cnt[d] = IF refcnt[d] > 0 THEN 1 ELSE 0

(* A device in use is never in the low power state: the bus reset that the *)
(* release of a neighbour tries leaves it awake.  (While nothing is        *)
(* rebound: see the README on vfio_pci_probe.)                             *)
AwakeWhileOpen == \A d \in Device : refcnt[d] > 0 => power[d] = "D0"

(* needs_reset is trustworthy: a device nobody works on that has not been  *)
(* reset since its last use says so, even if the release that should have  *)
(* reset it met a device lock and failed.                                  *)
IdleNeedsReset ==
    \A d \in Device :
        drv[d] = "vfio" /\ dirty[d] /\ (\A f \in File : dev[f] # d)
            => needs_reset[d]

(* If resets do what they are asked, the bus is clean once all its devices *)
(* are released, in whatever order their users release them.               *)
CleanWhenIdle ==
    driver_lock = None =>
        \A d \in Device :
            Affected(d) # {} /\ (\A e \in Affected(d) : refcnt[e] = 0)
                => ~dirty[d]

(* The module cannot go while a file, open or being opened, needs it.      *)
ModuleRefsCounted ==
    /\ modrefs = Cardinality(ModuleFiles)
    /\ module = "going" => modrefs = 0

(* Every count kept of the users of a device and of the module is exact,   *)
(* over all orders of opens and releases and all failures of an open.      *)
UsesCounted == RefcntCountsFiles /\ EnableBalanced /\ ModuleRefsCounted

(* No step resets a device a host driver uses, nor a device in use whose   *)
(* group belongs to a user other than the one whose thread makes the step; *)
(* the bus reset of a release spares every device in use.                  *)
ResetSparesOthers ==
    [][\A d \in Device :
        dirty[d] /\ ~dirty'[d] =>
            /\ drv[d] # "other"
            /\ \A f \in File : pc'[f] # pc[f] /\ refcnt[d] > 0 =>
                    /\ gowner[GroupOf[d]] = OwnerOf[f]
                    /\ pc[f] # "judge"]_vars

----------------------------------------------------------------------------
(* The inductive invariant behind the safety properties                    *)

(* A thread holds driver_lock exactly while it enables or disables.        *)
LockInv == \A f \in File : pc[f] \in Critical <=> driver_lock = f

(* Where the local variables of a thread carry something.                  *)
LocalInv ==
    \A f \in File :
        /\ pc[f] = "closed" <=> dev[f] = None
        /\ devs[f] # {} => pc[f] \in {"judge", "put"}
        /\ pc[f] = "judge" => devs[f] = Affected(dev[f])
        /\ ok[f] => pc[f] = "put"
        /\ ext[f] # {} => pc[f] \in {"hot", "hotput"}

(* The device a critical thread works on is not in use; it is enabled up   *)
(* to the step that disables it.                                           *)
UseInv ==
    /\ \A f \in File : pc[f] \in Critical => refcnt[dev[f]] = 0
    /\ \A d \in Device :
        enable_cnt[d] =
            IF refcnt[d] > 0 \/ \E f \in File :
                    dev[f] = d /\ pc[f] \in {"enable", "init", "disable", "oops"}
            THEN 1 ELSE 0

(* Groups held by a hot reset are those of its user; devices of host       *)
(* drivers are in nobody's group.                                          *)
GroupInv ==
    /\ \A f \in File : \A g \in ext[f] : gowner[g] = OwnerOf[f]
    /\ \A d \in Device : drv[d] = "other" => gowner[GroupOf[d]] = None

(* A device that was used and not reset since says so, is in use, or is    *)
(* about to be disabled.                                                   *)
DirtyInv ==
    \A d \in Device :
        Present(d) /\ dirty[d] =>
            \/ needs_reset[d]
            \/ \E f \in File : dev[f] = d /\ pc[f] \in Opened \cup {"disable", "oops"}

(* What a successful bus reset reached stays unused and clean until        *)
(* put_devs clears needs_reset.                                            *)
CleanInv == \A f \in File : ok[f] => \A d \in devs[f] : refcnt[d] = 0 /\ ~dirty[d]

IndInv ==
    /\ TypeOK
    /\ LockInv
    /\ LocalInv
    /\ RefcntCountsFiles
    /\ ModuleRefsCounted
    /\ UseInv
    /\ HeldDevicesAlive
    /\ GroupInv
    /\ DirtyInv
    /\ CleanInv

(* With nothing rebound, devices in use or being enabled are awake.        *)
AwakeInv ==
    /\ \A d \in Device : drv[d] # "probing"
    /\ \A d \in Device : refcnt[d] > 0 => power[d] = "D0"
    /\ \A f \in File : pc[f] \in {"enable", "init"} => power[dev[f]] = "D0"

(* The devices a reset reaches are reached by the same reset from any of   *)
(* them: the bus does not mix slots that can be reset with others.         *)
ResetsAlike ==
    \A d \in Device : \A e \in Affected(d) : Affected(e) = Affected(d)

(* With nothing rebound and resets that work, devices that are all idle    *)
(* are dirty only until the release that is under way has reset them; one  *)
(* is removed only when the module goes.                                   *)
RestInv ==
    /\ \A d \in Device :
        drv[d] \in {"vfio", "removing", "none"}
            /\ (drv[d] # "vfio" => module = "going")
    /\ \A d \in Device :
        dirty[d] /\ Affected(d) # {} /\ (\A e \in Affected(d) : refcnt[e] = 0)
            => \E f \in File : /\ pc[f] \in {"disable", "oops", "collect", "judge"}
                              /\ dev[f] \in Affected(d)

----------------------------------------------------------------------------
(* Liveness, under FairSpec                                                *)

(* Closing the file of a device always comes to an end. *)
ReleaseCompletes == \A f \in File : pc[f] = "rel" ~> pc[f] = "closed"

(* vfio_pci_request: "blocked until released by user".  An unbind that     *)
(* never ends is one whose device some user keeps open, or keeps opening.  *)
RemoveWaitsForUsers ==
    \A d \in Device :
        <>[](drv[d] = "removing") =>
            []<>(\E f \in File : dev[f] = d /\ pc[f] \in Opened \cup {"entry"})

=============================================================================
