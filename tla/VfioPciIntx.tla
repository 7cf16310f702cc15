---------------------------- MODULE VfioPciIntx ----------------------------
(***************************************************************************)
(* The INTx interrupt of one vfio-pci device: the interrupt handler, which *)
(* masks the line and signals the user's eventfd, against the threads that *)
(* mask, unmask, set up and tear down the interrupt: the SET_IRQS ioctl    *)
(* (under igate), writes to the command register in configuration space    *)
(* (not under igate) and the eventfd that unmasks (virqfd).                *)
(*                                                                         *)
(* Source: kernel/kernel-examples/lock/vfio_pci_intrs.c.                   *)
(*                                                                         *)
(* A section under irqlock is one step.  Signalling the eventfd happens    *)
(* after the lock is dropped and is a step of its own.                     *)
(***************************************************************************)
EXTENDS Integers

CONSTANTS
    Fd,        \* the eventfds a user may register
    Pci23,     \* vdev->pci_2_3: can the device mask INTx (DisINTx)?
    Serial,    \* does the user make one call at a time?
    None       \* no eventfd (-1, NULL)

ASSUME FdAssumption == None \notin Fd
ASSUME FlagAssumption == {Pci23, Serial} \subseteq BOOLEAN

VARIABLES
    \* the device and the interrupt core
    asserted,       \* the device asserts INTx (interrupt status)
    disintx,        \* DisINTx in the PCI command register
    depth,          \* how often the irq line is disabled
    registered,     \* vfio_intx_handler is registered for the line
    \* struct vfio_pci_device
    irq_type,       \* "none" or "intx"
    masked,         \* ctx[0].masked
    trigger,        \* ctx[0].trigger
    irqfd,          \* is ctx[0].unmask set up?
    virq_disabled,  \* the virtual DisINTx
    \* the threads: handler, ioctl, configuration space, virqfd work
    hpc, ipc, cpc, wpc,
    ifd,            \* the eventfd the ioctl is about to install
    fresh,          \* the ioctl has just enabled INTx
    \* what the user knows
    told,           \* signalled since the line was last unmasked
    umask           \* the user masked the interrupt by ioctl

hw      == <<asserted, disintx, depth, registered>>
vdev    == <<irq_type, masked, trigger, irqfd, virq_disabled>>
pcs     == <<hpc, ipc, cpc, wpc>>
ioctl   == <<ifd, fresh>>
user    == <<told, umask>>
vars    == <<hw, vdev, pcs, ioctl, user>>

FlagsOK ==
    /\ asserted \in BOOLEAN /\ disintx \in BOOLEAN /\ registered \in BOOLEAN
    /\ masked \in BOOLEAN /\ irqfd \in BOOLEAN /\ virq_disabled \in BOOLEAN
    /\ fresh \in BOOLEAN /\ told \in BOOLEAN /\ umask \in BOOLEAN

ThreadsOK ==
    /\ irq_type \in {"none", "intx"}
    /\ trigger \in Fd \cup {None}
    /\ ifd \in Fd \cup {None}
    /\ hpc \in {"idle", "run", "send"}
    /\ ipc \in {"idle", "enable", "enabled", "free", "request", "post",
                "disable", "disabled", "send", "oops"}
    /\ cpc \in {"idle", "mask", "unmask", "send", "oops"}
    /\ wpc \in {"idle", "send", "oops"}

(* A user who makes one call at a time nests disable_irq at most twice: in *)
(* the handler, and in a mask or in the set-up.                            *)
TypeOK == FlagsOK /\ ThreadsOK /\ depth \in 0..2

----------------------------------------------------------------------------
(* The irq core: disable_irq_nosync and enable_irq nest; enable_irq on an  *)
(* enabled line only warns.  request_irq starts from zero, so the count is *)
(* kept only while a handler is registered.                                *)
DisableIrq == IF registered THEN depth + 1 ELSE depth
EnableIrq == IF registered /\ depth > 0 THEN depth - 1 ELSE depth

(* Nothing but a user between two calls, and no interrupt on its way. *)
Quiet == hpc = "idle" /\ ipc = "idle" /\ cpc = "idle" /\ wpc = "idle"

IsIntx == irq_type = "intx"

(* vfio_pci_intx_mask.  Mutant: it masks again what is masked. *)
IntxMaskAgain ==
    /\ disintx' = (disintx \/ Pci23)
    /\ depth' = IF IsIntx /\ ~Pci23 THEN DisableIrq ELSE depth
    /\ masked' = (masked \/ IsIntx)

IntxMask ==
    LET take == IsIntx /\ ~masked IN
    /\ disintx' = (disintx \/ (Pci23 /\ (~IsIntx \/ take)))
    /\ depth' = IF take /\ ~Pci23 THEN DisableIrq ELSE depth
    /\ masked' = (masked \/ take)

(* vfio_pci_intx_unmask_handler: whether the interrupt is to be sent again *)
(* instead of unmasked,                                                    *)
Resend == IsIntx /\ masked /\ ~virq_disabled /\ Pci23 /\ asserted

(* and what is unmasked.  Mutant: the virtual DisINTx is ignored.          *)
ClearAnyway == IsIntx /\ masked /\ ~Resend

Clear == IsIntx /\ masked /\ ~virq_disabled /\ ~Resend

(* Mutant of the whole: an interrupt sent again counts as unmasked.         *)
IntxUnmaskOnResend ==
    /\ disintx' = (disintx /\ ~(Pci23 /\ (~IsIntx \/ Clear)))
    /\ depth' = IF Clear /\ ~Pci23 THEN EnableIrq ELSE depth
    /\ masked' = (masked /\ ~(Clear \/ Resend))
    /\ told' = (told /\ ~Clear)
    /\ umask' = (umask /\ ~(Clear \/ Resend))

IntxUnmask ==
    /\ disintx' = (disintx /\ ~(Pci23 /\ (~IsIntx \/ Clear)))
    /\ depth' = IF Clear /\ ~Pci23 THEN EnableIrq ELSE depth
    /\ masked' = (masked /\ ~Clear)
    /\ told' = (told /\ ~Clear)
    /\ umask' = (umask /\ ~(Clear \/ Resend))

(* vfio_send_intx_eventfd signals, drops the interrupt, or faults where    *)
(* there is no trigger.                                                    *)
Sends == IsIntx /\ ~virq_disabled
AfterSend == IF Sends /\ trigger = None THEN "oops" ELSE "idle"

----------------------------------------------------------------------------
Init ==
    /\ asserted = FALSE /\ disintx = FALSE /\ depth = 1 /\ registered = FALSE
    /\ irq_type = "none" /\ masked = FALSE /\ trigger = None
    /\ irqfd = FALSE /\ virq_disabled = FALSE
    /\ hpc = "idle" /\ ipc = "idle" /\ cpc = "idle" /\ wpc = "idle"
    /\ ifd = None /\ fresh = FALSE
    /\ told = FALSE /\ umask = FALSE

----------------------------------------------------------------------------
(* The device raises its interrupt, and lowers it when it is serviced. *)
DeviceInterrupt ==
    /\ asserted' = ~asserted
    /\ UNCHANGED <<disintx, depth, registered, vdev, pcs, ioctl, user>>

(* The line is delivered while it is enabled; a shared one also when some  *)
(* other device interrupts.                                                *)
HandlerEnter ==
    /\ hpc = "idle"
    /\ registered
    /\ depth = 0
    /\ Pci23 \/ asserted
    /\ hpc' = "run"
    /\ UNCHANGED <<hw, vdev, ipc, cpc, wpc, ioctl, user>>

(* The section of vfio_intx_handler under irqlock.  Mutant: ret stays      *)
(* IRQ_NONE, so that nothing is sent.                                      *)
HandlerMaskNone ==
    /\ hpc = "run"
    /\ depth' = IF Pci23 THEN depth ELSE DisableIrq
    /\ masked' = (masked \/ ~Pci23)
    /\ hpc' = "idle"
    /\ UNCHANGED <<asserted, disintx, registered, irq_type, trigger, irqfd,
                   virq_disabled, ipc, cpc, wpc, ioctl, user>>

HandlerMask ==
    /\ hpc = "run"
    /\ \/ /\ ~Pci23
          /\ depth' = DisableIrq
          /\ masked' = TRUE
          /\ hpc' = "send"
          /\ UNCHANGED disintx
       \/ /\ Pci23 /\ ~masked /\ asserted     \* pci_check_and_mask_intx
          /\ disintx' = TRUE
          /\ masked' = TRUE
          /\ hpc' = "send"
          /\ UNCHANGED depth
       \/ /\ Pci23 /\ (masked \/ ~asserted)   \* IRQ_NONE
          /\ hpc' = "idle"
          /\ UNCHANGED <<depth, masked, disintx>>
    /\ UNCHANGED <<asserted, registered, irq_type, trigger, irqfd,
                   virq_disabled, ipc, cpc, wpc, ioctl, user>>

HandlerSend ==
    /\ hpc = "send"
    /\ told' = (told \/ Sends)
    /\ hpc' = "idle"
    /\ UNCHANGED <<hw, vdev, ipc, cpc, wpc, ioctl, umask>>

----------------------------------------------------------------------------
(* VFIO_DEVICE_SET_IRQS, one at a time under igate                         *)

IoctlMayStart == ipc = "idle" /\ (Serial => cpc = "idle")

IoctlMask ==
    /\ IoctlMayStart
    /\ IsIntx
    /\ IntxMask
    /\ umask' = TRUE
    /\ UNCHANGED <<asserted, registered, irq_type, trigger, irqfd,
                   virq_disabled, pcs, ioctl, told>>

(* Mutant: the interrupt that is still pending is not sent again. *)
IoctlUnmaskNoSend ==
    /\ IoctlMayStart
    /\ IsIntx
    /\ IntxUnmask
    /\ UNCHANGED <<asserted, registered, irq_type, trigger, irqfd,
                   virq_disabled, pcs, ioctl>>

IoctlUnmask ==
    /\ IoctlMayStart
    /\ IsIntx
    /\ IntxUnmask
    /\ ipc' = IF Resend THEN "send" ELSE "idle"
    /\ UNCHANGED <<asserted, registered, irq_type, trigger, irqfd,
                   virq_disabled, hpc, cpc, wpc, ioctl>>

IoctlSend ==
    /\ ipc = "send"
    /\ told' = (told \/ Sends)
    /\ ipc' = AfterSend
    /\ UNCHANGED <<hw, vdev, hpc, cpc, wpc, ioctl, umask>>

(* Loopback: signal the eventfd without an interrupt. *)
IoctlLoopback ==
    /\ IoctlMayStart
    /\ IsIntx
    /\ ipc' = AfterSend
    /\ UNCHANGED <<hw, vdev, hpc, cpc, wpc, ioctl, user>>

(* Set up or take down the eventfd that unmasks; taking it down waits for  *)
(* its work.                                                               *)
IoctlUnmaskFd ==
    /\ IoctlMayStart
    /\ IsIntx
    /\ irqfd => wpc = "idle"
    /\ irqfd' = ~irqfd
    /\ UNCHANGED <<hw, irq_type, masked, trigger, virq_disabled, pcs, ioctl,
                   user>>

(* vfio_pci_set_intx_trigger with an eventfd, or -1: vfio_intx_enable      *)
(* unless it is enabled.  Mutant: the interrupt starts unmasked whatever   *)
(* the virtual DisINTx says.                                               *)
IoctlTriggerUnmasked(fd) ==
    /\ IoctlMayStart
    /\ ifd' = fd
    /\ fresh' = ~IsIntx
    /\ \/ /\ IsIntx
          /\ ipc' = "free"
          /\ UNCHANGED <<masked, user>>
       \/ /\ ~IsIntx
          /\ masked' = FALSE
          /\ told' = FALSE
          /\ umask' = FALSE
          /\ ipc' = "enable"
    /\ UNCHANGED <<hw, irq_type, trigger, irqfd, virq_disabled, hpc, cpc, wpc>>

IoctlTrigger(fd) ==
    /\ IoctlMayStart
    /\ ifd' = fd
    /\ fresh' = ~IsIntx
    /\ \/ /\ IsIntx
          /\ ipc' = "free"
          /\ UNCHANGED <<masked, user>>
       \/ /\ ~IsIntx
          /\ masked' = virq_disabled
          /\ told' = FALSE
          /\ umask' = FALSE
          /\ ipc' = "enable"
    /\ UNCHANGED <<hw, irq_type, trigger, irqfd, virq_disabled, hpc, cpc, wpc>>

(* The physical DisINTx follows, *)
EnableDisIntx ==
    /\ ipc = "enable"
    /\ disintx' = IF Pci23 THEN masked ELSE disintx
    /\ ipc' = "enabled"
    /\ UNCHANGED <<asserted, depth, registered, vdev, hpc, cpc, wpc, ioctl, user>>

(* and INTx is in use. *)
EnableType ==
    /\ ipc = "enabled"
    /\ irq_type' = "intx"
    /\ ipc' = "free"
    /\ UNCHANGED <<hw, masked, trigger, irqfd, virq_disabled, hpc, cpc, wpc,
                   ioctl, user>>

(* vfio_intx_set_signal: free_irq waits for a running handler, then the    *)
(* old trigger goes.  Mutant: it does not wait.                            *)
SetSignalFreeNoWait ==
    /\ ipc = "free"
    /\ registered' = FALSE
    /\ trigger' = None
    /\ depth' = IF trigger # None THEN 1 ELSE depth
    /\ ipc' = IF ifd = None THEN "idle" ELSE "request"
    /\ UNCHANGED <<asserted, disintx, irq_type, masked, irqfd, virq_disabled,
                   hpc, cpc, wpc, ioctl, user>>

SetSignalFree ==
    /\ ipc = "free"
    /\ trigger # None => hpc = "idle"
    /\ registered' = FALSE
    /\ trigger' = None
    /\ depth' = IF trigger # None THEN 1 ELSE depth
    /\ ipc' = IF ifd = None THEN "idle" ELSE "request"
    /\ UNCHANGED <<asserted, disintx, irq_type, masked, irqfd, virq_disabled,
                   hpc, cpc, wpc, ioctl, user>>

(* No name, no eventfd or no irq: fail, and disable INTx if this call      *)
(* enabled it.  Mutant: a trigger without an irq stays behind.             *)
SetSignalFailsKeeps ==
    /\ ipc = "request"
    /\ trigger' = ifd
    /\ ipc' = IF fresh THEN "disable" ELSE "idle"
    /\ UNCHANGED <<hw, irq_type, masked, irqfd, virq_disabled, hpc, cpc, wpc,
                   ioctl, user>>

SetSignalFails ==
    /\ ipc = "request"
    /\ ipc' = IF fresh THEN "disable" ELSE "idle"
    /\ UNCHANGED <<hw, vdev, hpc, cpc, wpc, ioctl, user>>

(* request_irq: the line is enabled from here on. *)
SetSignalRequest ==
    /\ ipc = "request"
    /\ trigger' = ifd
    /\ registered' = TRUE
    /\ depth' = 0
    /\ ipc' = "post"
    /\ UNCHANGED <<asserted, disintx, irq_type, masked, irqfd, virq_disabled,
                   hpc, cpc, wpc, ioctl, user>>

(* The last section of vfio_intx_set_signal, under irqlock. *)
SetSignalPost ==
    /\ ipc = "post"
    /\ depth' = IF ~Pci23 /\ masked THEN DisableIrq ELSE depth
    /\ ipc' = "idle"
    /\ UNCHANGED <<asserted, disintx, registered, vdev, hpc, cpc, wpc, ioctl,
                   user>>

(* TRIGGER with no data: vfio_intx_disable.  The unmask eventfd first,     *)
IoctlDisable ==
    /\ IoctlMayStart
    /\ IsIntx
    /\ wpc = "idle"
    /\ irqfd' = FALSE
    /\ ipc' = "disable"
    /\ UNCHANGED <<hw, irq_type, masked, trigger, virq_disabled, hpc, cpc, wpc,
                   ioctl, user>>

(* then the signal, *)
DisableSignal ==
    /\ ipc = "disable"
    /\ trigger # None => hpc = "idle"
    /\ registered' = FALSE
    /\ trigger' = None
    /\ depth' = IF trigger # None THEN 1 ELSE depth
    /\ ipc' = "disabled"
    /\ UNCHANGED <<asserted, disintx, irq_type, masked, irqfd, virq_disabled,
                   hpc, cpc, wpc, ioctl, user>>

(* and INTx itself. *)
DisableType ==
    /\ ipc = "disabled"
    /\ irq_type' = "none"
    /\ ipc' = "idle"
    /\ UNCHANGED <<hw, masked, trigger, irqfd, virq_disabled, hpc, cpc, wpc,
                   ioctl, user>>

(* vfio_pci_disable at the last release, and vfio_pci_enable at the next   *)
(* open: no thread of the user is left, the virtual and the physical       *)
(* DisINTx are cleared.                                                    *)
Reopen ==
    /\ ipc = "idle" /\ cpc = "idle" /\ wpc = "idle"
    /\ trigger # None => hpc = "idle"
    /\ irqfd' = FALSE
    /\ registered' = FALSE
    /\ trigger' = None
    /\ depth' = IF trigger # None THEN 1 ELSE depth
    /\ irq_type' = "none"
    /\ virq_disabled' = FALSE
    /\ disintx' = (disintx /\ ~Pci23)
    /\ UNCHANGED <<asserted, masked, pcs, ioctl, user>>

----------------------------------------------------------------------------
(* A write to the command register flips the virtual DisINTx and then      *)
(* calls vfio_pci_intx_mask or vfio_pci_intx_unmask.                       *)

ConfigWrite ==
    /\ cpc = "idle"
    /\ Serial => ipc = "idle"
    /\ virq_disabled' = ~virq_disabled
    /\ cpc' = IF virq_disabled THEN "unmask" ELSE "mask"
    /\ UNCHANGED <<hw, irq_type, masked, trigger, irqfd, hpc, ipc, wpc, ioctl,
                   user>>

ConfigMask ==
    /\ cpc = "mask"
    /\ IntxMask
    /\ cpc' = "idle"
    /\ UNCHANGED <<asserted, registered, irq_type, trigger, irqfd,
                   virq_disabled, hpc, ipc, wpc, ioctl, user>>

ConfigUnmask ==
    /\ cpc = "unmask"
    /\ IntxUnmask
    /\ cpc' = IF Resend THEN "send" ELSE "idle"
    /\ UNCHANGED <<asserted, registered, irq_type, trigger, irqfd,
                   virq_disabled, hpc, ipc, wpc, ioctl>>

ConfigSend ==
    /\ cpc = "send"
    /\ told' = (told \/ Sends)
    /\ cpc' = AfterSend
    /\ UNCHANGED <<hw, vdev, hpc, ipc, wpc, ioctl, umask>>

----------------------------------------------------------------------------
(* The unmask eventfd is signalled: the handler runs at once, the signal   *)
(* to the user is left to a work queue.                                    *)

IrqfdUnmask ==
    /\ irqfd
    /\ wpc = "idle"
    /\ IntxUnmask
    /\ wpc' = IF Resend THEN "send" ELSE "idle"
    /\ UNCHANGED <<asserted, registered, irq_type, trigger, irqfd,
                   virq_disabled, hpc, ipc, cpc, ioctl>>

IrqfdSend ==
    /\ wpc = "send"
    /\ told' = (told \/ Sends)
    /\ wpc' = AfterSend
    /\ UNCHANGED <<hw, vdev, hpc, ipc, cpc, ioctl, umask>>

----------------------------------------------------------------------------
Handler == HandlerEnter \/ HandlerMask \/ HandlerSend
IoctlCall ==
    \/ IoctlMask \/ IoctlUnmask \/ IoctlLoopback \/ IoctlUnmaskFd
    \/ IoctlDisable \/ Reopen
    \/ \E fd \in Fd \cup {None} : IoctlTrigger(fd)
IoctlWork ==
    \/ IoctlSend \/ EnableDisIntx \/ EnableType \/ SetSignalFree
    \/ SetSignalFails \/ SetSignalRequest \/ SetSignalPost
    \/ DisableSignal \/ DisableType
ConfigWork == ConfigMask \/ ConfigUnmask \/ ConfigSend

Next ==
    \/ DeviceInterrupt \/ Handler
    \/ IoctlCall \/ IoctlWork
    \/ ConfigWrite \/ ConfigWork
    \/ IrqfdUnmask \/ IrqfdSend

(* Interrupts are delivered and threads inside the driver keep running;    *)
(* the device and the user may stop.                                       *)
Fairness ==
    /\ WF_vars(Handler)
    /\ WF_vars(IoctlWork)
    /\ WF_vars(ConfigWork)
    /\ WF_vars(IrqfdSend)

Spec == Init /\ [][Next]_vars

FairSpec == Spec /\ Fairness

----------------------------------------------------------------------------
(* The interrupt handler never signals a trigger that is gone:             *)
(* vfio_intx_set_signal frees the irq, and so waits for the handler,       *)
(* before it drops the trigger.                                            *)
HandlerHasTrigger == hpc = "send" => trigger # None

(* What is unmasked for the driver is unmasked in hardware: "have the      *)
(* physical bit follow the virtual", and a "pending interrupt here would   *)
(* immediately trigger" once it is unmasked.                               *)
LineFollowsMask ==
    Quiet /\ IsIntx /\ registered /\ ~masked /\ ~virq_disabled =>
        IF Pci23 THEN ~disintx ELSE depth = 0

(* While the virtual DisINTx is set nothing is delivered: outside calls,   *)
(* the driver and a device that can have the interrupt masked, also if it  *)
(* was set up afterwards ("If the virtual interrupt is masked, restore     *)
(* it") or unmasked by ioctl or eventfd meanwhile.                         *)
VirtualMaskHolds ==
    Quiet /\ IsIntx /\ virq_disabled => masked /\ (Pci23 => disintx)

(* Outside calls driver and device do with the interrupt what the user's   *)
(* masks say.                                                              *)
MaskObeyed == LineFollowsMask /\ VirtualMaskHolds

(* The interrupt is never masked behind the user's back: outside calls, it *)
(* is masked only if the virtual DisINTx is set, the user masked it, or    *)
(* the user has been signalled since it was last unmasked.                 *)
NoSilentMask ==
    Quiet /\ IsIntx /\ masked => virq_disabled \/ umask \/ told

(* An interrupt that stays asserted reaches the user, unless the user      *)
(* masked it or has no trigger installed.                                  *)
InterruptDelivered ==
    asserted ~> (~asserted \/ told \/ umask \/ virq_disabled \/ trigger = None)

----------------------------------------------------------------------------
(* The inductive invariant behind the safety properties                    *)

(* The handler is registered exactly while there is a trigger, and INTx is *)
(* in use while anything is set up that can interrupt or unmask.           *)
SetupInv ==
    /\ registered <=> trigger # None
    /\ hpc # "idle" => registered
    /\ registered \/ irqfd => IsIntx /\ ipc # "disabled"
    /\ ipc \in {"enable", "enabled"} => ~IsIntx
    /\ ipc \in {"free", "request", "post", "disable", "disabled"} => IsIntx
    /\ ipc = "request" => ifd # None
    /\ fresh /\ ipc \in {"enable", "enabled", "free", "request"} => ~irqfd
    /\ ipc = "disable" => ~irqfd

(* With one call at a time, calls do not overlap;                          *)
SerialInv == ipc = "idle" \/ cpc = "idle"

(* the line is disabled once by whoever masks and once by the handler,     *)
(* which starts only on an enabled line;                                   *)
DepthInv ==
    /\ depth \in 0..2
    /\ ~registered => depth = 1
    /\ Pci23 \/ ~masked \/ ipc = "post" => depth <= 1
    /\ hpc = "run" /\ (Pci23 \/ ~masked \/ ipc = "post") => depth = 0
    /\ hpc = "run" => depth <= 1

(* hardware and driver agree on the mask,                                  *)
HardwareInv == Pci23 /\ (IsIntx \/ ipc = "enabled") => (disintx <=> masked)

(* the virtual DisINTx is honoured from the moment INTx is being enabled,  *)
VirtualInv ==
    /\ (IsIntx \/ ipc \in {"enable", "enabled"}) =>
            (virq_disabled /\ cpc # "mask" => masked)
    /\ cpc = "unmask" => ~virq_disabled
    /\ cpc = "mask" => virq_disabled

(* and whoever masks tells the user or leaves somebody who will.           *)
SilentInv ==
    /\ ipc \in {"enable", "enabled"} /\ masked => virq_disabled
    /\ IsIntx /\ masked =>
        \/ virq_disabled \/ umask \/ told
        \/ hpc = "send" \/ ipc = "send" \/ cpc = "send" \/ wpc = "send"
        \/ cpc = "unmask"

=============================================================================
