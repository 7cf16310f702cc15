------------------------- MODULE VfioPciIntx_proofs -------------------------
(***************************************************************************)
(* Proofs about VfioPciIntx, for any eventfds.                             *)
(***************************************************************************)
EXTENDS VfioPciIntx, TLAPS

Types == FlagsOK /\ ThreadsOK

(* Every operation keeps the flags and the control points in range.        *)
LEMMA TypesStep == ASSUME Types, [Next]_vars PROVE Types'
<1>1. CASE DeviceInterrupt
  BY <1>1 DEF DeviceInterrupt, Types, FlagsOK, ThreadsOK, hw, vdev, pcs,
     ioctl, user
<1>2. CASE HandlerEnter
  BY <1>2 DEF HandlerEnter, Types, FlagsOK, ThreadsOK, hw, vdev, pcs, ioctl,
     user
<1>3. CASE HandlerMask
  <2>1. FlagsOK'
    BY <1>3 DEF HandlerMask, DisableIrq, Types, FlagsOK, hw, vdev, pcs,
  ioctl, user
  <2>2. ThreadsOK'
    BY <1>3 DEF HandlerMask, DisableIrq, Types, ThreadsOK, hw, vdev, pcs,
  ioctl, user
  <2> QED
    BY <2>1, <2>2 DEF Types
<1>4. CASE HandlerSend
  BY <1>4 DEF HandlerSend, Sends, IsIntx, Types, FlagsOK, ThreadsOK, hw,
     vdev, pcs, ioctl, user
<1>5. CASE IoctlMask
  BY <1>5 DEF IoctlMask, IntxMask, DisableIrq, IoctlMayStart, IsIntx, Types,
     FlagsOK, ThreadsOK, hw, vdev, pcs, ioctl, user
<1>6. CASE IoctlUnmask
  BY <1>6 DEF IoctlUnmask, IntxUnmask, EnableIrq, Clear, Resend,
     IoctlMayStart, IsIntx, Types, FlagsOK, ThreadsOK, hw, vdev, pcs, ioctl,
     user
<1>7. CASE IoctlLoopback
  BY <1>7 DEF IoctlLoopback, AfterSend, Sends, IoctlMayStart, IsIntx, Types,
     FlagsOK, ThreadsOK, hw, vdev, pcs, ioctl, user
<1>8. CASE IoctlUnmaskFd
  BY <1>8 DEF IoctlUnmaskFd, IoctlMayStart, IsIntx, Types, FlagsOK,
     ThreadsOK, hw, vdev, pcs, ioctl, user
<1>9. CASE IoctlDisable
  <2>1. FlagsOK'
    BY <1>9 DEF IoctlDisable, IoctlMayStart, IsIntx, Types, FlagsOK, hw,
  vdev, pcs, ioctl, user
  <2>2. ThreadsOK'
    BY <1>9 DEF IoctlDisable, IoctlMayStart, IsIntx, Types, ThreadsOK, hw,
  vdev, pcs, ioctl, user
  <2> QED
    BY <2>1, <2>2 DEF Types
<1>10. CASE Reopen
  BY <1>10 DEF Reopen, Types, FlagsOK, ThreadsOK, hw, vdev, pcs, ioctl, user
<1>11. ASSUME NEW fd \in Fd \cup {None}, IoctlTrigger(fd) PROVE Types'
  <2>1. FlagsOK'
    BY <1>11 DEF IoctlTrigger, IoctlMayStart, IsIntx, Types, FlagsOK, hw,
  vdev, pcs, ioctl, user
  <2>2. ThreadsOK'
    BY <1>11 DEF IoctlTrigger, IoctlMayStart, IsIntx, Types, ThreadsOK, hw,
  vdev, pcs, ioctl, user
  <2> QED
    BY <2>1, <2>2 DEF Types
<1>12. CASE IoctlSend
  BY <1>12 DEF IoctlSend, Sends, AfterSend, IsIntx, Types, FlagsOK,
     ThreadsOK, hw, vdev, pcs, ioctl, user
<1>13. CASE EnableDisIntx
  BY <1>13 DEF EnableDisIntx, Types, FlagsOK, ThreadsOK, hw, vdev, pcs,
     ioctl, user
<1>14. CASE EnableType
  BY <1>14 DEF EnableType, Types, FlagsOK, ThreadsOK, hw, vdev, pcs, ioctl,
     user
<1>15. CASE SetSignalFree
  <2>1. FlagsOK'
    BY <1>15 DEF SetSignalFree, Types, FlagsOK, hw, vdev, pcs, ioctl, user
  <2>2. ThreadsOK'
    BY <1>15 DEF SetSignalFree, Types, ThreadsOK, hw, vdev, pcs, ioctl, user
  <2> QED
    BY <2>1, <2>2 DEF Types
<1>16. CASE SetSignalFails
  BY <1>16 DEF SetSignalFails, Types, FlagsOK, ThreadsOK, hw, vdev, pcs,
     ioctl, user
<1>17. CASE SetSignalRequest
  BY <1>17 DEF SetSignalRequest, Types, FlagsOK, ThreadsOK, hw, vdev, pcs,
     ioctl, user
<1>18. CASE SetSignalPost
  BY <1>18 DEF SetSignalPost, DisableIrq, Types, FlagsOK, ThreadsOK, hw,
     vdev, pcs, ioctl, user
<1>19. CASE DisableSignal
  <2>1. FlagsOK'
    BY <1>19 DEF DisableSignal, Types, FlagsOK, hw, vdev, pcs, ioctl, user
  <2>2. ThreadsOK'
    BY <1>19 DEF DisableSignal, Types, ThreadsOK, hw, vdev, pcs, ioctl, user
  <2> QED
    BY <2>1, <2>2 DEF Types
<1>20. CASE DisableType
  BY <1>20 DEF DisableType, Types, FlagsOK, ThreadsOK, hw, vdev, pcs, ioctl,
     user
<1>21. CASE ConfigWrite
  BY <1>21 DEF ConfigWrite, Types, FlagsOK, ThreadsOK, hw, vdev, pcs, ioctl,
     user
<1>22. CASE ConfigMask
  BY <1>22 DEF ConfigMask, IntxMask, DisableIrq, IsIntx, Types, FlagsOK,
     ThreadsOK, hw, vdev, pcs, ioctl, user
<1>23. CASE ConfigUnmask
  BY <1>23 DEF ConfigUnmask, IntxUnmask, EnableIrq, Clear, Resend, IsIntx,
     Types, FlagsOK, ThreadsOK, hw, vdev, pcs, ioctl, user
<1>24. CASE ConfigSend
  BY <1>24 DEF ConfigSend, Sends, AfterSend, IsIntx, Types, FlagsOK,
     ThreadsOK, hw, vdev, pcs, ioctl, user
<1>25. CASE IrqfdUnmask
  BY <1>25 DEF IrqfdUnmask, IntxUnmask, EnableIrq, Clear, Resend, IsIntx,
     Types, FlagsOK, ThreadsOK, hw, vdev, pcs, ioctl, user
<1>26. CASE IrqfdSend
  BY <1>26 DEF IrqfdSend, Sends, AfterSend, IsIntx, Types, FlagsOK,
     ThreadsOK, hw, vdev, pcs, ioctl, user
<1>27. CASE UNCHANGED vars
  BY <1>27 DEF vars, Types, FlagsOK, ThreadsOK, hw, vdev, pcs, ioctl, user
<1> QED
  BY <1>1, <1>2, <1>3, <1>4, <1>5, <1>6, <1>7, <1>8, <1>9, <1>10, <1>11,
     <1>12, <1>13, <1>14, <1>15, <1>16, <1>17, <1>18, <1>19, <1>20, <1>21,
     <1>22, <1>23, <1>24, <1>25, <1>26, <1>27 DEF Next, Handler, IoctlCall,
     IoctlWork, ConfigWork

(* Setting up and taking down an interrupt keeps handler, trigger, unmask  *)
(* eventfd and irq_type in step, whoever runs concurrently.                *)
LEMMA SetupStep == ASSUME Types, SetupInv, [Next]_vars PROVE SetupInv'
<1>1. CASE DeviceInterrupt
  BY <1>1 DEF DeviceInterrupt, SetupInv, IsIntx, Types, FlagsOK, ThreadsOK,
     hw, vdev, pcs, ioctl, user
<1>2. CASE HandlerEnter
  BY <1>2 DEF HandlerEnter, SetupInv, IsIntx, Types, FlagsOK, ThreadsOK, hw,
     vdev, pcs, ioctl, user
<1>3. CASE HandlerMask
  BY <1>3 DEF HandlerMask, DisableIrq, SetupInv, IsIntx, Types, FlagsOK,
     ThreadsOK, hw, vdev, pcs, ioctl, user
<1>4. CASE HandlerSend
  BY <1>4 DEF HandlerSend, Sends, IsIntx, SetupInv, Types, FlagsOK,
     ThreadsOK, hw, vdev, pcs, ioctl, user
<1>5. CASE IoctlMask
  BY <1>5 DEF IoctlMask, IntxMask, DisableIrq, IoctlMayStart, IsIntx,
     SetupInv, Types, FlagsOK, ThreadsOK, hw, vdev, pcs, ioctl, user
<1>6. CASE IoctlUnmask
  BY <1>6 DEF IoctlUnmask, IntxUnmask, EnableIrq, Clear, Resend,
     IoctlMayStart, IsIntx, SetupInv, Types, FlagsOK, ThreadsOK, hw, vdev,
     pcs, ioctl, user
<1>7. CASE IoctlLoopback
  BY <1>7 DEF IoctlLoopback, AfterSend, Sends, IoctlMayStart, IsIntx,
     SetupInv, Types, FlagsOK, ThreadsOK, hw, vdev, pcs, ioctl, user
<1>8. CASE IoctlUnmaskFd
  BY <1>8 DEF IoctlUnmaskFd, IoctlMayStart, IsIntx, SetupInv, Types,
     FlagsOK, ThreadsOK, hw, vdev, pcs, ioctl, user
<1>9. CASE IoctlDisable
  BY <1>9 DEF IoctlDisable, IoctlMayStart, IsIntx, SetupInv, Types, FlagsOK,
     ThreadsOK, hw, vdev, pcs, ioctl, user
<1>10. CASE Reopen
  BY <1>10 DEF Reopen, SetupInv, IsIntx, Types, FlagsOK, ThreadsOK, hw,
     vdev, pcs, ioctl, user
<1>11. ASSUME NEW fd \in Fd \cup {None}, IoctlTrigger(fd) PROVE SetupInv'
  BY <1>11 DEF IoctlTrigger, IoctlMayStart, IsIntx, SetupInv, Types,
     FlagsOK, ThreadsOK, hw, vdev, pcs, ioctl, user
<1>12. CASE IoctlSend
  BY <1>12 DEF IoctlSend, Sends, AfterSend, IsIntx, SetupInv, Types,
     FlagsOK, ThreadsOK, hw, vdev, pcs, ioctl, user
<1>13. CASE EnableDisIntx
  BY <1>13 DEF EnableDisIntx, SetupInv, IsIntx, Types, FlagsOK, ThreadsOK,
     hw, vdev, pcs, ioctl, user
<1>14. CASE EnableType
  BY <1>14 DEF EnableType, SetupInv, IsIntx, Types, FlagsOK, ThreadsOK, hw,
     vdev, pcs, ioctl, user
<1>15. CASE SetSignalFree
  BY <1>15 DEF SetSignalFree, SetupInv, IsIntx, Types, FlagsOK, ThreadsOK,
     hw, vdev, pcs, ioctl, user
<1>16. CASE SetSignalFails
  BY <1>16 DEF SetSignalFails, SetupInv, IsIntx, Types, FlagsOK, ThreadsOK,
     hw, vdev, pcs, ioctl, user
<1>17. CASE SetSignalRequest
  BY <1>17 DEF SetSignalRequest, SetupInv, IsIntx, Types, FlagsOK,
     ThreadsOK, hw, vdev, pcs, ioctl, user
<1>18. CASE SetSignalPost
  BY <1>18 DEF SetSignalPost, DisableIrq, SetupInv, IsIntx, Types, FlagsOK,
     ThreadsOK, hw, vdev, pcs, ioctl, user
<1>19. CASE DisableSignal
  BY <1>19 DEF DisableSignal, SetupInv, IsIntx, Types, FlagsOK, ThreadsOK,
     hw, vdev, pcs, ioctl, user
<1>20. CASE DisableType
  BY <1>20 DEF DisableType, SetupInv, IsIntx, Types, FlagsOK, ThreadsOK, hw,
     vdev, pcs, ioctl, user
<1>21. CASE ConfigWrite
  BY <1>21 DEF ConfigWrite, SetupInv, IsIntx, Types, FlagsOK, ThreadsOK, hw,
     vdev, pcs, ioctl, user
<1>22. CASE ConfigMask
  BY <1>22 DEF ConfigMask, IntxMask, DisableIrq, IsIntx, SetupInv, Types,
     FlagsOK, ThreadsOK, hw, vdev, pcs, ioctl, user
<1>23. CASE ConfigUnmask
  BY <1>23 DEF ConfigUnmask, IntxUnmask, EnableIrq, Clear, Resend, IsIntx,
     SetupInv, Types, FlagsOK, ThreadsOK, hw, vdev, pcs, ioctl, user
<1>24. CASE ConfigSend
  BY <1>24 DEF ConfigSend, Sends, AfterSend, IsIntx, SetupInv, Types,
     FlagsOK, ThreadsOK, hw, vdev, pcs, ioctl, user
<1>25. CASE IrqfdUnmask
  BY <1>25 DEF IrqfdUnmask, IntxUnmask, EnableIrq, Clear, Resend, IsIntx,
     SetupInv, Types, FlagsOK, ThreadsOK, hw, vdev, pcs, ioctl, user
<1>26. CASE IrqfdSend
  BY <1>26 DEF IrqfdSend, Sends, AfterSend, IsIntx, SetupInv, Types,
     FlagsOK, ThreadsOK, hw, vdev, pcs, ioctl, user
<1>27. CASE UNCHANGED vars
  BY <1>27 DEF vars, SetupInv, IsIntx, Types, FlagsOK, ThreadsOK, hw, vdev,
     pcs, ioctl, user
<1> QED
  BY <1>1, <1>2, <1>3, <1>4, <1>5, <1>6, <1>7, <1>8, <1>9, <1>10, <1>11,
     <1>12, <1>13, <1>14, <1>15, <1>16, <1>17, <1>18, <1>19, <1>20, <1>21,
     <1>22, <1>23, <1>24, <1>25, <1>26, <1>27 DEF Next, Handler, IoctlCall,
     IoctlWork, ConfigWork

(* The inductive part that holds without any assumption on the user.       *)
THEOREM SetupInvariance == Spec => [](Types /\ SetupInv)
<1>1. Init => Types /\ SetupInv
  BY DEF Init, Types, FlagsOK, ThreadsOK, SetupInv, IsIntx
<1>2. Types /\ SetupInv /\ [Next]_vars => (Types /\ SetupInv)'
  BY TypesStep, SetupStep
<1> QED
  BY <1>1, <1>2, PTL DEF Spec

(* The interrupt handler never signals a trigger that is gone, whatever    *)
(* the ioctl and configuration threads do meanwhile: free_irq waits for it *)
(* before vfio_intx_set_signal drops the trigger.                          *)
THEOREM HandlerKeepsTrigger == Spec => []HandlerHasTrigger
<1>1. SetupInv => HandlerHasTrigger
  BY DEF SetupInv, HandlerHasTrigger
<1> QED
  BY <1>1, SetupInvariance, PTL

----------------------------------------------------------------------------
(* A user who makes one call at a time                                     *)

MaskInv == SerialInv /\ HardwareInv /\ VirtualInv /\ SilentInv

(* Calls do not come to overlap.                                           *)
LEMMA SerialStep ==
    ASSUME Serial, Types, SetupInv, MaskInv, [Next]_vars
    PROVE  SerialInv'
<1> USE DEF MaskInv
<1>1. CASE DeviceInterrupt
  BY <1>1 DEF DeviceInterrupt, SerialInv, SetupInv, VirtualInv, IsIntx,
     Types, FlagsOK, ThreadsOK, hw, vdev, pcs, ioctl, user
<1>2. CASE HandlerEnter
  BY <1>2 DEF HandlerEnter, SerialInv, SetupInv, VirtualInv, IsIntx, Types,
     FlagsOK, ThreadsOK, hw, vdev, pcs, ioctl, user
<1>3. CASE HandlerMask
  BY <1>3 DEF HandlerMask, DisableIrq, SerialInv, SetupInv, VirtualInv,
     IsIntx, Types, FlagsOK, ThreadsOK, hw, vdev, pcs, ioctl, user
<1>4. CASE HandlerSend
  BY <1>4 DEF HandlerSend, Sends, IsIntx, SerialInv, SetupInv, VirtualInv,
     Types, FlagsOK, ThreadsOK, hw, vdev, pcs, ioctl, user
<1>5. CASE IoctlMask
  BY <1>5 DEF IoctlMask, IntxMask, DisableIrq, IoctlMayStart, IsIntx,
     SerialInv, SetupInv, VirtualInv, Types, FlagsOK, ThreadsOK, hw, vdev,
     pcs, ioctl, user
<1>6. CASE IoctlUnmask
  BY <1>6 DEF IoctlUnmask, IntxUnmask, EnableIrq, Clear, Resend,
     IoctlMayStart, IsIntx, SerialInv, SetupInv, VirtualInv, Types, FlagsOK,
     ThreadsOK, hw, vdev, pcs, ioctl, user
<1>7. CASE IoctlLoopback
  BY <1>7 DEF IoctlLoopback, AfterSend, Sends, IoctlMayStart, IsIntx,
     SerialInv, SetupInv, VirtualInv, Types, FlagsOK, ThreadsOK, hw, vdev,
     pcs, ioctl, user
<1>8. CASE IoctlUnmaskFd
  BY <1>8 DEF IoctlUnmaskFd, IoctlMayStart, IsIntx, SerialInv, SetupInv,
     VirtualInv, Types, FlagsOK, ThreadsOK, hw, vdev, pcs, ioctl, user
<1>9. CASE IoctlDisable
  BY <1>9 DEF IoctlDisable, IoctlMayStart, IsIntx, SerialInv, SetupInv,
     VirtualInv, Types, FlagsOK, ThreadsOK, hw, vdev, pcs, ioctl, user
<1>10. CASE Reopen
  BY <1>10 DEF Reopen, SerialInv, SetupInv, VirtualInv, IsIntx, Types,
     FlagsOK, ThreadsOK, hw, vdev, pcs, ioctl, user
<1>11. ASSUME NEW fd \in Fd \cup {None}, IoctlTrigger(fd) PROVE SerialInv'
  BY <1>11 DEF IoctlTrigger, IoctlMayStart, IsIntx, SerialInv, SetupInv,
     VirtualInv, Types, FlagsOK, ThreadsOK, hw, vdev, pcs, ioctl, user
<1>12. CASE IoctlSend
  BY <1>12 DEF IoctlSend, Sends, AfterSend, IsIntx, SerialInv, SetupInv,
     VirtualInv, Types, FlagsOK, ThreadsOK, hw, vdev, pcs, ioctl, user
<1>13. CASE EnableDisIntx
  BY <1>13 DEF EnableDisIntx, SerialInv, SetupInv, VirtualInv, IsIntx,
     Types, FlagsOK, ThreadsOK, hw, vdev, pcs, ioctl, user
<1>14. CASE EnableType
  BY <1>14 DEF EnableType, SerialInv, SetupInv, VirtualInv, IsIntx, Types,
     FlagsOK, ThreadsOK, hw, vdev, pcs, ioctl, user
<1>15. CASE SetSignalFree
  BY <1>15 DEF SetSignalFree, SerialInv, SetupInv, VirtualInv, IsIntx,
     Types, FlagsOK, ThreadsOK, hw, vdev, pcs, ioctl, user
<1>16. CASE SetSignalFails
  BY <1>16 DEF SetSignalFails, SerialInv, SetupInv, VirtualInv, IsIntx,
     Types, FlagsOK, ThreadsOK, hw, vdev, pcs, ioctl, user
<1>17. CASE SetSignalRequest
  BY <1>17 DEF SetSignalRequest, SerialInv, SetupInv, VirtualInv, IsIntx,
     Types, FlagsOK, ThreadsOK, hw, vdev, pcs, ioctl, user
<1>18. CASE SetSignalPost
  BY <1>18 DEF SetSignalPost, DisableIrq, SerialInv, SetupInv, VirtualInv,
     IsIntx, Types, FlagsOK, ThreadsOK, hw, vdev, pcs, ioctl, user
<1>19. CASE DisableSignal
  BY <1>19 DEF DisableSignal, SerialInv, SetupInv, VirtualInv, IsIntx,
     Types, FlagsOK, ThreadsOK, hw, vdev, pcs, ioctl, user
<1>20. CASE DisableType
  BY <1>20 DEF DisableType, SerialInv, SetupInv, VirtualInv, IsIntx, Types,
     FlagsOK, ThreadsOK, hw, vdev, pcs, ioctl, user
<1>21. CASE ConfigWrite
  BY <1>21 DEF ConfigWrite, SerialInv, SetupInv, VirtualInv, IsIntx, Types,
     FlagsOK, ThreadsOK, hw, vdev, pcs, ioctl, user
<1>22. CASE ConfigMask
  BY <1>22 DEF ConfigMask, IntxMask, DisableIrq, IsIntx, SerialInv,
     SetupInv, VirtualInv, Types, FlagsOK, ThreadsOK, hw, vdev, pcs, ioctl,
     user
<1>23. CASE ConfigUnmask
  BY <1>23 DEF ConfigUnmask, IntxUnmask, EnableIrq, Clear, Resend, IsIntx,
     SerialInv, SetupInv, VirtualInv, Types, FlagsOK, ThreadsOK, hw, vdev,
     pcs, ioctl, user
<1>24. CASE ConfigSend
  BY <1>24 DEF ConfigSend, Sends, AfterSend, IsIntx, SerialInv, SetupInv,
     VirtualInv, Types, FlagsOK, ThreadsOK, hw, vdev, pcs, ioctl, user
<1>25. CASE IrqfdUnmask
  BY <1>25 DEF IrqfdUnmask, IntxUnmask, EnableIrq, Clear, Resend, IsIntx,
     SerialInv, SetupInv, VirtualInv, Types, FlagsOK, ThreadsOK, hw, vdev,
     pcs, ioctl, user
<1>26. CASE IrqfdSend
  BY <1>26 DEF IrqfdSend, Sends, AfterSend, IsIntx, SerialInv, SetupInv,
     VirtualInv, Types, FlagsOK, ThreadsOK, hw, vdev, pcs, ioctl, user
<1>27. CASE UNCHANGED vars
  BY <1>27 DEF vars, SerialInv, SetupInv, VirtualInv, IsIntx, Types,
     FlagsOK, ThreadsOK, hw, vdev, pcs, ioctl, user
<1> QED
  BY <1>1, <1>2, <1>3, <1>4, <1>5, <1>6, <1>7, <1>8, <1>9, <1>10, <1>11,
     <1>12, <1>13, <1>14, <1>15, <1>16, <1>17, <1>18, <1>19, <1>20, <1>21,
     <1>22, <1>23, <1>24, <1>25, <1>26, <1>27 DEF Next, Handler, IoctlCall,
     IoctlWork, ConfigWork

(* Every section under irqlock moves the mask of driver and device         *)
(* together.                                                               *)
LEMMA HardwareStep ==
    ASSUME Serial, Types, SetupInv, MaskInv, [Next]_vars
    PROVE  HardwareInv'
<1> USE DEF MaskInv
<1>1. CASE DeviceInterrupt
  BY <1>1 DEF DeviceInterrupt, HardwareInv, SerialInv, SetupInv, VirtualInv,
     IsIntx, Types, FlagsOK, ThreadsOK, hw, vdev, pcs, ioctl, user
<1>2. CASE HandlerEnter
  BY <1>2 DEF HandlerEnter, HardwareInv, SerialInv, SetupInv, VirtualInv,
     IsIntx, Types, FlagsOK, ThreadsOK, hw, vdev, pcs, ioctl, user
<1>3. CASE HandlerMask
  BY <1>3 DEF HandlerMask, DisableIrq, HardwareInv, SerialInv, SetupInv,
     VirtualInv, IsIntx, Types, FlagsOK, ThreadsOK, hw, vdev, pcs, ioctl,
     user
<1>4. CASE HandlerSend
  BY <1>4 DEF HandlerSend, Sends, IsIntx, HardwareInv, SerialInv, SetupInv,
     VirtualInv, Types, FlagsOK, ThreadsOK, hw, vdev, pcs, ioctl, user
<1>5. CASE IoctlMask
  BY <1>5 DEF IoctlMask, IntxMask, DisableIrq, IoctlMayStart, IsIntx,
     HardwareInv, SerialInv, SetupInv, VirtualInv, Types, FlagsOK,
     ThreadsOK, hw, vdev, pcs, ioctl, user
<1>6. CASE IoctlUnmask
  BY <1>6 DEF IoctlUnmask, IntxUnmask, EnableIrq, Clear, Resend,
     IoctlMayStart, IsIntx, HardwareInv, SerialInv, SetupInv, VirtualInv,
     Types, FlagsOK, ThreadsOK, hw, vdev, pcs, ioctl, user
<1>7. CASE IoctlLoopback
  BY <1>7 DEF IoctlLoopback, AfterSend, Sends, IoctlMayStart, IsIntx,
     HardwareInv, SerialInv, SetupInv, VirtualInv, Types, FlagsOK,
     ThreadsOK, hw, vdev, pcs, ioctl, user
<1>8. CASE IoctlUnmaskFd
  BY <1>8 DEF IoctlUnmaskFd, IoctlMayStart, IsIntx, HardwareInv, SerialInv,
     SetupInv, VirtualInv, Types, FlagsOK, ThreadsOK, hw, vdev, pcs, ioctl,
     user
<1>9. CASE IoctlDisable
  BY <1>9 DEF IoctlDisable, IoctlMayStart, IsIntx, HardwareInv, SerialInv,
     SetupInv, VirtualInv, Types, FlagsOK, ThreadsOK, hw, vdev, pcs, ioctl,
     user
<1>10. CASE Reopen
  BY <1>10 DEF Reopen, HardwareInv, SerialInv, SetupInv, VirtualInv, IsIntx,
     Types, FlagsOK, ThreadsOK, hw, vdev, pcs, ioctl, user
<1>11. ASSUME NEW fd \in Fd \cup {None}, IoctlTrigger(fd) PROVE HardwareInv'
  BY <1>11 DEF IoctlTrigger, IoctlMayStart, IsIntx, HardwareInv, SerialInv,
     SetupInv, VirtualInv, Types, FlagsOK, ThreadsOK, hw, vdev, pcs, ioctl,
     user
<1>12. CASE IoctlSend
  BY <1>12 DEF IoctlSend, Sends, AfterSend, IsIntx, HardwareInv, SerialInv,
     SetupInv, VirtualInv, Types, FlagsOK, ThreadsOK, hw, vdev, pcs, ioctl,
     user
<1>13. CASE EnableDisIntx
  BY <1>13 DEF EnableDisIntx, HardwareInv, SerialInv, SetupInv, VirtualInv,
     IsIntx, Types, FlagsOK, ThreadsOK, hw, vdev, pcs, ioctl, user
<1>14. CASE EnableType
  BY <1>14 DEF EnableType, HardwareInv, SerialInv, SetupInv, VirtualInv,
     IsIntx, Types, FlagsOK, ThreadsOK, hw, vdev, pcs, ioctl, user
<1>15. CASE SetSignalFree
  BY <1>15 DEF SetSignalFree, HardwareInv, SerialInv, SetupInv, VirtualInv,
     IsIntx, Types, FlagsOK, ThreadsOK, hw, vdev, pcs, ioctl, user
<1>16. CASE SetSignalFails
  BY <1>16 DEF SetSignalFails, HardwareInv, SerialInv, SetupInv, VirtualInv,
     IsIntx, Types, FlagsOK, ThreadsOK, hw, vdev, pcs, ioctl, user
<1>17. CASE SetSignalRequest
  BY <1>17 DEF SetSignalRequest, HardwareInv, SerialInv, SetupInv,
     VirtualInv, IsIntx, Types, FlagsOK, ThreadsOK, hw, vdev, pcs, ioctl,
     user
<1>18. CASE SetSignalPost
  BY <1>18 DEF SetSignalPost, DisableIrq, HardwareInv, SerialInv, SetupInv,
     VirtualInv, IsIntx, Types, FlagsOK, ThreadsOK, hw, vdev, pcs, ioctl,
     user
<1>19. CASE DisableSignal
  BY <1>19 DEF DisableSignal, HardwareInv, SerialInv, SetupInv, VirtualInv,
     IsIntx, Types, FlagsOK, ThreadsOK, hw, vdev, pcs, ioctl, user
<1>20. CASE DisableType
  BY <1>20 DEF DisableType, HardwareInv, SerialInv, SetupInv, VirtualInv,
     IsIntx, Types, FlagsOK, ThreadsOK, hw, vdev, pcs, ioctl, user
<1>21. CASE ConfigWrite
  BY <1>21 DEF ConfigWrite, HardwareInv, SerialInv, SetupInv, VirtualInv,
     IsIntx, Types, FlagsOK, ThreadsOK, hw, vdev, pcs, ioctl, user
<1>22. CASE ConfigMask
  BY <1>22 DEF ConfigMask, IntxMask, DisableIrq, IsIntx, HardwareInv,
     SerialInv, SetupInv, VirtualInv, Types, FlagsOK, ThreadsOK, hw, vdev,
     pcs, ioctl, user
<1>23. CASE ConfigUnmask
  BY <1>23 DEF ConfigUnmask, IntxUnmask, EnableIrq, Clear, Resend, IsIntx,
     HardwareInv, SerialInv, SetupInv, VirtualInv, Types, FlagsOK,
     ThreadsOK, hw, vdev, pcs, ioctl, user
<1>24. CASE ConfigSend
  BY <1>24 DEF ConfigSend, Sends, AfterSend, IsIntx, HardwareInv, SerialInv,
     SetupInv, VirtualInv, Types, FlagsOK, ThreadsOK, hw, vdev, pcs, ioctl,
     user
<1>25. CASE IrqfdUnmask
  BY <1>25 DEF IrqfdUnmask, IntxUnmask, EnableIrq, Clear, Resend, IsIntx,
     HardwareInv, SerialInv, SetupInv, VirtualInv, Types, FlagsOK,
     ThreadsOK, hw, vdev, pcs, ioctl, user
<1>26. CASE IrqfdSend
  BY <1>26 DEF IrqfdSend, Sends, AfterSend, IsIntx, HardwareInv, SerialInv,
     SetupInv, VirtualInv, Types, FlagsOK, ThreadsOK, hw, vdev, pcs, ioctl,
     user
<1>27. CASE UNCHANGED vars
  BY <1>27 DEF vars, HardwareInv, SerialInv, SetupInv, VirtualInv, IsIntx,
     Types, FlagsOK, ThreadsOK, hw, vdev, pcs, ioctl, user
<1> QED
  BY <1>1, <1>2, <1>3, <1>4, <1>5, <1>6, <1>7, <1>8, <1>9, <1>10, <1>11,
     <1>12, <1>13, <1>14, <1>15, <1>16, <1>17, <1>18, <1>19, <1>20, <1>21,
     <1>22, <1>23, <1>24, <1>25, <1>26, <1>27 DEF Next, Handler, IoctlCall,
     IoctlWork, ConfigWork

(* No operation unmasks against the virtual DisINTx.                       *)
LEMMA VirtualStep ==
    ASSUME Serial, Types, SetupInv, MaskInv, [Next]_vars
    PROVE  VirtualInv'
<1> USE DEF MaskInv
<1>1. CASE DeviceInterrupt
  BY <1>1 DEF DeviceInterrupt, VirtualInv, SerialInv, SetupInv, IsIntx,
     Types, FlagsOK, ThreadsOK, hw, vdev, pcs, ioctl, user
<1>2. CASE HandlerEnter
  BY <1>2 DEF HandlerEnter, VirtualInv, SerialInv, SetupInv, IsIntx, Types,
     FlagsOK, ThreadsOK, hw, vdev, pcs, ioctl, user
<1>3. CASE HandlerMask
  BY <1>3 DEF HandlerMask, DisableIrq, VirtualInv, SerialInv, SetupInv,
     IsIntx, Types, FlagsOK, ThreadsOK, hw, vdev, pcs, ioctl, user
<1>4. CASE HandlerSend
  BY <1>4 DEF HandlerSend, Sends, IsIntx, VirtualInv, SerialInv, SetupInv,
     Types, FlagsOK, ThreadsOK, hw, vdev, pcs, ioctl, user
<1>5. CASE IoctlMask
  BY <1>5 DEF IoctlMask, IntxMask, DisableIrq, IoctlMayStart, IsIntx,
     VirtualInv, SerialInv, SetupInv, Types, FlagsOK, ThreadsOK, hw, vdev,
     pcs, ioctl, user
<1>6. CASE IoctlUnmask
  BY <1>6 DEF IoctlUnmask, IntxUnmask, EnableIrq, Clear, Resend,
     IoctlMayStart, IsIntx, VirtualInv, SerialInv, SetupInv, Types, FlagsOK,
     ThreadsOK, hw, vdev, pcs, ioctl, user
<1>7. CASE IoctlLoopback
  BY <1>7 DEF IoctlLoopback, AfterSend, Sends, IoctlMayStart, IsIntx,
     VirtualInv, SerialInv, SetupInv, Types, FlagsOK, ThreadsOK, hw, vdev,
     pcs, ioctl, user
<1>8. CASE IoctlUnmaskFd
  BY <1>8 DEF IoctlUnmaskFd, IoctlMayStart, IsIntx, VirtualInv, SerialInv,
     SetupInv, Types, FlagsOK, ThreadsOK, hw, vdev, pcs, ioctl, user
<1>9. CASE IoctlDisable
  BY <1>9 DEF IoctlDisable, IoctlMayStart, IsIntx, VirtualInv, SerialInv,
     SetupInv, Types, FlagsOK, ThreadsOK, hw, vdev, pcs, ioctl, user
<1>10. CASE Reopen
  BY <1>10 DEF Reopen, VirtualInv, SerialInv, SetupInv, IsIntx, Types,
     FlagsOK, ThreadsOK, hw, vdev, pcs, ioctl, user
<1>11. ASSUME NEW fd \in Fd \cup {None}, IoctlTrigger(fd) PROVE VirtualInv'
  BY <1>11 DEF IoctlTrigger, IoctlMayStart, IsIntx, VirtualInv, SerialInv,
     SetupInv, Types, FlagsOK, ThreadsOK, hw, vdev, pcs, ioctl, user
<1>12. CASE IoctlSend
  BY <1>12 DEF IoctlSend, Sends, AfterSend, IsIntx, VirtualInv, SerialInv,
     SetupInv, Types, FlagsOK, ThreadsOK, hw, vdev, pcs, ioctl, user
<1>13. CASE EnableDisIntx
  BY <1>13 DEF EnableDisIntx, VirtualInv, SerialInv, SetupInv, IsIntx,
     Types, FlagsOK, ThreadsOK, hw, vdev, pcs, ioctl, user
<1>14. CASE EnableType
  BY <1>14 DEF EnableType, VirtualInv, SerialInv, SetupInv, IsIntx, Types,
     FlagsOK, ThreadsOK, hw, vdev, pcs, ioctl, user
<1>15. CASE SetSignalFree
  BY <1>15 DEF SetSignalFree, VirtualInv, SerialInv, SetupInv, IsIntx,
     Types, FlagsOK, ThreadsOK, hw, vdev, pcs, ioctl, user
<1>16. CASE SetSignalFails
  BY <1>16 DEF SetSignalFails, VirtualInv, SerialInv, SetupInv, IsIntx,
     Types, FlagsOK, ThreadsOK, hw, vdev, pcs, ioctl, user
<1>17. CASE SetSignalRequest
  BY <1>17 DEF SetSignalRequest, VirtualInv, SerialInv, SetupInv, IsIntx,
     Types, FlagsOK, ThreadsOK, hw, vdev, pcs, ioctl, user
<1>18. CASE SetSignalPost
  BY <1>18 DEF SetSignalPost, DisableIrq, VirtualInv, SerialInv, SetupInv,
     IsIntx, Types, FlagsOK, ThreadsOK, hw, vdev, pcs, ioctl, user
<1>19. CASE DisableSignal
  BY <1>19 DEF DisableSignal, VirtualInv, SerialInv, SetupInv, IsIntx,
     Types, FlagsOK, ThreadsOK, hw, vdev, pcs, ioctl, user
<1>20. CASE DisableType
  BY <1>20 DEF DisableType, VirtualInv, SerialInv, SetupInv, IsIntx, Types,
     FlagsOK, ThreadsOK, hw, vdev, pcs, ioctl, user
<1>21. CASE ConfigWrite
  BY <1>21 DEF ConfigWrite, VirtualInv, SerialInv, SetupInv, IsIntx, Types,
     FlagsOK, ThreadsOK, hw, vdev, pcs, ioctl, user
<1>22. CASE ConfigMask
  BY <1>22 DEF ConfigMask, IntxMask, DisableIrq, IsIntx, VirtualInv,
     SerialInv, SetupInv, Types, FlagsOK, ThreadsOK, hw, vdev, pcs, ioctl,
     user
<1>23. CASE ConfigUnmask
  BY <1>23 DEF ConfigUnmask, IntxUnmask, EnableIrq, Clear, Resend, IsIntx,
     VirtualInv, SerialInv, SetupInv, Types, FlagsOK, ThreadsOK, hw, vdev,
     pcs, ioctl, user
<1>24. CASE ConfigSend
  BY <1>24 DEF ConfigSend, Sends, AfterSend, IsIntx, VirtualInv, SerialInv,
     SetupInv, Types, FlagsOK, ThreadsOK, hw, vdev, pcs, ioctl, user
<1>25. CASE IrqfdUnmask
  BY <1>25 DEF IrqfdUnmask, IntxUnmask, EnableIrq, Clear, Resend, IsIntx,
     VirtualInv, SerialInv, SetupInv, Types, FlagsOK, ThreadsOK, hw, vdev,
     pcs, ioctl, user
<1>26. CASE IrqfdSend
  BY <1>26 DEF IrqfdSend, Sends, AfterSend, IsIntx, VirtualInv, SerialInv,
     SetupInv, Types, FlagsOK, ThreadsOK, hw, vdev, pcs, ioctl, user
<1>27. CASE UNCHANGED vars
  BY <1>27 DEF vars, VirtualInv, SerialInv, SetupInv, VirtualInv, IsIntx,
     Types, FlagsOK, ThreadsOK, hw, vdev, pcs, ioctl, user
<1> QED
  BY <1>1, <1>2, <1>3, <1>4, <1>5, <1>6, <1>7, <1>8, <1>9, <1>10, <1>11,
     <1>12, <1>13, <1>14, <1>15, <1>16, <1>17, <1>18, <1>19, <1>20, <1>21,
     <1>22, <1>23, <1>24, <1>25, <1>26, <1>27 DEF Next, Handler, IoctlCall,
     IoctlWork, ConfigWork

(* Whoever leaves the interrupt masked has told the user, or will.         *)
LEMMA SilentStep ==
    ASSUME Serial, Types, SetupInv, MaskInv, [Next]_vars
    PROVE  SilentInv'
<1> USE DEF MaskInv
<1>1. CASE DeviceInterrupt
  BY <1>1 DEF DeviceInterrupt, SilentInv, SerialInv, SetupInv, VirtualInv,
     IsIntx, Types, FlagsOK, ThreadsOK, hw, vdev, pcs, ioctl, user
<1>2. CASE HandlerEnter
  BY <1>2 DEF HandlerEnter, SilentInv, SerialInv, SetupInv, VirtualInv,
     IsIntx, Types, FlagsOK, ThreadsOK, hw, vdev, pcs, ioctl, user
<1>3. CASE HandlerMask
  BY <1>3 DEF HandlerMask, DisableIrq, SilentInv, SerialInv, SetupInv,
     VirtualInv, IsIntx, Types, FlagsOK, ThreadsOK, hw, vdev, pcs, ioctl,
     user
<1>4. CASE HandlerSend
  BY <1>4 DEF HandlerSend, Sends, IsIntx, SilentInv, SerialInv, SetupInv,
     VirtualInv, Types, FlagsOK, ThreadsOK, hw, vdev, pcs, ioctl, user
<1>5. CASE IoctlMask
  BY <1>5 DEF IoctlMask, IntxMask, DisableIrq, IoctlMayStart, IsIntx,
     SilentInv, SerialInv, SetupInv, VirtualInv, Types, FlagsOK, ThreadsOK,
     hw, vdev, pcs, ioctl, user
<1>6. CASE IoctlUnmask
  BY <1>6 DEF IoctlUnmask, IntxUnmask, EnableIrq, Clear, Resend,
     IoctlMayStart, IsIntx, SilentInv, SerialInv, SetupInv, VirtualInv,
     Types, FlagsOK, ThreadsOK, hw, vdev, pcs, ioctl, user
<1>7. CASE IoctlLoopback
  BY <1>7 DEF IoctlLoopback, AfterSend, Sends, IoctlMayStart, IsIntx,
     SilentInv, SerialInv, SetupInv, VirtualInv, Types, FlagsOK, ThreadsOK,
     hw, vdev, pcs, ioctl, user
<1>8. CASE IoctlUnmaskFd
  BY <1>8 DEF IoctlUnmaskFd, IoctlMayStart, IsIntx, SilentInv, SerialInv,
     SetupInv, VirtualInv, Types, FlagsOK, ThreadsOK, hw, vdev, pcs, ioctl,
     user
<1>9. CASE IoctlDisable
  BY <1>9 DEF IoctlDisable, IoctlMayStart, IsIntx, SilentInv, SerialInv,
     SetupInv, VirtualInv, Types, FlagsOK, ThreadsOK, hw, vdev, pcs, ioctl,
     user
<1>10. CASE Reopen
  BY <1>10 DEF Reopen, SilentInv, SerialInv, SetupInv, VirtualInv, IsIntx,
     Types, FlagsOK, ThreadsOK, hw, vdev, pcs, ioctl, user
<1>11. ASSUME NEW fd \in Fd \cup {None}, IoctlTrigger(fd) PROVE SilentInv'
  BY <1>11 DEF IoctlTrigger, IoctlMayStart, IsIntx, SilentInv, SerialInv,
     SetupInv, VirtualInv, Types, FlagsOK, ThreadsOK, hw, vdev, pcs, ioctl,
     user
<1>12. CASE IoctlSend
  BY <1>12 DEF IoctlSend, Sends, AfterSend, IsIntx, SilentInv, SerialInv,
     SetupInv, VirtualInv, Types, FlagsOK, ThreadsOK, hw, vdev, pcs, ioctl,
     user
<1>13. CASE EnableDisIntx
  BY <1>13 DEF EnableDisIntx, SilentInv, SerialInv, SetupInv, VirtualInv,
     IsIntx, Types, FlagsOK, ThreadsOK, hw, vdev, pcs, ioctl, user
<1>14. CASE EnableType
  BY <1>14 DEF EnableType, SilentInv, SerialInv, SetupInv, VirtualInv,
     IsIntx, Types, FlagsOK, ThreadsOK, hw, vdev, pcs, ioctl, user
<1>15. CASE SetSignalFree
  BY <1>15 DEF SetSignalFree, SilentInv, SerialInv, SetupInv, VirtualInv,
     IsIntx, Types, FlagsOK, ThreadsOK, hw, vdev, pcs, ioctl, user
<1>16. CASE SetSignalFails
  BY <1>16 DEF SetSignalFails, SilentInv, SerialInv, SetupInv, VirtualInv,
     IsIntx, Types, FlagsOK, ThreadsOK, hw, vdev, pcs, ioctl, user
<1>17. CASE SetSignalRequest
  BY <1>17 DEF SetSignalRequest, SilentInv, SerialInv, SetupInv, VirtualInv,
     IsIntx, Types, FlagsOK, ThreadsOK, hw, vdev, pcs, ioctl, user
<1>18. CASE SetSignalPost
  BY <1>18 DEF SetSignalPost, DisableIrq, SilentInv, SerialInv, SetupInv,
     VirtualInv, IsIntx, Types, FlagsOK, ThreadsOK, hw, vdev, pcs, ioctl,
     user
<1>19. CASE DisableSignal
  BY <1>19 DEF DisableSignal, SilentInv, SerialInv, SetupInv, VirtualInv,
     IsIntx, Types, FlagsOK, ThreadsOK, hw, vdev, pcs, ioctl, user
<1>20. CASE DisableType
  BY <1>20 DEF DisableType, SilentInv, SerialInv, SetupInv, VirtualInv,
     IsIntx, Types, FlagsOK, ThreadsOK, hw, vdev, pcs, ioctl, user
<1>21. CASE ConfigWrite
  BY <1>21 DEF ConfigWrite, SilentInv, SerialInv, SetupInv, VirtualInv,
     IsIntx, Types, FlagsOK, ThreadsOK, hw, vdev, pcs, ioctl, user
<1>22. CASE ConfigMask
  BY <1>22 DEF ConfigMask, IntxMask, DisableIrq, IsIntx, SilentInv,
     SerialInv, SetupInv, VirtualInv, Types, FlagsOK, ThreadsOK, hw, vdev,
     pcs, ioctl, user
<1>23. CASE ConfigUnmask
  BY <1>23 DEF ConfigUnmask, IntxUnmask, EnableIrq, Clear, Resend, IsIntx,
     SilentInv, SerialInv, SetupInv, VirtualInv, Types, FlagsOK, ThreadsOK,
     hw, vdev, pcs, ioctl, user
<1>24. CASE ConfigSend
  BY <1>24 DEF ConfigSend, Sends, AfterSend, IsIntx, SilentInv, SerialInv,
     SetupInv, VirtualInv, Types, FlagsOK, ThreadsOK, hw, vdev, pcs, ioctl,
     user
<1>25. CASE IrqfdUnmask
  BY <1>25 DEF IrqfdUnmask, IntxUnmask, EnableIrq, Clear, Resend, IsIntx,
     SilentInv, SerialInv, SetupInv, VirtualInv, Types, FlagsOK, ThreadsOK,
     hw, vdev, pcs, ioctl, user
<1>26. CASE IrqfdSend
  BY <1>26 DEF IrqfdSend, Sends, AfterSend, IsIntx, SilentInv, SerialInv,
     SetupInv, VirtualInv, Types, FlagsOK, ThreadsOK, hw, vdev, pcs, ioctl,
     user
<1>27. CASE UNCHANGED vars
  BY <1>27 DEF vars, SilentInv, SerialInv, SetupInv, VirtualInv, IsIntx,
     Types, FlagsOK, ThreadsOK, hw, vdev, pcs, ioctl, user
<1> QED
  BY <1>1, <1>2, <1>3, <1>4, <1>5, <1>6, <1>7, <1>8, <1>9, <1>10, <1>11,
     <1>12, <1>13, <1>14, <1>15, <1>16, <1>17, <1>18, <1>19, <1>20, <1>21,
     <1>22, <1>23, <1>24, <1>25, <1>26, <1>27 DEF Next, Handler, IoctlCall,
     IoctlWork, ConfigWork

(* The handler and one caller at a time nest disable_irq at most twice.    *)
LEMMA DepthStep ==
    ASSUME Serial, Types, SetupInv, MaskInv, DepthInv, [Next]_vars
    PROVE  DepthInv'
<1> USE FlagAssumption DEF MaskInv
<1>1. CASE DeviceInterrupt
  BY <1>1 DEF DeviceInterrupt, DepthInv, SerialInv, SetupInv, VirtualInv, IsIntx,
     Types, FlagsOK, ThreadsOK, hw, vdev, pcs, ioctl, user
<1>2. CASE HandlerEnter
  BY <1>2 DEF HandlerEnter, DepthInv, SerialInv, SetupInv, VirtualInv, IsIntx, Types,
     FlagsOK, ThreadsOK, hw, vdev, pcs, ioctl, user
<1>3. CASE HandlerMask
  BY <1>3 DEF HandlerMask, DisableIrq, DepthInv, SerialInv, SetupInv, VirtualInv,
     IsIntx, Types, FlagsOK, ThreadsOK, hw, vdev, pcs, ioctl, user
<1>4. CASE HandlerSend
  BY <1>4 DEF HandlerSend, Sends, IsIntx, DepthInv, SerialInv, SetupInv, VirtualInv,
     Types, FlagsOK, ThreadsOK, hw, vdev, pcs, ioctl, user
<1>5. CASE IoctlMask
  BY <1>5 DEF IoctlMask, IntxMask, DisableIrq, IoctlMayStart, IsIntx,
     DepthInv, SerialInv, SetupInv, VirtualInv, Types, FlagsOK, ThreadsOK, hw, vdev,
     pcs, ioctl, user
<1>6. CASE IoctlUnmask
  BY <1>6 DEF IoctlUnmask, IntxUnmask, EnableIrq, Clear, Resend,
     IoctlMayStart, IsIntx, DepthInv, SerialInv, SetupInv, VirtualInv, Types, FlagsOK,
     ThreadsOK, hw, vdev, pcs, ioctl, user
<1>7. CASE IoctlLoopback
  BY <1>7 DEF IoctlLoopback, AfterSend, Sends, IoctlMayStart, IsIntx,
     DepthInv, SerialInv, SetupInv, VirtualInv, Types, FlagsOK, ThreadsOK, hw, vdev,
     pcs, ioctl, user
<1>8. CASE IoctlUnmaskFd
  BY <1>8 DEF IoctlUnmaskFd, IoctlMayStart, IsIntx, DepthInv, SerialInv, SetupInv,
     VirtualInv, Types, FlagsOK, ThreadsOK, hw, vdev, pcs, ioctl, user
<1>9. CASE IoctlDisable
  BY <1>9 DEF IoctlDisable, IoctlMayStart, IsIntx, DepthInv, SerialInv, SetupInv,
     VirtualInv, Types, FlagsOK, ThreadsOK, hw, vdev, pcs, ioctl, user
<1>10. CASE Reopen
  BY <1>10 DEF Reopen, DepthInv, SerialInv, SetupInv, VirtualInv, IsIntx, Types,
     FlagsOK, ThreadsOK, hw, vdev, pcs, ioctl, user
<1>11. ASSUME NEW fd \in Fd \cup {None}, IoctlTrigger(fd) PROVE DepthInv'
  BY <1>11 DEF IoctlTrigger, IoctlMayStart, IsIntx, DepthInv, SerialInv, SetupInv,
     VirtualInv, Types, FlagsOK, ThreadsOK, hw, vdev, pcs, ioctl, user
<1>12. CASE IoctlSend
  BY <1>12 DEF IoctlSend, Sends, AfterSend, IsIntx, DepthInv, SerialInv, SetupInv,
     VirtualInv, Types, FlagsOK, ThreadsOK, hw, vdev, pcs, ioctl, user
<1>13. CASE EnableDisIntx
  BY <1>13 DEF EnableDisIntx, DepthInv, SerialInv, SetupInv, VirtualInv, IsIntx,
     Types, FlagsOK, ThreadsOK, hw, vdev, pcs, ioctl, user
<1>14. CASE EnableType
  BY <1>14 DEF EnableType, DepthInv, SerialInv, SetupInv, VirtualInv, IsIntx, Types,
     FlagsOK, ThreadsOK, hw, vdev, pcs, ioctl, user
<1>15. CASE SetSignalFree
  BY <1>15 DEF SetSignalFree, DepthInv, SerialInv, SetupInv, VirtualInv, IsIntx,
     Types, FlagsOK, ThreadsOK, hw, vdev, pcs, ioctl, user
<1>16. CASE SetSignalFails
  BY <1>16 DEF SetSignalFails, DepthInv, SerialInv, SetupInv, VirtualInv, IsIntx,
     Types, FlagsOK, ThreadsOK, hw, vdev, pcs, ioctl, user
<1>17. CASE SetSignalRequest
  BY <1>17 DEF SetSignalRequest, DepthInv, SerialInv, SetupInv, VirtualInv, IsIntx,
     Types, FlagsOK, ThreadsOK, hw, vdev, pcs, ioctl, user
<1>18. CASE SetSignalPost
  BY <1>18 DEF SetSignalPost, DisableIrq, DepthInv, SerialInv, SetupInv, VirtualInv,
     IsIntx, Types, FlagsOK, ThreadsOK, hw, vdev, pcs, ioctl, user
<1>19. CASE DisableSignal
  BY <1>19 DEF DisableSignal, DepthInv, SerialInv, SetupInv, VirtualInv, IsIntx,
     Types, FlagsOK, ThreadsOK, hw, vdev, pcs, ioctl, user
<1>20. CASE DisableType
  BY <1>20 DEF DisableType, DepthInv, SerialInv, SetupInv, VirtualInv, IsIntx, Types,
     FlagsOK, ThreadsOK, hw, vdev, pcs, ioctl, user
<1>21. CASE ConfigWrite
  BY <1>21 DEF ConfigWrite, DepthInv, SerialInv, SetupInv, VirtualInv, IsIntx, Types,
     FlagsOK, ThreadsOK, hw, vdev, pcs, ioctl, user
<1>22. CASE ConfigMask
  BY <1>22 DEF ConfigMask, IntxMask, DisableIrq, IsIntx, DepthInv, SerialInv,
     SetupInv, VirtualInv, Types, FlagsOK, ThreadsOK, hw, vdev, pcs, ioctl,
     user
<1>23. CASE ConfigUnmask
  BY <1>23 DEF ConfigUnmask, IntxUnmask, EnableIrq, Clear, Resend, IsIntx,
     DepthInv, SerialInv, SetupInv, VirtualInv, Types, FlagsOK, ThreadsOK, hw, vdev,
     pcs, ioctl, user
<1>24. CASE ConfigSend
  BY <1>24 DEF ConfigSend, Sends, AfterSend, IsIntx, DepthInv, SerialInv, SetupInv,
     VirtualInv, Types, FlagsOK, ThreadsOK, hw, vdev, pcs, ioctl, user
<1>25. CASE IrqfdUnmask
  BY <1>25 DEF IrqfdUnmask, IntxUnmask, EnableIrq, Clear, Resend, IsIntx,
     DepthInv, SerialInv, SetupInv, VirtualInv, Types, FlagsOK, ThreadsOK, hw, vdev,
     pcs, ioctl, user
<1>26. CASE IrqfdSend
  BY <1>26 DEF IrqfdSend, Sends, AfterSend, IsIntx, DepthInv, SerialInv, SetupInv,
     VirtualInv, Types, FlagsOK, ThreadsOK, hw, vdev, pcs, ioctl, user
<1>27. CASE UNCHANGED vars
  BY <1>27 DEF vars, DepthInv, SerialInv, SetupInv, VirtualInv, IsIntx, Types,
     FlagsOK, ThreadsOK, hw, vdev, pcs, ioctl, user
<1> QED
  BY <1>1, <1>2, <1>3, <1>4, <1>5, <1>6, <1>7, <1>8, <1>9, <1>10, <1>11,
     <1>12, <1>13, <1>14, <1>15, <1>16, <1>17, <1>18, <1>19, <1>20, <1>21,
     <1>22, <1>23, <1>24, <1>25, <1>26, <1>27 DEF Next, Handler, IoctlCall,
     IoctlWork, ConfigWork

THEOREM MaskInvariance == ASSUME Serial PROVE Spec => []MaskInv
<1>1. Init => MaskInv
  BY DEF Init, MaskInv, SerialInv, HardwareInv, VirtualInv, SilentInv, IsIntx
<1>2. Types /\ SetupInv /\ MaskInv /\ [Next]_vars => MaskInv'
  BY SerialStep, HardwareStep, VirtualStep, SilentStep DEF MaskInv
<1> QED
  BY <1>1, <1>2, SetupInvariance, PTL DEF Spec

(* Whatever the user's calls and the handler do, flags, threads and the    *)
(* count of disable_irq stay in range: the driver's nesting of             *)
(* disable_irq_nosync (vfio_pci_intrs.c:63, 103, 128, 223) does not run    *)
(* away as long as the user makes one call at a time.                      *)
THEOREM TypeCorrect == ASSUME Serial PROVE Spec => []TypeOK
<1>1. Init => DepthInv
  BY DEF Init, DepthInv
<1>2. Types /\ SetupInv /\ MaskInv /\ DepthInv /\ [Next]_vars => DepthInv'
  BY DepthStep
<1>3. Types /\ DepthInv => TypeOK
  BY DEF Types, DepthInv, TypeOK
<1> QED
  BY <1>1, <1>2, <1>3, SetupInvariance, MaskInvariance, PTL DEF Spec

(* The interrupt is never masked behind the user's back.                   *)
THEOREM MasksAreTold == ASSUME Serial PROVE Spec => []NoSilentMask
<1>1. MaskInv => NoSilentMask
  BY DEF MaskInv, SilentInv, NoSilentMask, Quiet
<1> QED
  BY <1>1, MaskInvariance, PTL

(* The virtual DisINTx keeps the interrupt masked in driver and device.    *)
THEOREM VirtualMaskKept == ASSUME Serial PROVE Spec => []VirtualMaskHolds
<1>1. MaskInv => VirtualMaskHolds
  BY DEF MaskInv, HardwareInv, VirtualInv, VirtualMaskHolds, Quiet
<1> QED
  BY <1>1, MaskInvariance, PTL

(* On a device with DisINTx, what the driver thinks unmasked is unmasked.  *)
THEOREM LineFollows ==
    ASSUME Serial, Pci23 PROVE Spec => []LineFollowsMask
<1>1. Types /\ MaskInv => LineFollowsMask
  BY DEF MaskInv, HardwareInv, LineFollowsMask, Types, FlagsOK
<1> QED
  BY <1>1, MaskInvariance, SetupInvariance, PTL

(* On such a device both masks are obeyed together.                        *)
THEOREM MasksObeyed == ASSUME Serial, Pci23 PROVE Spec => []MaskObeyed
  BY VirtualMaskKept, LineFollows, PTL DEF MaskObeyed


=============================================================================
