----------------------- MODULE VfioPciDevice_proofs -----------------------
(***************************************************************************)
(* Proofs of the safety properties of VfioPciDevice for every set of       *)
(* devices, groups, users and files: IndInv is inductive (one lemma for    *)
(* each of its parts, with one step for each operation), and the           *)
(* properties follow from it.                                              *)
(***************************************************************************)
EXTENDS VfioPciDevice, FiniteSetTheorems, TLAPS

(* Counting the files of a set: one more,                                  *)
LEMMA AddFile ==
    ASSUME NEW S \in SUBSET File, NEW f \in File, f \notin S
    PROVE  Cardinality(S \cup {f}) = Cardinality(S) + 1
<1>1. IsFiniteSet(S)
  BY FS_Subset, FileAssumption
<1> QED
  BY <1>1, FS_AddElement

(* one less,                                                               *)
LEMMA DropFile ==
    ASSUME NEW S \in SUBSET File, NEW f \in S
    PROVE  /\ Cardinality(S \ {f}) = Cardinality(S) - 1
           /\ Cardinality(S) > 0
<1>1. IsFiniteSet(S)
  BY FS_Subset, FileAssumption
<1>2. Cardinality(S \ {f}) = Cardinality(S) - 1
  BY <1>1, FS_RemoveElement
<1>3. Cardinality(S) \in Nat /\ (Cardinality(S) = 0 <=> S = {})
  BY <1>1, FS_CardinalityType, FS_EmptySet
<1> QED
  BY <1>2, <1>3

(* none, and exactly one.                                                  *)
LEMMA CountFiles ==
    ASSUME NEW S \in SUBSET File
    PROVE  /\ Cardinality(S) \in Nat
           /\ Cardinality(S) = 0 <=> S = {}
           /\ Cardinality(S) = 1 => \E f \in S : S = {f}
<1>1. IsFiniteSet(S)
  BY FS_Subset, FileAssumption
<1> QED
  BY <1>1, FS_CardinalityType, FS_EmptySet, FS_Singleton

(* The control points, the frame conditions and what every action does.    *)
USE DEF Goto, Leave, Present, Locked, Waiting, Opened, Critical, PCs,
        devVars, fileVars, modVars

(* A device is counted as used exactly while a file has it open, and a     *)
(* count other than one means that another file has it open too.           *)
LEMMA InUse ==
    ASSUME IndInv, NEW d \in Device
    PROVE  /\ refcnt[d] \in Nat
           /\ refcnt[d] > 0 <=> \E f \in File : dev[f] = d /\ pc[f] \in Opened
           /\ \A f \in File :
                dev[f] = d /\ pc[f] \in Opened /\ refcnt[d] # 1 =>
                    \E e \in File : e # f /\ dev[e] = d /\ pc[e] \in Opened
<1>1. OpenFiles(d) \in SUBSET File
  BY DEF OpenFiles
<1>2. refcnt[d] = Cardinality(OpenFiles(d)) /\ refcnt[d] \in Nat
  BY DEF IndInv, TypeOK, CountsOK, RefcntCountsFiles
<1>3. refcnt[d] > 0 <=> OpenFiles(d) # {}
  BY <1>1, <1>2, CountFiles
<1>4. ASSUME NEW f \in OpenFiles(d), refcnt[d] # 1
      PROVE  \E e \in OpenFiles(d) : e # f
  <2>1. Cardinality(OpenFiles(d) \ {f}) # 0
    BY <1>1, <1>2, <1>4, DropFile
  <2> QED
    BY <2>1, <1>1, CountFiles
<1> QED
  BY <1>2, <1>3, <1>4 DEF OpenFiles

(* The module is referenced while a thread is past try_module_get.         *)
LEMMA InModule ==
    ASSUME IndInv
    PROVE  /\ modrefs \in Nat
           /\ \A f \in File : pc[f] \notin {"closed", "entry"} => modrefs > 0
<1>1. ModuleFiles \in SUBSET File
  BY DEF ModuleFiles
<1> QED
  BY <1>1, DropFile DEF IndInv, TypeOK, CountsOK, ModuleRefsCounted, ModuleFiles

(* A reset cleans and wakes the devices it reaches and no others.          *)
LEMMA ResetEffect ==
    ASSUME FlagsOK, NEW S, Reset(S)
    PROVE  /\ dirty' \in [Device -> BOOLEAN]
           /\ power' \in [Device -> {"D0", "D3hot"}]
           /\ \A d \in Device : dirty'[d] => dirty[d] /\ d \notin S
           /\ \A d \in Device : power[d] = "D0" => power'[d] = "D0"
  BY DEF FlagsOK, Reset

(* A step that opens and releases nothing keeps refcnt right.              *)
LEMMA SameCount ==
    ASSUME IndInv, refcnt' = refcnt,
           \A d \in Device : OpenFiles(d)' = OpenFiles(d)
    PROVE  RefcntCountsFiles'
  BY DEF IndInv, RefcntCountsFiles

(* So does one that opens a file and counts it.                            *)
LEMMA CountUp ==
    ASSUME IndInv, NEW f \in File, NEW d \in Device,
           f \notin OpenFiles(d),
           OpenFiles(d)' = OpenFiles(d) \cup {f},
           \A e \in Device \ {d} : OpenFiles(e)' = OpenFiles(e),
           refcnt' = [refcnt EXCEPT ![d] = @ + 1]
    PROVE  RefcntCountsFiles'
<1>1. Cardinality(OpenFiles(d) \cup {f}) = Cardinality(OpenFiles(d)) + 1
  BY AddFile DEF OpenFiles
<1> QED
  BY <1>1 DEF IndInv, TypeOK, CountsOK, RefcntCountsFiles

(* So does one that releases a file and no longer counts it.               *)
LEMMA CountDown ==
    ASSUME IndInv, NEW f \in File, NEW d \in Device,
           f \in OpenFiles(d),
           OpenFiles(d)' = OpenFiles(d) \ {f},
           \A e \in Device \ {d} : OpenFiles(e)' = OpenFiles(e),
           refcnt' = [refcnt EXCEPT ![d] = @ - 1]
    PROVE  RefcntCountsFiles'
<1>1. Cardinality(OpenFiles(d) \ {f}) = Cardinality(OpenFiles(d)) - 1
  BY DropFile DEF OpenFiles
<1> QED
  BY <1>1 DEF IndInv, TypeOK, CountsOK, RefcntCountsFiles

(* A thread that leaves gives its reference to the module back.            *)
LEMMA LeaveModule ==
    ASSUME IndInv, NEW f \in ModuleFiles,
           ModuleFiles' = ModuleFiles \ {f},
           modrefs' = modrefs - 1, module' = module
    PROVE  ModuleRefsCounted'
<1>1. /\ Cardinality(ModuleFiles \ {f}) = Cardinality(ModuleFiles) - 1
      /\ Cardinality(ModuleFiles) > 0
  BY DropFile DEF ModuleFiles
<1> QED
  BY <1>1 DEF IndInv, ModuleRefsCounted

(* The locks, groups and local variables keep their types.                 *)
LEMMA ThreadsStep ==
    ASSUME IndInv, [Next]_vars
    PROVE  ThreadsOK'
<1> USE DEF IndInv, TypeOK, ThreadsOK
<1>1. ASSUME NEW f \in File, Open(f) PROVE ThreadsOK'
  BY <1>1, FileAssumption, DeviceAssumption, UserAssumption DEF Open,
     OpenTryModuleGet, OpenAgain, OpenFirst
<1>2. ASSUME NEW f \in File, Enable(f) PROVE ThreadsOK'
  BY <1>2, FileAssumption, DeviceAssumption, UserAssumption DEF Enable,
     EnableReset, EnableDone, EnableConfigFails, EnableIgdFails
<1>3. ASSUME NEW f \in File, Release(f) PROVE ThreadsOK'
  BY <1>3, FileAssumption, DeviceAssumption, UserAssumption DEF Release,
     ReleaseAgain, ReleaseLast
<1>4. ASSUME NEW f \in File, DisableFaults(f) PROVE ThreadsOK'
  BY <1>4, FileAssumption, DeviceAssumption, UserAssumption DEF DisableFaults
<1>5. ASSUME NEW f \in File, Disable(f) PROVE ThreadsOK'
  BY <1>5, FileAssumption, DeviceAssumption, UserAssumption DEF Disable
<1>6. ASSUME NEW f \in File, BusCollect(f) PROVE ThreadsOK'
  BY <1>6, FileAssumption, DeviceAssumption, UserAssumption DEF BusCollect,
     Affected
<1>7. ASSUME NEW f \in File, BusJudge(f) PROVE ThreadsOK'
  <2>1. PICK done \in BOOLEAN :
           /\ ok' = [ok EXCEPT ![f] = done]
           /\ Reset(IF done THEN Affected(dev[f]) ELSE {})
    BY <1>7 DEF BusJudge, Outcome
  <2> QED
    BY <1>7, <2>1 DEF BusJudge
<1>8. ASSUME NEW f \in File, BusPut(f) PROVE ThreadsOK'
  BY <1>8, FileAssumption, DeviceAssumption, UserAssumption DEF BusPut
<1>9. ASSUME NEW f \in File, Ioctl(f) PROVE ThreadsOK'
  BY <1>9, FileAssumption, DeviceAssumption, UserAssumption DEF Ioctl,
     DeviceReset, HotReset, HotResetPut, HotResetGet
<1>10. ASSUME NEW d \in Device, Core(d) PROVE ThreadsOK'
  BY <1>10, FileAssumption, DeviceAssumption, UserAssumption DEF Core,
     ProbeStart, ProbeEnd, RemoveStart, RemoveEnd
<1>11. ASSUME NEW d \in Device, Host(d) PROVE ThreadsOK'
  BY <1>11, FileAssumption, DeviceAssumption, UserAssumption DEF Host,
     BindHost, UnbindHost
<1>12. ASSUME NEW f \in File,
              Use(f) \/ PutDeviceFd(f) \/
              (\E d \in Device : GetDeviceFd(f, d))
       PROVE  ThreadsOK'
  BY <1>12, FileAssumption, DeviceAssumption, UserAssumption DEF Use,
     PutDeviceFd, GetDeviceFd
<1>13. ASSUME NEW g \in Group,
              CloseGroup(g) \/ (\E u \in User : OpenGroup(u, g))
       PROVE  ThreadsOK'
  BY <1>13, FileAssumption, DeviceAssumption, UserAssumption DEF CloseGroup,
     OpenGroup
<1>14. CASE Unload \/ UNCHANGED vars
  BY <1>14, FileAssumption, DeviceAssumption, UserAssumption DEF Unload, vars
<1> QED
  BY <1>1, <1>2, <1>3, <1>4, <1>5, <1>6, <1>7, <1>8, <1>9, <1>10, <1>11,
     <1>12, <1>13, <1>14 DEF Next, DisableAll

(* The state of each device keeps its type.                                *)
LEMMA FlagsStep ==
    ASSUME IndInv, [Next]_vars
    PROVE  FlagsOK'
<1> USE DEF IndInv, TypeOK, FlagsOK
<1>1. ASSUME NEW f \in File, Open(f) PROVE FlagsOK'
  BY <1>1, FileAssumption, DeviceAssumption, ResetEffect DEF Open,
     OpenTryModuleGet, OpenAgain, OpenFirst
<1>2. ASSUME NEW f \in File, EnableReset(f) PROVE FlagsOK'
  <2>1. PICK works \in BOOLEAN :
           /\ reset_works' = [reset_works EXCEPT ![dev[f]] = works]
           /\ Reset(IF works THEN {dev[f]} ELSE {})
    BY <1>2 DEF EnableReset, Outcome
  <2> QED
    BY <1>2, <2>1, ResetEffect DEF EnableReset
<1>3. ASSUME NEW f \in File, EnableDone(f) PROVE FlagsOK'
  BY <1>3, FileAssumption, DeviceAssumption, ResetEffect DEF EnableDone
<1>4. ASSUME NEW f \in File, EnableConfigFails(f) PROVE FlagsOK'
  BY <1>4, FileAssumption, DeviceAssumption, ResetEffect DEF EnableConfigFails
<1>5. ASSUME NEW f \in File, EnableIgdFails(f) PROVE FlagsOK'
  BY <1>5, FileAssumption, DeviceAssumption, ResetEffect DEF EnableIgdFails
<1>6. ASSUME NEW f \in File, Release(f) PROVE FlagsOK'
  BY <1>6, FileAssumption, DeviceAssumption, ResetEffect DEF Release,
     ReleaseAgain, ReleaseLast
<1>7. ASSUME NEW f \in File, DisableFaults(f) PROVE FlagsOK'
  BY <1>7, FileAssumption, DeviceAssumption, ResetEffect DEF DisableFaults
<1>8. ASSUME NEW f \in File, Disable(f) PROVE FlagsOK'
  BY <1>8, FileAssumption, DeviceAssumption, ResetEffect DEF Disable, Outcome
<1>9. ASSUME NEW f \in File, BusCollect(f) PROVE FlagsOK'
  BY <1>9, FileAssumption, DeviceAssumption, ResetEffect DEF BusCollect
<1>10. ASSUME NEW f \in File, BusJudge(f) PROVE FlagsOK'
  BY <1>10, FileAssumption, DeviceAssumption, ResetEffect DEF BusJudge,
     Outcome
<1>11. ASSUME NEW f \in File, BusPut(f) PROVE FlagsOK'
  BY <1>11, FileAssumption, DeviceAssumption, ResetEffect DEF BusPut
<1>12. ASSUME NEW f \in File, DeviceReset(f) PROVE FlagsOK'
  BY <1>12, FileAssumption, DeviceAssumption, ResetEffect DEF DeviceReset
<1>13. ASSUME NEW f \in File, HotReset(f) PROVE FlagsOK'
  BY <1>13, FileAssumption, DeviceAssumption, ResetEffect DEF HotReset
<1>14. ASSUME NEW f \in File, HotResetPut(f) PROVE FlagsOK'
  BY <1>14, FileAssumption, DeviceAssumption, ResetEffect DEF HotResetPut
<1>15. ASSUME NEW f \in File,
              \E S \in SUBSET Group : HotResetGet(f, S)
       PROVE  FlagsOK'
  BY <1>15, FileAssumption, DeviceAssumption, ResetEffect DEF HotResetGet
<1>16. ASSUME NEW d \in Device, ProbeStart(d) PROVE FlagsOK'
  BY <1>16, FileAssumption, DeviceAssumption, ResetEffect DEF ProbeStart
<1>17. ASSUME NEW d \in Device, ProbeEnd(d) PROVE FlagsOK'
  BY <1>17, FileAssumption, DeviceAssumption, ResetEffect DEF ProbeEnd
<1>18. ASSUME NEW d \in Device, RemoveStart(d) PROVE FlagsOK'
  BY <1>18, FileAssumption, DeviceAssumption, ResetEffect DEF RemoveStart
<1>19. ASSUME NEW d \in Device, RemoveEnd(d) PROVE FlagsOK'
  BY <1>19, FileAssumption, DeviceAssumption, ResetEffect DEF RemoveEnd
<1>20. ASSUME NEW d \in Device, Host(d) PROVE FlagsOK'
  <2>1. CASE BindHost(d)
    BY <2>1 DEF BindHost
  <2>2. CASE UnbindHost(d)
    BY <2>2 DEF UnbindHost
  <2> QED
    BY <1>20, <2>1, <2>2 DEF Host
<1>21. ASSUME NEW f \in File,
              Use(f) \/ PutDeviceFd(f) \/
              (\E d \in Device : GetDeviceFd(f, d))
       PROVE  FlagsOK'
  <2>1. CASE Use(f)
    BY <2>1 DEF Use
  <2>2. CASE PutDeviceFd(f)
    BY <2>2 DEF PutDeviceFd
  <2>3. CASE \E d \in Device : GetDeviceFd(f, d)
    BY <2>3 DEF GetDeviceFd
  <2> QED
    BY <1>21, <2>1, <2>2, <2>3
<1>22. ASSUME NEW g \in Group,
              CloseGroup(g) \/ (\E u \in User : OpenGroup(u, g))
       PROVE  FlagsOK'
  BY <1>22, FileAssumption, DeviceAssumption, ResetEffect DEF CloseGroup,
     OpenGroup
<1>23. CASE Unload \/ UNCHANGED vars
  BY <1>23, FileAssumption, DeviceAssumption, ResetEffect DEF Unload, vars
<1> QED
  BY <1>1, <1>2, <1>3, <1>4, <1>5, <1>6, <1>7, <1>8, <1>9, <1>10, <1>11,
     <1>12, <1>13, <1>14, <1>15, <1>16, <1>17, <1>18, <1>19, <1>20, <1>21,
     <1>22, <1>23 DEF Next, Enable, DisableAll, Ioctl, Core

(* No count goes below zero: what is given back was taken.                 *)
LEMMA CountsStep ==
    ASSUME IndInv, [Next]_vars
    PROVE  CountsOK'
<1> USE DEF IndInv, TypeOK, CountsOK, UseInv, ThreadsOK, LocalInv
<1>1. ASSUME NEW f \in File, Open(f) PROVE CountsOK'
  BY <1>1, FileAssumption, DeviceAssumption, InUse, InModule DEF Open,
     OpenTryModuleGet, OpenAgain, OpenFirst
<1>2. ASSUME NEW f \in File, EnableReset(f) PROVE CountsOK'
  BY <1>2, FileAssumption, DeviceAssumption, InUse, InModule DEF EnableReset
<1>3. ASSUME NEW f \in File, EnableDone(f) PROVE CountsOK'
  BY <1>3, FileAssumption, DeviceAssumption, InUse, InModule DEF EnableDone
<1>4. ASSUME NEW f \in File, EnableConfigFails(f) PROVE CountsOK'
  BY <1>4, FileAssumption, DeviceAssumption, InUse, InModule DEF
     EnableConfigFails
<1>5. ASSUME NEW f \in File, EnableIgdFails(f) PROVE CountsOK'
  BY <1>5, FileAssumption, DeviceAssumption, InUse, InModule DEF
     EnableIgdFails
<1>6. ASSUME NEW f \in File, Release(f) PROVE CountsOK'
  BY <1>6, FileAssumption, DeviceAssumption, InUse, InModule DEF Release,
     ReleaseAgain, ReleaseLast
<1>7. ASSUME NEW f \in File, DisableFaults(f) PROVE CountsOK'
  BY <1>7, FileAssumption, DeviceAssumption, InUse, InModule DEF DisableFaults
<1>8. ASSUME NEW f \in File, Disable(f) PROVE CountsOK'
  BY <1>8, FileAssumption, DeviceAssumption, InUse, InModule DEF Disable
<1>9. ASSUME NEW f \in File, BusCollect(f) PROVE CountsOK'
  BY <1>9, FileAssumption, DeviceAssumption, InUse, InModule DEF BusCollect
<1>10. ASSUME NEW f \in File, BusJudge(f) PROVE CountsOK'
  BY <1>10, FileAssumption, DeviceAssumption, InUse, InModule DEF BusJudge
<1>11. ASSUME NEW f \in File, BusPut(f) PROVE CountsOK'
  BY <1>11, FileAssumption, DeviceAssumption, InUse, InModule DEF BusPut
<1>12. ASSUME NEW f \in File, Ioctl(f) PROVE CountsOK'
  BY <1>12, FileAssumption, DeviceAssumption, InUse, InModule DEF Ioctl,
     DeviceReset, HotReset, HotResetPut, HotResetGet
<1>13. ASSUME NEW d \in Device, Core(d) PROVE CountsOK'
  BY <1>13, FileAssumption, DeviceAssumption, InUse, InModule DEF Core,
     ProbeStart, ProbeEnd, RemoveStart, RemoveEnd
<1>14. ASSUME NEW d \in Device, Host(d) PROVE CountsOK'
  BY <1>14, FileAssumption, DeviceAssumption, InUse, InModule DEF Host,
     BindHost, UnbindHost
<1>15. ASSUME NEW f \in File,
              Use(f) \/ PutDeviceFd(f) \/
              (\E d \in Device : GetDeviceFd(f, d))
       PROVE  CountsOK'
  BY <1>15, FileAssumption, DeviceAssumption, InUse, InModule DEF Use,
     PutDeviceFd, GetDeviceFd
<1>16. ASSUME NEW g \in Group,
              CloseGroup(g) \/ (\E u \in User : OpenGroup(u, g))
       PROVE  CountsOK'
  BY <1>16, FileAssumption, DeviceAssumption, InUse, InModule DEF CloseGroup,
     OpenGroup
<1>17. CASE Unload \/ UNCHANGED vars
  BY <1>17, FileAssumption, DeviceAssumption, InUse, InModule DEF Unload, vars
<1> QED
  BY <1>1, <1>2, <1>3, <1>4, <1>5, <1>6, <1>7, <1>8, <1>9, <1>10, <1>11,
     <1>12, <1>13, <1>14, <1>15, <1>16, <1>17 DEF Next, Enable, DisableAll

(* A thread is in a critical section exactly while it has driver_lock.     *)
LEMMA LockStep ==
    ASSUME IndInv, [Next]_vars
    PROVE  LockInv'
<1> USE DEF IndInv, TypeOK, ThreadsOK, LockInv
<1>1. ASSUME NEW f \in File, Open(f) PROVE LockInv'
  BY <1>1, FileAssumption, DeviceAssumption DEF Open, OpenTryModuleGet,
     OpenAgain, OpenFirst
<1>2. ASSUME NEW f \in File, Enable(f) PROVE LockInv'
  BY <1>2, FileAssumption, DeviceAssumption DEF Enable, EnableReset,
     EnableDone, EnableConfigFails, EnableIgdFails
<1>3. ASSUME NEW f \in File, Release(f) PROVE LockInv'
  BY <1>3, FileAssumption, DeviceAssumption DEF Release, ReleaseAgain,
     ReleaseLast
<1>4. ASSUME NEW f \in File, DisableFaults(f) PROVE LockInv'
  BY <1>4, FileAssumption, DeviceAssumption DEF DisableFaults
<1>5. ASSUME NEW f \in File, Disable(f) PROVE LockInv'
  BY <1>5, FileAssumption, DeviceAssumption DEF Disable
<1>6. ASSUME NEW f \in File, BusCollect(f) PROVE LockInv'
  BY <1>6, FileAssumption, DeviceAssumption DEF BusCollect
<1>7. ASSUME NEW f \in File, BusJudge(f) PROVE LockInv'
  BY <1>7, FileAssumption, DeviceAssumption DEF BusJudge
<1>8. ASSUME NEW f \in File, BusPut(f) PROVE LockInv'
  BY <1>8, FileAssumption, DeviceAssumption DEF BusPut
<1>9. ASSUME NEW f \in File, Ioctl(f) PROVE LockInv'
  BY <1>9, FileAssumption, DeviceAssumption DEF Ioctl, DeviceReset, HotReset,
     HotResetPut, HotResetGet
<1>10. ASSUME NEW d \in Device, Core(d) PROVE LockInv'
  BY <1>10, FileAssumption, DeviceAssumption DEF Core, ProbeStart, ProbeEnd,
     RemoveStart, RemoveEnd
<1>11. ASSUME NEW d \in Device, Host(d) PROVE LockInv'
  BY <1>11, FileAssumption, DeviceAssumption DEF Host, BindHost, UnbindHost
<1>12. ASSUME NEW f \in File,
              Use(f) \/ PutDeviceFd(f) \/
              (\E d \in Device : GetDeviceFd(f, d))
       PROVE  LockInv'
  BY <1>12, FileAssumption, DeviceAssumption DEF Use, PutDeviceFd, GetDeviceFd
<1>13. ASSUME NEW g \in Group,
              CloseGroup(g) \/ (\E u \in User : OpenGroup(u, g))
       PROVE  LockInv'
  BY <1>13, FileAssumption, DeviceAssumption DEF CloseGroup, OpenGroup
<1>14. CASE Unload \/ UNCHANGED vars
  BY <1>14, FileAssumption, DeviceAssumption DEF Unload, vars
<1> QED
  BY <1>1, <1>2, <1>3, <1>4, <1>5, <1>6, <1>7, <1>8, <1>9, <1>10, <1>11,
     <1>12, <1>13, <1>14 DEF Next, DisableAll

(* The local variables of a thread are set where they should be.           *)
LEMMA LocalStep ==
    ASSUME IndInv, [Next]_vars
    PROVE  LocalInv'
<1> USE DEF IndInv, TypeOK, ThreadsOK, LocalInv
<1>1. ASSUME NEW f \in File, Open(f) PROVE LocalInv'
  BY <1>1, FileAssumption, DeviceAssumption DEF Open, OpenTryModuleGet,
     OpenAgain, OpenFirst
<1>2. ASSUME NEW f \in File, Enable(f) PROVE LocalInv'
  BY <1>2, FileAssumption, DeviceAssumption DEF Enable, EnableReset,
     EnableDone, EnableConfigFails, EnableIgdFails
<1>3. ASSUME NEW f \in File, Release(f) PROVE LocalInv'
  BY <1>3, FileAssumption, DeviceAssumption DEF Release, ReleaseAgain,
     ReleaseLast
<1>4. ASSUME NEW f \in File, DisableFaults(f) PROVE LocalInv'
  BY <1>4, FileAssumption, DeviceAssumption DEF DisableFaults
<1>5. ASSUME NEW f \in File, Disable(f) PROVE LocalInv'
  BY <1>5, FileAssumption, DeviceAssumption DEF Disable
<1>6. ASSUME NEW f \in File, BusCollect(f) PROVE LocalInv'
  BY <1>6, FileAssumption, DeviceAssumption DEF BusCollect
<1>7. ASSUME NEW f \in File, BusJudge(f) PROVE LocalInv'
  BY <1>7, FileAssumption, DeviceAssumption DEF BusJudge
<1>8. ASSUME NEW f \in File, BusPut(f) PROVE LocalInv'
  BY <1>8, FileAssumption, DeviceAssumption DEF BusPut
<1>9. ASSUME NEW f \in File, Ioctl(f) PROVE LocalInv'
  BY <1>9, FileAssumption, DeviceAssumption DEF Ioctl, DeviceReset, HotReset,
     HotResetPut, HotResetGet
<1>10. ASSUME NEW d \in Device, Core(d) PROVE LocalInv'
  BY <1>10, FileAssumption, DeviceAssumption DEF Core, ProbeStart, ProbeEnd,
     RemoveStart, RemoveEnd
<1>11. ASSUME NEW d \in Device, Host(d) PROVE LocalInv'
  BY <1>11, FileAssumption, DeviceAssumption DEF Host, BindHost, UnbindHost
<1>12. ASSUME NEW f \in File,
              Use(f) \/ PutDeviceFd(f) \/
              (\E d \in Device : GetDeviceFd(f, d))
       PROVE  LocalInv'
  BY <1>12, FileAssumption, DeviceAssumption DEF Use, PutDeviceFd, GetDeviceFd
<1>13. ASSUME NEW g \in Group,
              CloseGroup(g) \/ (\E u \in User : OpenGroup(u, g))
       PROVE  LocalInv'
  BY <1>13, FileAssumption, DeviceAssumption DEF CloseGroup, OpenGroup
<1>14. CASE Unload \/ UNCHANGED vars
  BY <1>14, FileAssumption, DeviceAssumption DEF Unload, vars
<1> QED
  BY <1>1, <1>2, <1>3, <1>4, <1>5, <1>6, <1>7, <1>8, <1>9, <1>10, <1>11,
     <1>12, <1>13, <1>14 DEF Next, DisableAll

(* Each step moves refcnt with the set of files that have the device open. *)
LEMMA RefcntStep ==
    ASSUME IndInv, [Next]_vars
    PROVE  RefcntCountsFiles'
<1> USE DEF IndInv, TypeOK, ThreadsOK, OpenFiles
<1>1. ASSUME NEW f \in File,
             OpenTryModuleGet(f) \/ OpenFirst(f) \/ EnableReset(f) \/
             EnableConfigFails(f) \/ EnableIgdFails(f)
      PROVE  RefcntCountsFiles'
  <2>1. refcnt' = refcnt /\ \A d \in Device : OpenFiles(d)' = OpenFiles(d)
    BY <1>1, DeviceAssumption DEF OpenTryModuleGet, OpenFirst, EnableReset,
     EnableConfigFails, EnableIgdFails
  <2> QED
    BY <2>1, SameCount
<1>2. ASSUME NEW f \in File, OpenAgain(f) PROVE RefcntCountsFiles'
  <2>1. PICK d \in Device : d = dev[f]
    BY <1>2 DEF LocalInv, OpenAgain
  <2>2. /\ f \notin OpenFiles(d)
        /\ OpenFiles(d)' = OpenFiles(d) \cup {f}
        /\ \A e \in Device \ {d} : OpenFiles(e)' = OpenFiles(e)
    BY <1>2, <2>1 DEF OpenAgain
  <2>3. refcnt' = [refcnt EXCEPT ![d] = @ + 1]
    BY <1>2, <2>1 DEF OpenAgain
  <2> HIDE DEF IndInv, OpenFiles
  <2> QED
    BY <2>2, <2>3, CountUp
<1>3. ASSUME NEW f \in File, EnableDone(f) PROVE RefcntCountsFiles'
  <2>1. PICK d \in Device : d = dev[f]
    BY <1>3 DEF LocalInv, EnableDone
  <2>2. /\ f \notin OpenFiles(d)
        /\ OpenFiles(d)' = OpenFiles(d) \cup {f}
        /\ \A e \in Device \ {d} : OpenFiles(e)' = OpenFiles(e)
    BY <1>3, <2>1 DEF EnableDone
  <2>3. refcnt' = [refcnt EXCEPT ![d] = @ + 1]
    BY <1>3, <2>1 DEF EnableDone
  <2> HIDE DEF IndInv, OpenFiles
  <2> QED
    BY <2>2, <2>3, CountUp
<1>4. ASSUME NEW f \in File, ReleaseAgain(f) PROVE RefcntCountsFiles'
  <2>1. PICK d \in Device : d = dev[f]
    BY <1>4 DEF LocalInv, ReleaseAgain
  <2>2. /\ f \in OpenFiles(d)
        /\ OpenFiles(d)' = OpenFiles(d) \ {f}
        /\ \A e \in Device \ {d} : OpenFiles(e)' = OpenFiles(e)
    BY <1>4, <2>1, DeviceAssumption DEF ReleaseAgain
  <2>3. refcnt' = [refcnt EXCEPT ![d] = @ - 1]
    BY <1>4, <2>1 DEF ReleaseAgain
  <2> HIDE DEF IndInv, OpenFiles
  <2> QED
    BY <2>2, <2>3, CountDown
<1>5. ASSUME NEW f \in File, ReleaseLast(f) PROVE RefcntCountsFiles'
  <2>1. PICK d \in Device : d = dev[f]
    BY <1>5 DEF LocalInv, ReleaseLast
  <2>2. /\ f \in OpenFiles(d)
        /\ OpenFiles(d)' = OpenFiles(d) \ {f}
        /\ \A e \in Device \ {d} : OpenFiles(e)' = OpenFiles(e)
    BY <1>5, <2>1, DeviceAssumption DEF ReleaseLast
  <2>3. refcnt' = [refcnt EXCEPT ![d] = @ - 1]
    <3>1. refcnt[d] - 1 = 0
      BY <1>5, <2>1 DEF ReleaseLast
    <3> QED
      BY <1>5, <2>1, <3>1 DEF ReleaseLast
  <2> HIDE DEF IndInv, OpenFiles
  <2> QED
    BY <2>2, <2>3, CountDown
<1>6. ASSUME NEW f \in File,
             DisableFaults(f) \/ Disable(f) \/ BusCollect(f) \/
             BusJudge(f) \/ BusPut(f)
      PROVE  RefcntCountsFiles'
  <2>1. refcnt' = refcnt /\ \A d \in Device : OpenFiles(d)' = OpenFiles(d)
    <3>1. CASE DisableFaults(f)
      BY <3>1, DeviceAssumption DEF DisableFaults
    <3>2. CASE Disable(f)
      BY <3>2, DeviceAssumption DEF Disable
    <3>3. CASE BusCollect(f)
      BY <3>3, DeviceAssumption DEF BusCollect
    <3>4. CASE BusJudge(f)
      BY <3>4, DeviceAssumption DEF BusJudge
    <3>5. CASE BusPut(f)
      BY <3>5, DeviceAssumption DEF BusPut
    <3> QED
      BY <1>6, <3>1, <3>2, <3>3, <3>4, <3>5
  <2> QED
    BY <2>1, SameCount
<1>7. ASSUME NEW f \in File,
             Ioctl(f) \/ Use(f) \/ PutDeviceFd(f) \/
             (\E d \in Device : GetDeviceFd(f, d))
      PROVE  RefcntCountsFiles'
  <2>1. refcnt' = refcnt /\ \A d \in Device : OpenFiles(d)' = OpenFiles(d)
    BY <1>7, DeviceAssumption DEF Ioctl, DeviceReset, HotReset, HotResetPut,
     HotResetGet, Use, PutDeviceFd, GetDeviceFd
  <2> QED
    BY <2>1, SameCount
<1>8. ASSUME NEW d \in Device, ProbeStart(d) PROVE RefcntCountsFiles'
  <2>1. \A f \in File : dev[f] # d
    BY <1>8, DeviceAssumption DEF ProbeStart, HeldDevicesAlive
  <2>2. refcnt[d] = 0
    BY <2>1, InUse
  <2>3. refcnt' = refcnt /\ \A e \in Device : OpenFiles(e)' = OpenFiles(e)
    BY <1>8, <2>2 DEF ProbeStart, CountsOK
  <2> QED
    BY <2>3, SameCount
<1>9. ASSUME NEW d \in Device,
             ProbeEnd(d) \/ RemoveStart(d) \/ RemoveEnd(d) \/ Host(d)
      PROVE  RefcntCountsFiles'
  <2>1. refcnt' = refcnt /\ \A e \in Device : OpenFiles(e)' = OpenFiles(e)
    BY <1>9 DEF ProbeEnd, RemoveStart, RemoveEnd, Host, BindHost, UnbindHost
  <2> QED
    BY <2>1, SameCount
<1>10. ASSUME NEW g \in Group,
              CloseGroup(g) \/ (\E u \in User : OpenGroup(u, g))
       PROVE  RefcntCountsFiles'
  <2>1. refcnt' = refcnt /\ \A d \in Device : OpenFiles(d)' = OpenFiles(d)
    BY <1>10 DEF CloseGroup, OpenGroup
  <2> QED
    BY <2>1, SameCount
<1>11. CASE Unload \/ UNCHANGED vars
  <2>1. refcnt' = refcnt /\ \A d \in Device : OpenFiles(d)' = OpenFiles(d)
    BY <1>11 DEF Unload, vars
  <2> QED
    BY <2>1, SameCount
<1> QED
  BY <1>1, <1>2, <1>3, <1>4, <1>5, <1>6, <1>7, <1>8, <1>9, <1>10, <1>11 DEF
     Next, Open, Enable, Release, DisableAll, Core

(* Each step moves the module's count with the set of files it is for.     *)
LEMMA ModuleStep ==
    ASSUME IndInv, [Next]_vars
    PROVE  ModuleRefsCounted'
<1> USE DEF IndInv, TypeOK, ThreadsOK, ModuleFiles
<1>1. ASSUME NEW f \in File, OpenTryModuleGet(f) PROVE ModuleRefsCounted'
  <2>1. CASE module = "live"
    <3>1. /\ modrefs' = modrefs + 1 /\ module' = module
          /\ f \notin ModuleFiles /\ ModuleFiles' = ModuleFiles \cup {f}
      BY <1>1, <2>1 DEF OpenTryModuleGet
    <3>2. modrefs = Cardinality(ModuleFiles) /\ ModuleFiles \in SUBSET File
      BY DEF ModuleRefsCounted
    <3> QED
      BY <2>1, <3>1, <3>2, AddFile DEF ModuleRefsCounted
  <2>2. CASE module # "live"
    <3>1. modrefs' = modrefs /\ module' = module /\ ModuleFiles' = ModuleFiles
      BY <1>1, <2>2 DEF OpenTryModuleGet
    <3> QED
      BY <3>1 DEF ModuleRefsCounted
  <2> QED BY <2>1, <2>2
<1>2. ASSUME NEW f \in File,
             OpenAgain(f) \/ EnableReset(f) \/ EnableDone(f) \/
             EnableIgdFails(f)
      PROVE  ModuleRefsCounted'
  <2>1. modrefs' = modrefs /\ module' = module /\ ModuleFiles' = ModuleFiles
    BY <1>2 DEF OpenAgain, EnableReset, EnableDone, EnableIgdFails
  <2> QED
    BY <2>1 DEF ModuleRefsCounted
<1>3. ASSUME NEW f \in File, OpenFirst(f) PROVE ModuleRefsCounted'
  <2>1. CASE modrefs' = modrefs - 1 /\ pc' = [pc EXCEPT ![f] = "closed"]
    <3>1. f \in ModuleFiles /\ ModuleFiles' = ModuleFiles \ {f} /\ module' =
     module
      BY <1>3, <2>1 DEF OpenFirst
    <3> QED
      BY <2>1, <3>1, LeaveModule
  <2>2. CASE modrefs' = modrefs /\ pc' = [pc EXCEPT ![f] = "enable"]
    <3>1. module' = module /\ ModuleFiles' = ModuleFiles
      BY <1>3, <2>2 DEF OpenFirst
    <3> QED
      BY <2>2, <3>1 DEF ModuleRefsCounted
  <2> QED BY <1>3, <2>1, <2>2 DEF OpenFirst
<1>4. ASSUME NEW f \in File,
             EnableConfigFails(f) \/ ReleaseAgain(f) \/ BusPut(f)
      PROVE  ModuleRefsCounted'
  <2>1. f \in ModuleFiles /\ ModuleFiles' = ModuleFiles \ {f}
    BY <1>4 DEF EnableConfigFails, ReleaseAgain, BusPut
  <2>2. modrefs' = modrefs - 1 /\ module' = module
    BY <1>4 DEF EnableConfigFails, ReleaseAgain, BusPut
  <2> QED
    BY <2>1, <2>2, LeaveModule
<1>5. ASSUME NEW f \in File,
             ReleaseLast(f) \/ DisableFaults(f) \/ Disable(f) \/
             BusCollect(f) \/ BusJudge(f)
      PROVE  ModuleRefsCounted'
  <2>1. modrefs' = modrefs /\ module' = module /\ ModuleFiles' = ModuleFiles
    BY <1>5 DEF ReleaseLast, DisableFaults, Disable, BusCollect, BusJudge
  <2> QED
    BY <2>1 DEF ModuleRefsCounted
<1>6. ASSUME NEW f \in File,
             Ioctl(f) \/ Use(f) \/ PutDeviceFd(f) \/
             (\E d \in Device : GetDeviceFd(f, d))
      PROVE  ModuleRefsCounted'
  <2>1. modrefs' = modrefs /\ module' = module /\ ModuleFiles' = ModuleFiles
    BY <1>6 DEF Ioctl, DeviceReset, HotReset, HotResetPut, HotResetGet, Use,
     PutDeviceFd, GetDeviceFd
  <2> QED
    BY <2>1 DEF ModuleRefsCounted
<1>7. ASSUME NEW d \in Device, Core(d) \/ Host(d) PROVE ModuleRefsCounted'
  <2>1. modrefs' = modrefs /\ module' = module /\ ModuleFiles' = ModuleFiles
    BY <1>7 DEF Core, ProbeStart, ProbeEnd, RemoveStart, RemoveEnd, Host,
     BindHost, UnbindHost
  <2> QED
    BY <2>1 DEF ModuleRefsCounted
<1>8. ASSUME NEW g \in Group,
             CloseGroup(g) \/ (\E u \in User : OpenGroup(u, g))
      PROVE  ModuleRefsCounted'
  <2>1. modrefs' = modrefs /\ module' = module /\ ModuleFiles' = ModuleFiles
    BY <1>8 DEF CloseGroup, OpenGroup
  <2> QED
    BY <2>1 DEF ModuleRefsCounted
<1>9. CASE Unload
  <2>1. modrefs = 0 /\ modrefs' = 0 /\ ModuleFiles' = ModuleFiles
    BY <1>9 DEF Unload
  <2> QED
    BY <2>1 DEF ModuleRefsCounted
<1>10. CASE UNCHANGED vars
  <2>1. modrefs' = modrefs /\ module' = module /\ ModuleFiles' = ModuleFiles
    BY <1>10 DEF vars
  <2> QED
    BY <2>1 DEF ModuleRefsCounted
<1> QED
  BY <1>1, <1>2, <1>3, <1>4, <1>5, <1>6, <1>7, <1>8, <1>9, <1>10 DEF Next,
     Open, Enable, Release, DisableAll

(* A device is enabled while it is used, being opened or being released.   *)
LEMMA UseStep ==
    ASSUME IndInv, [Next]_vars
    PROVE  UseInv'
<1> USE DEF IndInv, TypeOK, CountsOK, UseInv, ThreadsOK, LocalInv, LockInv
<1>1. ASSUME NEW f \in File, Open(f) PROVE UseInv'
  BY <1>1, FileAssumption, DeviceAssumption, InUse DEF Open,
     OpenTryModuleGet, OpenAgain, OpenFirst
<1>2. ASSUME NEW f \in File, Enable(f) PROVE UseInv'
  BY <1>2, FileAssumption, DeviceAssumption, InUse DEF Enable, EnableReset,
     EnableDone, EnableConfigFails, EnableIgdFails
<1>3. ASSUME NEW f \in File, ReleaseAgain(f) PROVE UseInv'
  <2>1. PICK d \in Device : d = dev[f]
    BY <1>3 DEF ReleaseAgain
  <2>2. refcnt[d] > 1
    BY <1>3, <2>1, InUse DEF ReleaseAgain
  <2>3. refcnt' = [refcnt EXCEPT ![d] = @ - 1] /\ refcnt'[d] > 0
    BY <1>3, <2>1, <2>2 DEF ReleaseAgain
  <2> QED
    BY <1>3, <2>1, <2>2, <2>3, DeviceAssumption DEF ReleaseAgain
<1>4. ASSUME NEW f \in File, ReleaseLast(f) PROVE UseInv'
  BY <1>4, FileAssumption, DeviceAssumption, InUse DEF ReleaseLast
<1>5. ASSUME NEW f \in File, DisableFaults(f) PROVE UseInv'
  BY <1>5, FileAssumption, DeviceAssumption, InUse DEF DisableFaults
<1>6. ASSUME NEW f \in File, Disable(f) PROVE UseInv'
  BY <1>6, FileAssumption, DeviceAssumption, InUse DEF Disable
<1>7. ASSUME NEW f \in File, BusCollect(f) PROVE UseInv'
  BY <1>7, FileAssumption, DeviceAssumption, InUse DEF BusCollect
<1>8. ASSUME NEW f \in File, BusJudge(f) PROVE UseInv'
  BY <1>8, FileAssumption, DeviceAssumption, InUse DEF BusJudge
<1>9. ASSUME NEW f \in File, BusPut(f) PROVE UseInv'
  BY <1>9, FileAssumption, DeviceAssumption, InUse DEF BusPut
<1>10. ASSUME NEW f \in File, Ioctl(f) PROVE UseInv'
  BY <1>10, FileAssumption, DeviceAssumption, InUse DEF Ioctl, DeviceReset,
     HotReset, HotResetPut, HotResetGet
<1>11. ASSUME NEW d \in Device, ProbeStart(d) PROVE UseInv'
  <2>1. \A f \in File : dev[f] # d
    BY <1>11, DeviceAssumption DEF ProbeStart, HeldDevicesAlive
  <2>2. refcnt[d] = 0
    BY <2>1, InUse
  <2> QED
    BY <1>11, <2>1, <2>2 DEF ProbeStart
<1>12. ASSUME NEW d \in Device, ProbeEnd(d) PROVE UseInv'
  BY <1>12, FileAssumption, DeviceAssumption, InUse DEF ProbeEnd
<1>13. ASSUME NEW d \in Device, RemoveStart(d) PROVE UseInv'
  BY <1>13, FileAssumption, DeviceAssumption, InUse DEF RemoveStart
<1>14. ASSUME NEW d \in Device, RemoveEnd(d) PROVE UseInv'
  BY <1>14, FileAssumption, DeviceAssumption, InUse DEF RemoveEnd
<1>15. ASSUME NEW d \in Device, Host(d) PROVE UseInv'
  BY <1>15, FileAssumption, DeviceAssumption, InUse DEF Host, BindHost,
     UnbindHost
<1>16. ASSUME NEW f \in File,
              Use(f) \/ PutDeviceFd(f) \/
              (\E d \in Device : GetDeviceFd(f, d))
       PROVE  UseInv'
  BY <1>16, FileAssumption, DeviceAssumption, InUse DEF Use, PutDeviceFd,
     GetDeviceFd
<1>17. ASSUME NEW g \in Group,
              CloseGroup(g) \/ (\E u \in User : OpenGroup(u, g))
       PROVE  UseInv'
  BY <1>17, FileAssumption, DeviceAssumption, InUse DEF CloseGroup, OpenGroup
<1>18. CASE Unload \/ UNCHANGED vars
  BY <1>18, FileAssumption, DeviceAssumption, InUse DEF Unload, vars
<1> QED
  BY <1>1, <1>2, <1>3, <1>4, <1>5, <1>6, <1>7, <1>8, <1>9, <1>10, <1>11,
     <1>12, <1>13, <1>14, <1>15, <1>16, <1>17, <1>18 DEF Next, Release,
     DisableAll, Core

(* vfio_del_group_dev waits for the references a thread holds.             *)
LEMMA HeldStep ==
    ASSUME IndInv, [Next]_vars
    PROVE  HeldDevicesAlive'
<1> USE DEF IndInv, TypeOK, FlagsOK, ThreadsOK, LocalInv, HeldDevicesAlive
<1>1. ASSUME NEW f \in File, Open(f) PROVE HeldDevicesAlive'
  BY <1>1, FileAssumption, DeviceAssumption DEF Open, OpenTryModuleGet,
     OpenAgain, OpenFirst
<1>2. ASSUME NEW f \in File, Enable(f) PROVE HeldDevicesAlive'
  BY <1>2, FileAssumption, DeviceAssumption DEF Enable, EnableReset,
     EnableDone, EnableConfigFails, EnableIgdFails
<1>3. ASSUME NEW f \in File, Release(f) PROVE HeldDevicesAlive'
  BY <1>3, FileAssumption, DeviceAssumption DEF Release, ReleaseAgain,
     ReleaseLast
<1>4. ASSUME NEW f \in File, DisableFaults(f) PROVE HeldDevicesAlive'
  BY <1>4, FileAssumption, DeviceAssumption DEF DisableFaults
<1>5. ASSUME NEW f \in File, Disable(f) PROVE HeldDevicesAlive'
  BY <1>5, FileAssumption, DeviceAssumption DEF Disable
<1>6. ASSUME NEW f \in File, BusCollect(f) PROVE HeldDevicesAlive'
  BY <1>6, FileAssumption, DeviceAssumption DEF BusCollect
<1>7. ASSUME NEW f \in File, BusJudge(f) PROVE HeldDevicesAlive'
  BY <1>7, FileAssumption, DeviceAssumption DEF BusJudge
<1>8. ASSUME NEW f \in File, BusPut(f) PROVE HeldDevicesAlive'
  BY <1>8, FileAssumption, DeviceAssumption DEF BusPut
<1>9. ASSUME NEW f \in File, Ioctl(f) PROVE HeldDevicesAlive'
  BY <1>9, FileAssumption, DeviceAssumption DEF Ioctl, DeviceReset, HotReset,
     HotResetPut, HotResetGet
<1>10. ASSUME NEW d \in Device, Core(d) PROVE HeldDevicesAlive'
  BY <1>10, FileAssumption, DeviceAssumption DEF Core, ProbeStart, ProbeEnd,
     RemoveStart, RemoveEnd, Held
<1>11. ASSUME NEW d \in Device, Host(d) PROVE HeldDevicesAlive'
  BY <1>11, FileAssumption, DeviceAssumption DEF Host, BindHost, UnbindHost
<1>12. ASSUME NEW f \in File,
              Use(f) \/ PutDeviceFd(f) \/
              (\E d \in Device : GetDeviceFd(f, d))
       PROVE  HeldDevicesAlive'
  BY <1>12, FileAssumption, DeviceAssumption DEF Use, PutDeviceFd, GetDeviceFd
<1>13. ASSUME NEW g \in Group,
              CloseGroup(g) \/ (\E u \in User : OpenGroup(u, g))
       PROVE  HeldDevicesAlive'
  BY <1>13, FileAssumption, DeviceAssumption DEF CloseGroup, OpenGroup
<1>14. CASE Unload \/ UNCHANGED vars
  BY <1>14, FileAssumption, DeviceAssumption DEF Unload, vars
<1> QED
  BY <1>1, <1>2, <1>3, <1>4, <1>5, <1>6, <1>7, <1>8, <1>9, <1>10, <1>11,
     <1>12, <1>13, <1>14 DEF Next, DisableAll

(* A group does not change hands while a hot reset holds it.               *)
LEMMA GroupStep ==
    ASSUME IndInv, [Next]_vars
    PROVE  GroupInv'
<1> USE DEF IndInv, TypeOK, FlagsOK, ThreadsOK, LocalInv, GroupInv
<1>1. ASSUME NEW f \in File, Open(f) PROVE GroupInv'
  BY <1>1, FileAssumption, DeviceAssumption, UserAssumption DEF Open,
     OpenTryModuleGet, OpenAgain, OpenFirst
<1>2. ASSUME NEW f \in File, Enable(f) PROVE GroupInv'
  BY <1>2, FileAssumption, DeviceAssumption, UserAssumption DEF Enable,
     EnableReset, EnableDone, EnableConfigFails, EnableIgdFails
<1>3. ASSUME NEW f \in File, Release(f) PROVE GroupInv'
  BY <1>3, FileAssumption, DeviceAssumption, UserAssumption DEF Release,
     ReleaseAgain, ReleaseLast
<1>4. ASSUME NEW f \in File, DisableFaults(f) PROVE GroupInv'
  BY <1>4, FileAssumption, DeviceAssumption, UserAssumption DEF DisableFaults
<1>5. ASSUME NEW f \in File, Disable(f) PROVE GroupInv'
  BY <1>5, FileAssumption, DeviceAssumption, UserAssumption DEF Disable
<1>6. ASSUME NEW f \in File, BusCollect(f) PROVE GroupInv'
  BY <1>6, FileAssumption, DeviceAssumption, UserAssumption DEF BusCollect
<1>7. ASSUME NEW f \in File, BusJudge(f) PROVE GroupInv'
  BY <1>7, FileAssumption, DeviceAssumption, UserAssumption DEF BusJudge
<1>8. ASSUME NEW f \in File, BusPut(f) PROVE GroupInv'
  BY <1>8, FileAssumption, DeviceAssumption, UserAssumption DEF BusPut
<1>9. ASSUME NEW f \in File, Ioctl(f) PROVE GroupInv'
  BY <1>9, FileAssumption, DeviceAssumption, UserAssumption DEF Ioctl,
     DeviceReset, HotReset, HotResetPut, HotResetGet
<1>10. ASSUME NEW d \in Device, Core(d) PROVE GroupInv'
  BY <1>10, FileAssumption, DeviceAssumption, UserAssumption DEF Core,
     ProbeStart, ProbeEnd, RemoveStart, RemoveEnd
<1>11. ASSUME NEW d \in Device, Host(d) PROVE GroupInv'
  BY <1>11, FileAssumption, DeviceAssumption, UserAssumption DEF Host,
     BindHost, UnbindHost
<1>12. ASSUME NEW f \in File,
              Use(f) \/ PutDeviceFd(f) \/
              (\E d \in Device : GetDeviceFd(f, d))
       PROVE  GroupInv'
  BY <1>12, FileAssumption, DeviceAssumption, UserAssumption DEF Use,
     PutDeviceFd, GetDeviceFd
<1>13. ASSUME NEW g \in Group,
              CloseGroup(g) \/ (\E u \in User : OpenGroup(u, g))
       PROVE  GroupInv'
  BY <1>13, FileAssumption, DeviceAssumption, UserAssumption DEF CloseGroup,
     OpenGroup
<1>14. CASE Unload \/ UNCHANGED vars
  BY <1>14, FileAssumption, DeviceAssumption, UserAssumption DEF Unload, vars
<1> QED
  BY <1>1, <1>2, <1>3, <1>4, <1>5, <1>6, <1>7, <1>8, <1>9, <1>10, <1>11,
     <1>12, <1>13, <1>14 DEF Next, DisableAll

(* needs_reset is only cleared for devices that have been reset.           *)
LEMMA DirtyStep ==
    ASSUME IndInv, [Next]_vars
    PROVE  DirtyInv'
<1> USE DEF IndInv, TypeOK, FlagsOK, ThreadsOK, LocalInv, DirtyInv, UseInv,
     HeldDevicesAlive
<1>1. ASSUME NEW f \in File, OpenTryModuleGet(f) PROVE DirtyInv'
  BY <1>1, FileAssumption, DeviceAssumption, ResetEffect, InUse DEF
     OpenTryModuleGet
<1>2. ASSUME NEW f \in File, OpenAgain(f) PROVE DirtyInv'
  BY <1>2, FileAssumption, DeviceAssumption, ResetEffect, InUse DEF OpenAgain
<1>3. ASSUME NEW f \in File, OpenFirst(f) PROVE DirtyInv'
  BY <1>3, FileAssumption, DeviceAssumption, ResetEffect, InUse DEF OpenFirst
<1>4. ASSUME NEW f \in File, EnableReset(f) PROVE DirtyInv'
  BY <1>4, FileAssumption, DeviceAssumption, ResetEffect, InUse DEF
     EnableReset, Outcome
<1>5. ASSUME NEW f \in File, EnableDone(f) PROVE DirtyInv'
  BY <1>5, FileAssumption, DeviceAssumption, ResetEffect, InUse, SMTT(30) DEF EnableDone
<1>6. ASSUME NEW f \in File, EnableConfigFails(f) PROVE DirtyInv'
  BY <1>6, FileAssumption, DeviceAssumption, ResetEffect, InUse DEF
     EnableConfigFails
<1>7. ASSUME NEW f \in File, EnableIgdFails(f) PROVE DirtyInv'
  BY <1>7, FileAssumption, DeviceAssumption, ResetEffect, InUse DEF
     EnableIgdFails
<1>8. ASSUME NEW f \in File, ReleaseAgain(f) PROVE DirtyInv'
  BY <1>8, FileAssumption, DeviceAssumption, ResetEffect, InUse DEF
     ReleaseAgain
<1>9. ASSUME NEW f \in File, ReleaseLast(f) PROVE DirtyInv'
  BY <1>9, FileAssumption, DeviceAssumption, ResetEffect, InUse DEF
     ReleaseLast
<1>10. ASSUME NEW f \in File, DisableFaults(f) PROVE DirtyInv'
  BY <1>10, FileAssumption, DeviceAssumption, ResetEffect, InUse DEF
     DisableFaults
<1>11. ASSUME NEW f \in File, Disable(f) PROVE DirtyInv'
  BY <1>11, FileAssumption, DeviceAssumption, ResetEffect, InUse DEF Disable,
     Outcome
<1>12. ASSUME NEW f \in File, BusCollect(f) PROVE DirtyInv'
  BY <1>12, FileAssumption, DeviceAssumption, ResetEffect, InUse DEF
     BusCollect
<1>13. ASSUME NEW f \in File, BusJudge(f) PROVE DirtyInv'
  BY <1>13, FileAssumption, DeviceAssumption, ResetEffect, InUse, SMTT(60)
  DEF BusJudge, Outcome
<1>14. ASSUME NEW f \in File, BusPut(f) PROVE DirtyInv'
  BY <1>14, FileAssumption, DeviceAssumption, ResetEffect, InUse, SMTT(60)
  DEF BusPut, Cleared, CleanInv
<1>15. ASSUME NEW f \in File, DeviceReset(f) PROVE DirtyInv'
  BY <1>15, FileAssumption, DeviceAssumption, ResetEffect, InUse DEF
     DeviceReset
<1>16. ASSUME NEW f \in File, HotReset(f) PROVE DirtyInv'
  BY <1>16, FileAssumption, DeviceAssumption, ResetEffect, InUse DEF HotReset
<1>17. ASSUME NEW f \in File, HotResetPut(f) PROVE DirtyInv'
  BY <1>17, FileAssumption, DeviceAssumption, ResetEffect, InUse DEF
     HotResetPut
<1>18. ASSUME NEW f \in File,
              \E S \in SUBSET Group : HotResetGet(f, S)
       PROVE  DirtyInv'
  BY <1>18, FileAssumption, DeviceAssumption, ResetEffect, InUse DEF
     HotResetGet
<1>19. ASSUME NEW d \in Device, Core(d) PROVE DirtyInv'
  BY <1>19, FileAssumption, DeviceAssumption, ResetEffect, InUse DEF Core,
     ProbeStart, ProbeEnd, RemoveStart, RemoveEnd
<1>20. ASSUME NEW d \in Device, Host(d) PROVE DirtyInv'
  BY <1>20, FileAssumption, DeviceAssumption, ResetEffect, InUse DEF Host,
     BindHost, UnbindHost
<1>21. ASSUME NEW f \in File,
              Use(f) \/ PutDeviceFd(f) \/
              (\E d \in Device : GetDeviceFd(f, d))
       PROVE  DirtyInv'
  BY <1>21, FileAssumption, DeviceAssumption, ResetEffect, InUse DEF Use,
     PutDeviceFd, GetDeviceFd
<1>22. ASSUME NEW g \in Group,
              CloseGroup(g) \/ (\E u \in User : OpenGroup(u, g))
       PROVE  DirtyInv'
  BY <1>22, FileAssumption, DeviceAssumption, ResetEffect, InUse DEF
     CloseGroup, OpenGroup
<1>23. CASE Unload \/ UNCHANGED vars
  BY <1>23, FileAssumption, DeviceAssumption, ResetEffect, InUse DEF Unload,
     vars
<1> QED
  BY <1>1, <1>2, <1>3, <1>4, <1>5, <1>6, <1>7, <1>8, <1>9, <1>10, <1>11,
     <1>12, <1>13, <1>14, <1>15, <1>16, <1>17, <1>18, <1>19, <1>20, <1>21,
     <1>22, <1>23 DEF Next, Open, Enable, Release, DisableAll, Ioctl

(* No device is opened between its bus reset and put_devs.                 *)
LEMMA CleanStep ==
    ASSUME IndInv, [Next]_vars
    PROVE  CleanInv'
<1> USE DEF IndInv, TypeOK, FlagsOK, CountsOK, ThreadsOK, LocalInv, LockInv,
     CleanInv, HeldDevicesAlive
<1>1. ASSUME NEW f \in File, OpenTryModuleGet(f) PROVE CleanInv'
  BY <1>1, FileAssumption, DeviceAssumption, ResetEffect, InUse DEF
     OpenTryModuleGet
<1>2. ASSUME NEW f \in File, OpenAgain(f) PROVE CleanInv'
  BY <1>2, FileAssumption, DeviceAssumption, ResetEffect, InUse DEF OpenAgain
<1>3. ASSUME NEW f \in File, OpenFirst(f) PROVE CleanInv'
  BY <1>3, FileAssumption, DeviceAssumption, ResetEffect, InUse DEF OpenFirst
<1>4. ASSUME NEW f \in File, EnableReset(f) PROVE CleanInv'
  BY <1>4, FileAssumption, DeviceAssumption, ResetEffect, InUse DEF
     EnableReset, Outcome
<1>5. ASSUME NEW f \in File, EnableDone(f) PROVE CleanInv'
  BY <1>5, FileAssumption, DeviceAssumption, ResetEffect, InUse DEF EnableDone
<1>6. ASSUME NEW f \in File, EnableConfigFails(f) PROVE CleanInv'
  BY <1>6, FileAssumption, DeviceAssumption, ResetEffect, InUse DEF
     EnableConfigFails
<1>7. ASSUME NEW f \in File, EnableIgdFails(f) PROVE CleanInv'
  BY <1>7, FileAssumption, DeviceAssumption, ResetEffect, InUse DEF
     EnableIgdFails
<1>8. ASSUME NEW f \in File, Release(f) PROVE CleanInv'
  BY <1>8, FileAssumption, DeviceAssumption, ResetEffect, InUse DEF Release,
     ReleaseAgain, ReleaseLast
<1>9. ASSUME NEW f \in File, DisableFaults(f) PROVE CleanInv'
  BY <1>9, FileAssumption, DeviceAssumption, ResetEffect, InUse DEF
     DisableFaults
<1>10. ASSUME NEW f \in File, Disable(f) PROVE CleanInv'
  BY <1>10, FileAssumption, DeviceAssumption, ResetEffect, InUse DEF Disable,
     Outcome
<1>11. ASSUME NEW f \in File, BusCollect(f) PROVE CleanInv'
  BY <1>11, FileAssumption, DeviceAssumption, ResetEffect, InUse DEF
     BusCollect
<1>12. ASSUME NEW f \in File, BusJudge(f) PROVE CleanInv'
  BY <1>12, FileAssumption, DeviceAssumption, ResetEffect, InUse DEF
     BusJudge, Outcome, ResetDue
<1>13. ASSUME NEW f \in File, BusPut(f) PROVE CleanInv'
  BY <1>13, FileAssumption, DeviceAssumption, ResetEffect, InUse DEF BusPut
<1>14. ASSUME NEW f \in File, DeviceReset(f) PROVE CleanInv'
  BY <1>14, FileAssumption, DeviceAssumption, ResetEffect, InUse DEF
     DeviceReset
<1>15. ASSUME NEW f \in File, HotReset(f) PROVE CleanInv'
  BY <1>15, FileAssumption, DeviceAssumption, ResetEffect, InUse DEF HotReset
<1>16. ASSUME NEW f \in File, HotResetPut(f) PROVE CleanInv'
  BY <1>16, FileAssumption, DeviceAssumption, ResetEffect, InUse DEF
     HotResetPut
<1>17. ASSUME NEW f \in File,
              \E S \in SUBSET Group : HotResetGet(f, S)
       PROVE  CleanInv'
  BY <1>17, FileAssumption, DeviceAssumption, ResetEffect, InUse DEF
     HotResetGet
<1>18. ASSUME NEW d \in Device, Core(d) PROVE CleanInv'
  BY <1>18, FileAssumption, DeviceAssumption, ResetEffect, InUse DEF Core,
     ProbeStart, ProbeEnd, RemoveStart, RemoveEnd
<1>19. ASSUME NEW d \in Device, Host(d) PROVE CleanInv'
  BY <1>19, FileAssumption, DeviceAssumption, ResetEffect, InUse DEF Host,
     BindHost, UnbindHost
<1>20. ASSUME NEW f \in File,
              Use(f) \/ PutDeviceFd(f) \/
              (\E d \in Device : GetDeviceFd(f, d))
       PROVE  CleanInv'
  BY <1>20, FileAssumption, DeviceAssumption, ResetEffect, InUse DEF Use,
     PutDeviceFd, GetDeviceFd
<1>21. ASSUME NEW g \in Group,
              CloseGroup(g) \/ (\E u \in User : OpenGroup(u, g))
       PROVE  CleanInv'
  BY <1>21, FileAssumption, DeviceAssumption, ResetEffect, InUse DEF
     CloseGroup, OpenGroup
<1>22. CASE Unload \/ UNCHANGED vars
  BY <1>22, FileAssumption, DeviceAssumption, ResetEffect, InUse DEF Unload,
     vars
<1> QED
  BY <1>1, <1>2, <1>3, <1>4, <1>5, <1>6, <1>7, <1>8, <1>9, <1>10, <1>11,
     <1>12, <1>13, <1>14, <1>15, <1>16, <1>17, <1>18, <1>19, <1>20, <1>21,
     <1>22 DEF Next, Open, Enable, DisableAll, Ioctl

(* The invariant holds when the driver is loaded and its devices probed.   *)
LEMMA InitInv == Init => IndInv
<1> SUFFICES ASSUME Init PROVE IndInv
  OBVIOUS
<1>1. TypeOK
  BY DEF Init, TypeOK, FlagsOK, CountsOK, ThreadsOK
<1>2. LockInv /\ LocalInv
  BY FileAssumption, DeviceAssumption DEF Init, LockInv, LocalInv
<1>3. RefcntCountsFiles
  <2>1. \A d \in Device : OpenFiles(d) = {}
    BY DEF Init, OpenFiles
  <2> QED
    BY <2>1, FS_EmptySet DEF Init, RefcntCountsFiles
<1>4. ModuleRefsCounted
  <2>1. ModuleFiles = {}
    BY DEF Init, ModuleFiles
  <2> QED
    BY <2>1, FS_EmptySet DEF Init, ModuleRefsCounted
<1>5. UseInv /\ HeldDevicesAlive
  BY DEF Init, UseInv, HeldDevicesAlive
<1>6. GroupInv /\ DirtyInv /\ CleanInv
  BY DEF Init, GroupInv, DirtyInv, CleanInv
<1> QED
  BY <1>1, <1>2, <1>3, <1>4, <1>5, <1>6 DEF IndInv

(* Every step of every thread preserves it.                                *)
LEMMA StepInv == IndInv /\ [Next]_vars => IndInv'
<1> SUFFICES ASSUME IndInv, [Next]_vars PROVE IndInv'
  OBVIOUS
<1>1. TypeOK'
  BY FlagsStep, CountsStep, ThreadsStep DEF TypeOK
<1>2. LockInv' /\ LocalInv'
  BY LockStep, LocalStep
<1>3. RefcntCountsFiles' /\ ModuleRefsCounted'
  BY RefcntStep, ModuleStep
<1>4. UseInv' /\ HeldDevicesAlive' /\ GroupInv'
  BY UseStep, HeldStep, GroupStep
<1>5. DirtyInv' /\ CleanInv'
  BY DirtyStep, CleanStep
<1> QED
  BY <1>1, <1>2, <1>3, <1>4, <1>5 DEF IndInv

(* IndInv is an invariant of the driver for any devices, groups, users and *)
(* files, whatever can be reset and whatever fails.                        *)
THEOREM Invariance == Spec => []IndInv
  BY InitInv, StepInv, PTL DEF Spec

(* Every variable of the driver keeps its type; in particular no reference *)
(* count goes below zero.                                                  *)
THEOREM TypeCorrect == Spec => []TypeOK
<1>1. IndInv => TypeOK
  BY DEF IndInv
<1> QED
  BY <1>1, Invariance, PTL

(* No vfio_pci_device is freed while open, release, an ioctl or the bus    *)
(* reset of a neighbour works on it.                                       *)
THEOREM DevicesStayAlive == Spec => []HeldDevicesAlive
<1>1. IndInv => HeldDevicesAlive
  BY DEF IndInv
<1> QED
  BY <1>1, Invariance, PTL

(* refcnt and the module's reference count count the files they stand for. *)
THEOREM CountsCorrect == Spec => [](RefcntCountsFiles /\ ModuleRefsCounted)
<1>1. IndInv => RefcntCountsFiles /\ ModuleRefsCounted
  BY DEF IndInv
<1> QED
  BY <1>1, Invariance, PTL

(* Enabling and disabling are balanced on every path of vfio_pci_open and  *)
(* vfio_pci_release, those that fail included.                             *)
THEOREM EnableCorrect == Spec => []EnableBalanced
<1>1. IndInv => EnableBalanced
  <2> SUFFICES ASSUME IndInv, driver_lock = None, NEW d \in Device
               PROVE  enable_cnt[d] = IF refcnt[d] > 0 THEN 1 ELSE 0
    BY DEF EnableBalanced
  <2>1. \A f \in File : pc[f] \notin Critical
    BY FileAssumption DEF IndInv, LockInv
  <2> QED
    BY <2>1 DEF IndInv, UseInv
<1> QED
  BY <1>1, Invariance, PTL

(* All three counts are exact together.                                    *)
THEOREM UsesStayCounted == Spec => []UsesCounted
  BY CountsCorrect, EnableCorrect, PTL DEF UsesCounted

(* A device nobody works on that was not reset since its last use has      *)
(* needs_reset set.                                                        *)
THEOREM NeedsResetCorrect == Spec => []IdleNeedsReset
<1>1. IndInv => IdleNeedsReset
  BY DEF IndInv, DirtyInv, IdleNeedsReset
<1> QED
  BY <1>1, Invariance, PTL

(* No reset of the driver hits a device of a host driver or of another     *)
(* user, and the bus reset of a release hits no device in use.             *)
THEOREM ResetsSpareOthers == Spec => ResetSparesOthers
<1> DEFINE Spared(d) ==
        /\ drv[d] # "other"
        /\ \A f \in File : pc'[f] # pc[f] /\ refcnt[d] > 0 =>
                /\ gowner[GroupOf[d]] = OwnerOf[f]
                /\ pc[f] # "judge"
<1>1. ASSUME IndInv, [Next]_vars, NEW d \in Device, dirty[d], ~dirty'[d]
      PROVE  Spared(d)
  <2> USE DEF IndInv, TypeOK, FlagsOK, ThreadsOK, LocalInv, HeldDevicesAlive
  <2>1. ASSUME NEW f \in File, EnableReset(f) PROVE Spared(d)
    <3>1. d = dev[f]
      BY <1>1, <2>1 DEF EnableReset, Reset
    <3> QED
      BY <1>1, <2>1, <3>1, DeviceAssumption DEF EnableReset, UseInv, CountsOK
  <2>2. ASSUME NEW f \in File, Disable(f) PROVE Spared(d)
    <3>1. d = dev[f]
      BY <1>1, <2>2 DEF Disable, Reset
    <3> QED
      BY <1>1, <2>2, <3>1, DeviceAssumption DEF Disable, UseInv, CountsOK
  <2>3. ASSUME NEW f \in File, BusJudge(f) PROVE Spared(d)
    <3>1. d \in devs[f] /\ refcnt[d] = 0
      BY <1>1, <2>3 DEF BusJudge, Reset, ResetDue, Outcome
    <3> QED
      BY <1>1, <2>3, <3>1 DEF BusJudge
  <2>4. ASSUME NEW f \in File, HotReset(f) PROVE Spared(d)
    <3>1. GroupOf[d] \in ext[f]
      BY <1>1, <2>4 DEF HotReset, Reset, GroupsCover, Outcome
    <3>2. gowner[GroupOf[d]] = OwnerOf[f] /\ OwnerOf[f] # None
      BY <3>1, <1>1, UserAssumption DEF GroupInv
    <3> QED
      BY <1>1, <2>4, <3>2 DEF HotReset, GroupInv
  <2>5. ASSUME NEW f \in File, DeviceReset(f) PROVE Spared(d)
    <3>1. d = dev[f] /\ pc' = pc
      BY <1>1, <2>5 DEF DeviceReset, Reset
    <3> QED
      BY <1>1, <2>5, <3>1, DeviceAssumption
  <2>6. ASSUME NEW e \in Device, ProbeStart(e) PROVE Spared(d)
    BY <1>1, <2>6 DEF ProbeStart
  <2>7. ASSUME NEW f \in File,
               Open(f) \/ Release(f) \/ PutDeviceFd(f) \/ Use(f)
                 \/ (\E e \in Device : GetDeviceFd(f, e))
        PROVE  FALSE
    BY <1>1, <2>7 DEF Open, OpenTryModuleGet, OpenAgain, OpenFirst, Release,
       ReleaseAgain, ReleaseLast, PutDeviceFd, Use, GetDeviceFd
  <2>8. ASSUME NEW f \in File,
               EnableDone(f) \/ EnableConfigFails(f) \/ EnableIgdFails(f)
                 \/ DisableFaults(f) \/ BusCollect(f) \/ BusPut(f)
        PROVE  FALSE
    BY <1>1, <2>8 DEF EnableDone, EnableConfigFails, EnableIgdFails,
       DisableFaults, BusCollect, BusPut
  <2>9. ASSUME NEW f \in File,
               HotResetPut(f) \/ (\E S \in SUBSET Group : HotResetGet(f, S))
        PROVE  FALSE
    BY <1>1, <2>9 DEF HotResetPut, HotResetGet
  <2>10. ASSUME NEW e \in Device,
                ProbeEnd(e) \/ RemoveStart(e) \/ RemoveEnd(e)
                  \/ BindHost(e) \/ UnbindHost(e)
         PROVE  FALSE
    BY <1>1, <2>10 DEF ProbeEnd, RemoveStart, RemoveEnd, BindHost, UnbindHost
  <2>11. ASSUME NEW g \in Group,
                CloseGroup(g) \/ (\E u \in User : OpenGroup(u, g))
         PROVE  FALSE
    BY <1>1, <2>11 DEF CloseGroup, OpenGroup
  <2>12. ASSUME Unload \/ UNCHANGED vars PROVE FALSE
    BY <1>1, <2>12 DEF Unload, vars
  <2> QED
    BY <1>1, <2>1, <2>2, <2>3, <2>4, <2>5, <2>6, <2>7, <2>8, <2>9, <2>10,
       <2>11, <2>12 DEF Next, Enable, DisableAll, Ioctl, Core, Host
<1>2. IndInv /\ [Next]_vars =>
        [\A d \in Device : dirty[d] /\ ~dirty'[d] => Spared(d)]_vars
  BY <1>1
<1> QED
  BY <1>2, Invariance, PTL DEF Spec, ResetSparesOthers

(* While no driver is bound or unbound, a device in use, or being enabled, *)
(* is in D0.                                                               *)
THEOREM UsedDevicesAwake == ASSUME ~Rebind PROVE Spec => []AwakeWhileOpen
<1>1. Init => AwakeInv
  BY DEF Init, AwakeInv
<1>2. IndInv /\ AwakeInv /\ [Next]_vars => AwakeInv'
  <2> SUFFICES ASSUME IndInv, AwakeInv, [Next]_vars PROVE AwakeInv'
    OBVIOUS
  <2> USE DEF IndInv, TypeOK, FlagsOK, ThreadsOK, CountsOK, LocalInv, LockInv,
              AwakeInv
  <2>1. ASSUME NEW f \in File, Open(f) PROVE AwakeInv'
    BY <2>1, DeviceAssumption, FileAssumption
       DEF Open, OpenTryModuleGet, OpenAgain, OpenFirst
  <2>2. ASSUME NEW f \in File, Enable(f) PROVE AwakeInv'
    <3>1. CASE EnableReset(f)
      BY <3>1, ResetEffect DEF EnableReset
    <3>2. CASE EnableDone(f) \/ EnableConfigFails(f) \/ EnableIgdFails(f)
      BY <3>2, DeviceAssumption DEF EnableDone, EnableConfigFails, EnableIgdFails
    <3> QED
      BY <2>2, <3>1, <3>2 DEF Enable
  <2>3. ASSUME NEW f \in File, Release(f) PROVE AwakeInv'
    BY <2>3, DeviceAssumption, FileAssumption, InUse
       DEF Release, ReleaseAgain, ReleaseLast
  <2>4. ASSUME NEW f \in File, DisableFaults(f) \/ Disable(f) \/ BusCollect(f)
        PROVE  AwakeInv'
    <3>1. CASE Disable(f)
      BY <3>1, ResetEffect DEF Disable
    <3>2. CASE DisableFaults(f) \/ BusCollect(f)
      BY <3>2 DEF DisableFaults, BusCollect
    <3> QED
      BY <2>4, <3>1, <3>2
  <2>5. ASSUME NEW f \in File, BusJudge(f) PROVE AwakeInv'
    BY <2>5, ResetEffect DEF BusJudge
  <2>6. ASSUME NEW f \in File, BusPut(f) PROVE AwakeInv'
    <3>1. \A d \in Sleepy(f) : refcnt[d] = 0
      BY <2>6 DEF BusPut, Sleepy, UseInv
    <3>2. \A e \in File : e # f => pc[e] \notin Critical
      BY <2>6, FileAssumption DEF BusPut
    <3> QED
      BY <2>6, <3>1, <3>2 DEF BusPut
  <2>7. ASSUME NEW f \in File, Ioctl(f) PROVE AwakeInv'
    BY <2>7, ResetEffect
       DEF Ioctl, DeviceReset, HotReset, HotResetPut, HotResetGet
  <2>8. ASSUME NEW f \in File,
               Use(f) \/ PutDeviceFd(f) \/ (\E d \in Device : GetDeviceFd(f, d))
        PROVE  AwakeInv'
    BY <2>8, DeviceAssumption DEF Use, PutDeviceFd, GetDeviceFd
  <2>9. ASSUME NEW d \in Device, Core(d) PROVE AwakeInv'
    BY <2>9 DEF Core, ProbeStart, ProbeEnd, RemoveStart, RemoveEnd
  <2>10. ASSUME NEW d \in Device, Host(d) PROVE AwakeInv'
    BY <2>10 DEF Host, BindHost, UnbindHost
  <2>11. ASSUME NEW g \in Group,
                CloseGroup(g) \/ (\E u \in User : OpenGroup(u, g))
         PROVE  AwakeInv'
    BY <2>11 DEF CloseGroup, OpenGroup
  <2>12. CASE Unload \/ UNCHANGED vars
    BY <2>12 DEF Unload, vars
  <2> QED
    BY <2>1, <2>2, <2>3, <2>4, <2>5, <2>6, <2>7, <2>8, <2>9, <2>10, <2>11,
       <2>12 DEF Next, DisableAll
<1>3. AwakeInv => AwakeWhileOpen
  BY DEF AwakeInv, AwakeWhileOpen
<1> QED
  BY <1>1, <1>2, <1>3, Invariance, PTL DEF Spec

(* While no driver is bound or unbound and resets do what they are asked,  *)
(* the last release of the devices one reset reaches leaves them clean,    *)
(* whichever of them it is and in whatever order the users release them:   *)
(* vfio_pci_try_bus_reset resets the devices that earlier releases could   *)
(* not, on a bus whose devices are all reset in the same way.              *)
THEOREM IdleBusIsClean ==
    ASSUME ~Rebind, Reliable, ResetsAlike
    PROVE  Spec => []CleanWhenIdle
<1> DEFINE Cleaning == {"disable", "oops", "collect", "judge"}
           Idle(d) ==
        /\ dirty[d] /\ Affected(d) # {}
        /\ \A e \in Affected(d) : refcnt[e] = 0
           Resetting(d) ==
        \E f \in File : /\ pc[f] \in Cleaning
                        /\ dev[f] \in Affected(d)
           Kept == \A d \in Device : Idle(d)' => Resetting(d)'
           Bound ==
        \A d \in Device : /\ drv[d] \in {"vfio", "removing", "none"}
                          /\ drv[d] # "vfio" => module = "going"
<1>0. RestInv <=> Bound /\ \A d \in Device : Idle(d) => Resetting(d)
  BY DEF RestInv
<1>1. Init => RestInv
  BY DEF Init, RestInv
<1>2. ASSUME NEW d \in Device, Affected(d) # {}
      PROVE  /\ d \in Affected(d) /\ Affected(d) \subseteq Device
             /\ \A e \in Affected(d) : Affected(e) = Affected(d)
  BY <1>2 DEF Affected, ResetsAlike
<1>3. IndInv /\ RestInv /\ [Next]_vars => RestInv'
  <2> SUFFICES ASSUME IndInv, RestInv, [Next]_vars
               PROVE  Bound' /\ \A d \in Device : Idle(d)' => Resetting(d)'
    BY DEF RestInv
  <2>1. /\ \A d \in Device : drv[d] # "vfio" => \A f \in File : pc[f] \in {"closed", "entry"}
        /\ \A f \in File : pc[f] \in Critical <=> driver_lock = f
        /\ \A f \in File : pc[f] # "closed" => dev[f] \in Device
        /\ Bound
    BY InModule, FileAssumption, DeviceAssumption DEF RestInv, IndInv, ModuleRefsCounted, LockInv, LocalInv, TypeOK, ThreadsOK
  <2>2. \A d \in Device : Idle(d) => Resetting(d)
    BY DEF RestInv
  <2>3. Bound'
    <3> HIDE DEF Idle, Resetting
    <3>1. ASSUME NEW d \in Device, Core(d) PROVE Bound'
      BY <2>1, <3>1
      DEF Core, ProbeStart, ProbeEnd, RemoveStart, RemoveEnd, IndInv, TypeOK,
          FlagsOK
    <3>2. CASE UNCHANGED <<drv, module>>
      BY <2>1, <3>2
    <3>3. CASE Unload
      BY <2>1, <3>3 DEF Unload
    <3>4. ASSUME NEW d \in Device PROVE ~Host(d)
      BY <2>1 DEF Host, BindHost, UnbindHost
    <3>5. ASSUME NEW f \in File, Open(f) \/ Enable(f) \/ Release(f)
          PROVE  UNCHANGED <<drv, module>>
      BY <3>5 DEF Open, OpenTryModuleGet, OpenAgain, OpenFirst, Enable,
         EnableReset, EnableDone, EnableConfigFails, EnableIgdFails, Release,
         ReleaseAgain, ReleaseLast
    <3>6. ASSUME NEW f \in File, DisableAll(f) \/ Ioctl(f)
          PROVE  UNCHANGED <<drv, module>>
      BY <3>6 DEF DisableAll, DisableFaults, Disable, BusCollect, BusJudge,
         BusPut, Ioctl, DeviceReset, HotReset, HotResetPut, HotResetGet
    <3>7. ASSUME NEW f \in File,
                 Use(f) \/ PutDeviceFd(f) \/ (\E d \in Device : GetDeviceFd(f, d))
          PROVE  UNCHANGED <<drv, module>>
      BY <3>7 DEF Use, PutDeviceFd, GetDeviceFd
    <3>8. ASSUME NEW g \in Group,
                 CloseGroup(g) \/ (\E u \in User : OpenGroup(u, g))
          PROVE  UNCHANGED <<drv, module>>
      BY <3>8 DEF CloseGroup, OpenGroup
    <3>9. CASE UNCHANGED vars
      BY <3>2, <3>9 DEF vars
    <3> HIDE DEF Bound
    <3> QED
      BY <3>1, <3>2, <3>3, <3>4, <3>5, <3>6, <3>7, <3>8, <3>9 DEF Next
  <2>4. ASSUME \A d \in Device : dirty'[d] => dirty[d],
               \A d \in Device : refcnt'[d] = 0 => refcnt[d] = 0,
               \A f \in File : pc[f] \in Cleaning =>
                    pc'[f] \in Cleaning /\ dev'[f] = dev[f]
        PROVE  Kept
    <3> SUFFICES ASSUME NEW d \in Device, Idle(d)' PROVE Resetting(d)'
      OBVIOUS
    <3>1. Affected(d) \subseteq Device
      BY DEF Affected
    <3>2. Idle(d)
      BY <2>4, <3>1
    <3>3. Resetting(d)
      BY <2>2, <3>2
    <3> QED
      BY <2>4, <3>3
  <2> USE DEF IndInv, TypeOK, FlagsOK, ThreadsOK, CountsOK
  <2>5. ASSUME NEW f \in File, Open(f) \/ Enable(f) PROVE Kept
    <3>1. CASE Open(f)
      <4>1. /\ dirty' = dirty
            /\ \A d \in Device : refcnt'[d] = 0 => refcnt[d] = 0
            /\ \A e \in File : pc[e] \in Cleaning =>
                    pc'[e] \in Cleaning /\ dev'[e] = dev[e]
        BY <3>1 DEF Open, OpenTryModuleGet, OpenAgain, OpenFirst
      <4> QED
        BY <2>4, <4>1
    <3>2. CASE EnableReset(f)
      <4>1. \A d \in Device : dirty'[d] => dirty[d]
        BY <3>2, ResetEffect DEF EnableReset
      <4>2. /\ refcnt' = refcnt
            /\ \A e \in File : pc[e] \in Cleaning =>
                    pc'[e] \in Cleaning /\ dev'[e] = dev[e]
        BY <3>2 DEF EnableReset
      <4> QED
        BY <2>4, <4>1, <4>2
    <3>3. CASE EnableDone(f) \/ EnableConfigFails(f) \/ EnableIgdFails(f)
      <4>1. /\ dirty' = dirty
            /\ \A d \in Device : refcnt'[d] = 0 => refcnt[d] = 0
            /\ \A e \in File : pc[e] \in Cleaning =>
                    pc'[e] \in Cleaning /\ dev'[e] = dev[e]
        BY <3>3 DEF EnableDone, EnableConfigFails, EnableIgdFails
      <4> QED
        BY <2>4, <4>1
    <3> HIDE DEF Kept
    <3> QED
      BY <2>5, <3>1, <3>2, <3>3 DEF Enable
  <2>6. ASSUME NEW f \in File, ReleaseAgain(f) PROVE Kept
    <3>1. \A d \in Device : refcnt'[d] = 0 => refcnt[d] = 0
      BY <2>1, <2>6, InUse DEF ReleaseAgain
    <3>2. /\ dirty' = dirty
          /\ \A e \in File : pc[e] \in Cleaning =>
                  pc'[e] \in Cleaning /\ dev'[e] = dev[e]
      BY <2>6 DEF ReleaseAgain
    <3> QED
      BY <2>4, <3>1, <3>2
  <2>7. ASSUME NEW f \in File, ReleaseLast(f) PROVE Kept
    <3> SUFFICES ASSUME NEW d \in Device, Idle(d)' PROVE Resetting(d)'
      OBVIOUS
    <3>1. pc'[f] = "disable" /\ dev'[f] = dev[f] /\ dirty' = dirty
      BY <2>7 DEF ReleaseLast
    <3>2. CASE dev[f] \in Affected(d)
      BY <3>1, <3>2
    <3>3. CASE dev[f] \notin Affected(d)
      <4>1. \A e \in Affected(d) : refcnt'[e] = refcnt[e]
        BY <2>7, <3>3, <1>2 DEF ReleaseLast
      <4>2. Idle(d)
        BY <3>1, <4>1
      <4>3. PICK e \in File : pc[e] \in Cleaning
        BY <2>2, <4>2
      <4>4. driver_lock = None /\ driver_lock = e
        BY <2>1, <2>7, <4>3 DEF ReleaseLast
      <4> QED
        BY <4>4, FileAssumption
    <3> QED
      BY <3>2, <3>3
  <2>8. ASSUME NEW f \in File, DisableFaults(f) \/ Disable(f) PROVE Kept
    <3>1. \A d \in Device : dirty'[d] => dirty[d]
      BY <2>8, ResetEffect DEF DisableFaults, Disable
    <3>2. /\ refcnt' = refcnt
          /\ \A e \in File : pc[e] \in Cleaning =>
                  pc'[e] \in Cleaning /\ dev'[e] = dev[e]
      BY <2>8 DEF DisableFaults, Disable
    <3> QED
      BY <2>4, <3>1, <3>2
  <2>9. ASSUME NEW f \in File, BusCollect(f) PROVE Kept
    <3>1. /\ refcnt' = refcnt /\ dirty' = dirty /\ dev' = dev
          /\ pc[f] = "collect" /\ \A e \in File \ {f} : pc'[e] = pc[e]
      BY <2>9 DEF BusCollect
    <3>2. \A d \in Affected(dev[f]) : Present(d)
      BY <2>1, <3>1 DEF Affected
    <3>3. Affected(dev[f]) # {} => pc'[f] = "judge"
      BY <2>9, <3>2 DEF BusCollect
    <3> SUFFICES ASSUME NEW d \in Device, Idle(d)' PROVE Resetting(d)'
      OBVIOUS
    <3>4. Idle(d)
      BY <3>1
    <3>5. PICK e \in File : pc[e] \in Cleaning /\ dev[e] \in Affected(d)
      BY <2>2, <3>4
    <3>6. pc'[e] \in Cleaning
      <4>1. CASE e = f
        BY <1>2, <3>3, <3>5, <4>1
      <4>2. CASE e # f
        BY <3>1, <3>5, <4>2
      <4> QED
        BY <4>1, <4>2
    <3> QED
      BY <3>1, <3>5, <3>6
  <2>10. ASSUME NEW f \in File, BusJudge(f) PROVE Kept
    <3>1. /\ refcnt' = refcnt /\ dev' = dev /\ pc[f] = "judge"
          /\ \A e \in File \ {f} : pc'[e] = pc[e]
          /\ \A d \in Device : dirty'[d] => dirty[d]
      BY <2>10, ResetEffect DEF BusJudge
    <3> SUFFICES ASSUME NEW d \in Device, Idle(d)' PROVE Resetting(d)'
      OBVIOUS
    <3>2. Affected(d) \subseteq Device
      BY DEF Affected
    <3>3. Idle(d)
      BY <3>1, <3>2
    <3>4. PICK e \in File : pc[e] \in Cleaning /\ dev[e] \in Affected(d)
      BY <2>2, <3>3
    <3>5. e = f
      BY <2>1, <3>1, <3>4
    <3>6. /\ devs[f] = Affected(d) /\ Affected(dev[f]) = Affected(d)
          /\ d \in Affected(d)
      BY <1>2, <3>1, <3>3, <3>4, <3>5 DEF LocalInv
    <3>7. AllFree(dev[f])
      BY <2>1, <3>1, <3>2, <3>6 DEF AllFree
    <3>8. needs_reset[d]
      <4>1. \A g \in File : ~(dev[g] = d /\ pc[g] \in Opened)
        BY <3>3, <3>6, InUse
      <4>2. \A g \in File : pc[g] \notin {"disable", "oops"}
        BY <2>1, <3>1
      <4>3. Present(d)
        BY <2>1, <3>1
      <4> QED
        BY <3>3, <4>1, <4>2, <4>3 DEF DirtyInv
    <3>9. ResetDue(f)
      BY <3>3, <3>6, <3>8 DEF ResetDue
    <3>10. Reset(Affected(dev[f]))
      BY <2>10, <3>7, <3>9 DEF BusJudge, Outcome
    <3> QED
      BY <3>6, <3>10 DEF Reset
  <2>11. ASSUME NEW f \in File, BusPut(f) PROVE Kept
    <3>1. /\ refcnt' = refcnt /\ dirty' = dirty
          /\ \A e \in File : pc[e] \in Cleaning =>
                  pc'[e] \in Cleaning /\ dev'[e] = dev[e]
      BY <2>11 DEF BusPut
    <3> QED
      BY <2>4, <3>1
  <2>12. ASSUME NEW f \in File, Ioctl(f) PROVE Kept
    <3>1. \A d \in Device : dirty'[d] => dirty[d]
      BY <2>12, ResetEffect
      DEF Ioctl, DeviceReset, HotReset, HotResetPut, HotResetGet
    <3>2. /\ refcnt' = refcnt
          /\ \A e \in File : pc[e] \in Cleaning =>
                  pc'[e] \in Cleaning /\ dev'[e] = dev[e]
      BY <2>12 DEF Ioctl, DeviceReset, HotReset, HotResetPut, HotResetGet
    <3> QED
      BY <2>4, <3>1, <3>2
  <2>13. ASSUME NEW f \in File, Use(f) PROVE Kept
    <3> SUFFICES ASSUME NEW d \in Device, Idle(d)' PROVE Resetting(d)'
      OBVIOUS
    <3>1. /\ UNCHANGED <<refcnt, pc, dev>>
          /\ \A e \in Device \ {dev[f]} : dirty'[e] = dirty[e]
          /\ pc[f] = "open"
      BY <2>13 DEF Use
    <3>2. dev[f] \in Device /\ refcnt[dev[f]] > 0
      BY <2>1, <3>1, InUse
    <3>3. d # dev[f]
      BY <1>2, <3>1, <3>2
    <3>4. Idle(d)
      BY <3>1, <3>3
    <3> QED
      BY <2>2, <3>1, <3>4
  <2>14. ASSUME NEW f \in File,
                PutDeviceFd(f) \/ (\E d \in Device : GetDeviceFd(f, d))
         PROVE  Kept
    <3>1. /\ refcnt' = refcnt /\ dirty' = dirty
          /\ \A e \in File : pc[e] \in Cleaning =>
                  pc'[e] \in Cleaning /\ dev'[e] = dev[e]
      BY <2>14 DEF PutDeviceFd, GetDeviceFd
    <3> QED
      BY <2>4, <3>1
  <2>15. ASSUME NEW d \in Device, Core(d) \/ Host(d) PROVE Kept
    <3>1. UNCHANGED <<refcnt, dirty, pc, dev>>
      BY <2>15 DEF Core, ProbeStart, ProbeEnd, RemoveStart, RemoveEnd, Host,
         BindHost, UnbindHost
    <3> QED
      BY <2>4, <3>1
  <2>16. ASSUME NEW g \in Group,
                CloseGroup(g) \/ (\E u \in User : OpenGroup(u, g))
         PROVE  Kept
    <3>1. UNCHANGED <<refcnt, dirty, pc, dev>>
      BY <2>16 DEF CloseGroup, OpenGroup
    <3> QED
      BY <2>4, <3>1
  <2>17. ASSUME Unload \/ UNCHANGED vars PROVE Kept
    <3>1. refcnt' = refcnt /\ dirty' = dirty /\ pc' = pc /\ dev' = dev
      BY <2>17 DEF Unload, vars
    <3> QED
      BY <2>4, <3>1
  <2>18. Kept
    <3> HIDE DEF Kept, IndInv, TypeOK, FlagsOK, ThreadsOK, CountsOK
    <3>1. [Next]_vars
      OBVIOUS
    <3> QED
      BY <2>5, <2>6, <2>7, <2>8, <2>9, <2>10, <2>11, <2>12, <2>13, <2>14,
         <2>15, <2>16, <2>17, <3>1 DEF Next, Release, DisableAll
  <2> QED
    BY <2>3, <2>18
<1>4. RestInv /\ IndInv => CleanWhenIdle
  <2> SUFFICES ASSUME RestInv, IndInv, driver_lock = None, NEW d \in Device, Idle(d)
               PROVE FALSE
    BY DEF CleanWhenIdle
  <2>1. PICK f \in File : pc[f] \in {"disable", "oops", "collect", "judge"}
    BY DEF RestInv
  <2> QED
    BY <2>1, FileAssumption DEF IndInv, LockInv
<1> QED
  BY <1>1, <1>3, <1>4, Invariance, PTL DEF Spec

=============================================================================
