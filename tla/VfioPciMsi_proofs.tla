-------------------------- MODULE VfioPciMsi_proofs --------------------------
(***************************************************************************)
(* Proofs about VfioPciMsi, for any eventfds and any number of vectors:    *)
(* IndInv is inductive, one lemma for each of its parts with one step for  *)
(* each operation, and the properties follow from it.                      *)
(***************************************************************************)
EXTENDS VfioPciMsi, FiniteSetTheorems, TLAPS

USE FdAssumption, NVecAssumption
USE DEF vecVars, typVars, fdVars, FdOrNone, Vector

(* A caller that has returned.                                             *)
LEMMA IdleJob ==
    Idle \in Job /\ Idle.pc = "idle" /\ Idle.got = None
  BY DEF Idle, Job, NoFds

(* Entering a call, for the job that is left alone, too.                   *)
LEMMA NoFdsType == NoFds \in [Vector -> FdOrNone]
  BY DEF NoFds

(* The number of vectors of a capability is a number.                      *)
LEMMA FlsType == ASSUME NEW n \in Nat PROVE Fls(n) \in Nat
<1>1. IsFiniteSet(0..n)
  BY FS_Interval
<1> QED
  BY <1>1, FS_Subset, FS_CardinalityType DEF Fls

(* The next step of a call is in range, whichever it is.                   *)
LEMMA NextJob ==
    ASSUME StateOK, JobInv
    PROVE  /\ Advance \in Job
           /\ UndoEnd \in Job
           /\ \A l \in {"free", "get", "request", "install", "undo", "down",
                         "off"} :
                [job EXCEPT !.pc = l] \in Job
           /\ job.cur > job.start => [job EXCEPT !.cur = job.cur - 1] \in Job
           /\ job.cur + 1 < num_ctx => [job EXCEPT !.cur = job.cur + 1] \in Job
<1>1. /\ job \in Job
      /\ job.cur \in Nat /\ job.start \in Nat /\ job.stop \in 0..NVec
      /\ num_ctx \in 0..NVec /\ 0 \in Vector
  BY DEF StateOK, Job
<1>2. /\ job.cur + 1 < job.stop => job.cur + 1 \in Vector
      /\ job.cur + 1 < num_ctx => job.cur + 1 \in Vector
      /\ job.cur > job.start => job.cur - 1 \in Vector
  BY <1>1 DEF Job
<1>3. Advance \in Job
  BY <1>1, <1>2, IdleJob DEF Advance, Job
<1>4. UndoEnd \in Job
  BY <1>1, IdleJob DEF UndoEnd, Job
<1> QED
  BY <1>1, <1>2, <1>3, <1>4 DEF Job

(* Whatever a step does to the references, they stay counts of eventfds.   *)
LEMMA RefsFunction ==
    ASSUME refs \in [Fd -> Nat], [Next]_vars
    PROVE  \E f : refs' = [e \in Fd |-> f[e]]
<1>1. ASSUME NEW t \in {"msi", "msix"}, NEW start \in Vector,
        NEW stop \in 0..NVec, NEW fds \in [Vector -> FdOrNone],
        IoctlBlock(t, start, stop, fds)
      PROVE  \E f : refs' = [e \in Fd |-> f[e]]
  BY <1>1 DEF IoctlBlock, MayCall, Begin
<1>2. ASSUME NEW t \in {"msi", "msix"}, NEW start \in Vector,
        NEW stop \in 0..NVec, NEW fds \in [Vector -> FdOrNone],
        IoctlEnable(t, start, stop, fds)
      PROVE  \E f : refs' = [e \in Fd |-> f[e]]
  BY <1>2 DEF IoctlEnable, MayCall, Begin
<1>3. ASSUME NEW t \in {"msi", "msix"}, IoctlDisable(t)
      PROVE  \E f : refs' = [e \in Fd |-> f[e]]
  BY <1>3 DEF IoctlDisable, MayCall, Begin
<1>4. ASSUME NEW S \in SUBSET Vector, IoctlLoopback(S)
      PROVE  \E f : refs' = [e \in Fd |-> f[e]]
  BY <1>4 DEF IoctlLoopback, MayCall, Signal
<1>5. ASSUME NEW s \in Single, NEW fd \in FdOrNone, IoctlSingle(s, fd)
      PROVE  \E f : refs' = [e \in Fd |-> f[e]]
  BY <1>5 DEF IoctlSingle, MayCall, Get, Put
<1>6. CASE BlockFree
  BY <1>6 DEF BlockFree, Drop, Put, Advance
<1>7. CASE BlockGet
  BY <1>7 DEF BlockGet, Get
<1>8. CASE BlockRequest
  BY <1>8 DEF BlockRequest
<1>9. CASE BlockRequestFails
  BY <1>9 DEF BlockRequestFails, Put
<1>10. CASE BlockInstall
  BY <1>10 DEF BlockInstall, Advance
<1>11. CASE BlockUndo
  BY <1>11 DEF BlockUndo, Drop, Put, UndoEnd
<1>12. CASE Down
  BY <1>12 DEF Down, Drop, Put
<1>13. CASE Off
  BY <1>13 DEF Off
<1>14. ASSUME NEW s \in Single, SignalSingle(s)
      PROVE  \E f : refs' = [e \in Fd |-> f[e]]
  BY <1>14 DEF SignalSingle, Signal
<1>15. CASE Release
  BY <1>15 DEF Release, MayCall, Begin
<1>16. CASE Open
  BY <1>16 DEF Open
<1>17. ASSUME NEW v \in Vector, Fire(v)
      PROVE  \E f : refs' = [e \in Fd |-> f[e]]
  BY <1>17 DEF Fire
<1>18. ASSUME NEW v \in Vector, HandlerSignal(v)
      PROVE  \E f : refs' = [e \in Fd |-> f[e]]
  BY <1>18 DEF HandlerSignal, Signal
<1>19. ASSUME NEW fd \in Fd, Read(fd)
      PROVE  \E f : refs' = [e \in Fd |-> f[e]]
  BY <1>19 DEF Read
<1>20. ASSUME NEW fd \in Fd, Close(fd)
      PROVE  \E f : refs' = [e \in Fd |-> f[e]]
  BY <1>20 DEF Close
<1>21. ASSUME NEW fd \in Fd, Create(fd)
      PROVE  \E f : refs' = [e \in Fd |-> f[e]]
  BY <1>21 DEF Create
<1>22. CASE UNCHANGED vars
  BY <1>22 DEF vars
<1> QED
  BY <1>1, <1>2, <1>3, <1>4, <1>5, <1>6, <1>7, <1>8, <1>9, <1>10, <1>11,
     <1>12, <1>13, <1>14, <1>15, <1>16, <1>17, <1>18, <1>19, <1>20, <1>21,
     <1>22 DEF Next, Ioctl, Work

(* All operations keep the state in range.                                 *)
LEMMA StateStep == ASSUME IndInv, [Next]_vars PROVE StateOK'
<1> USE IdleJob, NoFdsType DEF IndInv, TypeOK, JobInv, Block
<1>1. ASSUME NEW t \in {"msi", "msix"}, NEW start \in Vector,
        NEW stop \in 0..NVec, NEW fds \in [Vector -> FdOrNone],
        IoctlBlock(t, start, stop, fds)
      PROVE  StateOK'
  BY <1>1 DEF IoctlBlock, MayCall, Begin, StateOK, Job, Single
<1>2. ASSUME NEW t \in {"msi", "msix"}, NEW start \in Vector,
        NEW stop \in 0..NVec, NEW fds \in [Vector -> FdOrNone],
        IoctlEnable(t, start, stop, fds)
      PROVE  StateOK'
  <2>1. Fls(2 * stop - 1) \in Nat
    BY <1>2, FlsType DEF IoctlEnable
  <2>2. msi_qmax' \in Int
    BY <1>2, <2>1 DEF IoctlEnable, StateOK
  <2> QED
    BY <1>2, <2>2 DEF IoctlEnable, MayCall, Begin, StateOK, Job
<1>3. ASSUME NEW t \in {"msi", "msix"}, IoctlDisable(t)
      PROVE  StateOK'
  BY <1>3 DEF IoctlDisable, MayCall, Begin, StateOK, Job, Single
<1>4. ASSUME NEW S \in SUBSET Vector, IoctlLoopback(S)
      PROVE  StateOK'
  BY <1>4 DEF IoctlLoopback, MayCall, Signal, StateOK, Job, Single
<1>5. ASSUME NEW s \in Single, NEW fd \in FdOrNone, IoctlSingle(s, fd)
      PROVE  StateOK'
  BY <1>5 DEF IoctlSingle, MayCall, Get, Put, StateOK, Job, Single
<1>6. CASE BlockFree
  <2>1. job' \in Job
    BY <1>6, NextJob DEF BlockFree, Drop, StateOK
  <2> QED
    <3>1. job.cur \in Vector
      BY DEF StateOK, Job
    <3>2. /\ trigger' \in [Vector -> FdOrNone] /\ handler' \in [Vector -> FdOrNone]
          /\ UNCHANGED <<opened, irq_type, num_ctx, msi_qmax, running, single,
                         open, signalled>>
      BY <1>6, <3>1 DEF BlockFree, Drop, StateOK
    <3> QED
      BY <2>1, <3>2 DEF StateOK
<1>7. CASE BlockGet
  <2>1. /\ UNCHANGED <<opened, irq_type, num_ctx, msi_qmax, trigger, handler,
                       running, single, open, signalled>>
        /\ \/ job' = [job EXCEPT !.pc = "request", !.got = job.fds[job.cur]]
           \/ job' = [job EXCEPT !.pc = "undo"]
    BY <1>7 DEF BlockGet
  <2>2. job \in Job /\ job.fds[job.cur] \in FdOrNone
    BY DEF StateOK, Job
  <2>3. CASE job' = [job EXCEPT !.pc = "request", !.got = job.fds[job.cur]]
    <3>1. job' \in Job
      BY <2>2, <2>3 DEF Job
    <3> QED
      BY <2>1, <3>1 DEF StateOK
  <2>4. CASE job' = [job EXCEPT !.pc = "undo"]
    <3>1. job' \in Job
      BY <2>2, <2>4 DEF Job
    <3> QED
      BY <2>1, <3>1 DEF StateOK
  <2> QED
    BY <2>1, <2>3, <2>4
<1>8. CASE BlockRequest
  BY <1>8 DEF BlockRequest, StateOK, Job, Single
<1>9. CASE BlockRequestFails
  BY <1>9 DEF BlockRequestFails, Put, StateOK, Job, Single
<1>10. CASE BlockInstall
  <2>1. job' \in Job
    BY <1>10, NextJob DEF BlockInstall, Job, StateOK
  <2> QED
    BY <1>10, <2>1 DEF BlockInstall, Job, StateOK
<1>11. CASE BlockUndo
  <2>1. job' \in Job
    BY <1>11, NextJob DEF BlockUndo, Drop, StateOK
  <2> QED
    BY <1>11, <2>1 DEF BlockUndo, Drop, Put, Job, StateOK
<1>12. CASE Down
  <2>1. job' \in Job
    BY <1>12, NextJob DEF Down, Drop, StateOK
  <2> QED
    BY <1>12, <2>1 DEF Down, Drop, Put, Job, StateOK
<1>13. CASE Off
  BY <1>13 DEF Off, StateOK, Job, Single
<1>14. ASSUME NEW s \in Single, SignalSingle(s)
      PROVE  StateOK'
  BY <1>14 DEF SignalSingle, Signal, StateOK, Job, Single
<1>15. CASE Release
  <2>1. CASE irq_type = "none"
    BY <1>15, <2>1 DEF Release, StateOK
  <2>2. CASE irq_type # "none"
    <3>1. Begin("down", 0, 0, NoFds, FALSE)
      BY <1>15, <2>2 DEF Release
    <3>2. job' \in Job
      BY <3>1 DEF Begin, StateOK, Job
    <3> QED
      BY <1>15, <3>2 DEF Release, StateOK
  <2> QED
    BY <2>1, <2>2
<1>16. CASE Open
  BY <1>16 DEF Open, StateOK, Job, Single
<1>17. ASSUME NEW v \in Vector, Fire(v)
      PROVE  StateOK'
  BY <1>17 DEF Fire, StateOK, Job, Single
<1>18. ASSUME NEW v \in Vector, HandlerSignal(v)
      PROVE  StateOK'
  BY <1>18 DEF HandlerSignal, Signal, StateOK, Job, Single
<1>19. ASSUME NEW fd \in Fd, Read(fd)
      PROVE  StateOK'
  BY <1>19 DEF Read, StateOK, Job, Single
<1>20. ASSUME NEW fd \in Fd, Close(fd)
      PROVE  StateOK'
  BY <1>20 DEF Close, StateOK, Job, Single
<1>21. ASSUME NEW fd \in Fd, Create(fd)
      PROVE  StateOK'
  BY <1>21 DEF Create, StateOK, Job, Single
<1>22. CASE UNCHANGED vars
  BY <1>22 DEF vars, StateOK, Job, Single
<1> QED
  BY <1>1, <1>2, <1>3, <1>4, <1>5, <1>6, <1>7, <1>8, <1>9, <1>10, <1>11,
     <1>12, <1>13, <1>14, <1>15, <1>16, <1>17, <1>18, <1>19, <1>20, <1>21,
     <1>22 DEF Next, Ioctl, Work

(* The call in progress stays within its block.                            *)
LEMMA JobStep == ASSUME IndInv, [Next]_vars PROVE JobInv'
<1> USE IdleJob, NoFdsType DEF IndInv, TypeOK, JobInv, Block
<1>1. ASSUME NEW t \in {"msi", "msix"}, NEW start \in Vector,
        NEW stop \in 0..NVec, NEW fds \in [Vector -> FdOrNone],
        IoctlBlock(t, start, stop, fds)
      PROVE  JobInv'
  BY <1>1 DEF IoctlBlock, MayCall, Begin, StateOK, Job, HandlersMatch
<1>2. ASSUME NEW t \in {"msi", "msix"}, NEW start \in Vector,
        NEW stop \in 0..NVec, NEW fds \in [Vector -> FdOrNone],
        IoctlEnable(t, start, stop, fds)
      PROVE  JobInv'
  BY <1>2 DEF IoctlEnable, MayCall, Begin, StateOK, Job, HandlersMatch
<1>3. ASSUME NEW t \in {"msi", "msix"}, IoctlDisable(t)
      PROVE  JobInv'
  BY <1>3 DEF IoctlDisable, MayCall, Begin, StateOK, Job, HandlersMatch
<1>4. ASSUME NEW S \in SUBSET Vector, IoctlLoopback(S)
      PROVE  JobInv'
  BY <1>4 DEF IoctlLoopback, MayCall, Signal, StateOK, Job, HandlersMatch
<1>5. ASSUME NEW s \in Single, NEW fd \in FdOrNone, IoctlSingle(s, fd)
      PROVE  JobInv'
  BY <1>5 DEF IoctlSingle, MayCall, Get, Put, StateOK, Job, HandlersMatch
<1>6. CASE BlockFree
  BY <1>6 DEF BlockFree, Drop, Put, Advance, StateOK, Job, HandlersMatch
<1>7. CASE BlockGet
  <2>1. CASE job' = [job EXCEPT !.pc = "undo"]
    BY <1>7, <2>1 DEF BlockGet, StateOK, Job
  <2>2. CASE job' = [job EXCEPT !.pc = "request", !.got = job.fds[job.cur]]
    BY <1>7, <2>2 DEF BlockGet, StateOK, Job
  <2> QED
    BY <1>7, <2>1, <2>2 DEF BlockGet
<1>8. CASE BlockRequest
  BY <1>8 DEF BlockRequest, StateOK, Job, HandlersMatch
<1>9. CASE BlockRequestFails
  BY <1>9 DEF BlockRequestFails, Put, StateOK, Job, HandlersMatch
<1>10. CASE BlockInstall
  BY <1>10 DEF BlockInstall, Advance, StateOK, Job, HandlersMatch
<1>11. CASE BlockUndo
  BY <1>11 DEF BlockUndo, Drop, Put, UndoEnd, StateOK, Job, HandlersMatch
<1>12. CASE Down
  BY <1>12 DEF Down, Drop, Put, StateOK, Job, HandlersMatch
<1>13. CASE Off
  BY <1>13 DEF Off, StateOK, Job, HandlersMatch
<1>14. ASSUME NEW s \in Single, SignalSingle(s)
      PROVE  JobInv'
  BY <1>14 DEF SignalSingle, Signal, StateOK, Job, HandlersMatch
<1>15. CASE Release
  BY <1>15 DEF Release, MayCall, Begin, StateOK, Job, HandlersMatch
<1>16. CASE Open
  BY <1>16 DEF Open, StateOK, Job, HandlersMatch
<1>17. ASSUME NEW v \in Vector, Fire(v)
      PROVE  JobInv'
  BY <1>17 DEF Fire, StateOK, Job, HandlersMatch
<1>18. ASSUME NEW v \in Vector, HandlerSignal(v)
      PROVE  JobInv'
  BY <1>18 DEF HandlerSignal, Signal, StateOK, Job, HandlersMatch
<1>19. ASSUME NEW fd \in Fd, Read(fd)
      PROVE  JobInv'
  BY <1>19 DEF Read, StateOK, Job, HandlersMatch
<1>20. ASSUME NEW fd \in Fd, Close(fd)
      PROVE  JobInv'
  BY <1>20 DEF Close, StateOK, Job, HandlersMatch
<1>21. ASSUME NEW fd \in Fd, Create(fd)
      PROVE  JobInv'
  BY <1>21 DEF Create, StateOK, Job, HandlersMatch
<1>22. CASE UNCHANGED vars
  BY <1>22 DEF vars, StateOK, Job, HandlersMatch
<1> QED
  BY <1>1, <1>2, <1>3, <1>4, <1>5, <1>6, <1>7, <1>8, <1>9, <1>10, <1>11,
     <1>12, <1>13, <1>14, <1>15, <1>16, <1>17, <1>18, <1>19, <1>20, <1>21,
     <1>22 DEF Next, Ioctl, Work

(* Registering, storing and taking down go together.                       *)
LEMMA HandlersStep == ASSUME IndInv, [Next]_vars PROVE HandlersMatch'
<1> USE IdleJob, NoFdsType DEF IndInv, TypeOK, JobInv, Block
<1>1. ASSUME NEW t \in {"msi", "msix"}, NEW start \in Vector,
        NEW stop \in 0..NVec, NEW fds \in [Vector -> FdOrNone],
        IoctlBlock(t, start, stop, fds)
      PROVE  HandlersMatch'
  BY <1>1 DEF IoctlBlock, MayCall, Begin, StateOK, Job, HandlersMatch
<1>2. ASSUME NEW t \in {"msi", "msix"}, NEW start \in Vector,
        NEW stop \in 0..NVec, NEW fds \in [Vector -> FdOrNone],
        IoctlEnable(t, start, stop, fds)
      PROVE  HandlersMatch'
  BY <1>2 DEF IoctlEnable, MayCall, Begin, StateOK, Job, HandlersMatch
<1>3. ASSUME NEW t \in {"msi", "msix"}, IoctlDisable(t)
      PROVE  HandlersMatch'
  BY <1>3 DEF IoctlDisable, MayCall, Begin, StateOK, Job, HandlersMatch
<1>4. ASSUME NEW S \in SUBSET Vector, IoctlLoopback(S)
      PROVE  HandlersMatch'
  BY <1>4 DEF IoctlLoopback, MayCall, Signal, StateOK, Job, HandlersMatch
<1>5. ASSUME NEW s \in Single, NEW fd \in FdOrNone, IoctlSingle(s, fd)
      PROVE  HandlersMatch'
  BY <1>5 DEF IoctlSingle, MayCall, Get, Put, StateOK, Job, HandlersMatch
<1>6. CASE BlockFree
  BY <1>6 DEF BlockFree, Drop, Put, Advance, StateOK, Job, HandlersMatch
<1>7. CASE BlockGet
  BY <1>7 DEF BlockGet, Get, StateOK, Job, HandlersMatch
<1>8. CASE BlockRequest
  BY <1>8 DEF BlockRequest, StateOK, Job, HandlersMatch
<1>9. CASE BlockRequestFails
  BY <1>9 DEF BlockRequestFails, Put, StateOK, Job, HandlersMatch
<1>10. CASE BlockInstall
  BY <1>10 DEF BlockInstall, Advance, StateOK, Job, HandlersMatch
<1>11. CASE BlockUndo
  BY <1>11 DEF BlockUndo, Drop, Put, UndoEnd, StateOK, Job, HandlersMatch
<1>12. CASE Down
  BY <1>12 DEF Down, Drop, Put, StateOK, Job, HandlersMatch
<1>13. CASE Off
  BY <1>13 DEF Off, StateOK, Job, HandlersMatch
<1>14. ASSUME NEW s \in Single, SignalSingle(s)
      PROVE  HandlersMatch'
  BY <1>14 DEF SignalSingle, Signal, StateOK, Job, HandlersMatch
<1>15. CASE Release
  BY <1>15 DEF Release, MayCall, Begin, StateOK, Job, HandlersMatch
<1>16. CASE Open
  BY <1>16 DEF Open, StateOK, Job, HandlersMatch
<1>17. ASSUME NEW v \in Vector, Fire(v)
      PROVE  HandlersMatch'
  BY <1>17 DEF Fire, StateOK, Job, HandlersMatch
<1>18. ASSUME NEW v \in Vector, HandlerSignal(v)
      PROVE  HandlersMatch'
  BY <1>18 DEF HandlerSignal, Signal, StateOK, Job, HandlersMatch
<1>19. ASSUME NEW fd \in Fd, Read(fd)
      PROVE  HandlersMatch'
  BY <1>19 DEF Read, StateOK, Job, HandlersMatch
<1>20. ASSUME NEW fd \in Fd, Close(fd)
      PROVE  HandlersMatch'
  BY <1>20 DEF Close, StateOK, Job, HandlersMatch
<1>21. ASSUME NEW fd \in Fd, Create(fd)
      PROVE  HandlersMatch'
  BY <1>21 DEF Create, StateOK, Job, HandlersMatch
<1>22. CASE UNCHANGED vars
  BY <1>22 DEF vars, StateOK, Job, HandlersMatch
<1> QED
  BY <1>1, <1>2, <1>3, <1>4, <1>5, <1>6, <1>7, <1>8, <1>9, <1>10, <1>11,
     <1>12, <1>13, <1>14, <1>15, <1>16, <1>17, <1>18, <1>19, <1>20, <1>21,
     <1>22 DEF Next, Ioctl, Work

(* free_irq waits for the handler.                                         *)
LEMMA RunStep == ASSUME IndInv, [Next]_vars PROVE RunInv'
<1> USE IdleJob, NoFdsType DEF IndInv, TypeOK, RunInv
<1>1. ASSUME NEW t \in {"msi", "msix"}, NEW start \in Vector,
        NEW stop \in 0..NVec, NEW fds \in [Vector -> FdOrNone],
        IoctlBlock(t, start, stop, fds)
      PROVE  RunInv'
  BY <1>1 DEF IoctlBlock, MayCall, Begin, StateOK, Job, HandlersMatch, JobInv
<1>2. ASSUME NEW t \in {"msi", "msix"}, NEW start \in Vector,
        NEW stop \in 0..NVec, NEW fds \in [Vector -> FdOrNone],
        IoctlEnable(t, start, stop, fds)
      PROVE  RunInv'
  BY <1>2 DEF IoctlEnable, MayCall, Begin, StateOK, Job, HandlersMatch,
     JobInv
<1>3. ASSUME NEW t \in {"msi", "msix"}, IoctlDisable(t)
      PROVE  RunInv'
  BY <1>3 DEF IoctlDisable, MayCall, Begin, StateOK, Job, HandlersMatch,
     JobInv
<1>4. ASSUME NEW S \in SUBSET Vector, IoctlLoopback(S)
      PROVE  RunInv'
  BY <1>4 DEF IoctlLoopback, MayCall, Signal, StateOK, Job, HandlersMatch,
     JobInv
<1>5. ASSUME NEW s \in Single, NEW fd \in FdOrNone, IoctlSingle(s, fd)
      PROVE  RunInv'
  BY <1>5 DEF IoctlSingle, MayCall, Get, Put, StateOK, Job, HandlersMatch,
     JobInv
<1>6. CASE BlockFree
  BY <1>6 DEF BlockFree, Drop, Put, Advance, StateOK, Job, HandlersMatch,
     JobInv
<1>7. CASE BlockGet
  BY <1>7 DEF BlockGet, Get, StateOK, Job, HandlersMatch, JobInv
<1>8. CASE BlockRequest
  BY <1>8 DEF BlockRequest, StateOK, Job, HandlersMatch, JobInv
<1>9. CASE BlockRequestFails
  BY <1>9 DEF BlockRequestFails, Put, StateOK, Job, HandlersMatch, JobInv
<1>10. CASE BlockInstall
  BY <1>10 DEF BlockInstall, Advance, StateOK, Job, HandlersMatch, JobInv
<1>11. CASE BlockUndo
  BY <1>11 DEF BlockUndo, Drop, Put, UndoEnd, StateOK, Job, HandlersMatch,
     JobInv
<1>12. CASE Down
  BY <1>12 DEF Down, Drop, Put, StateOK, Job, HandlersMatch, JobInv
<1>13. CASE Off
  BY <1>13 DEF Off, StateOK, Job, HandlersMatch, JobInv
<1>14. ASSUME NEW s \in Single, SignalSingle(s)
      PROVE  RunInv'
  BY <1>14 DEF SignalSingle, Signal, StateOK, Job, HandlersMatch, JobInv
<1>15. CASE Release
  BY <1>15 DEF Release, MayCall, Begin, StateOK, Job, HandlersMatch, JobInv
<1>16. CASE Open
  BY <1>16 DEF Open, StateOK, Job, HandlersMatch, JobInv
<1>17. ASSUME NEW v \in Vector, Fire(v)
      PROVE  RunInv'
  BY <1>17 DEF Fire, StateOK, Job, HandlersMatch, JobInv
<1>18. ASSUME NEW v \in Vector, HandlerSignal(v)
      PROVE  RunInv'
  BY <1>18 DEF HandlerSignal, Signal, StateOK, Job, HandlersMatch, JobInv
<1>19. ASSUME NEW fd \in Fd, Read(fd)
      PROVE  RunInv'
  BY <1>19 DEF Read, StateOK, Job, HandlersMatch, JobInv
<1>20. ASSUME NEW fd \in Fd, Close(fd)
      PROVE  RunInv'
  BY <1>20 DEF Close, StateOK, Job, HandlersMatch, JobInv
<1>21. ASSUME NEW fd \in Fd, Create(fd)
      PROVE  RunInv'
  BY <1>21 DEF Create, StateOK, Job, HandlersMatch, JobInv
<1>22. CASE UNCHANGED vars
  BY <1>22 DEF vars, StateOK, Job, HandlersMatch, JobInv
<1> QED
  BY <1>1, <1>2, <1>3, <1>4, <1>5, <1>6, <1>7, <1>8, <1>9, <1>10, <1>11,
     <1>12, <1>13, <1>14, <1>15, <1>16, <1>17, <1>18, <1>19, <1>20, <1>21,
     <1>22 DEF Next, Ioctl, Work

(* A call changes the vectors it has reached and no others.                *)
LEMMA RollStep == ASSUME IndInv, [Next]_vars PROVE RollInv'
<1> USE IdleJob, NoFdsType DEF IndInv, TypeOK, RollInv, JobInv, Block
<1>1. ASSUME NEW t \in {"msi", "msix"}, NEW start \in Vector,
        NEW stop \in 0..NVec, NEW fds \in [Vector -> FdOrNone],
        IoctlBlock(t, start, stop, fds)
      PROVE  RollInv'
  BY <1>1 DEF IoctlBlock, MayCall, Begin, StateOK, Job
<1>2. ASSUME NEW t \in {"msi", "msix"}, NEW start \in Vector,
        NEW stop \in 0..NVec, NEW fds \in [Vector -> FdOrNone],
        IoctlEnable(t, start, stop, fds)
      PROVE  RollInv'
  BY <1>2 DEF IoctlEnable, MayCall, Begin, StateOK, Job
<1>3. ASSUME NEW t \in {"msi", "msix"}, IoctlDisable(t)
      PROVE  RollInv'
  BY <1>3 DEF IoctlDisable, MayCall, Begin, StateOK, Job
<1>4. ASSUME NEW S \in SUBSET Vector, IoctlLoopback(S)
      PROVE  RollInv'
  BY <1>4 DEF IoctlLoopback, MayCall, Signal, StateOK, Job
<1>5. ASSUME NEW s \in Single, NEW fd \in FdOrNone, IoctlSingle(s, fd)
      PROVE  RollInv'
  BY <1>5 DEF IoctlSingle, MayCall, Get, Put, StateOK, Job
<1>6. CASE BlockFree
  <2>1. /\ job \in Job /\ trigger \in [Vector -> FdOrNone]
        /\ job.cur \in Vector /\ job.pc \in Block
        /\ job.start <= job.cur /\ job.cur < job.stop
    BY <1>6 DEF BlockFree, StateOK, Job
  <2>2. /\ trigger' = [trigger EXCEPT ![job.cur] = None]
        /\ \/ job' = Idle
           \/ /\ job'.start = job.start /\ job'.stop = job.stop
              /\ job'.old = job.old /\ job'.cur \in {job.cur, job.cur + 1}
    BY <1>6, <2>1 DEF BlockFree, Drop, Advance, Job
  <2>3. CASE job' = Idle
    BY <2>3
  <2>4. CASE job' # Idle
    <3> SUFFICES ASSUME NEW v \in Vector
                 PROVE  /\ v \notin job.start..job.stop - 1
                             => trigger'[v] = job.old[v]
                        /\ v > job'.cur
                             => trigger'[v] \in {job.old[v], None}
      BY <2>2, <2>4
    <3>1. v # job.cur => trigger'[v] = trigger[v]
      BY <2>1, <2>2
    <3>2. /\ v \notin job.start..job.stop - 1 => trigger[v] = job.old[v]
          /\ v > job.cur => trigger[v] \in {job.old[v], None}
      BY <2>1
    <3>3. job.cur \in job.start..job.stop - 1
      BY <2>1 DEF Job
    <3>4. v > job'.cur => v > job.cur
      BY <2>1, <2>2, <2>4
    <3> QED
      BY <3>1, <3>2, <3>3, <3>4
  <2> QED
    BY <2>3, <2>4
<1>7. CASE BlockGet
  <2>1. /\ trigger' = trigger /\ job.pc \in Block
        /\ job'.start = job.start /\ job'.stop = job.stop
        /\ job'.old = job.old /\ job'.cur = job.cur
    <3>1. /\ trigger' = trigger /\ job.pc = "get" /\ job \in Job
          /\ \/ job' = [job EXCEPT !.pc = "request", !.got = job.fds[job.cur]]
             \/ job' = [job EXCEPT !.pc = "undo"]
      BY <1>7 DEF BlockGet, StateOK
    <3> HIDE DEF IndInv
    <3> QED
      BY <3>1 DEF Job
  <2> QED
    BY <2>1
<1>8. CASE BlockRequest
  BY <1>8 DEF BlockRequest, StateOK, Job
<1>9. CASE BlockRequestFails
  BY <1>9 DEF BlockRequestFails, Put, StateOK, Job
<1>10. CASE BlockInstall
  BY <1>10, SMTT(60) DEF BlockInstall, Advance, StateOK, Job
<1>11. CASE BlockUndo
  BY <1>11, SMTT(60) DEF BlockUndo, Drop, Put, UndoEnd, StateOK, Job
<1>12. CASE Down
  BY <1>12 DEF Down, Drop, Put, StateOK, Job
<1>13. CASE Off
  BY <1>13 DEF Off, StateOK, Job
<1>14. ASSUME NEW s \in Single, SignalSingle(s)
      PROVE  RollInv'
  BY <1>14 DEF SignalSingle, Signal, StateOK, Job
<1>15. CASE Release
  BY <1>15 DEF Release, MayCall, Begin, StateOK, Job
<1>16. CASE Open
  BY <1>16 DEF Open, StateOK, Job
<1>17. ASSUME NEW v \in Vector, Fire(v)
      PROVE  RollInv'
  BY <1>17 DEF Fire, StateOK, Job
<1>18. ASSUME NEW v \in Vector, HandlerSignal(v)
      PROVE  RollInv'
  BY <1>18 DEF HandlerSignal, Signal, StateOK, Job
<1>19. ASSUME NEW fd \in Fd, Read(fd)
      PROVE  RollInv'
  BY <1>19 DEF Read, StateOK, Job
<1>20. ASSUME NEW fd \in Fd, Close(fd)
      PROVE  RollInv'
  BY <1>20 DEF Close, StateOK, Job
<1>21. ASSUME NEW fd \in Fd, Create(fd)
      PROVE  RollInv'
  BY <1>21 DEF Create, StateOK, Job
<1>22. CASE UNCHANGED vars
  BY <1>22 DEF vars, StateOK, Job
<1> QED
  BY <1>1, <1>2, <1>3, <1>4, <1>5, <1>6, <1>7, <1>8, <1>9, <1>10, <1>11,
     <1>12, <1>13, <1>14, <1>15, <1>16, <1>17, <1>18, <1>19, <1>20, <1>21,
     <1>22 DEF Next, Ioctl, Work

----------------------------------------------------------------------------
(* References                                                              *)

(* The vectors whose trigger is fd.                                        *)
Users(f, fd) == {v \in Vector : f[v] = fd}

(* Storing x in vector v takes one user from what was there and gives one  *)
(* to x.                                                                   *)
LEMMA CountUsers ==
    ASSUME NEW f \in [Vector -> FdOrNone], NEW v \in Vector,
           NEW x \in FdOrNone, NEW fd \in Fd
    PROVE  /\ Cardinality(Users(f, fd)) \in Nat
           /\ Cardinality(Users([f EXCEPT ![v] = x], fd))
                = Cardinality(Users(f, fd)) - One(f[v], fd) + One(x, fd)
<1> SUFFICES ASSUME NEW g, g = [f EXCEPT ![v] = x]
             PROVE  /\ Cardinality(Users(f, fd)) \in Nat
                    /\ Cardinality(Users(g, fd))
                         = Cardinality(Users(f, fd)) - One(f[v], fd) + One(x, fd)
  OBVIOUS
<1> DEFINE U == Users(f, fd)
           W == Users(g, fd)
<1>1. IsFiniteSet(0..(NVec - 1))
  BY FS_Interval
<1>2. IsFiniteSet(U) /\ IsFiniteSet(W)
  BY <1>1, FS_Subset DEF Users
<1>3. Cardinality(U) \in Nat /\ Cardinality(W) \in Nat
  BY <1>2, FS_CardinalityType
<1>4. CASE f[v] = fd /\ x = fd
  <2>1. W = U
    BY <1>4 DEF Users
  <2> QED
    BY <2>1, <1>3, <1>4 DEF One
<1>5. CASE f[v] # fd /\ x # fd
  <2>1. W = U
    BY <1>5 DEF Users
  <2> QED
    BY <2>1, <1>3, <1>5 DEF One
<1>6. CASE f[v] = fd /\ x # fd
  <2>1. W = U \ {v} /\ v \in U
    BY <1>6 DEF Users
  <2>2. Cardinality(W) = Cardinality(U) - 1
    BY <1>2, <2>1, FS_RemoveElement
  <2> QED
    BY <2>2, <1>3, <1>6 DEF One
<1>7. CASE f[v] # fd /\ x = fd
  <2>1. W = U \cup {v} /\ v \notin U
    BY <1>7 DEF Users
  <2>2. Cardinality(W) = Cardinality(U) + 1
    BY <1>2, <2>1, FS_AddElement
  <2> QED
    BY <2>2, <1>3, <1>7 DEF One
<1> QED
  BY <1>4, <1>5, <1>6, <1>7, <1>3

(* The same of the trigger array across a step.                            *)
LEMMA StoreTrigger ==
    ASSUME trigger \in [Vector -> FdOrNone], NEW v \in Vector,
           NEW x \in FdOrNone, NEW fd \in Fd,
           trigger' = [trigger EXCEPT ![v] = x]
    PROVE  /\ Cardinality(Users(trigger, fd)) \in Nat
           /\ Cardinality(Users(trigger', fd))
                = Cardinality(Users(trigger, fd)) - One(trigger[v], fd)
                    + One(x, fd)
<1> HIDE DEF Vector, FdOrNone
<1>1. PICK f \in [Vector -> FdOrNone] : f = trigger
  OBVIOUS
<1>2. PICK g : g = trigger'
  OBVIOUS
<1>3. g = [f EXCEPT ![v] = x]
  BY <1>1, <1>2
<1>4. /\ Cardinality(Users(f, fd)) \in Nat
      /\ Cardinality(Users([f EXCEPT ![v] = x], fd))
           = Cardinality(Users(f, fd)) - One(f[v], fd) + One(x, fd)
  BY CountUsers
<1> QED
  BY <1>1, <1>2, <1>3, <1>4

(* What RefsBalanced asks of the references, in terms of Users.            *)
Due(fd) ==
    Cardinality(Users(trigger, fd)) + One(single["err"], fd)
    + One(single["req"], fd) + One(job.got, fd)

LEMMA Balance == RefsBalanced <=> \A fd \in Fd : refs[fd] = Due(fd)
  BY DEF RefsBalanced, Due, Users

(* A step that touches no trigger and no reference keeps them balanced.    *)
LEMMA SameRefs ==
    ASSUME RefsBalanced, refs' = refs, trigger' = trigger, single' = single,
           job'.got = job.got
    PROVE  RefsBalanced'
  BY DEF RefsBalanced

(* Taking down vector v gives its reference back.                          *)
LEMMA DropRefs ==
    ASSUME IndInv, NEW v \in Vector, Drop(v), job'.got = job.got
    PROVE  RefsBalanced'
<1> SUFFICES ASSUME NEW fd \in Fd PROVE refs'[fd] = Due(fd)'
  BY DEF RefsBalanced, Due, Users
<1>1. trigger \in [Vector -> FdOrNone] /\ None \in FdOrNone
  BY DEF IndInv, TypeOK, StateOK
<1>2. trigger' = [trigger EXCEPT ![v] = None]
  BY DEF Drop
<1>3. /\ Cardinality(Users(trigger, fd)) \in Nat
      /\ Cardinality(Users(trigger', fd)) =
            Cardinality(Users(trigger, fd)) - One(trigger[v], fd)
            + One(None, fd)
  <2> HIDE DEF Vector, FdOrNone, IndInv, One, Users
  <2> QED
    BY <1>1, <1>2, StoreTrigger, Zenon
<1>4. refs'[fd] = refs[fd] - One(trigger[v], fd)
  BY DEF Drop, Put, One, IndInv, TypeOK
<1>5. refs[fd] = Due(fd)
  BY Balance DEF IndInv
<1>6. single' = single /\ One(None, fd) = 0 /\ One(trigger[v], fd) \in {0, 1}
  BY DEF Drop, One
<1>7. /\ One(single["err"], fd) \in {0, 1} /\ One(single["req"], fd) \in {0, 1}
      /\ One(job.got, fd) \in {0, 1}
  BY DEF One
<1> QED
  BY <1>3, <1>4, <1>5, <1>6, <1>7 DEF Due


(* There are as many users as can be counted.                              *)
LEMMA UsersType ==
    ASSUME NEW fd \in Fd PROVE Cardinality(Users(trigger, fd)) \in Nat
<1>1. IsFiniteSet(0..(NVec - 1))
  BY FS_Interval
<1> QED
  BY <1>1, FS_Subset, FS_CardinalityType DEF Users

(* Taking an eventfd in hand, or letting it go, counts for one reference.  *)
LEMMA HandRefs ==
    ASSUME IndInv, trigger' = trigger, single' = single,
           \A fd \in Fd :
             refs'[fd] = refs[fd] - One(job.got, fd) + One(job'.got, fd)
    PROVE  RefsBalanced'
<1> SUFFICES ASSUME NEW fd \in Fd PROVE refs'[fd] = Due(fd)'
  BY DEF RefsBalanced, Due, Users
<1>1. refs[fd] = Due(fd) /\ Cardinality(Users(trigger, fd)) \in Nat
  BY Balance, UsersType DEF IndInv
<1>2. /\ One(single["err"], fd) \in {0, 1} /\ One(single["req"], fd) \in {0, 1}
      /\ One(job.got, fd) \in {0, 1} /\ One(job'.got, fd) \in {0, 1}
  BY DEF One
<1> QED
  BY <1>1, <1>2 DEF Due

(* Every operation keeps the references balanced.                          *)
LEMMA RefsStep == ASSUME IndInv, [Next]_vars PROVE RefsBalanced'
<1> USE IdleJob DEF IndInv, TypeOK, JobInv
<1>1. ASSUME NEW t \in {"msi", "msix"}, NEW start \in Vector,
        NEW stop \in 0..NVec, NEW fds \in [Vector -> FdOrNone],
        IoctlBlock(t, start, stop, fds)
      PROVE  RefsBalanced'
  <2>1. /\ refs' = refs /\ trigger' = trigger /\ single' = single
        /\ job'.got = job.got
    BY <1>1 DEF IoctlBlock, MayCall, Begin, StateOK, Job
  <2> QED
    BY <2>1, SameRefs
<1>2. ASSUME NEW t \in {"msi", "msix"}, NEW start \in Vector,
        NEW stop \in 0..NVec, NEW fds \in [Vector -> FdOrNone],
        IoctlEnable(t, start, stop, fds)
      PROVE  RefsBalanced'
  <2>1. /\ refs' = refs /\ trigger' = trigger /\ single' = single
        /\ job'.got = job.got
    BY <1>2 DEF IoctlEnable, MayCall, Begin, StateOK, Job
  <2> QED
    BY <2>1, SameRefs
<1>3. ASSUME NEW t \in {"msi", "msix"}, IoctlDisable(t)
      PROVE  RefsBalanced'
  <2>1. /\ refs' = refs /\ trigger' = trigger /\ single' = single
        /\ job'.got = job.got
    BY <1>3 DEF IoctlDisable, MayCall, Begin, StateOK, Job
  <2> QED
    BY <2>1, SameRefs
<1>4. ASSUME NEW S \in SUBSET Vector, IoctlLoopback(S)
      PROVE  RefsBalanced'
  <2>1. /\ refs' = refs /\ trigger' = trigger /\ single' = single
        /\ job'.got = job.got
    BY <1>4 DEF IoctlLoopback, MayCall, Signal, StateOK, Job
  <2> QED
    BY <2>1, SameRefs
<1>5. ASSUME NEW s \in Single, NEW fd \in FdOrNone, IoctlSingle(s, fd)
      PROVE  RefsBalanced'
  <2> SUFFICES ASSUME NEW e \in Fd PROVE refs'[e] = Due(e)'
    BY DEF RefsBalanced, Due, Users
  <2>1. /\ trigger' = trigger /\ job' = job
        /\ single' = [single EXCEPT ![s] = fd]
        /\ refs' = Put(Get(refs, fd), single[s])
    BY <1>5 DEF IoctlSingle
  <2>2. refs'[e] = refs[e] - One(single[s], e) + One(fd, e)
    BY <2>1 DEF Get, Put, One
  <2>3. refs[e] = Due(e) /\ Cardinality(Users(trigger, e)) \in Nat
    BY Balance, UsersType
  <2>4. /\ One(single["err"], e) \in {0, 1} /\ One(single["req"], e) \in {0,
          1}
        /\ One(fd, e) \in {0, 1} /\ One(job.got, e) \in {0, 1}
    BY DEF One
  <2>5. \/ s = "err" /\ single'["err"] = fd /\ single'["req"] = single["req"]
        \/ s = "req" /\ single'["req"] = fd /\ single'["err"] = single["err"]
    BY <2>1 DEF Single, StateOK
  <2> QED
    BY <2>1, <2>2, <2>3, <2>4, <2>5 DEF Due
<1>6. CASE BlockFree
  <2>1. Drop(job.cur) /\ job.cur \in Vector
    BY <1>6 DEF BlockFree, StateOK, Job
  <2>2. job'.got = job.got
    BY <1>6 DEF BlockFree, Advance, StateOK, Job, Block
  <2> QED
    BY <2>1, <2>2, DropRefs
<1>7. CASE BlockGet
  <2>1. CASE job' = [job EXCEPT !.pc = "undo"] /\ refs' = refs
    <3>1. /\ trigger' = trigger /\ single' = single
          /\ job'.got = job.got
      BY <1>7, <2>1 DEF BlockGet, StateOK, Job
    <3> QED
      BY <2>1, <3>1, SameRefs
  <2>2. CASE /\ job' = [job EXCEPT !.pc = "request",
                                   !.got = job.fds[job.cur]]
             /\ refs' = Get(refs, job.fds[job.cur])
    <3>1. /\ trigger' = trigger /\ single' = single
          /\ job.got = None /\ job'.got = job.fds[job.cur]
      BY <1>7, <2>2 DEF BlockGet, StateOK, Job
    <3>2. \A fd \in Fd :
            refs'[fd] = refs[fd] - One(job.got, fd) + One(job'.got, fd)
      BY <2>2, <3>1 DEF Get, One
    <3> QED
      BY <3>1, <3>2, HandRefs
  <2> QED
    BY <1>7, <2>1, <2>2 DEF BlockGet
<1>8. CASE BlockRequest
  <2>1. /\ refs' = refs /\ trigger' = trigger /\ single' = single
        /\ job'.got = job.got
    BY <1>8 DEF BlockRequest, StateOK, Job
  <2> QED
    BY <2>1, SameRefs
<1>9. CASE BlockRequestFails
  <2>1. /\ trigger' = trigger /\ single' = single
        /\ job'.got = None /\ refs' = Put(refs, job.got)
    BY <1>9 DEF BlockRequestFails, StateOK, Job
  <2>2. \A fd \in Fd :
          refs'[fd] = refs[fd] - One(job.got, fd) + One(job'.got, fd)
    BY <2>1 DEF Put, One
  <2> QED
    BY <2>1, <2>2, HandRefs
<1>10. CASE BlockInstall
  <2> SUFFICES ASSUME NEW fd \in Fd PROVE refs'[fd] = Due(fd)'
    BY DEF RefsBalanced, Due, Users
  <2>1. /\ trigger \in [Vector -> FdOrNone] /\ job.got \in FdOrNone
        /\ job.cur \in Vector /\ trigger[job.cur] = None
    BY <1>10 DEF BlockInstall, StateOK, Job
  <2>2. trigger' = [trigger EXCEPT ![job.cur] = job.got]
    BY <1>10 DEF BlockInstall
  <2>3. /\ Cardinality(Users(trigger, fd)) \in Nat
        /\ Cardinality(Users(trigger', fd)) =
              Cardinality(Users(trigger, fd)) - One(trigger[job.cur], fd)
              + One(job.got, fd)
    <3> HIDE DEF Vector, FdOrNone, IndInv, TypeOK, JobInv, One, Users
    <3> QED
      BY <2>1, <2>2, StoreTrigger
  <2>4. refs'[fd] = refs[fd] /\ single' = single /\ job'.got = None
    BY <1>10 DEF BlockInstall, Advance, StateOK, Job
  <2>5. One(trigger[job.cur], fd) = 0 /\ One(None, fd) = 0
    BY <2>1 DEF One
  <2>6. One(job.got, fd) \in {0, 1} /\ refs[fd] = Due(fd)
    BY Balance DEF One
  <2>7. /\ One(single["err"], fd) \in {0, 1}
        /\ One(single["req"], fd) \in {0, 1}
    BY DEF One
  <2> QED
    BY <2>3, <2>4, <2>5, <2>6, <2>7 DEF Due
<1>11. CASE BlockUndo
  <2>1. Drop(job.cur) /\ job.cur \in Vector
    BY <1>11 DEF BlockUndo, StateOK, Job
  <2>2. job'.got = job.got
    BY <1>11 DEF BlockUndo, UndoEnd, StateOK, Job, Block
  <2> QED
    BY <2>1, <2>2, DropRefs
<1>12. CASE Down
  <2>1. Drop(job.cur) /\ job.cur \in Vector
    BY <1>12 DEF Down, StateOK, Job
  <2>2. job'.got = job.got
    BY <1>12 DEF Down, StateOK, Job, Block
  <2> QED
    BY <2>1, <2>2, DropRefs
<1>13. CASE Off
  <2>1. /\ refs' = refs /\ trigger' = trigger /\ single' = single
        /\ job'.got = job.got
    BY <1>13 DEF Off, StateOK, Job
  <2> QED
    BY <2>1, SameRefs
<1>14. ASSUME NEW s \in Single, SignalSingle(s)
      PROVE  RefsBalanced'
  <2>1. /\ refs' = refs /\ trigger' = trigger /\ single' = single
        /\ job'.got = job.got
    BY <1>14 DEF SignalSingle, Signal, StateOK, Job
  <2> QED
    BY <2>1, SameRefs
<1>15. CASE Release
  <2>1. /\ refs' = refs /\ trigger' = trigger /\ single' = single
        /\ job'.got = job.got
    BY <1>15 DEF Release, MayCall, Begin, StateOK, Job
  <2> QED
    BY <2>1, SameRefs
<1>16. CASE Open
  <2>1. /\ refs' = refs /\ trigger' = trigger /\ single' = single
        /\ job'.got = job.got
    BY <1>16 DEF Open, StateOK, Job
  <2> QED
    BY <2>1, SameRefs
<1>17. ASSUME NEW v \in Vector, Fire(v)
      PROVE  RefsBalanced'
  <2>1. /\ refs' = refs /\ trigger' = trigger /\ single' = single
        /\ job'.got = job.got
    BY <1>17 DEF Fire, StateOK, Job
  <2> QED
    BY <2>1, SameRefs
<1>18. ASSUME NEW v \in Vector, HandlerSignal(v)
      PROVE  RefsBalanced'
  <2>1. /\ refs' = refs /\ trigger' = trigger /\ single' = single
        /\ job'.got = job.got
    BY <1>18 DEF HandlerSignal, Signal, StateOK, Job
  <2> QED
    BY <2>1, SameRefs
<1>19. ASSUME NEW fd \in Fd, Read(fd)
      PROVE  RefsBalanced'
  <2>1. /\ refs' = refs /\ trigger' = trigger /\ single' = single
        /\ job'.got = job.got
    BY <1>19 DEF Read, StateOK, Job
  <2> QED
    BY <2>1, SameRefs
<1>20. ASSUME NEW fd \in Fd, Close(fd)
      PROVE  RefsBalanced'
  <2>1. /\ refs' = refs /\ trigger' = trigger /\ single' = single
        /\ job'.got = job.got
    BY <1>20 DEF Close, StateOK, Job
  <2> QED
    BY <2>1, SameRefs
<1>21. ASSUME NEW fd \in Fd, Create(fd)
      PROVE  RefsBalanced'
  <2>1. /\ refs' = refs /\ trigger' = trigger /\ single' = single
        /\ job'.got = job.got
    BY <1>21 DEF Create, StateOK, Job
  <2> QED
    BY <2>1, SameRefs
<1>22. CASE UNCHANGED vars
  BY <1>22 DEF vars, RefsBalanced
<1> QED
  BY <1>1, <1>2, <1>3, <1>4, <1>5, <1>6, <1>7, <1>8, <1>9, <1>10, <1>11,
     <1>12, <1>13, <1>14, <1>15, <1>16, <1>17, <1>18, <1>19, <1>20, <1>21,
     <1>22 DEF Next, Ioctl, Work

----------------------------------------------------------------------------
(* IndInv is an invariant.                                                 *)
LEMMA InitInv == Init => IndInv
<1> SUFFICES ASSUME Init PROVE IndInv
  OBVIOUS
<1> USE IdleJob, NoFdsType DEF Init
<1>1. TypeOK
  BY DEF TypeOK, StateOK, Single
<1>2. JobInv /\ HandlersMatch /\ RunInv /\ RollInv
  BY DEF JobInv, Block, HandlersMatch, RunInv, RollInv, NoFds
<1>3. RefsBalanced
  <2> SUFFICES ASSUME NEW fd \in Fd PROVE refs[fd] = Due(fd)
    BY Balance
  <2>1. Users(trigger, fd) = {}
    BY DEF Users, NoFds
  <2>2. Cardinality(Users(trigger, fd)) = 0
    BY <2>1, FS_EmptySet
  <2>3. One(None, fd) = 0 /\ single["err"] = None /\ single["req"] = None
    BY DEF One, Single
  <2> QED
    BY <2>2, <2>3 DEF Due
<1> QED
  BY <1>1, <1>2, <1>3 DEF IndInv

LEMMA StepInv == IndInv /\ [Next]_vars => IndInv'
<1> SUFFICES ASSUME IndInv, [Next]_vars PROVE IndInv'
  OBVIOUS
<1>1. StateOK' /\ RefsBalanced'
  BY StateStep, RefsStep
<1>2. refs' \in [Fd -> Nat]
  <2>1. \E f : refs' = [e \in Fd |-> f[e]]
    BY RefsFunction DEF IndInv, TypeOK
  <2>2. ASSUME NEW fd \in Fd PROVE refs'[fd] \in Nat
    <3>1. Cardinality(Users(trigger, fd))' \in Nat
      <4>1. IsFiniteSet(0..(NVec - 1))
        BY FS_Interval
      <4> QED
        BY <4>1, FS_Subset, FS_CardinalityType DEF Users
    <3>2. refs'[fd] = Cardinality(Users(trigger, fd))' + One(single'["err"], fd)
                      + One(single'["req"], fd) + One(job'.got, fd)
      BY <1>1 DEF RefsBalanced, Users
    <3> QED
      BY <3>1, <3>2 DEF One
  <2> QED
    BY <2>1, <2>2
<1> QED
  BY <1>1, <1>2, JobStep, HandlersStep, RunStep, RollStep DEF IndInv, TypeOK

THEOREM Invariance == Spec => []IndInv
  BY InitInv, StepInv, PTL DEF Spec


----------------------------------------------------------------------------
(* The variables keep their types; in particular no reference is given     *)
(* back that was not taken.                                                *)
THEOREM TypeCorrect == Spec => []TypeOK
<1>1. IndInv => TypeOK
  BY DEF IndInv
<1> QED
  BY <1>1, Invariance, PTL

(* Over all failures and roll-backs of vfio_msi_set_vector_signal the      *)
(* driver holds one reference for every trigger and no other.              *)
THEOREM ReferencesBalance == Spec => []RefsBalanced
<1>1. IndInv => RefsBalanced
  BY DEF IndInv
<1> QED
  BY <1>1, Invariance, PTL

(* An irq is registered exactly for the triggers, and none when            *)
(* vfio_msi_disable gives the vectors back.                                *)
THEOREM HandlersCorrect == Spec => []HandlersMatch
<1>1. IndInv => HandlersMatch
  BY DEF IndInv
<1> QED
  BY <1>1, Invariance, PTL

(* Only an eventfd in use is signalled, however late a handler is.         *)
InUse(fd) ==
    \/ \E v \in Vector : trigger[v] = fd
    \/ \E s \in Single : single[s] = fd
    \/ job.pc = "install" /\ job.got = fd

LEMMA SignalStep ==
    ASSUME IndInv, [Next]_vars
    PROVE  \A e \in signalled' \ signalled : InUse(e)
<1> USE DEF IndInv, TypeOK
<1>1. ASSUME NEW t \in {"msi", "msix"}, NEW start \in Vector,
        NEW stop \in 0..NVec, NEW fds \in [Vector -> FdOrNone],
        IoctlBlock(t, start, stop, fds)
      PROVE  \A e \in signalled' \ signalled : InUse(e)
  BY <1>1 DEF IoctlBlock
<1>2. ASSUME NEW t \in {"msi", "msix"}, NEW start \in Vector,
        NEW stop \in 0..NVec, NEW fds \in [Vector -> FdOrNone],
        IoctlEnable(t, start, stop, fds)
      PROVE  \A e \in signalled' \ signalled : InUse(e)
  BY <1>2 DEF IoctlEnable
<1>3. ASSUME NEW t \in {"msi", "msix"}, IoctlDisable(t)
      PROVE  \A e \in signalled' \ signalled : InUse(e)
  BY <1>3 DEF IoctlDisable
<1>4. ASSUME NEW S \in SUBSET Vector, IoctlLoopback(S)
      PROVE  \A e \in signalled' \ signalled : InUse(e)
  BY <1>4 DEF IoctlLoopback, Signal, StateOK, InUse
<1>5. ASSUME NEW s \in Single, NEW fd \in FdOrNone, IoctlSingle(s, fd)
      PROVE  \A e \in signalled' \ signalled : InUse(e)
  BY <1>5 DEF IoctlSingle
<1>6. CASE BlockFree
  BY <1>6 DEF BlockFree, Drop
<1>7. CASE BlockGet
  BY <1>7 DEF BlockGet
<1>8. CASE BlockRequest
  BY <1>8 DEF BlockRequest
<1>9. CASE BlockRequestFails
  BY <1>9 DEF BlockRequestFails
<1>10. CASE BlockInstall
  BY <1>10 DEF BlockInstall
<1>11. CASE BlockUndo
  BY <1>11 DEF BlockUndo, Drop
<1>12. CASE Down
  BY <1>12 DEF Down, Drop
<1>13. CASE Off
  BY <1>13 DEF Off
<1>14. ASSUME NEW s \in Single, SignalSingle(s)
      PROVE  \A e \in signalled' \ signalled : InUse(e)
  BY <1>14 DEF SignalSingle, Signal, StateOK, InUse
<1>15. CASE Release
  BY <1>15 DEF Release
<1>16. CASE Open
  BY <1>16 DEF Open
<1>17. ASSUME NEW v \in Vector, Fire(v)
      PROVE  \A e \in signalled' \ signalled : InUse(e)
  BY <1>17 DEF Fire
<1>18. ASSUME NEW v \in Vector, HandlerSignal(v)
      PROVE  \A e \in signalled' \ signalled : InUse(e)
  <2>1. signalled' = signalled \cup ({running[v]} \ {None}) /\ running[v] # None
    BY <1>18 DEF HandlerSignal, Signal
  <2>2. running[v] = handler[v]
    BY <1>18 DEF HandlerSignal, RunInv
  <2> QED
    BY <2>1, <2>2 DEF HandlersMatch, InUse
<1>19. ASSUME NEW fd \in Fd, Read(fd)
      PROVE  \A e \in signalled' \ signalled : InUse(e)
  BY <1>19 DEF Read
<1>20. ASSUME NEW fd \in Fd, Close(fd)
      PROVE  \A e \in signalled' \ signalled : InUse(e)
  BY <1>20 DEF Close
<1>21. ASSUME NEW fd \in Fd, Create(fd)
      PROVE  \A e \in signalled' \ signalled : InUse(e)
  BY <1>21 DEF Create
<1>22. CASE UNCHANGED vars
  BY <1>22 DEF vars
<1> QED
  BY <1>1, <1>2, <1>3, <1>4, <1>5, <1>6, <1>7, <1>8, <1>9, <1>10, <1>11,
     <1>12, <1>13, <1>14, <1>15, <1>16, <1>17, <1>18, <1>19, <1>20, <1>21,
     <1>22 DEF Next, Ioctl, Work

THEOREM SignalsCorrect == Spec => SignalsInstalled
<1>1. IndInv /\ [Next]_vars =>
        [\A fd \in signalled' \ signalled :
            \/ \E v \in Vector : trigger[v] = fd
            \/ \E s \in Single : single[s] = fd
            \/ job.pc = "install" /\ job.got = fd]_vars
  BY SignalStep DEF InUse
<1> QED
  BY <1>1, Invariance, PTL DEF Spec, SignalsInstalled

(* The end of a roll-back: what it has not reached before it reaches now.  *)
LEMMA UndoneStep ==
    ASSUME IndInv, [Next]_vars, job.pc = "undo", job'.pc = "idle"
    PROVE  \A w \in Vector :
            \/ trigger'[w] = job.old[w]
            \/ trigger'[w] = None /\ w \in job.start..(job.stop - 1)
<1> DEFINE Undone == \A w \in Vector :
            \/ trigger'[w] = job.old[w]
            \/ trigger'[w] = None /\ w \in job.start..(job.stop - 1)
<1> USE DEF IndInv, TypeOK
<1>1. ASSUME NEW t \in {"msi", "msix"}, NEW start \in Vector,
        NEW stop \in 0..NVec, NEW fds \in [Vector -> FdOrNone],
        IoctlBlock(t, start, stop, fds)
      PROVE  Undone
  BY <1>1 DEF IoctlBlock, MayCall
<1>2. ASSUME NEW t \in {"msi", "msix"}, NEW start \in Vector,
        NEW stop \in 0..NVec, NEW fds \in [Vector -> FdOrNone],
        IoctlEnable(t, start, stop, fds)
      PROVE  Undone
  BY <1>2 DEF IoctlEnable, MayCall
<1>3. ASSUME NEW t \in {"msi", "msix"}, IoctlDisable(t)
      PROVE  Undone
  BY <1>3 DEF IoctlDisable, MayCall
<1>4. ASSUME NEW S \in SUBSET Vector, IoctlLoopback(S)
      PROVE  Undone
  BY <1>4 DEF IoctlLoopback, MayCall
<1>5. ASSUME NEW s \in Single, NEW fd \in FdOrNone, IoctlSingle(s, fd)
      PROVE  Undone
  BY <1>5 DEF IoctlSingle, MayCall
<1>6. CASE BlockFree
  BY <1>6 DEF BlockFree
<1>7. CASE BlockGet
  BY <1>7 DEF BlockGet
<1>8. CASE BlockRequest
  BY <1>8 DEF BlockRequest
<1>9. CASE BlockRequestFails
  BY <1>9 DEF BlockRequestFails
<1>10. CASE BlockInstall
  BY <1>10 DEF BlockInstall
<1>11. CASE BlockUndo
  <2>1. CASE job.cur > job.start
    BY <1>11, <2>1 DEF BlockUndo, StateOK, Job
  <2>2. CASE job.cur = job.start
    <3>1. /\ trigger' = [trigger EXCEPT ![job.cur] = None]
          /\ trigger \in [Vector -> FdOrNone] /\ job.cur < job.stop
          /\ job.start \in Nat /\ job.stop \in Nat
      BY <1>11, <2>2 DEF BlockUndo, Drop, JobInv, Block, StateOK, Job
    <3> QED
      BY <2>2, <3>1 DEF RollInv, Block
  <2> QED
    BY <2>1, <2>2 DEF JobInv, Block, StateOK, Job
<1>12. CASE Down
  BY <1>12 DEF Down
<1>13. CASE Off
  BY <1>13 DEF Off
<1>14. ASSUME NEW s \in Single, SignalSingle(s)
      PROVE  Undone
  BY <1>14 DEF SignalSingle
<1>15. CASE Release
  BY <1>15 DEF Release, MayCall
<1>16. CASE Open
  BY <1>16 DEF Open
<1>17. ASSUME NEW v \in Vector, Fire(v)
      PROVE  Undone
  BY <1>17 DEF Fire
<1>18. ASSUME NEW v \in Vector, HandlerSignal(v)
      PROVE  Undone
  BY <1>18 DEF HandlerSignal
<1>19. ASSUME NEW fd \in Fd, Read(fd)
      PROVE  Undone
  BY <1>19 DEF Read
<1>20. ASSUME NEW fd \in Fd, Close(fd)
      PROVE  Undone
  BY <1>20 DEF Close
<1>21. ASSUME NEW fd \in Fd, Create(fd)
      PROVE  Undone
  BY <1>21 DEF Create
<1>22. CASE UNCHANGED vars
  BY <1>22 DEF vars
<1> QED
  BY <1>1, <1>2, <1>3, <1>4, <1>5, <1>6, <1>7, <1>8, <1>9, <1>10, <1>11,
     <1>12, <1>13, <1>14, <1>15, <1>16, <1>17, <1>18, <1>19, <1>20, <1>21,
     <1>22 DEF Next, Ioctl, Work

(* A call that fails takes down its block, or the part of it that it       *)
(* reached, and touches no other vector.                                   *)
THEOREM FailuresRollBack == Spec => FailureRollsBack
<1>1. IndInv /\ [Next]_vars =>
        [job.pc = "undo" /\ job'.pc = "idle" =>
            \A v \in Vector :
                \/ trigger'[v] = job.old[v]
                \/ trigger'[v] = None /\ v \in job.start..(job.stop - 1)]_vars
  BY UndoneStep
<1> QED
  BY <1>1, Invariance, PTL DEF Spec, FailureRollsBack


=============================================================================
