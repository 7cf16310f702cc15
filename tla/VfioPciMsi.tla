----------------------------- MODULE VfioPciMsi -----------------------------
(***************************************************************************)
(* The MSI and MSI-X vectors of one vfio-pci device and its error and      *)
(* request triggers: blocks of eventfds installed by SET_IRQS one vector   *)
(* at a time and rolled back when one fails, teardown by ioctl and at the  *)
(* last release, against the interrupt handlers, the error handler, device *)
(* requests, and users who close eventfds at any time.                     *)
(*                                                                         *)
(* Source: kernel/kernel-examples/lock/vfio_pci_intrs.c and vfio_pci.c.    *)
(***************************************************************************)
EXTENDS Integers, FiniteSets

CONSTANTS
    Fd,     \* the eventfds
    NVec,   \* the vectors of the device (vfio_pci_get_irq_count)
    None    \* no eventfd (-1, NULL)

ASSUME FdAssumption == None \notin Fd
ASSUME NVecAssumption == NVec \in Nat \ {0}

Vector == 0..(NVec - 1)
FdOrNone == Fd \cup {None}
Single == {"err", "req"}     \* err_trigger and req_trigger

VARIABLES
    opened,     \* does a user have the device open?
    irq_type,   \* "none", "msi" or "msix"
    num_ctx,    \* the number of contexts, and of irq vectors allocated
    msi_qmax,   \* what the virtual MSI capability reports
    trigger,    \* ctx[v].trigger
    handler,    \* the eventfd the irq of v is registered with
    running,    \* the eventfd of a vfio_msihandler that runs for v
    single,     \* err_trigger and req_trigger
    open,       \* is the user's own file of an eventfd open?
    refs,       \* the references the driver holds to an eventfd
    signalled,  \* the eventfds with a signal to read
    job         \* the call in progress

vecVars == <<trigger, handler, running>>
typVars == <<irq_type, num_ctx, msi_qmax>>
fdVars  == <<open, refs, signalled>>
vars    == <<opened, typVars, vecVars, single, fdVars, job>>

(* What the caller is doing: its place, the vector it is at, the block     *)
(* [start, stop) and the eventfds for it, whether it enabled the vectors,  *)
(* the eventfd it has got but not installed, and the triggers before.      *)
NoFds == [v \in Vector |-> None]
Idle == [pc |-> "idle", cur |-> 0, start |-> 0, stop |-> 0, fresh |-> FALSE,
         fds |-> NoFds, got |-> None, old |-> NoFds]

Job == [pc : {"idle", "free", "get", "request", "install", "undo", "down", "off"},
        cur : Vector, start : Vector, stop : 0..NVec, fresh : BOOLEAN,
        fds : [Vector -> FdOrNone], got : FdOrNone,
        old : [Vector -> FdOrNone]]

StateOK ==
    /\ opened \in BOOLEAN
    /\ irq_type \in {"none", "msi", "msix"}
    /\ num_ctx \in 0..NVec
    /\ msi_qmax \in Int
    /\ trigger \in [Vector -> FdOrNone]
    /\ handler \in [Vector -> FdOrNone]
    /\ running \in [Vector -> FdOrNone]
    /\ single \in [Single -> FdOrNone]
    /\ open \in [Fd -> BOOLEAN]
    /\ signalled \in SUBSET Fd
    /\ job \in Job

TypeOK == StateOK /\ refs \in [Fd -> Nat]

----------------------------------------------------------------------------
(* fls: the position of the highest bit set, counted from one, which is    *)
(* how many powers of two are not above n.                                 *)
Fls(n) == Cardinality({k \in 0..n : 2^k <= n})

(* eventfd_ctx_fdget and eventfd_ctx_put *)
Get(r, fd) == [e \in Fd |-> IF e = fd THEN r[e] + 1 ELSE r[e]]
Put(r, fd) == [e \in Fd |-> IF e = fd THEN r[e] - 1 ELSE r[e]]

Signal(S) == signalled' = signalled \cup (S \ {None})

(* igate is held by the ioctls, not by the teardown of a release.          *)
IgateFree == opened => job.pc = "idle"
MayCall == opened /\ job.pc = "idle"

----------------------------------------------------------------------------
Init ==
    /\ opened = TRUE
    /\ irq_type = "none" /\ num_ctx = 0 /\ msi_qmax = 0
    /\ trigger = NoFds
    /\ handler = NoFds
    /\ running = NoFds
    /\ single = [s \in Single |-> None]
    /\ open = [fd \in Fd |-> TRUE]
    /\ refs = [fd \in Fd |-> 0]
    /\ signalled = {}
    /\ job = Idle

----------------------------------------------------------------------------
(* vfio_pci_set_msi_trigger                                                *)

Begin(l, start, stop, fds, fresh) ==
    job' = [pc |-> l, cur |-> IF l = "down" THEN 0 ELSE start,
            start |-> start, stop |-> stop, fresh |-> fresh,
            fds |-> fds, got |-> None, old |-> trigger]

(* The vectors are enabled: set the block if all of it is in range.        *)
IoctlBlock(t, start, stop, fds) ==
    /\ MayCall
    /\ irq_type = t
    /\ start < stop /\ stop <= num_ctx
    /\ Begin("free", start, stop, fds, FALSE)
    /\ UNCHANGED <<opened, typVars, vecVars, single, fdVars>>

(* They are not: vfio_msi_enable allocates all vectors up to the end of    *)
(* the block.  An empty block is out of range and takes them down again.   *)
IoctlEnable(t, start, stop, fds) ==
    /\ MayCall
    /\ irq_type = "none"
    /\ start <= stop /\ 0 < stop
    /\ irq_type' = t
    /\ num_ctx' = stop
    /\ msi_qmax' = IF t = "msi" THEN Fls(2 * stop - 1) - 1 ELSE msi_qmax
    /\ Begin(IF start = stop THEN "down" ELSE "free", start, stop, fds, TRUE)
    /\ UNCHANGED <<opened, vecVars, single, fdVars>>

IoctlDisable(t) ==
    /\ MayCall
    /\ irq_type = t
    /\ Begin("down", 0, 0, NoFds, FALSE)
    /\ UNCHANGED <<opened, typVars, vecVars, single, fdVars>>

(* Loopback: signal the triggers of some vectors. *)
IoctlLoopback(S) ==
    /\ MayCall
    /\ \A v \in S : v < num_ctx
    /\ Signal({trigger[v] : v \in S})
    /\ UNCHANGED <<opened, typVars, vecVars, single, open, refs, job>>

----------------------------------------------------------------------------
(* vfio_msi_set_vector_signal, part by part                                *)

(* Take down what vector v has; free_irq waits for a running handler.      *)
(* Mutant: it does not wait.                                               *)
DropNoWait(v) ==
    /\ trigger' = [trigger EXCEPT ![v] = None]
    /\ handler' = [handler EXCEPT ![v] = None]
    /\ refs' = Put(refs, trigger[v])
    /\ UNCHANGED <<running, single, open, signalled>>

Drop(v) ==
    /\ running[v] = None
    /\ trigger' = [trigger EXCEPT ![v] = None]
    /\ handler' = [handler EXCEPT ![v] = None]
    /\ refs' = Put(refs, trigger[v])
    /\ UNCHANGED <<running, single, open, signalled>>

(* The loop of vfio_msi_set_block goes on, or the call returns.            *)
Advance ==
    IF job.cur + 1 < job.stop
    THEN [job EXCEPT !.pc = "free", !.cur = job.cur + 1, !.got = None]
    ELSE Idle

BlockFree ==
    /\ job.pc = "free"
    /\ Drop(job.cur)
    /\ job' = IF job.fds[job.cur] = None THEN Advance
              ELSE [job EXCEPT !.pc = "get"]
    /\ UNCHANGED <<opened, typVars>>

BlockGet ==
    LET fd == job.fds[job.cur] IN
    /\ job.pc = "get"
    /\ \/ /\ open[fd]
          /\ refs' = Get(refs, fd)
          /\ job' = [job EXCEPT !.pc = "request", !.got = fd]
       \/ /\ job' = [job EXCEPT !.pc = "undo"]    \* no name or no eventfd
          /\ refs' = refs
    /\ UNCHANGED <<opened, typVars, vecVars, single, open, signalled>>

(* From here on the handler may run, before the trigger is stored.         *)
BlockRequest ==
    /\ job.pc = "request"
    /\ handler' = [handler EXCEPT ![job.cur] = job.got]
    /\ job' = [job EXCEPT !.pc = "install"]
    /\ UNCHANGED <<opened, typVars, trigger, running, single, fdVars>>

BlockInstall ==
    /\ job.pc = "install"
    /\ trigger' = [trigger EXCEPT ![job.cur] = job.got]
    /\ job' = Advance
    /\ UNCHANGED <<opened, typVars, handler, running, single, fdVars>>

(* request_irq fails.  Mutant: the reference is not given back. *)
BlockRequestLeaks ==
    /\ job.pc = "request"
    /\ job' = [job EXCEPT !.pc = "undo", !.got = None]
    /\ UNCHANGED <<opened, typVars, vecVars, single, fdVars>>

BlockRequestFails ==
    /\ job.pc = "request"
    /\ refs' = Put(refs, job.got)
    /\ job' = [job EXCEPT !.pc = "undo", !.got = None]
    /\ UNCHANGED <<opened, typVars, vecVars, single, open, signalled>>

(* The roll-back of vfio_msi_set_block, from the vector that failed to the *)
(* start of the block; the vectors go too if this call enabled them.       *)
UndoEnd == IF job.fresh THEN [job EXCEPT !.pc = "down", !.cur = 0] ELSE Idle

(* Mutants: the first vector of the block is left out; the index is        *)
(* unsigned and never below a start of zero.                               *)
BlockUndoUnsigned ==
    /\ job.pc = "undo"
    /\ Drop(job.cur)
    /\ job' = IF job.cur > job.start THEN [job EXCEPT !.cur = job.cur - 1]
              ELSE IF job.start = 0 THEN job ELSE UndoEnd
    /\ UNCHANGED <<opened, typVars>>

BlockUndoShort ==
    /\ job.pc = "undo"
    /\ Drop(job.cur)
    /\ job' = IF job.cur > job.start + 1 THEN [job EXCEPT !.cur = job.cur - 1]
              ELSE UndoEnd
    /\ UNCHANGED <<opened, typVars>>

BlockUndo ==
    /\ job.pc = "undo"
    /\ Drop(job.cur)
    /\ job' = IF job.cur > job.start THEN [job EXCEPT !.cur = job.cur - 1]
              ELSE UndoEnd
    /\ UNCHANGED <<opened, typVars>>

(* vfio_msi_disable.  Mutants: one vector too many, one too few. *)
DownLong ==
    /\ job.pc = "down"
    /\ Drop(job.cur)
    /\ job' = IF job.cur < num_ctx THEN [job EXCEPT !.cur = job.cur + 1]
              ELSE [job EXCEPT !.pc = "off"]
    /\ UNCHANGED <<opened, typVars>>

DownShort ==
    /\ job.pc = "down"
    /\ Drop(job.cur)
    /\ job' = IF job.cur + 2 < num_ctx THEN [job EXCEPT !.cur = job.cur + 1]
              ELSE [job EXCEPT !.pc = "off"]
    /\ UNCHANGED <<opened, typVars>>

Down ==
    /\ job.pc = "down"
    /\ Drop(job.cur)
    /\ job' = IF job.cur + 1 < num_ctx THEN [job EXCEPT !.cur = job.cur + 1]
              ELSE [job EXCEPT !.pc = "off"]
    /\ UNCHANGED <<opened, typVars>>

Off ==
    /\ job.pc = "off"
    /\ irq_type' = "none"
    /\ num_ctx' = 0
    /\ job' = Idle
    /\ UNCHANGED <<opened, msi_qmax, vecVars, single, fdVars>>

----------------------------------------------------------------------------
(* The error and request triggers                                          *)

(* vfio_pci_set_ctx_trigger_single with an eventfd, with -1, or with no    *)
(* data.  Mutant: the old trigger is not given back.                       *)
IoctlSingleLeaks(s, fd) ==
    /\ MayCall
    /\ fd # None => open[fd]
    /\ refs' = Get(refs, fd)
    /\ single' = [single EXCEPT ![s] = fd]
    /\ UNCHANGED <<opened, typVars, vecVars, open, signalled, job>>

IoctlSingle(s, fd) ==
    /\ MayCall
    /\ fd # None => open[fd]
    /\ refs' = Put(Get(refs, fd), single[s])
    /\ single' = [single EXCEPT ![s] = fd]
    /\ UNCHANGED <<opened, typVars, vecVars, open, signalled, job>>

(* Loopback by the user, vfio_pci_aer_err_detected and vfio_pci_request,   *)
(* all under igate.                                                        *)
SignalSingle(s) ==
    /\ IgateFree
    /\ Signal({single[s]})
    /\ UNCHANGED <<opened, typVars, vecVars, single, open, refs, job>>

----------------------------------------------------------------------------
(* Release, and the next open                                              *)

(* vfio_pci_disable takes the vectors down, without igate. *)
Release ==
    /\ MayCall
    /\ opened' = FALSE
    /\ IF irq_type = "none" THEN job' = Idle
       ELSE Begin("down", 0, 0, NoFds, FALSE)
    /\ UNCHANGED <<typVars, vecVars, single, fdVars>>

Open ==
    /\ ~opened
    /\ job.pc = "idle"
    /\ opened' = TRUE
    /\ UNCHANGED <<typVars, vecVars, single, fdVars, job>>

----------------------------------------------------------------------------
(* The device, the handlers and the user's side of the eventfds            *)

Fire(v) ==
    /\ handler[v] # None
    /\ running[v] = None
    /\ running' = [running EXCEPT ![v] = handler[v]]
    /\ UNCHANGED <<opened, typVars, trigger, handler, single, fdVars, job>>

(* vfio_msihandler *)
HandlerSignal(v) ==
    /\ running[v] # None
    /\ Signal({running[v]})
    /\ running' = [running EXCEPT ![v] = None]
    /\ UNCHANGED <<opened, typVars, trigger, handler, single, open, refs, job>>

Read(fd) ==
    /\ open[fd]
    /\ signalled' = signalled \ {fd}
    /\ UNCHANGED <<opened, typVars, vecVars, single, open, refs, job>>

Close(fd) ==
    /\ open[fd]
    /\ open' = [open EXCEPT ![fd] = FALSE]
    /\ UNCHANGED <<opened, typVars, vecVars, single, refs, signalled, job>>

(* The memory of an eventfd nobody refers to is used for a new one.        *)
Create(fd) ==
    /\ ~open[fd]
    /\ refs[fd] = 0
    /\ open' = [open EXCEPT ![fd] = TRUE]
    /\ signalled' = signalled \ {fd}
    /\ UNCHANGED <<opened, typVars, vecVars, single, refs, job>>

----------------------------------------------------------------------------
Ioctl ==
    \/ \E t \in {"msi", "msix"} :
        \/ \E start \in Vector, stop \in 0..NVec, fds \in [Vector -> FdOrNone] :
            /\ \A v \in Vector : v \notin start..(stop - 1) => fds[v] = None
            /\ IoctlBlock(t, start, stop, fds) \/ IoctlEnable(t, start, stop, fds)
        \/ IoctlDisable(t)
    \/ \E S \in SUBSET Vector : IoctlLoopback(S)
    \/ \E s \in Single, fd \in FdOrNone : IoctlSingle(s, fd)

Work ==
    \/ BlockFree \/ BlockGet \/ BlockRequest \/ BlockRequestFails
    \/ BlockInstall \/ BlockUndo \/ Down \/ Off

Next ==
    \/ Ioctl \/ Work
    \/ \E s \in Single : SignalSingle(s)
    \/ Release \/ Open
    \/ \E v \in Vector : Fire(v) \/ HandlerSignal(v)
    \/ \E fd \in Fd : Read(fd) \/ Close(fd) \/ Create(fd)

Spec == Init /\ [][Next]_vars

(* A call in progress goes on: free_irq unlinks the handler before it      *)
(* waits, so that the wait ends even if the device keeps interrupting,     *)
(* hence strong fairness; handlers end.                                    *)
FairSpec ==
    Spec /\ SF_vars(Work) /\ \A v \in Vector : WF_vars(HandlerSignal(v))

----------------------------------------------------------------------------
(* The driver holds exactly the references it has use for: one for every   *)
(* vector, error or request trigger installed and for the eventfd it is    *)
(* installing, over every failure and roll-back.                           *)
One(x, fd) == IF x = fd THEN 1 ELSE 0
RefsBalanced ==
    \A fd \in Fd :
        refs[fd] = Cardinality({v \in Vector : trigger[v] = fd})
                   + One(single["err"], fd) + One(single["req"], fd)
                   + One(job.got, fd)

(* An irq is registered exactly for the triggers and the one about to be   *)
(* stored, and none is left on a vector that pci_free_irq_vectors gives    *)
(* back.                                                                   *)
HandlersMatch ==
    \A v \in Vector :
        /\ handler[v] = IF job.pc = "install" /\ job.cur = v
                        THEN job.got ELSE trigger[v]
        /\ handler[v] # None => v < num_ctx /\ irq_type # "none"

(* Only an eventfd that is in use is signalled: when the call that         *)
(* replaces or removes it has passed its vector, it is never signalled     *)
(* again, however late the handler that was on its way.                    *)
SignalsInstalled ==
    [][\A fd \in signalled' \ signalled :
        \/ \E v \in Vector : trigger[v] = fd
        \/ \E s \in Single : single[s] = fd
        \/ job.pc = "install" /\ job.got = fd]_vars

(* A call that fails leaves nothing of what it installed: every vector of  *)
(* the block is down or as it was, every other vector is as it was.        *)
FailureRollsBack ==
    [][job.pc = "undo" /\ job'.pc = "idle" =>
        \A v \in Vector :
            \/ trigger'[v] = job.old[v]
            \/ trigger'[v] = None /\ v \in job.start..(job.stop - 1)]_vars

(* Where the call in progress is: within the block and the vectors; what   *)
(* it has taken down; when it has an eventfd in its hands.                 *)
Block == {"free", "get", "request", "install", "undo"}
JobInv ==
    /\ irq_type = "none" <=> num_ctx = 0
    /\ job.pc \in Block =>
        job.start <= job.cur /\ job.cur < job.stop /\ job.stop <= num_ctx
    /\ job.pc = "down" => job.cur < num_ctx
    /\ \A v \in Vector :
        job.pc = "off" \/ (job.pc = "down" /\ v < job.cur) => trigger[v] = None
    /\ job.got # None <=> job.pc \in {"request", "install"}
    /\ job.pc \in {"get", "request", "install"} => trigger[job.cur] = None
    /\ job.pc = "get" => job.fds[job.cur] # None

(* A handler that runs is that of the eventfd registered now. *)
RunInv == \A v \in Vector : running[v] # None => running[v] = handler[v]

(* What a call that sets a block has not reached yet is as it was. *)
RollInv ==
    job.pc \in Block =>
        \A v \in Vector :
            /\ v \notin job.start..(job.stop - 1) => trigger[v] = job.old[v]
            /\ v > job.cur => trigger[v] \in {job.old[v], None}

(* The inductive invariant *)
IndInv ==
    TypeOK /\ JobInv /\ HandlersMatch /\ RunInv /\ RollInv /\ RefsBalanced

(* Every call returns, whatever the device does meanwhile.                 *)
CallsReturn == job.pc # "idle" ~> job.pc = "idle"

=============================================================================
