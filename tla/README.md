# A TLA+ model of the vfio-pci driver, an ONAP script, stevedore and pbr

The repository is a collection of notes and programs. Four of them have logic of
their own that is hard to test, and are modelled here:

- the **vfio-pci driver**, `kernel/kernel-examples/lock/vfio_pci.c` and
  `vfio_pci_intrs.c` (the copies in `kernel/kernel_app/lock/` are identical), which
  `lock.md` presents as its example of mutexes and spin locks;
- **`cloud/onap/cli/hpa_automation.py`**, which brings up a use case on an ONAP
  installation with some twenty commands, most of them unchecked;
- **stevedore**, the plug-in manager the examples in `coding/python/stevedore` load
  their formatters with;
- **pbr**, which numbers and packages those examples from their git history.

stevedore and pbr are in the repository as eggs under
`coding/python/stevedore/example/.eggs`. Paths below are relative to the repository,
and within these eggs to their package.

## Inventory

| Component | State | Operations | What is hard |
|---|---|---|---|
| Device life cycle, `vfio_pci.c` | `refcnt`, `needs_reset`, `reset_works`, power state, enable count, `driver_lock`, module count | open, release, enable, disable, bus reset, reset ioctls, probe, remove | opens, releases and unbinds at once; `driver_lock` against the device lock of the PCI core; error paths; resets that reach other users' devices |
| INTx, `vfio_pci_intrs.c` | `irq_type`, `ctx[0]`, `virq_disabled`, DisINTx, depth of `disable_irq` | handler, mask, unmask, set-up, teardown, unmask eventfd | the handler against two kinds of callers, one of them without `igate` |
| MSI and MSI-X, `vfio_pci_intrs.c` | `ctx[]`, `num_ctx`, eventfd references | enable, set a block of vectors, disable | failure in the middle of a block, roll-back |
| Error and request triggers | `err_trigger`, `req_trigger` | set, signal | life time across release |
| Regions and mmap, `vfio_pci.c` | `barmap`, `bar_mmap_supported`, MSI-X location | probe, report, map | page arithmetic, `barmap` without a lock |
| ONAP HPA automation, `hpa_automation.py` | the identifiers returned by earlier commands; what is in A&AI, VF-C and policydb | 20 commands, run again and again | commands that fail and are not looked at; killed half way; answers that are lost |
| Extension managers, stevedore | entry point cache, list and index of extensions, missing names | construct, load, index, map | plug-ins that fail; two of one name; exceptions in the middle of `map` |
| Versions, `pbr/version.py` | none | order, increment, decrement, strings, parser | boundaries of the order; formats that sort differently |
| History, `pbr/packaging.py`, `pbr/git.py` | commits and tags | version, change log, authors, release flag | sequences of commits and tags; three git commands that must agree |
| `setup.py`, `pbr/util.py`, `pbr/core.py`, `pbr/hooks` | `sys.path`, configuration, arguments, compiler registry, source distribution | read, hooks, convert, sdist, install, bdist_wheel, print | failing steps; clone, source distribution or foreign repository; lists of which the last or the first counts |
| VF-C scripts, `cloud/onap/vfc-py` | none | one REST call each | |
| Kernel examples, `kernel/*` | `stop_mmio`, threads, work queue, list, tree | init, exit, thread body | exit handshakes, iteration while erasing |
| Go examples, `coding/go` | channels | send, select | termination |
| Shell tools, `coding/shell` | the log directory | remove the oldest log | termination, lower bound |

The parts of the driver interact: `vfio_pci_disable` takes the interrupts down,
`vfio_pci_ioctl` enters the interrupt code under `igate`, the vfio core calls open,
release and request, the PCI core calls probe, remove and the error handler. In pbr,
`setup.py` asks the history for its version and the version for its strings, which is
why `PbrSetup` extends `PbrRelease` and that extends `SemVer`. The other programs stand
alone.

What makes them correct: nothing is used after it is freed; counts agree with
what they count; a device in use is not disabled, reset or put to sleep by
others; a used device is reset before somebody else gets it, or says that it was
not; locks are not waited for in a circle; the interrupt mask of driver and
device agree, and no interrupt is lost; a failed step leaves nothing behind, or
what it leaves does no harm to the next run; no plug-in is lost, or imported
unasked; versions grow with the history and mean the same to everybody who reads
them; what is installed from a source distribution is what its project asked for.

## Modules

| Module | Models | Properties proved in |
|---|---|---|
| `VfioPciDevice` | the life of the devices of one bus | `VfioPciDevice_proofs` |
| `VfioPciIntx` | the INTx interrupt of one device | `VfioPciIntx_proofs` |
| `VfioPciMsi` | the MSI and MSI-X vectors, error and request triggers of one device | `VfioPciMsi_proofs` |
| `VfioPciMmap` | the BARs of one device and their mappings in user space | `VfioPciMmap_proofs` |
| `OnapAutomation` | the bring-up script, its operator, and what it leaves in ONAP | `OnapAutomation_proofs` |
| `Deployment` | what the script promises over any number of runs (abstract) | refined in `OnapAutomation_proofs` |
| `Selection` | lists and what a condition keeps of them | `Selection_proofs` |
| `Stevedore` | the extension managers of one process | `Stevedore_proofs` |
| `SemVer` | the semantic versions of pbr | `Pbr_proofs` |
| `PbrRelease` | a git history and the versions and change log made of it | `Pbr_proofs` |
| `PbrSetup` | `setup.py` commands while that history goes on | `Pbr_proofs` |

`MCVfioPciDevice`, `MCVfioPciMmap`, `MCOnapAutomation`, `MCStevedore`, `MCPbrRelease`
and `MCPbrSetup` give the constants values for TLC. Definitions whose comment or
name says so (`add_customer_subscriptionNoCount`, `find_sourcesAnew`, ...) are mutants: the
definition they precede with a plausible mistake in it.

### VfioPciDevice

`refcnt`, `needs_reset`, `reset_works` are the fields of `vfio_pci_device`;
`list_init` says whether `dummy_resources_list` has been initialised; `drv`,
`power` and `enable_cnt` belong to the PCI core; `driver_lock` names its holder;
`modrefs` and `module` are the module's count and state; `gowner` is the user of
each IOMMU group. `dirty` is not in the code: it says that a device has been used
by its present driver and not been reset since. `pc`, `dev`, `devs`, `ok` and
`ext` are the position and the local variables of the thread of each file.

`OpenTryModuleGet`, `OpenAgain`, `OpenFirst` are `vfio_pci_open`; `EnableReset`,
`EnableDone`, `EnableConfigFails`, `EnableIgdFails` the rest of
`vfio_pci_enable`; `ReleaseAgain`, `ReleaseLast` are `vfio_pci_release`;
`Disable`, `DisableFaults` are `vfio_pci_disable`; `BusCollect`, `BusJudge`,
`BusPut` are `vfio_pci_try_bus_reset`; `DeviceReset`, `HotResetGet`, `HotReset`,
`HotResetPut` the reset ioctls; `ProbeStart` to `RemoveEnd` the callbacks. A
section under `driver_lock` is split where it meets the PCI core or the vfio
core, whose locks and references other threads see. `Use` stands for all a user
does with an open device.

External, from how the driver uses it: a vfio group has one user and excludes
host drivers while it has one; a device reference delays `vfio_del_group_dev`;
the PCI core holds the device lock during probe and remove (`Locked`);
`pci_reset_function` waits for that lock, the `pci_try_reset_*` calls fail if
they cannot have it. A reset and an allocation may fail at will unless `Reliable`.

### VfioPciIntx

The variables are the fields of `vfio_pci_device` and of `ctx[0]`, the command
register's DisINTx (`disintx`), the disable depth of the line and whether the
handler is registered. Four threads: the handler (`hpc`), the ioctl under `igate`
(`ipc`), a write to the command register (`cpc`; `vfio_pci_config.c` is not in
the repository, and flips `virq_disabled` before it calls mask or unmask), and
the work of the unmask eventfd (`wpc`). `told` and `umask` record what the user
knows: whether it has been signalled since the last unmask, and whether it masked
the interrupt itself. A section under `irqlock` is one step; the signal that
follows is another. `vfio_intx_enable`, which takes no lock, is three steps.
`Pci23` chooses between DisINTx and `disable_irq`; `Serial` restricts the user to
one call at a time. A signal to a trigger that has been taken down is the control
point `oops`.

### VfioPciMsi

`irq_type`, `num_ctx`, `msi_qmax`, `trigger` (of `ctx[v]`) and `single`
(`err_trigger`, `req_trigger`) are fields of the device; `handler` is what
`request_irq` has registered for a vector and `running` the eventfd of a
`vfio_msihandler` on its way; `open`, `refs` and `signalled` are the eventfds as
their user and the driver see them. `job` is the position and the local variables
of the one call that holds `igate`, or of the teardown of the last release, which
does not take it. `IoctlBlock`, `IoctlEnable`, `IoctlDisable`, `IoctlLoopback` are
the ways through `vfio_pci_set_msi_trigger`; `BlockFree` to `BlockInstall` are
`vfio_msi_set_vector_signal` for one vector, split where a handler can run or a
call can fail; `BlockUndo` is the roll-back of `vfio_msi_set_block`; `Down` and
`Off` are `vfio_msi_disable`. Calls that are refused without a change of state
have no action. INTx shares `irq_type` with MSI; here a device with INTx set up
is one that refuses MSI, and not modelled. Allocations, `eventfd_ctx_fdget` and
`request_irq` may fail at any vector; a user may close an eventfd whenever they
like, and its memory is used again when nobody refers to it.

### VfioPciMmap

`supported`, `dummy` and `barmap` are `bar_mmap_supported`, the members of
`dummy_resources_list` and the non-null entries of `barmap`; `region` says which
BARs `pci_request_selected_regions` has given the driver; `hw` holds the BARs and
the MSI-X table, which is in BAR 0 (a device without MSI-X is one whose mappings
avoid it). `ProbeWhole`, `ProbeReserve`, `ProbeRefuse` are one round each of
`vfio_pci_probe_mmaps`; `Mmap` to `MmapRemap` are `vfio_pci_mmap`, which takes no
lock, split at each call of the PCI core; `Areas` and `NrAreas` are what
`msix_sparse_mmap_cap` writes; `Disable` is the part of `vfio_pci_disable` about
BARs. Requests that are refused without a change of state have no action. Other
devices come and go (`HotAdd`, `HotRemove`) where `request_resource` finds room,
also between two rounds of the probing. Addresses count in units of one table
entry; BARs are naturally aligned, as PCI demands, and a mapping, which holds the
file, is gone when the last file is released.

### OnapAutomation and Deployment

`pc` is the command the script is about to run, `todo` what is left of the loop it is
in, and `nsPkg`, `vnfPkg`, `nsId`, `first` are `ns_package_output`,
`vnf_package_output`, `ns_instance_id` and `subscription_check = 0`. One action is one
command. They differ in what they do about failure, and so do the actions: `System`
(`os.system`) goes on in any case; `CreatePackage` and `CreateService` take a word of the
answer for an id, so that without an answer, although the object may have been made, the
script raises if there are too few words and otherwise goes on with `ErrorWord`, which
names nothing; `Put` raises or ignores the status; a database statement raises, and the
connection's transaction is lost. `Start` is the operator, with either value of `-t` and
with or without VNFs; `Kill` may come between any two commands.

ONAP is external, modelled from what the script assumes of it: a command has its effect
or none, objects are addressed by name and stay, a command that names an object that is
not there is refused. So is `vfc-nslcm-create` with an empty `-c`, which its schema
(`open-cli-schema/vfc-nslcm-create-schema.yaml:30`) says is not optional: with `-t sdc` the
script has no package id to give. The commands of `add_policies` may do nothing at all
(`Unreliable`), as the script says that the function does not work. `fault` records that
something outside has failed in this run.

`Deployment` is the abstract specification: in each run first all policy models are
recorded, at once, then one service is created, then it is instantiated, and nothing is
done any more about an earlier run. `OnapAutomation` implements it under the mapping
`Models`, `Services`, which has values (`half`, `mixed`) that `Deployment` does not
know: a transaction that is half committed, or a second service of one run, would not be
a step of it.

### Stevedore

`mgr` holds the class of the manager and the arguments of its constructor; `todo`,
`extensions`, `missing`, `index` and `by_name` are the state of `_load_plugins` and of the
object. `LoadSkip` to `LoadInterrupted` are the ways an entry point can go through
`_load_one_plugin`, `Finish` is the rest of the constructor, with the order of
`_init_plugins` in each class. `map` begins a call and `FilterOut`, `Returns`, `Raises`,
`Interrupted`, `MapReturns` are `_invoke_one_plugin` for one extension.
`map_method`, the call of a `DriverManager` and the dispatchers' versions differ in what
they go through (`Queue`) and whether they filter. `loaded`, `failed` and `resolved` are
history. pkg_resources is external: `Activate` adds an entry point to the working set at
any time, which `ENTRY_POINT_CACHE` does not follow.

### SemVer, PbrRelease and PbrSetup

`SemVer` is made of operators: a version is a record, a version string the sequence of
its components, and the strings for Debian, rpm and `version_info` are the sequences the
three formats compare (`Ascii` and `LexLess` stand for dpkg, rpm and Python). `PbrRelease`
has a history as its state and the maintainers as its actions: they commit, with any
Sem-Ver lines and any version in `setup.cfg`, and tag what is not lower than what would
be built. What pbr makes of it are operators of the history. `PbrSetup` adds `setup.py`:
`Start` chooses project, command and tree (a clone, an unpacked source distribution, or
one unpacked inside another repository), `ReadConfig` to `Extras` are `cfg_to_args` and
its hooks, `Sdist`, `Install` and `PrintVersion` the commands. `Leave` is the `finally`
that restores `sys.path`. The history goes on between runs, and a source distribution
is kept, so that it may be built again after the project has moved on. Of a source
distribution, `files` is what it contains and `sources` what its SOURCES.txt lists; the
release notes are in the first only, as `make_distribution` adds them after `egg_info` has
written the list. `Leave` takes away what `ReadConfig` put on `sys.path`: the code pops
whatever is first, so hooks are assumed to leave it alone.

## Runs

| Run | Question | Expected |
|---|---|---|
| `dev_safety` | two users, a device each, one resettable bus, a function reset on one, unbinds, host drivers, rmmod, one with IGD, any failure: are held devices alive, resets confined, unused devices clean or known to be dirty? | pass |
| `dev_power` | three files of two users on two devices, idle D3, reliable resets, allocations that may fail: are the counts of users exact, is a device in use kept awake, and is the bus clean when idle, whatever the order of opens and releases? | pass |
| `dev_live` | types; does every release end, and does an unbind wait for users only? No function reset | pass |
| `dev_remove_blocks` | the second question with a function reset | violation |
| `intx_serial` | PCI 2.3 device, one call at a time: are the masks obeyed, do interrupts arrive? | pass |
| `intx_legacy` | no DisINTx: depth of the line, trigger, silent masks | pass |
| `msi` | three vectors: types, references, registered irqs, late signals, roll-back, does every call return? | pass |
| `mmap` | two BARs and a table anywhere, two threads, hot-plug: are mappings confined, is `barmap` right, are the sparse areas exact? | pass |
| `onap` | three runs, killed anywhere, one failure anywhere: does a later run repair what is there, is every end explained, are packages kept apart, is `Deployment` implemented? | pass |
| `stevedore` | two managers of any class, three plug-ins, two of one name: is the list accounted for, are names honoured, is `map` fair? | pass |
| `pbr_history` | three commits, any tags: do versions grow, lie between releases, read back and sort alike everywhere; do version, release flag and change log agree? | pass |
| `pbr_setup` | three projects, five commands, three kinds of tree: is what is installed from a source distribution what the clone would have installed, are arguments kept and requirement files followed, is `sys.path` restored? | pass |

`dev_remove_blocks` is the one finding in `PROJECT.json`: an open that resets the
function deadlocks with an unbind.

Bounds. Two devices are the least that affect each other through a bus; two users
the least that can be in each other's way; three files let one device be open
twice while the other is released. Counters need no bound: they are limited by
the number of files. In `VfioPciIntx` two eventfds let a trigger be replaced by
another one; the depth of the line is kept only while a handler is registered,
since `request_irq` starts it at zero. In `VfioPciMsi` three vectors are the least with a
number that is no power of two and with a block of two that starts behind the
first; one eventfd may be in all of them and in both triggers at once, be closed
and be created anew. In `VfioPciMmap` a page of two units is the least with a middle; a
BAR of four pages has room below, above and around a table that starts and ends anywhere;
the second BAR is small and at either place in its page, in the same page as a small
first one or in another, empty, or in I/O space; two threads race for one region.
`MaxMaps` limits the mappings at a time to two.

In `OnapAutomation` two regions and two VNFs are the least where the first and the next
differ (the subscription comes with the first region, and identifiers of VNFs can be mixed
up); of VNF managers and policies one is enough, as their loops carry nothing from one
round to the next. `MaxRuns = 3` lets a run find what two others left, and `MaxFaults = 1`
with kills at will lets each of them stop anywhere. In `Stevedore` two plug-ins of one
name and one of another are the least for a duplicate that is not everything;
`SomeLists` names both in the other order with a name in between that nobody has;
`MaxManagers = 2` lets the second find the cache filled. In `PbrRelease` three commits
let a tag be followed by two; the tags are a release candidate, a release and an alpha of
the next major version, and several may be on one commit; `setup.cfg` may name that version
or its release candidate. In `PbrSetup` one project uses
everything, one leaves out what can be left out and one is broken; `MaxNesting = 3` is
the recursion limit of requirement files, which name each other two deep, one that does not
exist and one that is ignored; the history has two commits, and the
source distribution may be built again from itself any number of times. `maxsize = 100`
only has to be above every dev count.

No symmetry is used. The INTx, MSI and mmap runs check for deadlock. The others do not,
because their systems may stop: `rmmod` and a fault under `driver_lock` end the driver,
and the bounds on runs, managers and commits end the others.

Fairness. A thread inside the driver keeps running (weak fairness); mutexes and
reference waits serve whoever waits, hence strong fairness for taking
`driver_lock` and for the end of a removal. Nothing is assumed of users: they may
keep a file open for ever, or open it again and again, which is why
`RemoveWaitsForUsers` asks only that an unbind that never ends is due to them.
`dev_live` has no function reset and no idle D3, to leave the state space small
enough for liveness; with one, `dev_remove_blocks` is the answer. In `VfioPciIntx`
interrupts are delivered and threads go on; neither device nor user need act. In
`VfioPciMsi` a handler that runs ends (weak fairness), and a call goes on even if the
device interrupts again and again: `free_irq` unlinks the handler before it waits, while
the model unlinks it when the wait is over, so the step is infinitely often possible and
taken (strong fairness). The other models state no fairness and no liveness: the script,
the manager and `setup.py` are sequential programs of finite loops, they may be killed or
interrupted at any command, and nothing in them waits or tries again.

## Proofs

Every invariant that a run checks is also a theorem, for every value of the constants, and
so are the three action properties and the refinement. Where a theorem has a hypothesis
beyond the assumptions of its module, it is named here.

`Selection_proofs` has what several proofs share: the least and the greatest element of a
set of numbers, induction over the naturals (for a set of numbers, from the least one that
is not in it), and `KeepSelects` and `KeepMembers`: what a list comprehension returns, in
which order. These are how induction over data is done in this development: the number up
to which a statement holds is put into a set, and a recursive function is unfolded one step
at a time (`KeepRecursion`).

`VfioPciDevice_proofs` shows, for any finite set of files and any devices, groups,
users and slots, `Spec => []IndInv` and from it `TypeOK`, `HeldDevicesAlive`,
`UsesCounted`, `IdleNeedsReset`, the action property `ResetSparesOthers`, and, if nothing
is rebound, `AwakeWhileOpen`. None of these is inductive alone. `LockInv` ties
`driver_lock` to the control points, so that one thread at a time is in a critical
section; `UseInv` says that the device such a thread works on is unused and when it is
enabled; with the counts this gives the exact enable count. `LocalInv` says where `devs`,
`ok` and `ext` mean something: in particular that what `BusJudge` looks at is everything
the reset will reach, from which, as all of it is present and unused, no host driver
and no user is hit. `GroupInv` does the same for hot reset: groups held are the
user's own and exclude host drivers. `DirtyInv` and `CleanInv` carry `IdleNeedsReset`
through a release: a used device says so, or somebody is still about to disable
it, and what a successful reset reached stays unused until `put_devs` clears
`needs_reset`. The set cardinalities of the counts rest on two lemmas about adding
and removing one file.

`CleanWhenIdle` is proved for resets that do not fail (`Reliable`), where nothing is rebound
(`~Rebind`), as `dev_power` checks it, and for buses where a device's reset reaches what the
reset of any of those would reach (`ResetsAlike`). `RestInv` says that devices which are all
idle are dirty only as long as some release is on its way to their reset; that it is the
same reset whichever device was the last in use is what `ResetsAlike` is for. The proof
needs it, and so does the driver: on a bus where one slot can be reset and another
cannot, the first release of the second device finds the bus busy, the last release resets
its own slot only, and the second device stays as its user left it. TLC finds this
at once when `SlotReset` holds one of two slots and `BusReset` is `TRUE`.

`VfioPciIntx_proofs` shows `SetupInv` for any user: the handler is registered
exactly while there is a trigger, which gives `HandlerHasTrigger`. This needs no
run of its own with concurrent calls: the theorem covers every interleaving, and
`intx_legacy` checks the property with one call at a time. For a user who
makes one call at a time it adds `SerialInv`, `HardwareInv`, `VirtualInv`,
`SilentInv` and `DepthInv`, and derives `NoSilentMask`, `TypeOK` and, with DisINTx,
`MaskObeyed`. `SilentInv` needs the threads: a mask that nobody knows of yet is one some
thread is about to signal or to take back. `DepthInv` needs them too: how deep the line is
disabled depends on who has done it, the handler, the set-up or a mask.

`VfioPciMsi_proofs` shows `Spec => []IndInv` for any eventfds and any number of
vectors, and from it `TypeOK`, `HandlersMatch`, `RefsBalanced` and the action
properties `SignalsInstalled` and `FailureRollsBack`. `JobInv` keeps the call
within its block and says what it has taken down already, which `HandlersMatch`
needs when the vectors are given back. `RunInv` says that a handler under way is
the one registered, because `free_irq` waits for it; from this `SignalsInstalled`
follows. `RollInv` says which vectors a block has not reached. `RefsBalanced`
compares a counter with the size of a set; `CountUsers` says how that size changes
with one vector, and that references are natural numbers follows from the balance.

`VfioPciMmap_proofs` shows `Spec => []IndInv` for any page size, BARs, table and
threads, and from it `TypeOK`, `RegionsTracked`, `MappingsConfined` and `SparseExact`.
`SetupInv` says that a BAR found mappable has all its pages to itself or the rest of its
page reserved, that nothing is plugged into either, and that this lasts until the device is
disabled; `CallInv` that what is mapped, or about to be, has passed the checks; `RemapInv`
that a thread which skipped the request found the BAR requested. `NotTaken` is the lemma on
resources. `SparseExact` is arithmetic: `PageMaskIs` and `PageAlignIs` say that the code's
roundings are the last page boundary before a byte and the first behind it, and
`AlignedSums` that sums and differences of boundaries are boundaries; a BAR begins and ends
at one, so the areas are the pages before that of the table's first byte and after that of
its last.

`OnapAutomation_proofs` shows `Spec => []IndInv` for any regions, VNF managers, VNFs and
policies and any number of runs and failures, and from it `TypeOK`, `OwnPackages`,
`EndsExplained` and that `OnapAutomation` implements `Deployment`. The invariant says,
command by command, what this run has left behind: `LoopInv` what is left of each loop,
`BranchInv` which of the two values of `-t` the script is in, `ModelInv` which tables are
written and committed, `ServiceInv` that this run has no service before it creates one,
none at all with `-t sdc`, and that nobody else touches it, `PackageInv` that the
identifiers the script holds are those of packages it made itself, or words of an error
once something has failed, `ContentInv` that they are filled as long as nothing has
failed. The refinement needs `ModelInv` (both tables have the same runs) and
`ServiceInv` (one service for each run); each action is then a step of `Deployment` or a
stutter. For `EndsExplained`, `CleanInv` adds what a run without a failure has registered so
far, and `FirstPart`, about all runs: a subscription that is there has its first region's
tenant, so that a run which finds one need not add it.

`Stevedore_proofs` shows, for any entry points, names and managers, `TypeOK`,
`NamesHonoured`, `ListAccounted` and `MapFair`. `LoadInv` says what has become of the entry
points the loop has passed; that none comes twice is because the working set had none twice
when the cache was filled, whatever is activated later (`KnownInv`). `ListInv` relates the
list to what was loaded: the same, or, with a name order, the last of each name, as the
index has it. `CallInv` says of a call under way that it has come to the place `call.next`
of its queue and what it has done with each extension before that.

`Pbr_proofs` is about `SemVer`, `PbrRelease` and `PbrSetup`, and has four parts.

*Versions.* The order is total and transitive, and the dev versions on the way to the next
version lie between the version before and that one, whichever part is incremented and
however large the numbers (`DevVersionsAreBetween`). `LexSeven` spells out a comparison of
seven places; the rest is arithmetic. Reading back what was written
(`StringReadsBack`) follows the parser through each of the forms that `release_string` can
give: with a prerelease or without, with a dev count or without. For the package formats,
`PlaceDecides` says that the first place where two sequences of numbers differ decides;
the releases of each pair of kinds are then compared at that place.

*History.* `HistoryInv` says that later tags are on the same commit or a later one and
always higher, that what is named in `setup.cfg` is named until it is released or something
higher is named, and that a tag is higher than all that was built before it. The last of
these is not inductive without the other two, and it needs that what is built from a commit
depends on nothing that comes later (a lemma for each operator of the history). From it
follow, for any number of commits and tags, `VersionsGrow`, `BetweenReleases`, `HistoryTold`,
`StringsFaithful` and `TypeOK`. `HistoryTold` is where two functions of pbr look for the
last tag independently: one counts commits, the other goes through the rows of the log, and
`KeepSelects` says which commits those rows are of.

*Distributions.* `ContentInv` follows the files and the SOURCES.txt, and `VersionInv` the
version, of a source distribution from the clone it was packed in through any number of
unpackings, environments and commits: its string is what `release_string` makes of a
canonical version, so that it reads back, and what was built at its commit is still what
would be built there, unless somebody has tagged it (`BuildsLast`). `PacksWell` compares
the SOURCES.txt that is written with what an install in the clone would have: the same in a
clone, the same less what only git knows of elsewhere. Together they are
`DistributionFaithful`. `PathInv` and `SetupTyped` are `PathRestored` and `SetupTypeOK`.

*Arguments.* `ArgInv` and `CommandInv` follow what `setup.cfg` says through the hooks into
the arguments. The rest of `ArgumentsKept` is about what the conversions compute.
`FlattenPlaces` says where each element of each list is in the lists put together, which
gives the lines of expanded globs (`ExpandedLines`) and the requirements of nested files.
`AskedByFiles` defines what files ask for without any recursion: the lines of the least set
of files closed under `-r`. `ReachedFilesSay` shows that parsing a file comes to just those
lines, unless it is nested too deep: nothing else by induction on the nesting, and all of
them because the files that come to a part of the outcome are a closed set. `AskedInGroups`
puts files and `setup.cfg` together, group by group. `RequiresExactly` shows that to split
requirements by group and marker loses none and moves none. `TargetIs` and `FilesGo` show
that a file goes to the last target named at or before its line; as no two lines have a
file in common (`Distinct`), that is one place. `LastWins` says what becomes of a list of
command classes.

Assumptions: those named in the modules (finite files, functions with their
domains, Boolean parameters, BARs that are aligned and do not overlap, a positive
`maxsize`). For pbr they say what a `setup.cfg`, a requirement file and `PBR_VERSION` may
contain: lists of lines of the kinds the code tells apart (`ProjectAssumption`,
`RequirementAssumption`, `FileAssumption`), and a version as pbr writes it
(`EnvAssumption`); no length, number or depth is bounded. `DataFilesKept` is about projects
that name no file twice (`NamedOnce`); if one does, it is in two places, as asked for.

Only model-checked: the liveness properties of the driver (`ReleaseCompletes`,
`RemoveWaitsForUsers`, `InterruptDelivered`, `CallsReturn`), which are outside the prover's
reach.

## Where the programs differ from what they say

Apart from the finding, these came up while modelling. The models do as the code does, and
the properties exempt the case where they would otherwise fail.

- `vfio_pci.c:225`, `:56`: an open that fails after waking the device leaves it awake.
- `vfio_pci.c:1238`: probe puts a device to sleep after it can already be opened; hence
  `AwakeWhileOpen` is about devices that are not rebound.
- `vfio_pci.c:294`: the error and request triggers of one user are still there for the next.
- `vfio_pci.c:326`: if `vfio_pci_igd_init` fails at the first open, `vfio_pci_disable` walks
  a list that has not been initialised (`DisableFaults`).
- `vfio_pci.c:1346`: on a bus where some slots can be reset and others cannot, devices
  may stay unreset after their last user is gone; hence `ResetsAlike` in the theorem about
  `CleanWhenIdle`.
- `vfio_pci_intrs.c:36`: nothing checks that there is a trigger: loopback after it has been
  taken down passes a null pointer to `eventfd_signal` (the control point `oops`).
- `vfio_pci_intrs.c:165`, `:87`: enabling INTx is not atomic with a configuration write, and
  `:222`, `:95`: without DisINTx an interrupt during set-up disables the line twice; hence
  `MaskObeyed` is about one call at a time, and about devices with DisINTx.
- `hpa_automation.py:485`, `:514`: `cloud/onap/cli/README:31` gives `-t "sdc"` as a way to
  run the script, and `:41` a service instance as what it makes. With `-t sdc` the id given to
  `vfc-nslcm-create` is empty, and no run makes a service (the `sdc` conjunct of
  `CleanRunCompletes`).
- `hpa_automation.py:383`: `-t sdc` with VNFs ends in a `NameError`, `-t local` without
  VNFs in an `UnboundLocalError` (`upload_vnf_package`), and `-t sdc` without VNFs in an
  `IndexError` (`:398`) when the refusal of the service has fewer than four words;
  `AbortsExplained` exempts the three.
- `hpa_automation.py:398`, `:415`, `:426`: the text of an error with enough words is taken
  apart like any answer, and the script goes on with one of its words for an id; what it
  then names is not there, so that the upload and the service are refused unseen.
- `hpa_automation.py:509`: "add_policies function not currently working"; nothing is claimed
  about policies.
- `insert_policy_models.py` uses `sys` without importing it.
- `pbr/packaging.py:694`: a repository with one commit and no tag is built as 0.0.0, as if
  it had none; `Between` exempts that commit.
- `pbr/packaging.py:710`: who names a prerelease in `setup.cfg` and then the final release
  lets dev versions go down, as a dev version of a prerelease is above one of the release;
  hence `NamesFinal` in `VersionsGrow`.
- `pbr/version.py:247`: the rpm string of what comes before a release ends in parts of 9999, so that
  releases with greater parts are out of order; hence `Fits`.
- `pbr/version.py:242`, `:355`: the Debian and rpm strings put a dev version without
  prerelease after the prereleases, where the order puts it before; `PackagesOrdered` is
  about tags.
- `pbr/version.py:206`: a tag of four numbers is read as a dev version.
- `pbr/packaging.py:539`: a source distribution made from a source distribution loses the
  files only git knew of; `InstallComplete` exempts them (`lost`) then.
- `pbr/packaging.py:626`: the release notes are added to what is packed after SOURCES.txt has
  been written, so that an install from a source distribution does not have them.
- `pbr/packaging.py:93`: requirement files named `-pyN` are ignored
  (`PY_REQUIREMENTS_FILES`), although `get_requirements_files` still returns them first.
- `pbr/git.py:263`: unpacked inside another repository, a source distribution gets the
  change log and authors of that one.
- `pbr/hooks/files.py:67`: a line that continues a globbed line goes to the last directory
  below it.
- `pbr/version.py:430`: in a clone, `rpm_version` and `deb_version` print the version of the
  package that is installed, if one is.
- `stevedore/extension.py:167`: entry points activated after the first manager of a namespace
  are never seen.

## Plan

Done: the driver (`VfioPciDevice`, `VfioPciIntx`, `VfioPciMsi`, `VfioPciMmap`);
`OnapAutomation` and its refinement of `Deployment`; `Stevedore`; `SemVer`, `PbrRelease` and
`PbrSetup`; and a theorem for every invariant that a run checks.

Left, in this order:

1. `VfioDevice`, an abstract device (free, in use by one user, stale), and `VfioPciDevice`
   shown to implement it.
2. `develop` and the test commands of pbr.
3. The exit handshakes of the kernel examples.

## Not modelled

The information ioctls, VGA arbitration and the parsing of module parameters change no
state that others see. Configuration space (`vfio_pci_config.c`), VGA and ROM access
(`vfio_pci_rdwr.c`) and the vfio core are not in the repository. Design and
distribution through SDC in `hpa_automation.py` (lines 52 to 183) is dead code, as its calls
are commented out, and is left out; so is `insert_policy_models.py`, which does not start. Of
stevedore the Sphinx directive, of pbr the Sphinx and test-runner commands, `develop` and the
command line are left out: they call other programs, or print. The VF-C scripts are one REST
call each. The kernel, Go, shell, socket and gRPC examples are a few lines each and share
nothing with the components above; the handshakes of the kernel examples are in the plan.
The other vendored packages (`six`), generated code, data and notes are left out.
