----------------------------- MODULE VfioPciMmap -----------------------------
(***************************************************************************)
(* Mapping the BARs of a vfio-pci device into user space: which BARs may   *)
(* be mapped, the remainder of the page of a small one being reserved,     *)
(* what the user is told of the BAR that holds the MSI-X table, and the    *)
(* mmap calls of several threads, while devices are plugged in and out     *)
(* beside it.                                                              *)
(*                                                                         *)
(* Source: kernel/kernel-examples/lock/vfio_pci.c.                         *)
(***************************************************************************)
EXTENDS Integers, FiniteSets

CONSTANTS
    PAGE,       \* PAGE_SIZE, in units of an entry of the MSI-X table
    Mem,        \* the size of the window the BARs are assigned in
    NBar,       \* the number of BARs
    Thread,     \* the threads of the user that call mmap
    Layouts,    \* where the BARs and the MSI-X table may be
    MaxMaps     \* a bound on the mappings at a time

Bar == 0..(NBar - 1)
Addr == 0..(Mem - 1)
Span(start, size) == start..(start + size - 1)

(* A BAR is naturally aligned, as PCI demands; msix_bar is 0. *)
Layout == [start : [Bar -> Nat], len : [Bar -> Nat], mem : [Bar -> BOOLEAN],
           msix_offset : Nat, msix_size : Nat \ {0}]

Aligned(x) == x % PAGE = 0

ASSUME SizeAssumption ==
    PAGE \in Nat \ {0} /\ Mem \in Nat /\ NBar \in Nat \ {0}
ASSUME LayoutAssumption ==
    \A l \in Layouts :
        /\ l \in Layout
        /\ \A b \in Bar :
            /\ Span(l.start[b], l.len[b]) \subseteq Addr
            /\ l.len[b] >= PAGE => Aligned(l.start[b]) /\ Aligned(l.len[b])
            /\ ~Aligned(l.start[b]) =>
                (l.start[b] % PAGE) + l.len[b] <= PAGE
            /\ \A c \in Bar \ {b} :
                Span(l.start[b], l.len[b]) \cap Span(l.start[c], l.len[c])
                    = {}
        /\ l.msix_offset + l.msix_size <= l.len[0]

VARIABLES
    hw,         \* the BARs and the MSI-X table
    probe,      \* the BAR vfio_pci_probe_mmaps is at; NBar: the device is
                \* enabled; -1: it is disabled
    supported,  \* bar_mmap_supported
    dummy,      \* is the remainder of the page reserved for this BAR?
    region,     \* is this BAR requested by vfio-pci?
    barmap,     \* barmap is not NULL
    foreign,    \* the resources of other devices
    pc, req,    \* where a thread is in vfio_pci_mmap, and its BAR and range
    maps        \* the mappings

setup == <<hw, probe, supported, dummy>>
regions == <<region, barmap>>
callVars == <<pc, req>>
vars == <<setup, regions, foreign, callVars, maps>>

Mapping == [bar : Bar, start : Nat, len : Nat \ {0}]
NoReq == [bar |-> 0, start |-> 0, len |-> 1]

TypeOK ==
    /\ hw \in Layouts
    /\ probe \in -1..NBar
    /\ supported \in [Bar -> BOOLEAN]
    /\ dummy \in [Bar -> BOOLEAN]
    /\ region \in [Bar -> BOOLEAN]
    /\ barmap \in [Bar -> BOOLEAN]
    /\ foreign \subseteq [start : Nat, len : Nat \ {0}]
    /\ pc \in [Thread -> {"idle", "request", "iomap", "remap"}]
    /\ req \in [Thread -> Mapping]
    /\ maps \subseteq Mapping

----------------------------------------------------------------------------
(* Pages (PAGE_MASK, PAGE_ALIGN) and resources                             *)

PageMask(x) == x - (x % PAGE)
PageAlign(x) == IF Aligned(x) THEN x ELSE PageMask(x) + PAGE

TableEnd == hw.msix_offset + hw.msix_size
BarRange(b) == Span(hw.start[b], hw.len[b])
(* The dummy resource: the rest of the page after a BAR. *)
Rest(b) == (hw.start[b] + hw.len[b])..(hw.start[b] + PAGE - 1)
Foreign == UNION {Span(r.start, r.len) : r \in foreign}
(* What request_resource finds taken. *)
Taken ==
    Foreign \cup (UNION {BarRange(b) : b \in Bar})
            \cup (UNION {Rest(b) : b \in {c \in Bar : dummy[c]}})

Init ==
    /\ hw \in Layouts
    /\ probe = -1
    /\ supported = [b \in Bar |-> FALSE]
    /\ dummy = [b \in Bar |-> FALSE]
    /\ region = [b \in Bar |-> FALSE]
    /\ barmap = [b \in Bar |-> FALSE]
    /\ foreign = {}
    /\ pc = [t \in Thread |-> "idle"]
    /\ req = [t \in Thread |-> NoReq]
    /\ maps = {}

----------------------------------------------------------------------------
(* vfio_pci_probe_mmaps, at the end of vfio_pci_enable                     *)

Enable ==
    /\ probe = -1
    /\ probe' = 0
    /\ UNCHANGED <<hw, supported, dummy, regions, foreign, callVars, maps>>

Probed(yes, reserve) ==
    /\ supported' = [supported EXCEPT ![probe] = yes]
    /\ dummy' = [dummy EXCEPT ![probe] = reserve]
    /\ probe' = probe + 1
    /\ UNCHANGED <<hw, regions, foreign, callVars, maps>>

ProbeWhole ==
    /\ probe \in Bar
    /\ hw.mem[probe] /\ hw.len[probe] >= PAGE
    /\ Probed(TRUE, FALSE)

SubPage(b) ==
    /\ hw.mem[b]
    /\ hw.len[b] > 0 /\ hw.len[b] < PAGE
    /\ Aligned(hw.start[b])

(* Mutant: what request_resource says is not looked at. *)
ProbeReserveUnchecked ==
    /\ probe \in Bar
    /\ SubPage(probe)
    /\ Probed(TRUE, Rest(probe) \cap Taken = {})

ProbeReserve ==
    /\ probe \in Bar
    /\ SubPage(probe)
    /\ Rest(probe) \cap Taken = {}
    /\ Probed(TRUE, TRUE)

(* An I/O or empty BAR, a small one not at the start of a page, or one     *)
(* whose dummy resource cannot be allocated or requested.                  *)
(* Mutant: the next BAR is skipped.                                        *)
ProbeRefuseSkips ==
    /\ probe \in Bar
    /\ ~(hw.mem[probe] /\ hw.len[probe] >= PAGE)
    /\ supported' = [supported EXCEPT ![probe] = FALSE]
    /\ probe' = probe + 2
    /\ UNCHANGED <<hw, dummy, regions, foreign, callVars, maps>>

ProbeRefuse ==
    /\ probe \in Bar
    /\ ~(hw.mem[probe] /\ hw.len[probe] >= PAGE)
    /\ Probed(FALSE, FALSE)

(* What vfio_pci_disable does about the BARs.  A mapping holds the file,   *)
(* so there is none when the last file is released.                        *)
Disable ==
    /\ probe = NBar
    /\ maps = {} /\ \A t \in Thread : pc[t] = "idle"
    /\ region' = [b \in Bar |-> region[b] /\ ~barmap[b]]
    /\ barmap' = [b \in Bar |-> FALSE]
    /\ dummy' = [b \in Bar |-> FALSE]
    /\ probe' = -1
    /\ UNCHANGED <<hw, supported, foreign, callVars, maps>>

----------------------------------------------------------------------------
(* What the user is told: msix_sparse_mmap_cap                             *)

(* Mutant: the area above the table starts where the table ends. *)
AboveUnaligned == TableEnd
Above == PageAlign(TableEnd)

(* The areas written, and how many are announced. *)
Areas ==
    (IF PageMask(hw.msix_offset) # 0
     THEN {[start |-> 0, len |-> PageMask(hw.msix_offset)]} ELSE {})
    \cup (IF Above < hw.len[0]
          THEN {[start |-> Above, len |-> hw.len[0] - Above]} ELSE {})
NrAreas ==
    IF PageMask(hw.msix_offset) = 0 \/ Above >= hw.len[0] THEN 1 ELSE 2

----------------------------------------------------------------------------
(* vfio_pci_mmap                                                           *)

ClearsTable(m) ==
    m.bar = 0 => m.start >= TableEnd \/ m.start + m.len <= hw.msix_offset

Fits(m) == supported[m.bar] /\ m.start + m.len <= PageAlign(hw.len[m.bar])
Accepts(m) == Fits(m) /\ ClearsTable(m)

Goto(t, l) == pc' = [pc EXCEPT ![t] = l] /\ req' = req
Return(t) ==
    pc' = [pc EXCEPT ![t] = "idle"] /\ req' = [req EXCEPT ![t] = NoReq]

(* Mutant: the table is looked at only when the BAR is not yet mapped.     *)
MmapCheckedOnce(t, m) ==
    /\ probe = NBar
    /\ pc[t] = "idle"
    /\ Cardinality(maps) < MaxMaps
    /\ Fits(m) /\ (barmap[m.bar] \/ ClearsTable(m))
    /\ pc' = [pc EXCEPT ![t] = IF barmap[m.bar] THEN "remap" ELSE "request"]
    /\ req' = [req EXCEPT ![t] = m]
    /\ UNCHANGED <<setup, regions, foreign, maps>>

Mmap(t, m) ==
    /\ probe = NBar
    /\ pc[t] = "idle"
    /\ Cardinality(maps) < MaxMaps
    /\ Accepts(m)
    /\ pc' = [pc EXCEPT ![t] = IF barmap[m.bar] THEN "remap" ELSE "request"]
    /\ req' = [req EXCEPT ![t] = m]
    /\ UNCHANGED <<setup, regions, foreign, maps>>

(* pci_request_selected_regions fails if another thread has the region.    *)
MmapRequest(t) ==
    LET b == req[t].bar IN
    /\ pc[t] = "request"
    /\ ~region[b]
    /\ region' = [region EXCEPT ![b] = TRUE]
    /\ Goto(t, "iomap")
    /\ UNCHANGED <<setup, barmap, foreign, maps>>

MmapBusy(t) ==
    /\ pc[t] = "request"
    /\ region[req[t].bar]
    /\ Return(t)
    /\ UNCHANGED <<setup, regions, foreign, maps>>

MmapIomap(t) ==
    /\ pc[t] = "iomap"
    /\ barmap' = [barmap EXCEPT ![req[t].bar] = TRUE]
    /\ Goto(t, "remap")
    /\ UNCHANGED <<setup, region, foreign, maps>>

(* pci_iomap fails.  Mutant: the region is not released. *)
MmapIomapKeeps(t) ==
    /\ pc[t] = "iomap"
    /\ Return(t)
    /\ UNCHANGED <<setup, regions, foreign, maps>>

MmapIomapFails(t) ==
    /\ pc[t] = "iomap"
    /\ region' = [region EXCEPT ![req[t].bar] = FALSE]
    /\ Return(t)
    /\ UNCHANGED <<setup, barmap, foreign, maps>>

(* remap_pfn_range, which may fail *)
MmapRemap(t) ==
    /\ pc[t] = "remap"
    /\ maps' \in {maps, maps \cup {req[t]}}
    /\ Return(t)
    /\ UNCHANGED <<setup, regions, foreign>>

Munmap(m) ==
    /\ maps' = maps \ {m}
    /\ UNCHANGED <<setup, regions, foreign, callVars>>

----------------------------------------------------------------------------
(* A device beside this one gets a BAR, or loses it.                       *)
HotAdd(r) ==
    /\ Span(r.start, r.len) \cap Taken = {}
    /\ foreign' = foreign \cup {r}
    /\ UNCHANGED <<setup, regions, callVars, maps>>

HotRemove(r) ==
    /\ foreign' = foreign \ {r}
    /\ UNCHANGED <<setup, regions, callVars, maps>>

----------------------------------------------------------------------------
(* Lengths and offsets of a mapping are whole pages. *)
PageRange(b) ==
    {m \in [bar : {b}, start : 0..Mem, len : 1..Mem] :
        Aligned(m.start) /\ Aligned(m.len)}

Next ==
    \/ Enable \/ ProbeWhole \/ ProbeReserve \/ ProbeRefuse \/ Disable
    \/ \E t \in Thread :
        \/ \E b \in Bar : \E m \in PageRange(b) : Mmap(t, m)
        \/ MmapRequest(t) \/ MmapBusy(t) \/ MmapIomap(t) \/ MmapIomapFails(t)
        \/ MmapRemap(t)
    \/ \E m \in maps : Munmap(m)
    \/ \E r \in [start : Addr, len : {1}] : HotAdd(r)
    \/ \E r \in foreign : HotRemove(r)

Spec == Init /\ [][Next]_vars

----------------------------------------------------------------------------
(* "users don't get to touch this directly": no page of a mapping contains *)
(* a byte of the MSI-X table.                                              *)
TableUntouched ==
    \A m \in maps :
        m.bar = 0 =>
            Span(m.start, m.len) \cap Span(hw.msix_offset, hw.msix_size) = {}

(* A user who maps a BAR reaches neither another BAR nor another device,   *)
(* also when the BAR is smaller than a page and devices come and go.       *)
MapsExclusive ==
    \A m \in maps :
        LET reached == Span(hw.start[m.bar] + m.start, m.len) IN
        /\ reached \cap Foreign = {}
        /\ \A b \in Bar \ {m.bar} : reached \cap BarRange(b) = {}

(* What a user maps is theirs alone, and holds nothing that is not for     *)
(* them.                                                                   *)
MappingsConfined == TableUntouched /\ MapsExclusive

(* "we need to request the region and the barmap tracks that": whoever     *)
(* comes first, every mapped BAR is requested, a requested one is mapped   *)
(* in the kernel or about to be by one thread, and nothing is left over    *)
(* when the device is disabled.                                            *)
Mapper(t, b) == pc[t] = "iomap" /\ req[t].bar = b
RegionsTracked ==
    \A b \in Bar :
        /\ region[b] /\ ~barmap[b] <=> \E t \in Thread : Mapper(t, b)
        /\ \A t, u \in Thread : Mapper(t, b) /\ Mapper(u, b) => t = u
        /\ barmap[b] => region[b]
        /\ (\E m \in maps : m.bar = b) => barmap[b]
        /\ probe = -1 => ~region[b] /\ ~dummy[b]

(* The sparse areas say exactly what mmap accepts: each of them can be     *)
(* mapped as it is, every page that can be mapped is in one, and there are *)
(* no more of them than room was made for.                                 *)
SparseExact ==
    LET Mappable == {m \in PageRange(0) : Accepts(m)} IN
    probe = NBar /\ supported[0] =>
        /\ Cardinality(Areas) <= NrAreas
        /\ \A a \in Areas :
            [bar |-> 0, start |-> a.start, len |-> a.len] \in Mappable
        /\ \A m \in Mappable :
            m.len = PAGE =>
                \E a \in Areas : /\ a.start <= m.start
                                 /\ m.start + m.len <= a.start + a.len

(* Whatever has been reserved and found mappable is so. *)
SetupInv ==
    /\ \A b \in Bar : BarRange(b) \cap Foreign = {}
    /\ \A b \in Bar : dummy[b] =>
        /\ SubPage(b) /\ probe # -1
        /\ Rest(b) \cap Foreign = {}
        /\ \A c \in Bar : Rest(b) \cap BarRange(c) = {}
    /\ \A b \in Bar :
        b < probe /\ supported[b] => hw.len[b] >= PAGE \/ dummy[b]

(* What is mapped or about to be has been accepted. *)
CallInv ==
    /\ \A m \in maps : probe = NBar /\ Accepts(m)
    /\ \A t \in Thread : pc[t] # "idle" => probe = NBar /\ Accepts(req[t])

(* A thread that maps a BAR into user space has it mapped in the kernel. *)
RemapInv == \A t \in Thread : pc[t] = "remap" => barmap[req[t].bar]

(* The inductive invariant *)
IndInv == TypeOK /\ SetupInv /\ CallInv /\ RemapInv /\ RegionsTracked
=============================================================================
