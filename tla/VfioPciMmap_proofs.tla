------------------------- MODULE VfioPciMmap_proofs -------------------------
(***************************************************************************)
(* Proofs about VfioPciMmap, for any page size, any layout of the BARs and *)
(* any threads: IndInv is inductive, one lemma for each of its parts with  *)
(* one step for each operation, and the properties follow from it.         *)
(***************************************************************************)
EXTENDS FiniteSetTheorems, VfioPciMmap, TLAPS

USE DEF setup, regions, callVars

(* What PAGE_ALIGN makes of whole pages and of part of one.                *)
LEMMA SmallMod ==
    ASSUME NEW x \in Nat, x < PAGE
    PROVE  x % PAGE = x
  BY SizeAssumption

LEMMA PageAlignValue ==
    ASSUME NEW x \in Nat
    PROVE  /\ Aligned(x) => PageAlign(x) = x
           /\ 0 < x /\ x < PAGE => PageAlign(x) = PAGE
  BY SmallMod, SizeAssumption DEF PageAlign, PageMask, Aligned

(* What is known of the BARs.                                              *)
LEMMA Bars ==
    ASSUME TypeOK, NEW b \in Bar
    PROVE  /\ hw.start[b] \in Nat /\ hw.len[b] \in Nat /\ b \in Nat
           /\ hw.len[b] >= PAGE => Aligned(hw.len[b])
           /\ \A c \in Bar \ {b} : BarRange(b) \cap BarRange(c) = {}
           /\ BarRange(b) \subseteq Addr
<1>1. hw \in Layout
  BY LayoutAssumption DEF TypeOK
<1> QED
  <2>1. /\ Span(hw.start[b], hw.len[b]) \subseteq Addr
        /\ hw.len[b] >= PAGE => Aligned(hw.start[b]) /\ Aligned(hw.len[b])
        /\ \A c \in Bar \ {b} :
            Span(hw.start[b], hw.len[b]) \cap Span(hw.start[c], hw.len[c]) = {}
    BY LayoutAssumption DEF TypeOK
  <2>2. hw.start[b] \in Nat /\ hw.len[b] \in Nat /\ b \in Nat
    BY <1>1, SizeAssumption DEF Layout, Bar
  <2> QED
    BY <2>1, <2>2 DEF BarRange

LEMMA NoReqType == NoReq \in Mapping
  BY SizeAssumption DEF NoReq, Mapping, Bar

(* All operations keep the variables in range.                             *)
LEMMA TypeStep == ASSUME IndInv, [Next]_vars PROVE TypeOK'
<1> USE SizeAssumption, NoReqType DEF IndInv
<1>1. CASE Enable
  BY <1>1 DEF Enable, TypeOK, Bar
<1>2. CASE ProbeWhole
  BY <1>2 DEF ProbeWhole, Probed, TypeOK, Bar
<1>3. CASE ProbeReserve
  BY <1>3 DEF ProbeReserve, Probed, SubPage, TypeOK, Bar
<1>4. CASE ProbeRefuse
  BY <1>4 DEF ProbeRefuse, Probed, TypeOK, Bar
<1>5. CASE Disable
  BY <1>5 DEF Disable, TypeOK, Bar
<1>6. ASSUME NEW t \in Thread, NEW b \in Bar, NEW m \in PageRange(b),
        Mmap(t, m)
      PROVE  TypeOK'
  <2>1. m \in Mapping
    BY <1>6 DEF PageRange, Mapping
  <2> QED
    BY <1>6, <2>1 DEF Mmap, TypeOK
<1>7. ASSUME NEW t \in Thread, MmapRequest(t)
      PROVE  TypeOK'
  BY <1>7 DEF MmapRequest, Goto, TypeOK, Bar
<1>8. ASSUME NEW t \in Thread, MmapBusy(t)
      PROVE  TypeOK'
  BY <1>8 DEF MmapBusy, Return, TypeOK, Bar
<1>9. ASSUME NEW t \in Thread, MmapIomap(t)
      PROVE  TypeOK'
  BY <1>9 DEF MmapIomap, Goto, TypeOK, Bar
<1>10. ASSUME NEW t \in Thread, MmapIomapFails(t)
      PROVE  TypeOK'
  BY <1>10 DEF MmapIomapFails, Return, TypeOK, Bar
<1>11. ASSUME NEW t \in Thread, MmapRemap(t)
      PROVE  TypeOK'
  BY <1>11 DEF MmapRemap, Return, TypeOK, Bar
<1>12. ASSUME NEW m \in maps, Munmap(m)
      PROVE  TypeOK'
  BY <1>12 DEF Munmap, TypeOK, Bar
<1>13. ASSUME NEW r \in [start : Addr, len : {1}], HotAdd(r)
      PROVE  TypeOK'
  <2>1. r \in [start : Nat, len : Nat \ {0}]
    BY DEF Addr
  <2> QED
    BY <1>13, <2>1 DEF HotAdd, TypeOK
<1>14. ASSUME NEW r \in foreign, HotRemove(r)
      PROVE  TypeOK'
  BY <1>14 DEF HotRemove, TypeOK, Bar
<1>15. CASE UNCHANGED vars
  BY <1>15 DEF vars, TypeOK, Bar
<1> QED
  BY <1>1, <1>2, <1>3, <1>4, <1>5, <1>6, <1>7, <1>8, <1>9, <1>10, <1>11,
     <1>12, <1>13, <1>14, <1>15 DEF Next

(* Where a BAR and the rest of its page are does not change, and other     *)
(* resources only when devices come and go.                                *)
LEMMA SameRanges ==
    ASSUME hw' = hw
    PROVE  /\ \A b \in Bar : BarRange(b)' = BarRange(b) /\ Rest(b)' = Rest(b)
           /\ \A b \in Bar : SubPage(b)' = SubPage(b)
           /\ foreign' = foreign => Foreign' = Foreign
  BY DEF BarRange, Rest, SubPage, Foreign

(* What is not taken is free of every resource.                            *)
LEMMA NotTaken ==
    ASSUME NEW S, S \cap Taken = {}
    PROVE  /\ S \cap Foreign = {}
           /\ \A b \in Bar : S \cap BarRange(b) = {}
           /\ \A b \in Bar : dummy[b] => S \cap Rest(b) = {}
<1>1. \A x \in S : x \notin Taken
  OBVIOUS
<1>2. \A x \in Foreign : x \in Taken
  BY Zenon DEF Taken
<1>3. \A b \in Bar : \A x \in BarRange(b) : x \in Taken
  BY Zenon DEF Taken
<1>4. ASSUME NEW b \in Bar, dummy[b] PROVE \A x \in Rest(b) : x \in Taken
  <2>1. b \in {c \in Bar : dummy[c]}
    BY <1>4
  <2>2. Rest(b) \in {Rest(c) : c \in {d \in Bar : dummy[d]}}
    BY <2>1
  <2> QED
    BY <2>2, Zenon DEF Taken
<1> QED
  BY <1>1, <1>2, <1>3, <1>4

(* Nothing is plugged into a page that has been reserved.                  *)
LEMMA SetupStep == ASSUME IndInv, [Next]_vars PROVE SetupInv'
<1> USE SizeAssumption DEF IndInv
<1>1. CASE Enable
  <2>1. hw' = hw /\ foreign' = foreign
    BY <1>1 DEF Enable
  <2> QED
    BY <1>1, <2>1, SameRanges DEF Enable, TypeOK, SetupInv, Bar
<1>2. CASE ProbeWhole
  <2>1. hw' = hw /\ foreign' = foreign
    BY <1>2 DEF ProbeWhole, Probed
  <2> QED
    BY <1>2, <2>1, SameRanges DEF ProbeWhole, Probed, TypeOK, SetupInv, Bar
<1>3. CASE ProbeReserve
  <2>1. hw' = hw /\ foreign' = foreign
    BY <1>3 DEF ProbeReserve, Probed
  <2>2. /\ Rest(probe) \cap Foreign = {}
        /\ \A c \in Bar : Rest(probe) \cap BarRange(c) = {}
    BY <1>3, NotTaken DEF ProbeReserve
  <2> QED
    BY <1>3, <2>1, <2>2, SameRanges
    DEF ProbeReserve, Probed, TypeOK, SetupInv, Bar
<1>4. CASE ProbeRefuse
  <2>1. /\ hw' = hw /\ foreign' = foreign /\ probe \in Bar
        /\ supported' = [supported EXCEPT ![probe] = FALSE]
        /\ dummy' = [dummy EXCEPT ![probe] = FALSE]
        /\ probe' = probe + 1
    BY <1>4 DEF ProbeRefuse, Probed
  <2>2. probe \in Nat /\ probe' # -1
    BY <2>1, SizeAssumption DEF Bar
  <2>3. \A b \in Bar : dummy'[b] => dummy[b]
    BY <2>1 DEF TypeOK
  <2>4. ASSUME NEW b \in Bar, b < probe', supported'[b]
        PROVE  b < probe /\ supported[b] /\ dummy'[b] = dummy[b]
    <3>1. b # probe
      BY <2>1, <2>4 DEF TypeOK
    <3>2. b < probe
      BY <2>1, <2>2, <2>4, <3>1, SizeAssumption DEF Bar
    <3> QED
      BY <2>1, <2>4, <3>1, <3>2 DEF TypeOK
  <2>5. \A b \in Bar : BarRange(b)' \cap Foreign' = {}
    BY <2>1, SameRanges DEF SetupInv
  <2>6. ASSUME NEW b \in Bar, dummy'[b]
        PROVE  /\ SubPage(b)' /\ probe' # -1
               /\ Rest(b)' \cap Foreign' = {}
               /\ \A c \in Bar : Rest(b)' \cap BarRange(c)' = {}
    <3>1. /\ SubPage(b)
          /\ Rest(b) \cap Foreign = {}
          /\ \A c \in Bar : Rest(b) \cap BarRange(c) = {}
      BY <2>3, <2>6 DEF SetupInv
    <3> QED
      BY <2>1, <2>2, <3>1, SameRanges
  <2>7. ASSUME NEW b \in Bar, b < probe', supported'[b]
        PROVE  hw'.len[b] >= PAGE \/ dummy'[b]
    <3>1. b < probe /\ supported[b] /\ dummy'[b] = dummy[b]
      BY <2>4, <2>7
    <3>2. hw.len[b] >= PAGE \/ dummy[b]
      BY <3>1 DEF SetupInv
    <3> QED
      BY <2>1, <3>1, <3>2
  <2> QED
    BY <2>5, <2>6, <2>7 DEF SetupInv
<1>5. CASE Disable
  <2>1. /\ hw' = hw /\ foreign' = foreign /\ probe' = -1
        /\ \A b \in Bar : ~dummy'[b]
    BY <1>5 DEF Disable
  <2>2. \A b \in Bar : ~(b < probe')
    BY <2>1 DEF Bar
  <2>3. \A b \in Bar : BarRange(b)' \cap Foreign' = {}
    BY <2>1, SameRanges DEF SetupInv
  <2> QED
    BY <2>1, <2>2, <2>3 DEF SetupInv
<1>6. ASSUME NEW t \in Thread, NEW b \in Bar, NEW m \in PageRange(b),
        Mmap(t, m)
      PROVE  SetupInv'
  <2>1. hw' = hw /\ foreign' = foreign
    BY <1>6 DEF Mmap, PageRange
  <2> QED
    BY <1>6, <2>1, SameRanges DEF Mmap, PageRange, TypeOK, SetupInv, Bar
<1>7. ASSUME NEW t \in Thread, MmapRequest(t)
      PROVE  SetupInv'
  <2>1. hw' = hw /\ foreign' = foreign
    BY <1>7 DEF MmapRequest, Goto
  <2> QED
    BY <1>7, <2>1, SameRanges DEF MmapRequest, Goto, TypeOK, SetupInv, Bar
<1>8. ASSUME NEW t \in Thread, MmapBusy(t)
      PROVE  SetupInv'
  <2>1. hw' = hw /\ foreign' = foreign
    BY <1>8 DEF MmapBusy, Return
  <2> QED
    BY <1>8, <2>1, SameRanges DEF MmapBusy, Return, TypeOK, SetupInv, Bar
<1>9. ASSUME NEW t \in Thread, MmapIomap(t)
      PROVE  SetupInv'
  <2>1. hw' = hw /\ foreign' = foreign
    BY <1>9 DEF MmapIomap, Goto
  <2> QED
    BY <1>9, <2>1, SameRanges DEF MmapIomap, Goto, TypeOK, SetupInv, Bar
<1>10. ASSUME NEW t \in Thread, MmapIomapFails(t)
      PROVE  SetupInv'
  <2>1. hw' = hw /\ foreign' = foreign
    BY <1>10 DEF MmapIomapFails, Return
  <2> QED
    BY <1>10, <2>1, SameRanges DEF MmapIomapFails, Return, TypeOK, SetupInv,
       Bar
<1>11. ASSUME NEW t \in Thread, MmapRemap(t)
      PROVE  SetupInv'
  <2>1. hw' = hw /\ foreign' = foreign
    BY <1>11 DEF MmapRemap, Return
  <2> QED
    BY <1>11, <2>1, SameRanges DEF MmapRemap, Return, TypeOK, SetupInv, Bar
<1>12. ASSUME NEW m \in maps, Munmap(m)
      PROVE  SetupInv'
  <2>1. hw' = hw /\ foreign' = foreign
    BY <1>12 DEF Munmap
  <2> QED
    BY <1>12, <2>1, SameRanges DEF Munmap, TypeOK, SetupInv, Bar
<1>13. ASSUME NEW r \in [start : Addr, len : {1}], HotAdd(r)
      PROVE  SetupInv'
  <2>1. Foreign' = Foreign \cup Span(r.start, r.len)
    BY <1>13 DEF HotAdd, Foreign
  <2>2. /\ \A b \in Bar : BarRange(b) \cap Span(r.start, r.len) = {}
        /\ \A b \in Bar : dummy[b] => Rest(b) \cap Span(r.start, r.len) = {}
    BY <1>13, NotTaken DEF HotAdd
  <2>3. hw' = hw /\ probe' = probe /\ supported' = supported /\ dummy' = dummy
    BY <1>13 DEF HotAdd
  <2> QED
    BY <2>1, <2>2, <2>3, SameRanges DEF SetupInv
<1>14. ASSUME NEW r \in foreign, HotRemove(r)
      PROVE  SetupInv'
  <2>1. Foreign' \subseteq Foreign
    BY <1>14 DEF HotRemove, Foreign
  <2>2. hw' = hw /\ probe' = probe /\ supported' = supported /\ dummy' = dummy
    BY <1>14 DEF HotRemove
  <2> QED
    BY <2>1, <2>2, SameRanges DEF SetupInv
<1>15. CASE UNCHANGED vars
  BY <1>15, SameRanges DEF vars, TypeOK, SetupInv, Bar
<1> QED
  BY <1>1, <1>2, <1>3, <1>4, <1>5, <1>6, <1>7, <1>8, <1>9, <1>10, <1>11,
     <1>12, <1>13, <1>14, <1>15 DEF Next

(* Nothing is mapped that has not been accepted, and what has been stays   *)
(* acceptable while the device is enabled.                                 *)
LEMMA CallStep == ASSUME IndInv, [Next]_vars PROVE CallInv'
<1> USE SizeAssumption DEF IndInv
<1>1. CASE Enable
  BY <1>1 DEF Enable, TypeOK, CallInv, Accepts, Fits, ClearsTable, TableEnd,
     Bar
<1>2. CASE ProbeWhole
  BY <1>2 DEF ProbeWhole, Probed, TypeOK, CallInv, Accepts, Fits,
     ClearsTable, TableEnd, Bar
<1>3. CASE ProbeReserve
  BY <1>3 DEF ProbeReserve, Probed, SubPage, TypeOK, CallInv, Accepts, Fits,
     ClearsTable, TableEnd, Bar
<1>4. CASE ProbeRefuse
  BY <1>4 DEF ProbeRefuse, Probed, TypeOK, CallInv, Accepts, Fits,
     ClearsTable, TableEnd, Bar
<1>5. CASE Disable
  BY <1>5 DEF Disable, TypeOK, CallInv, Accepts, Fits, ClearsTable,
     TableEnd, Bar
<1>6. ASSUME NEW t \in Thread, NEW b \in Bar, NEW m \in PageRange(b),
        Mmap(t, m)
      PROVE  CallInv'
  BY <1>6 DEF Mmap, PageRange, TypeOK, CallInv, Accepts, Fits, ClearsTable,
     TableEnd, Bar
<1>7. ASSUME NEW t \in Thread, MmapRequest(t)
      PROVE  CallInv'
  BY <1>7 DEF MmapRequest, Goto, TypeOK, CallInv, Accepts, Fits,
     ClearsTable, TableEnd, Bar
<1>8. ASSUME NEW t \in Thread, MmapBusy(t)
      PROVE  CallInv'
  BY <1>8 DEF MmapBusy, Return, TypeOK, CallInv, Accepts, Fits, ClearsTable,
     TableEnd, Bar
<1>9. ASSUME NEW t \in Thread, MmapIomap(t)
      PROVE  CallInv'
  BY <1>9 DEF MmapIomap, Goto, TypeOK, CallInv, Accepts, Fits, ClearsTable,
     TableEnd, Bar
<1>10. ASSUME NEW t \in Thread, MmapIomapFails(t)
      PROVE  CallInv'
  BY <1>10 DEF MmapIomapFails, Return, TypeOK, CallInv, Accepts, Fits,
     ClearsTable, TableEnd, Bar
<1>11. ASSUME NEW t \in Thread, MmapRemap(t)
      PROVE  CallInv'
  BY <1>11 DEF MmapRemap, Return, TypeOK, CallInv, Accepts, Fits,
     ClearsTable, TableEnd, Bar
<1>12. ASSUME NEW m \in maps, Munmap(m)
      PROVE  CallInv'
  BY <1>12 DEF Munmap, TypeOK, CallInv, Accepts, Fits, ClearsTable,
     TableEnd, Bar
<1>13. ASSUME NEW r \in [start : Addr, len : {1}], HotAdd(r)
      PROVE  CallInv'
  BY <1>13 DEF HotAdd, TypeOK, CallInv, Accepts, Fits, ClearsTable,
     TableEnd, Bar
<1>14. ASSUME NEW r \in foreign, HotRemove(r)
      PROVE  CallInv'
  BY <1>14 DEF HotRemove, TypeOK, CallInv, Accepts, Fits, ClearsTable,
     TableEnd, Bar
<1>15. CASE UNCHANGED vars
  BY <1>15 DEF vars, TypeOK, CallInv, Accepts, Fits, ClearsTable, TableEnd,
     Bar
<1> QED
  BY <1>1, <1>2, <1>3, <1>4, <1>5, <1>6, <1>7, <1>8, <1>9, <1>10, <1>11,
     <1>12, <1>13, <1>14, <1>15 DEF Next

(* barmap is set before a thread goes on to map the BAR.                   *)
LEMMA RemapStep == ASSUME IndInv, [Next]_vars PROVE RemapInv'
<1> USE DEF IndInv
<1>1. CASE Enable
  BY <1>1 DEF Enable, TypeOK, RemapInv, Mapping
<1>2. CASE ProbeWhole
  BY <1>2 DEF ProbeWhole, Probed, TypeOK, RemapInv, Mapping
<1>3. CASE ProbeReserve
  BY <1>3 DEF ProbeReserve, Probed, SubPage, TypeOK, RemapInv, Mapping
<1>4. CASE ProbeRefuse
  BY <1>4 DEF ProbeRefuse, Probed, TypeOK, RemapInv, Mapping
<1>5. CASE Disable
  BY <1>5 DEF Disable, TypeOK, RemapInv, Mapping
<1>6. ASSUME NEW t \in Thread, NEW b \in Bar, NEW m \in PageRange(b),
        Mmap(t, m)
      PROVE  RemapInv'
  BY <1>6 DEF Mmap, PageRange, TypeOK, RemapInv, Mapping
<1>7. ASSUME NEW t \in Thread, MmapRequest(t)
      PROVE  RemapInv'
  BY <1>7 DEF MmapRequest, Goto, TypeOK, RemapInv, Mapping
<1>8. ASSUME NEW t \in Thread, MmapBusy(t)
      PROVE  RemapInv'
  BY <1>8 DEF MmapBusy, Return, TypeOK, RemapInv, Mapping
<1>9. ASSUME NEW t \in Thread, MmapIomap(t)
      PROVE  RemapInv'
  BY <1>9 DEF MmapIomap, Goto, TypeOK, RemapInv, Mapping
<1>10. ASSUME NEW t \in Thread, MmapIomapFails(t)
      PROVE  RemapInv'
  BY <1>10 DEF MmapIomapFails, Return, TypeOK, RemapInv, Mapping
<1>11. ASSUME NEW t \in Thread, MmapRemap(t)
      PROVE  RemapInv'
  BY <1>11 DEF MmapRemap, Return, TypeOK, RemapInv, Mapping
<1>12. ASSUME NEW m \in maps, Munmap(m)
      PROVE  RemapInv'
  BY <1>12 DEF Munmap, TypeOK, RemapInv, Mapping
<1>13. ASSUME NEW r \in [start : Addr, len : {1}], HotAdd(r)
      PROVE  RemapInv'
  BY <1>13 DEF HotAdd, TypeOK, RemapInv, Mapping
<1>14. ASSUME NEW r \in foreign, HotRemove(r)
      PROVE  RemapInv'
  BY <1>14 DEF HotRemove, TypeOK, RemapInv, Mapping
<1>15. CASE UNCHANGED vars
  BY <1>15 DEF vars, TypeOK, RemapInv, Mapping
<1> QED
  BY <1>1, <1>2, <1>3, <1>4, <1>5, <1>6, <1>7, <1>8, <1>9, <1>10, <1>11,
     <1>12, <1>13, <1>14, <1>15 DEF Next

(* Regions are requested, tracked and released by one thread at a time.    *)
LEMMA RegionStep == ASSUME IndInv, [Next]_vars PROVE RegionsTracked'
<1> USE SizeAssumption DEF IndInv
<1>1. CASE Enable
  BY <1>1 DEF Enable, TypeOK, RegionsTracked, Mapper, Mapping, RemapInv,
     SetupInv, CallInv, Bar
<1>2. CASE ProbeWhole
  BY <1>2 DEF ProbeWhole, Probed, TypeOK, RegionsTracked, Mapper, Mapping,
     RemapInv, SetupInv, CallInv, Bar
<1>3. CASE ProbeReserve
  BY <1>3 DEF ProbeReserve, Probed, SubPage, TypeOK, RegionsTracked, Mapper,
     Mapping, RemapInv, SetupInv, CallInv, Bar
<1>4. CASE ProbeRefuse
  BY <1>4 DEF ProbeRefuse, Probed, TypeOK, RegionsTracked, Mapper, Mapping,
     RemapInv, SetupInv, CallInv, Bar
<1>5. CASE Disable
  BY <1>5 DEF Disable, TypeOK, RegionsTracked, Mapper, Mapping, RemapInv,
     SetupInv, CallInv, Bar
<1>6. ASSUME NEW t \in Thread, NEW b \in Bar, NEW m \in PageRange(b),
        Mmap(t, m)
      PROVE  RegionsTracked'
  BY <1>6 DEF Mmap, PageRange, TypeOK, RegionsTracked, Mapper, Mapping,
     RemapInv, SetupInv, CallInv, Bar
<1>7. ASSUME NEW t \in Thread, MmapRequest(t)
      PROVE  RegionsTracked'
  <2> DEFINE b == req[t].bar
  <2>1. /\ b \in Bar /\ ~region[b] /\ pc[t] = "request"
        /\ region' = [region EXCEPT ![b] = TRUE]
        /\ pc' = [pc EXCEPT ![t] = "iomap"]
        /\ UNCHANGED <<req, barmap, maps, probe, dummy>>
    BY <1>7 DEF MmapRequest, Goto, TypeOK, Mapping
  <2>2. ~barmap[b] /\ \A u \in Thread : ~Mapper(u, b)
    BY <2>1 DEF RegionsTracked
  <2>3. \A u \in Thread, c \in Bar :
            Mapper(u, c)' <=> Mapper(u, c) \/ (u = t /\ c = b)
    BY <2>1 DEF Mapper, TypeOK
  <2>4. probe' # -1
    BY <2>1, SizeAssumption DEF CallInv
  <2> SUFFICES ASSUME NEW c \in Bar
               PROVE  /\ region'[c] /\ ~barmap'[c] <=>
                            \E u \in Thread : Mapper(u, c)'
                      /\ \A u, w \in Thread :
                            Mapper(u, c)' /\ Mapper(w, c)' => u = w
                      /\ barmap'[c] => region'[c]
                      /\ (\E m \in maps' : m.bar = c) => barmap'[c]
    BY <2>4 DEF RegionsTracked
  <2>5. CASE c = b
    BY <2>1, <2>2, <2>3, <2>5 DEF RegionsTracked, TypeOK
  <2>6. CASE c # b
    BY <2>1, <2>3, <2>6 DEF RegionsTracked, TypeOK
  <2> QED
    BY <2>5, <2>6
<1>8. ASSUME NEW t \in Thread, MmapBusy(t)
      PROVE  RegionsTracked'
  BY <1>8 DEF MmapBusy, Return, TypeOK, RegionsTracked, Mapper, Mapping,
     RemapInv, SetupInv, CallInv, Bar
<1>9. ASSUME NEW t \in Thread, MmapIomap(t)
      PROVE  RegionsTracked'
  BY <1>9 DEF MmapIomap, Goto, TypeOK, RegionsTracked, Mapper, Mapping,
     RemapInv, SetupInv, CallInv, Bar
<1>10. ASSUME NEW t \in Thread, MmapIomapFails(t)
      PROVE  RegionsTracked'
  BY <1>10 DEF MmapIomapFails, Return, TypeOK, RegionsTracked, Mapper,
     Mapping, RemapInv, SetupInv, CallInv, Bar
<1>11. ASSUME NEW t \in Thread, MmapRemap(t)
      PROVE  RegionsTracked'
  BY <1>11 DEF MmapRemap, Return, TypeOK, RegionsTracked, Mapper, Mapping,
     RemapInv, SetupInv, CallInv, Bar
<1>12. ASSUME NEW m \in maps, Munmap(m)
      PROVE  RegionsTracked'
  BY <1>12 DEF Munmap, TypeOK, RegionsTracked, Mapper, Mapping, RemapInv,
     SetupInv, CallInv, Bar
<1>13. ASSUME NEW r \in [start : Addr, len : {1}], HotAdd(r)
      PROVE  RegionsTracked'
  BY <1>13 DEF HotAdd, TypeOK, RegionsTracked, Mapper, Mapping, RemapInv,
     SetupInv, CallInv, Bar
<1>14. ASSUME NEW r \in foreign, HotRemove(r)
      PROVE  RegionsTracked'
  BY <1>14 DEF HotRemove, TypeOK, RegionsTracked, Mapper, Mapping, RemapInv,
     SetupInv, CallInv, Bar
<1>15. CASE UNCHANGED vars
  BY <1>15 DEF vars, TypeOK, RegionsTracked, Mapper, Mapping, RemapInv,
     SetupInv, CallInv, Bar
<1> QED
  BY <1>1, <1>2, <1>3, <1>4, <1>5, <1>6, <1>7, <1>8, <1>9, <1>10, <1>11,
     <1>12, <1>13, <1>14, <1>15 DEF Next

(* IndInv is an invariant.                                                 *)
LEMMA InitInv == Init => IndInv
<1> SUFFICES ASSUME Init PROVE IndInv
  OBVIOUS
<1> USE SizeAssumption, NoReqType DEF Init
<1>1. TypeOK
  BY DEF TypeOK, Bar
<1>2. SetupInv
  BY DEF SetupInv, Foreign, Bar
<1>3. CallInv /\ RemapInv /\ RegionsTracked
  BY DEF CallInv, RemapInv, RegionsTracked, Mapper
<1> QED
  BY <1>1, <1>2, <1>3 DEF IndInv

LEMMA StepInv == IndInv /\ [Next]_vars => IndInv'
  BY TypeStep, SetupStep, CallStep, RemapStep, RegionStep DEF IndInv

THEOREM Invariance == Spec => []IndInv
  BY InitInv, StepInv, PTL DEF Spec

----------------------------------------------------------------------------
(* The variables keep their types.                                         *)
THEOREM TypeCorrect == Spec => []TypeOK
<1>1. IndInv => TypeOK
  BY DEF IndInv
<1> QED
  BY <1>1, Invariance, PTL

(* However the threads race, a BAR is requested once, mapped in the kernel *)
(* while it is requested, and given back when the device is disabled.      *)
THEOREM RegionsCorrect == Spec => []RegionsTracked
<1>1. IndInv => RegionsTracked
  BY DEF IndInv
<1> QED
  BY <1>1, Invariance, PTL

(* vfio_pci_mmap maps no byte of the MSI-X table.                          *)
THEOREM TableProtected == Spec => []TableUntouched
<1>1. IndInv => TableUntouched
  <2> SUFFICES ASSUME IndInv, NEW m \in maps, m.bar = 0
               PROVE  Span(m.start, m.len)
                        \cap Span(hw.msix_offset, hw.msix_size) = {}
    BY DEF TableUntouched
  <2>1. m \in Mapping /\ hw \in Layout
    BY LayoutAssumption DEF IndInv, TypeOK
  <2>2. ClearsTable(m)
    BY DEF IndInv, CallInv, Accepts
  <2> QED
    BY <2>1, <2>2 DEF ClearsTable, TableEnd, Span, Mapping, Layout
<1> QED
  BY <1>1, Invariance, PTL

(* What a user maps reaches no other BAR and no other device: a BAR of     *)
(* whole pages has them to itself, and the rest of the page of a small one *)
(* is reserved before it may be mapped.                                    *)
THEOREM MapsReachOnlyTheBar == Spec => []MapsExclusive
<1>1. IndInv => MapsExclusive
  <2> SUFFICES ASSUME IndInv, NEW m \in maps
               PROVE  LET reached == Span(hw.start[m.bar] + m.start, m.len) IN
                      /\ reached \cap Foreign = {}
                      /\ \A b \in Bar \ {m.bar} : reached \cap BarRange(b) = {}
    BY DEF MapsExclusive
  <2> DEFINE b == m.bar
             reached == Span(hw.start[b] + m.start, m.len)
  <2>1. /\ b \in Bar /\ m.start \in Nat /\ m.len \in Nat
        /\ supported[b] /\ m.start + m.len <= PageAlign(hw.len[b])
        /\ b < probe
    BY SizeAssumption DEF IndInv, TypeOK, CallInv, Accepts, Fits, Mapping, Bar
  <2>2. /\ hw.start[b] \in Nat /\ hw.len[b] \in Nat
        /\ \A c \in Bar \ {b} : BarRange(b) \cap BarRange(c) = {}
        /\ BarRange(b) \cap Foreign = {}
    BY <2>1, Bars DEF IndInv, SetupInv
  <2>3. CASE hw.len[b] >= PAGE
    <3>1. PageAlign(hw.len[b]) = hw.len[b]
      BY <2>1, <2>2, <2>3, Bars, PageAlignValue DEF IndInv
    <3>2. reached \subseteq BarRange(b)
      BY <3>1, <2>1, <2>2 DEF Span, BarRange
    <3> QED
      BY <3>2, <2>2
  <2>4. CASE hw.len[b] < PAGE
    <3>1. /\ dummy[b] /\ SubPage(b)
          /\ Rest(b) \cap Foreign = {}
          /\ \A c \in Bar : Rest(b) \cap BarRange(c) = {}
      BY <2>1, <2>2, <2>4, SizeAssumption DEF IndInv, SetupInv
    <3>2. PageAlign(hw.len[b]) = PAGE
      BY <3>1, <2>2, PageAlignValue DEF SubPage
    <3>3. reached \subseteq BarRange(b) \cup Rest(b)
      BY <3>1, <3>2, <2>1, <2>2, SizeAssumption DEF Span, BarRange, Rest
    <3> QED
      BY <3>1, <3>3, <2>2
  <2> QED
    BY <2>2, <2>3, <2>4, SizeAssumption
<1> QED
  BY <1>1, Invariance, PTL

(* Both together: mappings are confined to what the user may touch.        *)
THEOREM MappingsAreConfined == Spec => []MappingsConfined
  BY TableProtected, MapsReachOnlyTheBar, PTL DEF MappingsConfined

----------------------------------------------------------------------------
(* Division into pages: PAGE_MASK and PAGE_ALIGN round an address down and *)
(* up to the nearest start of a page.                                      *)
LEMMA PageDivision ==
    ASSUME NEW x \in Nat
    PROVE  \E q \in Nat :
            x = PAGE * q + (x % PAGE) /\ (x % PAGE) \in 0..(PAGE - 1)
<1> DEFINE q == x \div PAGE
           r == x % PAGE
<1>1. q \in Int /\ r \in 0..(PAGE - 1)
  BY SizeAssumption
<1>2. x = PAGE * q + r
  BY <1>1, SizeAssumption
<1> HIDE DEF q, r
<1>3. CASE q <= -1
  <2>1. PAGE * q <= PAGE * (-1)
    BY <1>1, <1>3, SizeAssumption
  <2>2. PAGE * (-1) = -PAGE
    BY SizeAssumption
  <2> QED
    BY <1>1, <1>2, <2>1, <2>2, SizeAssumption
<1>4. CASE q \in Nat
  BY <1>1, <1>2, <1>4 DEF r
<1> QED
  BY <1>1, <1>3, <1>4

LEMMA AlignedValue ==
    /\ \A x \in Nat : Aligned(x) => \E q \in Nat : x = PAGE * q
    /\ \A q \in Nat : PAGE * q \in Nat /\ Aligned(PAGE * q)
<1>1. ASSUME NEW x \in Nat, Aligned(x) PROVE \E q \in Nat : x = PAGE * q
  <2>1. PICK q \in Nat : x = PAGE * q + (x % PAGE)
    BY PageDivision
  <2>2. x % PAGE = 0
    BY <1>1 DEF Aligned
  <2> QED
    BY <2>1, <2>2, SizeAssumption
<1>2. ASSUME NEW q \in Nat PROVE PAGE * q \in Nat /\ Aligned(PAGE * q)
  BY SizeAssumption DEF Aligned
<1> QED
  BY <1>1, <1>2

LEMMA AlignedSums ==
    ASSUME NEW x \in Nat, NEW y \in Nat, Aligned(x), Aligned(y)
    PROVE  Aligned(x + y) /\ (y <= x => Aligned(x - y))
<1>1. PICK p \in Nat : x = PAGE * p
  BY AlignedValue
<1>2. PICK q \in Nat : y = PAGE * q
  BY AlignedValue
<1>3. Aligned(x + y)
  <2>1. x + y = PAGE * (p + q) /\ p + q \in Nat
    BY <1>1, <1>2, SizeAssumption
  <2> QED
    BY <2>1, AlignedValue
<1>4. ASSUME y <= x PROVE Aligned(x - y)
  <2>1. q <= p
    <3> SUFFICES ASSUME p + 1 <= q PROVE FALSE
      OBVIOUS
    <3>1. PAGE * (p + 1) <= PAGE * q
      BY SizeAssumption
    <3>2. PAGE * (p + 1) = PAGE * p + PAGE
      BY SizeAssumption
    <3> QED
      BY <1>1, <1>2, <1>4, <3>1, <3>2, SizeAssumption
  <2>2. x - y = PAGE * (p - q) /\ p - q \in Nat
    BY <1>1, <1>2, <2>1, SizeAssumption
  <2> QED
    BY <2>2, AlignedValue
<1> QED
  BY <1>3, <1>4

LEMMA PageMaskIs ==
    ASSUME NEW x \in Nat
    PROVE  /\ PageMask(x) \in Nat /\ Aligned(PageMask(x))
           /\ PageMask(x) <= x /\ x < PageMask(x) + PAGE
           /\ \A y \in Nat : Aligned(y) /\ y <= x => y <= PageMask(x)
<1>1. PICK q \in Nat :
        x = PAGE * q + (x % PAGE) /\ (x % PAGE) \in 0..(PAGE - 1)
  BY PageDivision
<1> DEFINE r == x % PAGE
<1>2. r \in 0..(PAGE - 1) /\ x = PAGE * q + r /\ PageMask(x) = x - r
  BY <1>1 DEF PageMask
<1> HIDE DEF r
<1>3. PAGE * q \in Nat /\ Aligned(PAGE * q)
  BY AlignedValue
<1>4. PageMask(x) = PAGE * q
  BY <1>2, <1>3, SizeAssumption
<1>5. ASSUME NEW y \in Nat, Aligned(y), y <= x PROVE y <= PAGE * q
  <2>1. PICK k \in Nat : y = PAGE * k
    BY <1>5, AlignedValue
  <2>2. CASE k <= q
    BY <2>1, <2>2, SizeAssumption
  <2>3. CASE q + 1 <= k
    <3>1. PAGE * (q + 1) <= PAGE * k
      BY <2>3, SizeAssumption
    <3>2. PAGE * (q + 1) = PAGE * q + PAGE
      BY SizeAssumption
    <3> QED
      BY <1>2, <1>3, <1>5, <2>1, <3>1, <3>2, SizeAssumption
  <2> QED
    BY <2>2, <2>3
<1> QED
  BY <1>2, <1>3, <1>4, <1>5, SizeAssumption

LEMMA PageAlignIs ==
    ASSUME NEW x \in Nat
    PROVE  /\ PageAlign(x) \in Nat /\ Aligned(PageAlign(x))
           /\ x <= PageAlign(x)
           /\ \A y \in Nat : Aligned(y) /\ x <= y => PageAlign(x) <= y
<1> DEFINE k == PageMask(x)
<1>1. /\ k \in Nat /\ Aligned(k) /\ k <= x /\ x < k + PAGE
      /\ \A y \in Nat : Aligned(y) /\ y <= x => y <= k
  BY PageMaskIs
<1>2. CASE Aligned(x)
  BY <1>2 DEF PageAlign
<1>3. CASE ~Aligned(x)
  <2>1. PageAlign(x) = k + PAGE
    BY <1>3 DEF PageAlign
  <2>2. Aligned(PAGE)
    BY SizeAssumption DEF Aligned
  <2>3. Aligned(k + PAGE)
    BY <1>1, <2>2, AlignedSums, SizeAssumption
  <2>4. k < x
    BY <1>1, <1>3
  <2>5. ASSUME NEW y \in Nat, Aligned(y), x <= y PROVE k + PAGE <= y
    <3> DEFINE d == y - k
    <3>1. k \in Nat /\ Aligned(k) /\ k < y /\ k <= y
      BY <1>1, <2>4, <2>5
    <3> HIDE DEF k
    <3>2. d \in Nat /\ Aligned(d) /\ d > 0 /\ y = k + d
      BY <2>5, <3>1, AlignedSums
    <3> HIDE DEF d
    <3>3. ~(d < PAGE)
      BY <3>2, SmallMod DEF Aligned
    <3> QED
      BY <3>1, <3>2, <3>3, SizeAssumption
  <2> HIDE DEF k
  <2> QED
    BY <1>1, <2>1, <2>3, <2>5, SizeAssumption
<1> QED
  BY <1>2, <1>3

(* The areas msix_sparse_mmap_cap tells the user of are the largest that   *)
(* vfio_pci_mmap accepts below and above the MSI-X table: all of what it   *)
(* says can be mapped, no page is left out, and there is room for both. A  *)
(* BAR smaller than a page, whose only page holds the table, has none.     *)
THEOREM SparseIsExact == Spec => []SparseExact
<1>1. IndInv => SparseExact
  <2> DEFINE off == hw.msix_offset
             L == hw.len[0]
             low == PageMask(off)
             Low == [start |-> 0, len |-> low]
             High == [start |-> Above, len |-> L - Above]
             AsMap(a) == [bar |-> 0, start |-> a.start, len |-> a.len]
  <2> SUFFICES ASSUME IndInv, probe = NBar, supported[0]
               PROVE  /\ Cardinality(Areas) <= NrAreas
                      /\ \A a \in Areas :
                            AsMap(a) \in PageRange(0) /\ Accepts(AsMap(a))
                      /\ \A m \in PageRange(0) :
                            Accepts(m) /\ m.len = PAGE =>
                                \E a \in Areas :
                                    /\ a.start <= m.start
                                    /\ m.start + m.len <= a.start + a.len
    BY DEF SparseExact
  <2>1. 0 \in Bar /\ TypeOK /\ hw \in Layouts /\ hw \in Layout
    BY SizeAssumption, LayoutAssumption DEF IndInv, TypeOK, Bar
  <2>2. /\ L \in Nat /\ off \in Nat /\ TableEnd \in Nat
        /\ off < TableEnd /\ TableEnd <= L
    <3>1. off + hw.msix_size <= L
      BY <2>1, LayoutAssumption
    <3> QED
      BY <2>1, <3>1 DEF TableEnd, Layout
  <2>3. L <= Mem
    <3>1. Span(hw.start[0], L) \subseteq Addr
      BY <2>1, Bars DEF BarRange
    <3>2. hw.start[0] \in Nat
      BY <2>1, Bars
    <3>3. hw.start[0] + L - 1 \in Addr
      BY <2>2, <3>1, <3>2 DEF Span
    <3> QED
      BY <2>2, <3>2, <3>3, SizeAssumption DEF Addr
  <2>4. L >= PAGE => Aligned(L)
    BY <2>1, Bars
  <2>5. L >= PAGE \/ (L < PAGE /\ SubPage(0))
    BY <2>1, <2>2, SizeAssumption DEF IndInv, SetupInv
  <2>6. /\ low \in Nat /\ Aligned(low) /\ low <= off
        /\ \A y \in Nat : Aligned(y) /\ y <= off => y <= low
    BY <2>2, PageMaskIs
  <2>7. /\ Above \in Nat /\ Aligned(Above) /\ TableEnd <= Above
        /\ \A y \in Nat : Aligned(y) /\ TableEnd <= y => Above <= y
    BY <2>2, PageAlignIs DEF Above
  <2>8. Areas = (IF low # 0 THEN {Low} ELSE {})
                    \cup (IF Above < L THEN {High} ELSE {})
    BY DEF Areas
  <2>9. NrAreas = IF low = 0 \/ Above >= L THEN 1 ELSE 2
    BY DEF NrAreas
  <2>10. \A m \in PageRange(0) :
            /\ m.bar = 0 /\ m.start \in Nat /\ m.len \in Nat \ {0}
            /\ Aligned(m.start) /\ Aligned(m.len)
    BY SizeAssumption DEF PageRange
  <2>11. \A m \in PageRange(0) : Accepts(m) =>
            /\ m.start + m.len <= PageAlign(L)
            /\ m.start >= TableEnd \/ m.start + m.len <= off
    BY <2>10 DEF Accepts, Fits, ClearsTable
  <2>12. ASSUME NEW s \in Nat, NEW l \in Nat \ {0},
                Aligned(s), Aligned(l), s <= Mem, l <= Mem,
                s + l <= PageAlign(L), s >= TableEnd \/ s + l <= off
         PROVE  LET m == [bar |-> 0, start |-> s, len |-> l] IN
                m \in PageRange(0) /\ Accepts(m)
    BY <2>12, SizeAssumption DEF PageRange, Accepts, Fits, ClearsTable
  <2>13. Aligned(0)
    BY SizeAssumption DEF Aligned
  <2> HIDE DEF off, L, low
  <2>14. CASE L >= PAGE
    <3>1. PageAlign(L) = L
      BY <2>2, <2>4, <2>14, PageAlignValue
    <3>2. Cardinality(Areas) <= NrAreas
      <4>1. /\ IsFiniteSet({Low}) /\ Cardinality({Low}) = 1
            /\ IsFiniteSet({High}) /\ Cardinality({High}) = 1
        BY FS_Singleton
      <4>2. IsFiniteSet({}) /\ Cardinality({}) = 0
        BY FS_EmptySet
      <4> HIDE DEF Low, High
      <4>3. Cardinality({Low} \cup {High}) <= 2
        <5>1. Cardinality({Low} \cup {High}) =
                IF High \in {Low} THEN Cardinality({Low})
                                  ELSE Cardinality({Low}) + 1
          BY <4>1, FS_AddElement
        <5> QED
          BY <4>1, <5>1
      <4>5. CASE low = 0
        <5>1. Areas = {} \/ Areas = {High}
          BY <2>8, <4>5
        <5>2. NrAreas = 1
          BY <2>9, <4>5
        <5>3. Cardinality(Areas) \in {0, 1}
          BY <4>1, <4>2, <5>1
        <5> QED
          BY <5>2, <5>3
      <4>6. CASE low # 0 /\ ~(Above < L)
        <5>1. Areas = {Low}
          BY <2>8, <4>6
        <5>2. NrAreas = 1
          BY <2>2, <2>7, <2>9, <4>6
        <5>3. Cardinality(Areas) = 1
          BY <4>1, <5>1
        <5> QED
          BY <5>2, <5>3
      <4>7. CASE low # 0 /\ Above < L
        <5>1. Areas = {Low} \cup {High}
          BY <2>8, <4>7
        <5>2. NrAreas = 2
          BY <2>2, <2>7, <2>9, <4>7
        <5> QED
          BY <4>3, <5>1, <5>2
      <4> QED
        BY <4>5, <4>6, <4>7
    <3>3. ASSUME low # 0
          PROVE  AsMap(Low) \in PageRange(0) /\ Accepts(AsMap(Low))
      <4>1. /\ low \in Nat \ {0} /\ low <= Mem /\ 0 <= Mem
            /\ 0 + low <= PageAlign(L) /\ 0 + low <= off
        BY <2>2, <2>3, <2>6, <3>1, <3>3, SizeAssumption
      <4> QED
        BY <2>6, <2>12, <2>13, <4>1
    <3>4. ASSUME Above < L
          PROVE  AsMap(High) \in PageRange(0) /\ Accepts(AsMap(High))
      <4>1. /\ L - Above \in Nat \ {0} /\ Aligned(L - Above)
            /\ Above <= Mem /\ L - Above <= Mem
            /\ Above + (L - Above) <= PageAlign(L) /\ Above >= TableEnd
        BY <2>2, <2>3, <2>4, <2>7, <2>14, <3>1, <3>4, AlignedSums,
           SizeAssumption
      <4> QED
        BY <2>7, <2>12, <4>1
    <3>5. ASSUME NEW m \in PageRange(0), Accepts(m), m.len = PAGE
          PROVE  \E a \in Areas : /\ a.start <= m.start
                                  /\ m.start + m.len <= a.start + a.len
      <4> DEFINE s == m.start
      <4>1. s \in Nat /\ Aligned(s) /\ Aligned(PAGE) /\ s + PAGE <= L
        BY <2>10, <2>11, <3>1, <3>5
      <4>2. CASE s + PAGE <= off
        <5>1. Aligned(s + PAGE) /\ s + PAGE \in Nat
          BY <4>1, AlignedSums, SizeAssumption
        <5>2. s + PAGE <= low
          BY <2>6, <4>2, <5>1
        <5>3. low # 0
          BY <4>1, <5>2, SizeAssumption
        <5>4. Low \in Areas
          BY <2>8, <5>3
        <5>5. Low.start <= s /\ s + PAGE <= Low.start + Low.len
          BY <2>6, <4>1, <5>2
        <5> QED
          BY <3>5, <5>4, <5>5
      <4>3. CASE s >= TableEnd
        <5>1. Above <= s
          BY <2>7, <4>1, <4>3
        <5>2. Above < L
          BY <2>2, <2>7, <4>1, <5>1, SizeAssumption
        <5>3. High \in Areas
          BY <2>8, <5>2
        <5>4. High.start <= s /\ s + PAGE <= High.start + High.len
          BY <2>2, <2>7, <4>1, <5>1, SizeAssumption
        <5> QED
          BY <3>5, <5>3, <5>4
      <4> QED
        BY <2>11, <3>5, <4>2, <4>3
    <3> HIDE DEF Low, High, AsMap
    <3>6. \A a \in Areas : (a = Low /\ low # 0) \/ (a = High /\ Above < L)
      BY <2>8
    <3> QED
      BY <3>2, <3>3, <3>4, <3>5, <3>6
  <2>15. CASE L < PAGE /\ SubPage(0)
    <3>1. low = 0
      BY <2>2, <2>15, SmallMod, SizeAssumption DEF low, PageMask
    <3>2. Above = PAGE /\ PageAlign(L) = PAGE
      BY <2>2, <2>15, PageAlignValue, SizeAssumption DEF Above
    <3>3. Areas = {} /\ NrAreas = 1
      BY <2>2, <2>8, <2>9, <2>15, <3>1, <3>2, SizeAssumption
    <3>4. Cardinality(Areas) <= NrAreas
      BY <3>3, FS_EmptySet
    <3>5. \A m \in PageRange(0) : ~(Accepts(m) /\ m.len = PAGE)
      BY <2>2, <2>10, <2>11, <2>15, <3>2, SizeAssumption
    <3> QED
      BY <3>3, <3>4, <3>5
  <2> QED
    BY <2>5, <2>14, <2>15
<1> QED
  BY <1>1, Invariance, PTL
=============================================================================
