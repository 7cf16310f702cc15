----------------------------- MODULE Pbr_proofs -----------------------------
(***************************************************************************)
(* What pbr keeps to whatever the history of a project and its setup.cfg   *)
(* are.  Three parts: the order of versions and their strings (SemVer);    *)
(* the versions, the releases and the change log of a history              *)
(* (PbrRelease), which rest on one inductive invariant, HistoryInv; and    *)
(* the runs of setup.py (PbrSetup).                                        *)
(*                                                                         *)
(* A sort key has seven places; once it is clear what LexLess says of      *)
(* seven numbers, what remains of the order of versions is arithmetic.     *)
(***************************************************************************)
EXTENDS FiniteSetTheorems, PbrSetup, Selection_proofs, SequenceTheorems,
        FunctionTheorems, TLAPS


(***************************************************************************)
(* The order of versions                                                   *)
(***************************************************************************)
SevenLess(a1, a2, a3, a4, a5, a6, a7, b1, b2, b3, b4, b5, b6, b7) ==
    \/ a1 < b1
    \/ a1 = b1 /\ a2 < b2
    \/ a1 = b1 /\ a2 = b2 /\ a3 < b3
    \/ a1 = b1 /\ a2 = b2 /\ a3 = b3 /\ a4 < b4
    \/ a1 = b1 /\ a2 = b2 /\ a3 = b3 /\ a4 = b4 /\ a5 < b5
    \/ a1 = b1 /\ a2 = b2 /\ a3 = b3 /\ a4 = b4 /\ a5 = b5 /\ a6 < b6
    \/ a1 = b1 /\ a2 = b2 /\ a3 = b3 /\ a4 = b4 /\ a5 = b5 /\ a6 = b6 /\ a7 < b7

(* LexLess compares seven numbers place by place.                          *)
LEMMA LexSeven ==
    ASSUME NEW a1 \in Int, NEW a2 \in Int, NEW a3 \in Int, NEW a4 \in Int,
           NEW a5 \in Int, NEW a6 \in Int, NEW a7 \in Int,
           NEW b1 \in Int, NEW b2 \in Int, NEW b3 \in Int, NEW b4 \in Int,
           NEW b5 \in Int, NEW b6 \in Int, NEW b7 \in Int
    PROVE  LexLess(<<a1, a2, a3, a4, a5, a6, a7>>, <<b1, b2, b3, b4, b5, b6, b7>>)
             <=> SevenLess(a1, a2, a3, a4, a5, a6, a7, b1, b2, b3, b4, b5, b6, b7)
PROOF
<1> DEFINE s == <<a1, a2, a3, a4, a5, a6, a7>>
           t == <<b1, b2, b3, b4, b5, b6, b7>>
           At(i) == (\A j \in 1..i - 1 : s[j] = t[j]) /\ s[i] < t[i]
<1>1. /\ Len(s) = 7 /\ Len(t) = 7
      /\ s[1] = a1 /\ s[2] = a2 /\ s[3] = a3 /\ s[4] = a4
      /\ s[5] = a5 /\ s[6] = a6 /\ s[7] = a7
      /\ t[1] = b1 /\ t[2] = b2 /\ t[3] = b3 /\ t[4] = b4
      /\ t[5] = b5 /\ t[6] = b6 /\ t[7] = b7
  OBVIOUS
<1> HIDE DEF s, t
<1>2. LexLess(s, t) <=> \E i \in 1..7 : At(i)
  BY <1>1 DEF LexLess
<1>3. /\ At(1) <=> a1 < b1
      /\ At(2) <=> a1 = b1 /\ a2 < b2
      /\ At(3) <=> a1 = b1 /\ a2 = b2 /\ a3 < b3
  BY <1>1
<1>4. At(4) <=> a1 = b1 /\ a2 = b2 /\ a3 = b3 /\ a4 < b4
  BY <1>1
<1>5. At(5) <=> a1 = b1 /\ a2 = b2 /\ a3 = b3 /\ a4 = b4 /\ a5 < b5
  BY <1>1
<1>6. At(6) <=> a1 = b1 /\ a2 = b2 /\ a3 = b3 /\ a4 = b4 /\ a5 = b5 /\ a6 < b6
  BY <1>1
<1>7. At(7) <=> /\ a1 = b1 /\ a2 = b2 /\ a3 = b3 /\ a4 = b4 /\ a5 = b5 /\ a6 = b6
                /\ a7 < b7
  BY <1>1
<1> HIDE DEF At
<1>8. (\E i \in 1..7 : At(i))
        <=> At(1) \/ At(2) \/ At(3) \/ At(4) \/ At(5) \/ At(6) \/ At(7)
  OBVIOUS
<1>9. LexLess(s, t)
        <=> SevenLess(a1, a2, a3, a4, a5, a6, a7, b1, b2, b3, b4, b5, b6, b7)
  BY <1>2, <1>3, <1>4, <1>5, <1>6, <1>7, <1>8 DEF SevenLess
<1> QED
  BY <1>9 DEF s, t

(* The fourth and the last place of the sort key.                          *)
Ready(v) == IF v.dev # 0 /\ v.pretype = "none" THEN 0 ELSE 1
DevRank(v) == IF v.dev # 0 THEN v.dev ELSE maxsize

LEMMA Places ==
    ASSUME NEW v \in Version
    PROVE  /\ v.major \in Nat /\ v.minor \in Nat /\ v.patch \in Nat
           /\ Ready(v) \in 0..1 /\ rc_lookup(v.pretype) \in 0..3
           /\ v.pre \in Nat /\ DevRank(v) \in Nat
PROOF
<1>1. /\ v.major \in Nat /\ v.minor \in Nat /\ v.patch \in Nat
      /\ v.pre \in Nat /\ v.dev \in 0..maxsize - 1 /\ v.pretype \in PreType \cup {"none"}
  BY DEF Version
<1>2. Ready(v) \in 0..1
  BY DEF Ready
<1>3. DevRank(v) \in Nat
  BY <1>1, MaxsizeAssumption DEF DevRank
<1>4. rc_lookup(v.pretype) \in 0..3
  BY <1>1 DEF rc_lookup, PreType
<1> QED
  BY <1>1, <1>2, <1>3, <1>4

(* The order of two versions, place by place.                              *)
Before(v, w) ==
    SevenLess(v.major, v.minor, v.patch, Ready(v), rc_lookup(v.pretype), v.pre, DevRank(v),
              w.major, w.minor, w.patch, Ready(w), rc_lookup(w.pretype), w.pre, DevRank(w))

LEMMA LessByPlace ==
    ASSUME NEW v \in Version, NEW w \in Version
    PROVE  Less(v, w) <=> Before(v, w)
PROOF
<1>1. /\ SortKey(v) = <<v.major, v.minor, v.patch, Ready(v),
                        rc_lookup(v.pretype), v.pre, DevRank(v)>>
      /\ SortKey(w) = <<w.major, w.minor, w.patch, Ready(w),
                        rc_lookup(w.pretype), w.pre, DevRank(w)>>
  BY DEF SortKey, Ready, DevRank
<1>2. /\ v.major \in Int /\ v.minor \in Int /\ v.patch \in Int
      /\ Ready(v) \in Int /\ rc_lookup(v.pretype) \in Int
      /\ v.pre \in Int /\ DevRank(v) \in Int
  BY Places
<1>3. /\ w.major \in Int /\ w.minor \in Int /\ w.patch \in Int
      /\ Ready(w) \in Int /\ rc_lookup(w.pretype) \in Int
      /\ w.pre \in Int /\ DevRank(w) \in Int
  BY Places
<1>4. LexLess(<<v.major, v.minor, v.patch, Ready(v),
                rc_lookup(v.pretype), v.pre, DevRank(v)>>,
              <<w.major, w.minor, w.patch, Ready(w),
                rc_lookup(w.pretype), w.pre, DevRank(w)>>)
        <=> Before(v, w)
  BY <1>2, <1>3, LexSeven DEF Before
<1> QED
  BY <1>1, <1>4 DEF Less

(* Two versions that agree in every place are the same, if no version has  *)
(* a prerelease number without a prerelease.                               *)
LEMMA PlacesDecide ==
    ASSUME NEW v \in Canonical, NEW w \in Canonical,
           v.major = w.major, v.minor = w.minor, v.patch = w.patch,
           rc_lookup(v.pretype) = rc_lookup(w.pretype), v.pre = w.pre,
           DevRank(v) = DevRank(w)
    PROVE  v = w
PROOF
<1>1. /\ v \in Version /\ w \in Version
  BY DEF Canonical
<1>2. v.pretype = w.pretype
  BY <1>1 DEF Version, PreType, rc_lookup
<1>3. v.dev \in 0..maxsize - 1 /\ w.dev \in 0..maxsize - 1
  BY <1>1 DEF Version
<1>4. v.dev = w.dev
  BY <1>3, MaxsizeAssumption DEF DevRank
<1> QED
  BY <1>1, <1>2, <1>4 DEF Version

(* Versions are totally ordered (version.py:71-105): of two versions one  *)
(* is the later one, and never both.  So the highest tag of a commit is    *)
(* well defined whatever the order in which git names the tags.            *)
THEOREM OrderIsTotal ==
    \A v \in Canonical, w \in Canonical :
      /\ Less(v, w) \/ v = w \/ Less(w, v)
      /\ ~(Less(v, w) /\ Less(w, v))
      /\ ~Less(v, v)
PROOF
<1> SUFFICES ASSUME NEW v \in Canonical, NEW w \in Canonical
             PROVE  /\ Less(v, w) \/ v = w \/ Less(w, v)
                    /\ ~(Less(v, w) /\ Less(w, v))
                    /\ ~Less(v, v)
  OBVIOUS
<1>1. v \in Version /\ w \in Version
  BY DEF Canonical
<1>2. /\ v.major \in Int /\ v.minor \in Int /\ v.patch \in Int
      /\ Ready(v) \in Int /\ rc_lookup(v.pretype) \in Int
      /\ v.pre \in Int /\ DevRank(v) \in Int
      /\ w.major \in Int /\ w.minor \in Int /\ w.patch \in Int
      /\ Ready(w) \in Int /\ rc_lookup(w.pretype) \in Int
      /\ w.pre \in Int /\ DevRank(w) \in Int
  BY <1>1, Places
<1>3. Before(v, w) \/ v = w \/ Before(w, v)
  <2> SUFFICES ASSUME ~Before(v, w), ~Before(w, v)
               PROVE  v = w
    OBVIOUS
  <2>1. /\ v.major = w.major /\ v.minor = w.minor /\ v.patch = w.patch
        /\ rc_lookup(v.pretype) = rc_lookup(w.pretype) /\ v.pre = w.pre
        /\ DevRank(v) = DevRank(w)
    BY <1>2 DEF Before, SevenLess
  <2> QED
    BY <2>1, PlacesDecide
<1>4. ~(Before(v, w) /\ Before(w, v)) /\ ~Before(v, v)
  BY <1>2 DEF Before, SevenLess
<1> QED
  BY <1>1, <1>3, <1>4, LessByPlace

(* And the order is transitive (version.py:71-105).                       *)
THEOREM OrderIsTransitive ==
    \A u \in Version, v \in Version, w \in Version :
      Less(u, v) /\ Less(v, w) => Less(u, w)
PROOF
<1> SUFFICES ASSUME NEW u \in Version, NEW v \in Version, NEW w \in Version,
                    Before(u, v), Before(v, w)
             PROVE  Before(u, w)
  BY LessByPlace
<1>1. /\ u.major \in Int /\ u.minor \in Int /\ u.patch \in Int
      /\ Ready(u) \in Int /\ rc_lookup(u.pretype) \in Int
      /\ u.pre \in Int /\ DevRank(u) \in Int
      /\ v.major \in Int /\ v.minor \in Int /\ v.patch \in Int
      /\ Ready(v) \in Int /\ rc_lookup(v.pretype) \in Int
      /\ v.pre \in Int /\ DevRank(v) \in Int
      /\ w.major \in Int /\ w.minor \in Int /\ w.patch \in Int
      /\ Ready(w) \in Int /\ rc_lookup(w.pretype) \in Int
      /\ w.pre \in Int /\ DevRank(w) \in Int
  BY Places
<1> QED
  BY <1>1 DEF Before, SevenLess

(* What increment returns is a version, without a dev count.               *)
LEMMA IncrementType ==
    ASSUME NEW v \in Version, NEW minor \in BOOLEAN, NEW major \in BOOLEAN
    PROVE  /\ increment(v, minor, major) \in Version
           /\ increment(v, minor, major).dev = 0
PROOF
<1>1. /\ v.major \in Nat /\ v.minor \in Nat /\ v.patch \in Nat /\ v.pre \in Nat
      /\ v.pretype \in PreType \cup {"none"} /\ 0 \in 0..maxsize - 1
  BY MaxsizeAssumption DEF Version
<1>2. \A x \in Nat, y \in Nat, z \in Nat :
        Final(x, y, z) \in Version /\ Final(x, y, z).dev = 0
  BY <1>1 DEF Final, Version
<1> DEFINE again == [v EXCEPT !.pre = v.pre + 1, !.dev = 0]
<1>3. again \in Version /\ again.dev = 0
  <2>1. again = [major |-> v.major, minor |-> v.minor, patch |-> v.patch,
                 pretype |-> v.pretype, pre |-> v.pre + 1, dev |-> 0]
    <3> DEFINE step == [v EXCEPT !.pre = v.pre + 1]
    <3>1. v = [major |-> v.major, minor |-> v.minor, patch |-> v.patch,
               pretype |-> v.pretype, pre |-> v.pre, dev |-> v.dev]
      BY DEF Version
    <3>2. step = [major |-> v.major, minor |-> v.minor, patch |-> v.patch,
                  pretype |-> v.pretype, pre |-> v.pre + 1, dev |-> v.dev]
      BY <3>1
    <3>3. again = [step EXCEPT !.dev = 0]
      OBVIOUS
    <3> HIDE DEF again, step
    <3> QED
      BY <3>2, <3>3
  <2> HIDE DEF again
  <2> QED
    BY <1>1, <2>1 DEF Version
<1>4. /\ v.major + 1 \in Nat /\ v.minor + 1 \in Nat /\ v.patch + 1 \in Nat /\ 0 \in Nat
  BY <1>1
<1>5. CASE major
  BY <1>1, <1>2, <1>4, <1>5 DEF increment
<1>6. CASE ~major /\ minor
  BY <1>1, <1>2, <1>4, <1>6 DEF increment
<1>7. CASE ~major /\ ~minor /\ v.pretype # "none"
  <2>1. increment(v, minor, major) = again
    BY <1>7 DEF increment
  <2> QED
    BY <2>1, <1>3
<1>8. CASE ~major /\ ~minor /\ v.pretype = "none"
  BY <1>1, <1>2, <1>4, <1>8 DEF increment
<1> QED
  BY <1>5, <1>6, <1>7, <1>8

(* A dev version of the next version comes after the version before        *)
(* (version.py:276-314, packaging.py:710-744), whichever part is           *)
(* incremented and however many commits were counted, and before the next  *)
(* version itself: so commits on the way to a release are built as         *)
(* something between the last tag and the release.                         *)
THEOREM DevVersionsAreBetween ==
    \A v \in Version, minor \in BOOLEAN, major \in BOOLEAN, n \in 1..maxsize - 1 :
      LET next == increment(v, minor, major)
      IN  /\ Less(v, to_dev(next, n))
          /\ Less(to_dev(next, n), next)
          /\ Less(v, next)
PROOF
<1> SUFFICES ASSUME NEW v \in Version, NEW minor \in BOOLEAN, NEW major \in BOOLEAN,
                    NEW n \in 1..maxsize - 1
             PROVE  /\ Less(v, to_dev(increment(v, minor, major), n))
                    /\ Less(to_dev(increment(v, minor, major), n),
                            increment(v, minor, major))
                    /\ Less(v, increment(v, minor, major))
  OBVIOUS
<1> DEFINE next == increment(v, minor, major)
           devel == to_dev(next, n)
<1>1. next \in Version /\ next.dev = 0
  BY IncrementType
<1>2. /\ v.major \in Nat /\ v.minor \in Nat /\ v.patch \in Nat /\ v.pre \in Nat
      /\ Ready(v) \in 0..1
  BY Places DEF Version
<1>3. \/ next.major > v.major
      \/ next.major = v.major /\ next.minor > v.minor
      \/ next.major = v.major /\ next.minor = v.minor /\ next.patch > v.patch
      \/ /\ next.major = v.major /\ next.minor = v.minor /\ next.patch = v.patch
         /\ next.pretype = v.pretype /\ v.pretype # "none" /\ next.pre > v.pre
  <2>1. CASE major
    BY <2>1, <1>2 DEF increment, Final
  <2>2. CASE ~major /\ minor
    BY <2>2, <1>2 DEF increment, Final
  <2>3. CASE ~major /\ ~minor /\ v.pretype # "none"
    BY <2>3, <1>2 DEF increment, Version
  <2>4. CASE ~major /\ ~minor /\ v.pretype = "none"
    BY <2>4, <1>2 DEF increment, Final
  <2> QED
    BY <2>1, <2>2, <2>3, <2>4
<1> HIDE DEF next
<1>4. /\ next.major \in Nat /\ next.minor \in Nat /\ next.patch \in Nat /\ next.pre \in Nat
      /\ rc_lookup(next.pretype) \in 0..3
  BY <1>1, Places
<1>5. /\ devel \in Version
      /\ devel.major = next.major /\ devel.minor = next.minor /\ devel.patch = next.patch
      /\ devel.pretype = next.pretype /\ devel.pre = next.pre /\ devel.dev = n
  BY <1>1, MaxsizeAssumption DEF to_dev, Version
<1> HIDE DEF devel
<1>6. /\ Ready(next) = 1 /\ DevRank(next) = maxsize
      /\ DevRank(devel) = n /\ Ready(devel) \in 0..1
      /\ next.pretype # "none" => Ready(devel) = 1
      /\ v.pretype # "none" => Ready(v) = 1
  <2>1. n # 0
    OBVIOUS
  <2> QED
    BY <2>1, <1>1, <1>5 DEF Ready, DevRank
<1>7. Before(v, next)
  BY <1>2, <1>3, <1>4, <1>6 DEF Before, SevenLess
<1>8. Before(v, devel)
  BY <1>2, <1>3, <1>4, <1>5, <1>6 DEF Before, SevenLess
<1>9. Before(devel, next)
  BY <1>4, <1>5, <1>6, MaxsizeAssumption DEF Before, SevenLess
<1>10. Less(v, devel) /\ Less(devel, next) /\ Less(v, next)
  BY <1>1, <1>5, <1>7, <1>8, <1>9, LessByPlace
<1> QED
  BY <1>10 DEF next, devel

(* The parts of a version before the prerelease, compared.                 *)
PartsBefore(v, w) ==
    \/ v.major < w.major
    \/ v.major = w.major /\ v.minor < w.minor
    \/ v.major = w.major /\ v.minor = w.minor /\ v.patch < w.patch

LEMMA ZeroIsVersion ==
    /\ Final(0, 0, 0) \in Canonical
    /\ Final(0, 0, 0).pretype = "none" /\ Final(0, 0, 0).dev = 0
PROOF
<1>1. 0 \in 0..maxsize - 1
  BY MaxsizeAssumption
<1> QED
  BY <1>1 DEF Final, Canonical, Version

LEMMA ToDev ==
    ASSUME NEW v \in Version, NEW n \in 0..maxsize - 1
    PROVE  /\ to_dev(v, n) \in Version
           /\ to_dev(v, n).major = v.major /\ to_dev(v, n).minor = v.minor
           /\ to_dev(v, n).patch = v.patch /\ to_dev(v, n).pretype = v.pretype
           /\ to_dev(v, n).pre = v.pre /\ to_dev(v, n).dev = n
           /\ v \in Canonical => to_dev(v, n) \in Canonical
PROOF
<1> DEFINE w == to_dev(v, n)
<1>1. w = [major |-> v.major, minor |-> v.minor, patch |-> v.patch,
           pretype |-> v.pretype, pre |-> v.pre, dev |-> n]
  BY DEF to_dev, Version
<1> HIDE DEF w
<1>2. w \in Version
  BY <1>1 DEF Version
<1>3. /\ w.major = v.major /\ w.minor = v.minor /\ w.patch = v.patch
      /\ w.pretype = v.pretype /\ w.pre = v.pre /\ w.dev = n
  BY <1>1
<1>4. v \in Canonical => w \in Canonical
  BY <1>2, <1>3 DEF Canonical
<1> QED
  BY <1>2, <1>3, <1>4 DEF w

LEMMA IncrementCanonical ==
    ASSUME NEW v \in Canonical, NEW minor \in BOOLEAN, NEW major \in BOOLEAN
    PROVE  increment(v, minor, major) \in Canonical
PROOF
<1>1. v \in Version
  BY DEF Canonical
<1> DEFINE next == increment(v, minor, major)
<1>2. next \in Version
  BY <1>1, IncrementType
<1>3. next.pretype = "none" => next.pre = 0
  <2>1. CASE ~major /\ ~minor /\ v.pretype # "none"
    BY <1>1, <2>1 DEF increment, Version
  <2>2. CASE ~(~major /\ ~minor /\ v.pretype # "none")
    BY <2>2 DEF increment, Final
  <2> QED
    BY <2>1, <2>2
<1> HIDE DEF next
<1>4. next \in Canonical
  BY <1>2, <1>3 DEF Canonical
<1> QED
  BY <1>4 DEF next

(* A version that is no dev version comes after its dev versions, and they *)
(* are in the order of their counts.                                       *)
LEMMA DevBelow ==
    ASSUME NEW v \in Version, v.dev = 0, NEW n \in 1..maxsize - 1
    PROVE  Less(to_dev(v, n), v)
PROOF
<1> DEFINE w == to_dev(v, n)
<1>1. n \in 0..maxsize - 1 /\ n # 0 /\ n < maxsize /\ maxsize \in Int
  BY MaxsizeAssumption
<1>2. /\ w \in Version
      /\ w.major = v.major /\ w.minor = v.minor /\ w.patch = v.patch
      /\ w.pretype = v.pretype /\ w.pre = v.pre /\ w.dev = n
  BY <1>1, ToDev
<1> HIDE DEF w
<1>3. /\ v.major \in Int /\ v.minor \in Int /\ v.patch \in Int /\ v.pre \in Int
      /\ rc_lookup(v.pretype) \in Int
  BY Places
<1>4. Ready(v) = 1 /\ DevRank(v) = maxsize /\ DevRank(w) = n /\ Ready(w) \in 0..1
  BY <1>1, <1>2 DEF Ready, DevRank
<1>5. Before(w, v)
  BY <1>1, <1>2, <1>3, <1>4 DEF Before, SevenLess
<1>6. Less(w, v)
  BY <1>2, <1>5, LessByPlace
<1> QED
  BY <1>6 DEF w

LEMMA DevCounts ==
    ASSUME NEW v \in Version, NEW m \in 1..maxsize - 1, NEW n \in 1..maxsize - 1, m < n
    PROVE  Less(to_dev(v, m), to_dev(v, n))
PROOF
<1> DEFINE x == to_dev(v, m)
           y == to_dev(v, n)
<1>1. /\ m \in 0..maxsize - 1 /\ n \in 0..maxsize - 1 /\ m # 0 /\ n # 0
      /\ m \in Int /\ n \in Int
  BY MaxsizeAssumption
<1>2. /\ x \in Version
      /\ x.major = v.major /\ x.minor = v.minor /\ x.patch = v.patch
      /\ x.pretype = v.pretype /\ x.pre = v.pre /\ x.dev = m
  BY <1>1, ToDev
<1>3. /\ y \in Version
      /\ y.major = v.major /\ y.minor = v.minor /\ y.patch = v.patch
      /\ y.pretype = v.pretype /\ y.pre = v.pre /\ y.dev = n
  BY <1>1, ToDev
<1> HIDE DEF x, y
<1>4. /\ v.major \in Int /\ v.minor \in Int /\ v.patch \in Int /\ v.pre \in Int
      /\ rc_lookup(v.pretype) \in Int
  BY Places
<1>5. Ready(x) = Ready(y) /\ Ready(y) \in Int /\ DevRank(x) = m /\ DevRank(y) = n
  BY <1>1, <1>2, <1>3 DEF Ready, DevRank
<1>6. Before(x, y)
  BY <1>1, <1>2, <1>3, <1>4, <1>5 DEF Before, SevenLess
<1>7. Less(x, y)
  BY <1>2, <1>3, <1>6, LessByPlace
<1> QED
  BY <1>7 DEF x, y

(* Dev versions of different numbers are in the order of the numbers.      *)
LEMMA PartsDecide ==
    ASSUME NEW v \in Version, NEW w \in Version, PartsBefore(v, w)
    PROVE  Less(v, w)
PROOF
<1>1. /\ v.major \in Int /\ v.minor \in Int /\ v.patch \in Int
      /\ w.major \in Int /\ w.minor \in Int /\ w.patch \in Int
  BY Places
<1>2. Before(v, w)
  BY <1>1 DEF Before, SevenLess, PartsBefore
<1> QED
  BY <1>2, LessByPlace

LEMMA DevOfParts ==
    ASSUME NEW v \in Version, NEW w \in Version, PartsBefore(v, w),
           NEW m \in 0..maxsize - 1, NEW n \in 0..maxsize - 1
    PROVE  Less(to_dev(v, m), to_dev(w, n))
PROOF
<1> DEFINE x == to_dev(v, m)
           y == to_dev(w, n)
<1>1. /\ x \in Version /\ x.major = v.major /\ x.minor = v.minor /\ x.patch = v.patch
      /\ y \in Version /\ y.major = w.major /\ y.minor = w.minor /\ y.patch = w.patch
  BY ToDev
<1> HIDE DEF x, y
<1>2. PartsBefore(x, y)
  BY <1>1 DEF PartsBefore
<1>3. Less(x, y)
  BY <1>1, <1>2, PartsDecide
<1> QED
  BY <1>3 DEF x, y

(* A final version that comes before a version which is no dev version     *)
(* does so by its parts.                                                   *)
LEMMA FinalBefore ==
    ASSUME NEW v \in Canonical, NEW w \in Canonical,
           v.pretype = "none", v.dev = 0, w.dev = 0, Less(v, w)
    PROVE  PartsBefore(v, w)
PROOF
<1>1. v \in Version /\ w \in Version
  BY DEF Canonical
<1>2. Before(v, w)
  BY <1>1, LessByPlace
<1>3. /\ v.major \in Int /\ v.minor \in Int /\ v.patch \in Int
      /\ w.major \in Int /\ w.minor \in Int /\ w.patch \in Int
  BY <1>1, Places
<1>4. Ready(v) = 1 /\ Ready(w) = 1 /\ DevRank(v) = maxsize /\ DevRank(w) = maxsize
  BY DEF Ready, DevRank
<1>5. rc_lookup(v.pretype) = 3 /\ v.pre = 0
  BY DEF rc_lookup, Canonical
<1>6. rc_lookup(w.pretype) \in 0..3 /\ w.pre \in Nat
  BY <1>1, Places
<1>7. rc_lookup(w.pretype) = 3 => w.pretype = "none"
  BY <1>1 DEF rc_lookup, Version, PreType
<1>8. w.pretype = "none" => w.pre = 0
  BY DEF Canonical
<1> QED
  BY <1>2, <1>3, <1>4, <1>5, <1>6, <1>7, <1>8, MaxsizeAssumption
     DEF Before, SevenLess, PartsBefore

(* More symbols never lead to a lower next version.                        *)
LEMMA IncrementGrows ==
    ASSUME NEW v \in Version,
           NEW minor \in BOOLEAN, NEW major \in BOOLEAN,
           NEW minor2 \in BOOLEAN, NEW major2 \in BOOLEAN,
           minor => minor2, major => major2
    PROVE  \/ increment(v, minor, major) = increment(v, minor2, major2)
           \/ PartsBefore(increment(v, minor, major), increment(v, minor2, major2))
PROOF
<1>1. /\ v.major \in Int /\ v.minor \in Int /\ v.patch \in Int
  BY Places
<1>2. CASE major
  BY <1>2 DEF increment
<1>3. CASE ~major /\ minor /\ ~major2
  BY <1>3 DEF increment
<1>4. CASE ~major /\ minor /\ major2
  BY <1>1, <1>4 DEF increment, Final, PartsBefore
<1>5. CASE ~major /\ ~minor /\ v.pretype = "none"
  BY <1>1, <1>5 DEF increment, Final, PartsBefore
<1>6. CASE ~major /\ ~minor /\ v.pretype # "none"
  <2>1. increment(v, minor, major) = [v EXCEPT !.pre = @ + 1, !.dev = 0]
    BY <1>6 DEF increment
  <2>2. /\ increment(v, minor, major).major = v.major
        /\ increment(v, minor, major).minor = v.minor
    BY <2>1 DEF Version
  <2>3. CASE major2 \/ minor2
    BY <1>1, <2>2, <2>3 DEF increment, Final, PartsBefore
  <2>4. CASE ~major2 /\ ~minor2
    BY <1>6, <2>4 DEF increment
  <2> QED
    BY <2>3, <2>4
<1> QED
  BY <1>2, <1>3, <1>4, <1>5, <1>6

(* So dev versions grow with the commits since one tag.                    *)
LEMMA DevVersionsGrow ==
    ASSUME NEW v \in Version,
           NEW minor \in BOOLEAN, NEW major \in BOOLEAN,
           NEW minor2 \in BOOLEAN, NEW major2 \in BOOLEAN,
           minor => minor2, major => major2,
           NEW m \in 1..maxsize - 1, NEW n \in 1..maxsize - 1, m < n
    PROVE  Less(to_dev(increment(v, minor, major), m),
                to_dev(increment(v, minor2, major2), n))
PROOF
<1> DEFINE x == increment(v, minor, major)
           y == increment(v, minor2, major2)
<1>1. x \in Version /\ y \in Version
  BY IncrementType
<1>2. x = y \/ PartsBefore(x, y)
  BY IncrementGrows
<1> HIDE DEF x, y
<1>3. m \in 0..maxsize - 1 /\ n \in 0..maxsize - 1
  BY MaxsizeAssumption
<1>4. Less(to_dev(x, m), to_dev(y, n))
  BY <1>1, <1>2, <1>3, DevCounts, DevOfParts
<1> QED
  BY <1>4 DEF x, y

LEMMA IncrementAbove ==
    ASSUME NEW v \in Version, NEW minor \in BOOLEAN, NEW major \in BOOLEAN
    PROVE  Less(v, increment(v, minor, major))
PROOF
<1> DEFINE next == increment(v, minor, major)
<1>1. /\ next \in Version /\ next.dev = 0
  BY IncrementType
<1>2. /\ v.major \in Nat /\ v.minor \in Nat /\ v.patch \in Nat /\ v.pre \in Nat
      /\ Ready(v) \in 0..1
  BY Places
<1>3. \/ PartsBefore(v, next)
      \/ /\ next.major = v.major /\ next.minor = v.minor /\ next.patch = v.patch
         /\ next.pretype = v.pretype /\ v.pretype # "none" /\ next.pre > v.pre
  <2>1. CASE major
    BY <2>1, <1>2 DEF increment, Final, PartsBefore
  <2>2. CASE ~major /\ minor
    BY <2>2, <1>2 DEF increment, Final, PartsBefore
  <2>3. CASE ~major /\ ~minor /\ v.pretype # "none"
    BY <2>3, <1>2 DEF increment, Version
  <2>4. CASE ~major /\ ~minor /\ v.pretype = "none"
    BY <2>4, <1>2 DEF increment, Final, PartsBefore
  <2> QED
    BY <2>1, <2>2, <2>3, <2>4
<1> HIDE DEF next
<1>4. rc_lookup(v.pretype) \in Int /\ next.pre \in Int
  BY <1>1, Places
<1>5. v.pretype # "none" /\ next.pretype = v.pretype => Ready(v) = 1 /\ Ready(next) = 1
  BY DEF Ready
<1>6. PartsBefore(v, next) => Less(v, next)
  BY <1>1, PartsDecide
<1>7. CASE ~PartsBefore(v, next)
  <2>1. Before(v, next)
    BY <1>2, <1>3, <1>4, <1>5, <1>7 DEF Before, SevenLess
  <2> QED
    BY <1>1, <2>1, LessByPlace DEF next
<1> QED
  BY <1>6, <1>7 DEF next

(***************************************************************************)
(* Version strings                                                         *)
(***************************************************************************)
LEMMA Rest ==
  ASSUME NEW S, NEW u \in Seq(S), NEW m \in 1..Len(u) + 1
  PROVE  LET v == SubSeq(u, m, Len(u))
         IN  /\ v \in Seq(S) /\ Len(v) = Len(u) - m + 1
             /\ \A i \in 1..Len(v) : v[i] = u[m + i - 1]
PROOF
<1>1. Len(u) \in Nat /\ m \in Int /\ Len(u) \in Int
  OBVIOUS
<1>2. ASSUME NEW i \in m..Len(u) PROVE u[i] \in S
  <2>1. i \in 1..Len(u)
    BY <1>1
  <2> QED
    BY <2>1, ElementOfSeq
<1>3. /\ SubSeq(u, m, Len(u)) \in Seq(S)
      /\ Len(SubSeq(u, m, Len(u))) = IF m <= Len(u) THEN Len(u) - m + 1 ELSE 0
      /\ \A i \in 1..Len(u) - m + 1 : SubSeq(u, m, Len(u))[i] = u[m + i - 1]
  BY <1>1, <1>2, SubSeqProperties
<1> DEFINE v == SubSeq(u, m, Len(u))
<1> HIDE DEF v
<1>4. /\ v \in Seq(S) /\ Len(v) = Len(u) - m + 1
      /\ \A i \in 1..Len(v) : v[i] = u[m + i - 1]
  <2>1. /\ v \in Seq(S) /\ Len(v) = IF m <= Len(u) THEN Len(u) - m + 1 ELSE 0
        /\ \A i \in 1..Len(u) - m + 1 : v[i] = u[m + i - 1]
    BY <1>3 DEF v
  <2> QED
    BY <1>1, <2>1
<1> QED
  BY <1>4 DEF v

LEMMA Added ==
    ASSUME NEW S, NEW s \in Seq(S), NEW e \in S, NEW u \in Seq(S),
           Len(u) = Len(s) + 1, \A i \in 1..Len(s) : u[i] = s[i], u[Len(s) + 1] = e
    PROVE  Append(s, e) = u
PROOF
<1> DEFINE v == Append(s, e)
<1>1. /\ v \in Seq(S) /\ Len(v) = Len(s) + 1
      /\ \A i \in 1..Len(s) : v[i] = s[i]
      /\ v[Len(s) + 1] = e
  BY AppendProperties
<1> HIDE DEF v
<1>2. Len(s) \in Nat
  OBVIOUS
<1>3. ASSUME NEW i \in 1..Len(v) PROVE v[i] = u[i]
  BY <1>1, <1>2
<1>4. v = u
  BY <1>1, <1>3, SeqEqual
<1> QED
  BY <1>4 DEF v

(* The components of the strings pbr writes.                               *)
Piece == [lead : Int, word : PreType \cup {"", "dev"}, num : Int]

LEMMA ThreeOf ==
    ASSUME NEW S, NEW a \in S, NEW b \in S, NEW c \in S
    PROVE  /\ Append(<<>>, a) = <<a>>
           /\ Append(<<a>>, b) = <<a, b>>
           /\ Append(<<a, b>>, c) = <<a, b, c>>
PROOF
<1> DEFINE s == <<a>>
           t == <<a, b>>
           u == <<a, b, c>>
<1>1. /\ s \in Seq(S) /\ t \in Seq(S) /\ u \in Seq(S)
      /\ Len(s) = 1 /\ Len(t) = 2 /\ Len(u) = 3
      /\ s[1] = a /\ t[1] = a /\ t[2] = b /\ u[1] = a /\ u[2] = b /\ u[3] = c
  OBVIOUS
<1>2. Append(<<>>, a) = s
  OBVIOUS
<1> HIDE DEF s, t, u
<1>3. Append(s, b) = t
  <2>1. \A i \in 1..Len(s) : t[i] = s[i]
    BY <1>1
  <2>2. Len(t) = Len(s) + 1 /\ t[Len(s) + 1] = b
    BY <1>1
  <2> QED
    BY <1>1, <2>1, <2>2, Added
<1>4. Append(t, c) = u
  <2>1. \A i \in 1..Len(t) : u[i] = t[i]
    BY <1>1
  <2>2. Len(u) = Len(t) + 1 /\ u[Len(t) + 1] = c
    BY <1>1
  <2> QED
    BY <1>1, <2>1, <2>2, Added
<1> QED
  BY <1>2, <1>3, <1>4 DEF s, t, u

(* The number components of a string that starts with three of them and    *)
(* has no more.                                                            *)
LEMMA NumbersFirst ==
    ASSUME NEW cs \in Seq(Piece), Len(cs) \in 3..5,
           IsNumber(cs[1]), IsNumber(cs[2]), IsNumber(cs[3]),
           \A i \in 4..Len(cs) : ~IsNumber(cs[i])
    PROVE  Keep(cs, {c \in In(cs) : IsNumber(c)}) = <<cs[1], cs[2], cs[3]>>
PROOF
<1> DEFINE D == {c \in In(cs) : IsNumber(c)}
<1>1. \A i \in 1..Len(cs) : cs[i] \in D <=> IsNumber(cs[i])
  BY DEF In
<1> HIDE DEF D
<1>2. PICK f : KeepIs(cs, D, Len(cs), f) /\ Keep(cs, D) = f[Len(cs)]
  BY KeepRecursion
<1>3. f = [i \in 0..Len(cs) |->
             IF i = 0 THEN <<>>
             ELSE IF cs[i] \in D THEN Append(f[i - 1], cs[i]) ELSE f[i - 1]]
  BY <1>2 DEF KeepIs
<1>4. cs[1] \in Piece /\ cs[2] \in Piece /\ cs[3] \in Piece
  BY ElementOfSeq
<1>5. f[0] = <<>> /\ f[1] = Append(f[0], cs[1])
  BY <1>1, <1>3
<1>6. f[2] = Append(f[1], cs[2]) /\ f[3] = Append(f[2], cs[3])
  BY <1>1, <1>3, SMTT(30)
<1>7. f[3] = <<cs[1], cs[2], cs[3]>>
  BY <1>4, <1>5, <1>6, ThreeOf
<1>8. ASSUME NEW i \in 4..Len(cs) PROVE f[i] = f[i - 1]
  <2>1. i \in 0..Len(cs) /\ i # 0 /\ i \in 1..Len(cs) /\ ~IsNumber(cs[i])
    OBVIOUS
  <2> QED
    BY <1>1, <1>3, <2>1
<1>9. f[Len(cs)] = f[3]
  <2>1. CASE Len(cs) = 3
    BY <2>1
  <2>2. CASE Len(cs) = 4
    BY <1>8, <2>2
  <2>3. CASE Len(cs) = 5
    <3>1. f[4] = f[3] /\ f[5] = f[4]
      BY <1>8, <2>3
    <3> QED
      BY <2>3, <3>1
  <2> QED
    BY <2>1, <2>2, <2>3
<1> QED
  BY <1>2, <1>7, <1>9 DEF D

(* from_pip_string of three numbers and what is behind them.               *)
LEMMA PipIsRest ==
    ASSUME NEW cs \in Seq(Piece), Len(cs) \in 3..5,
           IsNumber(cs[1]), IsNumber(cs[2]), IsNumber(cs[3]),
           \A i \in 4..Len(cs) : ~IsNumber(cs[i])
    PROVE  from_pip_string(cs)
             = ReadRest(Final(cs[1].lead, cs[2].lead, cs[3].lead), SubSeq(cs, 4, Len(cs)))
PROOF
<1> DEFINE d == <<cs[1], cs[2], cs[3]>>
           rest == SubSeq(cs, 4, Len(cs))
           s == Split(cs)
           remainder == SubSeq(s.numbers, 4, Len(s.numbers)) \o s.rest
<1>1. Keep(cs, {c \in In(cs) : IsNumber(c)}) = d
  BY NumbersFirst
<1>2. Len(d) = 3 /\ d[1] = cs[1] /\ d[2] = cs[2] /\ d[3] = cs[3] /\ d # <<>>
  OBVIOUS
<1> HIDE DEF d
<1>3. s = [numbers |-> d, rest |-> SubSeq(cs, 3 + 1, Len(cs))]
  <2> DEFINE K == Keep(cs, {c \in In(cs) : IsNumber(c)})
  <2> HIDE DEF K
  <2>1. K = d /\ ~(Len(K) < 3)
    BY <1>1, <1>2, SMTT(30) DEF K
  <2>2. s = [numbers |-> K, rest |-> SubSeq(cs, Len(K) + 1, Len(cs))]
    BY <2>1, Zenon DEF Split, K
  <2> QED
    BY <1>2, <2>1, <2>2
<1> HIDE DEF s
<1>4. s.numbers = d /\ s.rest = rest
  BY <1>3
<1>5. rest \in Seq(Piece)
  <2>1. 4 \in 1..Len(cs) + 1
    OBVIOUS
  <2> QED
    BY <2>1, Rest
<1> HIDE DEF rest
<1>6. remainder = rest
  <2>1. SubSeq(d, 4, 3) = <<>>
    BY SubSeqEmpty
  <2>2. <<>> \o rest = rest
    BY <1>5, ConcatEmptySeq
  <2> QED
    BY <1>2, <1>4, <2>1, <2>2
<1> HIDE DEF remainder
<1> DEFINE part(i) == IF i <= Len(s.numbers) THEN s.numbers[i].lead ELSE 0
<1>7. part(1) = cs[1].lead /\ part(2) = cs[2].lead /\ part(3) = cs[3].lead
  <2> DEFINE n == s.numbers
  <2> HIDE DEF n
  <2>1. Len(n) = 3 /\ n[1] = cs[1] /\ n[2] = cs[2] /\ n[3] = cs[3]
    BY <1>2, <1>4, Zenon DEF n
  <2>2. 1 <= Len(n) /\ 2 <= Len(n) /\ 3 <= Len(n)
    BY <2>1
  <2> QED
    BY <2>1, <2>2, Zenon DEF n
<1>8. cs # <<>> /\ cs[1].lead # Absent /\ s.numbers # <<>>
  <2>1. cs # <<>>
    OBVIOUS
  <2>2. s.numbers # <<>>
    BY <1>2, <1>4, Zenon
  <2> QED
    BY <2>1, <2>2 DEF IsNumber
<1> HIDE DEF part
<1>9. from_pip_string(cs) = ReadRest(Final(part(1), part(2), part(3)), remainder)
  BY <1>8, Zenon DEF from_pip_string, s, remainder, part
<1> QED
  BY <1>6, <1>7, <1>9 DEF rest

(* The components release_string writes.                                   *)
PrePiece(v) == [lead |-> 0, word |-> v.pretype, num |-> v.pre]
DevPiece(v) == Word("dev", v.dev)

LEMMA StringIs ==
    ASSUME NEW v \in Canonical
    PROVE  LET cs == release_string(v)
               p == IF v.pretype = "none" THEN 0 ELSE 1
               d == IF v.dev = 0 THEN 0 ELSE 1
           IN  /\ cs \in Seq(Piece) /\ Len(cs) = 3 + p + d
               /\ cs[1] = Number(v.major) /\ cs[2] = Number(v.minor) /\ cs[3] = Number(v.patch)
               /\ p = 1 => cs[4] = PrePiece(v)
               /\ d = 1 => cs[4 + p] = DevPiece(v)
PROOF
<1> DEFINE a == Brief(v)
           b == IF v.pretype = "none" THEN <<>> ELSE <<PrePiece(v)>>
           c == IF v.dev = 0 THEN <<>> ELSE <<DevPiece(v)>>
           p == IF v.pretype = "none" THEN 0 ELSE 1
           d == IF v.dev = 0 THEN 0 ELSE 1
           cs == release_string(v)
<1>1. /\ v.major \in Int /\ v.minor \in Int /\ v.patch \in Int /\ v.pre \in Int
      /\ v.dev \in Int /\ v.pretype \in PreType \cup {"none"}
  <2>1. v \in Version
    BY DEF Canonical
  <2>2. v.pretype \in PreType \cup {"none"} /\ v.dev \in 0..maxsize - 1
    BY <2>1 DEF Version
  <2> QED
    BY <2>1, <2>2, Places
<1>2. /\ Number(v.major) \in Piece /\ Number(v.minor) \in Piece /\ Number(v.patch) \in Piece
      /\ v.pretype # "none" => PrePiece(v) \in Piece
      /\ DevPiece(v) \in Piece
  <2>1. Absent \in Int
    BY DEF Absent
  <2>2. \A n \in Int : Number(n) \in Piece
    BY <2>1 DEF Number, Piece
  <2>3. v.pretype # "none" => PrePiece(v) \in Piece
    <3> SUFFICES ASSUME v.pretype # "none" PROVE PrePiece(v) \in Piece
      OBVIOUS
    <3>1. v.pretype \in PreType \cup {"", "dev"}
      BY <1>1, Zenon
    <3> DEFINE W == PreType \cup {"", "dev"}
               w == v.pretype
               n == v.pre
    <3>2. w \in W /\ n \in Int
      BY <1>1, <3>1, Zenon
    <3> HIDE DEF W, w, n
    <3>3. [lead |-> 0, word |-> w, num |-> n] \in [lead : Int, word : W, num : Int]
      BY <3>2
    <3> QED
      BY <3>3, Zenon DEF PrePiece, Piece, W, w, n
  <2>4. DevPiece(v) \in Piece
    BY <1>1, <2>1 DEF DevPiece, Word, Piece
  <2> QED
    BY <1>1, <2>2, <2>3, <2>4
<1>3. /\ a \in Seq(Piece) /\ Len(a) = 3
      /\ a[1] = Number(v.major) /\ a[2] = Number(v.minor) /\ a[3] = Number(v.patch)
  BY <1>2 DEF Brief
<1>4. /\ b \in Seq(Piece) /\ Len(b) = p /\ p \in {0, 1}
      /\ p = 1 => b[1] = PrePiece(v)
  BY <1>2
<1>5. /\ c \in Seq(Piece) /\ Len(c) = d /\ d \in {0, 1}
      /\ d = 1 => c[1] = DevPiece(v)
  BY <1>2
<1>6. cs = (a \o b) \o c
  BY Zenon DEF release_string, PrePiece, DevPiece
<1> HIDE DEF a, b, c, p, d, cs
<1> DEFINE ab == a \o b
<1>7. /\ ab \in Seq(Piece) /\ Len(ab) = 3 + p
      /\ \A i \in 1..3 + p : ab[i] = IF i <= 3 THEN a[i] ELSE b[i - 3]
  <2>1. /\ ab \in Seq(Piece) /\ Len(ab) = Len(a) + Len(b)
        /\ \A i \in 1..Len(a) + Len(b) : ab[i] = IF i <= Len(a) THEN a[i] ELSE b[i - Len(a)]
    BY <1>3, <1>4, ConcatProperties
  <2> HIDE DEF ab
  <2> QED
    BY <1>3, <1>4, <2>1
<1> HIDE DEF ab
<1>8. /\ cs \in Seq(Piece) /\ Len(cs) = 3 + p + d
      /\ \A i \in 1..3 + p + d : cs[i] = IF i <= 3 + p THEN ab[i] ELSE c[i - (3 + p)]
  <2>1. cs = ab \o c
    BY <1>6 DEF ab
  <2>2. /\ cs \in Seq(Piece) /\ Len(cs) = Len(ab) + Len(c)
        /\ \A i \in 1..Len(ab) + Len(c) : cs[i] = IF i <= Len(ab) THEN ab[i] ELSE c[i - Len(ab)]
    BY <1>5, <1>7, <2>1, ConcatProperties
  <2> QED
    BY <1>5, <1>7, <2>2
<1>9. cs[1] = a[1] /\ cs[2] = a[2] /\ cs[3] = a[3]
  <2>1. 1 \in 1..3 + p + d /\ 2 \in 1..3 + p + d /\ 3 \in 1..3 + p + d
    BY <1>4, <1>5
  <2>2. 1 \in 1..3 + p /\ 2 \in 1..3 + p /\ 3 \in 1..3 + p
    BY <1>4
  <2>3. cs[1] = ab[1] /\ cs[2] = ab[2] /\ cs[3] = ab[3]
    BY <1>4, <1>8, <2>1
  <2>4. ab[1] = a[1] /\ ab[2] = a[2] /\ ab[3] = a[3]
    BY <1>7, <2>2
  <2> QED
    BY <2>3, <2>4
<1>10. p = 1 => cs[4] = PrePiece(v)
  <2>1. SUFFICES ASSUME p = 1 PROVE cs[4] = PrePiece(v)
    OBVIOUS
  <2>2. cs[4] = ab[4] /\ ab[4] = b[1]
    BY <1>5, <1>7, <1>8, <2>1
  <2> QED
    BY <1>4, <2>1, <2>2
<1>11. d = 1 => cs[4 + p] = DevPiece(v)
  <2>1. SUFFICES ASSUME d = 1 PROVE cs[4 + p] = DevPiece(v)
    OBVIOUS
  <2>2. 4 + p \in 1..3 + p + d /\ ~(4 + p <= 3 + p) /\ 4 + p - (3 + p) = 1
    BY <1>4, <2>1
  <2>3. ASSUME NEW k \in Int, k = 4 + p PROVE cs[k] = c[1]
    <3>1. k \in 1..3 + p + d /\ ~(k <= 3 + p) /\ k - (3 + p) = 1
      BY <1>4, <2>1, <2>3
    <3>2. cs[k] = c[k - (3 + p)]
      BY <1>8, <3>1
    <3> QED
      BY <3>1, <3>2
  <2>4. 4 + p \in Int
    BY <1>4
  <2> QED
    BY <1>5, <2>1, <2>3, <2>4
<1> QED
  BY <1>3, <1>8, <1>9, <1>10, <1>11 DEF p, d, cs

(* A mark there is none of, and one that is the last component.            *)
LEMMA MarkAbsent ==
    ASSUME NEW cs, NEW w, \A i \in 1..Len(cs) : cs[i].word # w
    PROVE  MarkOf(cs, w) = 0
PROOF
  BY DEF MarkOf

LEMMA MarkSingle ==
    ASSUME NEW cs, NEW w, Len(cs) = 1, cs[1].word = w
    PROVE  MarkOf(cs, w) = cs[1].num
PROOF
<1> DEFINE Is == {i \in 1..Len(cs) : cs[i].word = w}
           i == CHOOSE i \in Is : \A j \in Is : j <= i
<1>1. Is = {1}
  OBVIOUS
<1> HIDE DEF Is
<1>2. i = 1
  BY <1>1
<1> HIDE DEF i
<1>3. i + 1..Len(cs) = {}
  BY <1>2
<1>4. ~(Is = {} \/ (w = "dev" /\ \E j \in i + 1..Len(cs) : cs[j].word = "post"))
  BY <1>1, <1>3
<1>5. MarkOf(cs, w) = cs[i].num
  BY <1>4, Zenon DEF MarkOf, Is, i
<1> QED
  BY <1>2, <1>5

(* What marks says: a dev count of n, and none is a count of zero.         *)
Counts(marks, n) ==
    \/ Len(marks) = 0 /\ n = 0
    \/ Len(marks) = 1 /\ marks[1] = Word("dev", n)

LEMMA MarksRead ==
    ASSUME NEW marks, NEW n \in Nat, Counts(marks, n)
    PROVE  /\ MarkOf(marks, "post") = 0 /\ MarkOf(marks, "dev") = n
           /\ \A i \in 1..Len(marks) : IsMark(marks[i])
PROOF
<1>1. CASE Len(marks) = 0 /\ n = 0
  <2>1. \A w : \A i \in 1..Len(marks) : marks[i].word # w
    BY <1>1
  <2> QED
    BY <1>1, <2>1, MarkAbsent
<1>2. CASE Len(marks) = 1 /\ marks[1] = Word("dev", n)
  <2>1. marks[1].lead = Absent /\ marks[1].word = "dev" /\ marks[1].num = n
    BY <1>2 DEF Word
  <2>2. MarkOf(marks, "dev") = n
    BY <1>2, <2>1, MarkSingle
  <2>3. \A i \in 1..Len(marks) : i = 1
    BY <1>2
  <2>4. MarkOf(marks, "post") = 0
    BY <2>1, <2>3, MarkAbsent
  <2>5. n # Absent
    BY DEF Absent
  <2> QED
    BY <2>1, <2>2, <2>3, <2>4, <2>5 DEF IsMark
<1> QED
  BY <1>1, <1>2 DEF Counts

LEMMA ReadUntyped ==
    ASSUME NEW base, NEW rest \in Seq(Piece), NEW n \in Nat, Counts(rest, n)
    PROVE  ReadRest(base, rest) = [base EXCEPT !.dev = n]
PROOF
<1>1. /\ MarkOf(rest, "post") = 0 /\ MarkOf(rest, "dev") = n
      /\ \A i \in 1..Len(rest) : IsMark(rest[i])
  BY MarksRead
<1> DEFINE first == Head(rest)
           legacy == rest # <<>> /\ IsNumber(first) /\ first.lead # 0
           typed == /\ rest # <<>> /\ ~legacy
                    /\ \/ first.lead = 0
                       \/ first.lead = Absent /\ first.word \in PreType
<1>2. rest # <<>> => first.lead = Absent /\ first.word = "dev"
  <2>1. SUFFICES ASSUME rest # <<>> PROVE first.lead = Absent /\ first.word = "dev"
    OBVIOUS
  <2>2. Len(rest) # 0
    BY <2>1, EmptySeq
  <2>3. Len(rest) = 1 /\ rest[1] = Word("dev", n)
    BY <2>2 DEF Counts
  <2>4. Head(rest) = rest[1]
    BY <2>1
  <2> QED
    BY <2>3, <2>4 DEF Word
<1>3. Absent # 0 /\ "dev" \notin PreType
  BY DEF Absent, PreType
<1> HIDE DEF first
<1>4. ~legacy
  BY <1>2 DEF IsNumber
<1> HIDE DEF legacy
<1>5. ~typed
  BY <1>2, <1>3, Zenon
<1> HIDE DEF typed
<1> QED
  BY <1>1, <1>4, <1>5, Zenon DEF ReadRest, first, legacy, typed

With(base, t, p, n) == [base EXCEPT !.pretype = t, !.pre = p, !.dev = n]

LEMMA FinalWith ==
    ASSUME NEW x, NEW y, NEW z, NEW t, NEW p, NEW n
    PROVE  With(Final(x, y, z), t, p, n)
             = [major |-> x, minor |-> y, patch |-> z, pretype |-> t, pre |-> p, dev |-> n]
PROOF
<1> DEFINE f(q, r, s) == [major |-> x, minor |-> y, patch |-> z, pretype |-> q, pre |-> r, dev |-> s]
<1>1. [f("none", 0, 0) EXCEPT !.pretype = t] = f(t, 0, 0)
  OBVIOUS
<1>2. [f(t, 0, 0) EXCEPT !.pre = p] = f(t, p, 0)
  OBVIOUS
<1>3. [f(t, p, 0) EXCEPT !.dev = n] = f(t, p, n)
  OBVIOUS
<1>4. Final(x, y, z) = f("none", 0, 0)
  BY DEF Final
<1> HIDE DEF f
<1>5. [[[Final(x, y, z) EXCEPT !.pretype = t] EXCEPT !.pre = p] EXCEPT !.dev = n] = f(t, p, n)
  BY <1>1, <1>2, <1>3, <1>4, Zenon
<1> QED
  BY <1>5, Zenon DEF f, With

LEMMA ReadTyped ==
    ASSUME NEW base, NEW rest \in Seq(Piece), NEW n \in Nat, NEW t \in PreType, NEW p \in Nat,
           rest # <<>>, rest[1] = [lead |-> 0, word |-> t, num |-> p], Counts(Tail(rest), n)
    PROVE  ReadRest(base, rest) = With(base, t, p, n)
PROOF
<1> DEFINE marks == Tail(rest)
           first == Head(rest)
           legacy == rest # <<>> /\ IsNumber(first) /\ first.lead # 0
           typed == /\ rest # <<>> /\ ~legacy
                    /\ \/ first.lead = 0
                       \/ first.lead = Absent /\ first.word \in PreType
<1>1. /\ MarkOf(marks, "post") = 0 /\ MarkOf(marks, "dev") = n
      /\ \A i \in 1..Len(marks) : IsMark(marks[i])
  BY MarksRead
<1>2. first.lead = 0 /\ first.word = t /\ first.num = p
  <2>1. first = rest[1]
    OBVIOUS
  <2> QED
    BY <2>1
<1>3. p # Absent
  BY DEF Absent
<1> HIDE DEF marks, first
<1>4. ~legacy
  BY <1>2
<1> HIDE DEF legacy
<1>5. typed
  BY <1>2, <1>4
<1> HIDE DEF typed
<1> QED
  BY <1>1, <1>2, <1>3, <1>4, <1>5, Zenon DEF ReadRest, With, marks, first, legacy, typed

(* Whoever reads a version string that pbr wrote gets the version back.    *)
LEMMA StringReadsBack ==
    ASSUME NEW v \in Canonical
    PROVE  from_pip_string(release_string(v)) = v
PROOF
<1> DEFINE cs == release_string(v)
           p == IF v.pretype = "none" THEN 0 ELSE 1
           d == IF v.dev = 0 THEN 0 ELSE 1
           base == Final(v.major, v.minor, v.patch)
           rest == SubSeq(cs, 4, Len(cs))
<1>1. /\ v \in Version /\ v.major \in Nat /\ v.minor \in Nat /\ v.patch \in Nat
      /\ v.pre \in Nat /\ v.dev \in Nat /\ v.pretype \in PreType \cup {"none"}
      /\ v.pretype = "none" => v.pre = 0
      /\ v = [major |-> v.major, minor |-> v.minor, patch |-> v.patch,
              pretype |-> v.pretype, pre |-> v.pre, dev |-> v.dev]
  <2>1. v \in Version /\ (v.pretype = "none" => v.pre = 0)
    BY DEF Canonical
  <2>2. maxsize \in Nat
    BY MaxsizeAssumption
  <2> QED
    BY <2>1, <2>2 DEF Version
<1>2. /\ cs \in Seq(Piece) /\ Len(cs) = 3 + p + d
      /\ cs[1] = Number(v.major) /\ cs[2] = Number(v.minor) /\ cs[3] = Number(v.patch)
      /\ p = 1 => cs[4] = PrePiece(v)
      /\ d = 1 => cs[4 + p] = DevPiece(v)
  BY StringIs
<1> HIDE DEF cs
<1>3. p \in {0, 1} /\ d \in {0, 1} /\ Len(cs) \in 3..5
  BY <1>2
<1>4. IsNumber(cs[1]) /\ IsNumber(cs[2]) /\ IsNumber(cs[3])
  <2>1. \A n \in Nat : IsNumber(Number(n))
    BY DEF IsNumber, Number, Absent
  <2> QED
    BY <1>1, <1>2, <2>1, Zenon
<1>5. v.pretype # "none" => v.pretype \in PreType
  BY <1>1, Zenon
<1>6. v.pretype # "none" => ~IsNumber(PrePiece(v))
  BY <1>5 DEF IsNumber, PrePiece, PreType
<1>7. ~IsNumber(DevPiece(v))
  BY DEF IsNumber, DevPiece, Word
<1>8. \A i \in 4..Len(cs) : ~IsNumber(cs[i])
  <2>1. SUFFICES ASSUME NEW i \in 4..Len(cs) PROVE ~IsNumber(cs[i])
    OBVIOUS
  <2>2. CASE p = 1 /\ i = 4
    BY <1>2, <1>6, <2>2
  <2>3. CASE d = 1 /\ i = 4 + p
    BY <1>2, <1>7, <2>3
  <2> QED
    BY <1>2, <1>3, <2>1, <2>2, <2>3
<1>9. from_pip_string(cs) = ReadRest(base, rest)
  <2>1. cs[1].lead = v.major /\ cs[2].lead = v.minor /\ cs[3].lead = v.patch
    <3>1. \A n : Number(n).lead = n
      BY DEF Number
    <3> QED
      BY <1>2, <3>1, Zenon
  <2> QED
    BY <1>2, <1>3, <1>4, <1>8, <2>1, PipIsRest
<1>10. /\ rest \in Seq(Piece) /\ Len(rest) = p + d
       /\ \A i \in 1..p + d : rest[i] = cs[3 + i]
  <2>1. 4 \in 1..Len(cs) + 1
    BY <1>3
  <2>2. /\ rest \in Seq(Piece) /\ Len(rest) = Len(cs) - 4 + 1
        /\ \A i \in 1..Len(rest) : rest[i] = cs[4 + i - 1]
    BY <1>2, <2>1, Rest
  <2> HIDE DEF rest
  <2>3. Len(rest) = p + d
    BY <1>2, <1>3, <2>2
  <2>4. ASSUME NEW i \in 1..p + d PROVE rest[i] = cs[3 + i]
    <3>1. 4 + i - 1 = 3 + i
      OBVIOUS
    <3> QED
      BY <2>2, <2>3, <3>1
  <2> QED
    BY <2>2, <2>3, <2>4
<1> HIDE DEF rest
<1>11. CASE v.pretype = "none"
  <2>1. Counts(rest, v.dev)
    <3>1. CASE v.dev = 0
      BY <1>10, <1>11, <3>1 DEF Counts
    <3>2. CASE v.dev # 0
      <4>1. Len(rest) = 1 /\ rest[1] = cs[3 + 1] /\ cs[4] = DevPiece(v)
        BY <1>2, <1>10, <1>11, <3>2
      <4> QED
        BY <4>1 DEF Counts, DevPiece
    <3> QED
      BY <3>1, <3>2
  <2>2. ReadRest(base, rest) = [base EXCEPT !.dev = v.dev]
    BY <1>1, <1>10, <2>1, ReadUntyped
  <2>3. [base EXCEPT !.dev = v.dev]
          = [major |-> v.major, minor |-> v.minor, patch |-> v.patch,
             pretype |-> "none", pre |-> 0, dev |-> v.dev]
    BY DEF Final
  <2> QED
    BY <1>1, <1>9, <1>11, <2>2, <2>3 DEF cs
<1>12. CASE v.pretype # "none"
  <2>1. rest # <<>> /\ rest[1] = PrePiece(v)
    <3>1. 1 \in 1..p + d /\ Len(rest) # 0
      BY <1>3, <1>10, <1>12
    <3> QED
      BY <1>2, <1>10, <1>12, <3>1
  <2>2. Len(Tail(rest)) = d /\ (d = 1 => Tail(rest)[1] = DevPiece(v))
    <3>1. Len(rest) = 1 + d /\ \A i \in 1..1 + d : rest[i] = cs[3 + i]
      BY <1>10, <1>12
    <3>2. Len(Tail(rest)) = Len(rest) - 1 /\ \A i \in 1..Len(rest) - 1 : Tail(rest)[i] = rest[i + 1]
      BY <1>10, <2>1
    <3>3. d = 1 => cs[5] = DevPiece(v)
      BY <1>2, <1>12
    <3> QED
      BY <1>3, <3>1, <3>2, <3>3
  <2>3. Counts(Tail(rest), v.dev)
    <3>1. CASE v.dev = 0
      BY <2>2, <3>1 DEF Counts
    <3>2. CASE v.dev # 0
      BY <2>2, <3>2 DEF Counts, DevPiece
    <3> QED
      BY <3>1, <3>2
  <2>4. ReadRest(base, rest) = With(base, v.pretype, v.pre, v.dev)
    <3>1. rest[1] = [lead |-> 0, word |-> v.pretype, num |-> v.pre]
      BY <2>1, Zenon DEF PrePiece
    <3>2. v.pretype \in PreType
      BY <1>5, <1>12, Zenon
    <3>3. v.dev \in Nat /\ v.pre \in Nat /\ rest \in Seq(Piece) /\ rest # <<>>
      BY <1>1, <1>10, <2>1
    <3> HIDE DEF base
    <3>4. \A t \in PreType : \A m, n \in Nat :
            rest[1] = [lead |-> 0, word |-> t, num |-> m] /\ Counts(Tail(rest), n)
              => ReadRest(base, rest) = With(base, t, m, n)
      BY <3>3, ReadTyped, Zenon
    <3> QED
      BY <2>3, <3>1, <3>2, <3>3, <3>4, Zenon
  <2>5. With(base, v.pretype, v.pre, v.dev)
          = [major |-> v.major, minor |-> v.minor, patch |-> v.patch,
             pretype |-> v.pretype, pre |-> v.pre, dev |-> v.dev]
    BY FinalWith
  <2> QED
    BY <1>1, <1>9, <2>4, <2>5 DEF cs
<1> QED
  BY <1>11, <1>12

(***************************************************************************)
(* Package formats                                                         *)
(***************************************************************************)
SameParts(v, w) == v.major = w.major /\ v.minor = w.minor /\ v.patch = w.patch

(* Two prereleases of the same version, in order.                          *)
Sooner(v, w) ==
    \/ rc_lookup(v.pretype) < rc_lookup(w.pretype)
    \/ rc_lookup(v.pretype) = rc_lookup(w.pretype) /\ v.pre < w.pre

LEMMA ReleaseType ==
    ASSUME NEW v \in Release
    PROVE  /\ v \in Version
           /\ v.major \in Nat /\ v.minor \in Nat /\ v.patch \in Nat /\ v.pre \in Nat
           /\ v.pretype = "none" => rc_lookup(v.pretype) = 3 /\ v.pre = 0
           /\ v.pretype # "none" =>
                /\ v.pretype \in PreType
                /\ rc_lookup(v.pretype) \in 0..2
PROOF
<1>1. v \in Version /\ (v.pretype = "none" => v.pre = 0)
  BY DEF Release, Canonical
<1>2. v.major \in Nat /\ v.minor \in Nat /\ v.patch \in Nat /\ v.pre \in Nat
  BY <1>1, Places
<1>3. v.pretype \in PreType \cup {"none"}
  BY <1>1 DEF Version
<1>4. v.pretype # "none" => v.pretype \in PreType
  BY <1>3, Zenon
<1>5. \A t \in PreType : rc_lookup(t) \in 0..2
  BY DEF PreType, rc_lookup
<1>6. rc_lookup("none") = 3
  BY DEF rc_lookup
<1> QED
  BY <1>1, <1>2, <1>4, <1>5, <1>6

LEMMA ReleasesBefore ==
    ASSUME NEW v \in Release, NEW w \in Release, Less(v, w)
    PROVE  PartsBefore(v, w) \/ (SameParts(v, w) /\ Sooner(v, w))
PROOF
<1>1. v \in Version /\ w \in Version /\ v.dev = 0 /\ w.dev = 0
  BY ReleaseType DEF Release
<1>2. Before(v, w)
  BY <1>1, LessByPlace
<1>3. /\ v.major \in Int /\ v.minor \in Int /\ v.patch \in Int
      /\ w.major \in Int /\ w.minor \in Int /\ w.patch \in Int
      /\ rc_lookup(v.pretype) \in Int /\ rc_lookup(w.pretype) \in Int
      /\ v.pre \in Int /\ w.pre \in Int
  BY <1>1, Places
<1>4. Ready(v) = 1 /\ Ready(w) = 1 /\ DevRank(v) = maxsize /\ DevRank(w) = maxsize
  BY <1>1 DEF Ready, DevRank
<1> QED
  <2> DEFINE a == rc_lookup(v.pretype)
             b == rc_lookup(w.pretype)
  <2>1. SevenLess(v.major, v.minor, v.patch, 1, a, v.pre, maxsize,
                  w.major, w.minor, w.patch, 1, b, w.pre, maxsize)
    BY <1>2, <1>4, Zenon DEF Before
  <2>2. Sooner(v, w) <=> a < b \/ (a = b /\ v.pre < w.pre)
    BY Zenon DEF Sooner
  <2>3. a \in Int /\ b \in Int
    BY <1>3
  <2> HIDE DEF a, b
  <2> QED
    BY <1>3, <2>1, <2>2, <2>3, MaxsizeAssumption DEF SevenLess, PartsBefore, SameParts

(* The first place where two sequences of numbers differ decides.          *)
LEMMA PlaceDecides ==
    ASSUME NEW s, NEW t, Len(s) \in Nat, Len(t) \in Nat, NEW i \in 1..Len(t), i <= Len(s),
           \A j \in 1..i - 1 : s[j] = t[j], s[i] < t[i]
    PROVE  LexLess(s, t)
PROOF
<1>1. \A j \in 1..i - 1 : j <= Len(s) /\ s[j] = t[j]
  OBVIOUS
<1> QED
  BY <1>1 DEF LexLess

(* s starts with the parts of version v.                                   *)
Starts(s, v) ==
    /\ Len(s) \in Nat /\ Len(s) >= 3
    /\ s[1] = v.major /\ s[2] = v.minor /\ s[3] = v.patch

LEMMA PartsDecideOrder ==
    ASSUME NEW s, NEW t, NEW v, NEW w, Starts(s, v), Starts(t, w), PartsBefore(v, w)
    PROVE  LexLess(s, t)
PROOF
<1>1. 1 \in 1..Len(t) /\ 2 \in 1..Len(t) /\ 3 \in 1..Len(t) /\ Len(s) \in Nat /\ Len(t) \in Nat
  BY DEF Starts
<1>2. CASE v.major < w.major
  BY <1>1, <1>2, PlaceDecides DEF Starts
<1>3. CASE v.major = w.major /\ v.minor < w.minor
  <2>1. \A j \in 1..2 - 1 : s[j] = t[j]
    BY <1>3 DEF Starts
  <2> QED
    BY <1>1, <1>3, <2>1, PlaceDecides DEF Starts
<1>4. CASE v.major = w.major /\ v.minor = w.minor /\ v.patch < w.patch
  <2>1. \A j \in 1..3 - 1 : s[j] = t[j]
    <3>1. \A j \in 1..3 - 1 : j = 1 \/ j = 2
      OBVIOUS
    <3> QED
      BY <1>4, <3>1 DEF Starts
  <2> QED
    BY <1>1, <1>4, <2>1, PlaceDecides DEF Starts
<1> QED
  BY <1>2, <1>3, <1>4 DEF PartsBefore

(* version_info tuples compare as the versions do.                         *)
LEMMA TuplesOrdered ==
    ASSUME NEW v \in Release, NEW w \in Release, Less(v, w)
    PROVE  LexLess(version_tuple(v), version_tuple(w))
PROOF
<1> DEFINE s == version_tuple(v)
           t == version_tuple(w)
<1>1. v.dev = 0 /\ w.dev = 0
  BY DEF Release
<1>2. /\ Len(s) = 5 /\ s[1] = v.major /\ s[2] = v.minor /\ s[3] = v.patch
      /\ s[4] = Level(v) /\ s[5] = v.pre
      /\ Len(t) = 5 /\ t[1] = w.major /\ t[2] = w.minor /\ t[3] = w.patch
      /\ t[4] = Level(w) /\ t[5] = w.pre
  BY <1>1 DEF version_tuple
<1> HIDE DEF s, t
<1>3. CASE PartsBefore(v, w)
  <2>1. Starts(s, v) /\ Starts(t, w)
    BY <1>2 DEF Starts
  <2>2. LexLess(s, t)
    BY <1>3, <2>1, PartsDecideOrder
  <2> QED
    BY <2>2 DEF s, t
<1>4. CASE SameParts(v, w) /\ Sooner(v, w)
  <2>1. \A j \in 1..3 : s[j] = t[j]
    <3>1. \A j \in 1..3 : j = 1 \/ j = 2 \/ j = 3
      OBVIOUS
    <3> QED
      BY <1>2, <1>4, <3>1 DEF SameParts
  <2> DEFINE a == rc_lookup(v.pretype)
             b == rc_lookup(w.pretype)
  <2>2. /\ Level(v) = IF v.pretype = "none" THEN 7 ELSE 2 * a
        /\ Level(w) = IF w.pretype = "none" THEN 7 ELSE 2 * b
    <3>1. a \in Int /\ b \in Int
      BY ReleaseType
    <3> QED
      BY <1>1, <3>1 DEF Level
  <2>3. /\ v.pretype = "none" => a = 3
        /\ v.pretype # "none" => a \in 0..2
        /\ w.pretype = "none" => b = 3
        /\ w.pretype # "none" => b \in 0..2
    BY ReleaseType
  <2>4. (a < b \/ (a = b /\ v.pre < w.pre)) /\ v.pre \in Nat /\ w.pre \in Nat
    <3>1. v.pre \in Nat /\ w.pre \in Nat
      BY ReleaseType
    <3> QED
      BY <1>4, <3>1, Zenon DEF Sooner
  <2> HIDE DEF a, b
  <2>5. CASE a < b
    <3>1. s[4] < t[4]
      BY <1>2, <2>2, <2>3, <2>5
    <3>2. \A j \in 1..4 - 1 : s[j] = t[j]
      BY <2>1
    <3>3. LexLess(s, t)
      BY <1>2, <3>1, <3>2, PlaceDecides
    <3> QED
      BY <3>3 DEF s, t
  <2>6. CASE a = b /\ v.pre < w.pre
    <3>1. s[4] = t[4]
      BY <1>2, <2>2, <2>3, <2>6
    <3>2. \A j \in 1..5 - 1 : s[j] = t[j]
      <4>1. \A j \in 1..5 - 1 : j \in 1..3 \/ j = 4
        OBVIOUS
      <4> QED
        BY <2>1, <3>1, <4>1
    <3>3. LexLess(s, t)
      BY <1>2, <2>6, <3>2, PlaceDecides
    <3> QED
      BY <3>3 DEF s, t
  <2> QED
    BY <2>4, <2>5, <2>6
<1> QED
  BY <1>3, <1>4, ReleasesBefore

LEMMA AsciiOrder ==
    /\ \A t \in PreType : Ascii(t) \in Int
    /\ \A t, u \in PreType :
         /\ rc_lookup(t) < rc_lookup(u) => Ascii(t) < Ascii(u)
         /\ rc_lookup(t) = rc_lookup(u) => Ascii(t) = Ascii(u)
PROOF
<1>1. /\ Ascii("a") = 0 /\ Ascii("b") = 1 /\ Ascii("rc") = 3
      /\ rc_lookup("a") = 0 /\ rc_lookup("b") = 1 /\ rc_lookup("rc") = 2
  BY DEF Ascii, rc_lookup
<1> QED
  BY <1>1 DEF PreType

LEMMA SoonerIs ==
    ASSUME NEW v \in Release, NEW w \in Release, Sooner(v, w)
    PROVE  /\ v.pretype # "none"
           /\ w.pretype # "none" =>
                \/ Ascii(v.pretype) < Ascii(w.pretype)
                \/ Ascii(v.pretype) = Ascii(w.pretype) /\ v.pre < w.pre
PROOF
<1>1. v.pretype # "none"
  <2>1. /\ v.pretype = "none" => rc_lookup(v.pretype) = 3 /\ v.pre = 0
        /\ w.pretype = "none" => rc_lookup(w.pretype) = 3 /\ w.pre = 0
        /\ w.pretype # "none" => rc_lookup(w.pretype) \in 0..2
    BY ReleaseType
  <2> QED
    BY <2>1 DEF Sooner
<1>2. w.pretype # "none" => v.pretype \in PreType /\ w.pretype \in PreType
  BY <1>1, ReleaseType
<1>3. \A t, u \in PreType :
         /\ rc_lookup(t) < rc_lookup(u) => Ascii(t) < Ascii(u)
         /\ rc_lookup(t) = rc_lookup(u) => Ascii(t) = Ascii(u)
  BY AsciiOrder
<1> QED
  BY <1>1, <1>2, <1>3, Zenon DEF Sooner

LEMMA SuffixIs ==
    ASSUME NEW v \in Release
    PROVE  /\ Suffix(v) \in Seq(Int)
           /\ v.pretype = "none" => Suffix(v) = <<>> /\ Len(Suffix(v)) = 0
           /\ v.pretype # "none" =>
                /\ Suffix(v) # <<>> /\ Len(Suffix(v)) = 2
                /\ Suffix(v)[1] = Ascii(v.pretype) /\ Suffix(v)[2] = v.pre
PROOF
<1> DEFINE a == IF v.pretype = "none" THEN <<>> ELSE <<Ascii(v.pretype), v.pre>>
<1>1. v.pre \in Int /\ (v.pretype # "none" => Ascii(v.pretype) \in Int)
  BY ReleaseType, AsciiOrder
<1>2. a \in Seq(Int)
  BY <1>1
<1>3. v.pretype = "none" => a = <<>> /\ Len(a) = 0
  OBVIOUS
<1>4. v.pretype # "none" =>
        /\ a # <<>> /\ Len(a) = 2
        /\ a[1] = Ascii(v.pretype) /\ a[2] = v.pre
  OBVIOUS
<1>5. Suffix(v) = a \o <<>>
  BY DEF Suffix, Release
<1> HIDE DEF a
<1>6. Suffix(v) = a
  BY <1>2, <1>5, ConcatEmptySeq
<1> QED
  BY <1>2, <1>3, <1>4, <1>6

(* A sequence of numbers with another behind it.                           *)
LEMMA Behind ==
    ASSUME NEW a \in Seq(Int), NEW b \in Seq(Int)
    PROVE  LET c == a \o b
           IN  /\ c \in Seq(Int) /\ Len(c) = Len(a) + Len(b) /\ Len(a) \in Nat /\ Len(b) \in Nat
               /\ \A i \in 1..Len(a) : c[i] = a[i]
               /\ \A i \in 1..Len(b) : c[Len(a) + i] = b[i]
PROOF
<1> DEFINE c == a \o b
<1>1. /\ c \in Seq(Int) /\ Len(c) = Len(a) + Len(b)
      /\ \A i \in 1..Len(a) + Len(b) : c[i] = IF i <= Len(a) THEN a[i] ELSE b[i - Len(a)]
  BY ConcatProperties
<1> HIDE DEF c
<1>2. Len(a) \in Nat /\ Len(b) \in Nat
  OBVIOUS
<1>3. \A i \in 1..Len(a) : c[i] = a[i]
  BY <1>1, <1>2
<1>4. ASSUME NEW i \in 1..Len(b) PROVE c[Len(a) + i] = b[i]
  <2>1. ASSUME NEW k \in Int, k = Len(a) + i PROVE c[k] = b[i]
    <3>1. k \in 1..Len(a) + Len(b) /\ ~(k <= Len(a)) /\ k - Len(a) = i
      BY <1>2, <2>1
    <3> QED
      BY <1>1, <3>1
  <2> QED
    BY <1>2, <2>1
<1> QED
  BY <1>1, <1>2, <1>3, <1>4 DEF c

(* dpkg compares what debian_string writes as the versions compare.        *)
LEMMA DebianIs ==
    ASSUME NEW v \in Release
    PROVE  LET s == debian_string(v)
           IN  /\ Starts(s, v)
               /\ v.pretype = "none" => Len(s) = 4 /\ s[4] = 1
               /\ v.pretype # "none" =>
                    Len(s) = 6 /\ s[4] = 0 /\ s[5] = Ascii(v.pretype) /\ s[6] = v.pre
PROOF
<1> DEFINE suffix == Suffix(v)
           f == IF suffix = <<>> THEN 1 ELSE 0
           a == <<v.major, v.minor, v.patch, f>>
           s == a \o suffix
<1>1. /\ suffix \in Seq(Int)
      /\ v.pretype = "none" => suffix = <<>> /\ Len(suffix) = 0
      /\ v.pretype # "none" =>
           /\ suffix # <<>> /\ Len(suffix) = 2
           /\ suffix[1] = Ascii(v.pretype) /\ suffix[2] = v.pre
  BY SuffixIs
<1> HIDE DEF suffix
<1>2. v.major \in Int /\ v.minor \in Int /\ v.patch \in Int /\ f \in Int
  BY ReleaseType
<1>3. /\ a \in Seq(Int) /\ Len(a) = 4
      /\ a[1] = v.major /\ a[2] = v.minor /\ a[3] = v.patch /\ a[4] = f
  BY <1>2
<1> HIDE DEF a
<1>4. /\ Len(s) = Len(a) + Len(suffix) /\ Len(suffix) \in Nat
      /\ \A i \in 1..Len(a) : s[i] = a[i]
      /\ \A i \in 1..Len(suffix) : s[Len(a) + i] = suffix[i]
  BY <1>1, <1>3, Behind
<1> HIDE DEF s
<1>5. /\ Len(s) = 4 + Len(suffix)
      /\ s[1] = v.major /\ s[2] = v.minor /\ s[3] = v.patch /\ s[4] = f
      /\ \A i \in 1..Len(suffix) : s[4 + i] = suffix[i]
  BY <1>3, <1>4
<1>6. Starts(s, v)
  BY <1>4, <1>5 DEF Starts
<1>7. s = debian_string(v)
  BY Zenon DEF s, a, debian_string, suffix, f
<1>8. CASE v.pretype = "none"
  <2>1. Len(suffix) = 0 /\ f = 1
    BY <1>1, <1>8
  <2> HIDE DEF f
  <2>2. Len(s) = 4 /\ s[4] = 1
    BY <1>5, <2>1
  <2> QED
    BY <1>6, <1>7, <1>8, <2>2
<1>9. CASE v.pretype # "none"
  <2>1. 1 \in 1..Len(suffix) /\ 2 \in 1..Len(suffix)
    BY <1>1, <1>9
  <2>2. s[4 + 1] = suffix[1] /\ s[4 + 2] = suffix[2]
    BY <1>5, <2>1
  <2>3. Len(s) = 6 /\ s[4] = 0 /\ s[5] = Ascii(v.pretype) /\ s[6] = v.pre
    <3>1. Len(suffix) = 2 /\ f = 0
      BY <1>1, <1>9
    <3>2. s[5] = suffix[1] /\ s[6] = suffix[2]
      BY <2>2
    <3> HIDE DEF f
    <3> QED
      BY <1>1, <1>5, <1>9, <3>1, <3>2
  <2> QED
    BY <1>6, <1>7, <1>9, <2>3
<1> QED
  BY <1>8, <1>9

LEMMA DebianOrdered ==
    ASSUME NEW v \in Release, NEW w \in Release, Less(v, w)
    PROVE  LexLess(debian_string(v), debian_string(w))
PROOF
<1> DEFINE s == debian_string(v)
           t == debian_string(w)
<1>1. /\ Starts(s, v)
      /\ v.pretype = "none" => Len(s) = 4 /\ s[4] = 1
      /\ v.pretype # "none" =>
           Len(s) = 6 /\ s[4] = 0 /\ s[5] = Ascii(v.pretype) /\ s[6] = v.pre
  BY DebianIs
<1>2. /\ Starts(t, w)
      /\ w.pretype = "none" => Len(t) = 4 /\ t[4] = 1
      /\ w.pretype # "none" =>
           Len(t) = 6 /\ t[4] = 0 /\ t[5] = Ascii(w.pretype) /\ t[6] = w.pre
  BY DebianIs
<1> HIDE DEF s, t
<1>3. CASE PartsBefore(v, w)
  BY <1>1, <1>2, <1>3, PartsDecideOrder DEF s, t
<1>4. CASE SameParts(v, w) /\ Sooner(v, w)
  <2>1. s[1] = t[1] /\ s[2] = t[2] /\ s[3] = t[3]
    BY <1>1, <1>2, <1>4 DEF Starts, SameParts
  <2>2. v.pretype # "none" /\ v.pretype \in PreType
    <3>1. v.pretype # "none"
      BY <1>4, SoonerIs
    <3> QED
      BY <3>1, ReleaseType
  <2>3. CASE w.pretype = "none"
    <3>1. s[4] < t[4] /\ 4 \in 1..Len(t) /\ 4 <= Len(s) /\ Len(s) \in Nat /\ Len(t) \in Nat
      <4>1. Len(s) = 6 /\ s[4] = 0
        BY <1>1, <2>2
      <4>2. Len(t) = 4 /\ t[4] = 1
        BY <1>2, <2>3
      <4> QED
        BY <4>1, <4>2
    <3>2. \A j \in 1..4 - 1 : s[j] = t[j]
      <4>1. \A j \in 1..4 - 1 : j = 1 \/ j = 2 \/ j = 3
        OBVIOUS
      <4> QED
        BY <2>1, <4>1
    <3>3. LexLess(s, t)
      BY <3>1, <3>2, PlaceDecides
    <3> QED
      BY <3>3 DEF s, t
  <2>4. CASE w.pretype # "none"
    <3>1. /\ s[4] = t[4] /\ s[5] = Ascii(v.pretype) /\ t[5] = Ascii(w.pretype)
          /\ s[6] = v.pre /\ t[6] = w.pre /\ Len(s) = 6 /\ Len(t) = 6
      BY <1>1, <1>2, <2>2, <2>4
    <3>2. \/ s[5] < t[5]
          \/ s[5] = t[5] /\ s[6] < t[6]
      BY <1>4, <2>2, <2>4, <3>1, SoonerIs
    <3>3. \A j \in 1..5 - 1 : s[j] = t[j]
      <4>1. \A j \in 1..5 - 1 : j = 1 \/ j = 2 \/ j = 3 \/ j = 4
        OBVIOUS
      <4> QED
        BY <2>1, <3>1, <4>1
    <3>4. CASE s[5] < t[5]
      <4>1. LexLess(s, t)
        BY <3>1, <3>3, <3>4, PlaceDecides
      <4> QED
        BY <4>1 DEF s, t
    <3>5. CASE s[5] = t[5] /\ s[6] < t[6]
      <4>1. \A j \in 1..6 - 1 : s[j] = t[j]
        <5>1. \A j \in 1..6 - 1 : j \in 1..5 - 1 \/ j = 5
          OBVIOUS
        <5> QED
          BY <3>3, <3>5, <5>1
      <4>2. 6 \in 1..Len(t) /\ 6 <= Len(s) /\ Len(s) \in Nat /\ Len(t) \in Nat
        BY <3>1
      <4>3. LexLess(s, t)
        BY <3>5, <4>1, <4>2, PlaceDecides
      <4> QED
        BY <4>3 DEF s, t
    <3> QED
      BY <3>2, <3>4, <3>5
  <2> QED
    BY <2>3, <2>4
<1> QED
  BY <1>3, <1>4, ReleasesBefore

(* rpm knows no prereleases: decrement finds the greatest version below    *)
(* the one to come, among those whose numbers fit.                         *)
HasParts(v) == v.major \in Nat /\ v.minor \in Nat /\ v.patch \in Nat
Zero(v) == v.major = 0 /\ v.minor = 0 /\ v.patch = 0

LEMMA DecrementIs ==
    ASSUME NEW v, HasParts(v)
    PROVE  LET d == decrement(v)
           IN  /\ HasParts(d)
               /\ v.patch # 0 =>
                    d.major = v.major /\ d.minor = v.minor /\ d.patch = v.patch - 1
               /\ v.patch = 0 /\ v.minor # 0 =>
                    d.major = v.major /\ d.minor = v.minor - 1 /\ d.patch = 9999
               /\ v.patch = 0 /\ v.minor = 0 /\ v.major # 0 =>
                    d.major = v.major - 1 /\ d.minor = 9999 /\ d.patch = 9999
PROOF
<1> DEFINE d == decrement(v)
           M == v.major
           m == v.minor
           p == v.patch
<1>1. M \in Nat /\ m \in Nat /\ p \in Nat
  BY DEF HasParts
<1>2. d = IF p # 0 THEN Final(M, m, p - 1)
          ELSE IF m # 0 THEN Final(M, m - 1, 9999)
          ELSE IF M # 0 THEN Final(M - 1, 9999, 9999)
          ELSE Final(0, 9999, 9999)
  BY DEF decrement
<1>3. \A x, y, z : Final(x, y, z).major = x /\ Final(x, y, z).minor = y /\ Final(x, y, z).patch = z
  BY DEF Final
<1> HIDE DEF d, M, m, p
<1>4. CASE p # 0
  <2>1. d.major = M /\ d.minor = m /\ d.patch = p - 1
    BY <1>2, <1>3, <1>4
  <2> QED
    BY <1>1, <1>4, <2>1 DEF d, M, m, p, HasParts
<1>5. CASE p = 0 /\ m # 0
  <2>1. d.major = M /\ d.minor = m - 1 /\ d.patch = 9999
    BY <1>2, <1>3, <1>5
  <2> QED
    BY <1>1, <1>5, <2>1 DEF d, M, m, p, HasParts
<1>6. CASE p = 0 /\ m = 0 /\ M # 0
  <2>1. d.major = M - 1 /\ d.minor = 9999 /\ d.patch = 9999
    BY <1>2, <1>3, <1>6
  <2> QED
    BY <1>1, <1>6, <2>1 DEF d, M, m, p, HasParts
<1>7. CASE p = 0 /\ m = 0 /\ M = 0
  <2>1. d.major = 0 /\ d.minor = 9999 /\ d.patch = 9999
    BY <1>2, <1>3, <1>7
  <2> QED
    BY <1>7, <2>1 DEF d, M, m, p, HasParts
<1> QED
  BY <1>4, <1>5, <1>6, <1>7

LEMMA DecrementBelow ==
    ASSUME NEW v, HasParts(v), ~Zero(v)
    PROVE  PartsBefore(decrement(v), v)
PROOF
<1> DEFINE d == decrement(v)
<1>1. /\ HasParts(d)
      /\ v.patch # 0 =>
           d.major = v.major /\ d.minor = v.minor /\ d.patch = v.patch - 1
      /\ v.patch = 0 /\ v.minor # 0 =>
           d.major = v.major /\ d.minor = v.minor - 1 /\ d.patch = 9999
      /\ v.patch = 0 /\ v.minor = 0 /\ v.major # 0 =>
           d.major = v.major - 1 /\ d.minor = 9999 /\ d.patch = 9999
  BY DecrementIs
<1> HIDE DEF d
<1>2. PartsBefore(d, v)
  BY <1>1 DEF HasParts, Zero, PartsBefore
<1> QED
  BY <1>2 DEF d

LEMMA DecrementAbove ==
    ASSUME NEW v, NEW w, HasParts(v), HasParts(w), Fits(v), PartsBefore(v, w)
    PROVE  PartsBefore(v, decrement(w)) \/ SameParts(v, decrement(w))
PROOF
<1> DEFINE d == decrement(w)
<1>1. /\ HasParts(d)
      /\ w.patch # 0 =>
           d.major = w.major /\ d.minor = w.minor /\ d.patch = w.patch - 1
      /\ w.patch = 0 /\ w.minor # 0 =>
           d.major = w.major /\ d.minor = w.minor - 1 /\ d.patch = 9999
      /\ w.patch = 0 /\ w.minor = 0 /\ w.major # 0 =>
           d.major = w.major - 1 /\ d.minor = 9999 /\ d.patch = 9999
  BY DecrementIs
<1> HIDE DEF d
<1>2. PartsBefore(v, d) \/ SameParts(v, d)
  BY <1>1 DEF HasParts, Fits, PartsBefore, SameParts
<1> QED
  BY <1>2 DEF d

(* What rpm starts comparing with.                                         *)
RpmBase(v) == IF v.pretype = "none" THEN v ELSE decrement(v)

LEMMA RpmIs ==
    ASSUME NEW v \in Release
    PROVE  LET s == rpm_string(v)
           IN  /\ Starts(s, RpmBase(v)) /\ HasParts(RpmBase(v))
               /\ v.pretype = "none" => Len(s) = 3
               /\ v.pretype # "none" =>
                    Len(s) = 5 /\ s[4] = Ascii(v.pretype) /\ s[5] = v.pre
PROOF
<1> DEFINE suffix == Suffix(v)
           base == RpmBase(v)
           a == <<base.major, base.minor, base.patch>>
           s == a \o suffix
<1>1. /\ suffix \in Seq(Int) /\ Len(suffix) \in Nat
      /\ v.pretype = "none" => suffix = <<>> /\ Len(suffix) = 0
      /\ v.pretype # "none" =>
           /\ suffix # <<>> /\ Len(suffix) = 2
           /\ suffix[1] = Ascii(v.pretype) /\ suffix[2] = v.pre
  BY SuffixIs
<1>2. HasParts(base)
  <2>1. HasParts(v)
    BY ReleaseType DEF HasParts
  <2> QED
    BY <2>1, DecrementIs DEF RpmBase
<1>3. base = IF suffix = <<>> THEN v ELSE decrement(v)
  BY <1>1 DEF RpmBase
<1>4. s = rpm_string(v)
  BY <1>3, Zenon DEF rpm_string
<1> HIDE DEF suffix, base
<1>5. /\ a \in Seq(Int) /\ Len(a) = 3
      /\ a[1] = base.major /\ a[2] = base.minor /\ a[3] = base.patch
  BY <1>2 DEF HasParts
<1> HIDE DEF a
<1>6. /\ Len(s) = Len(a) + Len(suffix)
      /\ \A i \in 1..Len(a) : s[i] = a[i]
      /\ \A i \in 1..Len(suffix) : s[Len(a) + i] = suffix[i]
  BY <1>1, <1>5, Behind
<1> HIDE DEF s
<1>7. /\ Len(s) = 3 + Len(suffix)
      /\ s[1] = base.major /\ s[2] = base.minor /\ s[3] = base.patch
      /\ \A i \in 1..Len(suffix) : s[3 + i] = suffix[i]
  BY <1>5, <1>6
<1>8. Starts(s, base)
  BY <1>1, <1>7 DEF Starts
<1>9. CASE v.pretype = "none"
  <2>1. Len(s) = 3
    BY <1>1, <1>7, <1>9
  <2> QED
    BY <1>2, <1>4, <1>8, <1>9, <2>1 DEF base
<1>10. CASE v.pretype # "none"
  <2>1. Len(suffix) = 2 /\ 1 \in 1..Len(suffix) /\ 2 \in 1..Len(suffix)
    BY <1>1, <1>10
  <2>2. s[3 + 1] = suffix[1] /\ s[3 + 2] = suffix[2]
    BY <1>7, <2>1
  <2>3. s[4] = suffix[1] /\ s[5] = suffix[2] /\ Len(s) = 5
    BY <1>7, <2>1, <2>2
  <2>4. Len(s) = 5 /\ s[4] = Ascii(v.pretype) /\ s[5] = v.pre
    BY <1>1, <1>10, <2>3
  <2> QED
    BY <1>2, <1>4, <1>8, <1>10, <2>4 DEF base
<1> QED
  BY <1>9, <1>10

LEMMA RpmOrdered ==
    ASSUME NEW v \in Release, NEW w \in Release, Less(v, w), Fits(v), Fits(w), ~Zero(v)
    PROVE  LexLess(rpm_string(v), rpm_string(w))
PROOF
<1> DEFINE s == rpm_string(v)
           t == rpm_string(w)
           a == RpmBase(v)
           b == RpmBase(w)
<1>1. /\ Starts(s, a) /\ HasParts(a)
      /\ v.pretype = "none" => Len(s) = 3
      /\ v.pretype # "none" =>
           Len(s) = 5 /\ s[4] = Ascii(v.pretype) /\ s[5] = v.pre
  BY RpmIs
<1>2. /\ Starts(t, b) /\ HasParts(b)
      /\ w.pretype = "none" => Len(t) = 3
      /\ w.pretype # "none" =>
           Len(t) = 5 /\ t[4] = Ascii(w.pretype) /\ t[5] = w.pre
  BY RpmIs
<1>3. HasParts(v) /\ HasParts(w)
  BY ReleaseType DEF HasParts
<1>4. /\ v.pretype = "none" => a = v
      /\ v.pretype # "none" => a = decrement(v) /\ PartsBefore(a, v)
      /\ w.pretype = "none" => b = w
      /\ w.pretype # "none" => b = decrement(w)
  BY <1>3, DecrementBelow DEF RpmBase
<1> HIDE DEF s, t, a, b
<1>5. CASE PartsBefore(a, b)
  <2>1. LexLess(s, t)
    BY <1>1, <1>2, <1>5, PartsDecideOrder
  <2> QED
    BY <2>1 DEF s, t
<1>6. ASSUME SameParts(a, b) PROVE s[1] = t[1] /\ s[2] = t[2] /\ s[3] = t[3]
  BY <1>1, <1>2, <1>6 DEF Starts, SameParts
<1>7. ASSUME SameParts(a, b) PROVE \A j \in 1..4 - 1 : s[j] = t[j]
  <2>1. \A j \in 1..4 - 1 : j = 1 \/ j = 2 \/ j = 3
    OBVIOUS
  <2> QED
    BY <1>6, <1>7, <2>1
<1>8. CASE PartsBefore(v, w) /\ w.pretype = "none"
  <2>1. PartsBefore(a, b)
    BY <1>1, <1>3, <1>4, <1>8 DEF PartsBefore, HasParts
  <2> QED
    BY <1>5, <2>1
<1>9. CASE PartsBefore(v, w) /\ w.pretype # "none"
  <2>1. PartsBefore(v, b) \/ SameParts(v, b)
    BY <1>3, <1>4, <1>9, DecrementAbove
  <2>2. CASE v.pretype # "none" \/ PartsBefore(v, b)
    <3>1. PartsBefore(a, b)
      BY <1>1, <1>2, <1>3, <1>4, <2>1, <2>2 DEF PartsBefore, SameParts, HasParts
    <3> QED
      BY <1>5, <3>1
  <2>3. CASE v.pretype = "none" /\ SameParts(v, b)
    <3>1. \A j \in 1..4 - 1 : s[j] = t[j]
      BY <1>4, <1>7, <2>3
    <3>2. Len(s) = 3 /\ Len(t) = 5
      BY <1>1, <1>2, <1>9, <2>3
    <3>3. 4 \in 1..Len(t) /\ 4 > Len(s) /\ \A j \in 1..4 - 1 : j <= Len(s)
      BY <3>2
    <3>4. LexLess(s, t)
      BY <3>1, <3>3 DEF LexLess
    <3> QED
      BY <3>4 DEF s, t
  <2> QED
    BY <2>1, <2>2, <2>3
<1>10. CASE SameParts(v, w) /\ Sooner(v, w)
  <2>1. v.pretype # "none"
    BY <1>10, SoonerIs
  <2>2. CASE w.pretype = "none"
    <3>1. PartsBefore(a, b)
      BY <1>1, <1>3, <1>4, <1>10, <2>1, <2>2 DEF PartsBefore, SameParts, HasParts
    <3> QED
      BY <1>5, <3>1
  <2>3. CASE w.pretype # "none"
    <3>1. SameParts(a, b)
      BY <1>4, <1>10, <2>1, <2>3 DEF SameParts, decrement
    <3>2. /\ Len(s) = 5 /\ s[4] = Ascii(v.pretype) /\ s[5] = v.pre
          /\ Len(t) = 5 /\ t[4] = Ascii(w.pretype) /\ t[5] = w.pre
      BY <1>1, <1>2, <2>1, <2>3
    <3>3. \/ s[4] < t[4]
          \/ s[4] = t[4] /\ s[5] < t[5]
      BY <1>10, <2>3, <3>2, SoonerIs
    <3>4. /\ 4 \in 1..Len(t) /\ 4 <= Len(s) /\ 5 \in 1..Len(t) /\ 5 <= Len(s)
          /\ Len(s) \in Nat /\ Len(t) \in Nat
      BY <3>2
    <3>5. \A j \in 1..4 - 1 : s[j] = t[j]
      BY <1>7, <3>1
    <3>6. CASE s[4] < t[4]
      <4>1. LexLess(s, t)
        BY <3>4, <3>5, <3>6, PlaceDecides
      <4> QED
        BY <4>1 DEF s, t
    <3>7. CASE s[4] = t[4] /\ s[5] < t[5]
      <4>1. \A j \in 1..5 - 1 : s[j] = t[j]
        <5>1. \A j \in 1..5 - 1 : j \in 1..4 - 1 \/ j = 4
          OBVIOUS
        <5> QED
          BY <3>5, <3>7, <5>1
      <4>2. LexLess(s, t)
        BY <3>4, <3>7, <4>1, PlaceDecides
      <4> QED
        BY <4>2 DEF s, t
    <3> QED
      BY <3>3, <3>6, <3>7
  <2> QED
    BY <2>2, <2>3
<1> QED
  BY <1>8, <1>9, <1>10, ReleasesBefore

(***************************************************************************)
(* The history of a project: what get_revno_and_last_tag finds             *)
(***************************************************************************)
HistoryTyped ==
    /\ commits \in Seq(Commit) /\ HEAD <= MaxCommits
    /\ tags \in Seq(Tag)

(* Later tags are on later commits, or on the same, and always higher.     *)
TagsAscend ==
    /\ \A k \in 1..Len(tags) :
         tags[k].at <= HEAD /\ Less(Final(0, 0, 0), tags[k].version)
    /\ \A k, l \in 1..Len(tags) :
         k < l => tags[k].at <= tags[l].at /\ Less(tags[k].version, tags[l].version)

HistoryBase == HistoryTyped /\ TagsAscend

LEMMA AtMostTransitive ==
    ASSUME NEW u \in Version, NEW v \in Version, NEW w \in Version
    PROVE  /\ AtMost(u, v) /\ AtMost(v, w) => AtMost(u, w)
           /\ AtMost(u, v) /\ Less(v, w) => Less(u, w)
           /\ Less(u, v) /\ AtMost(v, w) => Less(u, w)
PROOF
  BY OrderIsTransitive DEF AtMost

LEMMA Releases ==
    ASSUME NEW v \in Release
    PROVE  v \in Canonical /\ v \in Version /\ v.dev = 0 /\ v # NoVersion
PROOF
  BY ReleaseAssumption DEF Release, Canonical

LEMMA TagTypes ==
    ASSUME HistoryTyped
    PROVE  /\ Len(tags) \in Nat /\ HEAD \in Nat
           /\ \A k \in 1..Len(tags) :
                /\ tags[k].at \in 1..MaxCommits /\ tags[k].version \in Release
                /\ tags[k].annotated \in BOOLEAN
                /\ tags[k].version \in TagVersions
           /\ \A i \in 1..HEAD :
                /\ commits[i] \in Commit
                /\ commits[i].symbols \in SUBSET STRING
                /\ commits[i].version \in Release \cup {NoVersion}
PROOF
<1>1. Len(tags) \in Nat /\ HEAD \in Nat
  BY DEF HistoryTyped, HEAD
<1>2. \A k \in 1..Len(tags) : tags[k] \in Tag
  BY DEF HistoryTyped
<1>3. \A i \in 1..HEAD : commits[i] \in Commit
  BY DEF HistoryTyped, HEAD
<1> QED
  BY <1>1, <1>2, <1>3, ReleaseAssumption DEF Tag

LEMMA NumberTypes ==
    /\ MaxCommits \in Nat /\ MaxCommits < maxsize /\ maxsize \in Nat
    /\ \A n \in Nat : n <= MaxCommits => n \in 0..maxsize - 1
    /\ \A n \in Nat : 0 < n /\ n <= MaxCommits => n \in 1..maxsize - 1
PROOF
  BY MaxsizeAssumption, ReleaseAssumption

(* The tags of a commit have a highest, which is the newest of them.       *)
LEMMA HighestIsNewest ==
    ASSUME HistoryBase, NEW i, TagsOf(i) # {}
    PROVE  \E k \in TagsOf(i) :
             /\ Highest(TagsAt(i)) = tags[k].version
             /\ \A l \in TagsOf(i) : l <= k
PROOF
<1>1. Len(tags) \in Nat /\ TagsOf(i) \subseteq 0..Len(tags)
  BY TagTypes DEF HistoryBase, TagsOf
<1>2. PICK k \in TagsOf(i) : \A l \in TagsOf(i) : l <= k
  BY <1>1, GreatestElement
<1>3. k \in 1..Len(tags) /\ \A l \in TagsOf(i) : l \in 1..Len(tags)
  BY DEF TagsOf
<1> DEFINE S == TagsAt(i)
           v == tags[k].version
<1>4. v \in S /\ \A w \in S : AtMost(w, v)
  <2>1. v \in S
    BY <1>2 DEF TagsAt
  <2>2. SUFFICES ASSUME NEW w \in S PROVE AtMost(w, v)
    BY <2>1
  <2>3. PICK l \in TagsOf(i) : w = tags[l].version
    BY DEF TagsAt
  <2>4. CASE l = k
    BY <2>3, <2>4 DEF AtMost
  <2>5. CASE l # k
    <3>1. l < k /\ l \in 1..Len(tags) /\ k \in 1..Len(tags)
      BY <1>2, <1>3, <2>5, <1>1
    <3>2. Less(tags[l].version, tags[k].version)
      BY <3>1 DEF HistoryBase, TagsAscend
    <3> QED
      BY <2>3, <3>2 DEF AtMost
  <2> QED
    BY <2>4, <2>5
<1>5. \A w \in S : w \in Canonical
  BY TagTypes, Releases DEF TagsAt, TagsOf, HistoryBase
<1>6. \A w \in S : (\A x \in S : AtMost(x, w)) => w = v
  BY <1>4, <1>5, OrderIsTotal DEF AtMost
<1> HIDE DEF S, v
<1>7. Highest(S) = v
  BY <1>4, <1>6 DEF Highest
<1> QED
  BY <1>2, <1>7 DEF S, v

LEMMA NewestIs ==
    ASSUME NEW I \in SUBSET Int, NEW i \in I, \A j \in I : j <= i
    PROVE  Newest(I) = i
PROOF
<1>1. \A k \in I : (\A j \in I : j <= k) => k = i
  OBVIOUS
<1> QED
  BY <1>1 DEF Newest

(* The last tag: no tag up to n is higher.                                 *)
LEMMA LastTag ==
    ASSUME HistoryBase, NEW n \in 0..HEAD
    PROVE  LET r == get_revno_and_last_tag(n)
           IN  /\ r.last \in 0..n /\ r.distance \in 0..n
               /\ r.tag \in Canonical /\ r.tag \in Version /\ r.tag.dev = 0
               /\ AtMost(Final(0, 0, 0), r.tag)
               /\ \A k \in 1..Len(tags) :
                    tags[k].at <= n => /\ tags[k].at <= r.last
                                       /\ AtMost(tags[k].version, r.tag)
               /\ r.distance = 0 /\ n # 0 => n \in {1, r.last}
               /\ IF Tagged(n) = {}
                  THEN /\ r.last = 0 /\ r.tag = Final(0, 0, 0)
                       /\ r.distance = IF n = 0 THEN 0 ELSE n - 1
                  ELSE /\ r.last \in Tagged(n) /\ r.distance = n - r.last
                       /\ \E k \in 1..Len(tags) :
                            tags[k].at = r.last /\ tags[k].version = r.tag
                       /\ r.tag = Highest(TagsAt(r.last))
PROOF
<1> DEFINE r == get_revno_and_last_tag(n)
<1>0. n \in Nat /\ HEAD \in Nat
  BY TagTypes DEF HistoryBase
<1>1. CASE Tagged(n) = {}
  <2>1. r = [last |-> 0, tag |-> Final(0, 0, 0), distance |-> IF n = 0 THEN 0 ELSE n - 1]
    BY <1>1 DEF get_revno_and_last_tag
  <2>2. \A k \in 1..Len(tags) : ~(tags[k].at <= n)
    <3> SUFFICES ASSUME NEW k \in 1..Len(tags), tags[k].at <= n PROVE FALSE
      OBVIOUS
    <3>1. tags[k].at \in 1..n
      BY <1>0, TagTypes, NumberTypes DEF HistoryBase
    <3>2. k \in TagsOf(tags[k].at)
      BY DEF TagsOf
    <3> QED
      BY <3>1, <3>2, <1>1 DEF Tagged
  <2> QED
    BY <2>1, <2>2, <1>0, <1>1, ZeroIsVersion DEF AtMost, Canonical
<1>2. CASE Tagged(n) # {}
  <2>1. Tagged(n) \in SUBSET (0..n)
    BY <1>0 DEF Tagged
  <2>2. PICK last \in Tagged(n) : \A j \in Tagged(n) : j <= last
    BY <1>0, <1>2, <2>1, GreatestElement
  <2>3. Newest(Tagged(n)) = last
    BY <1>0, <2>1, <2>2, NewestIs
  <2>4. r = [last |-> last, tag |-> Highest(TagsAt(last)), distance |-> n - last]
    BY <1>2, <2>3 DEF get_revno_and_last_tag
  <2>5. last \in 1..n /\ TagsOf(last) # {}
    BY <2>2 DEF Tagged
  <2>6. PICK k \in TagsOf(last) : /\ Highest(TagsAt(last)) = tags[k].version
                                  /\ \A l \in TagsOf(last) : l <= k
    BY <2>5, HighestIsNewest
  <2>7. k \in 1..Len(tags) /\ tags[k].at = last
    BY <2>6 DEF TagsOf
  <2>8. /\ tags[k].version \in Canonical /\ tags[k].version \in Version
        /\ tags[k].version.dev = 0 /\ Less(Final(0, 0, 0), tags[k].version)
    BY <2>7, TagTypes, Releases DEF HistoryBase, TagsAscend
  <2>9. \A l \in 1..Len(tags) :
          tags[l].at <= n => tags[l].at <= last /\ AtMost(tags[l].version, tags[k].version)
    <3> SUFFICES ASSUME NEW l \in 1..Len(tags), tags[l].at <= n
                 PROVE  tags[l].at <= last /\ AtMost(tags[l].version, tags[k].version)
      OBVIOUS
    <3>1. tags[l].at \in 1..n
      BY <1>0, TagTypes, NumberTypes DEF HistoryBase
    <3>2. l \in TagsOf(tags[l].at)
      BY DEF TagsOf
    <3>3. tags[l].at \in Tagged(n)
      BY <3>1, <3>2 DEF Tagged
    <3>4. tags[l].at <= last
      BY <2>2, <3>3
    <3>5. l <= k
      <4>1. SUFFICES ASSUME k < l PROVE FALSE
        BY <2>7
      <4>2. tags[k].at <= tags[l].at
        BY <2>7, <4>1 DEF HistoryBase, TagsAscend
      <4>3. tags[l].at = last
        BY <4>2, <3>4, <3>1, <2>5, <2>7
      <4>4. l \in TagsOf(last)
        BY <4>3 DEF TagsOf
      <4> QED
        BY <4>1, <4>4, <2>6, <2>7
    <3>6. l = k \/ Less(tags[l].version, tags[k].version)
      BY <3>5, <2>7 DEF HistoryBase, TagsAscend
    <3> QED
      BY <3>4, <3>6 DEF AtMost
  <2> HIDE DEF r
  <2>10. r.last = last /\ r.tag = tags[k].version /\ r.distance = n - last
    BY <2>4, <2>6
  <2>11. r.tag = Highest(TagsAt(r.last))
    BY <2>4
  <2>12. AtMost(Final(0, 0, 0), r.tag)
    BY <2>8, <2>10 DEF AtMost
  <2>13. r.last \in 0..n /\ r.distance \in 0..n /\ (r.distance = 0 => n = r.last)
    BY <1>0, <2>5, <2>10
  <2>14. /\ r.tag \in Canonical /\ r.tag \in Version /\ r.tag.dev = 0
         /\ r.last \in Tagged(n)
         /\ \E l \in 1..Len(tags) : tags[l].at = r.last /\ tags[l].version = r.tag
    BY <2>2, <2>7, <2>8, <2>10
  <2>15. \A l \in 1..Len(tags) :
           tags[l].at <= n => tags[l].at <= r.last /\ AtMost(tags[l].version, r.tag)
    BY <2>9, <2>10
  <2> QED
    BY <1>2, <2>10, <2>11, <2>12, <2>13, <2>14, <2>15 DEF r
<1> QED
  BY <1>1, <1>2

(* The next version of the commit n: what its symbols make of the last tag. *)
Upcoming(n) ==
    LET r == get_revno_and_last_tag(n)
        inc == get_increment_kwargs(r.last, n)
    IN  increment(r.tag, inc.minor, inc.major)

LEMMA UpcomingType ==
    ASSUME HistoryBase, NEW n \in 0..HEAD
    PROVE  /\ Upcoming(n) \in Canonical /\ Upcoming(n) \in Version /\ Upcoming(n).dev = 0
           /\ Less(get_revno_and_last_tag(n).tag, Upcoming(n))
           /\ \A d \in 1..maxsize - 1 :
                /\ to_dev(Upcoming(n), d) \in Canonical
                /\ to_dev(Upcoming(n), d) \in Version
                /\ Less(get_revno_and_last_tag(n).tag, to_dev(Upcoming(n), d))
                /\ Less(to_dev(Upcoming(n), d), Upcoming(n))
PROOF
<1> DEFINE r == get_revno_and_last_tag(n)
           inc == get_increment_kwargs(r.last, n)
<1>1. r.tag \in Canonical /\ r.tag \in Version
  BY LastTag
<1>2. inc.minor \in BOOLEAN /\ inc.major \in BOOLEAN
  BY DEF get_increment_kwargs
<1>3. Upcoming(n) = increment(r.tag, inc.minor, inc.major)
  BY DEF Upcoming
<1> HIDE DEF r, inc
<1>4. Upcoming(n) \in Canonical /\ Upcoming(n) \in Version /\ Upcoming(n).dev = 0
  BY <1>1, <1>2, <1>3, IncrementType, IncrementCanonical
<1>5. 1 \in 1..maxsize - 1 => Less(r.tag, Upcoming(n))
  BY <1>1, <1>2, <1>3, DevVersionsAreBetween
<1>6. ASSUME NEW d \in 1..maxsize - 1
      PROVE  /\ to_dev(Upcoming(n), d) \in Canonical
             /\ to_dev(Upcoming(n), d) \in Version
             /\ Less(r.tag, to_dev(Upcoming(n), d))
             /\ Less(to_dev(Upcoming(n), d), Upcoming(n))
             /\ Less(r.tag, Upcoming(n))
  <2>1. d \in 0..maxsize - 1
    BY MaxsizeAssumption
  <2> QED
    BY <1>1, <1>2, <1>3, <1>4, <2>1, ToDev, DevVersionsAreBetween
<1>7. Less(r.tag, Upcoming(n))
  BY <1>1, <1>2, <1>3, IncrementAbove
<1> QED
  BY <1>4, <1>6, <1>7 DEF r

(* What is built from commit n, without the names the code gives to the    *)
(* steps.  Without commits since the last tag it is the tag, or nothing.   *)
DevOf(n, target) ==
    LET d == get_revno_and_last_tag(n).distance
        new == to_dev(Upcoming(n), d)
    IN  IF target # NoVersion /\ Less(target, Upcoming(n)) THEN Error
        ELSE IF target # NoVersion /\ Less(new, to_dev(target, d)) THEN to_dev(target, d)
        ELSE new

LEMMA TargetUnfolds ==
    ASSUME HistoryBase, NEW n \in 0..HEAD, NEW target
    PROVE  LET r == get_revno_and_last_tag(n)
           IN  IF r.distance = 0
               THEN get_version_from_git_target(n, target)
                      = IF target # NoVersion /\ Less(target, r.tag) THEN Error ELSE r.tag
               ELSE get_version_from_git_target(n, target) = DevOf(n, target)
PROOF
  BY Zenon DEF get_version_from_git_target, DevOf, Upcoming

LEMMA VersionUnfolds ==
    ASSUME HistoryBase, NEW n \in 1..HEAD
    PROVE  LET r == get_revno_and_last_tag(n)
           IN  IF r.distance = 0 THEN VersionAt(n) \in {r.tag, Error}
               ELSE VersionAt(n) = DevOf(n, PreVersion(n))
PROOF
<1> DEFINE r == get_revno_and_last_tag(n)
<1>1. n \in 0..HEAD /\ n \in Nat /\ n # 0
  BY TagTypes DEF HistoryBase
<1>2. CASE r.distance = 0
  <2>1. VersionAt(n) \in {r.tag, Error}
    BY <1>1, <1>2, TargetUnfolds DEF VersionAt, get_version_from_git
  <2> QED
    BY <1>2, <2>1
<1>3. CASE r.distance # 0
  <2>1. n \notin Tagged(n)
    <3>1. SUFFICES ASSUME n \in Tagged(n) PROVE FALSE
      OBVIOUS
    <3>2. PICK k \in TagsOf(n) : TRUE
      BY <3>1 DEF Tagged
    <3>3. k \in 1..Len(tags) /\ tags[k].at = n
      BY <3>2 DEF TagsOf
    <3>4. n <= r.last /\ r.last \in 0..n
      BY <1>1, <3>3, LastTag
    <3>5. r.distance = n - r.last
      BY <1>1, <3>1, LastTag
    <3> QED
      BY <1>1, <1>3, <3>4, <3>5
  <2>2. Annotated(n) = {}
    BY <1>1, <2>1 DEF Annotated, Tagged
  <2>3. VersionAt(n) = get_version_from_git_target(n, PreVersion(n))
    BY <2>2 DEF VersionAt, get_version_from_git
  <2> QED
    BY <1>1, <1>3, <2>3, TargetUnfolds
<1> QED
  BY <1>2, <1>3

LEMMA PreVersionType ==
    ASSUME HistoryBase, NEW n \in 0..HEAD
    PROVE  PreVersion(n) \in Release \cup {NoVersion}
PROOF
  BY TagTypes DEF HistoryBase, PreVersion

(* A dev version lies between the last tag and the next one, and between   *)
(* the last tag and its target.                                            *)
LEMMA DevOfBetween ==
    ASSUME HistoryBase, NEW n \in 1..HEAD, get_revno_and_last_tag(n).distance # 0,
           NEW target \in Release \cup {NoVersion}, DevOf(n, target) # Error
    PROVE  LET r == get_revno_and_last_tag(n)
               d == r.distance
           IN  /\ d \in 1..maxsize - 1
               /\ DevOf(n, target) \in Canonical
               /\ Less(r.tag, DevOf(n, target))
               /\ target # NoVersion => /\ AtMost(Upcoming(n), target)
                                        /\ Less(r.tag, target)
                                        /\ Less(DevOf(n, target), target)
               /\ AtMost(to_dev(Upcoming(n), d), DevOf(n, target))
               /\ target # NoVersion => AtMost(to_dev(target, d), DevOf(n, target))
               /\ \/ DevOf(n, target) = to_dev(Upcoming(n), d)
                  \/ target # NoVersion /\ DevOf(n, target) = to_dev(target, d)
PROOF
<1> DEFINE r == get_revno_and_last_tag(n)
           d == r.distance
           new == to_dev(Upcoming(n), d)
           v == DevOf(n, target)
<1>1. n \in 0..HEAD /\ HEAD \in Nat /\ n \in Nat /\ HEAD <= MaxCommits
  BY TagTypes DEF HistoryBase, HistoryTyped
<1>2. r.distance \in 0..n /\ r.tag \in Canonical /\ r.tag \in Version
  BY <1>1, LastTag
<1>3. d \in 1..maxsize - 1 /\ d \in 0..maxsize - 1
  BY <1>1, <1>2, NumberTypes
<1>4. /\ Upcoming(n) \in Canonical /\ Upcoming(n) \in Version
      /\ Less(r.tag, Upcoming(n))
      /\ new \in Canonical /\ new \in Version
      /\ Less(r.tag, new) /\ Less(new, Upcoming(n))
  BY <1>1, <1>3, UpcomingType
<1>5. CASE target = NoVersion
  <2>1. v = new
    BY <1>5 DEF DevOf
  <2> QED
    BY <1>3, <1>4, <1>5, <2>1 DEF AtMost
<1>6. CASE target # NoVersion
  <2> DEFINE t == to_dev(target, d)
  <2>1. /\ target \in Canonical /\ target \in Version /\ target.dev = 0
    BY <1>6, Releases
  <2>2. t \in Canonical /\ t \in Version /\ Less(t, target)
    BY <1>3, <2>1, ToDev, DevBelow
  <2>3. ~Less(target, Upcoming(n)) /\ v = IF Less(new, t) THEN t ELSE new
    BY <1>6 DEF DevOf
  <2>4. AtMost(Upcoming(n), target)
    BY <1>4, <2>1, <2>3, OrderIsTotal DEF AtMost
  <2>5. Less(r.tag, target) /\ Less(new, target)
    BY <1>2, <1>4, <2>1, <2>4, AtMostTransitive
  <2> HIDE DEF v, t, new, d, r
  <2>6. CASE Less(new, t)
    <3>1. v = t /\ Less(r.tag, t)
      BY <1>2, <1>4, <2>2, <2>3, <2>6, OrderIsTransitive
    <3>2. AtMost(new, v) /\ AtMost(t, v) /\ v \in Canonical /\ Less(v, target)
      BY <2>2, <2>6, <3>1 DEF AtMost
    <3> QED
      BY <1>3, <1>6, <2>4, <2>5, <3>1, <3>2 DEF v, t, new, d, r
  <2>7. CASE ~Less(new, t)
    <3>1. v = new /\ AtMost(t, new)
      BY <1>4, <2>2, <2>3, <2>7, OrderIsTotal DEF AtMost
    <3>2. AtMost(new, v)
      BY <3>1 DEF AtMost
    <3> QED
      BY <1>3, <1>4, <2>4, <2>5, <3>1, <3>2 DEF v, t, new, d, r
  <2> QED
    BY <2>6, <2>7
<1> QED
  BY <1>5, <1>6

LEMMA VersionType ==
    ASSUME HistoryBase, NEW n \in 0..HEAD
    PROVE  VersionAt(n) \in Canonical \cup {Error}
PROOF
<1>1. HEAD \in Nat /\ n \in Nat
  BY TagTypes DEF HistoryBase
<1>2. CASE n = 0
  <2>1. get_revno_and_last_tag(n).tag = Final(0, 0, 0)
        /\ get_revno_and_last_tag(n).distance = 0
    BY <1>2 DEF get_revno_and_last_tag, Tagged
  <2>2. get_version_from_git_target(n, NoVersion) = Final(0, 0, 0)
    BY <2>1, TargetUnfolds
  <2>3. VersionAt(n) = Final(0, 0, 0)
    BY <1>2, <2>2 DEF VersionAt, get_version_from_git, PreVersion
  <2> QED
    BY <2>3, ZeroIsVersion
<1>3. CASE n # 0 /\ get_revno_and_last_tag(n).distance = 0
  BY <1>1, <1>3, VersionUnfolds, LastTag
<1>4. CASE n # 0 /\ get_revno_and_last_tag(n).distance # 0
  <2>1. n \in 1..HEAD
    BY <1>1, <1>4
  <2>2. VersionAt(n) = DevOf(n, PreVersion(n))
    BY <1>4, <2>1, VersionUnfolds
  <2>3. PreVersion(n) \in Release \cup {NoVersion}
    BY PreVersionType
  <2> QED
    BY <1>4, <2>1, <2>2, <2>3, DevOfBetween
<1> QED
  BY <1>2, <1>3, <1>4

LEMMA BetweenHolds == HistoryBase => BetweenReleases
PROOF
<1> SUFFICES ASSUME HistoryBase, NEW n \in 1..HEAD,
                    get_revno_and_last_tag(n).distance > 0, VersionAt(n) # Error
             PROVE  /\ Less(get_revno_and_last_tag(n).tag, VersionAt(n))
                    /\ PreVersion(n) # NoVersion => Less(VersionAt(n), PreVersion(n))
  BY DEF BetweenReleases, Between
<1>1. VersionAt(n) = DevOf(n, PreVersion(n))
  BY VersionUnfolds
<1>2. PreVersion(n) \in Release \cup {NoVersion}
  BY TagTypes, PreVersionType DEF HistoryBase
<1> QED
  BY <1>1, <1>2, DevOfBetween

(* A version named in setup.cfg is named until a higher one is, or until   *)
(* it is released.                                                         *)
NamesAscend ==
    \A i, j \in 1..HEAD :
      i < j /\ PreVersion(i) # NoVersion
        => \/ PreVersion(j) # NoVersion /\ AtMost(PreVersion(i), PreVersion(j))
           \/ \E k \in 1..Len(tags) :
                tags[k].at < j /\ AtMost(PreVersion(i), tags[k].version)

(* A tag is higher than all that was built from the commits before it.     *)
TagsAbove ==
    NamesFinal =>
      \A i \in 1..HEAD, k \in 1..Len(tags) :
        i < tags[k].at /\ VersionAt(i) # Error => Less(VersionAt(i), tags[k].version)

HistoryInv == HistoryBase /\ NamesAscend /\ TagsAbove

(* Commits with the same last tag.                                         *)
LEMMA SameLastTag ==
    ASSUME HistoryBase, NEW i \in 1..HEAD, NEW j \in 1..HEAD, i < j,
           get_revno_and_last_tag(i).last = get_revno_and_last_tag(j).last
    PROVE  /\ get_revno_and_last_tag(i).tag = get_revno_and_last_tag(j).tag
           /\ get_revno_and_last_tag(i).distance < get_revno_and_last_tag(j).distance
           /\ \A d \in 1..maxsize - 1, e \in 1..maxsize - 1 :
                d < e => Less(to_dev(Upcoming(i), d), to_dev(Upcoming(j), e))
PROOF
<1> DEFINE r == get_revno_and_last_tag(i)
           q == get_revno_and_last_tag(j)
<1>1. HEAD \in Nat /\ i \in Nat /\ j \in Nat /\ i \in 0..HEAD /\ j \in 0..HEAD /\ i # 0 /\ j # 0
  BY TagTypes DEF HistoryBase
<1>2. /\ Tagged(i) = {} <=> r.last = 0
      /\ Tagged(j) = {} <=> q.last = 0
  BY <1>1, LastTag DEF Tagged
<1>3. r.tag = q.tag /\ r.distance < q.distance
  <2>1. CASE r.last = 0
    <3>1. Tagged(i) = {} /\ Tagged(j) = {}
      BY <1>2, <2>1
    <3>2. /\ r.tag = Final(0, 0, 0) /\ r.distance = i - 1
          /\ q.tag = Final(0, 0, 0) /\ q.distance = j - 1
      BY <1>1, <3>1, LastTag
    <3> QED
      BY <1>1, <3>2
  <2>2. CASE r.last # 0
    <3>1. Tagged(i) # {} /\ Tagged(j) # {}
      BY <1>2, <2>2
    <3>2. /\ r.tag = Highest(TagsAt(r.last)) /\ r.distance = i - r.last
          /\ q.tag = Highest(TagsAt(q.last)) /\ q.distance = j - q.last
          /\ r.last \in 0..i
      BY <1>1, <3>1, LastTag
    <3> QED
      BY <1>1, <3>2
  <2> QED
    BY <2>1, <2>2
<1> DEFINE inc == get_increment_kwargs(r.last, i)
           jnc == get_increment_kwargs(r.last, j)
<1>4. SymbolsSince(r.last, i) \subseteq SymbolsSince(r.last, j)
  BY <1>1, LastTag DEF SymbolsSince
<1>5. /\ inc.minor \in BOOLEAN /\ inc.major \in BOOLEAN
      /\ jnc.minor \in BOOLEAN /\ jnc.major \in BOOLEAN
      /\ inc.minor => jnc.minor
      /\ inc.major => jnc.major
  <2> DEFINE S == SymbolsSince(r.last, i)
             U == SymbolsSince(r.last, j)
             M == {"feature", "deprecation"}
  <2>1. /\ inc = [minor |-> M \cap S # {}, major |-> "api-break" \in S]
        /\ jnc = [minor |-> M \cap U # {}, major |-> "api-break" \in U]
    BY DEF get_increment_kwargs
  <2>2. (M \cap S # {} => M \cap U # {}) /\ ("api-break" \in S => "api-break" \in U)
    BY <1>4
  <2> HIDE DEF S, U, M, inc, jnc
  <2>3. /\ inc.minor = (M \cap S # {}) /\ inc.major = ("api-break" \in S)
        /\ jnc.minor = (M \cap U # {}) /\ jnc.major = ("api-break" \in U)
    BY <2>1
  <2>4. inc.minor \in BOOLEAN /\ inc.major \in BOOLEAN
    BY DEF get_increment_kwargs, inc
  <2>5. jnc.minor \in BOOLEAN /\ jnc.major \in BOOLEAN
    BY DEF get_increment_kwargs, jnc
  <2>6. (inc.minor => jnc.minor) /\ (inc.major => jnc.major)
    BY <2>2, <2>3, Zenon
  <2> QED
    BY <2>4, <2>5, <2>6
<1>6. r.tag \in Version
  BY <1>1, LastTag
<1>7. /\ Upcoming(i) = increment(r.tag, inc.minor, inc.major)
      /\ Upcoming(j) = increment(r.tag, jnc.minor, jnc.major)
  BY <1>3 DEF Upcoming
<1> HIDE DEF r, q, inc, jnc
<1>8. \A d \in 1..maxsize - 1, e \in 1..maxsize - 1 :
        d < e => Less(to_dev(Upcoming(i), d), to_dev(Upcoming(j), e))
  <2> SUFFICES ASSUME NEW d \in 1..maxsize - 1, NEW e \in 1..maxsize - 1, d < e
               PROVE  Less(to_dev(Upcoming(i), d), to_dev(Upcoming(j), e))
    OBVIOUS
  <2> QED
    BY <1>5, <1>6, <1>7, DevVersionsGrow
<1> QED
  BY <1>3, <1>8 DEF r, q

(* A name that is still to be released at i is named at j, too.            *)
LEMMA NameStays ==
    ASSUME HistoryBase, NamesAscend, NEW i \in 1..HEAD, NEW j \in 1..HEAD, i < j,
           get_revno_and_last_tag(i).last = get_revno_and_last_tag(j).last,
           PreVersion(i) # NoVersion, Less(get_revno_and_last_tag(i).tag, PreVersion(i))
    PROVE  PreVersion(j) # NoVersion /\ AtMost(PreVersion(i), PreVersion(j))
PROOF
<1> DEFINE T == get_revno_and_last_tag(i).tag
           t == PreVersion(i)
<1>1. HEAD \in Nat /\ i \in Nat /\ j \in Nat /\ i \in 0..HEAD /\ j \in 0..HEAD
  BY TagTypes DEF HistoryBase
<1>2. t \in Release /\ t \in Canonical /\ t \in Version
  BY <1>1, PreVersionType, Releases
<1>3. T \in Canonical /\ T \in Version
  BY <1>1, LastTag
<1>4. ASSUME NEW k \in 1..Len(tags), tags[k].at < j, AtMost(t, tags[k].version)
      PROVE  FALSE
  <2>1. tags[k].at \in Nat /\ tags[k].version \in Canonical /\ tags[k].version \in Version
    BY TagTypes, NumberTypes, Releases DEF HistoryBase
  <2>2. AtMost(tags[k].version, T)
    BY <1>1, <1>4, <2>1, LastTag, SameLastTag
  <2>3. AtMost(t, T)
    BY <1>2, <1>3, <1>4, <2>1, <2>2, AtMostTransitive
  <2> QED
    BY <1>2, <1>3, <2>3, OrderIsTotal DEF AtMost
<1> QED
  BY <1>1, <1>4 DEF NamesAscend

(* If names are final, their dev versions are in the order of the names.   *)
LEMMA DevOfNames ==
    ASSUME NEW v \in Release, NEW w \in Release, v.pretype = "none", AtMost(v, w),
           NEW m \in 1..maxsize - 1, NEW n \in 1..maxsize - 1, m < n
    PROVE  Less(to_dev(v, m), to_dev(w, n))
PROOF
<1>1. v \in Canonical /\ v \in Version /\ v.dev = 0
      /\ w \in Canonical /\ w \in Version /\ w.dev = 0
  BY Releases
<1>2. m \in 0..maxsize - 1 /\ n \in 0..maxsize - 1
  BY MaxsizeAssumption
<1>3. CASE v = w
  BY <1>1, <1>3, DevCounts
<1>4. CASE Less(v, w)
  BY <1>1, <1>2, <1>4, FinalBefore, DevOfParts
<1> QED
  BY <1>3, <1>4 DEF AtMost

LEMMA GrowSinceTag ==
    ASSUME HistoryBase, NamesAscend, NamesFinal,
           NEW i \in 1..HEAD, NEW j \in 1..HEAD, i < j,
           get_revno_and_last_tag(i).last = get_revno_and_last_tag(j).last,
           VersionAt(i) # Error, VersionAt(j) # Error
    PROVE  Less(VersionAt(i), VersionAt(j))
PROOF
<1> DEFINE r == get_revno_and_last_tag(i)
           q == get_revno_and_last_tag(j)
           t == PreVersion(i)
           u == PreVersion(j)
<1>1. HEAD \in Nat /\ i \in Nat /\ j \in Nat /\ i \in 0..HEAD /\ j \in 0..HEAD
  BY TagTypes DEF HistoryBase
<1>2. r.tag = q.tag /\ r.distance < q.distance /\ r.distance \in 0..i /\ q.distance \in 0..j
  BY <1>1, SameLastTag, LastTag
<1>3. q.distance # 0
  BY <1>1, <1>2
<1>4. VersionAt(j) = DevOf(j, u)
  BY <1>3, VersionUnfolds
<1>5. t \in Release \cup {NoVersion} /\ u \in Release \cup {NoVersion}
  BY <1>1, PreVersionType
<1>6. /\ q.distance \in 1..maxsize - 1
      /\ VersionAt(j) \in Canonical /\ VersionAt(j) \in Version
      /\ Less(r.tag, VersionAt(j))
      /\ AtMost(to_dev(Upcoming(j), q.distance), VersionAt(j))
      /\ u # NoVersion => AtMost(to_dev(u, q.distance), VersionAt(j))
  BY <1>2, <1>3, <1>4, <1>5, DevOfBetween DEF Canonical
<1>7. CASE r.distance = 0
  <2>1. VersionAt(i) = r.tag
    BY <1>7, VersionUnfolds
  <2> QED
    BY <2>1, <1>6
<1>8. CASE r.distance # 0
  <2>1. VersionAt(i) = DevOf(i, t)
    BY <1>8, VersionUnfolds
  <2>2. /\ r.distance \in 1..maxsize - 1
        /\ t # NoVersion => Less(r.tag, t)
        /\ VersionAt(i) \in Canonical /\ VersionAt(i) \in Version
        /\ \/ VersionAt(i) = to_dev(Upcoming(i), r.distance)
           \/ t # NoVersion /\ VersionAt(i) = to_dev(t, r.distance)
    BY <1>5, <1>8, <2>1, DevOfBetween DEF Canonical
  <2>3. CASE VersionAt(i) = to_dev(Upcoming(i), r.distance)
    <3>1. Less(to_dev(Upcoming(i), r.distance), to_dev(Upcoming(j), q.distance))
      BY <1>2, <1>6, <2>2, SameLastTag
    <3>2. to_dev(Upcoming(j), q.distance) \in Version
      BY <1>1, <1>6, UpcomingType
    <3> QED
      BY <1>6, <2>2, <2>3, <3>1, <3>2, AtMostTransitive
  <2>4. CASE t # NoVersion /\ VersionAt(i) = to_dev(t, r.distance)
    <3>1. u # NoVersion /\ AtMost(t, u)
      BY <2>2, <2>4, NameStays
    <3>2. t \in Release /\ u \in Release
      BY <1>5, <2>4, <3>1
    <3>3. t.pretype = "none"
      BY <1>1, <2>4 DEF NamesFinal, PreVersion
    <3>4. Less(to_dev(t, r.distance), to_dev(u, q.distance))
      BY <1>2, <1>6, <2>2, <3>1, <3>2, <3>3, DevOfNames
    <3>5. to_dev(u, q.distance) \in Version
      BY <1>6, <3>2, Releases, ToDev, MaxsizeAssumption
    <3> QED
      BY <1>6, <2>2, <2>4, <3>1, <3>4, <3>5, AtMostTransitive
  <2> QED
    BY <2>2, <2>3, <2>4
<1> QED
  BY <1>7, <1>8

LEMMA SinceTag ==
    ASSUME HistoryBase, NEW i \in 1..HEAD, NEW j \in 1..HEAD, i < j,
           ~(i < get_revno_and_last_tag(j).last)
    PROVE  get_revno_and_last_tag(i).last = get_revno_and_last_tag(j).last
PROOF
<1> DEFINE r == get_revno_and_last_tag(i)
           q == get_revno_and_last_tag(j)
<1>1. HEAD \in Nat /\ i \in Nat /\ j \in Nat /\ i \in 0..HEAD /\ j \in 0..HEAD
  BY TagTypes DEF HistoryBase
<1>2. r.last \in 0..i /\ q.last \in 0..j
  BY <1>1, LastTag
<1>3. r.last <= q.last
  <2>1. CASE Tagged(i) = {}
    <3>1. r.last = 0
      BY <1>1, <2>1, LastTag
    <3> QED
      BY <1>2, <3>1
  <2>2. CASE Tagged(i) # {}
    <3>1. PICK k \in 1..Len(tags) : tags[k].at = r.last
      BY <1>1, <2>2, LastTag
    <3>2. tags[k].at <= j
      BY <1>1, <1>2, <3>1
    <3> QED
      BY <1>1, <3>1, <3>2, LastTag
  <2> QED
    BY <2>1, <2>2
<1>4. q.last <= r.last
  <2>1. CASE Tagged(j) = {}
    <3>1. q.last = 0
      BY <1>1, <2>1, LastTag
    <3> QED
      BY <1>2, <3>1
  <2>2. CASE Tagged(j) # {}
    <3>1. PICK k \in 1..Len(tags) : tags[k].at = q.last
      BY <1>1, <2>2, LastTag
    <3>2. tags[k].at <= i
      BY <1>1, <1>2, <3>1
    <3> QED
      BY <1>1, <3>1, <3>2, LastTag
  <2> QED
    BY <2>1, <2>2
<1> QED
  BY <1>2, <1>3, <1>4

(* What was built before the last tag of j is lower than that tag.         *)
LEMMA GrowAcrossTag ==
    ASSUME HistoryBase, TagsAbove, NamesFinal, NEW i \in 1..HEAD, NEW j \in 1..HEAD,
           i < get_revno_and_last_tag(j).last, VersionAt(i) # Error
    PROVE  Less(VersionAt(i), get_revno_and_last_tag(j).tag)
PROOF
<1> DEFINE q == get_revno_and_last_tag(j)
<1>1. HEAD \in Nat /\ i \in Nat /\ j \in Nat /\ j \in 0..HEAD
  BY TagTypes DEF HistoryBase
<1>2. Tagged(j) # {}
  BY <1>1, LastTag
<1>3. PICK k \in 1..Len(tags) : tags[k].at = q.last /\ tags[k].version = q.tag
  BY <1>1, <1>2, LastTag
<1> QED
  BY <1>3 DEF TagsAbove

LEMMA GrowHolds == HistoryInv => VersionsGrow
PROOF
<1> SUFFICES ASSUME HistoryInv, NamesFinal, NEW i \in 1..HEAD, NEW j \in 1..HEAD, i < j,
                    VersionAt(i) # Error, VersionAt(j) # Error
             PROVE  Less(VersionAt(i), VersionAt(j))
  BY DEF VersionsGrow
<1> USE DEF HistoryInv
<1> DEFINE q == get_revno_and_last_tag(j)
<1>1. HEAD \in Nat /\ i \in 0..HEAD /\ j \in 0..HEAD
  BY TagTypes DEF HistoryBase
<1>2. CASE ~(i < q.last)
  BY <1>2, SinceTag, GrowSinceTag
<1>3. CASE i < q.last
  <2>1. Less(VersionAt(i), q.tag)
    BY <1>3, GrowAcrossTag
  <2>2. AtMost(q.tag, VersionAt(j))
    <3>1. CASE q.distance = 0
      BY <3>1, VersionUnfolds DEF AtMost
    <3>2. CASE q.distance # 0
      <4>1. VersionAt(j) = DevOf(j, PreVersion(j))
        BY <3>2, VersionUnfolds
      <4>2. PreVersion(j) \in Release \cup {NoVersion}
        BY <1>1, PreVersionType
      <4> QED
        BY <3>2, <4>1, <4>2, DevOfBetween DEF AtMost
    <3> QED
      BY <3>1, <3>2
  <2>3. VersionAt(i) \in Version /\ VersionAt(j) \in Version /\ q.tag \in Version
    BY <1>1, VersionType, LastTag DEF Canonical
  <2> QED
    BY <2>1, <2>2, <2>3, AtMostTransitive
<1> QED
  BY <1>2, <1>3

LEMMA ErrorIsNoVersion == Error \notin Version
PROOF
<1>1. Error.pretype = "ValueError"
  BY DEF Error, Final
<1> QED
  BY <1>1 DEF Version, PreType

(* The version a maintainer starts from when there is no target.           *)
LEMMA Untargeted ==
    ASSUME HistoryBase, NEW n \in 1..HEAD
    PROVE  LET q == get_revno_and_last_tag(n)
               g == get_version_from_git_target(n, NoVersion)
           IN  /\ g \in Canonical /\ g \in Version /\ AtMost(q.tag, g)
               /\ q.distance # 0 => g = to_dev(Upcoming(n), q.distance)
PROOF
<1> DEFINE q == get_revno_and_last_tag(n)
           g == get_version_from_git_target(n, NoVersion)
<1>1. n \in 0..HEAD
  BY TagTypes DEF HistoryBase
<1>2. q.tag \in Canonical /\ q.tag \in Version
  BY <1>1, LastTag
<1>3. CASE q.distance = 0
  <2>1. g = q.tag
    BY <1>1, <1>3, TargetUnfolds
  <2> QED
    BY <1>2, <1>3, <2>1 DEF AtMost
<1>4. CASE q.distance # 0
  <2>1. g = to_dev(Upcoming(n), q.distance)
    BY <1>1, <1>4, TargetUnfolds DEF DevOf
  <2>2. q.distance \in 1..maxsize - 1
    BY <1>1, <1>4, LastTag, NumberTypes, TagTypes DEF HistoryBase, HistoryTyped
  <2> QED
    BY <1>1, <2>1, <2>2, UpcomingType DEF AtMost
<1> QED
  BY <1>3, <1>4

(* A tag may be made only if it is higher than all that was built.         *)
LEMMA NewTagAbove ==
    ASSUME HistoryInv, NamesFinal, NEW v \in Release, HEAD > 0,
           Less(get_version_from_git_target(HEAD, NoVersion), v),
           VersionAt(HEAD) # Error => Less(VersionAt(HEAD), v),
           NEW i \in 1..HEAD, i < HEAD, VersionAt(i) # Error
    PROVE  Less(VersionAt(i), v)
PROOF
<1> USE DEF HistoryInv
<1> DEFINE r == get_revno_and_last_tag(i)
           q == get_revno_and_last_tag(HEAD)
           g == get_version_from_git_target(HEAD, NoVersion)
           t == PreVersion(i)
           u == PreVersion(HEAD)
<1>1. HEAD \in Nat /\ i \in 0..HEAD /\ HEAD \in 0..HEAD /\ HEAD \in 1..HEAD /\ i \in Nat
  BY TagTypes DEF HistoryBase
<1>2. /\ v \in Version /\ VersionAt(i) \in Canonical /\ VersionAt(i) \in Version
      /\ q.tag \in Canonical /\ q.tag \in Version
      /\ g \in Canonical /\ g \in Version /\ AtMost(q.tag, g)
      /\ q.distance # 0 => g = to_dev(Upcoming(HEAD), q.distance)
  BY <1>1, Releases, VersionType, LastTag, Untargeted DEF Canonical
<1>3. CASE i < q.last
  <2>1. Less(VersionAt(i), q.tag)
    BY <1>1, <1>3, GrowAcrossTag
  <2> QED
    BY <1>2, <2>1, AtMostTransitive, OrderIsTransitive
<1>4. CASE ~(i < q.last) /\ VersionAt(HEAD) # Error
  <2>1. Less(VersionAt(i), VersionAt(HEAD))
    BY <1>1, <1>4, SinceTag, GrowSinceTag
  <2>2. VersionAt(HEAD) \in Version
    BY <1>1, <1>4, VersionType DEF Canonical
  <2> QED
    BY <1>2, <1>4, <2>1, <2>2, OrderIsTransitive
<1>5. CASE ~(i < q.last) /\ VersionAt(HEAD) = Error
  <2>1. r.last = q.last
    BY <1>1, <1>5, SinceTag
  <2>2. r.tag = q.tag /\ r.distance < q.distance /\ r.distance \in 0..i /\ q.distance \in 0..HEAD
    BY <1>1, <2>1, SameLastTag, LastTag
  <2>3. q.distance # 0 /\ q.distance \in 1..maxsize - 1
    BY <1>1, <2>2, NumberTypes DEF HistoryBase, HistoryTyped
  <2>4. Less(q.tag, g)
    BY <1>1, <1>2, <2>3, UpcomingType
  <2>5. CASE r.distance = 0
    <3>1. VersionAt(i) = q.tag
      BY <2>2, <2>5, VersionUnfolds
    <3> QED
      BY <1>2, <2>4, <3>1, OrderIsTransitive
  <2>6. CASE r.distance # 0
    <3>0. t \in Release \cup {NoVersion} /\ u \in Release \cup {NoVersion}
      BY <1>1, PreVersionType
    <3>1. VersionAt(i) = DevOf(i, t)
      BY <2>6, VersionUnfolds
    <3>2. /\ r.distance \in 1..maxsize - 1
          /\ t # NoVersion => Less(r.tag, t)
          /\ \/ VersionAt(i) = to_dev(Upcoming(i), r.distance)
             \/ t # NoVersion /\ VersionAt(i) = to_dev(t, r.distance)
      BY <2>6, <3>0, <3>1, DevOfBetween
    <3>3. CASE VersionAt(i) = to_dev(Upcoming(i), r.distance)
      <4>1. Less(VersionAt(i), g)
        BY <1>1, <1>2, <2>1, <2>2, <2>3, <3>2, <3>3, SameLastTag
      <4> QED
        BY <1>2, <4>1, OrderIsTransitive
    <3>4. CASE t # NoVersion /\ VersionAt(i) = to_dev(t, r.distance)
      <4>1. u # NoVersion /\ AtMost(t, u)
        BY <1>1, <2>1, <3>2, <3>4, NameStays
      <4>2. t \in Release /\ u \in Release
        BY <3>0, <3>4, <4>1
      <4>3. t.pretype = "none"
        BY <1>1, <3>4 DEF NamesFinal, PreVersion
      <4>4. VersionAt(HEAD) = DevOf(HEAD, u)
        BY <1>1, <2>3, VersionUnfolds
      <4>5. /\ u \in Canonical /\ u \in Version /\ t \in Canonical /\ t \in Version
            /\ t.dev = 0
        BY <4>2, Releases
      <4>6. Less(u, Upcoming(HEAD))
        <5>1. SUFFICES ASSUME ~Less(u, Upcoming(HEAD)) PROVE FALSE
          OBVIOUS
        <5>2. /\ to_dev(u, q.distance) \in Version
              /\ to_dev(Upcoming(HEAD), q.distance) \in Version
          BY <1>1, <2>3, <4>5, UpcomingType, ToDev, MaxsizeAssumption
        <5>3. DevOf(HEAD, u) \in Version
          BY <5>1, <5>2, <4>1 DEF DevOf
        <5> QED
          BY <1>5, <4>4, <5>3, ErrorIsNoVersion
      <4>7. /\ Upcoming(HEAD) \in Canonical /\ Upcoming(HEAD) \in Version
            /\ Upcoming(HEAD).dev = 0
        BY <1>1, UpcomingType
      <4>8. Less(t, Upcoming(HEAD))
        BY <4>1, <4>5, <4>6, <4>7, AtMostTransitive
      <4>9. PartsBefore(t, Upcoming(HEAD))
        BY <4>3, <4>5, <4>7, <4>8, FinalBefore
      <4>10. r.distance \in 0..maxsize - 1 /\ q.distance \in 0..maxsize - 1
        BY <2>3, <3>2, MaxsizeAssumption
      <4>11. Less(VersionAt(i), g)
        BY <1>2, <2>3, <3>4, <4>5, <4>7, <4>9, <4>10, DevOfParts
      <4> QED
        BY <1>2, <4>11, OrderIsTransitive
    <3> QED
      BY <3>2, <3>3, <3>4
  <2> QED
    BY <2>5, <2>6
<1> QED
  BY <1>3, <1>4, <1>5

(* What is built from a commit depends on nothing that comes later.        *)
LEMMA PastIsPast ==
    ASSUME HistoryBase, NEW n \in 0..HEAD,
           \A i \in 1..n : commits'[i] = commits[i] /\ TagsOf(i)' = TagsOf(i),
           \A k \in 1..Len(tags) : tags'[k] = tags[k]
    PROVE  VersionAt(n)' = VersionAt(n) /\ PreVersion(n)' = PreVersion(n)
PROOF
<1>1. HEAD \in Nat /\ n \in Nat
  BY TagTypes DEF HistoryBase
<1>2. \A i \in 1..n :
        /\ \A k \in TagsOf(i) : k \in 1..Len(tags) /\ tags'[k] = tags[k]
        /\ TagsAt(i)' = TagsAt(i)
        /\ Annotated(i)' = Annotated(i)
  BY DEF TagsOf, TagsAt, Annotated
<1>3. Tagged(n)' = Tagged(n)
  BY DEF Tagged
<1>4. PreVersion(n)' = PreVersion(n)
  BY <1>1 DEF PreVersion
<1>5. Newest(Tagged(n))' = Newest(Tagged(n))
  BY <1>3 DEF Newest
<1>6. get_revno_and_last_tag(n)' = get_revno_and_last_tag(n)
  <2>1. CASE Tagged(n) = {}
    BY <1>3, <2>1 DEF get_revno_and_last_tag
  <2>2. CASE Tagged(n) # {}
    <3>1. Newest(Tagged(n)) = get_revno_and_last_tag(n).last
      BY <2>2 DEF get_revno_and_last_tag
    <3>2. Newest(Tagged(n)) \in 1..n
      BY <2>2, <3>1, LastTag DEF Tagged
    <3>3. TagsAt(Newest(Tagged(n)))' = TagsAt(Newest(Tagged(n)))
      BY <1>2, <1>5, <3>2 DEF TagsAt, TagsOf
    <3>4. Highest(TagsAt(Newest(Tagged(n))))' = Highest(TagsAt(Newest(Tagged(n))))
      BY <3>3 DEF Highest
    <3> QED
      BY <1>3, <1>5, <2>2, <3>4 DEF get_revno_and_last_tag
  <2> QED
    BY <2>1, <2>2
<1>7. get_revno_and_last_tag(n).last \in 0..n
  BY LastTag
<1>8. SymbolsSince(get_revno_and_last_tag(n).last, n)'
        = SymbolsSince(get_revno_and_last_tag(n).last, n)
  BY <1>1, <1>6, <1>7 DEF SymbolsSince
<1>9. get_increment_kwargs(get_revno_and_last_tag(n).last, n)'
        = get_increment_kwargs(get_revno_and_last_tag(n).last, n)
  BY <1>8 DEF get_increment_kwargs
<1>10. CASE n > 0 /\ Annotated(n) # {}
  <2>1. Annotated(n) \subseteq 0..Len(tags) /\ Len(tags) \in Nat
    BY TagTypes DEF Annotated, TagsOf, HistoryBase
  <2>2. PICK k \in Annotated(n) : \A l \in Annotated(n) : l <= k
    BY <1>10, <2>1, GreatestElement
  <2>3. Newest(Annotated(n)) = k
    BY <2>1, <2>2, NewestIs
  <2>4. k \in 1..Len(tags)
    BY <2>2 DEF Annotated, TagsOf
  <2>5. Annotated(n)' = Annotated(n)
    BY <1>1, <1>2, <1>10
  <2>6. Newest(Annotated(n))' = Newest(Annotated(n))
    BY <2>5 DEF Newest
  <2>7. tags[Newest(Annotated(n))]' = tags[Newest(Annotated(n))]
    BY <2>3, <2>4, <2>6
  <2>8. VersionAt(n) = get_version_from_git_target(n, tags[Newest(Annotated(n))].version)
    BY <1>10 DEF VersionAt, get_version_from_git
  <2>9. VersionAt(n)' = get_version_from_git_target(n, tags[Newest(Annotated(n))].version)'
    BY <1>10, <2>5 DEF VersionAt, get_version_from_git
  <2> QED
    BY <1>4, <1>6, <1>9, <2>7, <2>8, <2>9 DEF get_version_from_git_target
<1>11. CASE ~(n > 0 /\ Annotated(n) # {})
  <2>1. n > 0 => Annotated(n)' = {}
    BY <1>1, <1>2, <1>11
  <2>2. VersionAt(n) = get_version_from_git_target(n, PreVersion(n))
    BY <1>11 DEF VersionAt, get_version_from_git
  <2>3. VersionAt(n)' = get_version_from_git_target(n, PreVersion(n))'
    BY <1>11, <2>1 DEF VersionAt, get_version_from_git
  <2> QED
    BY <1>4, <1>6, <1>9, <2>2, <2>3 DEF get_version_from_git_target
<1> QED
  BY <1>10, <1>11

LEMMA CommitStep ==
    ASSUME HistoryInv, NEW c \in Commit, MakeCommit(c)
    PROVE  HistoryInv'
PROOF
<1> USE DEF HistoryInv, HistoryBase
<1>0. HEAD \in Nat /\ Len(tags) \in Nat
  BY TagTypes
<1>1. /\ tags' = tags /\ HEAD' = HEAD + 1 /\ HEAD + 1 <= MaxCommits
      /\ commits'[HEAD + 1] = c /\ \A i \in 1..HEAD : commits'[i] = commits[i]
  BY <1>0, NumberTypes DEF MakeCommit, HEAD, HistoryTyped
<1>2. HistoryTyped'
  BY <1>1 DEF HistoryTyped, MakeCommit, HEAD
<1>3. TagsAscend'
  BY <1>0, <1>1, TagTypes, NumberTypes DEF TagsAscend
<1>4. ASSUME NEW n \in 0..HEAD
      PROVE  VersionAt(n)' = VersionAt(n) /\ PreVersion(n)' = PreVersion(n)
  <2>1. \A i \in 1..n : commits'[i] = commits[i] /\ TagsOf(i)' = TagsOf(i)
    BY <1>0, <1>1 DEF TagsOf
  <2> QED
    BY <1>1, <2>1, PastIsPast
<1>5. ASSUME NEW n \in 1..HEAD + 1, n = HEAD + 1
      PROVE  PreVersion(n)' = c.version
  BY <1>0, <1>1, <1>5 DEF PreVersion
<1>6. NamesAscend'
  <2> SUFFICES ASSUME NEW i \in 1..HEAD + 1, NEW j \in 1..HEAD + 1, i < j,
                      PreVersion(i)' # NoVersion
               PROVE  \/ PreVersion(j)' # NoVersion /\ AtMost(PreVersion(i)', PreVersion(j)')
                      \/ \E k \in 1..Len(tags) :
                           tags[k].at < j /\ AtMost(PreVersion(i)', tags[k].version)
    BY <1>1 DEF NamesAscend
  <2>1. i \in 1..HEAD /\ PreVersion(i)' = PreVersion(i) /\ i \in 0..HEAD
    BY <1>0, <1>4
  <2>2. CASE j \in 1..HEAD
    <3>1. PreVersion(j)' = PreVersion(j)
      BY <1>0, <1>4, <2>2
    <3> QED
      BY <2>1, <2>2, <3>1 DEF NamesAscend
  <2>3. CASE j = HEAD + 1
    <3> DEFINE s == PreVersion(i)
               t == PreVersion(HEAD)
    <3>1. \A k \in 1..Len(tags) :
            /\ tags[k].at < j /\ tags[k].version \in Version
      BY <1>0, <2>3, TagTypes, Releases, NumberTypes DEF TagsAscend
    <3>2. HEAD > 0 /\ HEAD \in 0..HEAD /\ HEAD \in 1..HEAD
      BY <1>0, <2>1
    <3>3. s \in Version /\ s # NoVersion /\ t \in Release \cup {NoVersion}
      BY <2>1, <3>2, PreVersionType, Releases
    <3>4. \/ \E k \in 1..Len(tags) : AtMost(s, tags[k].version)
          \/ t # NoVersion /\ AtMost(s, t)
      <4>1. CASE i = HEAD
        BY <3>3, <4>1 DEF AtMost
      <4>2. CASE i # HEAD
        <5>1. i < HEAD
          BY <1>0, <2>1, <4>2
        <5> QED
          BY <2>1, <3>2, <3>3, <5>1 DEF NamesAscend
      <4> QED
        BY <4>1, <4>2
    <3>5. CASE \E k \in 1..Len(tags) : AtMost(s, tags[k].version)
      BY <2>1, <3>1, <3>5
    <3>6. CASE t # NoVersion /\ AtMost(s, t)
      <4>1. t \in Version
        BY <3>3, <3>6, Releases
      <4>2. \/ t = c.version
            \/ c.version # NoVersion /\ Less(t, c.version)
            \/ \E k \in 1..Len(tags) : AtMost(t, tags[k].version)
        BY <3>6 DEF MakeCommit, MayName
      <4>3. CASE t = c.version
        BY <1>5, <2>1, <2>3, <3>6, <4>3
      <4>4. CASE c.version # NoVersion /\ Less(t, c.version)
        <5>1. c.version \in Version
          BY <4>4, ReleaseAssumption, Releases
        <5>2. AtMost(s, c.version)
          BY <3>3, <3>6, <4>1, <4>4, <5>1, AtMostTransitive DEF AtMost
        <5> QED
          BY <1>5, <2>1, <2>3, <4>4, <5>2
      <4>5. CASE \E k \in 1..Len(tags) : AtMost(t, tags[k].version)
        <5>1. PICK k \in 1..Len(tags) : AtMost(t, tags[k].version)
          BY <4>5
        <5>2. AtMost(s, tags[k].version)
          BY <3>1, <3>3, <3>6, <4>1, <5>1, AtMostTransitive
        <5> QED
          BY <2>1, <3>1, <5>2
      <4> QED
        BY <4>2, <4>3, <4>4, <4>5
    <3> QED
      BY <3>4, <3>5, <3>6
  <2> QED
    BY <1>0, <2>2, <2>3
<1>7. TagsAbove'
  <2> SUFFICES ASSUME NamesFinal', NEW i \in 1..HEAD + 1, NEW k \in 1..Len(tags),
                      i < tags[k].at, VersionAt(i)' # Error
               PROVE  Less(VersionAt(i)', tags[k].version)
    BY <1>1 DEF TagsAbove
  <2>1. NamesFinal
    BY <1>0, <1>1 DEF NamesFinal
  <2>2. i \in 1..HEAD /\ i \in 0..HEAD
    BY <1>0, TagTypes, NumberTypes DEF TagsAscend
  <2>3. VersionAt(i)' = VersionAt(i)
    BY <1>4, <2>2
  <2> QED
    BY <2>1, <2>2, <2>3 DEF TagsAbove
<1> QED
  BY <1>2, <1>3, <1>6, <1>7

LEMMA TagStep ==
    ASSUME HistoryInv, NEW v \in TagVersions, NEW a \in BOOLEAN, MakeTag(v, a)
    PROVE  HistoryInv'
PROOF
<1> USE DEF HistoryInv, HistoryBase
<1> DEFINE m == Len(tags) + 1
           q == get_revno_and_last_tag(HEAD)
           g == get_version_from_git_target(HEAD, NoVersion)
<1>0. HEAD \in Nat /\ Len(tags) \in Nat /\ HEAD > 0 /\ HEAD \in 1..HEAD /\ HEAD \in 0..HEAD
  BY TagTypes DEF MakeTag
<1>1. /\ commits' = commits /\ HEAD' = HEAD /\ HEAD \in 1..MaxCommits
      /\ tags' = Append(tags, [at |-> HEAD, version |-> v, annotated |-> a])
      /\ Len(tags') = m /\ \A k \in 1..Len(tags) : tags'[k] = tags[k]
      /\ tags'[m] = [at |-> HEAD, version |-> v, annotated |-> a]
      /\ tags'[m].at = HEAD /\ tags'[m].version = v
  BY <1>0, NumberTypes DEF MakeTag, HEAD, HistoryTyped
<1>2. HistoryTyped'
  BY <1>0, <1>1 DEF HistoryTyped, Tag
<1>3. /\ v \in Release /\ v \in Version
      /\ q.tag \in Version /\ g \in Version /\ AtMost(q.tag, g) /\ Less(g, v)
      /\ AtMost(Final(0, 0, 0), q.tag) /\ Final(0, 0, 0) \in Version
  BY <1>0, ReleaseAssumption, Releases, LastTag, Untargeted, ZeroIsVersion
     DEF MakeTag, Canonical
<1>4. Less(q.tag, v) /\ Less(Final(0, 0, 0), v)
  BY <1>3, AtMostTransitive
<1>5. \A k \in 1..Len(tags) : tags[k].at <= HEAD /\ Less(tags[k].version, v)
  BY <1>0, <1>3, <1>4, TagTypes, Releases, LastTag, AtMostTransitive DEF TagsAscend
<1>6. TagsAscend'
  <2>1. \A k \in 1..m : tags'[k].at <= HEAD /\ Less(Final(0, 0, 0), tags'[k].version)
    BY <1>0, <1>1, <1>4, NumberTypes DEF TagsAscend
  <2>2. ASSUME NEW k \in 1..m, NEW l \in 1..m, k < l
        PROVE  tags'[k].at <= tags'[l].at /\ Less(tags'[k].version, tags'[l].version)
    <3>1. k \in 1..Len(tags)
      BY <1>0, <2>2
    <3>2. CASE l = m
      BY <1>1, <1>5, <3>1, <3>2
    <3>3. CASE l # m
      <4>1. l \in 1..Len(tags)
        BY <1>0, <3>3
      <4> QED
        BY <1>1, <2>2, <3>1, <4>1 DEF TagsAscend
    <3> QED
      BY <3>2, <3>3
  <2> QED
    BY <1>1, <2>1, <2>2 DEF TagsAscend
<1>7. ASSUME NEW n \in 0..HEAD, n < HEAD
      PROVE  VersionAt(n)' = VersionAt(n)
  <2>1. \A i \in 1..n : commits'[i] = commits[i] /\ TagsOf(i)' = TagsOf(i)
    <3> SUFFICES ASSUME NEW i \in 1..n PROVE TagsOf(i)' = TagsOf(i)
      BY <1>1
    <3>1. \A k \in 1..m : k \in 1..Len(tags) \/ k = m
      BY <1>0
    <3>2. i # HEAD
      BY <1>0, <1>7
    <3> QED
      BY <1>0, <1>1, <3>1, <3>2 DEF TagsOf
  <2> QED
    BY <1>1, <2>1, PastIsPast
<1>8. \A n \in 0..HEAD : PreVersion(n)' = PreVersion(n)
  BY <1>1 DEF PreVersion
<1>9. NamesAscend'
  <2> SUFFICES ASSUME NEW i \in 1..HEAD, NEW j \in 1..HEAD, i < j,
                      PreVersion(i) # NoVersion
               PROVE  \/ PreVersion(j) # NoVersion /\ AtMost(PreVersion(i), PreVersion(j))
                      \/ \E k \in 1..m :
                           tags'[k].at < j /\ AtMost(PreVersion(i), tags'[k].version)
    BY <1>0, <1>1, <1>8, SMTT(30) DEF NamesAscend
  <2>1. CASE \E k \in 1..Len(tags) : tags[k].at < j /\ AtMost(PreVersion(i), tags[k].version)
    <3>1. PICK k \in 1..Len(tags) : tags[k].at < j /\ AtMost(PreVersion(i), tags[k].version)
      BY <2>1
    <3>2. k \in 1..m
      BY <1>0
    <3> QED
      BY <1>1, <3>1, <3>2
  <2> QED
    BY <2>1 DEF NamesAscend
<1>10. TagsAbove'
  <2> SUFFICES ASSUME NamesFinal, NEW i \in 1..HEAD, NEW k \in 1..m,
                      i < tags'[k].at, VersionAt(i)' # Error
               PROVE  Less(VersionAt(i)', tags'[k].version)
    BY <1>1 DEF TagsAbove, NamesFinal
  <2>1. i < HEAD /\ i \in 0..HEAD
    BY <1>0, <1>1, <1>5, TagTypes, NumberTypes
  <2>2. VersionAt(i)' = VersionAt(i)
    BY <1>7, <2>1
  <2>3. CASE k = m
    <3>1. Less(VersionAt(i), v)
      BY <1>0, <1>3, <2>1, <2>2, NewTagAbove DEF MakeTag
    <3> QED
      BY <1>1, <2>2, <2>3, <3>1
  <2>4. CASE k # m
    <3>1. k \in 1..Len(tags)
      BY <1>0, <2>4
    <3> QED
      BY <1>1, <2>2, <3>1 DEF TagsAbove
  <2> QED
    BY <2>3, <2>4
<1> QED
  BY <1>2, <1>6, <1>9, <1>10

LEMMA InitHistory == Init => HistoryInv
PROOF
<1> SUFFICES ASSUME Init PROVE HistoryInv
  OBVIOUS
<1>1. HEAD = 0 /\ Len(tags) = 0 /\ commits = <<>> /\ tags = <<>>
  BY DEF Init, HEAD
<1> QED
  BY <1>1, ReleaseAssumption
     DEF HistoryInv, HistoryBase, HistoryTyped, TagsAscend, NamesAscend, TagsAbove

LEMMA HistoryStep == HistoryInv /\ [Maintain]_historyVars => HistoryInv'
PROOF
<1> SUFFICES ASSUME HistoryInv, [Maintain]_historyVars PROVE HistoryInv'
  OBVIOUS
<1>1. CASE UNCHANGED historyVars
  <2>1. commits' = commits /\ tags' = tags
    BY <1>1 DEF historyVars
  <2>2. HEAD \in Nat /\ HEAD' = HEAD
    BY <2>1, TagTypes DEF HistoryInv, HistoryBase, HEAD
  <2>3. \A n \in 0..HEAD : VersionAt(n)' = VersionAt(n) /\ PreVersion(n)' = PreVersion(n)
    <3> SUFFICES ASSUME NEW n \in 0..HEAD
                 PROVE  VersionAt(n)' = VersionAt(n) /\ PreVersion(n)' = PreVersion(n)
      OBVIOUS
    <3>1. \A i \in 1..n : commits'[i] = commits[i] /\ TagsOf(i)' = TagsOf(i)
      BY <2>1 DEF TagsOf
    <3> QED
      BY <2>1, <3>1, PastIsPast DEF HistoryInv
  <2>4. HistoryTyped' /\ TagsAscend'
    BY <2>1, <2>2 DEF HistoryInv, HistoryBase, HistoryTyped, TagsAscend, HEAD
  <2>5. NamesAscend'
    BY <2>1, <2>2, <2>3 DEF HistoryInv, NamesAscend
  <2>6. TagsAbove'
    BY <2>1, <2>2, <2>3 DEF HistoryInv, TagsAbove, NamesFinal
  <2> QED
    BY <2>4, <2>5, <2>6 DEF HistoryInv, HistoryBase
<1>2. CASE Maintain
  BY <1>2, CommitStep, TagStep DEF Maintain
<1> QED
  BY <1>1, <1>2

(* Whatever is committed and tagged, the tags ascend along the history,    *)
(* and a version named in setup.cfg is named or released by every later    *)
(* commit: what git describe and git log tell pbr about the last tag is    *)
(* the same tag, the highest (git.py:219-256, packaging.py:683-782).       *)
THEOREM HistoryAlwaysInv == HistorySpec => []HistoryInv
PROOF
  BY InitHistory, HistoryStep, PTL DEF HistorySpec

(* What is built from a later commit replaces what was built from an       *)
(* earlier one, whatever the maintainers tag and name in setup.cfg in      *)
(* between, as long as they name no prereleases there                      *)
(* (packaging.py:710-744, _get_version_from_git_target).                   *)
THEOREM VersionsAlwaysGrow == HistorySpec => []VersionsGrow
PROOF
  BY HistoryAlwaysInv, GrowHolds, PTL

(* A version built between releases lies strictly between the last tag and *)
(* the version setup.cfg announces (packaging.py:645-744,                  *)
(* _get_increment_kwargs and _get_version_from_git_target).                *)
THEOREM DevVersionsBetweenReleases == HistorySpec => []BetweenReleases
PROOF
<1>1. HistoryInv => BetweenReleases
  BY BetweenHolds DEF HistoryInv
<1> QED
  BY HistoryAlwaysInv, <1>1, PTL

LEMMA TypeHolds == HistoryBase => TypeOK
PROOF
  BY VersionType DEF HistoryBase, HistoryTyped, TypeOK

LEMMA MarkedHolds == HistoryBase => ReleasesMarked
PROOF
<1> SUFFICES ASSUME HistoryBase, NEW n \in 1..HEAD, get_is_release(n)
             PROVE  VersionAt(n) \in TagsAt(n) \cup {Error}
  BY DEF ReleasesMarked
<1> DEFINE r == get_revno_and_last_tag(n)
<1>1. HEAD \in Nat /\ n \in 0..HEAD /\ n \in 1..n
  BY TagTypes DEF HistoryBase
<1>2. PICK k \in TagsOf(n) : TRUE
  BY DEF get_is_release, Annotated
<1>3. k \in 1..Len(tags) /\ tags[k].at = n /\ n \in Tagged(n)
  BY <1>1, <1>2 DEF TagsOf, Tagged
<1>4. n <= r.last /\ r.last \in 0..n /\ r.distance = n - r.last /\ r.tag = Highest(TagsAt(r.last))
  BY <1>1, <1>3, LastTag
<1>5. r.last = n /\ r.distance = 0
  BY <1>1, <1>4
<1>6. VersionAt(n) \in {Highest(TagsAt(n)), Error}
  BY <1>4, <1>5, VersionUnfolds
<1>7. Highest(TagsAt(n)) \in TagsAt(n)
  BY <1>2, HighestIsNewest DEF TagsAt
<1> QED
  BY <1>6, <1>7

(* Tags on later commits are higher.                                       *)
LEMMA HighestGrows ==
    ASSUME HistoryBase, NEW i \in Nat, NEW j \in Nat, i <= j,
           TagsOf(i) # {}, TagsOf(j) # {}
    PROVE  AtMost(Highest(TagsAt(i)), Highest(TagsAt(j))) /\ Highest(TagsAt(i)) # NoVersion
PROOF
<1>1. PICK k \in TagsOf(i) : Highest(TagsAt(i)) = tags[k].version
  BY HighestIsNewest
<1>2. PICK l \in TagsOf(j) : Highest(TagsAt(j)) = tags[l].version
  BY HighestIsNewest
<1>3. k \in 1..Len(tags) /\ l \in 1..Len(tags) /\ tags[k].at = i /\ tags[l].at = j
  BY DEF TagsOf
<1>4. tags[k].version # NoVersion
  BY <1>3, TagTypes, Releases DEF HistoryBase
<1>5. CASE i = j
  BY <1>1, <1>4, <1>5 DEF AtMost
<1>6. CASE i < j
  <2>1. k < l
    <3>1. SUFFICES ASSUME l <= k PROVE FALSE
      BY <1>3
    <3>2. tags[l].at <= tags[k].at
      BY <1>3, <3>1 DEF HistoryBase, TagsAscend
    <3> QED
      BY <1>3, <1>6, <3>2
  <2> QED
    BY <1>1, <1>2, <1>3, <1>4, <2>1 DEF HistoryBase, TagsAscend, AtMost
<1> QED
  BY <1>5, <1>6

(* The heading of a commit is the highest tag of the first tagged commit   *)
(* from it on.                                                             *)
LEMMA HeadingIs ==
    ASSUME HistoryBase, Tagged(HEAD) # {}, NEW c \in 1..HEAD
    PROVE  IF c > get_revno_and_last_tag(HEAD).last
           THEN HeadingOf(c, HEAD) = NoVersion
           ELSE \E j \in Tagged(HEAD) \cap c..HEAD :
                  /\ HeadingOf(c, HEAD) = Highest(TagsAt(j))
                  /\ \A i \in Tagged(HEAD) \cap c..HEAD : j <= i
PROOF
<1> DEFINE last == get_revno_and_last_tag(HEAD).last
           after == Tagged(HEAD) \cap c..HEAD
<1>1. HEAD \in Nat /\ HEAD \in 0..HEAD
  BY TagTypes DEF HistoryBase
<1>2. last \in Tagged(HEAD) /\ last \in 1..HEAD
  BY <1>1, LastTag DEF Tagged
<1>3. CASE c > last
  <2>1. \A i \in Tagged(HEAD) : i <= last
    <3> SUFFICES ASSUME NEW i \in Tagged(HEAD) PROVE i <= last
      OBVIOUS
    <3>1. PICK k \in TagsOf(i) : TRUE
      BY DEF Tagged
    <3>2. k \in 1..Len(tags) /\ tags[k].at = i /\ i \in 1..HEAD
      BY <3>1 DEF TagsOf, Tagged
    <3> QED
      BY <1>1, <3>2, LastTag
  <2>2. after = {}
    BY <1>1, <1>2, <1>3, <2>1 DEF Tagged
  <2> QED
    BY <1>3, <2>2 DEF HeadingOf
<1>4. CASE ~(c > last)
  <2>1. after \in SUBSET Nat /\ last \in after
    BY <1>1, <1>2, <1>4
  <2>2. PICK j \in after : \A i \in after : j <= i
    BY <2>1, LeastElement
  <2>3. \A l \in after : (\A i \in after : l <= i) => l = j
    BY <2>1, <2>2
  <2>4. (CHOOSE l \in after : \A i \in after : l <= i) = j
    BY <2>2, <2>3
  <2>5. HeadingOf(c, HEAD) = Highest(TagsAt(j))
    BY <2>2, <2>4 DEF HeadingOf
  <2> QED
    BY <1>4, <2>2, <2>5
<1> QED
  BY <1>3, <1>4

(* The rows of the change log: which commits they are of.                  *)
LEMMA LogRows ==
    ASSUME HistoryBase
    PROVE  LET log == iter_changelog(HEAD)
           IN  /\ Len(log) \in Nat
               /\ \E at \in [1..Len(log) -> 1..HEAD] :
                    /\ \A i \in 1..Len(log) :
                         log[i].heading = HeadingOf(at[i], HEAD) /\ commits[at[i]].by # Bot
                    /\ \A i \in 1..Len(log), j \in 1..Len(log) : i < j => at[i] > at[j]
                    /\ \A c \in 1..HEAD :
                         commits[c].by # Bot => \E i \in 1..Len(log) : at[i] = c
PROOF
<1> DEFINE Row(c) == [commit |-> c, heading |-> HeadingOf(c, HEAD)]
           rows == [i \in 1..HEAD |-> Row(HEAD + 1 - i)]
           D == {e \in In(rows) : commits[e.commit].by # Bot}
           log == Keep(rows, D)
<1>1. HEAD \in Nat
  BY TagTypes DEF HistoryBase
<1>2. iter_changelog(HEAD) = log
  BY DEF iter_changelog
<1>3. \A c : Row(c).commit = c /\ Row(c).heading = HeadingOf(c, HEAD)
  OBVIOUS
<1> HIDE DEF Row
<1>4. Len(rows) = HEAD /\ \A i \in 1..HEAD : rows[i] = Row(HEAD + 1 - i)
  BY <1>1
<1>5. In(rows) = {rows[i] : i \in 1..HEAD}
  BY <1>4 DEF In
<1>6. rows \in Seq(In(rows))
  BY <1>1, <1>5
<1> HIDE DEF rows
<1>7. \A i \in 1..HEAD : rows[i] \in D <=> commits[HEAD + 1 - i].by # Bot
  BY <1>3, <1>4, <1>5
<1> HIDE DEF D
<1>8. log \in Seq(In(rows))
  BY <1>6, KeepSelects
<1>9. PICK at \in [1..Len(log) -> 1..Len(rows)] :
        /\ \A i \in 1..Len(log) : log[i] = rows[at[i]]
        /\ \A i, j \in 1..Len(log) : i < j => at[i] < at[j]
        /\ \A k \in 1..Len(rows) :
             rows[k] \in D <=> \E i \in 1..Len(log) : at[i] = k
  BY <1>6, KeepSelects
<1> HIDE DEF log
<1> DEFINE of == [i \in 1..Len(log) |-> HEAD + 1 - at[i]]
<1>10. of \in [1..Len(log) -> 1..HEAD] /\ \A i \in 1..Len(log) : of[i] = HEAD + 1 - at[i]
  BY <1>1, <1>4, <1>9
<1> HIDE DEF of
<1>11. \A i \in 1..Len(log) :
         log[i].heading = HeadingOf(of[i], HEAD) /\ commits[of[i]].by # Bot
  <2> SUFFICES ASSUME NEW i \in 1..Len(log)
               PROVE  log[i].heading = HeadingOf(of[i], HEAD) /\ commits[of[i]].by # Bot
    OBVIOUS
  <2>1. at[i] \in 1..HEAD /\ log[i] = rows[at[i]] /\ rows[at[i]] = Row(of[i])
    BY <1>4, <1>9, <1>10
  <2>2. rows[at[i]] \in D
    BY <1>4, <1>9, <2>1
  <2>3. commits[of[i]].by # Bot
    BY <1>7, <1>10, <2>1, <2>2
  <2> QED
    BY <1>3, <2>1, <2>3
<1>12. \A i \in 1..Len(log), j \in 1..Len(log) : i < j => of[i] > of[j]
  <2> SUFFICES ASSUME NEW i \in 1..Len(log), NEW j \in 1..Len(log), i < j
               PROVE  of[i] > of[j]
    OBVIOUS
  <2>1. at[i] < at[j] /\ at[i] \in 1..HEAD /\ at[j] \in 1..HEAD
    BY <1>4, <1>9
  <2> QED
    BY <1>1, <1>10, <2>1
<1>13. ASSUME NEW c \in 1..HEAD, commits[c].by # Bot
       PROVE  \E i \in 1..Len(log) : of[i] = c
  <2>1. HEAD + 1 - c \in 1..HEAD /\ HEAD + 1 - (HEAD + 1 - c) = c
    BY <1>1
  <2>2. rows[HEAD + 1 - c] \in D
    BY <1>7, <1>13, <2>1
  <2>3. PICK i \in 1..Len(log) : at[i] = HEAD + 1 - c
    BY <1>4, <1>9, <2>1, <2>2
  <2> QED
    BY <1>10, <2>1, <2>3
<1>14. Len(log) \in Nat
  BY <1>8
<1> QED
  BY <1>2, <1>10, <1>11, <1>12, <1>13, <1>14

(* The entries under no heading and the merges are the commits counted.    *)
LEMMA CountsAgree ==
    ASSUME HistoryBase, Tagged(HEAD) # {}
    PROVE  LET r == get_revno_and_last_tag(HEAD)
           IN  r.distance = Cardinality(Unreleased(iter_changelog(HEAD)))
                 + Cardinality({i \in r.last + 1..HEAD : commits[i].by = Bot})
PROOF
<1> DEFINE last == get_revno_and_last_tag(HEAD).last
           log == iter_changelog(HEAD)
           U == Unreleased(log)
           new == last + 1..HEAD
           merges == {i \in new : commits[i].by = Bot}
           others == {i \in new : commits[i].by # Bot}
<1>1. /\ HEAD \in Nat /\ last \in 0..HEAD
      /\ get_revno_and_last_tag(HEAD).distance = HEAD - last
  <2>1. HEAD \in Nat /\ HEAD \in 0..HEAD
    BY TagTypes DEF HistoryBase
  <2> QED
    BY <2>1, LastTag
<1>2. PICK at \in [1..Len(log) -> 1..HEAD] :
        /\ \A i \in 1..Len(log) :
             log[i].heading = HeadingOf(at[i], HEAD) /\ commits[at[i]].by # Bot
        /\ \A i \in 1..Len(log), j \in 1..Len(log) : i < j => at[i] > at[j]
        /\ \A c \in 1..HEAD : commits[c].by # Bot => \E i \in 1..Len(log) : at[i] = c
  BY LogRows
<1>3. Len(log) \in Nat
  BY LogRows
<1>4. \A c \in 1..HEAD : HeadingOf(c, HEAD) = NoVersion <=> c > last
  <2> SUFFICES ASSUME NEW c \in 1..HEAD PROVE HeadingOf(c, HEAD) = NoVersion <=> c > last
    OBVIOUS
  <2>1. CASE c > last
    BY <2>1, HeadingIs
  <2>2. CASE ~(c > last)
    <3>1. PICK j \in Tagged(HEAD) \cap c..HEAD : HeadingOf(c, HEAD) = Highest(TagsAt(j))
      BY <2>2, HeadingIs
    <3>2. j \in Nat /\ TagsOf(j) # {}
      BY <1>1, <3>1 DEF Tagged
    <3>3. HeadingOf(c, HEAD) # NoVersion
      BY <3>1, <3>2, HighestGrows
    <3> QED
      BY <2>2, <3>3
  <2> QED
    BY <2>1, <2>2
<1> HIDE DEF log, last
<1>5. U \subseteq 1..Len(log) /\ \A i \in 1..Len(log) : i \in U <=> at[i] > last
  BY <1>2, <1>4 DEF Unreleased
<1> HIDE DEF U
<1> DEFINE f == [i \in U |-> at[i]]
<1>6. f \in [U -> others] /\ \A i \in U : f[i] = at[i]
  BY <1>1, <1>2, <1>5
<1>7. f \in Injection(U, others)
  <2>1. ASSUME NEW i \in U, NEW j \in U, f[i] = f[j] PROVE i = j
    <3>1. i \in 1..Len(log) /\ j \in 1..Len(log) /\ at[i] = at[j] /\ at[i] \in Int
      BY <1>2, <1>5, <1>6, <2>1
    <3>2. ~(i < j) /\ ~(j < i)
      BY <1>2, <3>1
    <3> QED
      BY <3>1, <3>2
  <2> QED
    BY <1>6, <2>1, Fun_IsInj
<1>8. f \in Surjection(U, others)
  <2>1. ASSUME NEW c \in others PROVE \E i \in U : f[i] = c
    <3>1. PICK i \in 1..Len(log) : at[i] = c
      BY <1>1, <1>2
    <3>2. i \in U
      BY <1>1, <1>5, <3>1
    <3> QED
      BY <1>6, <3>1, <3>2
  <2> QED
    BY <1>6, <2>1, Fun_IsSurj
<1>9. IsFiniteSet(new) /\ Cardinality(new) = HEAD - last
  <2>1. last + 1 \in Int /\ HEAD \in Int
    BY <1>1
  <2>2. /\ IsFiniteSet(new)
        /\ Cardinality(new) = IF last + 1 > HEAD THEN 0 ELSE HEAD - (last + 1) + 1
    BY <2>1, FS_Interval
  <2> QED
    BY <1>1, <2>2
<1>10. IsFiniteSet(others) /\ IsFiniteSet(merges)
  BY <1>9, FS_Subset
<1>11. IsFiniteSet(U) /\ Cardinality(U) = Cardinality(others)
  BY <1>7, <1>8, <1>10, FS_Injection
<1>12. others \cup merges = new /\ others \cap merges = {}
  OBVIOUS
<1> HIDE DEF others, merges, new
<1>13. Cardinality(new)
         = Cardinality(others) + Cardinality(merges) - Cardinality(others \cap merges)
  BY <1>10, <1>12, FS_Union
<1>14. /\ Cardinality(others) \in Nat /\ Cardinality(merges) \in Nat
       /\ Cardinality(others \cap merges) = 0
  BY <1>10, <1>12, FS_CardinalityType, FS_EmptySet
<1>15. HEAD - last = Cardinality(U) + Cardinality(merges)
  BY <1>9, <1>11, <1>13, <1>14
<1> QED
  BY <1>1, <1>15 DEF U, log, last, merges, new

LEMMA ChangelogHolds == HistoryBase => ChangelogMatchesVersion
PROOF
<1> DEFINE log == iter_changelog(HEAD)
<1> SUFFICES ASSUME HistoryBase, Tagged(HEAD) # {},
                    NEW i \in 1..Len(log), NEW j \in 1..Len(log),
                    log[i].heading # NoVersion, log[j].heading # NoVersion, i < j
             PROVE  AtMost(log[j].heading, log[i].heading)
  BY CountsAgree DEF ChangelogMatchesVersion, Unreleased
<1>1. HEAD \in Nat
  BY TagTypes DEF HistoryBase
<1>2. PICK at \in [1..Len(log) -> 1..HEAD] :
        /\ \A k \in 1..Len(log) : log[k].heading = HeadingOf(at[k], HEAD)
        /\ \A k \in 1..Len(log), l \in 1..Len(log) : k < l => at[k] > at[l]
  BY LogRows
<1> HIDE DEF log
<1>3. /\ at[i] \in 1..HEAD /\ at[j] \in 1..HEAD /\ at[j] < at[i]
      /\ log[i].heading = HeadingOf(at[i], HEAD) /\ log[j].heading = HeadingOf(at[j], HEAD)
  BY <1>2
<1>4. PICK k \in Tagged(HEAD) \cap at[i]..HEAD : HeadingOf(at[i], HEAD) = Highest(TagsAt(k))
  BY <1>3, HeadingIs
<1>5. PICK l \in Tagged(HEAD) \cap at[j]..HEAD :
        /\ HeadingOf(at[j], HEAD) = Highest(TagsAt(l))
        /\ \A m \in Tagged(HEAD) \cap at[j]..HEAD : l <= m
  BY <1>3, HeadingIs
<1>6. k \in Tagged(HEAD) \cap at[j]..HEAD
  BY <1>1, <1>3, <1>4
<1>7. l <= k /\ l \in Nat /\ k \in Nat /\ TagsOf(l) # {} /\ TagsOf(k) # {}
  BY <1>1, <1>5, <1>6 DEF Tagged
<1> QED
  BY <1>3, <1>4, <1>5, <1>7, HighestGrows

(* The change log, the release flag of pbr.json and the version agree,     *)
(* though each asks git on its own: the entries without a heading and the  *)
(* merges left out are the commits a dev version counts (git.py:125-143    *)
(* and 166-191, packaging.py:683-707).                                     *)
THEOREM HistoryIsTold == HistorySpec => []HistoryTold
PROOF
<1>1. HistoryInv => HistoryTold
  BY MarkedHolds, ChangelogHolds DEF HistoryInv, HistoryTold
<1> QED
  BY HistoryAlwaysInv, <1>1, PTL

(* Of two releases the earlier one comes first for apt, rpm and whoever    *)
(* compares version_info tuples.                                           *)
LEMMA PackagesHold == HistoryBase => PackagesOrdered
PROOF
<1> SUFFICES ASSUME HistoryBase, NEW k \in 1..Len(tags), NEW l \in 1..Len(tags),
                    Less(tags[k].version, tags[l].version)
             PROVE  LET v == tags[k].version
                        w == tags[l].version
                    IN  /\ LexLess(debian_string(v), debian_string(w))
                        /\ Fits(v) /\ Fits(w) => LexLess(rpm_string(v), rpm_string(w))
                        /\ LexLess(version_tuple(v), version_tuple(w))
  BY DEF PackagesOrdered
<1> DEFINE v == tags[k].version
           w == tags[l].version
<1>1. v \in Release /\ w \in Release
  BY TagTypes DEF HistoryBase
<1>2. ~Zero(v)
  <2>1. Less(Final(0, 0, 0), v)
    BY DEF HistoryBase, TagsAscend
  <2>2. Final(0, 0, 0) \in Release
    BY ZeroIsVersion DEF Release
  <2> DEFINE zero == Final(0, 0, 0)
  <2>3. zero.major = 0 /\ zero.minor = 0 /\ zero.patch = 0 /\ zero.pretype = "none"
    BY DEF Final
  <2> HIDE DEF v, zero
  <2>4. PartsBefore(zero, v) \/ (SameParts(zero, v) /\ Sooner(zero, v))
    BY <1>1, <2>1, <2>2, ReleasesBefore DEF zero
  <2>5. PartsBefore(zero, v)
    BY <1>1, <2>2, <2>3, <2>4, SoonerIs DEF zero
  <2> QED
    BY <2>3, <2>5 DEF PartsBefore, Zero
<1>3. Less(v, w)
  OBVIOUS
<1> HIDE DEF v, w
<1>4. /\ LexLess(debian_string(v), debian_string(w))
      /\ LexLess(version_tuple(v), version_tuple(w))
      /\ Fits(v) /\ Fits(w) => LexLess(rpm_string(v), rpm_string(w))
  BY <1>1, <1>2, <1>3, DebianOrdered, TuplesOrdered, RpmOrdered
<1> QED
  BY <1>4 DEF v, w

(* Whoever reads the string of a version built gets that version back, and *)
(* apt, rpm and programs that compare version_info tuples put the releases *)
(* in the order pbr puts them (version.py:120-232 and 235-405:             *)
(* from_pip_string, release_string, debian_string, rpm_string,             *)
(* version_tuple), whatever has been tagged and committed.                 *)
THEOREM StringsStayFaithful == HistorySpec => []StringsFaithful
PROOF
<1>1. HistoryBase => ReadsBack
  BY VersionType, StringReadsBack DEF ReadsBack
<1>2. HistoryInv => StringsFaithful
  BY <1>1, PackagesHold DEF HistoryInv, StringsFaithful
<1> QED
  BY HistoryAlwaysInv, <1>2, PTL

(* Every version built is a version that can be written and read, or the   *)
(* ValueError of a history that contradicts its setup.cfg                  *)
(* (packaging.py:710-782).                                                 *)
THEOREM HistoryTypeCorrect == HistorySpec => []TypeOK
PROOF
<1>1. HistoryInv => TypeOK
  BY TypeHolds DEF HistoryInv
<1> QED
  BY HistoryAlwaysInv, <1>1, PTL

(***************************************************************************)
(* sys.path                                                                *)
(***************************************************************************)
(* The stages within the try of cfg_to_args.                               *)
Trying == {"hooks", "kwargs", "extras"}

PathInv ==
    path = IF stage \in Trying /\ Cfg.packages_root
           THEN <<"packages_root">> \o <<Base>> ELSE <<Base>>

LEMMA TailOfPair ==
    ASSUME NEW x, NEW y
    PROVE  Tail(<<x>> \o <<y>>) = <<y>>
PROOF
<1> DEFINE S == {x, y}
           a == <<x>>
           b == <<y>>
<1>1. /\ Len(a) = 1 /\ Len(b) = 1 /\ a \in Seq(S) /\ b \in Seq(S)
  OBVIOUS
<1> HIDE DEF a, b, S
<1>2. a \o b \in Seq(S) /\ Len(a \o b) = 2 /\ (a \o b)[2] = b[1]
  <2>1. /\ a \o b \in Seq(S)
        /\ Len(a \o b) = Len(a) + Len(b)
        /\ \A i \in 1..Len(a) + Len(b) :
             (a \o b)[i] = IF i <= Len(a) THEN a[i] ELSE b[i - Len(a)]
    BY <1>1, ConcatProperties
  <2> QED
    BY <1>1, <2>1
<1>3. Tail(a \o b) \in Seq(S) /\ Len(Tail(a \o b)) = 1 /\ Tail(a \o b)[1] = b[1]
  BY <1>2
<1>4. Tail(a \o b) = b
  BY <1>1, <1>3
<1> QED
  BY <1>4 DEF a, b

(* The finally of cfg_to_args puts the path back from any stage within.    *)
LEMMA LeaveRestores ==
    ASSUME PathInv, stage \in Trying, NEW s, s \notin Trying, Leave(s)
    PROVE  PathInv'
PROOF
<1>1. stage' = s /\ path' = <<Base>>
  BY TailOfPair DEF Leave, PathInv
<1> QED
  BY <1>1 DEF PathInv

LEMMA PathStep == PathInv /\ [Next]_vars => PathInv'
PROOF
<1> SUFFICES ASSUME PathInv, [Next]_vars PROVE PathInv'
  OBVIOUS
<1>0. CASE UNCHANGED <<stage, run, path>>
  BY <1>0 DEF PathInv, Cfg
<1>1. CASE \E p \in DOMAIN Project, c \in Command, t \in Tree, e \in EnvVersions :
             Start(p, c, t, e)
  <2>1. path' = <<Base>> /\ stage' = "config"
    BY <1>1 DEF Start
  <2> QED
    BY <2>1 DEF PathInv, Trying
<1>2. CASE ReadConfig
  <2>1. path = <<Base>>
    BY <1>2 DEF ReadConfig, PathInv, Trying
  <2> QED
    BY <1>2, <2>1 DEF ReadConfig, PathInv, Trying, Cfg
<1>3. CASE NoConfigFile
  BY <1>3 DEF NoConfigFile, PathInv, Trying
<1>4. CASE HookReturns
  BY <1>4, <1>0 DEF HookReturns, Hooking
<1>5. CASE HookMissing
  BY <1>5, LeaveRestores DEF HookMissing, Hooking, Trying
<1>6. CASE HookRaises
  BY <1>6, LeaveRestores DEF HookRaises, Hooking, Trying
<1>7. CASE PbrHooks
  <2>1. stage = "hooks" /\ UNCHANGED run
    BY <1>7 DEF PbrHooks
  <2>2. Leave("failed") \/ (stage' = "kwargs" /\ UNCHANGED path)
    BY <1>7 DEF PbrHooks
  <2>3. CASE Leave("failed")
    BY <2>1, <2>3, LeaveRestores DEF Trying
  <2>4. CASE stage' = "kwargs" /\ UNCHANGED path
    BY <2>1, <2>4 DEF PathInv, Trying, Cfg
  <2> QED
    BY <2>2, <2>3, <2>4
<1>8. CASE Convert
  <2>1. stage = "kwargs" /\ UNCHANGED run
    BY <1>8 DEF Convert
  <2>2. Leave("failed") \/ (stage' = "extras" /\ UNCHANGED path)
    BY <1>8 DEF Convert
  <2>3. CASE Leave("failed")
    BY <2>1, <2>3, LeaveRestores DEF Trying
  <2>4. CASE stage' = "extras" /\ UNCHANGED path
    BY <2>1, <2>4 DEF PathInv, Trying, Cfg
  <2> QED
    BY <2>2, <2>3, <2>4
<1>9. CASE Extras
  <2>1. stage = "extras" /\ (Leave("failed") \/ Leave("command"))
    BY <1>9 DEF Extras
  <2>2. "failed" \notin Trying /\ "command" \notin Trying
    BY DEF Trying
  <2> QED
    BY <2>1, <2>2, LeaveRestores DEF Trying
<1>10. CASE Sdist \/ Install \/ PrintVersion
  <2>1. stage = "command" /\ stage' \in {"done", "failed"} /\ UNCHANGED path
    BY <1>10 DEF Sdist, Install, PrintVersion
  <2> QED
    BY <2>1 DEF PathInv, Trying
<1>11. CASE End
  <2>1. path' = <<Base>> /\ stage' = "idle"
    BY <1>11 DEF End
  <2> QED
    BY <2>1 DEF PathInv, Trying
<1>12. CASE stage = "idle" /\ Maintain /\ UNCHANGED <<tarball, installed, setupVars>>
  BY <1>12, <1>0 DEF setupVars
<1>13. CASE UNCHANGED vars
  BY <1>13, <1>0 DEF vars, setupVars
<1> QED
  BY <1>1, <1>2, <1>3, <1>4, <1>5, <1>6, <1>7, <1>8, <1>9, <1>10, <1>11, <1>12, <1>13
     DEF Next, Setup

(* Whichever step of setup.py fails, sys.path is what it was before the    *)
(* project's packages were put on it (util.py:242-298, cfg_to_args).       *)
THEOREM PathIsRestored == Spec => []PathRestored
PROOF
<1>1. SetupInit => PathInv
  BY DEF SetupInit, PathInv, Trying
<1>2. PathInv => PathRestored
  BY DEF PathInv, PathRestored, Trying
<1> QED
  BY <1>1, <1>2, PathStep, PTL DEF Spec

(***************************************************************************)
(* Source distributions                                                    *)
(***************************************************************************)
(* What is in the last source distribution and in its SOURCES.txt, against *)
(* what a clone has.                                                       *)
Packed ==
    LET p == Project[tarball.project]
        cloned == add_defaults("git", p)
        lost == IF tarball.clone THEN {} ELSE {"data"}
    IN  /\ cloned \ lost \subseteq tarball.sources /\ tarball.sources \subseteq cloned
        /\ tarball.sources \subseteq tarball.files
        /\ tarball.files \subseteq tarball.sources \cup {"notes"}
        /\ "notes" \notin p.extra_files

ContentInv ==
    /\ tarball # None => Packed
    /\ stage \notin {"idle", "done"} /\ run.tree # "git" =>
         tarball # None /\ tarball.project = run.project
    /\ stage = "command" => Cfg.extra_files \subseteq Present(run.tree, Cfg)
    /\ result # None => stage \in {"done", "failed"}
    /\ result # None /\ run.tree # "git" =>
         LET cloned == add_defaults("git", Cfg)
             lost == IF tarball.clone THEN {} ELSE {"data"}
         IN  cloned \ lost \subseteq result.files /\ result.files \subseteq cloned

(* The release notes are not in a clone before they are made.              *)
LEMMA ClonedFiles ==
    ASSUME NEW p
    PROVE  "notes" \notin Present("git", p) /\ add_defaults("git", p) \subseteq Present("git", p)
  BY DEF Present, add_defaults

(* Packing a clone packs what is there, packing a source distribution      *)
(* keeps all but the files only git knows of.                              *)
LEMMA PacksWell ==
    ASSUME NEW p, NEW tree,
           p.extra_files \subseteq Present(tree, p),
           tree # "git" => Packed /\ Project[tarball.project] = p
    PROVE  LET cloned == add_defaults("git", p)
               lost == IF tree = "git" THEN {} ELSE {"data"}
               sources == find_sources(tree, "sdist", p)
           IN  /\ cloned \ lost \subseteq sources /\ sources \subseteq cloned
               /\ "notes" \notin p.extra_files
               /\ checking_reno(tree, p) \subseteq {"notes"}
PROOF
<1>0. checking_reno(tree, p) \subseteq {"notes"}
  BY DEF checking_reno
<1>1. CASE tree = "git"
  BY <1>0, <1>1, ClonedFiles DEF find_sources
<1>2. CASE tree # "git"
  <2> DEFINE cloned == add_defaults("git", p)
             base == {"module", "AUTHORS", "ChangeLog"} \cup p.extra_files
             sources == find_sources(tree, "sdist", p)
  <2>1. /\ cloned \ {"data"} \subseteq tarball.sources /\ tarball.sources \subseteq cloned
        /\ tarball.sources \subseteq tarball.files
        /\ tarball.files \subseteq tarball.sources \cup {"notes"}
        /\ "notes" \notin p.extra_files
    BY <1>2 DEF Packed
  <2>2. /\ base \cap tarball.files \subseteq sources
        /\ sources \subseteq tarball.files \cap (base \cup tarball.sources)
    BY <1>2 DEF find_sources, add_defaults, Present
  <2>3. cloned \ {"data"} \subseteq sources
    <3>1. \/ cloned \subseteq base \cup {"data"}
          \/ "git_sdist" \in p.skip
      BY DEF add_defaults
    <3>2. "git_sdist" \in p.skip => sources = tarball.files \cap (base \cup tarball.sources)
      BY <1>2 DEF find_sources, add_defaults, Present
    <3> HIDE DEF cloned, base, sources
    <3> QED
      BY <2>1, <2>2, <3>1, <3>2
  <2> HIDE DEF cloned, sources
  <2>4. sources \subseteq cloned
    <3>1. "notes" \notin base \cup tarball.sources
      BY <2>1, ClonedFiles DEF cloned
    <3> HIDE DEF base
    <3> QED
      BY <2>1, <2>2, <3>1
  <2> QED
    BY <1>0, <1>2, <2>1, <2>3, <2>4 DEF cloned, sources
<1> QED
  BY <1>1, <1>2

LEMMA ContentStep == ContentInv /\ [Next]_vars => ContentInv'
PROOF
<1> SUFFICES ASSUME ContentInv, [Next]_vars PROVE ContentInv'
  OBVIOUS
<1> USE DEF ContentInv
<1>0. CASE UNCHANGED <<tarball, stage, run, result>>
  BY <1>0 DEF Packed, Cfg, Present, add_defaults
<1>1. CASE \E p \in DOMAIN Project, c \in Command, t \in Tree, e \in EnvVersions :
             Start(p, c, t, e)
  <2> PICK p \in DOMAIN Project, c \in Command, t \in Tree, e \in EnvVersions :
             Start(p, c, t, e)
    BY <1>1
  <2>1. /\ stage = "idle" /\ stage' = "config"
        /\ t # "git" => tarball # None /\ tarball.project = p
        /\ run'.tree = t /\ run'.project = p /\ UNCHANGED <<tarball, result>>
    BY DEF Start, worldVars
  <2>2. result = None
    BY <2>1
  <2> QED
    BY <2>1, <2>2 DEF Packed, add_defaults, Present
(* The steps that lead nowhere near a command.                             *)
<1>2. CASE /\ stage \in {"config", "hooks", "kwargs"} /\ stage' # "command"
           /\ UNCHANGED <<tarball, run, result>>
  BY <1>2 DEF Packed, add_defaults, Present
<1>3. CASE ReadConfig \/ NoConfigFile
  BY <1>2, <1>3 DEF ReadConfig, NoConfigFile, worldVars
<1>4. CASE HookReturns \/ HookMissing \/ HookRaises
  BY <1>2, <1>4 DEF HookReturns, HookMissing, HookRaises, Hooking, Leave, worldVars
<1>5. CASE PbrHooks
  <2>1. /\ stage = "hooks" /\ stage' # "command" /\ UNCHANGED <<tarball, run, result>>
    BY <1>5 DEF PbrHooks, Leave, worldVars
  <2> QED
    BY <1>2, <2>1
<1>6. CASE Convert
  <2>1. /\ stage = "kwargs" /\ stage' # "command" /\ UNCHANGED <<tarball, run, result>>
    BY <1>6 DEF Convert, Leave, worldVars
  <2> QED
    BY <1>2, <2>1
<1>7. CASE Extras
  <2>1. /\ stage = "extras" /\ UNCHANGED <<tarball, run, result>>
        /\ stage' \in {"failed", "command"}
        /\ stage' = "command" => Cfg.extra_files \subseteq Present(run.tree, Cfg)
    BY <1>7 DEF Extras, Leave, worldVars
  <2>2. result = None
    BY <2>1
  <2> QED
    BY <2>1, <2>2 DEF Packed, Cfg, add_defaults, Present
<1>8. CASE Sdist
  <2> DEFINE p == Cfg
             sources == find_sources(run.tree, "sdist", p)
  <2>1. /\ stage = "command" /\ stage' = "done" /\ UNCHANGED <<run, result>>
        /\ tarball'.sources = sources /\ tarball'.files = sources \cup checking_reno(run.tree, p)
        /\ tarball'.clone = (run.tree = "git") /\ tarball'.project = run.project
    BY <1>8 DEF Sdist
  <2>2. result = None
    BY <2>1
  <2>3. p.extra_files \subseteq Present(run.tree, p)
    BY <2>1
  <2>4. run.tree # "git" => Packed /\ Project[tarball.project] = p
    BY <2>1 DEF Cfg
  <2>5. LET cloned == add_defaults("git", p)
            lost == IF run.tree = "git" THEN {} ELSE {"data"}
        IN  /\ cloned \ lost \subseteq sources /\ sources \subseteq cloned
            /\ "notes" \notin p.extra_files
            /\ checking_reno(run.tree, p) \subseteq {"notes"}
    BY <2>3, <2>4, PacksWell
  <2>6. Packed'
    <3>1. Project[tarball'.project] = p
      BY <2>1 DEF Cfg
    <3> HIDE DEF p, sources
    <3>2. add_defaults("git", Project[tarball.project])' = add_defaults("git", p)
      BY <3>1 DEF add_defaults, Present
    <3> QED
      BY <2>1, <2>5, <3>1, <3>2 DEF Packed
  <2> QED
    BY <2>1, <2>2, <2>6
<1>9. CASE Install
  <2>1. /\ stage = "command" /\ stage' \in {"done", "failed"} /\ UNCHANGED <<tarball, run>>
        /\ run.command \in {"install", "bdist_wheel"}
        /\ result'.files = find_sources(run.tree, run.command, Cfg)
    BY <1>9 DEF Install
  <2>2. UNCHANGED Packed /\ UNCHANGED Cfg /\ UNCHANGED add_defaults("git", Cfg)
    BY <2>1 DEF Packed, Cfg, add_defaults, Present
  <2>3. run.tree # "git" =>
          LET cloned == add_defaults("git", Cfg)
              lost == IF tarball.clone THEN {} ELSE {"data"}
          IN  cloned \ lost \subseteq result'.files /\ result'.files \subseteq cloned
    <3> SUFFICES ASSUME run.tree # "git"
                 PROVE  LET cloned == add_defaults("git", Cfg)
                            lost == IF tarball.clone THEN {} ELSE {"data"}
                        IN  cloned \ lost \subseteq result'.files /\ result'.files \subseteq cloned
      OBVIOUS
    <3>1. result'.files = tarball.sources
      BY <2>1 DEF find_sources
    <3>2. Packed /\ Project[tarball.project] = Cfg
      BY <2>1 DEF Cfg
    <3> QED
      BY <3>1, <3>2 DEF Packed
  <2> QED
    BY <2>1, <2>2, <2>3
<1>10. CASE PrintVersion
  <2>1. /\ stage = "command" /\ stage' \in {"done", "failed"} /\ UNCHANGED <<tarball, run, result>>
    BY <1>10 DEF PrintVersion, worldVars
  <2>2. result = None
    BY <2>1
  <2> QED
    BY <2>1, <2>2 DEF Packed, add_defaults, Present
<1>11. CASE End
  <2>1. result' = None /\ stage' = "idle" /\ UNCHANGED tarball
    BY <1>11 DEF End, worldVars
  <2> QED
    BY <2>1 DEF Packed, add_defaults, Present
<1>12. CASE stage = "idle" /\ Maintain /\ UNCHANGED <<tarball, installed, setupVars>>
  BY <1>12, <1>0 DEF setupVars
<1>13. CASE UNCHANGED vars
  BY <1>13, <1>0 DEF vars, setupVars, worldVars
<1> QED
  BY <1>1, <1>3, <1>4, <1>5, <1>6, <1>7, <1>8, <1>9, <1>10, <1>11, <1>12, <1>13
     DEF Next, Setup

(* What is installed from a source distribution that was packed in a clone *)
(* is what the clone would have installed; packing a source distribution   *)
(* again, however often, loses nothing but files only git knows of         *)
(* (packaging.py:486-555, 621-628, LocalManifestMaker, LocalEggInfo and    *)
(* make_distribution).                                                     *)
THEOREM InstallsAreComplete == Spec => []InstallComplete
PROOF
<1>1. SetupInit => ContentInv
  BY DEF SetupInit, ContentInv
<1>2. ContentInv => InstallComplete
  BY DEF ContentInv, InstallComplete
<1> QED
  BY <1>1, <1>2, ContentStep, PTL DEF Spec

(***************************************************************************)
(* Commands                                                                *)
(***************************************************************************)
(* A list of classes that pbr appends to another one.  sdist and egg_info  *)
(* are among the first six of it, and only once.                           *)
PbrClasses(p) ==
    {Class("LocalEggInfo", "egg_info"), Class("LocalSDist", "sdist"),
     Class("LocalInstallScripts", "install_scripts"), Class("LocalDevelop", "develop"),
     Class("LocalRPMVersion", "rpm_version"), Class("LocalDebVersion", "deb_version"),
     Class(p.tests, "test"), Class("LocalInstall", "install"),
     Class("InstallWithGit", "install")}

Once(cs, k, x) ==
    /\ k \in 1..Len(cs) /\ cs[k] = x
    /\ \A j \in 1..Len(cs) : cs[j].command = x.command => j = k

LEMMA PbrCommandsList ==
    ASSUME NEW p
    PROVE  /\ PbrCommands(p) \in Seq(PbrClasses(p))
           /\ Once(PbrCommands(p), 1, Class("LocalEggInfo", "egg_info"))
           /\ Once(PbrCommands(p), 2, Class("LocalSDist", "sdist"))
PROOF
<1> DEFINE S == PbrClasses(p)
           a == <<Class("LocalEggInfo", "egg_info"), Class("LocalSDist", "sdist"),
                  Class("LocalInstallScripts", "install_scripts"),
                  Class("LocalDevelop", "develop"), Class("LocalRPMVersion", "rpm_version"),
                  Class("LocalDebVersion", "deb_version")>>
           b == IF p.tests = "none" THEN <<>> ELSE <<Class(p.tests, "test")>>
           install == IF p.manpages # <<>> \/ ~p.use_egg THEN Class("LocalInstall", "install")
                      ELSE Class("InstallWithGit", "install")
           c == <<install>>
<1>20. install \in S /\ install.command = "install"
  BY DEF Class, PbrClasses
<1>21. /\ Class("LocalEggInfo", "egg_info") \in S
       /\ Class("LocalSDist", "sdist") \in S
       /\ Class("LocalInstallScripts", "install_scripts") \in S
       /\ Class("LocalDevelop", "develop") \in S
       /\ Class("LocalRPMVersion", "rpm_version") \in S
       /\ Class("LocalDebVersion", "deb_version") \in S
  BY DEF PbrClasses
<1>22. Class(p.tests, "test") \in S /\ Class(p.tests, "test").command = "test"
  BY DEF Class, PbrClasses
<1>23. /\ Class("LocalEggInfo", "egg_info").command = "egg_info"
       /\ Class("LocalSDist", "sdist").command = "sdist"
       /\ Class("LocalInstallScripts", "install_scripts").command = "install_scripts"
       /\ Class("LocalDevelop", "develop").command = "develop"
       /\ Class("LocalRPMVersion", "rpm_version").command = "rpm_version"
       /\ Class("LocalDebVersion", "deb_version").command = "deb_version"
  BY DEF Class
<1> HIDE DEF S, install
<1>24. /\ a \in Seq(S) /\ Len(a) = 6
       /\ a[1] = Class("LocalEggInfo", "egg_info") /\ a[2] = Class("LocalSDist", "sdist")
       /\ a[3] = Class("LocalInstallScripts", "install_scripts")
       /\ a[4] = Class("LocalDevelop", "develop")
       /\ a[5] = Class("LocalRPMVersion", "rpm_version")
       /\ a[6] = Class("LocalDebVersion", "deb_version")
  BY <1>21
<1>3. /\ a \in Seq(S) /\ Len(a) = 6
      /\ a[1] = Class("LocalEggInfo", "egg_info") /\ a[2] = Class("LocalSDist", "sdist")
      /\ a[3].command = "install_scripts" /\ a[4].command = "develop"
      /\ a[5].command = "rpm_version" /\ a[6].command = "deb_version"
  BY <1>23, <1>24
<1>4. /\ b \in Seq(S) /\ Len(b) \in 0..1
      /\ \A i \in 1..Len(b) : b[i].command = "test"
  <2>1. CASE p.tests = "none"
    BY <2>1
  <2>2. CASE p.tests # "none"
    BY <2>2, <1>22
  <2> QED
    BY <2>1, <2>2
<1>5. c \in Seq(S) /\ Len(c) = 1 /\ c[1].command = "install"
  BY <1>20
<1>6. PbrCommands(p) = (a \o b) \o c
  BY DEF PbrCommands, install
<1>7. a[1].command = "egg_info" /\ a[2].command = "sdist"
  BY <1>23, <1>3
<1> HIDE DEF a, b, c
<1> DEFINE ab == a \o b
<1>8. /\ ab \in Seq(S)
      /\ Len(ab) = Len(a) + Len(b)
      /\ \A i \in 1..Len(a) + Len(b) : ab[i] = IF i <= Len(a) THEN a[i] ELSE b[i - Len(a)]
  <2>1. a \in Seq(S) /\ b \in Seq(S)
    BY <1>3, <1>4
  <2> QED
    BY <2>1, ConcatProperties
<1> HIDE DEF ab
<1> DEFINE abc == ab \o c
<1>9. /\ abc \in Seq(S)
      /\ Len(abc) = Len(ab) + Len(c)
      /\ \A i \in 1..Len(ab) + Len(c) :
           abc[i] = IF i <= Len(ab) THEN ab[i] ELSE c[i - Len(ab)]
  <2>1. ab \in Seq(S) /\ c \in Seq(S)
    BY <1>5, <1>8
  <2> QED
    BY <2>1, ConcatProperties
<1> HIDE DEF abc
<1>14. /\ Len(a) = 6 /\ Len(b) \in 0..1 /\ Len(c) = 1
       /\ Len(ab) = 6 + Len(b) /\ Len(abc) = Len(ab) + 1
       /\ Len(ab) \in Nat /\ Len(abc) \in Nat /\ Len(ab) \in 6..7
  <2>1. Len(a) = 6 /\ Len(b) \in 0..1 /\ Len(c) = 1
    BY <1>3, <1>4, <1>5
  <2>2. Len(ab) = Len(a) + Len(b) /\ Len(abc) = Len(ab) + Len(c)
    BY <1>8, <1>9
  <2>3. CASE Len(b) = 0
    BY <2>1, <2>2, <2>3
  <2>4. CASE Len(b) = 1
    BY <2>1, <2>2, <2>4
  <2>5. Len(b) = 0 \/ Len(b) = 1
    BY <2>1
  <2> QED
    BY <2>3, <2>4, <2>5
<1>10. /\ \A i \in 1..6 : abc[i] = a[i]
       /\ \A i \in 7..Len(ab) : abc[i] = b[i - 6]
       /\ abc[Len(ab) + 1] = c[1]
  <2>1. \A i \in 1..Len(ab) : abc[i] = ab[i]
    BY <1>9, <1>14
  <2>2. \A i \in 1..6 : ab[i] = a[i]
    BY <1>8, <1>14
  <2>3. \A i \in 7..Len(ab) : ab[i] = b[i - 6]
    BY <1>8, <1>14
  <2>4. abc[Len(ab) + 1] = c[1]
    BY <1>9, <1>14
  <2> QED
    BY <1>14, <2>1, <2>2, <2>3, <2>4
<1>11. \A i \in 3..Len(abc) : abc[i].command \notin {"egg_info", "sdist"}
  <2> SUFFICES ASSUME NEW i \in 3..Len(abc)
               PROVE  abc[i].command \notin {"egg_info", "sdist"}
    OBVIOUS
  <2>1. CASE i \in 3..6
    BY <2>1, <1>3, <1>10
  <2>2. CASE i \in 7..Len(ab)
    <3>1. i - 6 \in 1..Len(b)
      BY <2>2, <1>14
    <3> QED
      BY <2>2, <3>1, <1>4, <1>10
  <2>3. CASE i = Len(ab) + 1
    BY <2>3, <1>5, <1>10
  <2> QED
    BY <1>14, <2>1, <2>2, <2>3
<1>12. /\ abc[1] = Class("LocalEggInfo", "egg_info") /\ abc[1].command = "egg_info"
       /\ abc[2] = Class("LocalSDist", "sdist") /\ abc[2].command = "sdist"
  BY <1>3, <1>7, <1>10
<1>13. PbrCommands(p) = abc
  BY <1>6 DEF abc, ab
<1>15. /\ Once(abc, 1, Class("LocalEggInfo", "egg_info"))
       /\ Once(abc, 2, Class("LocalSDist", "sdist"))
  <2>1. \A j \in 1..Len(abc) : abc[j].command = "egg_info" => j = 1
    BY <1>11, <1>12, <1>14
  <2>2. \A j \in 1..Len(abc) : abc[j].command = "sdist" => j = 2
    BY <1>11, <1>12, <1>14
  <2>3. 1 \in 1..Len(abc) /\ 2 \in 1..Len(abc)
    BY <1>14
  <2> QED
    BY <1>12, <1>23, <2>1, <2>2, <2>3 DEF Once
<1> QED
  BY <1>9, <1>13, <1>15 DEF S

(* Whatever the project's own list has, what occurs once in the list of    *)
(* pbr is what the command runs.                                           *)
LEMMA LastWins ==
    ASSUME NEW S, NEW own \in Seq(S), NEW cs \in Seq(S), NEW k, NEW x \in S,
           Once(cs, k, x)
    PROVE  /\ x.command \in DOMAIN cmdclass_of(own \o cs)
           /\ cmdclass_of(own \o cs)[x.command] = x.class
PROOF
<1> DEFINE all == own \o cs
           Is == {i \in 1..Len(all) : all[i].command = x.command}
           m == Len(own) + k
<1>1. /\ all \in Seq(S)
      /\ Len(all) = Len(own) + Len(cs)
      /\ \A i \in 1..Len(own) + Len(cs) :
           all[i] = IF i <= Len(own) THEN own[i] ELSE cs[i - Len(own)]
  BY ConcatProperties
<1>2. Len(own) \in Nat /\ Len(cs) \in Nat /\ k \in 1..Len(cs) /\ cs[k] = x
  BY DEF Once
<1> HIDE DEF all
<1>3. m \in 1..Len(all) /\ all[m] = x
  <2>1. /\ m \in 1..Len(own) + Len(cs) /\ ~(m <= Len(own)) /\ m - Len(own) = k
    BY <1>2
  <2>2. all[m] = cs[m - Len(own)]
    BY <1>1, <2>1
  <2> QED
    BY <1>1, <1>2, <2>1, <2>2
<1>4. \A j \in 1..Len(all) : all[j].command = x.command => j <= m
  <2> SUFFICES ASSUME NEW j \in 1..Len(all), all[j].command = x.command, j > m
               PROVE  FALSE
    BY <1>1, <1>2
  <2>1. j - Len(own) \in 1..Len(cs) /\ all[j] = cs[j - Len(own)]
    BY <1>1, <1>2
  <2>2. j - Len(own) = k
    BY <2>1 DEF Once
  <2> QED
    BY <2>2, <1>1, <1>2
<1>5. Newest(Is) = m
  <2>1. Is \in SUBSET Int /\ m \in Is /\ \A j \in Is : j <= m
    BY <1>1, <1>3, <1>4
  <2> HIDE DEF Is, m
  <2> QED
    BY <2>1, NewestIs
<1>6. x.command \in {all[i].command : i \in 1..Len(all)}
  BY <1>3
<1>7. cmdclass_of(all) = [c \in {all[i].command : i \in 1..Len(all)} |->
                            all[Newest({i \in 1..Len(all) : all[i].command = c})].class]
  BY DEF cmdclass_of
<1>8. /\ x.command \in DOMAIN cmdclass_of(all)
      /\ cmdclass_of(all)[x.command] = all[Newest(Is)].class
  BY <1>6, <1>7
<1> QED
  BY <1>3, <1>5, <1>8 DEF all

CommandInv ==
    /\ stage # "idle" => run.project \in DOMAIN Project
    /\ stage = "hooks" => config.commands = Cfg.commands
    /\ stage = "kwargs" => config.commands = add_commands(Cfg.commands, Cfg)
    /\ stage \in {"idle", "config", "hooks", "kwargs"} => kwargs = None
    /\ stage = "extras" => /\ "cmdclass" \in DOMAIN kwargs
                           /\ kwargs.cmdclass = cmdclass_of(add_commands(Cfg.commands, Cfg))
    /\ kwargs # None => kwargs.cmdclass = cmdclass_of(add_commands(Cfg.commands, Cfg))
    /\ kwargs # None => stage # "idle"

LEMMA CommandStep == CommandInv /\ [Next]_vars => CommandInv'
PROOF
<1> SUFFICES ASSUME CommandInv, [Next]_vars PROVE CommandInv'
  OBVIOUS
<1> USE DEF CommandInv
<1>0. CASE UNCHANGED <<stage, run, config, kwargs>>
  BY <1>0 DEF Cfg
<1>1. CASE \E p \in DOMAIN Project, c \in Command, t \in Tree, e \in EnvVersions :
             Start(p, c, t, e)
  <2> PICK p \in DOMAIN Project, c \in Command, t \in Tree, e \in EnvVersions :
             Start(p, c, t, e)
    BY <1>1
  <2>1. /\ stage = "idle" /\ stage' = "config"
        /\ run'.project = p /\ UNCHANGED kwargs
    BY DEF Start
  <2> QED
    BY <2>1
<1>2. CASE ReadConfig
  <2>1. /\ stage = "config" /\ stage' = "hooks" /\ UNCHANGED <<run, kwargs>>
        /\ config'.commands = Cfg.commands
    BY <1>2 DEF ReadConfig, NoConfig
  <2> QED
    BY <2>1 DEF Cfg
(* The steps out of the try that leave the arguments as they are.          *)
<1>3. CASE /\ stage # "idle" /\ stage' \in {"failed", "exited", "done"}
           /\ UNCHANGED <<run, kwargs>>
  BY <1>3 DEF Cfg
<1>4. CASE NoConfigFile
  BY <1>3, <1>4 DEF NoConfigFile
<1>5. CASE HookReturns
  BY <1>0, <1>5 DEF HookReturns, Hooking
<1>6. CASE HookMissing \/ HookRaises
  BY <1>3, <1>6 DEF HookMissing, HookRaises, Hooking, Leave
<1>7. CASE PbrHooks
  <2>1. stage = "hooks" /\ UNCHANGED <<run, kwargs>>
    BY <1>7 DEF PbrHooks
  <2>2. \/ stage' = "failed"
        \/ stage' = "kwargs" /\ config'.commands = add_commands(config.commands, Cfg)
    BY <1>7 DEF PbrHooks, Leave
  <2>3. CASE stage' = "failed"
    BY <1>3, <2>1, <2>3
  <2>4. CASE stage' = "kwargs" /\ config'.commands = add_commands(config.commands, Cfg)
    BY <2>1, <2>4 DEF Cfg
  <2> QED
    BY <2>2, <2>3, <2>4
<1>8. CASE Convert
  <2>1. stage = "kwargs" /\ UNCHANGED <<run, config>>
    BY <1>8 DEF Convert
  <2>2. \/ stage' = "failed" /\ UNCHANGED kwargs
        \/ /\ stage' = "extras" /\ "cmdclass" \in DOMAIN kwargs'
           /\ kwargs'.cmdclass = cmdclass_of(config.commands)
    BY <1>8 DEF Convert, Leave
  <2>3. CASE stage' = "failed" /\ UNCHANGED kwargs
    BY <1>3, <2>1, <2>3
  <2>4. CASE /\ stage' = "extras" /\ "cmdclass" \in DOMAIN kwargs'
             /\ kwargs'.cmdclass = cmdclass_of(config.commands)
    BY <2>1, <2>4 DEF Cfg
  <2> QED
    BY <2>2, <2>3, <2>4
<1>9. CASE Extras
  <2>1. stage = "extras" /\ UNCHANGED <<run, config>>
    BY <1>9 DEF Extras
  <2>2. \/ stage' = "failed" /\ UNCHANGED kwargs
        \/ /\ stage' = "command"
           /\ kwargs' = [kwargs EXCEPT !.ext_modules = get_extension_modules(Cfg)]
    BY <1>9 DEF Extras, Leave
  <2>3. CASE stage' = "failed" /\ UNCHANGED kwargs
    BY <1>3, <2>1, <2>3
  <2>4. CASE /\ stage' = "command"
             /\ kwargs' = [kwargs EXCEPT !.ext_modules = get_extension_modules(Cfg)]
    <3>1. kwargs'.cmdclass = kwargs.cmdclass
      BY <2>1, <2>4
    <3> QED
      BY <2>1, <2>4, <3>1 DEF Cfg
  <2> QED
    BY <2>2, <2>3, <2>4
<1>10. CASE Sdist \/ Install \/ PrintVersion
  <2>1. /\ stage = "command" /\ stage' \in {"done", "failed"}
        /\ UNCHANGED <<run, kwargs>>
    BY <1>10 DEF Sdist, Install, PrintVersion
  <2> QED
    BY <1>3, <2>1
<1>11. CASE End
  BY <1>11 DEF End
<1>12. CASE stage = "idle" /\ Maintain /\ UNCHANGED <<tarball, installed, setupVars>>
  BY <1>12, <1>0 DEF setupVars
<1>13. CASE UNCHANGED vars
  BY <1>13, <1>0 DEF vars, setupVars
<1> QED
  BY <1>1, <1>2, <1>4, <1>5, <1>6, <1>7, <1>8, <1>9, <1>10, <1>11, <1>12, <1>13
     DEF Next, Setup

(* Whatever commands a project names in setup.cfg, it gets a class for     *)
(* each of them, but sdist and egg_info are pbr's (util.py:409-416,        *)
(* hooks/commands.py:40-66).                                               *)
THEOREM PbrCommandsStay == Spec => []PbrCommandsWin
PROOF
<1>1. SetupInit => CommandInv
  BY DEF SetupInit, CommandInv
<1>2. CommandInv => PbrCommandsWin
  <2> SUFFICES ASSUME CommandInv, kwargs # None PROVE PbrCommandsWin
    BY DEF PbrCommandsWin
  <2> DEFINE own == Cfg.commands
             cs == PbrCommands(Cfg)
             R == [class : STRING, command : STRING]
             S == R \cup PbrClasses(Cfg)
  <2>1. own \in Seq([class : STRING, command : STRING])
    BY ProjectAssumption DEF CommandInv, Cfg
  <2>2. own \in Seq(S)
    <3>1. R \subseteq S
      OBVIOUS
    <3> HIDE DEF R, S, own
    <3>2. own \in Seq(R)
      BY <2>1 DEF R
    <3> QED
      BY <3>1, <3>2
  <2>3. /\ cs \in Seq(S)
        /\ Once(cs, 1, Class("LocalEggInfo", "egg_info"))
        /\ Once(cs, 2, Class("LocalSDist", "sdist"))
    <3>1. /\ cs \in Seq(PbrClasses(Cfg))
          /\ Once(cs, 1, Class("LocalEggInfo", "egg_info"))
          /\ Once(cs, 2, Class("LocalSDist", "sdist"))
      BY PbrCommandsList
    <3>2. PbrClasses(Cfg) \subseteq S
      OBVIOUS
    <3> HIDE DEF S, cs
    <3> QED
      BY <3>1, <3>2
  <2>4. kwargs.cmdclass = cmdclass_of(own \o cs)
    BY DEF CommandInv, add_commands
  <2> DEFINE egg_info == Class("LocalEggInfo", "egg_info")
             sdist == Class("LocalSDist", "sdist")
  <2>5. /\ egg_info \in S /\ egg_info.class = "LocalEggInfo"
        /\ egg_info.command = "egg_info"
        /\ sdist \in S /\ sdist.class = "LocalSDist" /\ sdist.command = "sdist"
    BY DEF Class, PbrClasses
  <2> HIDE DEF own, cs, S, R, egg_info, sdist
  <2>9. Once(cs, 1, egg_info) /\ Once(cs, 2, sdist)
    BY <2>3 DEF egg_info, sdist
  <2>6. kwargs.cmdclass["egg_info"] = "LocalEggInfo"
    <3>1. cmdclass_of(own \o cs)[egg_info.command] = egg_info.class
      BY <2>2, <2>3, <2>5, <2>9, LastWins
    <3> QED
      BY <2>4, <2>5, <3>1
  <2>7. kwargs.cmdclass["sdist"] = "LocalSDist"
    <3>1. cmdclass_of(own \o cs)[sdist.command] = sdist.class
      BY <2>2, <2>3, <2>5, <2>9, LastWins
    <3> QED
      BY <2>4, <2>5, <3>1
  <2>8. \A i \in 1..Len(own) : own[i].command \in DOMAIN kwargs.cmdclass
    <3> DEFINE all == own \o cs
    <3>1. /\ Len(all) = Len(own) + Len(cs)
          /\ \A i \in 1..Len(own) + Len(cs) :
               all[i] = IF i <= Len(own) THEN own[i] ELSE cs[i - Len(own)]
      BY <2>2, <2>3, ConcatProperties
    <3>2. Len(own) \in Nat /\ Len(cs) \in Nat
      BY <2>2, <2>3
    <3>3. \A i \in 1..Len(own) : i \in 1..Len(all) /\ all[i] = own[i]
      BY <3>1, <3>2
    <3>4. DOMAIN cmdclass_of(all) = {all[i].command : i \in 1..Len(all)}
      BY DEF cmdclass_of
    <3> HIDE DEF all
    <3>5. \A i \in 1..Len(own) : own[i].command \in {all[j].command : j \in 1..Len(all)}
      BY <3>3
    <3> QED
      BY <2>4, <3>4, <3>5 DEF all
  <2> QED
    BY <2>6, <2>7, <2>8 DEF PbrCommandsWin, own
<1> QED
  BY <1>1, <1>2, CommandStep, PTL DEF Spec

(***************************************************************************)
(* The version of a source distribution                                    *)
(***************************************************************************)
(* setup.py changes neither the commits nor the tags.                      *)
LEMMA SetupKeepsHistory == [Next]_vars => [Maintain]_historyVars
PROOF
<1> SUFFICES ASSUME [Next]_vars PROVE [Maintain]_historyVars
  OBVIOUS
<1>1. CASE \E p \in DOMAIN Project, c \in Command, t \in Tree, e \in EnvVersions :
             Start(p, c, t, e)
  BY <1>1 DEF Start, worldVars
<1>2. CASE Setup
  BY <1>2 DEF Setup, ReadConfig, NoConfigFile, HookReturns, HookMissing, HookRaises,
     Hooking, PbrHooks, Convert, Extras, Sdist, Install, PrintVersion, End, worldVars
<1>3. CASE UNCHANGED vars
  BY <1>3 DEF vars, worldVars
<1> QED
  BY <1>1, <1>2, <1>3 DEF Next

(* So HistoryInv, and all that follows from it, holds here as well.        *)
LEMMA HistoryInSetup == Spec => []HistoryInv
PROOF
<1>1. SetupInit => HistoryInv
  BY InitHistory DEF SetupInit
<1>2. HistoryInv /\ [Next]_vars => HistoryInv'
  BY SetupKeepsHistory, HistoryStep
<1> QED
  BY <1>1, <1>2, PTL DEF Spec

(* The version a run of setup.py at commit n is about.                     *)
Meant(n) ==
    IF run.env # NoVersion THEN run.env
    ELSE IF run.tree = "git" THEN VersionAt(n) ELSE tarball.built

(* The version of the source distribution is that of the commit it was     *)
(* made at, unless that has been tagged since.                             *)
BuiltAt(n) ==
    tarball.clone /\ tarball.built \notin EnvVersions =>
      tarball.built = VersionAt(n) \/ TagsOf(n) # {}

TarballInv ==
    tarball # None =>
      /\ tarball.built \in Canonical
      /\ tarball.version = release_string(tarball.built)
      /\ tarball.commit \in 0..HEAD
      /\ \A n \in 0..HEAD : n = tarball.commit => BuiltAt(n)

RunInv ==
    /\ stage # "idle" => run.env \in EnvVersions
    /\ stage \notin {"idle", "done", "failed", "exited"} /\ run.tree # "git" =>
         tarball # None
    /\ stage \notin {"done", "failed"} => result = None /\ printed = None
    /\ \A n \in 0..HEAD : n = HEAD =>
         /\ stage = "kwargs" =>
              Meant(n) \in Canonical /\ config.version = release_string(Meant(n))
         /\ stage \in {"extras", "command"} =>
              /\ Meant(n) \in Canonical
              /\ "version" \in DOMAIN kwargs
              /\ kwargs.version = release_string(Meant(n))

OutcomeInv ==
    /\ printed # None /\ run.tree # "git" =>
         printed = IF run.command = "rpm_version" THEN rpm_string(tarball.built)
                   ELSE debian_string(tarball.built)
    /\ result # None /\ run.tree # "git" /\ run.env = NoVersion =>
         /\ from_pip_string(result.version) = tarball.built
         /\ \A n \in 0..HEAD : n = tarball.commit => BuiltAt(n)
         /\ tarball.commit \in 0..HEAD

VersionInv == TarballInv /\ RunInv /\ OutcomeInv

(* Steps of setup.py do not change what is meant.                          *)
LEMMA SameBuilds ==
    ASSUME HistoryBase, UNCHANGED historyVars
    PROVE  /\ HEAD' = HEAD /\ HEAD \in Nat
           /\ \A n \in 0..HEAD : VersionAt(n)' = VersionAt(n) /\ TagsOf(n)' = TagsOf(n)
           /\ tarball' = tarball => \A n \in 0..HEAD : BuiltAt(n)' = BuiltAt(n)
           /\ tarball' = tarball /\ run' = run =>
                \A n \in 0..HEAD : Meant(n)' = Meant(n)
PROOF
<1>1. commits' = commits /\ tags' = tags
  BY DEF historyVars
<1>2. HEAD' = HEAD /\ HEAD \in Nat
  BY <1>1, TagTypes DEF HistoryBase, HEAD
<1>3. ASSUME NEW n \in 0..HEAD
      PROVE  VersionAt(n)' = VersionAt(n) /\ TagsOf(n)' = TagsOf(n)
  <2>1. TagsOf(n)' = TagsOf(n) /\ \A i \in 1..n : commits'[i] = commits[i] /\ TagsOf(i)' = TagsOf(i)
    BY <1>1 DEF TagsOf
  <2> QED
    BY <1>1, <2>1, PastIsPast
<1>4. ASSUME tarball' = tarball, NEW n \in 0..HEAD PROVE BuiltAt(n)' = BuiltAt(n)
  BY <1>3, <1>4 DEF BuiltAt
<1>5. ASSUME tarball' = tarball, run' = run, NEW n \in 0..HEAD
      PROVE  Meant(n)' = Meant(n)
  BY <1>3, <1>5 DEF Meant
<1> QED
  BY <1>2, <1>3, <1>4, <1>5

(* What PbrHooks puts into the configuration is the version meant.         *)
LEMMA VersionConfigured ==
    ASSUME HistoryBase, RunInv, TarballInv, stage = "hooks", NEW n \in 0..HEAD, n = HEAD,
           ~VersionMissing(get_version(run.tree, run.env, PreVersion(HEAD)))
    PROVE  /\ Meant(n) \in Canonical
           /\ get_version(run.tree, run.env, PreVersion(HEAD)) = release_string(Meant(n))
PROOF
<1> DEFINE version == get_version(run.tree, run.env, PreVersion(HEAD))
<1>1. Error \notin Canonical
  BY ErrorIsNoVersion DEF Canonical
<1>2. CASE run.env # NoVersion
  <2>1. run.env \in Canonical
    BY <1>2, EnvAssumption DEF RunInv
  <2> QED
    BY <1>1, <1>2, <2>1 DEF Meant, get_version, VersionString
<1>3. CASE run.env = NoVersion /\ run.tree = "git"
  <2>1. version = VersionString(VersionAt(n)) /\ Meant(n) = VersionAt(n)
    BY <1>3 DEF get_version, VersionAt, Meant
  <2>2. version # <<>>
    BY DEF VersionMissing
  <2>3. VersionAt(n) # Error /\ version = release_string(VersionAt(n))
    BY <2>1, <2>2 DEF VersionString
  <2>4. VersionAt(n) \in Canonical
    BY <2>3, VersionType
  <2> QED
    BY <2>1, <2>3, <2>4
<1>4. CASE run.env = NoVersion /\ run.tree # "git"
  <2>1. version = tarball.version /\ Meant(n) = tarball.built
    BY <1>4 DEF get_version, Meant
  <2>2. tarball # None
    BY <1>4 DEF RunInv
  <2> QED
    BY <2>1, <2>2 DEF TarballInv
<1> QED
  BY <1>2, <1>3, <1>4

(* What was built stays so, or is tagged, whatever is committed and tagged *)
(* later.                                                                  *)
LEMMA BuildsLast ==
    ASSUME HistoryBase, TarballInv, tarball' = tarball, Maintain
    PROVE  TarballInv'
PROOF
<1>0. HEAD \in Nat /\ Len(tags) \in Nat
  BY TagTypes DEF HistoryBase
<1>1. /\ HEAD' \in Nat /\ HEAD <= HEAD'
      /\ \A i \in 1..HEAD : commits'[i] = commits[i]
      /\ \A k \in 1..Len(tags) : tags'[k] = tags[k]
      /\ \/ HEAD' = HEAD + 1 /\ tags' = tags
         \/ /\ HEAD' = HEAD /\ Len(tags') = Len(tags) + 1
            /\ tags'[Len(tags) + 1].at = HEAD
  <2>1. CASE \E c \in Commit : MakeCommit(c)
    BY <1>0, <2>1, NumberTypes DEF MakeCommit, HEAD, HistoryBase, HistoryTyped
  <2>2. CASE \E v \in TagVersions, a \in BOOLEAN : MakeTag(v, a)
    <3> PICK v \in TagVersions, a \in BOOLEAN : MakeTag(v, a)
      BY <2>2
    <3> DEFINE t == [at |-> HEAD, version |-> v, annotated |-> a]
    <3>1. tags' = Append(tags, t) /\ commits' = commits /\ t.at = HEAD
      BY DEF MakeTag
    <3> HIDE DEF t
    <3> QED
      BY <1>0, <3>1 DEF HEAD, HistoryBase, HistoryTyped
  <2> QED
    BY <2>1, <2>2 DEF Maintain
<1>2. ASSUME NEW n \in 0..HEAD
      PROVE  VersionAt(n)' = VersionAt(n) \/ TagsOf(n)' # {}
  <2>1. CASE HEAD' = HEAD + 1 /\ tags' = tags
    <3>1. \A i \in 1..n : commits'[i] = commits[i] /\ TagsOf(i)' = TagsOf(i)
      BY <1>0, <1>1, <2>1 DEF TagsOf
    <3> QED
      BY <1>1, <3>1, PastIsPast
  <2>2. CASE Len(tags') = Len(tags) + 1 /\ tags'[Len(tags) + 1].at = HEAD /\ n = HEAD
    BY <1>0, <2>2 DEF TagsOf
  <2>3. CASE Len(tags') = Len(tags) + 1 /\ tags'[Len(tags) + 1].at = HEAD /\ n < HEAD
    <3>1. ASSUME NEW i \in 1..n PROVE TagsOf(i)' = TagsOf(i)
      <4>1. \A k \in 1..Len(tags) + 1 : k \in 1..Len(tags) \/ k = Len(tags) + 1
        BY <1>0
      <4> QED
        BY <1>0, <1>1, <2>3, <4>1 DEF TagsOf
    <3>2. \A i \in 1..n : commits'[i] = commits[i]
      BY <1>0, <1>1
    <3> QED
      BY <1>1, <3>1, <3>2, PastIsPast
  <2> QED
    BY <1>0, <1>1, <2>1, <2>2, <2>3
<1>3. ASSUME NEW n \in 0..HEAD, TagsOf(n) # {}
      PROVE  TagsOf(n)' # {}
  BY <1>0, <1>1, <1>3 DEF TagsOf
<1>4. ASSUME NEW n \in 0..HEAD, BuiltAt(n)
      PROVE  BuiltAt(n)'
  BY <1>2, <1>3, <1>4 DEF BuiltAt
<1>5. ASSUME tarball # None
      PROVE  /\ tarball'.commit \in 0..HEAD'
             /\ \A n \in 0..HEAD' : n = tarball'.commit => BuiltAt(n)'
  <2>1. tarball.commit \in 0..HEAD
    BY <1>5 DEF TarballInv
  <2>2. \A n \in 0..HEAD' : n = tarball.commit => n \in 0..HEAD /\ BuiltAt(n)
    BY <1>5, <2>1 DEF TarballInv
  <2> QED
    BY <1>0, <1>1, <1>4, <2>1, <2>2
<1> QED
  BY <1>5 DEF TarballInv

LEMMA VersionStep == HistoryInv /\ VersionInv /\ [Next]_vars => VersionInv'
PROOF
<1> SUFFICES ASSUME HistoryInv, VersionInv, [Next]_vars PROVE VersionInv'
  OBVIOUS
<1>h. HistoryBase /\ HEAD \in Nat
  BY TagTypes DEF HistoryInv, HistoryBase
<1> USE DEF VersionInv
(* The steps before anything is made.                                      *)
<1>t. ASSUME UNCHANGED historyVars, tarball' = tarball PROVE TarballInv'
  BY <1>h, <1>t, SameBuilds DEF TarballInv
<1>n. ASSUME result' = None, printed' = None PROVE OutcomeInv'
  BY <1>n DEF OutcomeInv
<1>0. CASE UNCHANGED <<historyVars, tarball, stage, run, config, kwargs, result, printed>>
  <2>1. RunInv'
    BY <1>h, <1>0, SameBuilds DEF RunInv
  <2>2. OutcomeInv'
    BY <1>h, <1>0, SameBuilds DEF OutcomeInv
  <2> QED
    BY <1>0, <1>t, <2>1, <2>2
<1>1. CASE \E p \in DOMAIN Project, c \in Command, t \in Tree, e \in EnvVersions :
             Start(p, c, t, e)
  <2> PICK p \in DOMAIN Project, c \in Command, t \in Tree, e \in EnvVersions :
             Start(p, c, t, e)
    BY <1>1
  <2>1. /\ UNCHANGED <<historyVars, tarball, result, printed>>
        /\ stage = "idle" /\ stage' = "config" /\ run'.env = e /\ run'.tree = t
        /\ t # "git" => tarball # None
    BY DEF Start, worldVars
  <2>2. result = None /\ printed = None
    BY <2>1 DEF RunInv
  <2> QED
    BY <1>t, <1>n, <2>1, <2>2 DEF RunInv
<1>2. CASE ReadConfig \/ HookReturns
  <2>1. /\ UNCHANGED <<historyVars, tarball, run, result, printed>>
        /\ stage \in {"config", "hooks"} /\ stage' = "hooks"
    BY <1>2 DEF ReadConfig, HookReturns, Hooking, worldVars
  <2>2. result = None /\ printed = None
    BY <2>1 DEF RunInv
  <2>3. RunInv'
    BY <2>1, <2>2 DEF RunInv
  <2> QED
    BY <1>t, <1>n, <2>1, <2>2, <2>3
(* The steps out of the try.                                               *)
<1>3. CASE /\ stage \notin {"idle", "done", "failed"} /\ stage' \in {"failed", "exited"}
           /\ UNCHANGED <<historyVars, tarball, run, result, printed>>
  <2>1. result = None /\ printed = None
    BY <1>3 DEF RunInv
  <2>2. RunInv'
    BY <1>3, <2>1 DEF RunInv
  <2> QED
    BY <1>3, <1>t, <1>n, <2>1, <2>2
<1>4. CASE NoConfigFile \/ HookMissing \/ HookRaises
  BY <1>3, <1>4 DEF NoConfigFile, HookMissing, HookRaises, Hooking, Leave, worldVars
<1>5. CASE PbrHooks
  <2> DEFINE version == get_version(run.tree, run.env, PreVersion(HEAD))
  <2>1. /\ UNCHANGED <<historyVars, tarball, run, result, printed>> /\ stage = "hooks"
        /\ \/ stage' = "failed"
           \/ stage' = "kwargs" /\ ~VersionMissing(version) /\ config'.version = version
    BY <1>5 DEF PbrHooks, Leave, worldVars
  <2>2. CASE stage' = "failed"
    BY <1>3, <2>1, <2>2
  <2>3. CASE stage' = "kwargs" /\ ~VersionMissing(version) /\ config'.version = version
    <3>1. PICK n \in 0..HEAD : n = HEAD
      BY <1>h
    <3>2. Meant(n) \in Canonical /\ version = release_string(Meant(n))
      BY <1>h, <2>1, <2>3, <3>1, VersionConfigured
    <3>3. Meant(n)' = Meant(n) /\ HEAD' = n
      BY <1>h, <2>1, <3>1, SameBuilds
    <3>4. result = None /\ printed = None
      BY <2>1 DEF RunInv
    <3> HIDE DEF version
    <3>5. RunInv'
      BY <2>1, <2>3, <3>2, <3>3, <3>4 DEF RunInv
    <3> QED
      BY <1>t, <1>n, <2>1, <3>4, <3>5
  <2> QED
    BY <2>1, <2>2, <2>3
<1>6. CASE Convert
  <2>1. /\ UNCHANGED <<historyVars, tarball, run, result, printed, config>>
        /\ stage = "kwargs"
        /\ \/ stage' = "failed"
           \/ /\ stage' = "extras" /\ "version" \in DOMAIN kwargs'
              /\ kwargs'.version = config.version
    BY <1>6 DEF Convert, Leave, worldVars
  <2>2. CASE stage' = "failed"
    BY <1>3, <2>1, <2>2
  <2>3. CASE /\ stage' = "extras" /\ "version" \in DOMAIN kwargs'
             /\ kwargs'.version = config.version
    <3>1. result = None /\ printed = None
      BY <2>1 DEF RunInv
    <3>2. RunInv'
      BY <1>h, <2>1, <2>3, <3>1, SameBuilds DEF RunInv
    <3> QED
      BY <1>t, <1>n, <2>1, <3>1, <3>2
  <2> QED
    BY <2>1, <2>2, <2>3
<1>7. CASE Extras
  <2>1. /\ UNCHANGED <<historyVars, tarball, run, result, printed, config>>
        /\ stage = "extras"
        /\ \/ stage' = "failed"
           \/ /\ stage' = "command"
              /\ kwargs' = [kwargs EXCEPT !.ext_modules = get_extension_modules(Cfg)]
    BY <1>7 DEF Extras, Leave, worldVars
  <2>2. CASE stage' = "failed"
    BY <1>3, <2>1, <2>2
  <2>3. CASE /\ stage' = "command"
             /\ kwargs' = [kwargs EXCEPT !.ext_modules = get_extension_modules(Cfg)]
    <3>1. result = None /\ printed = None
      BY <2>1 DEF RunInv
    <3>2. "version" \in DOMAIN kwargs
      BY <1>h, <2>1 DEF RunInv
    <3>3. "version" \in DOMAIN kwargs' /\ kwargs'.version = kwargs.version
      BY <2>3, <3>2
    <3>4. RunInv'
      BY <1>h, <2>1, <2>3, <3>1, <3>3, SameBuilds DEF RunInv
    <3> QED
      BY <1>t, <1>n, <2>1, <3>1, <3>4
  <2> QED
    BY <2>1, <2>2, <2>3
<1>8. CASE Sdist
  <2>1. PICK n \in 0..HEAD : n = HEAD
    BY <1>h
  <2>2. /\ UNCHANGED <<historyVars, run, result, printed>>
        /\ stage = "command" /\ stage' = "done"
        /\ tarball'.version = kwargs.version
        /\ tarball'.built = Meant(n)
        /\ tarball'.commit = (IF run.tree = "git" THEN n ELSE tarball.commit)
        /\ tarball'.clone = (run.tree = "git")
    BY <1>8, <2>1 DEF Sdist, Meant
  <2>3. /\ Meant(n) \in Canonical /\ kwargs.version = release_string(Meant(n))
        /\ result = None /\ printed = None
        /\ run.tree # "git" => tarball.commit \in 0..HEAD
        /\ run.env \in EnvVersions
    BY <2>1, <2>2 DEF RunInv, TarballInv
  <2>4. VersionAt(n)' = VersionAt(n) /\ HEAD' = HEAD
    BY <1>h, <2>2, SameBuilds
  <2>5. ASSUME NEW m \in 0..HEAD, m = tarball'.commit PROVE BuiltAt(m)'
    <3>1. CASE run.tree = "git" /\ run.env = NoVersion
      BY <2>2, <2>4, <2>5, <3>1 DEF BuiltAt, Meant
    <3>2. CASE run.env # NoVersion
      BY <2>2, <2>3, <3>2 DEF BuiltAt, Meant
    <3>3. CASE run.tree # "git"
      BY <2>2, <3>3 DEF BuiltAt
    <3> QED
      BY <3>1, <3>2, <3>3
  <2>6. tarball'.commit \in 0..HEAD
    BY <2>2, <2>3
  <2>7. TarballInv'
    BY <2>2, <2>3, <2>4, <2>5, <2>6 DEF TarballInv
  <2>8. RunInv'
    BY <2>2, <2>3 DEF RunInv
  <2> QED
    BY <1>n, <2>2, <2>3, <2>7, <2>8
<1>9. CASE Install
  <2>1. PICK n \in 0..HEAD : n = HEAD
    BY <1>h
  <2>2. /\ UNCHANGED <<historyVars, tarball, run, printed>>
        /\ stage = "command" /\ stage' \in {"done", "failed"}
        /\ result'.version = kwargs.version
    BY <1>9 DEF Install
  <2>3. /\ Meant(n) \in Canonical /\ kwargs.version = release_string(Meant(n))
        /\ printed = None /\ run.env \in EnvVersions
        /\ run.tree # "git" => tarball # None
    BY <2>1, <2>2 DEF RunInv
  <2>4. RunInv'
    BY <2>2, <2>3 DEF RunInv
  <2>5. ASSUME run.tree # "git", run.env = NoVersion
        PROVE  /\ from_pip_string(result'.version) = tarball'.built
               /\ \A m \in 0..HEAD' : m = tarball'.commit => BuiltAt(m)'
               /\ tarball'.commit \in 0..HEAD'
    <3>1. Meant(n) = tarball.built
      BY <2>5 DEF Meant
    <3>2. from_pip_string(result'.version) = tarball'.built
      BY <2>2, <2>3, <3>1, StringReadsBack
    <3> QED
      BY <1>h, <2>2, <2>3, <2>5, <3>2, SameBuilds DEF TarballInv
  <2>6. OutcomeInv'
    BY <2>2, <2>3, <2>5 DEF OutcomeInv
  <2> QED
    BY <1>t, <2>2, <2>4, <2>6
<1>10. CASE PrintVersion
  <2> DEFINE v == semantic_version(run.tree, run.env)
  <2>1. /\ UNCHANGED <<historyVars, tarball, run, result>>
        /\ stage = "command" /\ stage' \in {"done", "failed"}
        /\ \/ printed' = printed
           \/ printed' = IF run.command = "rpm_version" THEN rpm_string(v)
                         ELSE debian_string(v)
    BY <1>10 DEF PrintVersion, worldVars
  <2>2. /\ result = None /\ printed = None
        /\ run.tree # "git" => tarball # None
        /\ run.env \in EnvVersions
    BY <2>1 DEF RunInv
  <2>3. run.tree # "git" => v = tarball.built
    BY <2>2, StringReadsBack DEF semantic_version, TarballInv
  <2> HIDE DEF v
  <2>4. RunInv'
    BY <2>1, <2>2 DEF RunInv
  <2>5. OutcomeInv'
    BY <2>1, <2>2, <2>3 DEF OutcomeInv
  <2> QED
    BY <1>t, <2>1, <2>4, <2>5
<1>11. CASE End
  <2>1. /\ UNCHANGED <<historyVars, tarball>> /\ stage' = "idle"
        /\ result' = None /\ printed' = None
    BY <1>11 DEF End, worldVars
  <2> QED
    BY <1>t, <1>n, <2>1 DEF RunInv
<1>12. CASE stage = "idle" /\ Maintain /\ UNCHANGED <<tarball, installed, setupVars>>
  <2>1. UNCHANGED <<tarball, stage, run, result, printed>> /\ stage = "idle" /\ Maintain
    BY <1>12 DEF setupVars
  <2>2. result = None /\ printed = None
    BY <2>1 DEF RunInv
  <2>3. RunInv'
    BY <2>1, <2>2 DEF RunInv
  <2>4. TarballInv'
    BY <1>h, <2>1, BuildsLast
  <2> QED
    BY <1>n, <2>1, <2>2, <2>3, <2>4
<1>13. CASE UNCHANGED vars
  BY <1>13, <1>0 DEF vars, setupVars, worldVars
<1> QED
  BY <1>1, <1>2, <1>4, <1>5, <1>6, <1>7, <1>8, <1>9, <1>10, <1>11, <1>12, <1>13
     DEF Next, Setup

(* However often a source distribution is packed again, wherever it is     *)
(* unpacked and whatever is committed and tagged meanwhile, it is          *)
(* installed and named as what was built at its commit                     *)
(* (packaging.py:809-856, get_version; version.py:408-483, VersionInfo).   *)
THEOREM DistributionsStayFaithful == Spec => []DistributionFaithful
PROOF
<1>1. SetupInit => VersionInv
  BY DEF SetupInit, VersionInv, TarballInv, RunInv, OutcomeInv
<1>2. HistoryInv /\ VersionInv /\ [Next]_vars => VersionInv'
  BY VersionStep
<1>3. VersionInv => VersionSurvives
  <2> SUFFICES ASSUME VersionInv PROVE VersionSurvives
    OBVIOUS
  <2>1. ASSUME result # None, run.tree # "git", run.env = NoVersion
        PROVE  /\ from_pip_string(result.version) = tarball.built
               /\ tarball.clone /\ tarball.built \notin EnvVersions =>
                    \/ tarball.built = VersionAt(tarball.commit)
                    \/ TagsOf(tarball.commit) # {}
    BY <2>1 DEF VersionInv, OutcomeInv, BuiltAt
  <2> QED
    BY <2>1 DEF VersionSurvives, VersionInv, OutcomeInv
<1> QED
  BY <1>1, <1>2, <1>3, HistoryInSetup, InstallsAreComplete, PTL
     DEF Spec, DistributionFaithful

(***************************************************************************)
(* Types of a run of setup.py                                              *)
(***************************************************************************)
Stage == {"idle", "config", "hooks", "kwargs", "extras", "command",
          "done", "failed", "exited"}

SetupTyped ==
    /\ stage \in Stage
    /\ stage # "idle" => run.project \in DOMAIN Project /\ hook \in 1..Cfg.hooks + 1
    /\ compilers \subseteq STRING
    /\ tarball # None => tarball.sources \subseteq tarball.files /\ tarball.files \subseteq File
    /\ result # None => result.files \subseteq File
    /\ stage \notin {"idle", "done"} /\ run.tree # "git" => tarball # None

(* What goes into a distribution.                                          *)
LEMMA FilesAre ==
    ASSUME NEW tree, NEW cmd, NEW p,
           tree # "git" => tarball.sources \subseteq tarball.files /\ tarball.files \subseteq File
    PROVE  find_sources(tree, cmd, p) \cup checking_reno(tree, p) \subseteq File
PROOF
<1>1. Present(tree, p) \subseteq File
  BY DEF Present, File
<1>2. add_defaults(tree, p) \subseteq File
  BY <1>1 DEF add_defaults
<1>3. checking_reno(tree, p) \subseteq File
  BY DEF checking_reno, File
<1> QED
  BY <1>2, <1>3 DEF find_sources

LEMMA TypedStep == SetupTyped /\ [Next]_vars => SetupTyped'
PROOF
<1> SUFFICES ASSUME SetupTyped, [Next]_vars PROVE SetupTyped'
  OBVIOUS
<1> USE DEF SetupTyped, Stage
<1>0. CASE UNCHANGED <<tarball, stage, run, hook, compilers, result>>
  BY <1>0 DEF Cfg
<1>1. CASE \E p \in DOMAIN Project, c \in Command, t \in Tree, e \in EnvVersions :
             Start(p, c, t, e)
  <2> PICK p \in DOMAIN Project, c \in Command, t \in Tree, e \in EnvVersions :
             Start(p, c, t, e)
    BY <1>1
  <2>1. /\ stage' = "config" /\ run'.project = p /\ run'.tree = t /\ hook' = 1
        /\ t # "git" => tarball # None
        /\ compilers' = {} /\ UNCHANGED <<tarball, result>>
    BY DEF Start, worldVars
  <2>2. 1 \in 1..Project[p].hooks + 1
    BY ProjectAssumption
  <2> QED
    BY <2>1, <2>2 DEF Cfg
<1>2. CASE /\ stage \notin {"idle", "done"} /\ stage' \in Stage \ {"idle"}
           /\ UNCHANGED <<tarball, run, hook, compilers, result>>
  BY <1>2 DEF Cfg
<1>3. CASE ReadConfig \/ NoConfigFile
  BY <1>2, <1>3 DEF ReadConfig, NoConfigFile, worldVars
<1>4. CASE HookReturns
  <2>1. /\ stage = "hooks" /\ hook <= Cfg.hooks /\ hook' = hook + 1
        /\ UNCHANGED <<tarball, stage, run, compilers, result>>
    BY <1>4 DEF HookReturns, Hooking, worldVars
  <2>2. Cfg.hooks \in Nat
    BY <2>1, ProjectAssumption DEF Cfg
  <2>3. hook' \in 1..Cfg.hooks + 1
    BY <2>1, <2>2
  <2> QED
    BY <2>1, <2>3 DEF Cfg
<1>5. CASE HookMissing \/ HookRaises
  BY <1>2, <1>5 DEF HookMissing, HookRaises, Hooking, Leave, worldVars
<1>6. CASE PbrHooks
  <2>1. /\ stage = "hooks" /\ stage' \in {"failed", "kwargs"}
        /\ UNCHANGED <<tarball, run, hook, compilers, result>>
    BY <1>6 DEF PbrHooks, Leave, worldVars
  <2> QED
    BY <1>2, <2>1
<1>7. CASE Convert
  <2>1. /\ stage = "kwargs" /\ stage' \in {"failed", "extras"}
        /\ UNCHANGED <<tarball, run, hook, compilers, result>>
    BY <1>7 DEF Convert, Leave, worldVars
  <2> QED
    BY <1>2, <2>1
<1>8. CASE Extras
  <2>1. /\ stage = "extras" /\ stage' \in {"failed", "command"}
        /\ UNCHANGED <<tarball, run, hook, result>>
        /\ compilers' \subseteq {Cfg.compilers[i] : i \in 1..Len(Cfg.compilers)}
    BY <1>8 DEF Extras, Leave, worldVars
  <2>2. \A i \in 1..Len(Cfg.compilers) : Cfg.compilers[i] \in STRING
    <3>1. Cfg.compilers \in Seq(STRING)
      BY <2>1, ProjectAssumption DEF Cfg
    <3> QED
      BY <3>1
  <2> QED
    BY <2>1, <2>2 DEF Cfg
<1>9. CASE Sdist
  <2>1. /\ stage = "command" /\ stage' = "done"
        /\ UNCHANGED <<run, hook, compilers, result>>
        /\ tarball'.sources = find_sources(run.tree, "sdist", Cfg)
        /\ tarball'.files = find_sources(run.tree, "sdist", Cfg)
                              \cup checking_reno(run.tree, Cfg)
    BY <1>9 DEF Sdist
  <2>2. run.tree # "git" => tarball.sources \subseteq tarball.files /\ tarball.files \subseteq File
    BY <2>1
  <2>3. tarball'.sources \subseteq tarball'.files /\ tarball'.files \subseteq File
    BY <2>1, <2>2, FilesAre
  <2> QED
    BY <2>1, <2>3 DEF Cfg
<1>10. CASE Install
  <2>1. /\ stage = "command" /\ stage' \in {"done", "failed"}
        /\ UNCHANGED <<tarball, run, hook, compilers>>
        /\ result'.files = find_sources(run.tree, run.command, Cfg)
    BY <1>10 DEF Install
  <2>2. run.tree # "git" => tarball.sources \subseteq tarball.files /\ tarball.files \subseteq File
    BY <2>1
  <2>3. result'.files \subseteq File
    BY <2>1, <2>2, FilesAre
  <2> QED
    BY <2>1, <2>3 DEF Cfg
<1>11. CASE PrintVersion
  <2>1. /\ stage = "command" /\ stage' \in {"done", "failed"}
        /\ UNCHANGED <<tarball, run, hook, compilers, result>>
    BY <1>11 DEF PrintVersion, worldVars
  <2> QED
    BY <1>2, <2>1
<1>12. CASE End
  BY <1>12 DEF End, worldVars
<1>13. CASE stage = "idle" /\ Maintain /\ UNCHANGED <<tarball, installed, setupVars>>
  BY <1>13, <1>0 DEF setupVars
<1>14. CASE UNCHANGED vars
  BY <1>14, <1>0 DEF vars, setupVars, worldVars
<1> QED
  BY <1>1, <1>3, <1>4, <1>5, <1>6, <1>7, <1>8, <1>9, <1>10, <1>11, <1>12, <1>13, <1>14
     DEF Next, Setup

(* Every distribution has a version that can be read and only files of the *)
(* project, and no hook is run twice (util.py:207-298, cfg_to_args).       *)
THEOREM SetupTypeCorrect == Spec => []SetupTypeOK
PROOF
<1>1. SetupInit => VersionInv /\ SetupTyped /\ PathInv
  BY DEF SetupInit, VersionInv, TarballInv, RunInv, OutcomeInv, SetupTyped, Stage,
     PathInv, Trying
<1>2. HistoryInv /\ VersionInv /\ [Next]_vars => VersionInv'
  BY VersionStep
<1>3. HistoryInv /\ VersionInv /\ SetupTyped /\ PathInv => SetupTypeOK
  <2> SUFFICES ASSUME HistoryInv, VersionInv, SetupTyped, PathInv PROVE SetupTypeOK
    OBVIOUS
  <2>1. TypeOK
    BY TypeHolds DEF HistoryInv
  <2>2. path \in Seq({"packages_root", Base})
    <3>1. /\ <<"packages_root">> \in Seq({"packages_root", Base})
          /\ <<Base>> \in Seq({"packages_root", Base})
      OBVIOUS
    <3>2. <<"packages_root">> \o <<Base>> \in Seq({"packages_root", Base})
      BY <3>1, ConcatProperties
    <3> QED
      BY <3>1, <3>2 DEF PathInv
  <2>3. tarball # None => from_pip_string(tarball.version) \in Canonical
    BY StringReadsBack DEF VersionInv, TarballInv
  <2> QED
    BY <2>1, <2>2, <2>3 DEF SetupTyped, Stage, SetupTypeOK
<1> QED
  BY <1>1, <1>2, <1>3, TypedStep, PathStep, HistoryInSetup, PTL DEF Spec

(***************************************************************************)
(* Lists put together                                                      *)
(***************************************************************************)
(* FlattenSeq satisfies its recursion, as Keep does (Selection_proofs).    *)
JoinIs(s, n, f) ==
    f = [i \in 1..n |-> IF i = 1 THEN s[i] ELSE f[i - 1] \o s[i]]

LEMMA FlattenRecursion ==
    ASSUME NEW s, Len(s) \in Nat \ {0}
    PROVE  \E f : JoinIs(s, Len(s), f) /\ FlattenSeq(s) = f[Len(s)]
PROOF
<1> DEFINE Can == {n \in Nat : \E f : JoinIs(s, n, f)}
<1>1. 0 \in Can
  <2>1. JoinIs(s, 0, [i \in 1..0 |-> <<>>])
    BY DEF JoinIs
  <2> QED
    BY <2>1
<1>2. ASSUME NEW n \in Can \cap Nat PROVE n + 1 \in Can
  <2>1. PICK f : JoinIs(s, n, f)
    OBVIOUS
  <2> DEFINE last == IF n = 0 THEN s[1] ELSE f[n] \o s[n + 1]
             g == [i \in 1..n + 1 |-> IF i = n + 1 THEN last ELSE f[i]]
  <2>2. \A i \in 1..n : f[i] = IF i = 1 THEN s[i] ELSE f[i - 1] \o s[i]
    BY <2>1 DEF JoinIs
  <2>3. \A i \in 1..n : g[i] = f[i]
    OBVIOUS
  <2>4. g[n + 1] = last
    OBVIOUS
  <2>5. \A i \in 1..n + 1 : g[i] = IF i = 1 THEN s[i] ELSE g[i - 1] \o s[i]
    <3> TAKE i \in 1..n + 1
    <3>1. CASE i = n + 1 /\ n # 0
      <4>1. i # 1 /\ i - 1 = n /\ g[i - 1] = f[n]
        BY <2>3, <3>1
      <4> QED
        BY <2>4, <3>1, <4>1
    <3>2. CASE i = n + 1 /\ n = 0
      BY <2>4, <3>2
    <3>3. CASE i \in 1..n
      <4>1. g[i] = f[i] /\ (i # 1 => g[i - 1] = f[i - 1])
        BY <2>3, <3>3
      <4> HIDE DEF g
      <4> QED
        BY <2>2, <3>3, <4>1
    <3> QED
      BY <3>1, <3>2, <3>3
  <2>6. g = [i \in 1..n + 1 |-> g[i]]
    OBVIOUS
  <2> HIDE DEF g
  <2>7. JoinIs(s, n + 1, g)
    BY <2>5, <2>6 DEF JoinIs
  <2> QED
    BY <2>7
<1> HIDE DEF Can
<1>3. Nat \subseteq Can
  BY <1>1, <1>2, Induction
<1>4. \E f : JoinIs(s, Len(s), f)
  BY <1>3 DEF Can
<1> DEFINE joined == CHOOSE f : JoinIs(s, Len(s), f)
<1>5. JoinIs(s, Len(s), joined)
  BY <1>4
<1>6. FlattenSeq(s) = joined[Len(s)]
  BY DEF FlattenSeq, JoinIs
<1> QED
  BY <1>5, <1>6

(* t consists of the lists in s, the i-th of them after off[i] places: so  *)
(* every place of t is the place of an element of a list, and the other    *)
(* way round.                                                              *)
Placed(s, t, off) ==
    /\ \A i \in 1..Len(s) : \A j \in 1..Len(s[i]) :
         off[i] + j \in 1..Len(t) /\ t[off[i] + j] = s[i][j]
    /\ \A a \in 1..Len(t) :
         \E i \in 1..Len(s) : \E j \in 1..Len(s[i]) : a = off[i] + j

(* Such a table exists.                                                    *)
LEMMA FlattenPlaces ==
    ASSUME NEW S, NEW s \in Seq(Seq(S))
    PROVE  /\ FlattenSeq(s) \in Seq(S)
           /\ \E off \in [1..Len(s) -> Nat] : Placed(s, FlattenSeq(s), off)
PROOF
<1> DEFINE Joins(n, t, off) ==
             /\ t \in Seq(S)
             /\ \A i \in 1..n :
                  /\ off[i] \in Nat
                  /\ \A j \in 1..Len(s[i]) :
                       off[i] + j \in 1..Len(t) /\ t[off[i] + j] = s[i][j]
             /\ \A a \in 1..Len(t) : \E i \in 1..n : \E j \in 1..Len(s[i]) : a = off[i] + j
<1>0. Len(s) \in Nat /\ \A i \in 1..Len(s) : s[i] \in Seq(S) /\ Len(s[i]) \in Nat
  OBVIOUS
<1>1. ASSUME NEW off, Joins(Len(s), FlattenSeq(s), off)
      PROVE  /\ FlattenSeq(s) \in Seq(S)
             /\ \E o \in [1..Len(s) -> Nat] : Placed(s, FlattenSeq(s), o)
  <2> DEFINE o == [i \in 1..Len(s) |-> off[i]]
  <2>1. o \in [1..Len(s) -> Nat] /\ \A i \in 1..Len(s) : o[i] = off[i]
    BY <1>1
  <2> HIDE DEF o
  <2>2. Placed(s, FlattenSeq(s), o)
    <3>1. ASSUME NEW i \in 1..Len(s), NEW j \in 1..Len(s[i])
          PROVE  /\ o[i] + j \in 1..Len(FlattenSeq(s))
                 /\ FlattenSeq(s)[o[i] + j] = s[i][j]
      BY <1>1, <2>1
    <3>2. ASSUME NEW a \in 1..Len(FlattenSeq(s))
          PROVE  \E i \in 1..Len(s) : \E j \in 1..Len(s[i]) : a = o[i] + j
      <4>1. PICK i \in 1..Len(s) : \E j \in 1..Len(s[i]) : a = off[i] + j
        BY <1>1
      <4> QED
        BY <2>1, <4>1
    <3> QED
      BY <3>1, <3>2 DEF Placed
  <2> QED
    BY <1>1, <2>1, <2>2
<1>2. CASE Len(s) = 0
  <2>1. FlattenSeq(s) = s /\ s = <<>> /\ s \in Seq(S) /\ Len(s) = 0
    BY <1>2 DEF FlattenSeq
  <2>2. Joins(Len(s), FlattenSeq(s), s)
    BY <2>1
  <2> HIDE DEF Joins
  <2> QED
    BY <1>1, <2>2
<1>3. CASE Len(s) # 0
  <2>1. PICK f : JoinIs(s, Len(s), f) /\ FlattenSeq(s) = f[Len(s)]
    BY <1>0, <1>3, FlattenRecursion
  <2>2. \A i \in 1..Len(s) : f[i] = IF i = 1 THEN s[i] ELSE f[i - 1] \o s[i]
    BY <2>1 DEF JoinIs
  <2> DEFINE Good == {n \in Nat : n + 1 <= Len(s) => \E off : Joins(n + 1, f[n + 1], off)}
  <2>3. 0 \in Good
    <3>1. f[1] = s[1] /\ s[1] \in Seq(S)
      BY <1>0, <1>3, <2>2
    <3>2. Joins(1, s[1], [i \in {1} |-> 0])
      BY <3>1
    <3> HIDE DEF Joins
    <3> QED
      BY <3>1, <3>2
  <2>4. ASSUME NEW n \in Good \cap Nat PROVE n + 1 \in Good
    <3>0. n \in Nat /\ n + 1 \in Nat /\ (n + 1) + 1 = n + 2
      OBVIOUS
    <3> HIDE DEF Joins
    <3> SUFFICES ASSUME n + 2 <= Len(s) PROVE \E off : Joins(n + 2, f[n + 2], off)
      BY <3>0
    <3>1. PICK off : Joins(n + 1, f[n + 1], off)
      BY <1>0, <3>0
    <3> DEFINE t == f[n + 1]
               r == s[n + 2]
               u == t \o r
               m == Len(t)
               p == [i \in 1..n + 2 |-> IF i = n + 2 THEN m ELSE off[i]]
    <3>2. /\ t \in Seq(S) /\ m \in Nat /\ r \in Seq(S) /\ Len(r) \in Nat
          /\ \A i \in 1..n + 1 :
               /\ off[i] \in Nat
               /\ \A j \in 1..Len(s[i]) :
                    off[i] + j \in 1..m /\ t[off[i] + j] = s[i][j]
          /\ \A a \in 1..m : \E i \in 1..n + 1 : \E j \in 1..Len(s[i]) : a = off[i] + j
      BY <1>0, <3>0, <3>1 DEF Joins
    <3>3. f[n + 2] = u
      <4>1. n + 2 \in 1..Len(s) /\ n + 2 # 1 /\ (n + 2) - 1 = n + 1
        BY <1>0, <3>0
      <4> QED
        BY <2>2, <4>1
    <3> HIDE DEF t, r
    <3>4. /\ u \in Seq(S) /\ Len(u) = m + Len(r)
          /\ \A a \in 1..m : u[a] = t[a]
          /\ \A j \in 1..Len(r) : u[m + j] = r[j]
      <4>1. /\ t \o r \in Seq(S)
            /\ Len(t \o r) = Len(t) + Len(r)
            /\ \A i \in 1..Len(t) + Len(r) :
                 (t \o r)[i] = IF i <= Len(t) THEN t[i] ELSE r[i - Len(t)]
        BY <3>2, ConcatProperties
      <4> QED
        BY <3>2, <4>1
    <3>5. p[n + 2] = m /\ \A i \in 1..n + 1 : p[i] = off[i] /\ i # n + 2
      BY <3>0
    <3>6. \A i \in 1..n + 2 : i \in 1..n + 1 \/ i = n + 2
      BY <3>0
    <3>6a. \A i \in 1..n + 1 : i \in 1..n + 2
      BY <3>0
    <3>6b. n + 2 \in 1..n + 2
      BY <3>0
    <3> HIDE DEF u, p, m
    <3>7. ASSUME NEW i \in 1..n + 2
          PROVE  /\ p[i] \in Nat
                 /\ \A j \in 1..Len(s[i]) : p[i] + j \in 1..Len(u) /\ u[p[i] + j] = s[i][j]
      <4>1. CASE i = n + 2
        <5>1. s[i] = r /\ p[i] = m
          BY <3>5, <4>1 DEF r
        <5>2. ASSUME NEW j \in 1..Len(r)
              PROVE  m + j \in 1..Len(u) /\ u[m + j] = r[j]
          BY <3>2, <3>4
        <5>3. ASSUME NEW j \in 1..Len(s[i])
              PROVE  p[i] + j \in 1..Len(u) /\ u[p[i] + j] = s[i][j]
          BY <5>1, <5>2, <5>3
        <5>4. p[i] \in Nat
          BY <3>2, <5>1
        <5> QED
          BY <5>3, <5>4
      <4>2. CASE i \in 1..n + 1
        <5>1. p[i] = off[i] /\ off[i] \in Nat
          BY <3>2, <3>5, <4>2
        <5>2. ASSUME NEW j \in 1..Len(s[i])
              PROVE  p[i] + j \in 1..Len(u) /\ u[p[i] + j] = s[i][j]
          <6>1. off[i] + j \in 1..m /\ t[off[i] + j] = s[i][j]
            BY <3>2, <4>2
          <6> QED
            BY <3>2, <3>4, <5>1, <6>1, SMTT(30)
        <5> QED
          BY <5>1, <5>2
      <4> QED
        BY <3>6, <4>1, <4>2
    <3>8. ASSUME NEW a \in 1..Len(u)
          PROVE  \E i \in 1..n + 2 : \E j \in 1..Len(s[i]) : a = p[i] + j
      <4>1. CASE a \in 1..m
        <5>1. PICK i \in 1..n + 1 : \E j \in 1..Len(s[i]) : a = off[i] + j
          BY <3>2, <4>1
        <5> QED
          BY <3>5, <3>6a, <5>1
      <4>2. CASE a \notin 1..m
        <5>1. a - m \in 1..Len(r) /\ a = m + (a - m)
          BY <3>2, <3>4, <4>2
        <5> QED
          BY <3>5, <3>6b, <5>1 DEF r
      <4> QED
        BY <4>1, <4>2
    <3>9. Joins(n + 2, u, p)
      BY <3>4, <3>7, <3>8 DEF Joins
    <3> QED
      BY <3>3, <3>9
  <2> HIDE DEF Good
  <2>5. Nat \subseteq Good
    BY <2>3, <2>4, Induction
  <2> HIDE DEF Joins
  <2>6. \E off : Joins(Len(s), f[Len(s)], off)
    <3>1. Len(s) - 1 \in Nat /\ (Len(s) - 1) + 1 = Len(s)
      BY <1>0, <1>3
    <3>2. Len(s) - 1 \in Good
      BY <2>5, <3>1
    <3> QED
      BY <3>1, <3>2 DEF Good
  <2> QED
    BY <1>1, <2>1, <2>6
<1> QED
  BY <1>2, <1>3

(* What lists put together consist of.                                     *)
LEMMA FlattenMembers ==
    ASSUME NEW S, NEW s \in Seq(Seq(S))
    PROVE  /\ FlattenSeq(s) \in Seq(S)
           /\ In(FlattenSeq(s)) = UNION {In(s[i]) : i \in 1..Len(s)}
PROOF
<1> DEFINE t == FlattenSeq(s)
<1>1. t \in Seq(S)
  BY FlattenPlaces
<1>2. PICK off \in [1..Len(s) -> Nat] : Placed(s, t, off)
  BY FlattenPlaces
<1> HIDE DEF t
<1>3. ASSUME NEW x \in In(t) PROVE \E i \in 1..Len(s) : x \in In(s[i])
  <2>1. PICK a \in 1..Len(t) : x = t[a]
    BY DEF In
  <2>2. PICK i \in 1..Len(s) : \E j \in 1..Len(s[i]) : a = off[i] + j
    BY <1>2 DEF Placed
  <2>3. PICK j \in 1..Len(s[i]) : a = off[i] + j
    BY <2>2
  <2>4. x = s[i][j]
    BY <1>2, <2>1, <2>3 DEF Placed
  <2> QED
    BY <2>4 DEF In
<1>4. ASSUME NEW i \in 1..Len(s), NEW x \in In(s[i]) PROVE x \in In(t)
  <2>1. PICK j \in 1..Len(s[i]) : x = s[i][j]
    BY DEF In
  <2>2. off[i] + j \in 1..Len(t) /\ t[off[i] + j] = s[i][j]
    BY <1>2 DEF Placed
  <2> QED
    BY <2>1, <2>2 DEF In
<1> QED
  BY <1>1, <1>3, <1>4 DEF t

(***************************************************************************)
(* Requirement files                                                       *)
(***************************************************************************)
(* FileReqs satisfies its recursion.                                       *)
ReqsAt(d, inner) ==
    [f \in DOMAIN ReqFile |->
       IF d = 0 THEN <<Overflow>>
       ELSE FlattenSeq([i \in 1..Len(ReqFile[f]) |-> LineReqs(ReqFile[f][i], inner)])]

NestIs(n, F) == F = [d \in 0..n |-> ReqsAt(d, F[d - 1])]

(* It does, however many files there are.                                  *)
LEMMA FileReqsUnfold ==
    \A d \in 0..MaxNesting : FileReqs[d] = ReqsAt(d, FileReqs[d - 1])
PROOF
<1>0. MaxNesting \in Nat
  BY RequirementAssumption
<1> DEFINE Can == {n \in Nat : \E F : NestIs(n, F)}
<1>1. 0 \in Can
  <2> DEFINE g == [d \in 0..0 |-> ReqsAt(0, <<>>)]
  <2>1. ReqsAt(0, <<>>) = ReqsAt(0, g[0 - 1])
    BY DEF ReqsAt
  <2>2. \A d \in 0..0 : g[d] = ReqsAt(d, g[d - 1])
    BY <2>1 DEF ReqsAt
  <2>3. g = [d \in 0..0 |-> g[d]]
    OBVIOUS
  <2> HIDE DEF g
  <2>4. NestIs(0, g)
    BY <2>2, <2>3 DEF NestIs
  <2> QED
    BY <2>4
<1>2. ASSUME NEW n \in Can \cap Nat PROVE n + 1 \in Can
  <2>1. PICK F : NestIs(n, F)
    OBVIOUS
  <2> DEFINE g == [d \in 0..n + 1 |-> IF d = n + 1 THEN ReqsAt(n + 1, F[n]) ELSE F[d]]
  <2>2. \A d \in 0..n : F[d] = ReqsAt(d, F[d - 1])
    BY <2>1 DEF NestIs
  <2>3. g[n + 1] = ReqsAt(n + 1, F[n]) /\ \A d \in 0..n : g[d] = F[d]
    OBVIOUS
  <2>4. g = [d \in 0..n + 1 |-> g[d]]
    OBVIOUS
  <2> HIDE DEF g
  <2>5. ASSUME NEW d \in 0..n + 1 PROVE g[d] = ReqsAt(d, g[d - 1])
    <3>1. CASE d = n + 1
      <4>1. d - 1 = n /\ n \in 0..n
        BY <3>1
      <4> QED
        BY <2>3, <3>1, <4>1
    <3>2. CASE d = 0
      BY <2>2, <2>3, <3>2 DEF ReqsAt
    <3>3. CASE d \in 1..n
      <4>1. d \in 0..n /\ d - 1 \in 0..n
        BY <3>3
      <4> QED
        BY <2>2, <2>3, <4>1
    <3> QED
      BY <3>1, <3>2, <3>3
  <2>6. NestIs(n + 1, g)
    BY <2>4, <2>5 DEF NestIs
  <2> QED
    BY <2>6
<1> HIDE DEF Can
<1>3. Nat \subseteq Can
  BY <1>1, <1>2, Induction
<1>4. \E F : NestIs(MaxNesting, F)
  BY <1>0, <1>3 DEF Can
<1>5. FileReqs = CHOOSE F : NestIs(MaxNesting, F)
  BY DEF FileReqs, NestIs, ReqsAt
<1>6. NestIs(MaxNesting, FileReqs)
  BY <1>4, <1>5
<1> QED
  BY <1>6 DEF NestIs

(* What a list of requirements consists of.                                *)
Required == Requirement \cup {Overflow}
            \cup {[pkg |-> l.pkg, marker |-> l.marker] : l \in ReqLine}

(* However deep files are nested, they come to lists of requirements.      *)
LEMMA FileReqsAre ==
    \A d \in 0..MaxNesting : \A f \in DOMAIN ReqFile : FileReqs[d][f] \in Seq(Required)
PROOF
<1>0. /\ MaxNesting \in Nat
      /\ \A f \in DOMAIN ReqFile : ReqFile[f] \in Seq(ReqLine)
  BY RequirementAssumption
<1> DEFINE Typed(n) == \A f \in DOMAIN ReqFile : FileReqs[n][f] \in Seq(Required)
           Good == {n \in Nat : n <= MaxNesting => Typed(n)}
<1>1. 0 \in Good
  <2>1. FileReqs[0] = ReqsAt(0, FileReqs[0 - 1])
    BY <1>0, FileReqsUnfold
  <2>2. \A f \in DOMAIN ReqFile : FileReqs[0][f] = <<Overflow>>
    BY <2>1 DEF ReqsAt
  <2>3. <<Overflow>> \in Seq(Required)
    BY DEF Required
  <2> QED
    BY <2>2, <2>3
<1>2. ASSUME NEW n \in Good \cap Nat PROVE n + 1 \in Good
  <2> SUFFICES ASSUME n + 1 <= MaxNesting, NEW f \in DOMAIN ReqFile
               PROVE  FileReqs[n + 1][f] \in Seq(Required)
    OBVIOUS
  <2>1. Typed(n)
    BY <1>0
  <2> HIDE DEF Good
  <2> DEFINE s == [i \in 1..Len(ReqFile[f]) |-> LineReqs(ReqFile[f][i], FileReqs[n])]
  <2>2. FileReqs[n + 1] = ReqsAt(n + 1, FileReqs[n])
    <3>1. n + 1 \in 0..MaxNesting /\ (n + 1) - 1 = n
      BY <1>0
    <3> QED
      BY <3>1, FileReqsUnfold
  <2>3. FileReqs[n + 1][f] = FlattenSeq(s)
    BY <2>2 DEF ReqsAt
  <2>4. ASSUME NEW i \in 1..Len(ReqFile[f])
        PROVE  LineReqs(ReqFile[f][i], FileReqs[n]) \in Seq(Required)
    <3> DEFINE l == ReqFile[f][i]
               r == [pkg |-> l.pkg, marker |-> l.marker]
    <3>1. l \in ReqLine
      BY <1>0
    <3>2. r \in Required
      BY <3>1 DEF Required
    <3> HIDE DEF l, r
    <3>3. <<r>> \in Seq(Required) /\ <<>> \in Seq(Required)
      BY <3>2
    <3>4. l.file \in Readable => FileReqs[n][l.file] \in Seq(Required)
      BY <2>1 DEF Readable
    <3>5. \/ LineReqs(l, FileReqs[n]) = <<>>
          \/ LineReqs(l, FileReqs[n]) = <<r>>
          \/ l.file \in Readable /\ LineReqs(l, FileReqs[n]) = FileReqs[n][l.file]
      BY DEF LineReqs, r
    <3> QED
      BY <3>3, <3>4, <3>5 DEF l
  <2>5. s \in Seq(Seq(Required))
    <3>1. Len(ReqFile[f]) \in Nat
      BY <1>0
    <3> HIDE DEF Typed
    <3> QED
      BY <2>4, <3>1
  <2> HIDE DEF s
  <2> QED
    BY <2>3, <2>5, FlattenPlaces
<1> HIDE DEF Good
<1>3. Nat \subseteq Good
  BY <1>1, <1>2, Induction
<1> HIDE DEF Typed
<1>4. \A d \in 0..MaxNesting : Typed(d)
  BY <1>0, <1>3 DEF Good
<1> QED
  BY <1>4 DEF Typed

(* So do the first of several files, or none.                              *)
LEMMA RequirementsAre ==
    ASSUME NEW names \in Seq(STRING)
    PROVE  parse_requirements(names) \in Seq(Required)
PROOF
<1> DEFINE there == Existing(names)
<1>1. there \in Seq(STRING) /\ In(there) \subseteq DOMAIN ReqFile
  BY KeepSelects, KeepMembers DEF Existing, Readable
<1>2. CASE there = <<>>
  BY <1>2 DEF parse_requirements
<1>3. CASE there # <<>>
  <2> HIDE DEF there
  <2>1. there # <<>> /\ FirstFile(names) = Head(there)
    BY <1>3 DEF FirstFile, there
  <2>2. Len(there) \in Nat /\ Len(there) # 0
    BY <1>1, <2>1
  <2>3. Head(there) = there[1] /\ 1 \in 1..Len(there)
    BY <1>1, <2>1, <2>2
  <2>4. FirstFile(names) \in DOMAIN ReqFile
    BY <1>1, <2>1, <2>3 DEF In
  <2>5. MaxNesting \in 0..MaxNesting
    BY RequirementAssumption
  <2> QED
    BY <1>3, <2>4, <2>5, FileReqsAre DEF parse_requirements, there
<1> QED
  BY <1>2, <1>3

(* The groups of requirements are lists.                                   *)
LEMMA GroupsAre ==
    ASSUME NEW p \in DOMAIN Project, NEW c, c.requires_dist \in Seq(Required)
    PROVE  LET all == all_requirements(Project[p], c)
           IN  /\ "" \in DOMAIN all
               /\ \A g \in DOMAIN all : all[g] \in Seq(Required)
PROOF
<1> DEFINE tests == parse_requirements(TestRequirements)
           extras == Project[p].extras
           groups == IF DOMAIN extras = {} THEN {} ELSE DOMAIN extras \cup {"test"}
           all == all_requirements(Project[p], c)
<1>1. tests \in Seq(Required)
  BY RequirementAssumption, RequirementsAre
<1>2. \A g \in DOMAIN extras : extras[g] \in Seq(Required)
  BY RequirementAssumption DEF Required
<1>3. all = [g \in groups \cup {""} |->
               IF g = "" THEN c.requires_dist
               ELSE IF g \in DOMAIN extras THEN extras[g] ELSE tests]
  BY DEF all_requirements
<1> HIDE DEF all, tests, extras, groups
<1> QED
  BY <1>1, <1>2, <1>3 DEF all

(* Range and In are the same for a list.                                   *)
LEMMA RangeIsIn ==
    ASSUME NEW S, NEW s \in Seq(S)
    PROVE  /\ Len(s) \in Nat /\ \A i \in 1..Len(s) : s[i] \in S
           /\ Range(s) = In(s)
PROOF
<1>1. DOMAIN s = 1..Len(s)
  OBVIOUS
<1> QED
  BY <1>1 DEF Range, In

(* What a line says, d deep, where the file it may name says inner.        *)
Saying == {"plain", "egg", "url"}

LineSays(l, d) ==
    IF l.kind \in Saying THEN {[pkg |-> l.pkg, marker |-> l.marker]}
    ELSE IF l.kind = "nested" /\ l.file \in Readable THEN In(FileReqs[d - 1][l.file])
    ELSE {}

(* What a file comes to is what its lines say.                             *)
LEMMA FileSays ==
    ASSUME NEW d \in 1..MaxNesting, NEW f \in DOMAIN ReqFile
    PROVE  In(FileReqs[d][f]) = UNION {LineSays(l, d) : l \in Range(ReqFile[f])}
PROOF
<1>0. MaxNesting \in Nat /\ ReqFile[f] \in Seq(ReqLine)
  BY RequirementAssumption
<1>1. /\ Len(ReqFile[f]) \in Nat /\ \A i \in 1..Len(ReqFile[f]) : ReqFile[f][i] \in ReqLine
      /\ Range(ReqFile[f]) = In(ReqFile[f])
  BY <1>0, RangeIsIn
<1> DEFINE s == [i \in 1..Len(ReqFile[f]) |-> LineReqs(ReqFile[f][i], FileReqs[d - 1])]
<1>2. d \in 0..MaxNesting /\ d - 1 \in 0..MaxNesting /\ d # 0
  BY <1>0
<1>3. FileReqs[d][f] = FlattenSeq(s)
  <2>1. FileReqs[d] = ReqsAt(d, FileReqs[d - 1])
    BY <1>2, FileReqsUnfold
  <2> QED
    BY <1>2, <2>1 DEF ReqsAt
<1>4. ASSUME NEW l \in ReqLine
      PROVE  /\ LineReqs(l, FileReqs[d - 1]) \in Seq(Required)
             /\ In(LineReqs(l, FileReqs[d - 1])) = LineSays(l, d)
  <2> DEFINE r == [pkg |-> l.pkg, marker |-> l.marker]
  <2>1. r \in Required
    BY DEF Required
  <2> HIDE DEF r
  <2>2. /\ <<r>> \in Seq(Required) /\ In(<<r>>) = {r}
        /\ <<>> \in Seq(Required) /\ In(<<>>) = {}
    <3>1. Len(<<r>>) = 1 /\ <<r>>[1] = r /\ 1..1 = {1} /\ Len(<<>>) = 0 /\ 1..0 = {}
      OBVIOUS
    <3> QED
      BY <2>1, <3>1 DEF In
  <2>3. l.kind \in {"comment", "index", "find", "nested"} \cup Saying
    BY DEF ReqLine, Saying
  <2>4. CASE l.kind \in Saying
    <3>1. LineReqs(l, FileReqs[d - 1]) = <<r>> /\ LineSays(l, d) = {r}
      BY <2>4 DEF LineReqs, LineSays, Saying, r
    <3> QED
      BY <2>2, <3>1
  <2>5. CASE l.kind = "nested" /\ l.file \in Readable
    <3>1. /\ LineReqs(l, FileReqs[d - 1]) = FileReqs[d - 1][l.file]
          /\ LineSays(l, d) = In(FileReqs[d - 1][l.file])
      BY <2>5 DEF LineReqs, LineSays, Saying
    <3>2. FileReqs[d - 1][l.file] \in Seq(Required)
      BY <1>2, <2>5, FileReqsAre DEF Readable
    <3> QED
      BY <3>1, <3>2
  <2>6. CASE \/ l.kind \in {"comment", "index", "find"}
             \/ l.kind = "nested" /\ l.file \notin Readable
    <3>1. LineReqs(l, FileReqs[d - 1]) = <<>> /\ LineSays(l, d) = {}
      BY <2>6 DEF LineReqs, LineSays, Saying
    <3> QED
      BY <2>2, <3>1
  <2> QED
    BY <2>3, <2>4, <2>5, <2>6
<1>5. s \in Seq(Seq(Required))
  BY <1>1, <1>4
<1>6. \A i \in 1..Len(s) : In(s[i]) = LineSays(ReqFile[f][i], d)
  BY <1>1, <1>4
<1>7. Len(s) = Len(ReqFile[f])
  BY <1>1
<1> HIDE DEF s
<1>8. In(FlattenSeq(s)) = UNION {In(s[i]) : i \in 1..Len(s)}
  BY <1>5, FlattenMembers
<1>9. Range(ReqFile[f]) = {ReqFile[f][i] : i \in 1..Len(s)}
  BY <1>1, <1>7 DEF In
<1>10. ASSUME NEW x, x \in UNION {In(s[i]) : i \in 1..Len(s)}
      PROVE  x \in UNION {LineSays(l, d) : l \in Range(ReqFile[f])}
  <2>1. PICK i \in 1..Len(s) : x \in In(s[i])
    BY <1>10
  <2>2. x \in LineSays(ReqFile[f][i], d) /\ ReqFile[f][i] \in Range(ReqFile[f])
    BY <1>6, <1>9, <2>1
  <2> QED
    BY <2>2
<1>11. ASSUME NEW l \in Range(ReqFile[f]), NEW x \in LineSays(l, d)
      PROVE  x \in UNION {In(s[i]) : i \in 1..Len(s)}
  <2>1. PICK i \in 1..Len(s) : l = ReqFile[f][i]
    BY <1>9
  <2>2. x \in In(s[i])
    BY <1>6, <2>1
  <2> QED
    BY <2>2
<1>12. UNION {In(s[i]) : i \in 1..Len(s)} = UNION {LineSays(l, d) : l \in Range(ReqFile[f])}
  <2>1. \A x \in UNION {LineSays(l, d) : l \in Range(ReqFile[f])} :
          x \in UNION {In(s[i]) : i \in 1..Len(s)}
    BY <1>11
  <2>2. \A x \in UNION {In(s[i]) : i \in 1..Len(s)} :
          x \in UNION {LineSays(l, d) : l \in Range(ReqFile[f])}
    BY <1>10
  <2> QED
    BY <2>1, <2>2
<1> QED
  BY <1>3, <1>8, <1>12

(* All that the files reached from f say.                                  *)
Said(f) == UNION {OnLines(g) : g \in Reached[f]}

(* A file says what is on its lines, and what the files it names say.      *)
LEMMA SaidByLines ==
    ASSUME NEW f \in Readable
    PROVE  /\ OnLines(f) \subseteq Said(f)
           /\ \A l \in Range(ReqFile[f]) :
                l.kind = "nested" /\ l.file \in Readable => Said(l.file) \subseteq Said(f)
PROOF
<1>1. \A e \in Readable : Reached[e] =
        {g \in Readable : \A S \in SUBSET Readable : e \in S /\ Closed(S) => g \in S}
  BY DEF Reached
<1>2. f \in Reached[f]
  BY <1>1
<1>3. ASSUME NEW l \in Range(ReqFile[f]), l.kind = "nested", l.file \in Readable
      PROVE  Reached[l.file] \subseteq Reached[f]
  <2> SUFFICES ASSUME NEW g \in Reached[l.file], NEW S \in SUBSET Readable,
                      f \in S, Closed(S)
               PROVE  g \in S
    BY <1>1, <1>3
  <2>1. l.file \in S
    BY <1>3 DEF Closed
  <2> QED
    BY <1>1, <1>3, <2>1
<1> QED
  BY <1>2, <1>3 DEF Said

(* Unless the files are nested too deep, a file comes to just what the     *)
(* files reached from it say: nothing else, by how deep they are nested;   *)
(* and all of it, since the files that come to a part of it are closed.    *)
LEMMA ReachedFilesSay ==
    ASSUME NEW f \in Readable, Overflow \notin In(FileReqs[MaxNesting][f])
    PROVE  In(FileReqs[MaxNesting][f]) = Said(f)
PROOF
<1>0. MaxNesting \in Nat /\ MaxNesting \in 0..MaxNesting
  BY RequirementAssumption
<1>z. \A g \in Readable : In(FileReqs[0][g]) = {Overflow}
  <2> SUFFICES ASSUME NEW g \in Readable PROVE In(FileReqs[0][g]) = {Overflow}
    OBVIOUS
  <2>1. FileReqs[0][g] = <<Overflow>>
    <3>1. FileReqs[0] = ReqsAt(0, FileReqs[0 - 1])
      BY <1>0, FileReqsUnfold
    <3> QED
      BY <3>1 DEF ReqsAt, Readable
  <2>2. Len(<<Overflow>>) = 1 /\ <<Overflow>>[1] = Overflow /\ 1..1 = {1}
    OBVIOUS
  <2> QED
    BY <2>1, <2>2 DEF In
<1> DEFINE Within(n) == \A g \in Readable : In(FileReqs[n][g]) \subseteq Said(g) \cup {Overflow}
           Good == {n \in Nat : n <= MaxNesting => Within(n)}
<1>1. 0 \in Good
  BY <1>z
<1>2. ASSUME NEW n \in Good \cap Nat PROVE n + 1 \in Good
  <2> SUFFICES ASSUME n + 1 <= MaxNesting, NEW g \in Readable, NEW x \in In(FileReqs[n + 1][g])
               PROVE  x \in Said(g) \cup {Overflow}
    OBVIOUS
  <2>1. Within(n)
    BY <1>0
  <2>2. n + 1 \in 1..MaxNesting /\ (n + 1) - 1 = n /\ g \in DOMAIN ReqFile
    BY <1>0 DEF Readable
  <2> HIDE DEF Good, Within
  <2>3. PICK l \in Range(ReqFile[g]) : x \in LineSays(l, n + 1)
    BY <2>2, FileSays
  <2>4. CASE l.kind \in Saying
    <3>1. x \in OnLines(g)
      BY <2>3, <2>4 DEF LineSays, OnLines, Saying
    <3> QED
      BY <3>1, SaidByLines
  <2>5. CASE l.kind \notin Saying
    <3>1. l.kind = "nested" /\ l.file \in Readable /\ x \in In(FileReqs[n][l.file])
      BY <2>2, <2>3, <2>5 DEF LineSays
    <3>2. x \in Said(l.file) \cup {Overflow}
      BY <2>1, <3>1 DEF Within
    <3> QED
      BY <3>1, <3>2, SaidByLines
  <2> QED
    BY <2>4, <2>5
<1> HIDE DEF Good
<1>3. Nat \subseteq Good
  BY <1>1, <1>2, Induction
<1>4. In(FileReqs[MaxNesting][f]) \subseteq Said(f)
  BY <1>0, <1>3 DEF Good
<1> DEFINE S == {g \in Readable : \E d \in 0..MaxNesting :
                   /\ Overflow \notin In(FileReqs[d][g])
                   /\ In(FileReqs[d][g]) \subseteq In(FileReqs[MaxNesting][f])}
<1>5. ASSUME NEW g \in S
      PROVE  /\ OnLines(g) \subseteq In(FileReqs[MaxNesting][f])
             /\ \A l \in Range(ReqFile[g]) :
                  l.kind = "nested" /\ l.file \in Readable => l.file \in S
  <2>1. PICK d \in 0..MaxNesting : /\ Overflow \notin In(FileReqs[d][g])
                                   /\ In(FileReqs[d][g]) \subseteq In(FileReqs[MaxNesting][f])
    OBVIOUS
  <2>2. d # 0
    BY <1>z, <2>1
  <2>3. d \in 1..MaxNesting /\ d - 1 \in 0..MaxNesting /\ g \in DOMAIN ReqFile /\ g \in Readable
    BY <1>0, <2>2 DEF Readable
  <2>4. \A l \in Range(ReqFile[g]) : LineSays(l, d) \subseteq In(FileReqs[d][g])
    BY <2>3, FileSays
  <2> HIDE DEF S
  <2>5. OnLines(g) \subseteq In(FileReqs[d][g])
    BY <2>4 DEF OnLines, LineSays, Saying
  <2>6. ASSUME NEW l \in Range(ReqFile[g]), l.kind = "nested", l.file \in Readable
        PROVE  l.file \in S
    <3>1. LineSays(l, d) = In(FileReqs[d - 1][l.file])
      BY <2>6 DEF LineSays, Saying
    <3>2. In(FileReqs[d - 1][l.file]) \subseteq In(FileReqs[d][g])
      BY <2>4, <3>1
    <3> QED
      BY <2>1, <2>3, <2>6, <3>2 DEF S
  <2> QED
    BY <2>1, <2>5, <2>6
<1>6. f \in S /\ S \subseteq Readable
  BY <1>0
<1> HIDE DEF S
<1>7. Closed(S)
  BY <1>5 DEF Closed
<1>8. Reached[f] \subseteq S
  BY <1>6, <1>7 DEF Reached
<1>9. Said(f) \subseteq In(FileReqs[MaxNesting][f])
  BY <1>5, <1>8 DEF Said
<1> QED
  BY <1>4, <1>9

(* So a list of names comes to what the files ask for.                     *)
LEMMA ParsedAsAsked ==
    ASSUME NEW names \in Seq(STRING), Overflow \notin Range(parse_requirements(names))
    PROVE  Range(parse_requirements(names)) = AskedByFiles(names)
PROOF
<1> DEFINE there == Existing(names)
           First == {i \in 1..Len(names) : /\ names[i] \in Readable
                                           /\ \A j \in 1..i - 1 : names[j] \notin Readable}
<1>1. /\ there \in Seq(STRING) /\ In(there) = In(names) \cap Readable
      /\ Len(names) \in Nat
  BY KeepSelects, KeepMembers DEF Existing
<1>2. AskedByFiles(names) = UNION {Said(names[i]) : i \in First}
  BY DEF AskedByFiles, Said
<1>3. CASE there = <<>>
  <2>1. In(there) = {}
    BY <1>3 DEF In
  <2>2. First = {}
    <3> HIDE DEF there
    <3> QED
      BY <1>1, <2>1 DEF In
  <2>3. Range(parse_requirements(names)) = {}
    BY <1>3 DEF parse_requirements, Range
  <2> QED
    BY <1>2, <2>2, <2>3
<1>4. CASE there # <<>>
  <2>1. PICK at \in [1..Len(there) -> 1..Len(names)] :
          /\ \A i \in 1..Len(there) : there[i] = names[at[i]]
          /\ \A i, j \in 1..Len(there) : i < j => at[i] < at[j]
          /\ \A k \in 1..Len(names) : names[k] \in Readable <=> \E i \in 1..Len(there) : at[i] = k
    BY KeepSelects DEF Existing
  <2>2. FirstFile(names) = Head(there)
    BY DEF FirstFile
  <2>3. parse_requirements(names) = FileReqs[MaxNesting][FirstFile(names)]
    BY <1>4 DEF parse_requirements
  <2> HIDE DEF there
  <2>4. Len(there) \in Nat /\ Len(there) # 0
    BY <1>1, <1>4
  <2>5. Head(there) = there[1] /\ 1 \in 1..Len(there)
    BY <1>1, <1>4, <2>4
  <2>6. at[1] \in First
    <3>1. at[1] \in 1..Len(names) /\ names[at[1]] \in Readable
      BY <2>1, <2>5
    <3>2. ASSUME NEW j \in 1..at[1] - 1, names[j] \in Readable PROVE FALSE
      <4>1. j \in 1..Len(names)
        BY <1>1, <3>1
      <4>2. PICK i \in 1..Len(there) : at[i] = j
        BY <2>1, <3>2, <4>1
      <4>3. i = 1 \/ at[1] < at[i]
        BY <2>1, <2>4, <2>5
      <4>4. at[1] \in Nat /\ j \in Nat /\ j < at[1]
        BY <1>1, <3>1
      <4> QED
        BY <4>2, <4>3, <4>4
    <3> QED
      BY <3>1, <3>2
  <2>7. \A i \in First : i = at[1]
    <3> SUFFICES ASSUME NEW i \in First, i # at[1] PROVE FALSE
      OBVIOUS
    <3>1. at[1] \in Nat /\ i \in Nat
      BY <1>1, <2>6
    <3>2. CASE i < at[1]
      BY <2>6, <3>1, <3>2
    <3>3. CASE at[1] < i
      BY <2>6, <3>1, <3>3
    <3> QED
      BY <3>1, <3>2, <3>3
  <2>8. FirstFile(names) = names[at[1]] /\ FirstFile(names) \in Readable
    BY <2>1, <2>2, <2>5, <2>6
  <2>9. First = {at[1]}
    BY <2>6, <2>7
  <2> HIDE DEF First
  <2>10. Range(parse_requirements(names)) = In(FileReqs[MaxNesting][FirstFile(names)])
    <3>1. FileReqs[MaxNesting][FirstFile(names)] \in Seq(Required)
      <4>1. MaxNesting \in 0..MaxNesting
        BY RequirementAssumption
      <4> QED
        BY <2>8, <4>1, FileReqsAre DEF Readable
    <3> QED
      BY <2>3, <3>1, RangeIsIn
  <2>11. In(FileReqs[MaxNesting][FirstFile(names)]) = Said(FirstFile(names))
    BY <2>8, <2>10, ReachedFilesSay
  <2> QED
    BY <1>2, <2>8, <2>9, <2>10, <2>11
<1> QED
  BY <1>3, <1>4

(* Two lists put together have the members of both.                        *)
LEMMA ConcatRange ==
    ASSUME NEW S, NEW s \in Seq(S), NEW t \in Seq(S)
    PROVE  s \o t \in Seq(S) /\ Range(s \o t) = Range(s) \cup Range(t)
PROOF
<1>1. /\ s \o t \in Seq(S) /\ Len(s \o t) = Len(s) + Len(t)
      /\ \A i \in 1..Len(s) + Len(t) :
           (s \o t)[i] = IF i <= Len(s) THEN s[i] ELSE t[i - Len(s)]
  BY ConcatProperties
<1>2. /\ Len(s) \in Nat /\ Len(t) \in Nat /\ Range(s) = In(s) /\ Range(t) = In(t)
  BY RangeIsIn
<1>3. Range(s \o t) = In(s \o t)
  BY <1>1, RangeIsIn
<1> DEFINE u == s \o t
<1>4. Len(u) = Len(s) + Len(t) /\ \A i \in 1..Len(u) :
        u[i] = IF i <= Len(s) THEN s[i] ELSE t[i - Len(s)]
  BY <1>1
<1> HIDE DEF u
<1>5. In(u) \subseteq In(s) \cup In(t)
  <2> SUFFICES ASSUME NEW i \in 1..Len(u) PROVE u[i] \in In(s) \cup In(t)
    BY DEF In
  <2>1. CASE i <= Len(s)
    BY <1>2, <1>4, <2>1 DEF In
  <2>2. CASE i > Len(s)
    <3>1. i - Len(s) \in 1..Len(t)
      BY <1>2, <1>4, <2>2
    <3> QED
      BY <1>2, <1>4, <2>2, <3>1 DEF In
  <2> QED
    BY <1>2, <1>4, <2>1, <2>2
<1>6. In(s) \subseteq In(u)
  <2> SUFFICES ASSUME NEW i \in 1..Len(s) PROVE s[i] \in In(u)
    BY DEF In
  <2>1. i \in 1..Len(u) /\ u[i] = s[i]
    BY <1>2, <1>4
  <2> QED
    BY <2>1 DEF In
<1>7. In(t) \subseteq In(u)
  <2> SUFFICES ASSUME NEW i \in 1..Len(t) PROVE t[i] \in In(u)
    BY DEF In
  <2>1. /\ Len(s) + i \in 1..Len(u) /\ ~ (Len(s) + i <= Len(s))
        /\ (Len(s) + i) - Len(s) = i
    BY <1>2, <1>4
  <2>2. u[Len(s) + i] = t[i]
    BY <1>4, <2>1
  <2> QED
    BY <2>1, <2>2 DEF In
<1> QED
  BY <1>1, <1>2, <1>3, <1>5, <1>6, <1>7 DEF u

(* Taking the markers off does not hide that files were nested too deep.   *)
LEMMA NoneTooDeep ==
    ASSUME NEW s \in Seq(Required), NEW t \in Seq(Required),
           Overflow \notin Range(s \o strip_markers(t))
    PROVE  Overflow \notin Range(s) /\ Overflow \notin Range(t)
PROOF
<1> DEFINE w == strip_markers(t)
           Either == Range(s) \cup {w[i] : i \in 1..Len(t)}
<1>1. /\ Len(s) \in Nat /\ Len(t) \in Nat /\ Range(s) = In(s) /\ Range(t) = In(t)
  BY RangeIsIn
<1>2. /\ w = [i \in 1..Len(t) |-> [t[i] EXCEPT !.marker = ""]]
      /\ \A i \in 1..Len(t) : w[i] = [t[i] EXCEPT !.marker = ""]
  BY DEF strip_markers
<1> HIDE DEF w
<1>3. w \in Seq(Either) /\ Len(w) = Len(t)
  <2> DEFINE e(i) == [t[i] EXCEPT !.marker = ""]
  <2>1. w = [i \in 1..Len(t) |-> e(i)] /\ \A i \in 1..Len(t) : e(i) \in Either
    BY <1>2
  <2> HIDE DEF Either, e
  <2> QED
    BY <1>1, <2>1
<1>4. s \in Seq(Either)
  <2>1. \A i \in 1..Len(s) : s[i] \in Either
    BY <1>1 DEF In
  <2>2. s = [i \in 1..Len(s) |-> s[i]]
    OBVIOUS
  <2> HIDE DEF Either
  <2> QED
    BY <1>1, <2>1, <2>2
<1> HIDE DEF Either
<1>5. Range(s \o w) = Range(s) \cup Range(w) /\ Range(w) = In(w)
  BY <1>3, <1>4, ConcatRange, RangeIsIn
<1>6. Overflow \notin Range(s) /\ Overflow \notin In(w)
  BY <1>5 DEF w
<1>7. [Overflow EXCEPT !.marker = ""] = Overflow
  <2> DEFINE R == [pkg : {"RecursionError"}, marker : {""}]
  <2>1. Overflow \in R
    BY DEF Overflow
  <2>2. \A r \in R : [r EXCEPT !.marker = ""] = r
    OBVIOUS
  <2> QED
    BY <2>1, <2>2
<1>8. ASSUME NEW i \in 1..Len(t), t[i] = Overflow PROVE FALSE
  <2>1. w[i] = Overflow
    BY <1>2, <1>7, <1>8
  <2> QED
    BY <1>3, <1>6, <2>1 DEF In
<1> QED
  BY <1>1, <1>6, <1>8 DEF In

(* The packages of a list of requirements.                                 *)
LEMMA PackagesOf ==
    ASSUME NEW s, NEW t, t = [i \in 1..Len(s) |-> s[i].pkg]
    PROVE  Range(t) = {r.pkg : r \in In(s)}
PROOF
<1>1. DOMAIN t = 1..Len(s) /\ \A i \in 1..Len(s) : t[i] = s[i].pkg
  OBVIOUS
<1>2. \A x \in Range(t) : \E r \in In(s) : x = r.pkg
  BY <1>1 DEF Range, In
<1>3. \A r \in In(s) : r.pkg \in Range(t)
  <2> SUFFICES ASSUME NEW i \in 1..Len(s) PROVE s[i].pkg \in Range(t)
    BY DEF In
  <2> QED
    BY <1>1 DEF Range
<1> QED
  BY <1>2, <1>3

(* What is required in a group where the markers true hold, by the         *)
(* arguments and by the lists.                                             *)
Gathered(requires, true, g) ==
    UNION {Range(requires[k]) :
             k \in {k \in DOMAIN requires : k[1] = g /\ k[2] \in true \cup {""}}}

Wanted(reqs, true) == {r.pkg : r \in {r \in Range(reqs) : r.marker \in true \cup {""}}}

(* Nothing is required where it was not asked for, and everything where it *)
(* was.                                                                    *)
LEMMA RequiresExactly ==
    ASSUME NEW cmd, NEW all, NEW true, NEW g \in DOMAIN all,
           \A h \in DOMAIN all : all[h] \in Seq(Required),
           "" \in DOMAIN all,
           cmd = "bdist_wheel" \/ true = TrueMarkers
    PROVE  Gathered(extras_require(cmd, all), true, g) = Wanted(all[g], true)
PROOF
<1> DEFINE requires == extras_require(cmd, all)
<1>1. ASSUME NEW k \in ReqKeys(cmd, all) PROVE k[1] \in DOMAIN all
  <2>1. CASE k = <<"", "">>
    <3>1. k[1] = ""
      BY <2>1
    <3> QED
      BY <3>1
  <2>2. CASE \E h \in DOMAIN all : k \in KeysOf(cmd, h, all[h])
    <3>1. PICK h \in DOMAIN all : k \in KeysOf(cmd, h, all[h])
      BY <2>2
    <3>2. PICK i \in 1..Len(all[h]) : k = Key(cmd, h, all[h][i].marker)
      BY <3>1 DEF KeysOf
    <3>3. k[1] = h
      BY <3>2 DEF Key
    <3> QED
      BY <3>3
  <2>3. k \in UNION {KeysOf(cmd, h, all[h]) : h \in DOMAIN all} \/ k = <<"", "">>
    BY DEF ReqKeys
  <2>4. CASE k \in UNION {KeysOf(cmd, h, all[h]) : h \in DOMAIN all}
    <3>1. PICK s \in {KeysOf(cmd, h, all[h]) : h \in DOMAIN all} : k \in s
      BY <2>4
    <3> QED
      BY <2>2, <3>1
  <2> QED
    BY <2>1, <2>3, <2>4
<1>2. ASSUME NEW k \in ReqKeys(cmd, all)
      PROVE  Range(requires[k]) =
               {r.pkg : r \in {r \in In(all[k[1]]) : Key(cmd, k[1], r.marker) = k}}
  <2> DEFINE here == Under(cmd, all, k)
  <2>1. all[k[1]] \in Seq(Required)
    BY <1>1
  <2>2. Range(all[k[1]]) = In(all[k[1]])
    BY <2>1, RangeIsIn
  <2>3. In(here) = {r \in In(all[k[1]]) : Key(cmd, k[1], r.marker) = k}
    <3> DEFINE D == {r \in Range(all[k[1]]) : Key(cmd, k[1], r.marker) = k}
    <3>1. here = Keep(all[k[1]], D)
      BY DEF Under
    <3> HIDE DEF here, D
    <3>2. In(here) = In(all[k[1]]) \cap D
      BY <2>1, <3>1, KeepMembers
    <3> QED
      BY <2>2, <3>2, Zenon DEF D
  <2>4. requires[k] = [i \in 1..Len(here) |-> here[i].pkg]
    BY DEF extras_require
  <2> HIDE DEF here, requires
  <2>5. Range(requires[k]) = {r.pkg : r \in In(here)}
    BY <2>4, PackagesOf
  <2> QED
    BY <2>3, <2>5
<1>3. DOMAIN requires = ReqKeys(cmd, all)
  BY DEF extras_require
<1>4. Range(all[g]) = In(all[g])
  BY RangeIsIn
<1> HIDE DEF requires
(* A marker is in question at a place where its key is.                    *)
<1>5. \A m : /\ Key(cmd, g, m)[1] = g
             /\ Key(cmd, g, m)[2] \in true \cup {""} <=> m \in true \cup {""}
  BY DEF Key
<1>6. ASSUME NEW r \in In(all[g]), r.marker \in true \cup {""}
      PROVE  \E k \in ReqKeys(cmd, all) : /\ k[1] = g /\ k[2] \in true \cup {""}
                             /\ r.pkg \in Range(requires[k])
  <2> DEFINE k == Key(cmd, g, r.marker)
  <2>1. k \in ReqKeys(cmd, all)
    <3>1. PICK i \in 1..Len(all[g]) : r = all[g][i]
      BY DEF In
    <3>2. k \in KeysOf(cmd, g, all[g])
      BY <3>1 DEF KeysOf
    <3> QED
      BY <3>2 DEF ReqKeys
  <2>2. k[1] = g /\ k[2] \in true \cup {""}
    BY <1>5, <1>6
  <2>3. r.pkg \in Range(requires[k])
    <3> HIDE DEF k
    <3> QED
      BY <1>2, <2>1, <2>2 DEF k
  <2> QED
    BY <2>1, <2>2, <2>3
<1>7. ASSUME NEW k \in ReqKeys(cmd, all), k[1] = g, k[2] \in true \cup {""},
             NEW x \in Range(requires[k])
      PROVE  \E r \in In(all[g]) : r.marker \in true \cup {""} /\ x = r.pkg
  <2>1. PICK r \in In(all[g]) : Key(cmd, g, r.marker) = k /\ x = r.pkg
    BY <1>2, <1>7
  <2> QED
    BY <1>5, <1>7, <2>1
<1> DEFINE asked == {r \in Range(all[g]) : r.marker \in true \cup {""}}
           where == {k \in DOMAIN requires : k[1] = g /\ k[2] \in true \cup {""}}
<1>8. \A k \in where : \A x \in Range(requires[k]) : \E r \in asked : x = r.pkg
  BY <1>3, <1>4, <1>7
<1>9. \A r \in asked : \E k \in where : r.pkg \in Range(requires[k])
  BY <1>3, <1>4, <1>6
<1> HIDE DEF asked, where
<1>10. UNION {Range(requires[k]) : k \in where} = {r.pkg : r \in asked}
  BY <1>8, <1>9, ZenonT(30)
<1> QED
  BY <1>10 DEF asked, where, requires, Gathered, Wanted

(***************************************************************************)
(* Data files                                                              *)
(***************************************************************************)
LineTarget == Seq(STRING) \cup {<<"man", s>> : s \in STRING}
LineGlob == STRING \cup {""}
DataLine == [target : LineTarget, files : Seq(STRING), glob : LineGlob]

(* The line that Line makes.                                               *)
LEMMA LineIs ==
    ASSUME NEW t \in LineTarget, NEW fs \in Seq(STRING)
    PROVE  Line(t, fs) \in DataLine /\ Line(t, fs).target = t /\ Line(t, fs).files = fs
PROOF
<1>1. "" \in LineGlob
  BY DEF LineGlob
<1> QED
  BY <1>1 DEF Line, DataLine

(* Lists of lines that begin with a target.                                *)
Headed(lines) == lines \in Seq(DataLine) /\ (lines # <<>> => lines[1].target # <<>>)

(* The target of a line is the last one named, its own if it names one.    *)
LEMMA TargetIs ==
    ASSUME NEW lines, Headed(lines), NEW i \in 1..Len(lines)
    PROVE  /\ Target(lines, i) \in {lines[k].target : k \in 1..Len(lines)} \ {<<>>}
           /\ lines[i].target # <<>> => Target(lines, i) = lines[i].target
PROOF
<1>1. Len(lines) \in Nat /\ i \in Nat /\ lines[1].target # <<>>
  BY DEF Headed
<1> DEFINE Set(j) == lines[j].target # <<>> /\ \A k \in j + 1..i : lines[k].target = <<>>
<1>2. \E j \in 1..i : Set(j)
  <2> DEFINE S == {j \in 1..i : lines[j].target # <<>>}
  <2>1. S \in SUBSET (0..i) /\ S # {}
    BY <1>1
  <2>2. PICK j \in S : \A k \in S : k <= j
    BY <1>1, <2>1, GreatestElement
  <2>3. \A k \in j + 1..i : k \in 1..i /\ ~ (k <= j)
    BY <1>1, <2>2
  <2> QED
    BY <2>2, <2>3
<1> DEFINE c == CHOOSE j \in 1..i : Set(j)
<1>3. c \in 1..i /\ Set(c)
  BY <1>2
<1>4. Target(lines, i) = lines[c].target
  BY DEF Target
<1> HIDE DEF c
<1>5. lines[i].target # <<>> => c = i
  BY <1>1, <1>3
<1>6. c \in 1..Len(lines)
  BY <1>1, <1>3
<1> QED
  BY <1>3, <1>4, <1>5, <1>6

(* Each file goes to the target of its line.                               *)
LEMMA FilesGo ==
    ASSUME NEW lines, Headed(lines), NEW f
    PROVE  LET D == data_files_of(lines)
           IN  {t \in DOMAIN D : f \in Range(D[t])}
                 = {Target(lines, i) : i \in {i \in 1..Len(lines) : f \in In(lines[i].files)}}
PROOF
<1> DEFINE D == data_files_of(lines)
           T == {lines[i].target : i \in 1..Len(lines)} \ {<<>>}
           Part(t) == [i \in 1..Len(lines) |->
                          IF Target(lines, i) = t THEN lines[i].files ELSE <<>>]
<1>0. Len(lines) \in Nat /\ \A i \in 1..Len(lines) : lines[i].files \in Seq(STRING)
  <2>1. \A l \in DataLine : l.files \in Seq(STRING)
    BY DEF DataLine
  <2>2. Len(lines) \in Nat /\ \A i \in 1..Len(lines) : lines[i] \in DataLine
    BY DEF Headed
  <2> QED
    BY <2>1, <2>2
<1>1. DOMAIN D = T
  BY DEF data_files_of
<1>2. ASSUME NEW t \in T PROVE D[t] = FlattenSeq(Part(t))
  BY DEF data_files_of
<1> HIDE DEF D, T
<1>3. ASSUME NEW t \in T
      PROVE  f \in Range(D[t]) <=>
               \E i \in 1..Len(lines) : Target(lines, i) = t /\ f \in In(lines[i].files)
  <2> DEFINE s == Part(t)
  <2>1. /\ s \in Seq(Seq(STRING)) /\ Len(s) = Len(lines)
        /\ \A i \in 1..Len(lines) :
             s[i] = IF Target(lines, i) = t THEN lines[i].files ELSE <<>>
    <3> DEFINE e(i) == IF Target(lines, i) = t THEN lines[i].files ELSE <<>>
    <3>1. \A i \in 1..Len(lines) : e(i) \in Seq(STRING)
      <4>1. <<>> \in Seq(STRING)
        OBVIOUS
      <4>2. \A i \in 1..Len(lines) : e(i) = lines[i].files \/ e(i) = <<>>
        OBVIOUS
      <4> HIDE DEF e
      <4> QED
        BY <1>0, <4>1, <4>2
    <3>2. s = [i \in 1..Len(lines) |-> e(i)]
      OBVIOUS
    <3> HIDE DEF e, s
    <3>3. s \in Seq(Seq(STRING)) /\ Len(s) = Len(lines) /\ \A i \in 1..Len(lines) : s[i] = e(i)
      BY <1>0, <3>1, <3>2
    <3> QED
      BY <3>3 DEF e
  <2> HIDE DEF s
  <2>2. D[t] \in Seq(STRING) /\ In(D[t]) = UNION {In(s[i]) : i \in 1..Len(s)}
    <3>1. D[t] = FlattenSeq(s)
      BY <1>2 DEF s
    <3> QED
      BY <2>1, <3>1, FlattenMembers
  <2>3. Range(D[t]) = In(D[t])
    BY <2>2, RangeIsIn
  <2>4. In(<<>>) = {}
    BY DEF In
  <2>5. f \in In(D[t]) <=> \E i \in 1..Len(lines) : f \in In(s[i])
    BY <2>1, <2>2
  <2> QED
    BY <2>1, <2>3, <2>4, <2>5
<1>4. \A i \in 1..Len(lines) : Target(lines, i) \in T
  BY TargetIs DEF T
<1> QED
  BY <1>1, <1>3, <1>4 DEF D

(* SetToSeq lists a finite set.                                            *)
LEMMA ListOfSet ==
    ASSUME NEW S, IsFiniteSet(S)
    PROVE  /\ SetToSeq(S) \in Seq(S)
           /\ \A i, j \in 1..Len(SetToSeq(S)) : SetToSeq(S)[i] = SetToSeq(S)[j] => i = j
           /\ \A x \in S : \E i \in 1..Len(SetToSeq(S)) : SetToSeq(S)[i] = x
PROOF
<1> DEFINE n == Cardinality(S)
           s == SetToSeq(S)
<1>1. n \in Nat /\ ExistsBijection(1..n, S)
  BY FS_CardinalityType
<1>2. \E f \in [1..n -> S] : IsInjective(f)
  <2>1. PICK f : f \in Bijection(1..n, S)
    BY <1>1, Fun_ExistsBij
  <2>2. f \in [1..n -> S] /\ \A a, b \in 1..n : f[a] = f[b] => a = b
    BY <2>1, Fun_BijectionProperties
  <2> QED
    BY <2>2 DEF IsInjective
<1>3. s \in [1..n -> S] /\ IsInjective(s)
  BY <1>2 DEF SetToSeq
<1> HIDE DEF s, n
<1>4. \A a, b \in 1..n : s[a] = s[b] => a = b
  BY <1>3 DEF IsInjective
<1>5. s \in Injection(1..n, S)
  BY <1>3, <1>4, Fun_IsInj
<1>6. Cardinality(1..n) = n
  BY <1>1, FS_Interval
<1>7. s \in Surjection(1..n, S)
  BY <1>5, <1>6, FS_Injection DEF n
<1>8. s \in Seq(S) /\ Len(s) = n
  BY <1>1, <1>3
<1>9. \A x \in S : \E i \in 1..n : s[i] = x
  <2> DEFINE I == 1..n
  <2>1. s \in Surjection(I, S)
    BY <1>7
  <2> HIDE DEF I
  <2>2. \A x \in S : \E i \in I : s[i] = x
    BY <2>1, Fun_SurjectionProperties
  <2> QED
    BY <2>2 DEF I
<1> QED
  BY <1>4, <1>8, <1>9 DEF s

(* Man pages go by their section.                                          *)
LEMMA SectionsAre ==
    ASSUME NEW q \in DOMAIN Project
    PROVE  LET p == Project[q]
               sections == Sections(p)
           IN  /\ sections \in Seq(STRING)
               /\ \A i, j \in 1..Len(sections) : sections[i] = sections[j] => i = j
               /\ \A m \in In(p.manpages) : \E i \in 1..Len(sections) : sections[i] = m.section
PROOF
<1> DEFINE m == Project[q].manpages
           S == {m[i].section : i \in 1..Len(m)}
           n == Len(m)
           f == [i \in 1..n |-> m[i].section]
<1>1. n \in Nat /\ \A i \in 1..n : m[i] \in [page : STRING, section : STRING]
  <2> DEFINE M == [page : STRING, section : STRING]
  <2>1. m \in Seq(M)
    BY FileAssumption
  <2> HIDE DEF m, M
  <2>2. n \in Nat /\ \A i \in 1..n : m[i] \in M
    BY <2>1
  <2> QED
    BY <2>2 DEF M
<1>2. f \in [1..n -> S] /\ \A x \in S : \E i \in 1..n : f[i] = x
  OBVIOUS
<1>3. S \subseteq STRING
  BY <1>1
<1>4. IsFiniteSet(S)
  <2> DEFINE I == 1..n
  <2> HIDE DEF f, n, S
  <2>1. IsFiniteSet(I)
    BY <1>1, FS_Interval
  <2>2. f \in [I -> S] /\ \A x \in S : \E i \in I : f[i] = x
    BY <1>2
  <2> HIDE DEF I
  <2>3. f \in Surjection(I, S)
    BY <2>2, Fun_IsSurj
  <2> QED
    BY <2>1, <2>3, FS_Surjection
<1>5. \A x \in In(m) : x.section \in S
  BY DEF In
<1>6. Sections(Project[q]) = SetToSeq(S)
  BY DEF Sections
<1> HIDE DEF S, n, f, m
<1>7. /\ SetToSeq(S) \in Seq(S)
      /\ \A i, j \in 1..Len(SetToSeq(S)) : SetToSeq(S)[i] = SetToSeq(S)[j] => i = j
      /\ \A x \in S : \E i \in 1..Len(SetToSeq(S)) : SetToSeq(S)[i] = x
  BY <1>4, ListOfSet
<1>8. SetToSeq(S) \in Seq(STRING)
  <2> DEFINE s == SetToSeq(S)
  <2>1. s \in Seq(S)
    BY <1>7
  <2> HIDE DEF s
  <2>2. Len(s) \in Nat /\ s \in [1..Len(s) -> S]
    BY <2>1
  <2>3. s \in [1..Len(s) -> STRING]
    BY <1>3, <2>2
  <2>4. s \in Seq(STRING)
    BY <2>2, <2>3
  <2> QED
    BY <2>4 DEF s
<1> QED
  BY <1>5, <1>6, <1>7, <1>8 DEF m

(* The pages of a section.                                                 *)
LEMMA PagesAre ==
    ASSUME NEW q \in DOMAIN Project, NEW section
    PROVE  LET p == Project[q]
           IN  /\ PagesOf(p, section) \in Seq(STRING)
               /\ In(PagesOf(p, section)) =
                    {m.page : m \in {m \in In(p.manpages) : m.section = section}}
PROOF
<1> DEFINE ms == Project[q].manpages
           M == [page : STRING, section : STRING]
           here == Keep(ms, {m \in Range(ms) : m.section = section})
           pages == [j \in 1..Len(here) |-> here[j].page]
<1>1. ms \in Seq(M)
  BY FileAssumption
<1>2. Range(ms) = In(ms)
  BY <1>1, RangeIsIn
<1>3. here \in Seq(M) /\ In(here) = {m \in In(ms) : m.section = section}
  BY <1>1, <1>2, KeepSelects, KeepMembers
<1>4. PagesOf(Project[q], section) = pages
  BY DEF PagesOf
<1> HIDE DEF here, ms
<1>5. Len(here) \in Nat /\ \A j \in 1..Len(here) : here[j].page \in STRING
  <2>1. \A m \in M : m.page \in STRING
    OBVIOUS
  <2> HIDE DEF M
  <2>2. Len(here) \in Nat /\ \A j \in 1..Len(here) : here[j] \in M
    BY <1>3
  <2> QED
    BY <2>1, <2>2
<1>6. /\ pages \in Seq(STRING) /\ Len(pages) = Len(here)
      /\ \A j \in 1..Len(here) : pages[j] = here[j].page
  BY <1>5
<1> HIDE DEF pages
<1>7. In(pages) = {m.page : m \in In(here)}
  BY <1>6 DEF In
<1> QED
  BY <1>3, <1>4, <1>6, <1>7 DEF ms

(* What setup.cfg says of a project's data files.                          *)
LEMMA DataFilesAre ==
    ASSUME NEW q \in DOMAIN Project
    PROVE  LET p == Project[q]
           IN  /\ Len(p.data_files) \in Nat
               /\ \A i \in 1..Len(p.data_files) :
                    LET l == p.data_files[i]
                        dirs == p.dirs[l.glob]
                    IN  /\ l \in [target : Seq(STRING), files : Seq(STRING), glob : STRING]
                        /\ l.glob # "" =>
                             /\ l.files = <<>>
                             /\ Len(dirs) \in Nat
                             /\ Range(dirs) = In(dirs)
                             /\ \A j \in 1..Len(dirs) :
                                  dirs[j].sub \in Seq(STRING) /\ dirs[j].files \in Seq(STRING)
PROOF
<1> DEFINE p == Project[q]
           D == [target : Seq(STRING), files : Seq(STRING), glob : STRING]
           B == [sub : Seq(STRING), files : Seq(STRING)]
<1>1. /\ p.data_files \in Seq(D)
      /\ \A i \in 1..Len(p.data_files) :
           p.data_files[i].glob # "" =>
             p.data_files[i].glob \in DOMAIN p.dirs /\ p.data_files[i].files = <<>>
      /\ \A g \in DOMAIN p.dirs : p.dirs[g] \in Seq(B)
  BY FileAssumption
<1>2. \A b \in B : b.sub \in Seq(STRING) /\ b.files \in Seq(STRING)
  OBVIOUS
<1> HIDE DEF p, D, B
<1>3. \A g \in DOMAIN p.dirs :
        /\ Len(p.dirs[g]) \in Nat /\ Range(p.dirs[g]) = In(p.dirs[g])
        /\ \A j \in 1..Len(p.dirs[g]) : p.dirs[g][j] \in B
  <2> SUFFICES ASSUME NEW g \in DOMAIN p.dirs
               PROVE  /\ Len(p.dirs[g]) \in Nat /\ Range(p.dirs[g]) = In(p.dirs[g])
                      /\ \A j \in 1..Len(p.dirs[g]) : p.dirs[g][j] \in B
    OBVIOUS
  <2> DEFINE d == p.dirs[g]
  <2>1. d \in Seq(B)
    BY <1>1
  <2> HIDE DEF d
  <2>2. /\ Len(d) \in Nat /\ \A j \in 1..Len(d) : d[j] \in B
        /\ Range(d) = In(d)
    BY <2>1, RangeIsIn
  <2> QED
    BY <2>2 DEF d
<1>4. Len(p.data_files) \in Nat /\ \A i \in 1..Len(p.data_files) : p.data_files[i] \in D
  <2> DEFINE s == p.data_files
  <2>1. s \in Seq(D)
    BY <1>1
  <2> HIDE DEF s
  <2>2. Len(s) \in Nat /\ \A i \in 1..Len(s) : s[i] \in D
    BY <2>1
  <2> QED
    BY <2>2 DEF s
<1>5. ASSUME NEW i \in 1..Len(p.data_files), p.data_files[i].glob # ""
      PROVE  LET dirs == p.dirs[p.data_files[i].glob]
             IN  /\ p.data_files[i].files = <<>>
                 /\ Len(dirs) \in Nat /\ Range(dirs) = In(dirs)
                 /\ \A j \in 1..Len(dirs) :
                      dirs[j].sub \in Seq(STRING) /\ dirs[j].files \in Seq(STRING)
  BY <1>1, <1>2, <1>3, <1>5
<1> QED
  BY <1>4, <1>5 DEF p, D

(* The lines expand_globs makes of one.                                    *)
LEMMA ExpandedIs ==
    ASSUME NEW q \in DOMAIN Project, NamedOnce(Project[q]),
           NEW i \in 1..Len(Project[q].data_files)
    PROVE  LET p == Project[q]
               l == p.data_files[i]
               dirs == p.dirs[l.glob]
               piece == Expanded(p, l)
           IN  /\ piece \in Seq(DataLine)
               /\ \/ l.glob = "" /\ Len(piece) = 1 /\ piece[1] = l
                  \/ /\ l.glob # "" /\ Len(piece) = Len(dirs) /\ Len(dirs) \in Nat
                     /\ \A j \in 1..Len(dirs) :
                          /\ piece[j].target = l.target \o dirs[j].sub
                          /\ piece[j].target # <<>>
                          /\ piece[j].files = dirs[j].files
               /\ \A j \in 1..Len(piece) : In(piece[j].files) \subseteq LineFiles(p, i)
PROOF
<1> DEFINE p == Project[q]
           l == p.data_files[i]
           dirs == p.dirs[l.glob]
           piece == Expanded(p, l)
<1>1. /\ l \in [target : Seq(STRING), files : Seq(STRING), glob : STRING]
      /\ l.glob # "" => /\ Len(dirs) \in Nat
                        /\ Range(dirs) = In(dirs)
                        /\ \A j \in 1..Len(dirs) :
                             dirs[j].sub \in Seq(STRING) /\ dirs[j].files \in Seq(STRING)
  BY DataFilesAre
<1>2. l.glob # "" => l.target # <<>>
  BY DEF NamedOnce
<1>3. CASE l.glob = ""
  <2>1. piece = <<l>>
    BY <1>3 DEF Expanded
  <2>2. l \in DataLine
    BY <1>1 DEF DataLine, LineTarget, LineGlob
  <2>3. piece \in Seq(DataLine) /\ Len(piece) = 1 /\ piece[1] = l
    BY <2>1, <2>2
  <2>4. In(l.files) \subseteq LineFiles(p, i)
    <3>1. l.files \in Seq(STRING)
      BY <1>1
    <3> QED
      BY <1>3, <3>1, RangeIsIn DEF LineFiles
  <2> HIDE DEF piece
  <2>5. \A j \in 1..Len(piece) : In(piece[j].files) \subseteq LineFiles(p, i)
    BY <2>3, <2>4
  <2> QED
    BY <1>3, <2>3, <2>5 DEF piece
<1>4. CASE l.glob # ""
  <2> DEFINE e(j) == Line(l.target \o dirs[j].sub, dirs[j].files)
  <2>1. piece = [j \in 1..Len(dirs) |-> e(j)]
    BY <1>2, <1>4 DEF Expanded
  <2>2. ASSUME NEW j \in 1..Len(dirs)
        PROVE  /\ e(j) \in DataLine
               /\ e(j).target = l.target \o dirs[j].sub /\ e(j).target # <<>>
               /\ e(j).files = dirs[j].files
    <3> DEFINE a == l.target
               b == dirs[j].sub
               c == dirs[j].files
    <3>1. a \in Seq(STRING) /\ b \in Seq(STRING) /\ a # <<>> /\ c \in Seq(STRING)
      BY <1>1, <1>2, <1>4
    <3> HIDE DEF a, b, c
    <3>2. a \o b \in Seq(STRING) /\ Len(a \o b) = Len(a) + Len(b)
      BY <3>1, ConcatProperties
    <3>3. Len(a) \in Nat /\ Len(a) # 0 /\ Len(b) \in Nat
      BY <3>1
    <3>4. a \o b # <<>>
      BY <3>2, <3>3
    <3>5. a \o b \in LineTarget
      BY <3>2 DEF LineTarget
    <3>6. /\ Line(a \o b, c) \in DataLine
          /\ Line(a \o b, c).target = a \o b /\ Line(a \o b, c).files = c
      BY <3>1, <3>5, LineIs
    <3> QED
      BY <3>4, <3>6 DEF a, b, c
  <2> HIDE DEF e, piece
  <2>3. piece \in Seq(DataLine) /\ Len(piece) = Len(dirs) /\ \A j \in 1..Len(dirs) : piece[j] = e(j)
    <3> DEFINE n == Len(dirs)
    <3>1. /\ n \in Nat /\ \A j \in 1..n : e(j) \in DataLine
          /\ piece = [j \in 1..n |-> e(j)]
      BY <1>1, <1>4, <2>1, <2>2
    <3> HIDE DEF n
    <3>2. piece \in Seq(DataLine) /\ Len(piece) = n /\ \A j \in 1..n : piece[j] = e(j)
      BY <3>1
    <3> QED
      BY <3>2 DEF n
  <2>4. ASSUME NEW j \in 1..Len(dirs) PROVE In(dirs[j].files) \subseteq LineFiles(p, i)
    <3>1. dirs[j] \in Range(dirs)
      BY <1>1, <1>4 DEF In
    <3>2. Range(dirs[j].files) = In(dirs[j].files)
      BY <1>1, <1>4, RangeIsIn
    <3> QED
      BY <1>4, <3>1, <3>2 DEF LineFiles
  <2> QED
    BY <1>1, <1>4, <2>2, <2>3, <2>4 DEF piece
<1> QED
  BY <1>3, <1>4

(* A list of lines no two of which name the same file.                     *)
Distinct(lines) ==
    \A a, b \in 1..Len(lines) : a # b => In(lines[a].files) \cap In(lines[b].files) = {}

(* Lists of lines that have no file in common.                             *)
LEMMA JoinedLines ==
    ASSUME NEW s \in Seq(Seq(DataLine)),
           \A i \in 1..Len(s) : Distinct(s[i]),
           \A i, k \in 1..Len(s) : i # k =>
             \A j \in 1..Len(s[i]) : \A m \in 1..Len(s[k]) :
               In(s[i][j].files) \cap In(s[k][m].files) = {}
    PROVE  LET lines == FlattenSeq(s)
           IN  /\ lines \in Seq(DataLine) /\ Distinct(lines)
               /\ \A a \in 1..Len(lines) : \E i \in 1..Len(s) : lines[a] \in In(s[i])
               /\ \A i \in 1..Len(s) : \A j \in 1..Len(s[i]) :
                    \E a \in 1..Len(lines) : lines[a] = s[i][j]
PROOF
<1> DEFINE lines == FlattenSeq(s)
<1>1. lines \in Seq(DataLine)
  BY FlattenPlaces
<1>2. PICK off \in [1..Len(s) -> Nat] : Placed(s, lines, off)
  BY FlattenPlaces
<1> HIDE DEF lines
<1>3. ASSUME NEW i \in 1..Len(s), NEW j \in 1..Len(s[i])
      PROVE  off[i] + j \in 1..Len(lines) /\ lines[off[i] + j] = s[i][j]
  BY <1>2 DEF Placed
<1>4. ASSUME NEW a \in 1..Len(lines)
      PROVE  \E i \in 1..Len(s) : \E j \in 1..Len(s[i]) : a = off[i] + j
  BY <1>2 DEF Placed
<1>5. Distinct(lines)
  <2> SUFFICES ASSUME NEW a \in 1..Len(lines), NEW b \in 1..Len(lines), a # b
               PROVE  In(lines[a].files) \cap In(lines[b].files) = {}
    BY DEF Distinct
  <2>1. PICK i \in 1..Len(s) : \E j \in 1..Len(s[i]) : a = off[i] + j
    BY <1>4
  <2>2. PICK j \in 1..Len(s[i]) : a = off[i] + j
    BY <2>1
  <2>3. PICK k \in 1..Len(s) : \E m \in 1..Len(s[k]) : b = off[k] + m
    BY <1>4
  <2>4. PICK m \in 1..Len(s[k]) : b = off[k] + m
    BY <2>3
  <2>5. lines[a] = s[i][j] /\ lines[b] = s[k][m]
    BY <1>3, <2>2, <2>4
  <2>6. CASE i = k
    <3>1. m \in 1..Len(s[i]) /\ j # m
      BY <2>2, <2>4, <2>6
    <3>2. In(s[i][j].files) \cap In(s[i][m].files) = {}
      BY <3>1 DEF Distinct
    <3> QED
      BY <2>5, <2>6, <3>2
  <2>7. CASE i # k
    <3>1. \A g \in 1..Len(s[i]) : \A h \in 1..Len(s[k]) :
            In(s[i][g].files) \cap In(s[k][h].files) = {}
      BY <2>7
    <3>2. In(s[i][j].files) \cap In(s[k][m].files) = {}
      BY <3>1
    <3> QED
      BY <2>5, <3>2
  <2> QED
    BY <2>6, <2>7
<1>6. \A a \in 1..Len(lines) : \E i \in 1..Len(s) : lines[a] \in In(s[i])
  <2> SUFFICES ASSUME NEW a \in 1..Len(lines) PROVE \E i \in 1..Len(s) : lines[a] \in In(s[i])
    OBVIOUS
  <2>1. PICK i \in 1..Len(s) : \E j \in 1..Len(s[i]) : a = off[i] + j
    BY <1>4
  <2>2. PICK j \in 1..Len(s[i]) : a = off[i] + j
    BY <2>1
  <2>3. lines[a] = s[i][j]
    BY <1>3, <2>2
  <2> QED
    BY <2>3 DEF In
<1>7. ASSUME NEW i \in 1..Len(s), NEW j \in 1..Len(s[i])
      PROVE  \E a \in 1..Len(lines) : lines[a] = s[i][j]
  BY <1>3
<1> QED
  BY <1>1, <1>5, <1>6, <1>7 DEF lines

(* The lines a line of data_files becomes.                                 *)
LEMMA ExpandedDistinct ==
    ASSUME NEW q \in DOMAIN Project, NamedOnce(Project[q]),
           NEW i \in 1..Len(Project[q].data_files)
    PROVE  LET p == Project[q]
               l == p.data_files[i]
               piece == Expanded(p, l)
           IN  /\ piece \in Seq(DataLine) /\ Distinct(piece)
               /\ \A j \in 1..Len(piece) : In(piece[j].files) \subseteq LineFiles(p, i)
               /\ Range(l.files) = In(l.files)
               /\ \A f \in Range(l.files) : \E j \in 1..Len(piece) : f \in In(piece[j].files)
               /\ l.glob # "" =>
                    \A d \in Below(p, l) : \E j \in 1..Len(piece) :
                      /\ piece[j].target = d[1] /\ piece[j].target # <<>>
                      /\ piece[j].files = d[2]
PROOF
<1> DEFINE p == Project[q]
           l == p.data_files[i]
           dirs == p.dirs[l.glob]
           piece == Expanded(p, l)
<1>1. /\ l.files \in Seq(STRING)
      /\ l.glob # "" => /\ l.files = <<>>
                        /\ Len(dirs) \in Nat
                        /\ Range(dirs) = In(dirs)
                        /\ \A j \in 1..Len(dirs) :
                             dirs[j].sub \in Seq(STRING) /\ dirs[j].files \in Seq(STRING)
  <2>1. /\ l \in [target : Seq(STRING), files : Seq(STRING), glob : STRING]
        /\ l.glob # "" => /\ l.files = <<>>
                          /\ Len(dirs) \in Nat
                          /\ Range(dirs) = In(dirs)
                          /\ \A j \in 1..Len(dirs) :
                               dirs[j].sub \in Seq(STRING) /\ dirs[j].files \in Seq(STRING)
    BY DataFilesAre
  <2> QED
    BY <2>1
<1>2. /\ piece \in Seq(DataLine)
      /\ \/ l.glob = "" /\ Len(piece) = 1 /\ piece[1] = l
         \/ /\ l.glob # "" /\ Len(piece) = Len(dirs) /\ Len(dirs) \in Nat
            /\ \A j \in 1..Len(dirs) :
                 /\ piece[j].target = l.target \o dirs[j].sub
                 /\ piece[j].target # <<>>
                 /\ piece[j].files = dirs[j].files
      /\ \A j \in 1..Len(piece) : In(piece[j].files) \subseteq LineFiles(p, i)
  BY ExpandedIs
<1>3. l.glob # "" => \A j, k \in 1..Len(dirs) : j # k =>
                       Range(dirs[j].files) \cap Range(dirs[k].files) = {}
  BY DEF NamedOnce
<1>4. Range(l.files) = In(l.files)
  BY <1>1, RangeIsIn
<1> HIDE DEF piece, dirs
<1>5. CASE l.glob = ""
  <2>1. Len(piece) = 1 /\ piece[1] = l
    BY <1>2, <1>5
  <2>2. Distinct(piece)
    BY <2>1 DEF Distinct
  <2>3. \A f \in Range(l.files) : \E j \in 1..Len(piece) : f \in In(piece[j].files)
    BY <1>4, <2>1
  <2> QED
    BY <1>2, <1>4, <1>5, <2>2, <2>3 DEF piece
<1>6. CASE l.glob # ""
  <2>1. /\ Len(piece) = Len(dirs)
        /\ \A j \in 1..Len(dirs) :
             /\ piece[j].target = l.target \o dirs[j].sub
             /\ piece[j].target # <<>>
             /\ piece[j].files = dirs[j].files
    BY <1>2, <1>6
  <2>2. \A j \in 1..Len(dirs) : Range(dirs[j].files) = In(dirs[j].files)
    BY <1>1, <1>6, RangeIsIn
  <2>3. Distinct(piece)
    <3> SUFFICES ASSUME NEW j \in 1..Len(piece), NEW k \in 1..Len(piece), j # k
                 PROVE  In(piece[j].files) \cap In(piece[k].files) = {}
      BY DEF Distinct
    <3> QED
      BY <1>3, <1>6, <2>1, <2>2, ZenonT(30)
  <2>4. Range(l.files) = {}
    <3>1. In(<<>>) = {}
      BY DEF In
    <3> QED
      BY <1>1, <1>4, <1>6, <3>1
  <2>5. ASSUME NEW d \in Below(p, l)
        PROVE  \E j \in 1..Len(piece) : /\ piece[j].target = d[1] /\ piece[j].target # <<>>
                                        /\ piece[j].files = d[2]
    <3>1. PICK e \in Range(dirs) : d = <<l.target \o e.sub, e.files>>
      BY DEF Below, dirs
    <3>2. PICK j \in 1..Len(dirs) : e = dirs[j]
      BY <1>1, <1>6 DEF In
    <3>3. d[1] = l.target \o dirs[j].sub /\ d[2] = dirs[j].files
      BY <3>1, <3>2
    <3> QED
      BY <2>1, <3>3
  <2> QED
    BY <1>2, <1>4, <2>3, <2>4, <2>5 DEF piece
<1> QED
  BY <1>5, <1>6

(* Those expand_globs makes of all of them.                                *)
LEMMA ExpandedLines ==
    ASSUME NEW q \in DOMAIN Project, NamedOnce(Project[q])
    PROVE  LET p == Project[q]
               lines == expand_globs(p)
           IN  /\ lines \in Seq(DataLine) /\ Distinct(lines)
               /\ \A a \in 1..Len(lines) : \E i \in 1..Len(p.data_files) :
                    In(lines[a].files) \subseteq LineFiles(p, i)
               /\ \A i \in 1..Len(p.data_files) : \A f \in Range(p.data_files[i].files) :
                    \E a \in 1..Len(lines) : f \in In(lines[a].files)
               /\ \A d \in FilesBelow(p) : \E a \in 1..Len(lines) :
                    /\ lines[a].target = d[1] /\ lines[a].target # <<>>
                    /\ lines[a].files = d[2]
PROOF
<1> DEFINE p == Project[q]
           n == Len(p.data_files)
           lines == expand_globs(p)
           s == [i \in 1..n |-> Expanded(p, p.data_files[i])]
<1>1. n \in Nat
  BY DataFilesAre
<1>2. ASSUME NEW i \in 1..n
      PROVE  /\ s[i] \in Seq(DataLine) /\ Distinct(s[i])
             /\ \A j \in 1..Len(s[i]) : In(s[i][j].files) \subseteq LineFiles(p, i)
             /\ \A f \in Range(p.data_files[i].files) :
                  \E j \in 1..Len(s[i]) : f \in In(s[i][j].files)
             /\ p.data_files[i].glob # "" =>
                  \A d \in Below(p, p.data_files[i]) : \E j \in 1..Len(s[i]) :
                      /\ s[i][j].target = d[1] /\ s[i][j].target # <<>>
                      /\ s[i][j].files = d[2]
  <2>1. s[i] = Expanded(p, p.data_files[i])
    OBVIOUS
  <2> HIDE DEF s
  <2>2. LET piece == Expanded(p, p.data_files[i])
        IN  /\ piece \in Seq(DataLine) /\ Distinct(piece)
            /\ \A j \in 1..Len(piece) : In(piece[j].files) \subseteq LineFiles(p, i)
            /\ \A f \in Range(p.data_files[i].files) :
                 \E j \in 1..Len(piece) : f \in In(piece[j].files)
            /\ p.data_files[i].glob # "" =>
                 \A d \in Below(p, p.data_files[i]) : \E j \in 1..Len(piece) :
                     /\ piece[j].target = d[1] /\ piece[j].target # <<>>
                     /\ piece[j].files = d[2]
    BY ExpandedDistinct
  <2> QED
    BY <2>1, <2>2
<1>3. lines = FlattenSeq(s)
  BY DEF expand_globs
<1>4. s = [i \in 1..n |-> s[i]]
  OBVIOUS
<1>5. \A i, k \in 1..n : i # k => LineFiles(p, i) \cap LineFiles(p, k) = {}
  BY DEF NamedOnce
<1>6. FilesBelow(p) = UNION {Below(p, p.data_files[i]) : i \in {i \in 1..n : p.data_files[i].glob # ""}}
  BY DEF FilesBelow
<1> HIDE DEF s, lines, n, p
<1>7. s \in Seq(Seq(DataLine)) /\ Len(s) = n
  <2>1. \A i \in 1..n : s[i] \in Seq(DataLine)
    BY <1>2
  <2> QED
    BY <1>1, <1>4, <2>1
<1>8. \A i, k \in 1..Len(s) : i # k =>
        \A j \in 1..Len(s[i]) : \A m \in 1..Len(s[k]) :
          In(s[i][j].files) \cap In(s[k][m].files) = {}
  <2> SUFFICES ASSUME NEW i \in 1..n, NEW k \in 1..n, i # k,
                      NEW j \in 1..Len(s[i]), NEW m \in 1..Len(s[k])
               PROVE  In(s[i][j].files) \cap In(s[k][m].files) = {}
    BY <1>7
  <2>1. In(s[i][j].files) \subseteq LineFiles(p, i) /\ In(s[k][m].files) \subseteq LineFiles(p, k)
    BY <1>2
  <2> QED
    BY <1>5, <2>1
<1>9. /\ lines \in Seq(DataLine) /\ Distinct(lines)
      /\ \A a \in 1..Len(lines) : \E i \in 1..Len(s) : lines[a] \in In(s[i])
      /\ \A i \in 1..Len(s) : \A j \in 1..Len(s[i]) :
           \E a \in 1..Len(lines) : lines[a] = s[i][j]
  <2>1. \A i \in 1..Len(s) : Distinct(s[i])
    BY <1>2, <1>7
  <2>2. LET t == FlattenSeq(s)
        IN  /\ t \in Seq(DataLine) /\ Distinct(t)
            /\ \A a \in 1..Len(t) : \E i \in 1..Len(s) : t[a] \in In(s[i])
            /\ \A i \in 1..Len(s) : \A j \in 1..Len(s[i]) :
                 \E a \in 1..Len(t) : t[a] = s[i][j]
    BY <1>7, <1>8, <2>1, JoinedLines
  <2> QED
    BY <1>3, <2>2
<1>10. ASSUME NEW a \in 1..Len(lines)
       PROVE  \E i \in 1..n : In(lines[a].files) \subseteq LineFiles(p, i)
  <2>1. PICK i \in 1..n : lines[a] \in In(s[i])
    BY <1>7, <1>9
  <2>2. PICK j \in 1..Len(s[i]) : lines[a] = s[i][j]
    BY <2>1 DEF In
  <2> QED
    BY <1>2, <2>2
<1>11. ASSUME NEW i \in 1..n, NEW f \in Range(p.data_files[i].files)
       PROVE  \E a \in 1..Len(lines) : f \in In(lines[a].files)
  <2>1. PICK j \in 1..Len(s[i]) : f \in In(s[i][j].files)
    BY <1>2
  <2>2. PICK a \in 1..Len(lines) : lines[a] = s[i][j]
    BY <1>7, <1>9
  <2> QED
    BY <2>1, <2>2
<1>12. ASSUME NEW d \in FilesBelow(p)
       PROVE  \E a \in 1..Len(lines) : /\ lines[a].target = d[1] /\ lines[a].target # <<>>
                                       /\ lines[a].files = d[2]
  <2>1. PICK i \in 1..n : p.data_files[i].glob # "" /\ d \in Below(p, p.data_files[i])
    BY <1>6
  <2>2. PICK j \in 1..Len(s[i]) : /\ s[i][j].target = d[1] /\ s[i][j].target # <<>>
                                  /\ s[i][j].files = d[2]
    BY <1>2, <2>1
  <2>3. PICK a \in 1..Len(lines) : lines[a] = s[i][j]
    BY <1>7, <1>9
  <2> QED
    BY <2>2, <2>3
<1> QED
  BY <1>9, <1>10, <1>11, <1>12 DEF n, p, lines

(* The lines of the man pages.                                             *)
LEMMA ManLinesAre ==
    ASSUME NEW q \in DOMAIN Project, NamedOnce(Project[q])
    PROVE  LET p == Project[q]
               lines == ManLines(p)
           IN  /\ lines \in Seq(DataLine) /\ Distinct(lines)
               /\ \A a \in 1..Len(lines) : \A f \in In(lines[a].files) :
                    \E m \in In(p.manpages) : m.page = f
               /\ \A m \in In(p.manpages) : \E a \in 1..Len(lines) : m.page \in In(lines[a].files)
PROOF
<1> DEFINE p == Project[q]
           lines == ManLines(p)
           S == Sections(p)
           n == Len(S)
           ms == p.manpages
           e(i) == Line(<<"man", S[i]>>, PagesOf(p, S[i]))
<1>1. /\ S \in Seq(STRING)
      /\ \A i, j \in 1..Len(S) : S[i] = S[j] => i = j
      /\ \A m \in In(ms) : \E i \in 1..Len(S) : S[i] = m.section
  BY SectionsAre
<1>2. ASSUME NEW section
      PROVE  /\ PagesOf(p, section) \in Seq(STRING)
             /\ In(PagesOf(p, section)) = {m.page : m \in {m \in In(ms) : m.section = section}}
  BY PagesAre
<1>3. lines = [i \in 1..n |-> e(i)]
  BY DEF ManLines
<1>4. \A m, k \in In(ms) : m.page = k.page => m.section = k.section
  <2>1. \A m, k \in Range(ms) : m.page = k.page => m.section = k.section
    BY DEF NamedOnce
  <2>2. ms \in Seq([page : STRING, section : STRING])
    BY FileAssumption
  <2>3. Range(ms) = In(ms)
    <3> HIDE DEF ms
    <3> QED
      BY <2>2, RangeIsIn
  <2> QED
    BY <2>1, <2>3
<1>5. ASSUME NEW i \in 1..Len(S)
      PROVE  e(i) \in DataLine /\ e(i).files = PagesOf(p, S[i])
  <2>1. S[i] \in STRING
    BY <1>1
  <2>2. <<"man", S[i]>> \in LineTarget
    BY <2>1 DEF LineTarget
  <2> DEFINE t == <<"man", S[i]>>
             fs == PagesOf(p, S[i])
  <2>3. fs \in Seq(STRING) /\ t \in LineTarget
    BY <1>2, <2>2
  <2> HIDE DEF t, fs
  <2>4. Line(t, fs) \in DataLine /\ Line(t, fs).files = fs
    BY <2>3, LineIs
  <2> QED
    BY <2>4 DEF t, fs
<1> HIDE DEF lines, S, ms, e, p
<1>6. /\ lines \in Seq(DataLine) /\ Len(lines) = n
      /\ \A i \in 1..n : lines[i] = e(i)
  <2>1. n \in Nat
    BY <1>1
  <2>2. \A i \in 1..n : e(i) \in DataLine
    BY <1>5
  <2> HIDE DEF n
  <2> QED
    BY <1>3, <2>1, <2>2
<1>7. ASSUME NEW i \in 1..n
      PROVE  In(lines[i].files) = {m.page : m \in {m \in In(ms) : m.section = S[i]}}
  BY <1>2, <1>5, <1>6
<1>8. Distinct(lines)
  <2> SUFFICES ASSUME NEW i \in 1..n, NEW k \in 1..n, i # k,
                      NEW f \in In(lines[i].files), f \in In(lines[k].files)
               PROVE  FALSE
    BY <1>6 DEF Distinct
  <2>1. PICK m \in In(ms) : m.section = S[i] /\ m.page = f
    BY <1>7
  <2>2. PICK o \in In(ms) : o.section = S[k] /\ o.page = f
    BY <1>7
  <2> QED
    BY <1>1, <1>4, <2>1, <2>2
<1>9. ASSUME NEW a \in 1..Len(lines), NEW f \in In(lines[a].files)
      PROVE  \E m \in In(ms) : m.page = f
  BY <1>6, <1>7, SMTT(30)
<1>10. ASSUME NEW m \in In(ms)
       PROVE  \E a \in 1..Len(lines) : m.page \in In(lines[a].files)
  <2>1. PICK i \in 1..n : S[i] = m.section
    BY <1>1
  <2>2. m.page \in In(lines[i].files)
    BY <1>7, <2>1
  <2> QED
    BY <1>6, <2>2
<1> QED
  BY <1>6, <1>8, <1>9, <1>10 DEF lines, p, ms

(* The same for two lists.                                                 *)
LEMMA ConcatLines ==
    ASSUME NEW s \in Seq(DataLine), NEW t \in Seq(DataLine), Distinct(s), Distinct(t),
           \A a \in 1..Len(s) : \A b \in 1..Len(t) : In(s[a].files) \cap In(t[b].files) = {}
    PROVE  /\ s \o t \in Seq(DataLine) /\ Distinct(s \o t)
           /\ \A a \in 1..Len(s) : \E c \in 1..Len(s \o t) : (s \o t)[c] = s[a]
           /\ \A b \in 1..Len(t) : \E c \in 1..Len(s \o t) : (s \o t)[c] = t[b]
PROOF
<1> DEFINE u == s \o t
<1>1. /\ u \in Seq(DataLine) /\ Len(u) = Len(s) + Len(t)
      /\ \A c \in 1..Len(u) : u[c] = IF c <= Len(s) THEN s[c] ELSE t[c - Len(s)]
  BY ConcatProperties
<1>2. Len(s) \in Nat /\ Len(t) \in Nat
  OBVIOUS
<1> HIDE DEF u
<1>3. ASSUME NEW c \in 1..Len(u)
      PROVE  \/ c \in 1..Len(s) /\ u[c] = s[c]
             \/ c > Len(s) /\ c - Len(s) \in 1..Len(t) /\ u[c] = t[c - Len(s)]
  BY <1>1, <1>2
<1>4. Distinct(u)
  <2> SUFFICES ASSUME NEW c \in 1..Len(u), NEW d \in 1..Len(u), c # d
               PROVE  In(u[c].files) \cap In(u[d].files) = {}
    BY DEF Distinct
  <2>1. c \in Nat /\ d \in Nat
    BY <1>1, <1>2
  <2>2. CASE c \in 1..Len(s) /\ u[c] = s[c] /\ d \in 1..Len(s) /\ u[d] = s[d]
    <3>1. In(s[c].files) \cap In(s[d].files) = {}
      BY <2>2 DEF Distinct
    <3> QED
      BY <2>2, <3>1
  <2>3. CASE /\ c > Len(s) /\ c - Len(s) \in 1..Len(t) /\ u[c] = t[c - Len(s)]
             /\ d > Len(s) /\ d - Len(s) \in 1..Len(t) /\ u[d] = t[d - Len(s)]
    <3>1. c - Len(s) # d - Len(s)
      BY <1>2, <2>1
    <3>2. In(t[c - Len(s)].files) \cap In(t[d - Len(s)].files) = {}
      BY <2>3, <3>1 DEF Distinct
    <3> QED
      BY <2>3, <3>2
  <2>4. CASE /\ c \in 1..Len(s) /\ u[c] = s[c]
             /\ d - Len(s) \in 1..Len(t) /\ u[d] = t[d - Len(s)]
    BY <2>4
  <2>5. CASE /\ d \in 1..Len(s) /\ u[d] = s[d]
             /\ c - Len(s) \in 1..Len(t) /\ u[c] = t[c - Len(s)]
    BY <2>5
  <2> QED
    BY <1>3, <2>2, <2>3, <2>4, <2>5
<1>5. ASSUME NEW a \in 1..Len(s) PROVE \E c \in 1..Len(u) : u[c] = s[a]
  <2>1. a \in 1..Len(u) /\ u[a] = s[a]
    BY <1>1, <1>2
  <2> QED
    BY <2>1
<1>6. ASSUME NEW b \in 1..Len(t) PROVE \E c \in 1..Len(u) : u[c] = t[b]
  <2>1. Len(s) + b \in 1..Len(u) /\ (Len(s) + b) - Len(s) = b /\ ~ (Len(s) + b <= Len(s))
    BY <1>1, <1>2
  <2>2. u[Len(s) + b] = t[b]
    BY <1>1, <2>1
  <2> QED
    BY <2>1, <2>2
<1> QED
  BY <1>1, <1>4, <1>5, <1>6 DEF u

(* All that the hook makes of data_files and man pages.                    *)
LinesOf(p) == expand_globs(p) \o ManLines(p)

NamedFiles(p) == (UNION {Range(p.data_files[i].files) : i \in 1..Len(p.data_files)})
                   \cup (UNION {Range(d[2]) : d \in FilesBelow(p)})
                   \cup {m.page : m \in Range(p.manpages)}

(* They name every file in one line, below a "*" that of its directory.    *)
LEMMA LinesAre ==
    ASSUME NEW q \in DOMAIN Project, NamedOnce(Project[q])
    PROVE  LET p == Project[q]
               lines == LinesOf(p)
           IN  /\ lines \in Seq(DataLine) /\ Distinct(lines)
               /\ \A f \in NamedFiles(p) : \E a \in 1..Len(lines) : f \in In(lines[a].files)
               /\ \A d \in FilesBelow(p) : \A f \in Range(d[2]) : \E a \in 1..Len(lines) :
                    /\ lines[a].target = d[1] /\ lines[a].target # <<>>
                    /\ f \in In(lines[a].files)
PROOF
<1> DEFINE p == Project[q]
           s == expand_globs(p)
           t == ManLines(p)
           lines == LinesOf(p)
<1>1. /\ s \in Seq(DataLine) /\ Distinct(s)
      /\ \A a \in 1..Len(s) : \E i \in 1..Len(p.data_files) :
           In(s[a].files) \subseteq LineFiles(p, i)
      /\ \A i \in 1..Len(p.data_files) : \A f \in Range(p.data_files[i].files) :
           \E a \in 1..Len(s) : f \in In(s[a].files)
      /\ \A d \in FilesBelow(p) : \E a \in 1..Len(s) :
           s[a].target = d[1] /\ s[a].target # <<>> /\ s[a].files = d[2]
  BY ExpandedLines
<1>2. /\ t \in Seq(DataLine) /\ Distinct(t)
      /\ \A b \in 1..Len(t) : \A f \in In(t[b].files) : \E m \in In(p.manpages) : m.page = f
      /\ \A m \in In(p.manpages) : \E b \in 1..Len(t) : m.page \in In(t[b].files)
  BY ManLinesAre
<1>3. lines = s \o t
  BY DEF LinesOf
<1>4. Range(p.manpages) = In(p.manpages)
  <2> DEFINE ms == p.manpages
  <2>1. ms \in Seq([page : STRING, section : STRING])
    BY FileAssumption
  <2> HIDE DEF ms
  <2>2. Range(ms) = In(ms)
    BY <2>1, RangeIsIn
  <2> QED
    BY <2>2 DEF ms
<1>5. \A i \in 1..Len(p.data_files) : \A m \in In(p.manpages) : m.page \notin LineFiles(p, i)
  <2>1. \A i \in 1..Len(p.data_files) : \A m \in Range(p.manpages) : m.page \notin LineFiles(p, i)
    BY DEF NamedOnce
  <2> QED
    BY <1>4, <2>1
<1> HIDE DEF s, t, lines, p
<1>6. \A a \in 1..Len(s) : \A b \in 1..Len(t) : In(s[a].files) \cap In(t[b].files) = {}
  <2> SUFFICES ASSUME NEW a \in 1..Len(s), NEW b \in 1..Len(t),
                      NEW f \in In(s[a].files), f \in In(t[b].files)
               PROVE  FALSE
    OBVIOUS
  <2>1. PICK i \in 1..Len(p.data_files) : In(s[a].files) \subseteq LineFiles(p, i)
    BY <1>1
  <2>2. PICK m \in In(p.manpages) : m.page = f
    BY <1>2
  <2> QED
    BY <1>5, <2>1, <2>2
<1>7. /\ lines \in Seq(DataLine) /\ Distinct(lines)
      /\ \A a \in 1..Len(s) : \E c \in 1..Len(lines) : lines[c] = s[a]
      /\ \A b \in 1..Len(t) : \E c \in 1..Len(lines) : lines[c] = t[b]
  <2>1. s \in Seq(DataLine) /\ t \in Seq(DataLine) /\ Distinct(s) /\ Distinct(t)
    BY <1>1, <1>2
  <2>2. /\ s \o t \in Seq(DataLine) /\ Distinct(s \o t)
        /\ \A a \in 1..Len(s) : \E c \in 1..Len(s \o t) : (s \o t)[c] = s[a]
        /\ \A b \in 1..Len(t) : \E c \in 1..Len(s \o t) : (s \o t)[c] = t[b]
    BY <1>6, <2>1, ConcatLines
  <2> QED
    BY <1>3, <2>2
<1>8. ASSUME NEW d \in FilesBelow(p), NEW f \in Range(d[2])
      PROVE  \E a \in 1..Len(lines) : /\ lines[a].target = d[1] /\ lines[a].target # <<>>
                                      /\ f \in In(lines[a].files)
  <2>1. PICK a \in 1..Len(s) : s[a].target = d[1] /\ s[a].target # <<>> /\ s[a].files = d[2]
    BY <1>1
  <2>2. PICK c \in 1..Len(lines) : lines[c] = s[a]
    BY <1>7
  <2>3. s[a].files \in Seq(STRING)
    <3>1. s[a] \in DataLine
      BY <1>1
    <3> QED
      BY <3>1 DEF DataLine
  <2>4. Range(d[2]) = In(d[2])
    BY <2>1, <2>3, RangeIsIn
  <2> QED
    BY <2>1, <2>2, <2>4
<1>9. ASSUME NEW f \in NamedFiles(p)
      PROVE  \E a \in 1..Len(lines) : f \in In(lines[a].files)
  <2>1. CASE \E i \in 1..Len(p.data_files) : f \in Range(p.data_files[i].files)
    <3>1. PICK a \in 1..Len(s) : f \in In(s[a].files)
      BY <1>1, <2>1
    <3> QED
      BY <1>7, <3>1
  <2>2. CASE \E d \in FilesBelow(p) : f \in Range(d[2])
    BY <1>8, <2>2
  <2>3. CASE \E m \in In(p.manpages) : f = m.page
    <3>1. PICK b \in 1..Len(t) : f \in In(t[b].files)
      BY <1>2, <2>3
    <3> QED
      BY <1>7, <3>1
  <2> QED
    BY <1>4, <2>1, <2>2, <2>3 DEF NamedFiles
<1> QED
  BY <1>7, <1>8, <1>9 DEF lines, p

(***************************************************************************)
(* The arguments                                                           *)
(***************************************************************************)
(* What setuptools is told of data files and requirements.                 *)
Told == /\ kwargs.data_files = data_files_of(LinesOf(Cfg))
        /\ LinesOf(Cfg) # <<>> => LinesOf(Cfg)[1].target # <<>>

Asked == kwargs.requires = extras_require(run.command, all_requirements(Cfg, config))

(* The requirements of setup.cfg and those of the files are together, and  *)
(* no file was nested too deep.                                            *)
Gotten ==
    /\ config.requires_dist = Cfg.requires_dist \o parse_requirements(Requirements)
    /\ Overflow \notin Range(parse_requirements(Requirements))
    /\ Overflow \notin Range(parse_requirements(TestRequirements))

(* What setup.cfg says is not lost on the way to the arguments.            *)
ArgInv ==
    /\ stage # "idle" => run.project \in DOMAIN Project
    /\ config.requires_dist \in Seq(Required)
    /\ stage = "hooks" => config.requires_dist = Cfg.requires_dist
    /\ stage \in {"kwargs", "extras", "command"} => Gotten
    /\ stage = "kwargs" => config.data_files = LinesOf(Cfg)
    /\ stage \in {"idle", "config", "hooks", "kwargs"} => kwargs = None
    /\ stage = "extras" => Told /\ {"requires", "data_files"} \subseteq DOMAIN kwargs
    /\ stage \in {"extras", "command"} => Asked
    /\ kwargs # None => stage # "idle" /\ Told

LEMMA ArgStep == ArgInv /\ [Next]_vars => ArgInv'
PROOF
<1> SUFFICES ASSUME ArgInv, [Next]_vars PROVE ArgInv'
  OBVIOUS
<1> USE DEF ArgInv
<1>0. CASE UNCHANGED <<stage, run, config, kwargs>>
  BY <1>0 DEF Cfg, Told, Asked, Gotten
<1>1. CASE \E p \in DOMAIN Project, c \in Command, t \in Tree, e \in EnvVersions :
             Start(p, c, t, e)
  <2> PICK p \in DOMAIN Project, c \in Command, t \in Tree, e \in EnvVersions :
             Start(p, c, t, e)
    BY <1>1
  <2>1. /\ stage = "idle" /\ stage' = "config"
        /\ run'.project = p /\ UNCHANGED <<config, kwargs>>
    BY DEF Start
  <2> QED
    BY <2>1
<1>2. CASE ReadConfig
  <2>1. /\ stage = "config" /\ stage' = "hooks" /\ UNCHANGED <<run, kwargs>>
        /\ config'.requires_dist = Cfg.requires_dist
    BY <1>2 DEF ReadConfig, NoConfig
  <2>2. Cfg.requires_dist \in Seq(Required)
    BY <2>1, RequirementAssumption DEF Cfg, Required
  <2> QED
    BY <2>1, <2>2 DEF Cfg
(* The steps that leave the arguments as they are.                         *)
<1>3. CASE /\ stage # "idle" /\ stage' \in {"failed", "exited", "done"}
           /\ UNCHANGED <<run, config, kwargs>>
  BY <1>3 DEF Cfg, Told
<1>4. CASE NoConfigFile
  BY <1>3, <1>4 DEF NoConfigFile
<1>5. CASE HookReturns
  BY <1>0, <1>5 DEF HookReturns, Hooking
<1>6. CASE HookMissing \/ HookRaises
  BY <1>3, <1>6 DEF HookMissing, HookRaises, Hooking, Leave
<1>7. CASE PbrHooks
  <2>1. stage = "hooks" /\ UNCHANGED <<run, kwargs>>
    BY <1>7 DEF PbrHooks
  <2>2. \/ stage' = "failed" /\ UNCHANGED config
        \/ /\ stage' = "kwargs"
           /\ config'.requires_dist = config.requires_dist \o parse_requirements(Requirements)
           /\ config'.data_files = LinesOf(Cfg)
           /\ Overflow \notin Range(parse_requirements(Requirements)
                                     \o strip_markers(parse_requirements(TestRequirements)))
    BY <1>7 DEF PbrHooks, Leave, LinesOf
  <2>3. CASE stage' = "failed" /\ UNCHANGED config
    BY <1>3, <2>1, <2>3
  <2>4. CASE /\ stage' = "kwargs"
             /\ config'.requires_dist = config.requires_dist \o parse_requirements(Requirements)
             /\ config'.data_files = LinesOf(Cfg)
             /\ Overflow \notin Range(parse_requirements(Requirements)
                                       \o strip_markers(parse_requirements(TestRequirements)))
    <3>1. /\ parse_requirements(Requirements) \in Seq(Required)
          /\ parse_requirements(TestRequirements) \in Seq(Required)
      BY RequirementAssumption, RequirementsAre
    <3>2. config'.requires_dist \in Seq(Required)
      BY <2>4, <3>1, ConcatProperties
    <3>3. LinesOf(Cfg)' = LinesOf(Cfg)
      BY <2>1 DEF Cfg
    <3>4. Gotten'
      <4>1. /\ Overflow \notin Range(parse_requirements(Requirements))
            /\ Overflow \notin Range(parse_requirements(TestRequirements))
        BY <2>4, <3>1, NoneTooDeep
      <4>2. config'.requires_dist = Cfg'.requires_dist \o parse_requirements(Requirements)
        BY <2>1, <2>4 DEF Cfg
      <4> QED
        BY <4>1, <4>2 DEF Gotten
    <3> QED
      BY <2>1, <2>4, <3>2, <3>3, <3>4
  <2> QED
    BY <2>2, <2>3, <2>4
<1>8. CASE Convert
  <2>1. stage = "kwargs" /\ UNCHANGED <<run, config>>
    BY <1>8 DEF Convert
  <2>2. \/ stage' = "failed" /\ UNCHANGED kwargs
        \/ /\ stage' = "extras" /\ {"requires", "data_files"} \subseteq DOMAIN kwargs'
           /\ kwargs'.requires = extras_require(run.command, all_requirements(Cfg, config))
           /\ kwargs'.data_files = data_files_of(config.data_files)
           /\ ~ (config.data_files # <<>> /\ config.data_files[1].target = <<>>)
    BY <1>8 DEF Convert, Leave, Malformed
  <2>3. CASE stage' = "failed" /\ UNCHANGED kwargs
    BY <1>3, <2>1, <2>3
  <2>4. CASE /\ stage' = "extras" /\ {"requires", "data_files"} \subseteq DOMAIN kwargs'
             /\ kwargs'.requires = extras_require(run.command, all_requirements(Cfg, config))
             /\ kwargs'.data_files = data_files_of(config.data_files)
             /\ ~ (config.data_files # <<>> /\ config.data_files[1].target = <<>>)
    <3>1. Cfg' = Cfg
      BY <2>1 DEF Cfg
    <3>2. Told'
      BY <2>1, <2>4, <3>1 DEF Told
    <3>3. Asked'
      BY <2>1, <2>4, <3>1 DEF Asked
    <3>4. Gotten'
      BY <2>1, <3>1 DEF Gotten
    <3> QED
      BY <2>1, <2>4, <3>2, <3>3, <3>4
  <2> QED
    BY <2>2, <2>3, <2>4
<1>9. CASE Extras
  <2>1. stage = "extras" /\ UNCHANGED <<run, config>>
    BY <1>9 DEF Extras
  <2>2. \/ stage' = "failed" /\ UNCHANGED kwargs
        \/ /\ stage' = "command"
           /\ kwargs' = [kwargs EXCEPT !.ext_modules = get_extension_modules(Cfg)]
    BY <1>9 DEF Extras, Leave
  <2>3. CASE stage' = "failed" /\ UNCHANGED kwargs
    BY <1>3, <2>1, <2>3
  <2>4. CASE /\ stage' = "command"
             /\ kwargs' = [kwargs EXCEPT !.ext_modules = get_extension_modules(Cfg)]
    <3>1. kwargs'.requires = kwargs.requires /\ kwargs'.data_files = kwargs.data_files
      BY <2>1, <2>4
    <3>2. Cfg' = Cfg
      BY <2>1 DEF Cfg
    <3>3. Told'
      BY <2>1, <3>1, <3>2 DEF Told
    <3>4. Asked'
      BY <2>1, <3>1, <3>2 DEF Asked
    <3>5. Gotten'
      BY <2>1, <3>2 DEF Gotten
    <3> QED
      BY <2>1, <2>4, <3>3, <3>4, <3>5
  <2> QED
    BY <2>2, <2>3, <2>4
<1>10. CASE Sdist \/ Install \/ PrintVersion
  <2>1. /\ stage = "command" /\ stage' \in {"done", "failed"}
        /\ UNCHANGED <<run, config, kwargs>>
    BY <1>10 DEF Sdist, Install, PrintVersion
  <2> QED
    BY <1>3, <2>1
<1>11. CASE End
  <2>1. stage' = "idle" /\ kwargs' = None /\ config'.requires_dist = <<>>
    BY <1>11 DEF End, NoConfig
  <2> QED
    BY <2>1
<1>12. CASE stage = "idle" /\ Maintain /\ UNCHANGED <<tarball, installed, setupVars>>
  BY <1>12, <1>0 DEF setupVars
<1>13. CASE UNCHANGED vars
  BY <1>13, <1>0 DEF vars, setupVars
<1> QED
  BY <1>1, <1>2, <1>4, <1>5, <1>6, <1>7, <1>8, <1>9, <1>10, <1>11, <1>12, <1>13
     DEF Next, Setup

(* The groups of requirements are those of the project, and each has what  *)
(* setup.cfg and the requirement files ask for.                            *)
LEMMA AskedInGroups ==
    ASSUME NEW q \in DOMAIN Project, NEW c,
           c.requires_dist = Project[q].requires_dist \o parse_requirements(Requirements),
           Overflow \notin Range(parse_requirements(Requirements)),
           Overflow \notin Range(parse_requirements(TestRequirements))
    PROVE  LET all == all_requirements(Project[q], c)
           IN  /\ DOMAIN all = ReqGroups(Project[q])
               /\ \A g \in DOMAIN all : Range(all[g]) = AskedFor(Project[q], g)
PROOF
<1> DEFINE p == Project[q]
           reqs == parse_requirements(Requirements)
           tests == parse_requirements(TestRequirements)
           named == DOMAIN p.extras
           groups == IF named = {} THEN {} ELSE named \cup {"test"}
           all == all_requirements(p, c)
<1>1. /\ Range(reqs) = AskedByFiles(Requirements) /\ reqs \in Seq(Required)
      /\ Range(tests) = AskedByFiles(TestRequirements)
  BY RequirementAssumption, ParsedAsAsked, RequirementsAre
<1>2. all = [g \in groups \cup {""} |->
               IF g = "" THEN c.requires_dist ELSE IF g \in named THEN p.extras[g] ELSE tests]
  BY DEF all_requirements
<1>3. p.requires_dist \in Seq(Required)
  BY RequirementAssumption DEF Required
<1>4. ReqGroups(p) = groups \cup {""}
  BY DEF ReqGroups
<1> HIDE DEF p, reqs, tests, groups, all, named
<1>5. Range(p.requires_dist \o reqs) = Range(p.requires_dist) \cup Range(reqs)
  BY <1>1, <1>3, ConcatRange
<1>6. ASSUME NEW g \in groups \cup {""} PROVE Range(all[g]) = AskedFor(p, g)
  <2>1. CASE g = ""
    <3>1. all[g] = p.requires_dist \o reqs
      BY <1>2, <2>1 DEF p, reqs
    <3> QED
      BY <1>1, <1>5, <2>1, <3>1 DEF AskedFor
  <2>2. CASE g # "" /\ g \in named
    BY <1>2, <2>2 DEF AskedFor, named
  <2>3. CASE g # "" /\ g \notin named
    BY <1>1, <1>2, <2>3 DEF AskedFor, named
  <2> QED
    BY <2>1, <2>2, <2>3
<1>7. DOMAIN all = groups \cup {""}
  BY <1>2
<1> QED
  BY <1>4, <1>6, <1>7 DEF all, p

(* Everything that is named goes to one place.                             *)
LEMMA ToOnePlace ==
    ASSUME NEW lines, Headed(lines), Distinct(lines), NEW f,
           NEW i \in 1..Len(lines), f \in In(lines[i].files)
    PROVE  LET D == data_files_of(lines)
           IN  {t \in DOMAIN D : f \in Range(D[t])} = {Target(lines, i)}
PROOF
<1> DEFINE here == {k \in 1..Len(lines) : f \in In(lines[k].files)}
<1>1. here = {i}
  BY DEF Distinct
<1> HIDE DEF here
<1>2. {Target(lines, k) : k \in here} = {Target(lines, i)}
  BY <1>1
<1> QED
  BY <1>2, FilesGo DEF here

(* Where a wheel is installed it requires what setup.cfg and the           *)
(* requirement files, with all the files "-r" leads to, ask for at that    *)
(* place; the project's own commands do not displace pbr's; every file     *)
(* goes to one directory (packaging.py:86-170, util.py:359-531, hooks/).   *)
THEOREM ArgumentsStay == Spec => []ArgumentsKept
PROOF
<1>1. SetupInit => ArgInv
  BY DEF SetupInit, ArgInv, NoConfig
<1>2. ArgInv => RequirementsKept
  <2> SUFFICES ASSUME ArgInv, stage \in {"extras", "command"},
                      NEW g \in ReqGroups(Cfg),
                      NEW true \in IF run.command = "bdist_wheel"
                                   THEN SUBSET {r.marker : r \in AskedFor(Cfg, g)}
                                   ELSE {TrueMarkers}
               PROVE  RequiredWhere(true, g) =
                        {r.pkg : r \in {r \in AskedFor(Cfg, g) : r.marker \in true \cup {""}}}
    BY DEF RequirementsKept
  <2> DEFINE all == all_requirements(Cfg, config)
  <2>1. kwargs.requires = extras_require(run.command, all)
    BY DEF ArgInv, Asked
  <2>2. "" \in DOMAIN all /\ \A h \in DOMAIN all : all[h] \in Seq(Required)
    BY GroupsAre DEF ArgInv, Cfg
  <2>3. run.command = "bdist_wheel" \/ true = TrueMarkers
    OBVIOUS
  <2>4. g \in DOMAIN all /\ Range(all[g]) = AskedFor(Cfg, g)
    <3>1. /\ run.project \in DOMAIN Project
          /\ config.requires_dist = Project[run.project].requires_dist
                                      \o parse_requirements(Requirements)
          /\ Overflow \notin Range(parse_requirements(Requirements))
          /\ Overflow \notin Range(parse_requirements(TestRequirements))
      BY DEF ArgInv, Gotten, Cfg
    <3>2. /\ DOMAIN all = ReqGroups(Cfg)
          /\ \A h \in DOMAIN all : Range(all[h]) = AskedFor(Cfg, h)
      BY <3>1, AskedInGroups DEF Cfg
    <3> QED
      BY <3>2
  <2> HIDE DEF all
  <2>5. Gathered(extras_require(run.command, all), true, g) = Wanted(all[g], true)
    <3> DEFINE cmd == run.command
    <3>1. cmd = "bdist_wheel" \/ true = TrueMarkers
      BY <2>3
    <3> HIDE DEF cmd
    <3>2. Gathered(extras_require(cmd, all), true, g) = Wanted(all[g], true)
      BY <2>2, <2>4, <3>1, RequiresExactly, ZenonT(30)
    <3> QED
      BY <3>2 DEF cmd
  <2>6. Gathered(kwargs.requires, true, g) = Wanted(all[g], true)
    BY <2>1, <2>5
  <2> QED
    BY <2>4, <2>6 DEF Gathered, Wanted, RequiredWhere
<1>3. ArgInv => DataFilesKept
  <2> SUFFICES ASSUME ArgInv, kwargs # None, NamedOnce(Cfg) PROVE DataFilesKept
    BY DEF DataFilesKept
  <2> DEFINE p == Cfg
             lines == LinesOf(p)
             D == kwargs.data_files
             At(f) == {t \in DOMAIN D : f \in Range(D[t])}
  <2>1. D = data_files_of(lines) /\ (lines # <<>> => lines[1].target # <<>>)
    BY DEF ArgInv, Told
  <2>2. /\ lines \in Seq(DataLine) /\ Distinct(lines)
        /\ \A f \in NamedFiles(p) : \E a \in 1..Len(lines) : f \in In(lines[a].files)
        /\ \A d \in FilesBelow(p) : \A f \in Range(d[2]) : \E a \in 1..Len(lines) :
             /\ lines[a].target = d[1] /\ lines[a].target # <<>>
             /\ f \in In(lines[a].files)
    BY LinesAre DEF ArgInv, Cfg
  <2> HIDE DEF lines
  <2>3. Headed(lines)
    BY <2>1, <2>2 DEF Headed
  <2>4. ASSUME NEW f, NEW a \in 1..Len(lines), f \in In(lines[a].files)
        PROVE  At(f) = {Target(lines, a)}
    <3> DEFINE E == data_files_of(lines)
    <3>1. {t \in DOMAIN E : f \in Range(E[t])} = {Target(lines, a)}
      BY <2>2, <2>3, <2>4, ToOnePlace
    <3> HIDE DEF E
    <3>2. E = D
      BY <2>1 DEF E
    <3> QED
      BY <3>1, <3>2
  <2> HIDE DEF D
  <2>5. ASSUME NEW f \in NamedFiles(p) PROVE Cardinality(At(f)) = 1
    <3>1. PICK a \in 1..Len(lines) : f \in In(lines[a].files)
      BY <2>2
    <3>2. At(f) = {Target(lines, a)}
      BY <2>4, <3>1
    <3> HIDE DEF At
    <3> QED
      BY <3>2, FS_Singleton
  <2>6. ASSUME NEW d \in FilesBelow(p), NEW f \in Range(d[2]) PROVE At(f) = {d[1]}
    <3>1. PICK a \in 1..Len(lines) : /\ lines[a].target = d[1] /\ lines[a].target # <<>>
                                     /\ f \in In(lines[a].files)
      BY <2>2
    <3>2. Target(lines, a) = d[1]
      BY <2>3, <3>1, TargetIs
    <3>3. At(f) = {Target(lines, a)}
      BY <2>4, <3>1
    <3> QED
      BY <3>2, <3>3
  <2> QED
    BY <2>5, <2>6 DEF DataFilesKept, NamedFiles, D
<1>4. Spec => []PbrCommandsWin
  BY PbrCommandsStay
<1>5. RequirementsKept /\ PbrCommandsWin /\ DataFilesKept => ArgumentsKept
  BY DEF ArgumentsKept
<1> QED
  BY <1>1, <1>2, <1>3, <1>4, <1>5, ArgStep, PTL DEF Spec
=============================================================================
