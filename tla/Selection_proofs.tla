--------------------------- MODULE Selection_proofs ---------------------------
(***************************************************************************)
(* What Keep keeps.  The theorems of the library on induction take an      *)
(* operator, which the provers cannot instantiate.  Induction over a set   *)
(* of numbers does as well, and follows from every such set having a least *)
(* element.                                                                *)
(***************************************************************************)
EXTENDS Selection, WellFoundedInduction, TLAPS

(* Sets of naturals have a least element, bounded ones a greatest.         *)
LEMMA LeastElement ==
    ASSUME NEW S \in SUBSET Nat, S # {}
    PROVE  \E i \in S : \A j \in S : i <= j
<1> DEFINE Below == OpToRel(<, Nat)
<1>1. IsWellFoundedOn(Below, Nat)
  BY NatLessThanWellFounded
<1>2. \A i, j \in Nat : <<i, j>> \in Below <=> i < j
  BY DEF OpToRel
<1> HIDE DEF Below
<1>3. \E i \in S : \A j \in S : ~ (<<j, i>> \in Below)
  BY <1>1, WFMin
<1>4. PICK i \in S : \A j \in S : ~ (<<j, i>> \in Below)
  BY <1>3
<1>5. \A j \in S : i <= j
  <2> TAKE j \in S
  <2>1. j \in Nat /\ i \in Nat /\ ~ (<<j, i>> \in Below)
    BY <1>4
  <2>2. ~ (j < i)
    BY <1>2, <2>1
  <2> QED
    BY <2>1, <2>2
<1> QED
  BY <1>5

LEMMA GreatestElement ==
    ASSUME NEW n \in Nat, NEW S \in SUBSET (0..n), S # {}
    PROVE  \E i \in S : \A j \in S : j <= i
<1> DEFINE T == {k \in Nat : n - k \in S}
<1>1. PICK k \in T : \A l \in T : k <= l
  <2>1. T \in SUBSET Nat
    OBVIOUS
  <2>2. PICK i \in S : TRUE
    OBVIOUS
  <2>3. n - i \in T
    OBVIOUS
  <2> HIDE DEF T
  <2> QED
    BY <2>1, <2>3, LeastElement
<1>2. \A j \in S : n - j \in T
  OBVIOUS
<1> WITNESS n - k \in S
<1> QED
  BY <1>1, <1>2

(* Induction over the numbers of a set.                                    *)
LEMMA Induction ==
    ASSUME NEW S, 0 \in S, \A i \in S \cap Nat : i + 1 \in S
    PROVE  Nat \subseteq S
<1>1. SUFFICES ASSUME Nat \ S # {} PROVE FALSE
  OBVIOUS
<1>2. PICK i \in Nat \ S : \A j \in Nat \ S : i <= j
  <2>1. Nat \ S \in SUBSET Nat
    OBVIOUS
  <2> QED
    BY <1>1, <2>1, LeastElement
<1>3. i # 0 /\ i - 1 \in Nat /\ i - 1 \notin Nat \ S
  BY <1>2
<1>4. (i - 1) + 1 \in S
  BY <1>3
<1> QED
  BY <1>2, <1>4

(* kept satisfies its recursion.  By induction on n there are functions    *)
(* that do so up to n; the CHOOSE of the definition then finds one.        *)
KeepIs(s, D, n, f) ==
    f = [i \in 0..n |->
           IF i = 0 THEN <<>>
           ELSE IF s[i] \in D THEN Append(f[i - 1], s[i]) ELSE f[i - 1]]

LEMMA KeepRecursion ==
    ASSUME NEW s, NEW D, Len(s) \in Nat
    PROVE  \E f : KeepIs(s, D, Len(s), f) /\ Keep(s, D) = f[Len(s)]
<1> DEFINE Can == {n \in Nat : \E f : KeepIs(s, D, n, f)}
<1>1. 0 \in Can
  <2>1. KeepIs(s, D, 0, [i \in 0..0 |-> <<>>])
    BY DEF KeepIs
  <2> QED
    BY <2>1
<1>2. ASSUME NEW n \in Can \cap Nat PROVE n + 1 \in Can
  <2>1. PICK f : KeepIs(s, D, n, f)
    OBVIOUS
  <2> DEFINE last == IF s[n + 1] \in D THEN Append(f[n], s[n + 1]) ELSE f[n]
             g == [i \in 0..n + 1 |-> IF i = n + 1 THEN last ELSE f[i]]
  <2>2. \A i \in 0..n :
          f[i] = IF i = 0 THEN <<>>
                 ELSE IF s[i] \in D THEN Append(f[i - 1], s[i]) ELSE f[i - 1]
    BY <2>1 DEF KeepIs
  <2>3. \A i \in 0..n : g[i] = f[i]
    OBVIOUS
  <2>4. g[n + 1] = last
    OBVIOUS
  <2>5. \A i \in 0..n + 1 :
          g[i] = IF i = 0 THEN <<>>
                 ELSE IF s[i] \in D THEN Append(g[i - 1], s[i]) ELSE g[i - 1]
    <3> TAKE i \in 0..n + 1
    <3>1. CASE i = n + 1
      <4>1. i # 0 /\ i - 1 = n /\ g[i - 1] = f[n]
        BY <2>3, <3>1
      <4> QED
        BY <2>4, <3>1, <4>1
    <3>2. CASE i = 0
      BY <2>2, <2>3, <3>2
    <3>3. CASE i \in 1..n
      <4>1. g[i] = f[i] /\ g[i - 1] = f[i - 1]
        BY <2>3, <3>3
      <4> HIDE DEF g
      <4> QED
        BY <2>2, <3>3, <4>1
    <3> QED
      BY <3>1, <3>2, <3>3
  <2>6. g = [i \in 0..n + 1 |-> g[i]]
    OBVIOUS
  <2> HIDE DEF g
  <2>7. KeepIs(s, D, n + 1, g)
    BY <2>5, <2>6 DEF KeepIs
  <2> QED
    BY <2>7
<1> HIDE DEF Can
<1>3. Nat \subseteq Can
  BY <1>1, <1>2, Induction
<1>4. \E f : KeepIs(s, D, Len(s), f)
  BY <1>3 DEF Can
<1> DEFINE kept == CHOOSE f : KeepIs(s, D, Len(s), f)
<1>5. KeepIs(s, D, Len(s), kept)
  BY <1>4
<1>6. Keep(s, D) = kept[Len(s)]
  BY DEF Keep, KeepIs
<1> QED
  BY <1>5, <1>6

(* Keep(s, D) is made of the members of s that are in D, in their order.   *)
LEMMA KeepSelects ==
    ASSUME NEW S, NEW s \in Seq(S), NEW D
    PROVE  /\ Keep(s, D) \in Seq(S)
           /\ \E at \in [1..Len(Keep(s, D)) -> 1..Len(s)] :
                /\ \A i \in 1..Len(Keep(s, D)) : Keep(s, D)[i] = s[at[i]]
                /\ \A i, j \in 1..Len(Keep(s, D)) : i < j => at[i] < at[j]
                /\ \A k \in 1..Len(s) :
                     s[k] \in D <=> \E i \in 1..Len(Keep(s, D)) : at[i] = k
<1>0. Len(s) \in Nat /\ \A k \in 1..Len(s) : s[k] \in S
  OBVIOUS
<1>1. PICK f : KeepIs(s, D, Len(s), f) /\ Keep(s, D) = f[Len(s)]
  BY <1>0, KeepRecursion
<1>2. \A i \in 0..Len(s) :
        f[i] = IF i = 0 THEN <<>>
               ELSE IF s[i] \in D THEN Append(f[i - 1], s[i]) ELSE f[i - 1]
  BY <1>1 DEF KeepIs
<1> DEFINE Selects(n, t, at) ==
             /\ t \in Seq(S) /\ at \in [1..Len(t) -> 1..n]
             /\ \A i \in 1..Len(t) : t[i] = s[at[i]]
             /\ \A i, j \in 1..Len(t) : i < j => at[i] < at[j]
             /\ \A k \in 1..n : s[k] \in D <=> \E i \in 1..Len(t) : at[i] = k
           Good == {n \in Nat : n <= Len(s) => \E at : Selects(n, f[n], at)}
<1>3. 0 \in Good
  <2>1. f[0] = <<>>
    BY <1>0, <1>2
  <2>2. Selects(0, <<>>, [i \in 1..0 |-> i])
    OBVIOUS
  <2> HIDE DEF Selects
  <2>3. \E at : Selects(0, f[0], at)
    BY <2>1, <2>2
  <2> QED
    BY <2>3
<1>4. ASSUME NEW n \in Good \cap Nat PROVE n + 1 \in Good
  <2>0. n \in Nat /\ n + 1 \in Nat
    OBVIOUS
  <2> HIDE DEF Selects
  <2> SUFFICES ASSUME n + 1 <= Len(s) PROVE \E at : Selects(n + 1, f[n + 1], at)
    BY <2>0
  <2>1. PICK at : Selects(n, f[n], at)
    BY <1>0, <2>0
  <2> DEFINE t == f[n]
  <2>2. /\ t \in Seq(S) /\ Len(t) \in Nat /\ at \in [1..Len(t) -> 1..n]
        /\ \A i \in 1..Len(t) : t[i] = s[at[i]]
        /\ \A i, j \in 1..Len(t) : i < j => at[i] < at[j]
        /\ \A k \in 1..n : s[k] \in D <=> \E i \in 1..Len(t) : at[i] = k
    BY <2>1 DEF Selects
  <2>3. f[n + 1] = IF s[n + 1] \in D THEN Append(t, s[n + 1]) ELSE t
    BY <1>0, <1>2, <2>0
  <2> HIDE DEF t
  <2>4. CASE s[n + 1] \notin D
    <3>1. at \in [1..Len(t) -> 1..n + 1]
      BY <2>0, <2>2
    <3>2. \A i \in 1..Len(t) : at[i] # n + 1
      BY <2>0, <2>2
    <3>3. Selects(n + 1, t, at)
      BY <2>0, <2>2, <2>4, <3>1, <3>2 DEF Selects
    <3> QED
      BY <2>3, <2>4, <3>3
  <2>5. CASE s[n + 1] \in D
    <3> DEFINE u == Append(t, s[n + 1])
               m == Len(t) + 1
               bt == [i \in 1..m |-> IF i = m THEN n + 1 ELSE at[i]]
    <3>1. /\ u \in Seq(S) /\ Len(u) = m /\ m \in Nat /\ u[m] = s[n + 1]
          /\ \A i \in 1..Len(t) : u[i] = t[i]
      BY <1>0, <2>2
    <3>2. /\ bt \in [1..m -> 1..n + 1] /\ bt[m] = n + 1
          /\ \A i \in 1..Len(t) : bt[i] = at[i] /\ at[i] \in 1..n
      <4>1. \A i \in 1..m : i = m \/ at[i] \in 1..n
        BY <2>2
      <4>2. \A i \in 1..m : (IF i = m THEN n + 1 ELSE at[i]) \in 1..n + 1
        BY <2>0, <4>1
      <4>3. m \in 1..m /\ \A i \in 1..Len(t) : i \in 1..m /\ i # m
        BY <2>2
      <4> HIDE DEF m
      <4> QED
        BY <2>2, <4>2, <4>3
    <3>3. \A i \in 1..m : i = m \/ i \in 1..Len(t)
      BY <2>2
    <3>3a. m \in 1..m /\ \A i \in 1..Len(t) : i \in 1..m
      BY <2>2
    <3> HIDE DEF u, bt, m
    <3>4. \A i \in 1..m : u[i] = s[bt[i]]
      BY <2>2, <3>1, <3>2, <3>3
    <3>5. ASSUME NEW i \in 1..m, NEW j \in 1..m, i < j PROVE bt[i] < bt[j]
      <4>1. i \in 1..Len(t)
        BY <3>3, <3>5, <3>1
      <4>2. CASE j = m
        BY <3>2, <4>1, <4>2
      <4>3. CASE j \in 1..Len(t)
        BY <2>2, <3>2, <3>5, <4>1, <4>3
      <4> QED
        BY <3>3, <4>2, <4>3
    <3>6. ASSUME NEW k \in 1..n + 1
          PROVE  s[k] \in D <=> \E i \in 1..m : bt[i] = k
      <4>1. CASE k = n + 1
        BY <2>5, <3>2, <3>3a, <4>1
      <4>2. CASE k # n + 1
        <5>1. k \in 1..n
          BY <2>0, <4>2
        <5>2. (\E i \in 1..m : bt[i] = k) <=> \E i \in 1..Len(t) : at[i] = k
          BY <3>2, <3>3, <3>3a, <4>2
        <5> QED
          BY <2>2, <5>1, <5>2
      <4> QED
        BY <4>1, <4>2
    <3>7. Selects(n + 1, u, bt)
      BY <3>1, <3>2, <3>4, <3>5, <3>6 DEF Selects
    <3> QED
      BY <2>3, <2>5, <3>7 DEF u
  <2> QED
    BY <2>4, <2>5
<1> HIDE DEF Good
<1>5. Nat \subseteq Good
  BY <1>3, <1>4, Induction
<1> HIDE DEF Selects
<1>6. \E at : Selects(Len(s), f[Len(s)], at)
  BY <1>0, <1>5 DEF Good
<1> QED
  BY <1>1, <1>6 DEF Selects

LEMMA KeepMembers ==
    ASSUME NEW S, NEW s \in Seq(S), NEW D
    PROVE  In(Keep(s, D)) = In(s) \cap D
<1> DEFINE t == Keep(s, D)
<1>1. PICK at \in [1..Len(t) -> 1..Len(s)] :
             /\ \A i \in 1..Len(t) : t[i] = s[at[i]]
             /\ \A k \in 1..Len(s) : s[k] \in D <=> \E i \in 1..Len(t) : at[i] = k
  BY KeepSelects
<1> HIDE DEF t
<1>2. \A x \in In(t) : x \in In(s) \cap D
  BY <1>1 DEF In
<1>3. \A x \in In(s) \cap D : x \in In(t)
  <2> SUFFICES ASSUME NEW k \in 1..Len(s), s[k] \in D PROVE s[k] \in In(t)
    BY DEF In
  <2>1. PICK i \in 1..Len(t) : at[i] = k
    BY <1>1
  <2> QED
    BY <1>1, <2>1 DEF In
<1> QED
  BY <1>2, <1>3 DEF t
=============================================================================
