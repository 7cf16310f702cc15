------------------------------- MODULE SemVer -------------------------------
(***************************************************************************)
(* The semantic versions of pbr (pbr/version.py), which number what        *)
(* setup.py builds.  A version is a record; a version string is the        *)
(* sequence of its components between the dots, each of them digits, then  *)
(* a word, then digits, any of which may be absent.                        *)
(***************************************************************************)
EXTENDS Selection

CONSTANT maxsize    \* sys.maxsize

ASSUME MaxsizeAssumption == maxsize \in Nat \ {0}

PreType == {"a", "b", "rc"}

(* No prerelease is the type "none" and the number 0, no dev count is 0.   *)
(* Dev counts are counts of commits, and fit the machine.                  *)
Version ==
    [major : Nat, minor : Nat, patch : Nat,
     pretype : PreType \cup {"none"}, pre : Nat, dev : 0..maxsize - 1]

Canonical == {v \in Version : v.pretype = "none" => v.pre = 0}

(* A version of the parts major, minor and patch alone.                    *)
Final(x, y, z) ==
    [major |-> x, minor |-> y, patch |-> z,
     pretype |-> "none", pre |-> 0, dev |-> 0]

(***************************************************************************)
(* Order                                                                   *)
(***************************************************************************)
rc_lookup(t) == CASE t = "a" -> 0 [] t = "b" -> 1 [] t = "rc" -> 2 [] OTHER -> 3

(* A dev version without prerelease comes before the prereleases, and one  *)
(* that is no dev version after all that are.                              *)
SortKey(v) ==
    <<v.major, v.minor, v.patch,
      IF v.dev # 0 /\ v.pretype = "none" THEN 0 ELSE 1,
      rc_lookup(v.pretype), v.pre,
      IF v.dev # 0 THEN v.dev ELSE maxsize>>

LexLess(s, t) ==
    \E i \in 1..Len(t) :
      /\ \A j \in 1..i - 1 : j <= Len(s) /\ s[j] = t[j]
      /\ i > Len(s) \/ s[i] < t[i]

Less(v, w) == LexLess(SortKey(v), SortKey(w))
AtMost(v, w) == v = w \/ Less(v, w)

Highest(S) == CHOOSE v \in S : \A w \in S : AtMost(w, v)

(***************************************************************************)
(* Arithmetic                                                              *)
(***************************************************************************)
to_dev(v, n) == [v EXCEPT !.dev = n]

(* A bigger part of the version swallows the smaller ones and the          *)
(* prerelease; otherwise a prerelease gets the next number, and any other  *)
(* version the next patch.  The dev count is dropped in any case.          *)
increment(v, minor, major) ==
    IF major THEN Final(v.major + 1, 0, 0)
    ELSE IF minor THEN Final(v.major, v.minor + 1, 0)
    ELSE IF v.pretype # "none" THEN [v EXCEPT !.pre = @ + 1, !.dev = 0]
    ELSE Final(v.major, v.minor, v.patch + 1)

decrementZero(v) ==
    IF v.patch # 0 THEN Final(v.major, v.minor, v.patch - 1)
    ELSE IF v.minor # 0 THEN Final(v.major, v.minor - 1, 0)
    ELSE Final(v.major - 1, 0, 0)

(* The version before, for package formats that cannot say "before": 9999  *)
(* stands for whatever the highest number was.                             *)
decrement(v) ==
    IF v.patch # 0 THEN Final(v.major, v.minor, v.patch - 1)
    ELSE IF v.minor # 0 THEN Final(v.major, v.minor - 1, 9999)
    ELSE IF v.major # 0 THEN Final(v.major - 1, 9999, 9999)
    ELSE Final(0, 9999, 9999)

(***************************************************************************)
(* Strings                                                                 *)
(***************************************************************************)
Absent == -1
Number(n) == [lead |-> n, word |-> "", num |-> Absent]
Word(w, n) == [lead |-> Absent, word |-> w, num |-> n]
IsNumber(c) == c.lead # Absent /\ c.word = ""

Brief(v) == <<Number(v.major), Number(v.minor), Number(v.patch)>>

release_string(v) ==
    Brief(v)
      \o (IF v.pretype = "none" THEN <<>>
          ELSE <<[lead |-> 0, word |-> v.pretype, num |-> v.pre]>>)
      \o (IF v.dev = 0 THEN <<>> ELSE <<Word("dev", v.dev)>>)

(* How the string compares in the two package formats.  "~" sorts before   *)
(* the end of a string, words sort as ASCII text, and rpm takes a number   *)
(* for newer than a word.                                                  *)
Ascii(w) == CASE w = "a" -> 0 [] w = "b" -> 1 [] w = "dev" -> 2 [] w = "rc" -> 3

Suffix(v) ==
    (IF v.pretype = "none" THEN <<>> ELSE <<Ascii(v.pretype), v.pre>>)
      \o (IF v.dev = 0 THEN <<>> ELSE <<Ascii("dev"), v.dev>>)

debian_string(v) ==
    <<v.major, v.minor, v.patch, IF Suffix(v) = <<>> THEN 1 ELSE 0>>
      \o Suffix(v)

rpm_string(v) ==
    LET base == IF Suffix(v) = <<>> THEN v ELSE decrement(v)
    IN  <<base.major, base.minor, base.patch>> \o Suffix(v)

(* sys.version_info style: the levels sort as words from "alpha" to        *)
(* "final", with "alphadev" after "alpha" and "dev" after "candidatedev".  *)
Level(v) ==
    IF v.pretype = "none" THEN IF v.dev = 0 THEN 7 ELSE 6
    ELSE 2 * rc_lookup(v.pretype) + (IF v.dev = 0 THEN 0 ELSE 1)

version_tuple(v) ==
    <<v.major, v.minor, v.patch, Level(v),
      IF v.dev # 0 THEN IF v.pretype = "none" THEN v.dev - 1 ELSE v.dev ELSE v.pre>>

(***************************************************************************)
(* from_pip_string.  The number components are taken to the front, up to   *)
(* three of them are the version, and if there are fewer the digits in     *)
(* front of the next component count as one more ("1.2a3").                *)
(***************************************************************************)
Invalid == [Final(0, 0, 0) EXCEPT !.pretype = "invalid"]

(* The components with the digits of the mixed one split off.              *)
Split(cs) ==
    LET digits == Keep(cs, {c \in In(cs) : IsNumber(c)})
        n == Len(digits)
    IN  IF n < 3 /\ n < Len(cs) /\ cs[n + 1].lead # Absent
        THEN [numbers |-> Append(digits, Number(cs[n + 1].lead)),
              rest |-> <<[cs[n + 1] EXCEPT !.lead = Absent]>>
                         \o SubSeq(cs, n + 2, Len(cs))]
        ELSE [numbers |-> digits, rest |-> SubSeq(cs, n + 1, Len(cs))]

(* What follows the three numbers: dev and post components only.  The last *)
(* of each counts, and a post component discards the dev before it.        *)
IsMark(c) == c.lead = Absent /\ c.word \in {"dev", "post"} /\ c.num # Absent

MarkOf(cs, w) ==
    LET Is == {i \in 1..Len(cs) : cs[i].word = w}
        i == CHOOSE i \in Is : \A j \in Is : j <= i
    IN  IF Is = {} \/ (w = "dev" /\ \E j \in i + 1..Len(cs) : cs[j].word = "post")
        THEN 0 ELSE cs[i].num

(* The components behind the numbers: a fourth number is a dev version.    *)
ReadRest(base, remainder) ==
    LET first == Head(remainder)
        legacy == remainder # <<>> /\ IsNumber(first) /\ first.lead # 0
        typed == /\ remainder # <<>> /\ ~legacy
                 /\ \/ first.lead = 0
                    \/ first.lead = Absent /\ first.word \in PreType
        marks == IF typed THEN Tail(remainder) ELSE remainder
        post == MarkOf(marks, "post")
        found == IF typed
                  THEN [base EXCEPT !.pretype = first.word, !.pre = first.num,
                                    !.dev = MarkOf(marks, "dev")]
                  ELSE [base EXCEPT !.dev = MarkOf(marks, "dev")]
    IN  IF legacy THEN [base EXCEPT !.dev = first.lead]
        ELSE IF \/ typed /\ first.num = Absent
                \/ \E i \in 1..Len(marks) : ~IsMark(marks[i])
                \/ post # 0 /\ found.dev # 0 THEN Invalid
        ELSE IF post # 0 THEN to_dev(increment(found, FALSE, FALSE), post)
        ELSE found

from_pip_string(cs) ==
    LET s == Split(cs)
        part(i) == IF i <= Len(s.numbers) THEN s.numbers[i].lead ELSE 0
    IN  IF cs = <<>> \/ cs[1].lead = Absent \/ s.numbers = <<>> THEN Invalid
        ELSE ReadRest(Final(part(1), part(2), part(3)),
                      SubSeq(s.numbers, 4, Len(s.numbers)) \o s.rest)
=============================================================================
