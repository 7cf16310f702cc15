------------------------------ MODULE Selection ------------------------------
(***************************************************************************)
(* The members of a sequence, and the list comprehension                   *)
(* [x for x in s if x in D].  Keep is SelectSeq for a set, written as a    *)
(* recursive function, so that one can reason about it.                    *)
(***************************************************************************)
EXTENDS Integers, Sequences

In(s) == {s[i] : i \in 1..Len(s)}

Keep(s, D) ==
    LET kept[i \in 0..Len(s)] ==
          IF i = 0 THEN <<>>
          ELSE IF s[i] \in D THEN Append(kept[i - 1], s[i]) ELSE kept[i - 1]
    IN  kept[Len(s)]
=============================================================================
