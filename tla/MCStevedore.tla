----------------------------- MODULE MCStevedore -----------------------------
(* An instance of Stevedore for TLC: two plugins share a name, a third has *)
(* one of its own, and c is a name nobody has.                             *)
EXTENDS Stevedore

CONSTANTS e1, e2, e3, a, b, c

SomeNames == [e \in {e1, e2, e3} |-> IF e = e3 THEN b ELSE a]
SomeLists == {<<a>>, <<b, c, a>>}
SomeTests == {<<e1>>, <<e1, e2>>}
=============================================================================
