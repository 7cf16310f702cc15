-------------------------- MODULE MCOnapAutomation --------------------------
(* Instances of OnapAutomation for TLC: configuration files with two       *)
(* regions and one or two of everything else.                              *)
EXTENDS OnapAutomation

CONSTANTS r1, r2, m1, v1, v2, p1

TwoRegions == <<r1, r2>>
OneVnfm == <<m1>>
TwoVnfs == <<v1, v2>>
OnePolicy == <<p1>>
=============================================================================
