-------------------------- MODULE MCVfioPciDevice --------------------------
(* Small instances of VfioPciDevice for TLC. *)
EXTENDS VfioPciDevice, TLC

CONSTANTS d1, d2, g1, g2, f1, f2, f3, u1, u2, s1, s2

\* Two devices in groups of their own.
TwoGroups == d1 :> g1 @@ d2 :> g2
\* Two devices in one group.
OneGroup == d1 :> g1 @@ d2 :> g1
\* Two devices in slots of their own.
TwoSlots == d1 :> s1 @@ d2 :> s2
\* A single device.
LoneGroup == d1 :> g1
LoneSlot == d1 :> s1

\* Two users with a file each.
TwoUsers == f1 :> u1 @@ f2 :> u2
\* Two users, the first with two files.
ThreeFiles == f1 :> u1 @@ f2 :> u1 @@ f3 :> u2
\* One user with two files, or with one.
OneUser == f1 :> u1 @@ f2 :> u1
LoneUser == f1 :> u1
=============================================================================
