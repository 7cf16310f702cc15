---------------------------- MODULE MCVfioPciMmap ----------------------------
(* Small instances of VfioPciMmap for TLC. *)
EXTENDS VfioPciMmap

At(s0, l0, s1, l1, io, off, size) ==
    [start |-> [b \in Bar |-> IF b = 0 THEN s0 ELSE s1],
     len |-> [b \in Bar |-> IF b = 0 THEN l0 ELSE l1],
     mem |-> [b \in Bar |-> b # 1 \/ ~io],
     msix_offset |-> off, msix_size |-> size]

\* A BAR of four pages with a table anywhere in it, and a small one behind it.
Wide ==
    {At(0, 4 * PAGE, 4 * PAGE + s, 1, FALSE, off, size) :
        s \in {0, PAGE - 1}, off \in 0..(4 * PAGE - 1), size \in {1, PAGE, PAGE + 1}}
\* Two small BARs, in one page or in two, one perhaps empty or in I/O space.
Small ==
    {At(s0, 1, s1, l1, io, 0, 1) :
        s0 \in {0, 1}, s1 \in {PAGE - 1, PAGE}, l1 \in {0, 1}, io \in BOOLEAN}

SomeLayouts ==
    {l \in Wide : l.msix_offset + l.msix_size <= l.len[0]}
    \cup {l \in Small : l.start[0] # l.start[1]}
=============================================================================
