---------------------------- MODULE MCImageFile ----------------------------
(***************************************************************************)
(* Small instances of ImageFile: four pages of four bytes, and ELF files   *)
(* of one or two segments at and around the boundaries.                    *)
(***************************************************************************)
EXTENDS ImageFile

Segments(paddrs, id) ==
  {[paddr |-> a, bytes |-> [n \in 1..l |-> id], offset0 |-> o] :
     a \in paddrs, l \in {1, 2, 5}, o \in BOOLEAN}

\* A section for each segment, which is code or data; and one that is not loaded.
Section(seg, code) ==
  [addr |-> seg.paddr, size |-> Len(seg.bytes), alloc |-> TRUE, exec |-> code]
DebugSection == [addr |-> 12, size |-> 3, alloc |-> FALSE, exec |-> TRUE]

\* Two segments, of which both, one or none is loaded.  The first lies in mem_,
\* the second may lie or reach outside of it, or of the flash range.
MCElf ==
  {[segments |-> <<s1, s2>>,
    sections |-> <<Section(s1, c1), DebugSection, Section(s2, c2)>>] :
     s1 \in Segments({0, 3, 4, 6, 11}, 1),
     s2 \in Segments({-2, 0, 4, 6, 8, 14, 255}, 2),
     c1 \in BOOLEAN, c2 \in BOOLEAN}
=============================================================================
