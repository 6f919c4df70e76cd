--------------------------- MODULE MCGnubbySign ---------------------------
(***************************************************************************)
(* Small instances of GnubbySign.  d1 and d2 are gnubbies, d1 holding the  *)
(* key every process wants and d2 another one; d3 is some other device.    *)
(***************************************************************************)
EXTENDS GnubbySign, TLC

CONSTANTS d1, d2, d3, k1, k2

MCKeyOf == [d \in Device |-> IF d = d1 THEN k1 ELSE k2]
MCWanted == [p \in Proc |-> k1]
MCSymmetry == Permutations(Proc) \cup Permutations(Token)
=============================================================================
