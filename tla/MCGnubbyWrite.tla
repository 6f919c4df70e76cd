--------------------------- MODULE MCGnubbyWrite ---------------------------
(***************************************************************************)
(* Two processes, of which one may write either of two keys, and one       *)
(* security key.  All numbers of k1 fit; the last one of k2, its exponent, *)
(* is longer than expected.                                                *)
(***************************************************************************)
EXTENDS GnubbyWrite

CONSTANTS p1, p2, k1, k2

MCKeysOf == [p \in Proc |-> IF p = p1 THEN {k1, k2} ELSE {k2}]
MCMisfit == [k \in Key |-> IF k = k2 THEN {LastPart} ELSE {}]
=============================================================================
