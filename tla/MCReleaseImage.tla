--------------------------- MODULE MCReleaseImage ---------------------------
(***************************************************************************)
(* Two users: one calls bs as he likes, for the image ec.bin of the tree;  *)
(* the other calls create_released_image.sh again and again.               *)
(***************************************************************************)
EXTENDS ReleaseImage

CONSTANTS rwA, rwB, dbgB, prodA, prodB, devB, dev, rel, ecBin, relBin,
          hole, erased, absent, torn, f0

MCElf == {rwA, rwB, dbgB}
MCDebug == {dbgB}
\* One image of two blocks, so that an image can be torn.
MCBlocks == [e \in MCElf |-> IF e = rwA THEN 2 ELSE 1]
MCRwAt == [i \in 0..1 |-> IF i = 0 THEN 1 ELSE 4]
MCProc == {dev, rel}
MCPath == {ecBin, relBin}
MCFirst == [f \in MCPath |-> IF f = ecBin THEN [n \in 1..6 |-> f0] ELSE absent]
MCRo == {prodA, prodB, devB}
MCUnsigned == MCRo \cup {f0, hole, erased}
MCProdRo == {prodA, prodB}
\* The two ROs, and the RWs, have one version each, except for the dev RO.
MCVersionOf ==
  [x \in MCRo \cup MCElf |-> CASE x \in MCProdRo -> 10 [] x = devB -> 11
                               [] OTHER -> 22]

Pair(a, b) == [i \in 0..1 |-> IF i = 0 THEN a ELSE b]
Plain == [kind |-> "sign", prod |-> FALSE, b1 |-> FALSE, hex |-> FALSE,
          elves |-> Pair(rwA, rwB), devids |-> FALSE, board |-> "none",
          path |-> ecBin]
DirectCommand ==
  {Plain,
   [Plain EXCEPT !.kind = "help"],
   [Plain EXCEPT !.kind = "usage"],
   [Plain EXCEPT !.hex = TRUE, !.devids = TRUE, !.b1 = TRUE],
   [Plain EXCEPT !.prod = TRUE, !.elves = Pair(rwA, dbgB)],
   [Plain EXCEPT !.prod = TRUE, !.b1 = TRUE],
   [Plain EXCEPT !.board = "bad"]}
Ask(a, b, elves, devids, board) ==
  [a |-> a, b |-> b, elves |-> elves, devids |-> devids, board |-> board]
MCArgument ==
  {Ask(prodA, prodB, Pair(rwA, rwB), TRUE, "good"),
   Ask(prodB, prodA, Pair(rwA, rwA), FALSE, "none"),
   Ask(prodA, devB, Pair(rwB, rwA), FALSE, "none")}
MCCommand == DirectCommand \cup {[Plain EXCEPT !.prod = TRUE, !.elves = a.elves,
                                               !.devids = a.devids,
                                               !.board = a.board,
                                               !.path = relBin] : a \in MCArgument}
=============================================================================
