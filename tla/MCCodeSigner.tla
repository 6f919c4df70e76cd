---------------------------- MODULE MCCodeSigner ----------------------------
(***************************************************************************)
(* Small instances of CodeSigner: three fuses f0, f1 and blk6, two info    *)
(* words, a 3072 bit key k1 and a 2048 bit key k2.                         *)
(***************************************************************************)
EXTENDS CodeSigner, TLC

CONSTANTS k1, k2, e1, f0, f1

MCN0inv == (k1 :> 1) @@ (k2 :> 2)

Fuse(n, i, w) == [name |-> n, offset |-> i, width |-> w]

\* Every fuse listed, and listed again; listed once; blk6 not where it should be;
\* as many fuses as there are fuse words.
ListedTwice ==
  [p4cl |-> 177, fuses |-> <<Fuse(f0, 0, 1), Fuse(f1, 1, 2), Fuse(Blk6, 2, 1),
                             Fuse(f0, 0, 1)>>]
ListedOnce == [ListedTwice EXCEPT !.fuses = SubSeq(@, 1, 3)]
Moved ==
  [p4cl |-> 177, fuses |-> <<Fuse(f0, 0, 1), Fuse(Blk6, 1, 1), Fuse(f0, 0, 1)>>]
Crowded ==
  [p4cl |-> 177, fuses |-> <<Fuse(f0, 0, 1), Fuse(f1, 1, 2), Fuse(Blk6, 2, 1),
                             Fuse("f3", 3, 1), Fuse(f0, 0, 1)>>]
MCXml == {ListedTwice, ListedOnce, Moved, Crowded}

\* The manifest of the loader, and variations of it.
Full ==
  [keyid |-> 1, p4cl |-> 177, timestamp |-> 1, version |-> 1, policy |-> 1,
   board |-> [type |-> 1, mask |-> 1, flags |-> 1], tag |-> None,
   fuses |-> (f0 :> 1) @@ (f1 :> 1), info |-> (0 :> 1)]
ForK2 == [Full EXCEPT !.keyid = 2, !.fuses = (Blk6 :> 1), !.info = (0 :> 0) @@ (1 :> 1)]
NoXml == [Full EXCEPT !.p4cl = 0, !.fuses = << >>, !.tag = "tag"]
Rejected ==
  {[Full EXCEPT !.keyid = 2], [Full EXCEPT !.p4cl = 178],
   [Full EXCEPT !.fuses = (f1 :> 4)], [Full EXCEPT !.fuses = ("f2" :> 0)],
   [Full EXCEPT !.info = (InfoMax :> 1)]}
MCManifest == {Full, ForK2, NoXml} \cup Rejected

Plain ==
  [usage |-> FALSE, key |-> k1, private |-> TRUE, elf |-> e1, json |-> Full,
   xml |-> ListedTwice, cros |-> FALSE, override |-> FALSE, hashes |-> FALSE,
   signature |-> FALSE]
WithK2 == [Plain EXCEPT !.key = k2, !.json = ForK2]

\* Command lines that lead to an image, and command lines that are refused.
Accepted ==
  {Plain, [Plain EXCEPT !.cros = TRUE], [WithK2 EXCEPT !.private = FALSE],
   [Plain EXCEPT !.json = None, !.xml = None],
   [Plain EXCEPT !.json = NoXml, !.xml = None]}
Refused ==
  {[Plain EXCEPT !.usage = TRUE],
   [Plain EXCEPT !.key = Bad], [Plain EXCEPT !.elf = Bad],
   [Plain EXCEPT !.json = Bad], [Plain EXCEPT !.override = TRUE],
   [Plain EXCEPT !.json = NoXml, !.xml = None, !.cros = TRUE],
   [Plain EXCEPT !.json = NoXml]}
  \cup {[Plain EXCEPT !.json = m] : m \in Rejected}
  \cup {[Plain EXCEPT !.xml = x] : x \in {ListedOnce, Moved, Crowded, Bad, None}}

\* Two steps with an external signer: --hashes, then --signature.
TwoSteps ==
  {[Plain EXCEPT !.private = FALSE, !.hashes = TRUE],
   [Plain EXCEPT !.private = FALSE, !.signature = TRUE]}

MCInputs == Accepted \cup Refused \cup TwoSteps
MCFaults == {Plain, [WithK2 EXCEPT !.private = FALSE]} \cup TwoSteps
MCTwoSteps == TwoSteps
MCPlain == {Plain}

MCChip ==
  [fuses : {(0 :> Padded(1, a)) @@ (1 :> Padded(2, b)) @@ (2 :> Padded(1, c)) :
              a, b, c \in 0..1},
   info : [InfoIndex -> {Xored(0), Xored(1)}]]
=============================================================================
