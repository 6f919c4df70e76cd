----------------------------- MODULE FlashLayout -----------------------------
(***************************************************************************)
(* The full image of a chip as the scripts bs and create_released_image.sh *)
(* (util/signer) see it: a file of blocks, with the two RW images pasted   *)
(* at fixed offsets.                                                       *)
(*                                                                         *)
(* A file is the sequence of its blocks.  A block of a signed image is     *)
(* named by the image and its place in it, so that a file shows what it    *)
(* was put together from.                                                  *)
(***************************************************************************)
EXTENDS Integers, Sequences

CONSTANTS
  Elf,      \* RW ELF files
  Blocks,   \* Blocks[e]: the blocks of the image the signer makes of e
  RwAt,     \* RwAt[i]: the block at which RW image i starts, 16384 and 278528
  Hole      \* a block nobody has written, zeros

ASSUME LayoutAssumption ==
  /\ Blocks \in [Elf -> Nat \ {0}]
  /\ RwAt \in [0..1 -> Nat]
  /\ RwAt[0] + 1 <= RwAt[1]

Longest(m, n) == IF m < n THEN n ELSE m

\* For a mutant: dd without conv=notrunc.
PasteTruncating(file, at, part) ==
  [n \in 1..(at + Len(part)) |->
     IF n > at THEN part[n - at]
     ELSE IF n <= Len(file) THEN file[n] ELSE Hole]

\* dd if=part of=file seek=at conv=notrunc.
Paste(file, at, part) ==
  IF part = << >> THEN file
  ELSE [n \in 1..Longest(Len(file), at + Len(part)) |->
          IF at < n /\ n <= at + Len(part) THEN part[n - at]
          ELSE IF n <= Len(file) THEN file[n] ELSE Hole]

\* What a command asks to have signed: its manifest, and its two images.  A
\* command is a record: .prod, .b1, .hex and .elves are the options of bs,
\* .devids tells whether H1_DEVIDS is set, .board is CR50_BOARD_ID ("none",
\* "good", or "bad" if it has not three fields), .path is RESULT_FILE.
WantedManifest(c) ==
  [prod |-> c.prod, blk0 |-> IF c.b1 THEN 0 ELSE 2,
   devids |-> c.devids /\ ~c.prod, board |-> c.board = "good"]
SignedBy(elf, manifest, prodKey) ==
  [elf |-> elf, manifest |-> manifest, prodKey |-> prodKey]
ImageOf(signed) == [n \in 1..Blocks[signed.elf] |-> <<signed, n>>]
WantedImage(c, i) == ImageOf(SignedBy(c.elves[i], WantedManifest(c), c.prod))

\* A full image with the two RW images of a command in place.
Updated(file, c) ==
  Paste(Paste(file, RwAt[0], WantedImage(c, 0)), RwAt[1], WantedImage(c, 1))
=============================================================================
