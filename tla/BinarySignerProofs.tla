------------------------- MODULE BinarySignerProofs -------------------------
(***************************************************************************)
(* Proofs about the script bs: what it may sign, and what a run that       *)
(* prints SUCCESS has done, for any number of runs, files and commands.    *)
(***************************************************************************)
EXTENDS BinarySigner, SequenceTheorems, TLAPS

----------------------------------------------------------------------------
(* Files.                                                                  *)

\* A function on 1..n is a sequence of length n.
LEMMA FunctionIsFile ==
  ASSUME NEW S, NEW n \in Nat, NEW s \in [1..n -> S]
  PROVE  s \in Seq(S) /\ Len(s) = n
<1>1. s \in Seq(S)  BY SeqDef, Zenon
<1>2. Len(s) \in Nat /\ DOMAIN s = 1..Len(s)  BY <1>1, LenProperties
<1> QED  BY <1>1, <1>2

\* dd conv=notrunc makes a file of the blocks of both files, and of holes.
LEMMA PasteIsFile ==
  ASSUME NEW S, Hole \in S, NEW at \in Nat,
         NEW file \in Seq(S), NEW part \in Seq(S)
  PROVE  Paste(file, at, part) \in Seq(S)
<1>1. /\ Len(file) \in Nat /\ file \in [1..Len(file) -> S]
      /\ Len(part) \in Nat /\ part \in [1..Len(part) -> S]
  BY LenProperties
<1>2. CASE part = << >>  BY <1>2 DEF Paste
<1>3. CASE part # << >>
  <2> DEFINE n == Longest(Len(file), at + Len(part))
  <2>1. n \in Nat /\ n >= Len(file) /\ n >= at + Len(part)
    BY <1>1 DEF Longest
  <2>2. Paste(file, at, part) =
          [k \in 1..n |-> IF at < k /\ k <= at + Len(part) THEN part[k - at]
                          ELSE IF k <= Len(file) THEN file[k] ELSE Hole]
    BY <1>3 DEF Paste
  <2>3. Paste(file, at, part) \in [1..n -> S]
    <3> HIDE DEF n
    <3> SUFFICES ASSUME NEW k \in 1..n
                 PROVE  (IF at < k /\ k <= at + Len(part) THEN part[k - at]
                         ELSE IF k <= Len(file) THEN file[k] ELSE Hole) \in S
      BY <2>2, Zenon
    <3>1. CASE at < k /\ k <= at + Len(part)
      <4>1. k - at \in 1..Len(part)  BY <1>1, <2>1, <3>1
      <4> QED  BY <1>1, <3>1, <4>1
    <3>2. CASE ~(at < k /\ k <= at + Len(part)) /\ k <= Len(file)
      <4>1. k \in 1..Len(file)  BY <1>1, <2>1, <3>2
      <4> QED  BY <1>1, <3>2, <4>1
    <3>3. CASE ~(at < k /\ k <= at + Len(part)) /\ ~(k <= Len(file))
      BY <3>3
    <3> QED  BY <3>1, <3>2, <3>3
  <2> HIDE DEF n
  <2> QED  BY <2>1, <2>3, FunctionIsFile
<1> QED  BY <1>2, <1>3

\* What is in that file: the part in its place, the rest as it was.
LEMMA PasteKeepsRest ==
  ASSUME NEW S, NEW at \in Nat,
         NEW file \in Seq(S), NEW part \in Seq(S), Len(part) > 0, Hole \in S
  PROVE  /\ Len(Paste(file, at, part)) = Longest(Len(file), at + Len(part))
         /\ \A n \in 1..Len(part) : Paste(file, at, part)[at + n] = part[n]
         /\ \A n \in 1..Len(file) :
              ~(at < n /\ n <= at + Len(part)) => Paste(file, at, part)[n] = file[n]
<1>1. /\ Len(file) \in Nat /\ Len(part) \in Nat
      /\ part # << >>
  BY LenProperties
<1> DEFINE n == Longest(Len(file), at + Len(part))
           new == Paste(file, at, part)
<1>2. n \in Nat /\ n >= Len(file) /\ n >= at + Len(part)
  BY <1>1 DEF Longest
<1>3. new = [k \in 1..n |-> IF at < k /\ k <= at + Len(part) THEN part[k - at]
                            ELSE IF k <= Len(file) THEN file[k] ELSE Hole]
  BY <1>1 DEF Paste
<1>4. new \in Seq(S)  BY PasteIsFile
<1>5. Len(new) = n
  <2>1. Len(new) \in Nat /\ DOMAIN new = 1..Len(new)  BY <1>4, LenProperties
  <2>2. DOMAIN new = 1..n  BY <1>3
  <2> QED  BY <1>2, <2>1, <2>2
<1>6. ASSUME NEW k \in 1..Len(part)  PROVE new[at + k] = part[k]
  <2>1. at + k \in 1..n /\ at < at + k /\ at + k <= at + Len(part) /\ (at + k) - at = k
    BY <1>1, <1>2
  <2> HIDE DEF n
  <2>2. new[at + k] = part[(at + k) - at]  BY <1>3, <2>1
  <2> QED  BY <2>1, <2>2
<1>7. ASSUME NEW k \in 1..Len(file), ~(at < k /\ k <= at + Len(part))
      PROVE  new[k] = file[k]
  <2>1. k \in 1..n /\ k <= Len(file)  BY <1>1, <1>2
  <2> HIDE DEF n
  <2> QED  BY <1>3, <1>7, <2>1
<1> QED  BY <1>5, <1>6, <1>7

\* A file cut short is a file.
LEMMA TorsoIsFile ==
  ASSUME NEW S, NEW file \in Seq(S), NEW part \in Torsos(file)
  PROVE  part \in Seq(S)
<1>1. PICK n \in Cuts \cap 1..Len(file) : part = SubSeq(file, 1, Len(file) - n)
  BY DEF Torsos
<1>2. Len(file) \in Nat /\ Len(file) - n \in Int /\ Len(file) - n <= Len(file)
  BY LenProperties
<1>3. \A i \in 1..(Len(file) - n) : file[i] \in S
  <2> TAKE i \in 1..(Len(file) - n)
  <2> QED  BY <1>2, ElementOfSeq
<1> QED  BY <1>1, <1>2, <1>3, SubSeqProperties

----------------------------------------------------------------------------
(* The inductive invariant.                                                *)

\* What a block may be: one from before, or one of an image that bs may sign.
MaySign(signed) ==
  /\ signed.prodKey = signed.manifest.prod
  /\ signed.prodKey => signed.elf \notin Debug /\ ~signed.manifest.devids
GoodBlock == Unsigned \cup {b \in Signed \X (Nat \ {0}) : MaySign(b[1])}
GoodFile == {Absent} \cup Seq(GoodBlock)

FilesGood ==
  /\ blob \in [Suffix -> [0..1 -> GoodFile]]
  /\ tmp \in [Path -> GoodFile]
  /\ result \in [Path -> GoodFile]

ControlOK ==
  /\ pc \in [Proc -> Label]
  /\ cmd \in [Proc -> Command]
  /\ manifest \in [Proc -> Manifest]
  /\ count \in [Proc -> 0..2]
  /\ linked \in [Proc -> BOOLEAN]
  /\ outcome \in [Proc -> {"none", "success", "fail", "help"}]
  /\ runs \in 0..MaxRuns

\* Where a run is in the script.
Loop == {"elf", "touch", "sign", "write"}
Pasting == {"copy", "paste0", "paste1", "rm", "mv"}
Succeeded(p) == pc[p] = "echo" \/ (pc[p] = "exit" /\ outcome[p] = "success")
Signing(p) == pc[p] # "idle" /\ cmd[p].kind = "sign"

\* The runs that sign take turns.
OneSigner == \A p, q \in Proc : Signing(p) /\ Signing(q) => p = q

\* What a run has made of its command line at each point of the script.
Settled(p) ==
  /\ pc[p] = "idle" => cmd[p] = AnyCommand
  /\ pc[p] \notin {"idle", "options", "exit"} => cmd[p].kind = "sign"
  /\ Succeeded(p) => cmd[p].kind = "sign"
  /\ pc[p] \in {"idle", "options", "check", "tweak"} => count[p] = 0
  /\ pc[p] = "options" => manifest[p] = Fresh
  /\ pc[p] \in {"check", "tweak"} =>
       manifest[p] = [Fresh EXCEPT !.blk0 = IF cmd[p].b1 THEN 0 ELSE 2]
  /\ pc[p] = "tweak" => ~(cmd[p].prod /\ cmd[p].b1)
  /\ pc[p] \in Loop => manifest[p] = WantedManifest(cmd[p])
  /\ pc[p] \in {"touch", "sign", "write"} =>
       count[p] < 2 /\ ~(cmd[p].prod /\ cmd[p].elves[count[p]] \in Debug)
  /\ pc[p] \in Pasting => ~cmd[p].hex
  /\ pc[p] \in {"tweak"} \cup Loop \cup Pasting =>
       cmd[p].hex \/ result[cmd[p].path] # Absent

\* File i of p is the image asked for; or the trap of another run has removed it.
Made(p, i) ==
  \/ blob[SuffixOf(p)][i] = WantedImage(cmd[p], i)
  \/ ~cmd[p].hex /\ blob["flat"][i] = Absent

\* What of the request of p is done: as long as the signer does not lie, a run
\* that has come so far has an image for each ELF file behind it, the copy holds
\* those pasted so far, and after the end all of them are where they belong.
Done(p) ==
  LET c == cmd[p]
      old == result[c.path]
  IN /\ pc[p] \in Loop => \A i \in 0..1 : i < count[p] => Made(p, i)
     /\ pc[p] = "write" =>
          linked[p] \/ (~c.hex /\ blob["flat"][count[p]] = Absent)
     /\ pc[p] \in {"copy", "paste0", "paste1"} => \A i \in 0..1 : Made(p, i)
     /\ pc[p] = "paste0" => tmp[c.path] = old
     /\ pc[p] = "paste1" => tmp[c.path] = Paste(old, RwAt[0], WantedImage(c, 0))
     /\ pc[p] \in {"rm", "mv"} => tmp[c.path] = Updated(old, c)
     /\ Succeeded(p) =>
          IF c.hex
          THEN \A i \in 0..1 : blob["signed.hex"][i] = WantedImage(c, i)
          ELSE \E file \in Seq(GoodBlock) : old = Updated(file, c)

BInv ==
  /\ ControlOK /\ FilesGood /\ OneSigner
  /\ \A p \in Proc : Settled(p)
  /\ ~SignerLies => \A p \in Proc : Done(p)

----------------------------------------------------------------------------
(* The steps of one run.                                                   *)

StepOf(p) == Run(p) \/ Interrupt(p) \/ Kill(p)

\* What a step of p leaves alone of another run: all but the files, and whether
\* the file its signer has open still has a name.
Spared(q) ==
  /\ pc'[q] = pc[q] /\ cmd'[q] = cmd[q] /\ manifest'[q] = manifest[q]
  /\ count'[q] = count[q] /\ outcome'[q] = outcome[q]

\* A command to fall back to.
LEMMA AnyCommandIsOne == AnyCommand \in Command
  BY CommandAssumption DEF AnyCommand

\* The types of a command.
LEMMA CommandFields ==
  ASSUME NEW c \in Command
  PROVE  /\ c.kind \in {"sign", "help", "usage"}
         /\ c.prod \in BOOLEAN /\ c.b1 \in BOOLEAN /\ c.hex \in BOOLEAN
         /\ c.devids \in BOOLEAN
         /\ c.elves \in [0..1 -> Elf]
         /\ c.board \in {"none", "good", "bad"}
         /\ c.path \in Path
  BY CommandAssumption

\* A process without a run.
LEMMA ForgetControl ==
  ASSUME ControlOK, NEW p \in Proc, Forget(p),
         linked' \in [Proc -> BOOLEAN],
         outcome' \in [Proc -> {"none", "success", "fail", "help"}]
  PROVE  ControlOK'
<1>1. Fresh \in Manifest  BY DEF Fresh, Manifest
<1>2. pc' \in [Proc -> Label] /\ cmd' \in [Proc -> Command]
  BY AnyCommandIsOne DEF ControlOK, Forget, Goto, Label
<1>3. manifest' \in [Proc -> Manifest]
  BY <1>1 DEF ControlOK, Forget
<1>4. count' \in [Proc -> 0..2] /\ runs' \in 0..MaxRuns
  BY DEF ControlOK, Forget
<1> QED  BY <1>2, <1>3, <1>4 DEF ControlOK

\* A step keeps the types, but for those of the files.
LEMMA StepControl ==
  ASSUME ControlOK, NEW p \in Proc, Settled(p), StepOf(p)
  PROVE  ControlOK'
<1> USE DEF Goto, Exit, Label
<1>1. CASE NotReady(p)
  <2>1. CASE Exit(p, "fail") /\ UNCHANGED <<runs, cmd, manifest, count, linked>>
    BY <2>1 DEF ControlOK
  <2>2. CASE Die(p)
    BY <2>2, ForgetControl DEF ControlOK, Die, Report
  <2> QED  BY <1>1, <2>1, <2>2 DEF NotReady
<1>2. CASE ParseOptions(p)
  <2>1. manifest' \in [Proc -> Manifest]
    <3>1. [manifest[p] EXCEPT !.blk0 = IF cmd[p].b1 THEN 0 ELSE @] \in Manifest
      BY DEF ControlOK, Manifest
    <3> QED  BY <1>2, <3>1 DEF ControlOK, ParseOptions
  <2> QED  BY <1>2, <2>1 DEF ControlOK, ParseOptions
<1>3. CASE CheckOptions(p)  BY <1>3 DEF ControlOK, CheckOptions
<1>4. CASE TweakManifest(p)
  <2> DEFINE m == IF cmd[p].prod
                  THEN [manifest[p] EXCEPT !.prod = TRUE, !.blk0 = 2]
                  ELSE manifest[p]
             d == cmd[p].devids /\ ~cmd[p].prod
             b == cmd[p].board = "good"
  <2>1. m \in Manifest  BY DEF ControlOK, Manifest
  <2>2. d \in BOOLEAN /\ b \in BOOLEAN  OBVIOUS
  <2>3. manifest' = [manifest EXCEPT ![p] = [m EXCEPT !.devids = d, !.board = b]]
    BY <1>4 DEF TweakManifest
  <2>4. [m EXCEPT !.devids = d, !.board = b] \in Manifest
    <3> HIDE DEF m, d, b
    <3> QED  BY <2>1, <2>2 DEF Manifest
  <2>5. manifest' \in [Proc -> Manifest]
    <3> HIDE DEF m, d, b
    <3> QED  BY <2>3, <2>4 DEF ControlOK
  <2> HIDE DEF m, d, b
  <2> QED  BY <1>4, <2>5 DEF ControlOK, TweakManifest
<1>5. CASE CheckElf(p)  BY <1>5 DEF ControlOK, CheckElf
<1>6. CASE Touch(p)  BY <1>6 DEF ControlOK, Touch
<1>7. CASE Sign(p)
  <2>1. count[p] < 2  BY <1>7 DEF Settled, Sign
  <2>2. CASE linked' = linked
    <3>1. \/ NextElf(p) /\ UNCHANGED outcome
          \/ Exit(p, "fail") /\ UNCHANGED count
          \/ Goto(p, "write") /\ UNCHANGED <<count, outcome>>
      BY <1>7 DEF Sign
    <3> QED  BY <1>7, <2>1, <2>2, <3>1 DEF ControlOK, Sign, NextElf
  <2>3. CASE linked' = [linked EXCEPT ![p] = TRUE] /\ Goto(p, "write")
             /\ UNCHANGED <<count, outcome>>
    BY <1>7, <2>3 DEF ControlOK, Sign
  <2> QED  BY <1>7, <2>2, <2>3, Zenon DEF Sign
<1>8. CASE SignerWrites(p)
  <2>1. count[p] < 2  BY <1>8 DEF Settled, SignerWrites
  <2> QED  BY <1>8, <2>1 DEF ControlOK, SignerWrites, NextElf
<1>9. CASE Copy(p)  BY <1>9 DEF ControlOK, Copy
<1>10. CASE Paste0(p)  BY <1>10 DEF ControlOK, Paste0, Dd
<1>11. CASE Paste1(p)  BY <1>11 DEF ControlOK, Paste1, Dd
<1>12. CASE RemoveFlats(p)  BY <1>12 DEF ControlOK, RemoveFlats, StillLinked
<1>13. CASE Move(p)  BY <1>13 DEF ControlOK, Move
<1>14. CASE Echo(p)  BY <1>14 DEF ControlOK, Echo
<1>15. CASE ExitTrap(p)
  <2>1. linked' \in [Proc -> BOOLEAN]  BY <1>15 DEF ExitTrap, StillLinked
  <2>2. outcome' \in [Proc -> {"none", "success", "fail", "help"}]
    BY <1>15 DEF ControlOK, ExitTrap, Report
  <2> QED  BY <1>15, <2>1, <2>2, ForgetControl DEF ExitTrap
<1>16. CASE Interrupt(p)  BY <1>16 DEF ControlOK, Interrupt
<1>17. CASE Kill(p)  BY <1>17, ForgetControl DEF ControlOK, Kill, Die, Report
<1> QED
  BY <1>1, <1>2, <1>3, <1>4, <1>5, <1>6, <1>7, <1>8, <1>9, <1>10, <1>11, <1>12,
     <1>13, <1>14, <1>15, <1>16, <1>17 DEF StepOf, Run

\* It is the run's own.
LEMMA StepSparesOthers ==
  ASSUME ControlOK, NEW p \in Proc, StepOf(p), NEW q \in Proc \ {p}
  PROVE  Spared(q)
<1> USE DEF Spared, ControlOK, Goto, Exit, Forget, Report, Die, NextElf
<1>1. CASE NotReady(p) \/ ParseOptions(p) \/ CheckOptions(p) \/ TweakManifest(p)
  BY <1>1 DEF NotReady, ParseOptions, CheckOptions, TweakManifest
<1>2. CASE CheckElf(p) \/ Touch(p) \/ Sign(p) \/ SignerWrites(p)
  BY <1>2 DEF CheckElf, Touch, Sign, SignerWrites
<1>3. CASE Copy(p) \/ Paste0(p) \/ Paste1(p) \/ RemoveFlats(p) \/ Move(p) \/ Echo(p)
  BY <1>3 DEF Copy, Paste0, Paste1, Dd, RemoveFlats, Move, Echo
<1>4. CASE ExitTrap(p) \/ Interrupt(p) \/ Kill(p)
  BY <1>4 DEF ExitTrap, Interrupt, Kill
<1> QED  BY <1>1, <1>2, <1>3, <1>4 DEF StepOf, Run

----------------------------------------------------------------------------
(* What a step puts into the files.                                        *)

\* Holes are blocks that nobody signed.
LEMMA HoleIsGood == Hole \in GoodBlock
  BY BsAssumption DEF GoodBlock

\* The image of a command, block by block.
LEMMA WantedBlocks ==
  ASSUME NEW c \in Command, NEW i \in 0..1
  PROVE  LET signed == SignedBy(c.elves[i], WantedManifest(c), c.prod) IN
         /\ signed \in Signed
         /\ signed.elf = c.elves[i] /\ signed.manifest = WantedManifest(c)
         /\ signed.prodKey = c.prod
         /\ Blocks[c.elves[i]] \in Nat \ {0}
         /\ WantedImage(c, i) = [k \in 1..Blocks[c.elves[i]] |-> <<signed, k>>]
         /\ WantedImage(c, i) = ImageOf(signed)
<1> DEFINE signed == SignedBy(c.elves[i], WantedManifest(c), c.prod)
<1>1. c.prod \in BOOLEAN /\ c.devids \in BOOLEAN /\ c.elves[i] \in Elf
  BY CommandFields
<1>2. Blocks[c.elves[i]] \in Nat \ {0}  BY <1>1, LayoutAssumption
<1>3. WantedManifest(c) \in Manifest  BY <1>1 DEF WantedManifest, Manifest
<1>4. signed \in Signed  BY <1>1, <1>3 DEF Signed, SignedBy
<1>5. signed.elf = c.elves[i] /\ signed.manifest = WantedManifest(c)
      /\ signed.prodKey = c.prod
  BY DEF SignedBy
<1>6. WantedImage(c, i) = ImageOf(signed)  BY DEF WantedImage
<1>7. ImageOf(signed) = [k \in 1..Blocks[c.elves[i]] |-> <<signed, k>>]
  BY <1>5 DEF ImageOf
<1> HIDE DEF signed
<1> QED  BY <1>2, <1>4, <1>5, <1>6, <1>7 DEF signed

\* It is a file; of good blocks, if the command may be signed.
LEMMA WantedIsFile ==
  ASSUME NEW c \in Command, NEW i \in 0..1
  PROVE  /\ WantedImage(c, i) \in Seq(Block)
         /\ Len(WantedImage(c, i)) = Blocks[c.elves[i]]
         /\ ~(c.prod /\ c.elves[i] \in Debug) => WantedImage(c, i) \in Seq(GoodBlock)
<1> DEFINE signed == SignedBy(c.elves[i], WantedManifest(c), c.prod)
           n == Blocks[c.elves[i]]
<1>1. /\ signed \in Signed /\ signed.elf = c.elves[i]
      /\ signed.manifest = WantedManifest(c) /\ signed.prodKey = c.prod
      /\ n \in Nat
      /\ WantedImage(c, i) = [k \in 1..n |-> <<signed, k>>]
  BY WantedBlocks
<1>2. c.prod \in BOOLEAN /\ c.devids \in BOOLEAN  BY CommandFields
<1>3. ~(c.prod /\ c.elves[i] \in Debug) => MaySign(signed)
  <2>1. /\ WantedManifest(c).prod = c.prod
        /\ WantedManifest(c).devids = (c.devids /\ ~c.prod)
    BY DEF WantedManifest
  <2>2. signed.elf \notin Debug \/ ~c.prod \/ c.elves[i] \in Debug
    BY <1>1
  <2> HIDE DEF signed
  <2> QED  BY <1>1, <1>2, <2>1, <2>2 DEF MaySign
<1> HIDE DEF signed, n
<1>4. WantedImage(c, i) \in [1..n -> Block]  BY <1>1 DEF Block
<1>5. WantedImage(c, i) \in Seq(Block) /\ Len(WantedImage(c, i)) = n
  BY <1>1, <1>4, FunctionIsFile
<1>6. ASSUME ~(c.prod /\ c.elves[i] \in Debug)
      PROVE  WantedImage(c, i) \in Seq(GoodBlock)
  <2>1. \A k \in 1..n : <<signed, k>> \in GoodBlock
    BY <1>1, <1>3, <1>6 DEF GoodBlock
  <2>2. WantedImage(c, i) \in [1..n -> GoodBlock]  BY <1>1, <2>1
  <2> QED  BY <1>1, <2>2, FunctionIsFile
<1> QED  BY <1>5, <1>6 DEF n

\* A file of good blocks is there.
LEMMA GoodIsThere ==
  ASSUME NEW file \in Seq(GoodBlock)  PROVE file # Absent /\ file \in Seq(Block)
<1>1. GoodBlock \subseteq Block  BY DEF GoodBlock, Block
<1>2. file \in Seq(Block)  BY <1>1, SeqMonotonic
<1> QED  BY <1>2, FirstAssumption

\* A file that is not Absent is one of good blocks.
LEMMA ThereIsGood ==
  ASSUME FilesGood
  PROVE  /\ \A f \in Path : result[f] # Absent => result[f] \in Seq(GoodBlock)
         /\ \A f \in Path : tmp[f] # Absent => tmp[f] \in Seq(GoodBlock)
         /\ \A i \in 0..1 : blob["flat"][i] # Absent => blob["flat"][i] \in Seq(GoodBlock)
<1> USE DEF FilesGood, GoodFile, Suffix
<1>1. \A f \in Path : result[f] # Absent => result[f] \in Seq(GoodBlock)
  OBVIOUS
<1>2. \A f \in Path : tmp[f] # Absent => tmp[f] \in Seq(GoodBlock)
  OBVIOUS
<1>3. \A i \in 0..1 : blob["flat"][i] # Absent => blob["flat"][i] \in Seq(GoodBlock)
  OBVIOUS
<1> QED  BY <1>1, <1>2, <1>3

\* The image the signer makes is the one asked for.
LEMMA NewImageIsWanted ==
  ASSUME NEW p \in Proc, manifest[p] = WantedManifest(cmd[p])
  PROVE  NewImage(p) = WantedImage(cmd[p], count[p])
  BY DEF NewImage, WantedImage, KeyOption

\* What is written to an output is good if it is made of good blocks.
LEMMA WriteGood ==
  ASSUME ControlOK, FilesGood, NEW p \in Proc, count[p] < 2,
         NEW blocks \in Seq(GoodBlock), WriteOutput(p, blocks)
  PROVE  blob' \in [Suffix -> [0..1 -> GoodFile]]
<1>1. SuffixOf(p) \in Suffix /\ count[p] \in 0..1
  BY DEF SuffixOf, Suffix, ControlOK
<1>2. blocks \in GoodFile  BY DEF GoodFile
<1>3. [blob[SuffixOf(p)] EXCEPT ![count[p]] = blocks] \in [0..1 -> GoodFile]
  BY <1>1, <1>2 DEF FilesGood
<1>4. blob' = [blob EXCEPT ![SuffixOf(p)] =
                 [blob[SuffixOf(p)] EXCEPT ![count[p]] = blocks]]
  BY DEF WriteOutput
<1> QED  BY <1>1, <1>3, <1>4 DEF FilesGood

\* Nor is anything wrong with files that are removed.
LEMMA RemoveGood ==
  ASSUME FilesGood  PROVE NoFlats \in [Suffix -> [0..1 -> GoodFile]]
<1>1. [i \in 0..1 |-> Absent] \in [0..1 -> GoodFile]  BY DEF GoodFile
<1> QED  BY <1>1 DEF NoFlats, FilesGood, Suffix

\* A dd into the copy.
LEMMA DdGood ==
  ASSUME ControlOK, FilesGood, NEW p \in Proc, NEW i \in 0..1, NEW l, Dd(p, i, l)
  PROVE  tmp' \in [Path -> GoodFile]
<1> DEFINE f == cmd[p].path
           old == IF tmp[f] = Absent THEN << >> ELSE tmp[f]
           flat == blob["flat"][i]
<1>1. f \in Path  BY CommandFields DEF ControlOK
<1>2. old \in Seq(GoodBlock)  BY <1>1, EmptySeq, ThereIsGood
<1>3. RwAt[i] \in Nat  BY LayoutAssumption
<1>4. ASSUME NEW part \in Seq(GoodBlock),
             tmp' = [tmp EXCEPT ![f] = Paste(old, RwAt[i], part)]
      PROVE  tmp' \in [Path -> GoodFile]
  <2> HIDE DEF f, old
  <2>1. Paste(old, RwAt[i], part) \in GoodFile
    BY <1>2, <1>3, HoleIsGood, PasteIsFile DEF GoodFile
  <2> QED  BY <1>1, <1>4, <2>1 DEF FilesGood
<1>5. CASE flat = Absent  BY <1>5 DEF Dd, FilesGood
<1>6. CASE flat # Absent
  <2>1. flat \in Seq(GoodBlock)  BY <1>6, ThereIsGood
  <2>2. \A part \in Torsos(flat) : part \in Seq(GoodBlock)
    <3> HIDE DEF flat
    <3> QED  BY <2>1, TorsoIsFile
  <2>3. \E part \in Seq(GoodBlock) :
          tmp' = [tmp EXCEPT ![f] = Paste(old, RwAt[i], part)]
    BY <1>6, <2>1, <2>2 DEF Dd
  <2> HIDE DEF f, old, flat
  <2> QED  BY <1>4, <2>3
<1> QED  BY <1>5, <1>6

\* A step keeps the files good.
LEMMA StepFiles ==
  ASSUME ControlOK, FilesGood, NEW p \in Proc, Settled(p), StepOf(p)
  PROVE  FilesGood'
<1> DEFINE f == cmd[p].path
<1>1. f \in Path  BY CommandFields DEF ControlOK
<1>2. CASE UNCHANGED <<blob, tmp, result>>  BY <1>2 DEF FilesGood
<1>3. CASE Touch(p) \/ Sign(p)
  <2>1. count[p] < 2  BY <1>3 DEF Settled, Touch, Sign
  <2>2. WriteOutput(p, << >>) \/ UNCHANGED blob  BY <1>3 DEF Touch, Sign
  <2>3. blob' \in [Suffix -> [0..1 -> GoodFile]]
    BY <2>1, <2>2, EmptySeq, WriteGood DEF FilesGood
  <2> QED  BY <1>3, <2>3 DEF FilesGood, Touch, Sign
<1>4. CASE SignerWrites(p)
  <2>1. /\ count[p] < 2 /\ ~(cmd[p].prod /\ cmd[p].elves[count[p]] \in Debug)
        /\ manifest[p] = WantedManifest(cmd[p])
    BY <1>4 DEF Settled, SignerWrites, Loop
  <2>2. count[p] \in 0..1 /\ cmd[p] \in Command  BY <2>1 DEF ControlOK
  <2>3. NewImage(p) \in Seq(GoodBlock)
    <3>1. WantedImage(cmd[p], count[p]) \in Seq(GoodBlock)
      BY <2>1, <2>2, WantedIsFile
    <3> QED  BY <2>1, <3>1, NewImageIsWanted
  <2>4. \A part \in Torsos(NewImage(p)) : part \in Seq(GoodBlock)
    BY <2>3, TorsoIsFile
  <2>5. \/ UNCHANGED blob
        \/ \E blocks \in Seq(GoodBlock) : WriteOutput(p, blocks)
    BY <1>4, <2>3, <2>4 DEF SignerWrites
  <2>6. blob' \in [Suffix -> [0..1 -> GoodFile]]
    BY <2>1, <2>5, WriteGood DEF FilesGood
  <2> QED  BY <1>4, <2>6 DEF FilesGood, SignerWrites
<1>5. CASE Copy(p)
  <2>1. \A part \in Torsos(result[f]) : result[f] # Absent => part \in Seq(GoodBlock)
    BY <1>1, ThereIsGood, TorsoIsFile
  <2>2. \/ UNCHANGED tmp
        \/ \E file \in GoodFile : tmp' = [tmp EXCEPT ![f] = file]
    <3>1. result[f] \in GoodFile  BY <1>1 DEF FilesGood
    <3>2. Seq(GoodBlock) \subseteq GoodFile  BY DEF GoodFile
    <3> QED  BY <1>5, <2>1, <3>1, <3>2 DEF Copy
  <2> HIDE DEF f
  <2>3. tmp' \in [Path -> GoodFile]  BY <1>1, <2>2 DEF FilesGood
  <2> QED  BY <1>5, <2>3 DEF FilesGood, Copy
<1>6. CASE Paste0(p) \/ Paste1(p)
  <2>1. \E i \in 0..1, l \in Label : Dd(p, i, l)
    BY <1>6 DEF Paste0, Paste1, Label
  <2>2. tmp' \in [Path -> GoodFile]  BY <2>1, DdGood
  <2>3. UNCHANGED <<blob, result>>  BY <2>1 DEF Dd
  <2> QED  BY <2>2, <2>3 DEF FilesGood
<1>7. CASE RemoveFlats(p) \/ ExitTrap(p)
  <2>1. (blob' = NoFlats \/ UNCHANGED blob) /\ UNCHANGED <<tmp, result>>
    BY <1>7 DEF RemoveFlats, ExitTrap
  <2> QED  BY <2>1, RemoveGood DEF FilesGood
<1>8. CASE Move(p)
  <2>1. tmp[f] \in GoodFile /\ Absent \in GoodFile
    BY <1>1 DEF FilesGood, GoodFile
  <2>2. \/ UNCHANGED <<tmp, result>>
        \/ /\ result' = [result EXCEPT ![f] = tmp[f]]
           /\ tmp' = [tmp EXCEPT ![f] = Absent]
    BY <1>8 DEF Move
  <2> HIDE DEF f
  <2>3. tmp' \in [Path -> GoodFile] /\ result' \in [Path -> GoodFile]
    BY <1>1, <2>1, <2>2 DEF FilesGood
  <2> QED  BY <1>8, <2>3 DEF FilesGood, Move
<1>9. CASE \/ NotReady(p) \/ ParseOptions(p) \/ CheckOptions(p) \/ TweakManifest(p)
           \/ CheckElf(p) \/ Echo(p) \/ Interrupt(p) \/ Kill(p)
  BY <1>2, <1>9 DEF NotReady, ParseOptions, CheckOptions, TweakManifest, CheckElf,
     Echo, Interrupt, Kill
<1> QED
  BY <1>3, <1>4, <1>5, <1>6, <1>7, <1>8, <1>9 DEF StepOf, Run

----------------------------------------------------------------------------
(* The run that takes the step, and the others.                            *)

\* A full image is replaced, never taken away.
LEMMA StepKeepsImages ==
  ASSUME ControlOK, FilesGood, NEW p \in Proc, StepOf(p), NEW f \in Path,
         result[f] # Absent
  PROVE  result'[f] # Absent
<1>1. CASE Move(p)
  <2>1. cmd[p].path \in Path  BY CommandFields DEF ControlOK
  <2> QED  BY <1>1, <2>1 DEF Move, FilesGood
<1>2. CASE UNCHANGED result  BY <1>2
<1>3. Move(p) \/ UNCHANGED result
  <2>1. CASE NotReady(p) \/ ParseOptions(p) \/ CheckOptions(p) \/ TweakManifest(p)
             \/ CheckElf(p) \/ Touch(p) \/ Sign(p) \/ SignerWrites(p)
    BY <2>1 DEF NotReady, ParseOptions, CheckOptions, TweakManifest, CheckElf,
       Touch, Sign, SignerWrites
  <2>2. CASE Copy(p) \/ Paste0(p) \/ Paste1(p) \/ RemoveFlats(p) \/ Echo(p)
             \/ ExitTrap(p) \/ Interrupt(p) \/ Kill(p)
    BY <2>2 DEF Copy, Paste0, Paste1, Dd, RemoveFlats, Echo, ExitTrap, Interrupt, Kill
  <2> QED  BY <2>1, <2>2 DEF StepOf, Run
<1> QED  BY <1>1, <1>2, <1>3

\* A step makes no run one that signs.
LEMMA StepSigning ==
  ASSUME ControlOK, NEW p \in Proc, StepOf(p)
  PROVE  \/ pc'[p] = "idle"
         \/ pc[p] # "idle" /\ cmd'[p] = cmd[p]
<1> USE DEF ControlOK, Goto, Exit, Forget, Die, NextElf
<1>1. CASE NotReady(p) \/ ParseOptions(p) \/ CheckOptions(p) \/ TweakManifest(p)
  BY <1>1 DEF NotReady, ParseOptions, CheckOptions, TweakManifest
<1>2. CASE CheckElf(p) \/ Touch(p) \/ Sign(p) \/ SignerWrites(p)
  BY <1>2 DEF CheckElf, Touch, Sign, SignerWrites
<1>3. CASE Copy(p) \/ Paste0(p) \/ Paste1(p) \/ RemoveFlats(p) \/ Move(p) \/ Echo(p)
  BY <1>3 DEF Copy, Paste0, Paste1, Dd, RemoveFlats, Move, Echo
<1>4. CASE ExitTrap(p) \/ Interrupt(p) \/ Kill(p)
  BY <1>4 DEF ExitTrap, Interrupt, Kill
<1> QED  BY <1>1, <1>2, <1>3, <1>4 DEF StepOf, Run

\* A process that forgets is settled, and has nothing to show.
LEMMA ForgetSettled ==
  ASSUME ControlOK, NEW p \in Proc, Forget(p)
  PROVE  Settled(p)' /\ Done(p)' /\ pc'[p] = "idle" /\ cmd'[p] = AnyCommand
<1>1. pc'[p] = "idle" /\ cmd'[p] = AnyCommand /\ count'[p] = 0
  BY DEF ControlOK, Forget, Goto
<1> QED  BY <1>1 DEF Settled, Done, Succeeded, Loop, Pasting

\* A run that ends without success has nothing to show either.
LEMMA FailSettled ==
  ASSUME ControlOK, NEW p \in Proc, NEW how, how # "success", Exit(p, how)
  PROVE  Settled(p)' /\ Done(p)'
<1>1. pc'[p] = "exit" /\ outcome'[p] = how
  BY DEF ControlOK, Exit, Goto
<1> QED  BY <1>1 DEF Settled, Done, Succeeded, Loop, Pasting

\* A step leaves its run settled.
LEMMA StepSettled ==
  ASSUME ControlOK, FilesGood, NEW p \in Proc, Settled(p), StepOf(p)
  PROVE  Settled(p)'
<1> DEFINE f == cmd[p].path
<1>1. f \in Path /\ cmd[p].prod \in BOOLEAN /\ cmd[p].b1 \in BOOLEAN
      /\ cmd[p].devids \in BOOLEAN /\ cmd[p] \in Command
  BY CommandFields DEF ControlOK
<1>2. CASE Exit(p, "fail") \/ Exit(p, "help") \/ Forget(p)
  BY <1>2, ForgetSettled, FailSettled
<1> USE DEF Settled, Succeeded, Loop, Pasting, Goto, Label
<1>3. CASE ParseOptions(p) /\ cmd[p].kind = "sign" /\ Goto(p, "check")
            /\ manifest' = [manifest EXCEPT ![p].blk0 = IF cmd[p].b1 THEN 0 ELSE @]
  <2>1. pc'[p] = "check" /\ cmd'[p] = cmd[p] /\ count'[p] = 0
    BY <1>3 DEF ParseOptions, ControlOK
  <2>2. manifest[p] = Fresh  BY <1>3 DEF ParseOptions
  <2>3. manifest'[p] = [Fresh EXCEPT !.blk0 = IF cmd[p].b1 THEN 0 ELSE 2]
    <3>1. manifest'[p] = [Fresh EXCEPT !.blk0 = IF cmd[p].b1 THEN 0 ELSE Fresh.blk0]
      BY <1>3, <2>2 DEF ControlOK
    <3>2. Fresh.blk0 = 2  BY DEF Fresh
    <3> QED  BY <3>1, <3>2
  <2> QED  BY <1>3, <2>1, <2>3
<1>4. CASE CheckOptions(p) /\ Goto(p, "tweak")
            /\ (cmd[p].hex \/ result[f] # Absent) /\ ~(cmd[p].prod /\ cmd[p].b1)
  <2>1. pc[p] = "check" /\ pc'[p] = "tweak"  BY <1>4 DEF CheckOptions, ControlOK
  <2>2. UNCHANGED <<cmd, count, manifest, result>>  BY <1>4 DEF CheckOptions
  <2> QED  BY <1>4, <2>1, <2>2
<1>5. CASE TweakManifest(p) /\ Goto(p, "elf")
  <2>1. pc[p] = "tweak" /\ pc'[p] = "elf" /\ UNCHANGED <<cmd, count, result>>
    BY <1>5 DEF TweakManifest, ControlOK
  <2>2. manifest[p] = [Fresh EXCEPT !.blk0 = IF cmd[p].b1 THEN 0 ELSE 2]
        /\ ~(cmd[p].prod /\ cmd[p].b1)
    BY <2>1
  <2> DEFINE m == IF cmd[p].prod
                  THEN [manifest[p] EXCEPT !.prod = TRUE, !.blk0 = 2]
                  ELSE manifest[p]
             d == cmd[p].devids /\ ~cmd[p].prod
             b == cmd[p].board = "good"
  <2>3. manifest'[p] = [m EXCEPT !.devids = d, !.board = b]
    BY <1>5 DEF TweakManifest, ControlOK
  <2>4. m = [prod |-> cmd[p].prod, blk0 |-> IF cmd[p].b1 THEN 0 ELSE 2,
             devids |-> FALSE, board |-> FALSE]
    <3>1. CASE cmd[p].prod
      <4>1. ~cmd[p].b1  BY <2>2, <3>1
      <4> QED  BY <1>1, <2>2, <3>1, <4>1 DEF Fresh
    <3>2. CASE ~cmd[p].prod
      BY <1>1, <2>2, <3>2 DEF Fresh
    <3> QED  BY <3>1, <3>2
  <2>5. manifest'[p] = WantedManifest(cmd[p])
    <3> HIDE DEF m
    <3> QED  BY <2>3, <2>4 DEF WantedManifest
  <2> HIDE DEF m, d, b
  <2> QED  BY <2>1, <2>5
<1>6. CASE CheckElf(p) /\ ~Exit(p, "fail")
  <2>1. pc[p] = "elf" /\ UNCHANGED <<cmd, count, manifest, result>>
    BY <1>6 DEF CheckElf
  <2>2. \/ /\ pc'[p] = "touch" /\ count[p] < 2
           /\ ~(cmd[p].prod /\ cmd[p].elves[count[p]] \in Debug)
        \/ pc'[p] = "echo"
        \/ pc'[p] = "copy" /\ ~cmd[p].hex
    BY <1>6 DEF CheckElf, ControlOK
  <2> QED  BY <2>1, <2>2
<1>7. CASE (Touch(p) \/ Sign(p) \/ SignerWrites(p)) /\ ~Exit(p, "fail")
  <2>1. pc[p] \in {"touch", "sign", "write"} /\ UNCHANGED <<cmd, manifest, result>>
    BY <1>7 DEF Touch, Sign, SignerWrites
  <2>2. \/ pc'[p] \in {"sign", "write"} /\ UNCHANGED count
        \/ pc'[p] = "elf"
    <3>1. CASE Touch(p)  BY <1>7, <3>1 DEF Touch, ControlOK
    <3>2. CASE Sign(p)  BY <1>7, <3>2 DEF Sign, ControlOK, NextElf
    <3>3. CASE SignerWrites(p)  BY <1>7, <3>3 DEF SignerWrites, ControlOK, NextElf
    <3> QED  BY <1>7, <3>1, <3>2, <3>3
  <2> QED  BY <2>1, <2>2
<1>8. CASE (Copy(p) \/ Paste0(p) \/ Paste1(p) \/ RemoveFlats(p)) /\ ~Exit(p, "fail")
  <2>1. pc[p] \in Pasting /\ UNCHANGED <<cmd, result>>
    BY <1>8 DEF Copy, Paste0, Paste1, Dd, RemoveFlats
  <2>2. pc'[p] \in Pasting
    <3>1. CASE Copy(p)  BY <1>8, <3>1 DEF Copy, ControlOK
    <3>2. CASE Paste0(p) \/ Paste1(p)  BY <1>8, <3>2 DEF Paste0, Paste1, Dd, ControlOK
    <3>3. CASE RemoveFlats(p)  BY <1>8, <3>3 DEF RemoveFlats, ControlOK
    <3> QED  BY <1>8, <3>1, <3>2, <3>3
  <2> QED  BY <2>1, <2>2
<1>9. CASE Move(p) /\ ~Exit(p, "fail")
  <2>1. pc[p] = "mv" /\ pc'[p] = "echo" /\ UNCHANGED cmd
    BY <1>9 DEF Move, ControlOK
  <2> QED  BY <2>1
<1>10. CASE Echo(p)
  <2>1. pc[p] = "echo" /\ pc'[p] = "exit" /\ UNCHANGED cmd
    BY <1>10 DEF Echo, Exit, ControlOK
  <2> QED  BY <2>1
<1>11. CASE NotReady(p) \/ ExitTrap(p) \/ Interrupt(p) \/ Kill(p)
  BY <1>2, <1>11 DEF NotReady, ExitTrap, Interrupt, Kill, Die
<1>12. CASE ParseOptions(p)
  BY <1>2, <1>3, <1>12 DEF ParseOptions
<1>13. CASE CheckOptions(p)
  BY <1>2, <1>4, <1>13 DEF CheckOptions
<1>14. CASE TweakManifest(p)
  BY <1>2, <1>5, <1>14 DEF TweakManifest
<1> HIDE DEF Settled
<1> QED
  BY <1>2, <1>6, <1>7, <1>8, <1>9, <1>10, <1>11, <1>12, <1>13, <1>14
  DEF StepOf, Run

\* Another run stays settled.
LEMMA SparedSettled ==
  ASSUME ControlOK, NEW q \in Proc, Settled(q), Spared(q),
         \A f \in Path : result[f] # Absent => result'[f] # Absent
  PROVE  Settled(q)'
<1>1. cmd[q].path \in Path  BY CommandFields DEF ControlOK
<1> QED  BY <1>1 DEF Settled, Spared, Succeeded

----------------------------------------------------------------------------
(* What is done stays done.                                                *)

\* A trap takes the flat files away, whoever's they are.
TrapAtMost(q) ==
  \/ blob' = blob /\ linked'[q] = linked[q]
  \/ blob' = NoFlats /\ linked'[q] = (linked[q] /\ cmd[q].hex)

\* What a run has done is not undone by another one's trap.
LEMMA SparedDone ==
  ASSUME ControlOK, FilesGood, NEW q \in Proc, Settled(q), Done(q),
         Spared(q), TrapAtMost(q),
         tmp'[cmd[q].path] = tmp[cmd[q].path],
         result'[cmd[q].path] = result[cmd[q].path]
  PROVE  Done(q)'
<1>1. cmd[q].hex \in BOOLEAN /\ linked[q] \in BOOLEAN /\ count[q] \in 0..2
  BY CommandFields DEF ControlOK
<1>2. /\ pc'[q] = pc[q] /\ cmd'[q] = cmd[q] /\ count'[q] = count[q]
      /\ outcome'[q] = outcome[q]
  BY DEF Spared
<1>3. blob'["signed.hex"] = blob["signed.hex"]
  BY DEF TrapAtMost, NoFlats, FilesGood, Suffix
<1>4. \/ blob'["flat"] = blob["flat"] /\ linked'[q] = linked[q]
      \/ /\ \A i \in 0..1 : blob'["flat"][i] = Absent
         /\ linked'[q] = (linked[q] /\ cmd[q].hex)
  BY DEF TrapAtMost, NoFlats, FilesGood, Suffix
<1>5. \A i \in 0..1 : Made(q, i) => Made(q, i)'
  BY <1>1, <1>2, <1>3, <1>4 DEF Made, SuffixOf
<1>6. pc[q] = "write" => count[q] \in 0..1
  BY <1>1 DEF Settled
<1>7. (pc[q] = "write" => linked[q] \/ (~cmd[q].hex /\ blob["flat"][count[q]] = Absent))'
  BY <1>1, <1>2, <1>4, <1>6 DEF Done
<1>8. Succeeded(q)' => Succeeded(q)  BY <1>2 DEF Succeeded
<1>9. (Succeeded(q) =>
         IF cmd[q].hex
         THEN \A i \in 0..1 : blob["signed.hex"][i] = WantedImage(cmd[q], i)
         ELSE \E file \in Seq(GoodBlock) : result[cmd[q].path] = Updated(file, cmd[q]))'
  BY <1>2, <1>3, <1>8 DEF Done
<1> HIDE DEF Succeeded
<1> QED  BY <1>2, <1>5, <1>7, <1>9 DEF Done

\* A run that does not sign leaves all files alone, but for its trap.
LEMMA QuietStep ==
  ASSUME ControlOK, NEW p \in Proc, Settled(p), StepOf(p), cmd[p].kind # "sign",
         NEW q \in Proc \ {p}
  PROVE  TrapAtMost(q) /\ tmp' = tmp /\ result' = result
<1>1. pc[p] \in {"idle", "options", "exit"} /\ pc[p] # "echo"
  BY DEF Settled
<1>2. NotReady(p) \/ ParseOptions(p) \/ ExitTrap(p) \/ Interrupt(p) \/ Kill(p)
  BY <1>1 DEF StepOf, Run, CheckOptions, TweakManifest, CheckElf, Touch, Sign,
     SignerWrites, Copy, Paste0, Paste1, RemoveFlats, Move, Echo
<1>3. CASE ExitTrap(p)
  BY <1>3 DEF ExitTrap, StillLinked, TrapAtMost, ControlOK
<1>4. CASE NotReady(p) \/ ParseOptions(p) \/ Interrupt(p) \/ Kill(p)
  BY <1>4 DEF NotReady, ParseOptions, Interrupt, Kill, Die, TrapAtMost, ControlOK
<1> QED  BY <1>2, <1>3, <1>4

\* A write to the output of the present ELF file leaves those before it alone.
LEMMA WriteKeepsMade ==
  ASSUME ControlOK, FilesGood, NEW p \in Proc, count[p] < 2, NEW blocks,
         WriteOutput(p, blocks)
  PROVE  /\ blob'[SuffixOf(p)][count[p]] = blocks
         /\ \A i \in 0..1 : i # count[p] => blob'[SuffixOf(p)][i] = blob[SuffixOf(p)][i]
<1>1. SuffixOf(p) \in Suffix /\ count[p] \in 0..1
  BY DEF SuffixOf, Suffix, ControlOK
<1>2. blob' = [blob EXCEPT ![SuffixOf(p)] =
                 [blob[SuffixOf(p)] EXCEPT ![count[p]] = blocks]]
  BY DEF WriteOutput
<1>3. blob[SuffixOf(p)] \in [0..1 -> GoodFile]  BY <1>1 DEF FilesGood
<1> QED  BY <1>1, <1>2, <1>3 DEF FilesGood

\* The signer that does not lie has made the image when it exits with 0, unless
\* the file it wrote to has lost its name.
LEMMA WriteMakes ==
  ASSUME ControlOK, FilesGood, ~SignerLies, NEW p \in Proc, Settled(p), Done(p),
         SignerWrites(p)
  PROVE  Done(p)'
<1>1. /\ pc[p] = "write" /\ pc'[p] = "elf" /\ cmd' = cmd
      /\ count[p] \in 0..1 /\ count'[p] = count[p] + 1
      /\ manifest[p] = WantedManifest(cmd[p])
  BY DEF SignerWrites, NextElf, Goto, ControlOK, Settled, Loop
<1>2. /\ \A i \in 0..1 : i < count[p] => Made(p, i)
      /\ linked[p] \/ (~cmd[p].hex /\ blob["flat"][count[p]] = Absent)
  BY <1>1 DEF Done, Loop
<1>3. IF linked[p] THEN WriteOutput(p, NewImage(p)) ELSE UNCHANGED blob
  BY DEF SignerWrites
<1>4. NewImage(p) = WantedImage(cmd[p], count[p])  BY <1>1, NewImageIsWanted
<1>5. \A i \in 0..1 : i < count'[p] => Made(p, i)'
  <2>1. CASE ~linked[p]
    BY <1>1, <1>2, <1>3, <2>1 DEF Made, SuffixOf
  <2>2. CASE linked[p]
    <3>1. /\ blob'[SuffixOf(p)][count[p]] = WantedImage(cmd[p], count[p])
          /\ \A i \in 0..1 : i # count[p] => blob'[SuffixOf(p)][i] = blob[SuffixOf(p)][i]
      BY <1>1, <1>3, <1>4, <2>2, WriteKeepsMade
    <3> QED  BY <1>1, <1>2, <3>1 DEF Made, SuffixOf
  <2> QED  BY <2>1, <2>2
<1> QED  BY <1>1, <1>5 DEF Done, Succeeded, Loop, Pasting

\* dd of an image that is there: what it was made as is what is pasted.
LEMMA PasteMade ==
  ASSUME NEW p \in Proc, NEW i \in 0..1, Made(p, i), ~cmd[p].hex, NEW l,
         l # "exit", ControlOK, Dd(p, i, l), Goto(p, l),
         tmp[cmd[p].path] # Absent, FilesGood
  PROVE  tmp'[cmd[p].path] =
           Paste(tmp[cmd[p].path], RwAt[i], WantedImage(cmd[p], i))
<1> DEFINE f == cmd[p].path
           flat == blob["flat"][i]
           old == IF tmp[f] = Absent THEN << >> ELSE tmp[f]
<1>1. f \in Path  BY CommandFields DEF ControlOK
<1>2. ~Exit(p, "fail")  BY DEF Exit, Goto, ControlOK
<1>3. flat # Absent /\ tmp' = [tmp EXCEPT ![f] = Paste(old, RwAt[i], flat)]
  BY <1>2 DEF Dd
<1>4. flat = WantedImage(cmd[p], i)  BY <1>3 DEF Made, SuffixOf
<1>5. old = tmp[f]  OBVIOUS
<1> HIDE DEF f, old
<1> QED  BY <1>1, <1>3, <1>4, <1>5 DEF f, FilesGood

\* A full image with images in it is a file.
LEMMA UpdatedIsFile ==
  ASSUME NEW c \in Command, NEW file \in Seq(Block)
  PROVE  /\ Paste(file, RwAt[0], WantedImage(c, 0)) \in Seq(Block)
         /\ Paste(file, RwAt[0], WantedImage(c, 0)) # Absent
         /\ Updated(file, c) \in Seq(Block) /\ Updated(file, c) # Absent
<1>1. RwAt[0] \in Nat /\ RwAt[1] \in Nat /\ Hole \in Block
  BY LayoutAssumption, BsAssumption DEF Block
<1>2. WantedImage(c, 0) \in Seq(Block) /\ WantedImage(c, 1) \in Seq(Block)
  BY WantedIsFile
<1>3. Paste(file, RwAt[0], WantedImage(c, 0)) \in Seq(Block)
  BY <1>1, <1>2, PasteIsFile
<1>4. Updated(file, c) \in Seq(Block)
  BY <1>1, <1>2, <1>3, PasteIsFile DEF Updated
<1> QED  BY <1>3, <1>4, FirstAssumption

\* A step does what its run has to do next.
LEMMA StepDone ==
  ASSUME ControlOK, FilesGood, ~SignerLies, NEW p \in Proc,
         Settled(p), Done(p), StepOf(p)
  PROVE  Done(p)'
<1> DEFINE f == cmd[p].path
<1>1. f \in Path /\ cmd[p].hex \in BOOLEAN /\ cmd[p] \in Command
  BY CommandFields DEF ControlOK
<1>2. CASE Exit(p, "fail") \/ Exit(p, "help") \/ Forget(p)
  BY <1>2, ForgetSettled, FailSettled
<1> USE DEF Succeeded, Loop, Pasting, Goto, Label
<1>3. ASSUME pc'[p] \in {"check", "tweak"}  PROVE Done(p)'
  BY <1>3 DEF Done
<1>4. CASE TweakManifest(p) /\ Goto(p, "elf")
  <2>1. pc'[p] = "elf" /\ count'[p] = 0
    BY <1>4 DEF TweakManifest, ControlOK, Settled
  <2> QED  BY <2>1 DEF Done
<1>5. CASE CheckElf(p) /\ ~Exit(p, "fail")
  <2>1. pc[p] = "elf" /\ UNCHANGED <<cmd, count, blob>>
    BY <1>5 DEF CheckElf
  <2>2. \A i \in 0..1 : i < count[p] => Made(p, i)  BY <2>1 DEF Done
  <2>3. \/ pc'[p] = "touch"
        \/ count[p] = 2 /\ pc'[p] = "echo" /\ cmd[p].hex
        \/ count[p] = 2 /\ pc'[p] = "copy"
    BY <1>5 DEF CheckElf, ControlOK
  <2>4. \A i \in 0..1 : Made(p, i)' <=> Made(p, i)  BY <2>1 DEF Made, SuffixOf
  <2> QED  BY <2>1, <2>2, <2>3, <2>4 DEF Done, Made, SuffixOf
<1>6. CASE (Touch(p) \/ Sign(p)) /\ ~Exit(p, "fail")
  <2>1. pc[p] \in {"touch", "sign"} /\ cmd' = cmd /\ count[p] \in 0..1
    BY <1>6 DEF Touch, Sign, Settled, ControlOK
  <2>2. /\ count' = count
        /\ \/ pc'[p] = "sign"
           \/ pc'[p] = "write" /\ linked'[p]
        /\ WriteOutput(p, << >>) \/ UNCHANGED blob
    <3>1. CASE Touch(p)  BY <1>6, <3>1 DEF Touch, ControlOK
    <3>2. CASE Sign(p)  BY <1>6, <3>2 DEF Sign, ControlOK
    <3> QED  BY <1>6, <3>1, <3>2
  <2>3. \A i \in 0..1 : i # count[p] => blob'[SuffixOf(p)][i] = blob[SuffixOf(p)][i]
    BY <2>1, <2>2, WriteKeepsMade
  <2>4. \A i \in 0..1 : i < count[p] => Made(p, i)  BY <2>1 DEF Done
  <2>5. \A i \in 0..1 : i < count'[p] => Made(p, i)'
    BY <2>1, <2>2, <2>3, <2>4 DEF Made, SuffixOf
  <2> QED  BY <2>1, <2>2, <2>5 DEF Done
<1>7. CASE Copy(p) /\ ~Exit(p, "fail")
  <2>1. /\ pc[p] = "copy" /\ pc'[p] = "paste0" /\ UNCHANGED <<cmd, blob, result>>
        /\ tmp' = [tmp EXCEPT ![f] = result[f]]
    BY <1>7 DEF Copy, ControlOK
  <2>2. tmp'[f] = result'[f]  BY <1>1, <2>1 DEF FilesGood
  <2>3. \A i \in 0..1 : Made(p, i)'  BY <2>1 DEF Done, Made, SuffixOf
  <2> QED  BY <2>1, <2>2, <2>3 DEF Done
<1>8. CASE Paste0(p) /\ ~Exit(p, "fail")
  <2>1. /\ pc[p] = "paste0" /\ pc'[p] = "paste1" /\ UNCHANGED <<cmd, blob, result>>
        /\ Goto(p, "paste1") /\ Dd(p, 0, "paste1")
    BY <1>8 DEF Paste0, Dd, ControlOK
  <2>2. ~cmd[p].hex /\ result[f] # Absent /\ tmp[f] = result[f]
        /\ \A i \in 0..1 : Made(p, i)
    BY <2>1 DEF Done, Settled
  <2>3. tmp'[f] = Paste(result[f], RwAt[0], WantedImage(cmd[p], 0))
    <3>1. tmp'[f] = Paste(tmp[f], RwAt[0], WantedImage(cmd[p], 0))
      <4>1. 0 \in 0..1 /\ "paste1" # "exit" /\ Made(p, 0) /\ tmp[f] # Absent
        BY <2>2
      <4> QED  BY <2>1, <2>2, <4>1, PasteMade, Zenon
    <3> QED  BY <2>2, <3>1
  <2>4. \A i \in 0..1 : Made(p, i)'  BY <2>1, <2>2 DEF Made, SuffixOf
  <2> QED  BY <2>1, <2>3, <2>4 DEF Done
<1>9. CASE Paste1(p) /\ ~Exit(p, "fail")
  <2>1. /\ pc[p] = "paste1" /\ pc'[p] = "rm" /\ UNCHANGED <<cmd, blob, result>>
        /\ Goto(p, "rm") /\ Dd(p, 1, "rm")
    BY <1>9 DEF Paste1, Dd, ControlOK
  <2>2. /\ ~cmd[p].hex /\ result[f] # Absent
        /\ tmp[f] = Paste(result[f], RwAt[0], WantedImage(cmd[p], 0))
        /\ \A i \in 0..1 : Made(p, i)
    BY <2>1 DEF Done, Settled
  <2>3. tmp[f] # Absent
    <3>1. result[f] \in Seq(Block)  BY <1>1, <2>2, ThereIsGood, GoodIsThere
    <3> QED  BY <1>1, <2>2, <3>1, UpdatedIsFile
  <2>4. tmp'[f] = Updated(result[f], cmd[p])
    <3>1. tmp'[f] = Paste(tmp[f], RwAt[1], WantedImage(cmd[p], 1))
      <4>1. 1 \in 0..1 /\ "rm" # "exit" /\ Made(p, 1)
        BY <2>2
      <4> QED  BY <2>1, <2>2, <2>3, <4>1, PasteMade, Zenon
    <3> QED  BY <2>2, <3>1 DEF Updated
  <2> QED  BY <2>1, <2>4 DEF Done
<1>10. CASE RemoveFlats(p) /\ ~Exit(p, "fail")
  <2>1. pc[p] = "rm" /\ pc'[p] = "mv" /\ UNCHANGED <<cmd, tmp, result>>
    BY <1>10 DEF RemoveFlats, ControlOK
  <2> QED  BY <2>1 DEF Done
<1>11. CASE Move(p) /\ ~Exit(p, "fail")
  <2>1. /\ pc[p] = "mv" /\ pc'[p] = "echo" /\ UNCHANGED cmd
        /\ result' = [result EXCEPT ![f] = tmp[f]]
    BY <1>11 DEF Move, ControlOK
  <2>2. ~cmd[p].hex /\ result[f] # Absent /\ tmp[f] = Updated(result[f], cmd[p])
    BY <2>1 DEF Done, Settled
  <2>3. result[f] \in Seq(GoodBlock)  BY <1>1, <2>2, ThereIsGood
  <2>4. result'[f] = Updated(result[f], cmd[p])
    BY <1>1, <2>1, <2>2 DEF FilesGood
  <2> QED  BY <2>1, <2>2, <2>3, <2>4 DEF Done
<1>12. CASE Echo(p)
  <2>1. pc[p] = "echo" /\ pc'[p] = "exit" /\ UNCHANGED <<cmd, blob, result>>
    BY <1>12 DEF Echo, Exit, ControlOK
  <2> QED  BY <2>1 DEF Done
<1>13. CASE NotReady(p) \/ ExitTrap(p) \/ Interrupt(p) \/ Kill(p)
  BY <1>2, <1>13 DEF NotReady, ExitTrap, Interrupt, Kill, Die
<1>14. CASE ParseOptions(p) \/ CheckOptions(p)
  BY <1>2, <1>3, <1>14 DEF ParseOptions, CheckOptions, ControlOK
<1>15. CASE TweakManifest(p)
  BY <1>2, <1>4, <1>15 DEF TweakManifest
<1> QED
  BY <1>2, <1>5, <1>6, <1>7, <1>8, <1>9, <1>10, <1>11, <1>12, <1>13, <1>14, <1>15,
     WriteMakes
  DEF StepOf, Run

----------------------------------------------------------------------------
(* All runs together.                                                      *)

\* To begin with.
LEMMA InitBInv == Init => BInv
<1> SUFFICES ASSUME Init PROVE BInv  OBVIOUS
<1> USE DEF Init
<1>1. ControlOK
  BY AnyCommandIsOne, BsAssumption DEF ControlOK, Label, Fresh, Manifest
<1>2. FilesGood
  <2>1. Unsigned \subseteq GoodBlock  BY DEF GoodBlock
  <2>2. \A file \in Seq(Unsigned) : file \in Seq(GoodBlock)
    BY <2>1, SeqMonotonic
  <2>3. First \in [Path -> GoodFile]  BY <2>2, FirstAssumption DEF GoodFile
  <2>4. [i \in 0..1 |-> Absent] \in [0..1 -> GoodFile]  BY DEF GoodFile
  <2> QED  BY <2>3, <2>4 DEF FilesGood, GoodFile
<1>3. \A p \in Proc : pc[p] = "idle" /\ cmd[p] = AnyCommand /\ count[p] = 0
  OBVIOUS
<1>4. OneSigner  BY <1>3 DEF OneSigner, Signing
<1>5. \A p \in Proc : Settled(p) /\ Done(p)
  BY <1>3 DEF Settled, Done, Succeeded, Loop, Pasting
<1> QED  BY <1>1, <1>2, <1>4, <1>5 DEF BInv

\* A new run starts: if it is to sign, no other one does.
LEMMA StartBInv ==
  ASSUME BInv, NEW p \in Proc, NEW c \in Command, MayStart(c), Start(p, c)
  PROVE  BInv'
<1> USE DEF BInv
<1>1. ControlOK'
  <2>1. Fresh \in Manifest  BY DEF Fresh, Manifest
  <2>2. runs' \in 0..MaxRuns
    BY BsAssumption DEF ControlOK, Start, MayStart
  <2> QED  BY <2>1, <2>2 DEF ControlOK, Start, Goto, Label
<1>2. FilesGood'  BY DEF FilesGood, Start
<1>3. /\ pc'[p] = "options" /\ cmd'[p] = c /\ manifest'[p] = Fresh
      /\ count'[p] = 0 /\ pc[p] = "idle"
  BY DEF Start, Goto, ControlOK, Settled
<1>4. \A q \in Proc \ {p} : Spared(q) /\ TrapAtMost(q)
  BY DEF Spared, TrapAtMost, Start, Goto, ControlOK
<1>5. OneSigner'
  <2> SUFFICES ASSUME NEW q \in Proc, NEW r \in Proc, Signing(q)', Signing(r)'
               PROVE  q = r
    BY DEF OneSigner
  <2>1. CASE c.kind = "sign"
    <3>1. \A u \in Proc : ~Signing(u)  BY <2>1 DEF MayStart, Busy, Signing
    <3>2. \A u \in Proc \ {p} : ~Signing(u)'
      BY <1>4, <3>1 DEF Signing, Spared
    <3> QED  BY <3>2
  <2>2. CASE c.kind # "sign"
    <3>1. ~Signing(p)'  BY <1>3, <2>2 DEF Signing
    <3>2. Signing(q) /\ Signing(r)  BY <1>4, <3>1 DEF Signing, Spared
    <3> QED  BY <3>2 DEF OneSigner
  <2> QED  BY <2>1, <2>2
<1>6. UNCHANGED <<blob, tmp, result>>  BY DEF Start
<1>7. ASSUME NEW q \in Proc  PROVE Settled(q)'
  <2>1. CASE q = p
    BY <1>3, <2>1 DEF Settled, Succeeded, Loop, Pasting
  <2>2. CASE q # p
    <3>1. Spared(q)  BY <1>4, <2>2
    <3> QED  BY <1>6, <3>1, SparedSettled
  <2> QED  BY <2>1, <2>2
<1>8. ASSUME ~SignerLies, NEW q \in Proc  PROVE Done(q)'
  <2>1. CASE q = p
    BY <1>3, <2>1 DEF Done, Succeeded, Loop, Pasting
  <2>2. CASE q # p
    <3>1. Spared(q) /\ TrapAtMost(q)  BY <1>4, <2>2
    <3>2. Settled(q) /\ Done(q)  BY <1>8
    <3> QED  BY <1>6, <3>1, <3>2, SparedDone
  <2> QED  BY <2>1, <2>2
<1> QED  BY <1>1, <1>2, <1>5, <1>7, <1>8

\* A step of one run: what it does to the files of another one that signs can
\* only be its trap, since it does not sign itself.
LEMMA StepBInv ==
  ASSUME BInv, NEW p \in Proc, StepOf(p)
  PROVE  BInv'
<1>1. /\ ControlOK /\ FilesGood /\ OneSigner
      /\ \A q \in Proc : Settled(q)
      /\ ~SignerLies => \A q \in Proc : Done(q)
  BY DEF BInv
<1>2. ControlOK' /\ FilesGood'  BY <1>1, StepControl, StepFiles
<1>3. \A q \in Proc \ {p} : Spared(q)  BY <1>1, StepSparesOthers
<1>4. \A q \in Proc : Signing(q)' => Signing(q)
  <2>1. Signing(p)' => Signing(p)  BY <1>1, StepSigning DEF Signing
  <2> QED  BY <1>3, <2>1 DEF Signing, Spared
<1>5. OneSigner'  BY <1>1, <1>4 DEF OneSigner
<1>6. ASSUME NEW q \in Proc  PROVE Settled(q)'
  <2>1. CASE q = p  BY <1>1, <2>1, StepSettled
  <2>2. CASE q # p
    <3>1. \A f \in Path : result[f] # Absent => result'[f] # Absent
      BY <1>1, StepKeepsImages
    <3>2. Settled(q) /\ Spared(q)  BY <1>1, <1>3, <2>2
    <3> QED  BY <1>1, <3>1, <3>2, SparedSettled
  <2> QED  BY <2>1, <2>2
<1>7. ASSUME ~SignerLies, NEW q \in Proc  PROVE Done(q)'
  <2>1. CASE q = p  BY <1>1, <1>7, <2>1, StepDone
  <2>2. CASE q # p /\ cmd[p].kind # "sign"
    <3>1. Settled(p) /\ Settled(q) /\ Done(q) /\ Spared(q)
      BY <1>1, <1>3, <1>7, <2>2
    <3>2. TrapAtMost(q) /\ tmp' = tmp /\ result' = result
      BY <1>1, <2>2, <3>1, QuietStep
    <3> QED  BY <1>1, <3>1, <3>2, SparedDone
  <2>3. CASE q # p /\ cmd[p].kind = "sign"
    <3>1. CASE pc[p] = "idle"
      BY <3>1 DEF StepOf, Run, NotReady, ParseOptions, CheckOptions, TweakManifest,
         CheckElf, Touch, Sign, SignerWrites, Copy, Paste0, Paste1, RemoveFlats, Move,
         Echo, ExitTrap, Interrupt, Kill
    <3>2. CASE pc[p] # "idle"
      <4>1. ~Signing(q)  BY <1>1, <2>3, <3>2 DEF OneSigner, Signing
      <4>2. Settled(q)'  BY <1>6
      <4>3. ~Signing(q)'  BY <1>4, <4>1
      <4> QED  BY <4>2, <4>3 DEF Settled, Signing, Done, Succeeded, Loop, Pasting
    <3> QED  BY <3>1, <3>2
  <2> QED  BY <2>1, <2>2, <2>3
<1> QED  BY <1>2, <1>5, <1>6, <1>7 DEF BInv

\* Nobody's full image changes but one that no run is working on.
LEMMA FilesBInv ==
  ASSUME BInv, UNCHANGED <<pc, runVars, blob>>,
         tmp' \in [Path -> GoodFile], result' \in [Path -> GoodFile],
         \A q \in Proc : pc[q] # "idle" =>
           /\ tmp'[cmd[q].path] = tmp[cmd[q].path]
           /\ result'[cmd[q].path] = result[cmd[q].path]
  PROVE  BInv'
<1>1. /\ ControlOK /\ FilesGood /\ OneSigner
      /\ \A q \in Proc : Settled(q)
      /\ ~SignerLies => \A q \in Proc : Done(q)
  BY DEF BInv
<1>2. ControlOK'  BY <1>1 DEF ControlOK, runVars
<1>3. FilesGood'  BY <1>1 DEF FilesGood
<1>4. OneSigner'  BY <1>1 DEF OneSigner, Signing, runVars
<1>5. \A q \in Proc : Spared(q) /\ TrapAtMost(q)
  BY DEF Spared, TrapAtMost, runVars
<1>6. ASSUME NEW q \in Proc  PROVE Settled(q)'
  BY <1>1, <1>5 DEF Settled, Succeeded, Spared, Loop, Pasting
<1>7. ASSUME ~SignerLies, NEW q \in Proc  PROVE Done(q)'
  <2>1. Settled(q) /\ Done(q) /\ Spared(q) /\ TrapAtMost(q)  BY <1>1, <1>5, <1>7
  <2>2. CASE pc[q] = "idle"
    BY <2>1, <2>2 DEF Done, Succeeded, Loop, Pasting, Spared
  <2>3. CASE pc[q] # "idle"  BY <1>1, <2>1, <2>3, SparedDone
  <2> QED  BY <2>2, <2>3
<1> QED  BY <1>2, <1>3, <1>4, <1>6, <1>7 DEF BInv

\* A run is killed, and a full image that nobody else works on is removed.
LEMMA DieBInv ==
  ASSUME BInv, NEW p \in Proc, Die(p), UNCHANGED blob,
         tmp' \in [Path -> GoodFile], result' \in [Path -> GoodFile],
         \A q \in Proc \ {p} : pc[q] # "idle" =>
           /\ tmp'[cmd[q].path] = tmp[cmd[q].path]
           /\ result'[cmd[q].path] = result[cmd[q].path]
  PROVE  BInv'
<1>1. /\ ControlOK /\ FilesGood /\ OneSigner
      /\ \A q \in Proc : Settled(q)
      /\ ~SignerLies => \A q \in Proc : Done(q)
  BY DEF BInv
<1>2. ControlOK'
  BY <1>1, ForgetControl DEF ControlOK, Die, Report
<1>3. FilesGood'  BY <1>1 DEF FilesGood
<1>4. Settled(p)' /\ Done(p)' /\ pc'[p] = "idle"
  BY <1>1, ForgetSettled DEF Die
<1>5. \A q \in Proc \ {p} : Spared(q) /\ TrapAtMost(q)
  BY <1>1 DEF Spared, TrapAtMost, Die, Forget, Goto, Report, ControlOK
<1>6. OneSigner'
  <2>1. \A q \in Proc : Signing(q)' => Signing(q)
    BY <1>4, <1>5 DEF Signing, Spared
  <2> QED  BY <1>1, <2>1 DEF OneSigner
<1>7. ASSUME NEW q \in Proc  PROVE Settled(q)'
  <2>1. CASE q # p
    <3>1. Settled(q) /\ Spared(q)  BY <1>1, <1>5, <2>1
    <3>2. pc[q] # "idle" => result'[cmd[q].path] = result[cmd[q].path]
      BY <2>1
    <3> QED  BY <3>1, <3>2 DEF Settled, Succeeded, Spared, Loop, Pasting
  <2> QED  BY <1>4, <2>1
<1>8. ASSUME ~SignerLies, NEW q \in Proc  PROVE Done(q)'
  <2>1. CASE q # p
    <3>1. Settled(q) /\ Done(q) /\ Spared(q) /\ TrapAtMost(q)
      BY <1>1, <1>5, <1>8, <2>1
    <3>2. CASE pc[q] = "idle"
      BY <3>1, <3>2 DEF Done, Succeeded, Loop, Pasting, Spared
    <3>3. CASE pc[q] # "idle"  BY <1>1, <2>1, <3>1, <3>3, SparedDone
    <3> QED  BY <3>2, <3>3
  <2> QED  BY <1>4, <2>1
<1> QED  BY <1>2, <1>3, <1>6, <1>7, <1>8 DEF BInv

\* The invariant is inductive.
LEMMA NextBInv == BInv /\ [Next]_bsVars => BInv'
<1> SUFFICES ASSUME BInv, [Next]_bsVars PROVE BInv'  OBVIOUS
<1>1. CASE Next
  <2>1. PICK p \in Proc : \/ \E c \in Command : MayStart(c) /\ Start(p, c)
                         \/ StepOf(p)
    BY <1>1 DEF Next, StepOf
  <2> QED  BY <2>1, StartBInv, StepBInv
<1>2. CASE UNCHANGED bsVars
  <2>1. FilesGood  BY DEF BInv
  <2>2. UNCHANGED <<pc, runVars, blob>> /\ tmp' = tmp /\ result' = result
    BY <1>2 DEF bsVars
  <2>3. tmp' \in [Path -> GoodFile] /\ result' \in [Path -> GoodFile]
    BY <2>1, <2>2 DEF FilesGood
  <2> QED  BY <2>2, <2>3, FilesBInv
<1> QED  BY <1>1, <1>2

----------------------------------------------------------------------------
(* What a step of a run is to somebody who sees the full images and the      *)
(* outcome only.                                                           *)

Working(p) == pc[p] \notin {"idle", "exit", "echo"}
Unseen == result' = result /\ cmd' = cmd
Shape(p) ==
  \/ Working(p) /\ Working(p)' /\ Unseen
  \/ /\ pc[p] = "mv" /\ pc'[p] = "echo" /\ cmd' = cmd
     /\ result' = [result EXCEPT ![cmd[p].path] = tmp[cmd[p].path]]
  \/ Working(p) /\ pc'[p] = "echo" /\ cmd[p].hex /\ Unseen
  \/ pc[p] = "echo" /\ pc'[p] = "exit" /\ outcome'[p] = "success" /\ Unseen
  \/ /\ pc[p] \notin {"idle", "exit"} /\ pc'[p] = "exit" /\ outcome'[p] # "success"
     /\ Unseen
  \/ /\ pc[p] # "idle" /\ pc'[p] = "idle" /\ result' = result
     /\ cmd' = [cmd EXCEPT ![p] = AnyCommand]
     /\ outcome'[p] = "success" => pc[p] = "exit" /\ outcome[p] = "success"

\* It works on, or replaces the image, or has made its hex files, or prints
\* SUCCESS, or gives up, or is gone.
LEMMA StepShape ==
  ASSUME ControlOK, NEW p \in Proc, StepOf(p)
  PROVE  Shape(p)
<1>1. CASE Exit(p, "fail") \/ Exit(p, "help")
  <2>1. pc'[p] = "exit" /\ outcome'[p] # "success"
    BY <1>1 DEF Exit, Goto, ControlOK
  <2>2. pc[p] \notin {"idle", "exit"}
    <3>1. CASE Forget(p)  BY <2>1, <3>1 DEF Forget, Goto, ControlOK
    <3>2. CASE ~Forget(p)
      BY <3>2 DEF StepOf, Run, NotReady, ParseOptions, CheckOptions, TweakManifest,
         CheckElf, Touch, Sign, SignerWrites, Copy, Paste0, Paste1, RemoveFlats,
         Move, Echo, ExitTrap, Interrupt, Kill, Die
    <3> QED  BY <3>1, <3>2
  <2>3. Unseen
    <3>1. CASE NotReady(p) \/ ParseOptions(p) \/ CheckOptions(p) \/ TweakManifest(p)
               \/ CheckElf(p) \/ Touch(p) \/ Sign(p)
      BY <2>1, <3>1 DEF Unseen, NotReady, Die, Forget, Goto, ControlOK, ParseOptions,
         CheckOptions, TweakManifest, CheckElf, Touch, Sign
    <3>2. CASE Copy(p) \/ Paste0(p) \/ Paste1(p) \/ RemoveFlats(p) \/ Echo(p)
               \/ Interrupt(p)
      BY <3>2 DEF Unseen, Copy, Paste0, Paste1, Dd, RemoveFlats, Echo, Interrupt
    <3>3. CASE Move(p)  BY <2>1, <3>3 DEF Unseen, Move, Goto, ControlOK
    <3>4. CASE SignerWrites(p) \/ ExitTrap(p) \/ Kill(p)
      BY <2>1, <3>4 DEF SignerWrites, NextElf, ExitTrap, Kill, Die, Forget, Goto,
         ControlOK
    <3> QED  BY <3>1, <3>2, <3>3, <3>4 DEF StepOf, Run
  <2> QED  BY <2>1, <2>2, <2>3 DEF Shape
<1>2. CASE Forget(p)
  <2>1. /\ pc'[p] = "idle" /\ cmd' = [cmd EXCEPT ![p] = AnyCommand]
    BY <1>2 DEF Forget, Goto, ControlOK
  <2>2. CASE ExitTrap(p)
    BY <2>1, <2>2 DEF Shape, ExitTrap, Report, ControlOK
  <2>3. CASE Die(p) /\ pc[p] # "idle" /\ result' = result
    BY <2>1, <2>3 DEF Shape, Die, Report, ControlOK
  <2>4. ExitTrap(p) \/ (Die(p) /\ pc[p] # "idle" /\ result' = result)
    <3>1. CASE NotReady(p) \/ Kill(p)
      BY <2>1, <3>1 DEF NotReady, Kill, Exit, Goto, ControlOK
    <3>2. CASE ParseOptions(p) \/ CheckOptions(p) \/ TweakManifest(p) \/ CheckElf(p)
               \/ Touch(p) \/ Sign(p) \/ SignerWrites(p)
      BY <2>1, <3>2 DEF ParseOptions, CheckOptions, TweakManifest, CheckElf, Touch,
         Sign, SignerWrites, NextElf, Exit, Goto, ControlOK
    <3>3. CASE Copy(p) \/ Paste0(p) \/ Paste1(p) \/ RemoveFlats(p) \/ Move(p)
               \/ Echo(p) \/ Interrupt(p)
      BY <2>1, <3>3 DEF Copy, Paste0, Paste1, Dd, RemoveFlats, Move, Echo, Interrupt,
         Exit, Goto, ControlOK
    <3> QED  BY <3>1, <3>2, <3>3 DEF StepOf, Run
  <2> QED  BY <2>2, <2>3, <2>4
<1>3. CASE ~Exit(p, "fail") /\ ~Exit(p, "help") /\ ~Forget(p)
  <2>1. CASE ParseOptions(p) \/ CheckOptions(p) \/ TweakManifest(p)
    BY <1>3, <2>1 DEF Shape, Working, Unseen, ParseOptions, CheckOptions,
       TweakManifest, Goto, ControlOK
  <2>2. CASE CheckElf(p)
    BY <1>3, <2>2 DEF Shape, Working, Unseen, CheckElf, Goto, ControlOK
  <2>3. CASE Touch(p) \/ Sign(p) \/ SignerWrites(p)
    <3>1. Working(p) /\ Unseen
      BY <2>3 DEF Working, Unseen, Touch, Sign, SignerWrites
    <3>2. Working(p)'
      <4>1. CASE Touch(p)  BY <1>3, <4>1 DEF Working, Touch, Goto, ControlOK
      <4>2. CASE Sign(p)  BY <1>3, <4>2 DEF Working, Sign, NextElf, Goto, ControlOK
      <4>3. CASE SignerWrites(p)
        BY <4>3 DEF Working, SignerWrites, NextElf, Goto, ControlOK
      <4> QED  BY <2>3, <4>1, <4>2, <4>3
    <3> QED  BY <3>1, <3>2 DEF Shape
  <2>4. CASE Copy(p) \/ Paste0(p) \/ Paste1(p) \/ RemoveFlats(p)
    BY <1>3, <2>4 DEF Shape, Working, Unseen, Copy, Paste0, Paste1, Dd, RemoveFlats,
       Goto, ControlOK
  <2>5. CASE Move(p)
    BY <1>3, <2>5 DEF Shape, Move, Goto, ControlOK
  <2>6. CASE Echo(p)
    BY <2>6 DEF Shape, Unseen, Echo, Exit, Goto, ControlOK
  <2>7. ~NotReady(p) /\ ~ExitTrap(p) /\ ~Interrupt(p) /\ ~Kill(p)
    BY <1>3 DEF NotReady, ExitTrap, Interrupt, Kill, Die
  <2> QED  BY <2>1, <2>2, <2>3, <2>4, <2>5, <2>6, <2>7 DEF StepOf, Run
<1> QED  BY <1>1, <1>2, <1>3

----------------------------------------------------------------------------
(* What the invariant says.                                                *)

\* It holds the types.
LEMMA BInvTypes == BInv => TypeOK
<1> SUFFICES ASSUME BInv PROVE TypeOK  OBVIOUS
<1>1. GoodBlock \subseteq Block  BY DEF GoodBlock, Block
<1>2. \A file \in Seq(GoodBlock) : file \in Seq(Block)  BY <1>1, SeqMonotonic
<1>3. GoodFile \subseteq File  BY <1>2 DEF GoodFile, File
<1>4. /\ blob \in [Suffix -> [0..1 -> File]]
      /\ tmp \in [Path -> File]
      /\ result \in [Path -> File]
  <2>1. [0..1 -> GoodFile] \subseteq [0..1 -> File]  BY <1>3
  <2> HIDE DEF File, GoodFile
  <2> QED  BY <1>3, <2>1 DEF BInv, FilesGood
<1> QED  BY <1>4 DEF BInv, ControlOK, TypeOK

\* It holds that no wrong image is anywhere.
LEMMA BInvProd == BInv => ProdImagesAreProd
<1> SUFFICES ASSUME BInv, NEW file \in Contents \ {Absent}, NEW n \in DOMAIN file,
                    IsRw(file[n])
             PROVE  MaySign(file[n][1])
  BY DEF ProdImagesAreProd, MaySign
<1>1. file \in GoodFile  BY DEF Contents, BInv, FilesGood
<1>2. file \in Seq(GoodBlock)  BY <1>1 DEF GoodFile
<1>3. file[n] \in GoodBlock
  <2>1. DOMAIN file = 1..Len(file)  BY <1>2, LenProperties
  <2> QED  BY <1>2, <2>1, ElementOfSeq
<1>4. file[n] \notin Unsigned  BY FirstAssumption
<1> QED  BY <1>3, <1>4 DEF GoodBlock

\* The first image ends before the second one begins.  Neither script looks at
\* the sizes.
Fits == \A e \in Elf : RwAt[0] + Blocks[e] <= RwAt[1]

\* An image pasted into its place.
LEMMA PasteWanted ==
  ASSUME NEW c \in Command, NEW file \in Seq(Block), NEW i \in 0..1
  PROVE  LET part == WantedImage(c, i)
             new == Paste(file, RwAt[i], part)
             n == Blocks[c.elves[i]]
         IN /\ new \in Seq(Block)
            /\ Len(new) = Longest(Len(file), RwAt[i] + n)
            /\ \A k \in 1..n : new[RwAt[i] + k] = part[k]
            /\ \A k \in 1..Len(file) :
                 ~(RwAt[i] < k /\ k <= RwAt[i] + n) => new[k] = file[k]
<1> DEFINE part == WantedImage(c, i)
           at == RwAt[i]
           new == Paste(file, at, part)
<1>1. part \in Seq(Block) /\ Len(part) = Blocks[c.elves[i]] /\ c.elves[i] \in Elf
  BY WantedIsFile, CommandFields
<1>2. part \in Seq(Block) /\ at \in Nat /\ Hole \in Block
  BY <1>1, LayoutAssumption, BsAssumption DEF Block
<1>3. Len(part) > 0  BY <1>1, LayoutAssumption
<1> HIDE DEF part, at
<1>4. new \in Seq(Block)  BY <1>2, PasteIsFile
<1>5. Len(new) = Longest(Len(file), at + Len(part))
  BY <1>2, <1>3, PasteKeepsRest
<1>6. \A k \in 1..Len(part) : new[at + k] = part[k]
  BY <1>2, <1>3, PasteKeepsRest
<1>7. \A k \in 1..Len(file) : ~(at < k /\ k <= at + Len(part)) => new[k] = file[k]
  BY <1>2, <1>3, PasteKeepsRest
<1> HIDE DEF new
<1> QED  BY <1>1, <1>4, <1>5, <1>6, <1>7 DEF new, part, at

\* Two images that fit are both in the file they were pasted into.
LEMMA UpdatedHolds ==
  ASSUME Fits, NEW c \in Command, NEW file \in Seq(Block), NEW i \in 0..1
  PROVE  Holds(Updated(file, c), RwAt[i], WantedImage(c, i))
<1> DEFINE w(j) == WantedImage(c, j)
           b(j) == Blocks[c.elves[j]]
           first == Paste(file, RwAt[0], w(0))
           second == Paste(first, RwAt[1], w(1))
<1>1. \A j \in 0..1 : c.elves[j] \in Elf  BY CommandFields
<1>2. /\ RwAt[0] \in Nat /\ RwAt[1] \in Nat
      /\ b(0) \in Nat \ {0} /\ b(1) \in Nat \ {0}
      /\ RwAt[0] + b(0) <= RwAt[1]
  BY <1>1, LayoutAssumption DEF Fits
<1>3. /\ first \in Seq(Block) /\ second \in Seq(Block) /\ second # Absent
      /\ Updated(file, c) = second
  BY UpdatedIsFile DEF Updated
<1>4. \A j \in 0..1 : DOMAIN w(j) = 1..b(j) /\ Len(w(j)) = b(j)
  <2> TAKE j \in 0..1
  <2>1. w(j) \in Seq(Block) /\ Len(w(j)) = b(j)  BY WantedIsFile
  <2> HIDE DEF w, b
  <2> QED  BY <2>1, LenProperties
<1>5. Len(file) \in Nat /\ Len(first) \in Nat /\ Len(second) \in Nat
  BY <1>3, LenProperties
<1>6. /\ Len(first) = Longest(Len(file), RwAt[0] + b(0))
      /\ \A k \in 1..b(0) : first[RwAt[0] + k] = w(0)[k]
  BY PasteWanted
<1> HIDE DEF first
<1>7. /\ Len(second) = Longest(Len(first), RwAt[1] + b(1))
      /\ \A k \in 1..b(1) : second[RwAt[1] + k] = w(1)[k]
      /\ \A k \in 1..Len(first) :
           ~(RwAt[1] < k /\ k <= RwAt[1] + b(1)) => second[k] = first[k]
  <2>1. first \in Seq(Block) /\ 1 \in 0..1  BY <1>3
  <2> QED  BY <2>1, PasteWanted, Zenon
<1> HIDE DEF second, w, b
<1>8. /\ Len(first) >= RwAt[0] + b(0) /\ Len(second) >= Len(first)
      /\ Len(second) >= RwAt[1] + b(1)
  BY <1>2, <1>5, <1>6, <1>7 DEF Longest
<1>9. Holds(second, RwAt[0], w(0))
  <2>1. ASSUME NEW k \in 1..b(0)  PROVE second[RwAt[0] + k] = w(0)[k]
    <3>1. RwAt[0] + k \in 1..Len(first) /\ ~(RwAt[1] < RwAt[0] + k)
      BY <1>2, <1>5, <1>8
    <3>2. second[RwAt[0] + k] = first[RwAt[0] + k]  BY <1>7, <3>1
    <3> QED  BY <1>6, <3>2
  <2>2. RwAt[0] + b(0) <= Len(second)  BY <1>2, <1>5, <1>8
  <2>3. DOMAIN w(0) = 1..b(0) /\ Len(w(0)) = b(0)  BY <1>4
  <2> QED  BY <1>3, <2>1, <2>2, <2>3 DEF Holds
<1>10. Holds(second, RwAt[1], w(1))
  BY <1>3, <1>4, <1>7, <1>8 DEF Holds
<1>11. i = 0 \/ i = 1  OBVIOUS
<1> QED  BY <1>3, <1>9, <1>10, <1>11 DEF w

\* It holds what SUCCESS means, if the images fit and the signer does not lie.
LEMMA BInvSuccess == ~SignerLies /\ Fits /\ BInv => SuccessMeansPasted
<1> SUFFICES ASSUME ~SignerLies, Fits, BInv, NEW p \in Proc,
                    pc[p] = "exit" /\ outcome[p] = "success", NEW i \in 0..1
             PROVE  IF cmd[p].hex
                    THEN blob["signed.hex"][i] = WantedImage(cmd[p], i)
                    ELSE Holds(result[cmd[p].path], RwAt[i], WantedImage(cmd[p], i))
  BY Zenon DEF SuccessMeansPasted
<1>1. Done(p) /\ cmd[p] \in Command /\ Succeeded(p)
  BY DEF BInv, ControlOK, Succeeded
<1>2. CASE cmd[p].hex  BY <1>1, <1>2 DEF Done
<1>3. CASE ~cmd[p].hex
  <2>1. PICK file \in Seq(GoodBlock) : result[cmd[p].path] = Updated(file, cmd[p])
    BY <1>1, <1>3 DEF Done
  <2>2. file \in Seq(Block)  BY GoodIsThere
  <2>3. Holds(Updated(file, cmd[p]), RwAt[i], WantedImage(cmd[p], i))
    BY <1>1, <2>2, UpdatedHolds
  <2> QED  BY <1>3, <2>1, <2>3
<1> QED  BY <1>2, <1>3

----------------------------------------------------------------------------
\* The invariant holds of every run of the script.
THEOREM BsInductive == Spec => []BInv
  BY InitBInv, NextBInv, PTL DEF Spec

\* The files hold nothing but blocks that were there and blocks of images, and
\* the variables of the script what they are meant to.
THEOREM BsTypeCorrect == Spec => []TypeOK
  BY BsInductive, BInvTypes, PTL

\* Whatever fails, is killed or runs at the same time, and even if the signer
\* lies about its output: no debug image and no image for single chips is ever
\* signed with the prod key (bs:40, bs:77).
THEOREM ProdImages == Spec => []ProdImagesAreProd
  BY BsInductive, BInvProd, PTL

\* A run that prints SUCCESS has pasted both images (bs:23), as long as the
\* signer's exit status can be believed and the images fit; the run
\* BinarySignerSuccess shows that the first condition is needed.
THEOREM SuccessIsPasted ==
  ASSUME ~SignerLies, Fits  PROVE Spec => []SuccessMeansPasted
<1>1. BInv => SuccessMeansPasted  BY BInvSuccess
<1> QED  BY <1>1, BsInductive, PTL

=============================================================================
