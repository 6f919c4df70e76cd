------------------------- MODULE ReleaseImageProofs -------------------------
(***************************************************************************)
(* Proofs about create_released_image.sh and the runs of bs beside it: what *)
(* is in a tarball, and that bs replaces full images as FlashImage says,   *)
(* for any number of processes, commands and versions.                     *)
(***************************************************************************)
EXTENDS ReleaseImage, BinarySignerProofs

----------------------------------------------------------------------------
(* The inductive invariant.                                                *)

\* release.bin as the script makes it, from IMAGE_SIZE bytes of 0xff to the image
\* asked for.
BlankImage == [n \in 1..Size |-> Erased]
WithRws(a) == Updated(BlankImage, BsCommand(a))
WithRo0(a) == Paste(WithRws(a), 0, <<a.a>>)

\* The versions in that image.
VersionAsked(a) ==
  <<VersionOf[a.a], VersionOf[a.elves[0]], BoardRead /\ a.board = "good">>

AfterRo0 == RLabel \ {"idle", "blank", "ro0"}
AfterRo1 == AfterRo0 \ {"ro1"}
AfterDestDir == {"cp", "tar", "rm", "success"}

\* The variables of the script; a dest_dir holds nothing or a file.
ScriptOK ==
  /\ rpc \in RLabel
  /\ args \in Argument
  /\ tmpd \in BOOLEAN
  /\ bin \in [0..1 -> ProdRo \cup {Absent}]
  /\ destDir \in Version \cup {Absent}
  /\ dest \in [Version -> {Absent} \cup [bin : GoodFile]]
  /\ tarball \in [Version -> {Absent, Torn} \cup [bin : GoodFile]]
  /\ rpc \in AfterDestDir => destDir \in Version
  /\ rpc = "cp" => dest[destDir] \in [bin : GoodFile]

\* Only the bs that the script waits for works on release.bin.
OneChild ==
  /\ pc[Child] # "idle" => rpc = "wait" /\ cmd[Child] = BsCommand(args)
  /\ \A p \in Proc \ {Child} : pc[p] # "idle" => cmd[p].path # Release

\* A run that goes on has looked at the key bytes of its ROs.
Verified ==
  /\ rpc \in AfterRo0 => args.a \in ProdRo
  /\ rpc \in AfterRo1 => args.b \in ProdRo

\* A bs that has replaced the full image, or had.
SaidSuccess(p) == Succeeded(p) \/ (pc[p] = "idle" /\ outcome[p] = "success")

\* TMPD is removed with all that is in it, and only then is release.bin gone.
InTmpd ==
  /\ ~tmpd => result[Release] = Absent /\ \A i \in 0..1 : bin[i] = Absent
  /\ tmpd /\ rpc \notin {"idle", "blank"} => result[Release] # Absent

\* What is in TMPD, as long as it is there.
Stage ==
  /\ tmpd =>
     /\ rpc \in {"ro0", "ro1", "bs"} => result[Release] = BlankImage
     /\ rpc = "wait" /\ Working(Child) => result[Release] = BlankImage
     /\ rpc = "wait" /\ SaidSuccess(Child) => result[Release] = WithRws(args)
     /\ rpc = "dd0" => result[Release] = WithRws(args)
     /\ rpc = "dd1" => result[Release] = WithRo0(args)
     /\ rpc \in {"version", "cp"} => result[Release] = Requested(args)
  /\ tmpd /\ rpc \in AfterRo0 => bin[0] = args.a
  /\ tmpd /\ rpc \in AfterRo1 => bin[1] = args.b

\* What is in dest_dir and in the tarballs.
Saved ==
  /\ rpc \in AfterDestDir => destDir = VersionAsked(args)
  /\ rpc = "tar" => dest[destDir] = [bin |-> Requested(args)]
  /\ rpc \in {"rm", "success"} => tarball[destDir] = [bin |-> Requested(args)]
  /\ \A v \in Version : tarball[v] \notin {Absent, Torn} =>
       \E a \in Argument : /\ {a.a, a.b} \subseteq ProdRo
                           /\ v = VersionAsked(a)
                           /\ tarball[v] = [bin |-> Requested(a)]

RInv ==
  /\ BInv /\ ScriptOK /\ OneChild /\ Verified /\ InTmpd
  /\ ~SignerLies => Stage /\ Saved

----------------------------------------------------------------------------
(* The images.                                                             *)

\* The images fit, as bs needs it too.
LEMMA ReleaseFits == Fits
<1> SUFFICES ASSUME NEW e \in Elf PROVE RwAt[0] + Blocks[e] <= RwAt[1]
  BY DEF Fits
<1>1. RwAt[0] \in Nat /\ RwAt[1] \in Nat /\ Blocks[e] \in Nat
  BY LayoutAssumption
<1> QED  BY <1>1, FitAssumption, ReleaseAssumption

\* The command line of bs is one.
LEMMA BsCommandIsOne ==
  ASSUME NEW a \in Argument
  PROVE  /\ BsCommand(a) \in Command
         /\ BsCommand(a).path = Release /\ ~BsCommand(a).hex
         /\ BsCommand(a).kind = "sign"
         /\ BsCommand(a).prod = TRUE
         /\ BsCommand(a).elves = a.elves /\ BsCommand(a).board = a.board
         /\ BsCommand(a).elves \in [0..1 -> Elf]
<1>1. BsCommand(a) \in Command  BY ReleaseAssumption
<1>2. /\ BsCommand(a).path = Release /\ ~BsCommand(a).hex
      /\ BsCommand(a).kind = "sign"
      /\ BsCommand(a).prod = TRUE
      /\ BsCommand(a).elves = a.elves /\ BsCommand(a).board = a.board
  BY DEF BsCommand
<1>3. BsCommand(a).elves \in [0..1 -> Elf]  BY <1>1, CommandFields
<1> QED  BY <1>1, <1>2, <1>3

\* Where the places are.
LEMMA Places ==
  ASSUME NEW a \in Argument
  PROVE  LET b(i) == Blocks[a.elves[i]] IN
         /\ {RwAt[0], RwAt[1], RoBAt, Size} \subseteq Nat
         /\ \A i \in 0..1 : b(i) \in Nat \ {0}
         /\ 1 <= RwAt[0] /\ RwAt[0] + b(0) <= RoBAt
         /\ RoBAt + 1 <= RwAt[1] /\ RwAt[1] + b(1) <= Size
<1>1. \A i \in 0..1 : a.elves[i] \in Elf  BY BsCommandIsOne
<1>2. \A i \in 0..1 : Blocks[a.elves[i]] \in Nat \ {0}
  BY <1>1, LayoutAssumption
<1>3. /\ 1 <= RwAt[0] /\ RwAt[0] + Blocks[a.elves[0]] <= RoBAt
      /\ RoBAt + 1 <= RwAt[1] /\ RwAt[1] + Blocks[a.elves[1]] <= Size
  BY <1>1, FitAssumption
<1>4. {RwAt[0], RwAt[1], RoBAt, Size} \subseteq Nat
  BY LayoutAssumption, ReleaseAssumption
<1> QED  BY <1>2, <1>3, <1>4

\* IMAGE_SIZE bytes of 0xff.
LEMMA BlankIsGood ==
  /\ BlankImage \in Seq(GoodBlock)
  /\ Len(BlankImage) = Size
<1>1. Size \in Nat /\ Erased \in GoodBlock  BY ReleaseAssumption DEF GoodBlock
<1>2. BlankImage \in [1..Size -> GoodBlock]  BY <1>1 DEF BlankImage
<1> QED  BY <1>1, <1>2, FunctionIsFile

\* An RO is a file of one good block.
LEMMA RoIsFile ==
  ASSUME NEW ro \in Ro
  PROVE  /\ <<ro>> \in Seq(GoodBlock) /\ <<ro>> \in Seq(Block)
         /\ Len(<<ro>>) = 1 /\ <<ro>>[1] = ro
<1>1. ro \in GoodBlock /\ ro \in Block
  BY ReleaseAssumption DEF GoodBlock, Block
<1> QED  BY <1>1

\* release.bin after bs: its size is the one it had, and both RWs are in it.
LEMMA RwsAreIn ==
  ASSUME NEW a \in Argument
  PROVE  /\ WithRws(a) \in Seq(Block) /\ Len(WithRws(a)) = Size
         /\ \A i \in 0..1 : Holds(WithRws(a), RwAt[i], WantedImage(BsCommand(a), i))
<1> DEFINE c == BsCommand(a)
           first == Paste(BlankImage, RwAt[0], WantedImage(c, 0))
<1>1. c \in Command /\ c.elves = a.elves  BY BsCommandIsOne
<1>2. BlankImage \in Seq(Block) /\ Len(BlankImage) = Size
  BY BlankIsGood, GoodIsThere
<1>3. first \in Seq(Block) /\ WithRws(a) \in Seq(Block)
  BY <1>1, <1>2, UpdatedIsFile DEF WithRws
<1>4. \A i \in 0..1 : Holds(WithRws(a), RwAt[i], WantedImage(c, i))
  BY <1>1, <1>2, ReleaseFits, UpdatedHolds DEF WithRws
<1>5. WithRws(a) = Paste(first, RwAt[1], WantedImage(c, 1))  BY DEF WithRws, Updated
<1> HIDE DEF c
<1>6. Len(first) = Longest(Len(BlankImage), RwAt[0] + Blocks[c.elves[0]])
  <2>1. BlankImage \in Seq(Block) /\ 0 \in 0..1  BY <1>2
  <2> QED  BY <1>1, <2>1, PasteWanted, Zenon
<1> HIDE DEF first
<1>7. Len(WithRws(a)) = Longest(Len(first), RwAt[1] + Blocks[c.elves[1]])
  <2>1. 1 \in 0..1  OBVIOUS
  <2>2. Len(Paste(first, RwAt[1], WantedImage(c, 1)))
          = Longest(Len(first), RwAt[1] + Blocks[c.elves[1]])
    BY <1>1, <1>3, <2>1, PasteWanted, Zenon
  <2> QED  BY <1>5, <2>2
<1>8. /\ {RwAt[0], RwAt[1], RoBAt, Size} \subseteq Nat
      /\ \A i \in 0..1 : Blocks[c.elves[i]] \in Nat \ {0}
      /\ RwAt[0] + Blocks[c.elves[0]] <= RoBAt
      /\ RoBAt + 1 <= RwAt[1] /\ RwAt[1] + Blocks[c.elves[1]] <= Size
  BY <1>1, Places
<1>9. Len(first) = Size  BY <1>2, <1>6, <1>8 DEF Longest
<1>10. Len(WithRws(a)) = Size  BY <1>7, <1>8, <1>9 DEF Longest
<1> QED  BY <1>3, <1>4, <1>10 DEF c

\* A file with one more RO.
LEMMA PasteRoKeepsRest ==
  ASSUME NEW file \in Seq(Block), NEW ro \in Ro, NEW at \in Nat
  PROVE  /\ Paste(file, at, <<ro>>) \in Seq(Block)
         /\ Len(Paste(file, at, <<ro>>)) = Longest(Len(file), at + 1)
         /\ Paste(file, at, <<ro>>)[at + 1] = ro
         /\ \A n \in 1..Len(file) : n # at + 1 => Paste(file, at, <<ro>>)[n] = file[n]
<1> DEFINE part == <<ro>>
           new == Paste(file, at, part)
<1>1. part \in Seq(Block) /\ Hole \in Block
  BY RoIsFile, BsAssumption DEF Block
<1>2. Len(part) = 1 /\ part[1] = ro /\ Len(file) \in Nat
  BY RoIsFile, LenProperties
<1>3. Len(part) > 0  BY <1>2
<1> HIDE DEF part
<1>4. new \in Seq(Block)  BY <1>1, PasteIsFile
<1>5. Len(new) = Longest(Len(file), at + Len(part))
  BY <1>1, <1>3, PasteKeepsRest
<1>6. \A n \in 1..Len(part) : new[at + n] = part[n]
  BY <1>1, <1>3, PasteKeepsRest
<1>7. \A n \in 1..Len(file) : ~(at < n /\ n <= at + Len(part)) => new[n] = file[n]
  BY <1>1, <1>3, PasteKeepsRest
<1> HIDE DEF new
<1>8. new[at + 1] = ro  BY <1>2, <1>6
<1>9. \A n \in 1..Len(file) : n # at + 1 => new[n] = file[n]  BY <1>2, <1>7
<1>10. Len(new) = Longest(Len(file), at + 1)  BY <1>2, <1>5
<1> QED  BY <1>4, <1>8, <1>9, <1>10 DEF new, part

\* One RO more in release.bin: it is in its place, and nothing else has changed.
LEMMA RoIsIn ==
  ASSUME NEW file, file \in Seq(Block) /\ Len(file) = Size,
         NEW ro, ro \in Ro, NEW at, at \in Nat /\ at + 1 <= Size
  PROVE  /\ Paste(file, at, <<ro>>) \in Seq(Block)
         /\ Len(Paste(file, at, <<ro>>)) = Size
         /\ Paste(file, at, <<ro>>)[at + 1] = ro
         /\ \A n \in 1..Size : n # at + 1 => Paste(file, at, <<ro>>)[n] = file[n]
<1> DEFINE new == Paste(file, at, <<ro>>)
<1>1. /\ new \in Seq(Block)
      /\ Len(new) = Longest(Len(file), at + 1)
      /\ new[at + 1] = ro
      /\ \A n \in 1..Len(file) : n # at + 1 => new[n] = file[n]
  BY PasteRoKeepsRest, Zenon
<1> HIDE DEF new
<1>2. Longest(Len(file), at + 1) = Size  BY ReleaseAssumption DEF Longest
<1> QED  BY <1>1, <1>2 DEF new

\* The image asked for: both ROs and both RWs, each in its place.
LEMMA RequestedBlocks ==
  ASSUME NEW a \in Argument
  PROVE  /\ Requested(a) = Paste(WithRo0(a), RoBAt, <<a.b>>)
         /\ Requested(a) \in Seq(Block) /\ Len(Requested(a)) = Size
         /\ Requested(a)[1] = a.a /\ Requested(a)[RoBAt + 1] = a.b
         /\ \A i \in 0..1 : Holds(Requested(a), RwAt[i], WantedImage(BsCommand(a), i))
<1> DEFINE w(i) == WantedImage(BsCommand(a), i)
           one == WithRws(a)
           two == WithRo0(a)
           three == Requested(a)
<1>1. two = Paste(one, 0, <<a.a>>) /\ three = Paste(two, RoBAt, <<a.b>>)
  BY DEF WithRo0, Requested, WithRws, BlankImage
<1>2. a.a \in Ro /\ a.b \in Ro  BY ReleaseAssumption
<1>3. /\ one \in Seq(Block) /\ Len(one) = Size
      /\ \A i \in 0..1 : Holds(one, RwAt[i], w(i))
  BY RwsAreIn
<1>4. \A i \in 0..1 : w(i) \in Seq(Block) /\ Len(w(i)) = Blocks[a.elves[i]]
  <2>1. BsCommand(a) \in Command /\ BsCommand(a).elves = a.elves
    BY BsCommandIsOne
  <2> QED  BY <2>1, WantedIsFile
<1> HIDE DEF w, one, two, three
<1>5. /\ {RwAt[0], RwAt[1], RoBAt, Size} \subseteq Nat
      /\ \A i \in 0..1 : Len(w(i)) \in Nat \ {0}
      /\ 1 <= RwAt[0] /\ RwAt[0] + Len(w(0)) <= RoBAt
      /\ RoBAt + 1 <= RwAt[1] /\ RwAt[1] + Len(w(1)) <= Size
  BY <1>4, Places
<1>6. \A i \in 0..1 : DOMAIN w(i) = 1..Len(w(i))
  <2> TAKE i \in 0..1
  <2>1. w(i) \in Seq(Block)  BY <1>4
  <2> QED  BY <2>1, LenProperties
<1>7. 0 \in Nat /\ 0 + 1 <= Size /\ RoBAt + 1 <= Size  BY <1>5
<1>8. /\ two \in Seq(Block) /\ Len(two) = Size /\ two[1] = a.a
      /\ \A n \in 1..Size : n # 1 => two[n] = one[n]
  BY <1>1, <1>2, <1>3, <1>7, RoIsIn
<1>9. /\ three \in Seq(Block) /\ Len(three) = Size /\ three[RoBAt + 1] = a.b
      /\ \A n \in 1..Size : n # RoBAt + 1 => three[n] = two[n]
  <2>1. RoBAt \in Nat /\ RoBAt + 1 <= Size  BY <1>5
  <2>2. two \in Seq(Block) /\ Len(two) = Size  BY <1>8
  <2>3. a.b \in Ro  BY <1>2
  <2> DEFINE new == Paste(two, RoBAt, <<a.b>>)
  <2>4. new \in Seq(Block) /\ Len(new) = Size /\ new[RoBAt + 1] = a.b
    BY <2>1, <2>2, <2>3, RoIsIn
  <2>5. ASSUME NEW n \in 1..Size, n # RoBAt + 1  PROVE new[n] = two[n]
    BY <2>1, <2>2, <2>3, <2>5, RoIsIn
  <2>6. three = new  BY <1>1
  <2> HIDE DEF new
  <2> QED  BY <2>4, <2>5, <2>6
<1>10. three[1] = a.a
  <2>1. 1 \in 1..Size /\ 1 # RoBAt + 1  BY <1>5
  <2> QED  BY <1>8, <1>9, <2>1
<1>11. ASSUME NEW i \in 0..1  PROVE Holds(three, RwAt[i], w(i))
  <2>1. \A n \in 1..Len(w(i)) : one[RwAt[i] + n] = w(i)[n]
    BY <1>3, <1>6 DEF Holds
  <2>2. RwAt[i] + Len(w(i)) <= Size
    BY <1>5
  <2>3. ASSUME NEW n \in 1..Len(w(i))  PROVE three[RwAt[i] + n] = w(i)[n]
    <3>1. /\ RwAt[i] + n \in 1..Size
          /\ RwAt[i] + n # 1 /\ RwAt[i] + n # RoBAt + 1
      <4>1. CASE i = 0  BY <1>5, <4>1
      <4>2. CASE i = 1  BY <1>5, <4>2
      <4> QED  BY <4>1, <4>2
    <3>2. three[RwAt[i] + n] = one[RwAt[i] + n]  BY <1>8, <1>9, <3>1
    <3> QED  BY <2>1, <3>2
  <2>4. three # Absent  BY <1>9, FirstAssumption
  <2> QED  BY <1>6, <1>9, <2>2, <2>3, <2>4 DEF Holds
<1> QED  BY <1>1, <1>9, <1>10, <1>11 DEF w, one, two, three

----------------------------------------------------------------------------
(* The steps of bs.                                                        *)

\* To begin with.
LEMMA InitRInv == ReleaseInit => RInv
<1> SUFFICES ASSUME ReleaseInit PROVE RInv  OBVIOUS
<1> USE DEF ReleaseInit
<1>1. BInv  BY InitBInv
<1>2. AnyArgument \in Argument  BY ReleaseAssumption DEF AnyArgument
<1>3. ScriptOK  BY <1>2 DEF ScriptOK, RLabel, AfterDestDir
<1>4. \A p \in Proc : pc[p] = "idle"  BY DEF Init
<1>5. OneChild  BY <1>4, ReleaseAssumption DEF OneChild
<1>6. Verified  BY DEF Verified, AfterRo0, AfterRo1, RLabel
<1>7. result[Release] = Absent  BY ReleaseAssumption DEF Init
<1>8. InTmpd /\ Stage  BY <1>7 DEF InTmpd, Stage, AfterRo0, AfterRo1
<1>9. Saved  BY DEF Saved, AfterDestDir
<1> QED  BY <1>1, <1>3, <1>5, <1>6, <1>8, <1>9 DEF RInv

\* A step of bs leaves the script alone.
LEMMA ScriptKept ==
  ASSUME RInv, UNCHANGED releaseVars
  PROVE  /\ ScriptOK' /\ Verified'
         /\ ~SignerLies => Saved'
<1>1. ScriptOK'  BY DEF RInv, ScriptOK, releaseVars
<1>2. Verified'  BY DEF RInv, Verified, releaseVars
<1>3. ASSUME ~SignerLies PROVE Saved'
  BY <1>3 DEF RInv, Saved, releaseVars
<1> QED  BY <1>1, <1>2, <1>3

\* As long as release.bin and the bs of the script are as they were, it is in the
\* same stage.
LEMMA StageKept ==
  ASSUME Stage, UNCHANGED releaseVars, Spared(Child),
         result'[Release] = result[Release]
  PROVE  Stage'
  BY DEF Stage, releaseVars, Spared, Working, SaidSuccess, Succeeded

\* A run of bs takes a step.
LEMMA BsStep ==
  ASSUME RInv, NEW p \in Proc, StepOf(p), UNCHANGED releaseVars
  PROVE  RInv'
<1>1. /\ BInv /\ ScriptOK /\ OneChild /\ ControlOK /\ FilesGood
      /\ \A q \in Proc : Settled(q)
      /\ ~SignerLies => Stage /\ Done(p)
  BY DEF RInv, BInv
<1>2. BInv'  BY <1>1, StepBInv
<1>3. Shape(p) /\ \A q \in Proc \ {p} : Spared(q)
  BY <1>1, StepShape, StepSparesOthers
<1>4. pc[p] # "idle" /\ (pc'[p] # "idle" => cmd'[p] = cmd[p])
  BY <1>3 DEF Shape, Working, Unseen
<1>5. OneChild'
  <2>1. rpc' = rpc /\ args' = args  BY DEF releaseVars
  <2>2. ASSUME NEW q \in Proc, pc'[q] # "idle"
        PROVE  pc[q] # "idle" /\ cmd'[q] = cmd[q]
    BY <1>3, <1>4, <2>2 DEF Spared
  <2> QED  BY <1>1, <2>1, <2>2, ReleaseAssumption DEF OneChild
<1>6. InTmpd'
  <2>1. InTmpd  BY DEF RInv
  <2>2. UNCHANGED <<tmpd, bin, rpc>>  BY DEF releaseVars
  <2>3. result[Release] # Absent => result'[Release] # Absent
    BY <1>1, StepKeepsImages, ReleaseAssumption
  <2>4. ASSUME result[Release] = Absent PROVE result'[Release] = Absent
    <3>1. CASE result' = result  BY <2>4, <3>1
    <3>2. CASE pc[p] = "mv" /\ cmd[p].path # Release
               /\ result' = [result EXCEPT ![cmd[p].path] = tmp[cmd[p].path]]
      BY <1>1, <2>4, <3>2, ReleaseAssumption DEF FilesGood
    <3>3. ~(pc[p] = "mv" /\ cmd[p].path = Release)
      BY <1>1, <1>4, <2>4, BsCommandIsOne DEF Settled, Pasting
    <3> QED  BY <1>3, <3>1, <3>2, <3>3 DEF Shape, Unseen
  <2> QED  BY <2>1, <2>2, <2>3, <2>4 DEF InTmpd
<1>7. ASSUME ~SignerLies PROVE Stage'
  <2>1. Stage /\ Done(p) /\ Settled(p)  BY <1>1, <1>7
  <2>2. CASE p # Child
    <3>1. Spared(Child)  BY <1>3, <2>2, ReleaseAssumption
    <3>2. cmd[p].path # Release  BY <1>1, <1>4, <2>2 DEF OneChild
    <3>3. result'[Release] = result[Release]
      BY <1>1, <1>3, <3>2, ReleaseAssumption DEF Shape, Unseen, FilesGood
    <3> QED  BY <2>1, <3>1, <3>3, StageKept
  <2>3. CASE p = Child
    <3>1. rpc = "wait" /\ cmd[p] = BsCommand(args) /\ args \in Argument
      BY <1>1, <1>4, <2>3 DEF OneChild, ScriptOK
    <3>2. /\ cmd[p].path = Release /\ ~cmd[p].hex
      BY <3>1, BsCommandIsOne
    <3>3. \/ /\ result'[Release] = result[Release]
             /\ Working(p)' => Working(p)
             /\ SaidSuccess(p)' => SaidSuccess(p)
          \/ /\ pc[p] = "mv" /\ pc'[p] = "echo"
             /\ result'[Release] = tmp[Release]
      <4>1. CASE pc[p] = "mv" /\ pc'[p] = "echo"
                 /\ result' = [result EXCEPT ![cmd[p].path] = tmp[cmd[p].path]]
        BY <1>1, <3>2, <4>1, ReleaseAssumption DEF FilesGood
      <4>2. CASE Working(p) /\ Working(p)' /\ Unseen
        BY <4>2 DEF Unseen, Working, SaidSuccess, Succeeded
      <4>3. CASE pc[p] = "echo" /\ pc'[p] = "exit" /\ outcome'[p] = "success" /\ Unseen
        BY <4>3 DEF Unseen, Working, SaidSuccess, Succeeded
      <4>4. CASE pc[p] \notin {"idle", "exit"} /\ pc'[p] = "exit"
                 /\ outcome'[p] # "success" /\ Unseen
        BY <4>4 DEF Unseen, Working, SaidSuccess, Succeeded
      <4>5. CASE pc[p] # "idle" /\ pc'[p] = "idle" /\ result' = result
                 /\ (outcome'[p] = "success" => pc[p] = "exit" /\ outcome[p] = "success")
        BY <4>5 DEF Working, SaidSuccess, Succeeded
      <4> QED  BY <1>3, <3>2, <4>1, <4>2, <4>3, <4>4, <4>5 DEF Shape
    <3>4. CASE /\ result'[Release] = result[Release]
               /\ Working(p)' => Working(p)
               /\ SaidSuccess(p)' => SaidSuccess(p)
      <4> QED  BY <2>1, <2>3, <3>1, <3>4 DEF Stage, releaseVars
    <3>5. CASE pc[p] = "mv" /\ pc'[p] = "echo" /\ result'[Release] = tmp[Release]
      <4>1. Working(p)  BY <3>5 DEF Working
      <4>2. result[Release] # Absent
        BY <2>1, <3>2, <3>5 DEF Settled, Pasting
      <4>3. tmpd /\ result[Release] = BlankImage
        BY <2>1, <2>3, <3>1, <4>1, <4>2 DEF Stage, RInv, InTmpd, ScriptOK
      <4>4. tmp[Release] = Updated(BlankImage, BsCommand(args))
        BY <2>1, <3>1, <3>2, <3>5, <4>3 DEF Done
      <4>5. result'[Release] = WithRws(args)  BY <3>5, <4>4 DEF WithRws
      <4>6. tmpd' /\ rpc' = "wait" /\ args' = args /\ bin' = bin /\ ~Working(p)'
        BY <3>1, <3>5, <4>3 DEF releaseVars, Working
      <4> QED  BY <2>1, <2>3, <3>1, <4>5, <4>6, <4>3 DEF Stage
    <3> QED  BY <3>3, <3>4, <3>5
  <2> QED  BY <2>2, <2>3
<1> QED  BY <1>2, <1>5, <1>6, <1>7, ScriptKept DEF RInv

\* Somebody else calls bs.
LEMMA OtherStart ==
  ASSUME RInv, NEW p \in Proc \ {Child}, NEW c \in Command,
         c.path # Release, MayStart(c), Start(p, c), UNCHANGED releaseVars
  PROVE  RInv'
<1>1. BInv /\ OneChild /\ ControlOK /\ (~SignerLies => Stage)  BY DEF RInv, BInv
<1>2. BInv'  BY <1>1, StartBInv
<1>3. cmd'[p] = c /\ UNCHANGED result /\ \A q \in Proc \ {p} : Spared(q)
  BY <1>1 DEF Start, Goto, Spared, ControlOK
<1>4. OneChild'
  BY <1>1, <1>3, ReleaseAssumption DEF OneChild, Spared, releaseVars
<1>5. Spared(Child)  BY <1>3, ReleaseAssumption
<1>6. ~SignerLies => Stage'  BY <1>1, <1>3, <1>5, StageKept
<1>7. InTmpd'  BY <1>3 DEF RInv, InTmpd, releaseVars
<1> QED  BY <1>2, <1>4, <1>6, <1>7, ScriptKept DEF RInv

----------------------------------------------------------------------------
(* The steps of the script.                                                *)

\* While its bs is not running, the script has release.bin to itself.
LEMMA ScriptAlone ==
  ASSUME RInv, pc[Child] = "idle"
  PROVE  \A q \in Proc : pc[q] # "idle" => cmd[q].path # Release /\ cmd[q].path \in Path
<1> SUFFICES ASSUME NEW q \in Proc, pc[q] # "idle"
             PROVE  cmd[q].path # Release /\ cmd[q].path \in Path
  OBVIOUS
<1>1. cmd[q] \in Command  BY DEF RInv, BInv, ControlOK
<1> QED  BY <1>1, CommandFields DEF RInv, OneChild

\* What it does to release.bin is nobody else's concern.
LEMMA ScriptBInv ==
  ASSUME RInv, pc[Child] = "idle", UnchangedBs,
         NEW r \in GoodFile, result' = [result EXCEPT ![Release] = r],
         NEW t \in GoodFile, tmp' = [tmp EXCEPT ![Release] = t]
  PROVE  BInv' /\ result'[Release] = r
<1>1. BInv /\ FilesGood  BY DEF RInv, BInv
<1>2. tmp' \in [Path -> GoodFile] /\ result' \in [Path -> GoodFile]
  BY <1>1 DEF FilesGood
<1>3. result'[Release] = r  BY <1>1, ReleaseAssumption DEF FilesGood
<1>4. \A q \in Proc : pc[q] # "idle" =>
        /\ tmp'[cmd[q].path] = tmp[cmd[q].path]
        /\ result'[cmd[q].path] = result[cmd[q].path]
  BY <1>1, ScriptAlone DEF FilesGood
<1>5. UNCHANGED <<pc, runVars, blob>>  BY DEF UnchangedBs
<1> QED  BY <1>1, <1>2, <1>3, <1>4, <1>5, FilesBInv

\* Nor is it if the script leaves it alone.
LEMMA KeepBInv ==
  ASSUME RInv, UnchangedBs, tmp' = tmp, result' = result
  PROVE  BInv'
<1>1. BInv /\ FilesGood  BY DEF RInv, BInv
<1>2. tmp' \in [Path -> GoodFile] /\ result' \in [Path -> GoodFile]
  BY <1>1 DEF FilesGood
<1>3. UNCHANGED <<pc, runVars, blob>>  BY DEF UnchangedBs
<1> QED  BY <1>1, <1>2, <1>3, FilesBInv

\* The processes stay who they are.
LEMMA OneChildKept ==
  ASSUME RInv, UnchangedBs, pc[Child] = "idle" \/ (rpc' = rpc /\ args' = args)
  PROVE  OneChild'
<1>1. pc' = pc /\ cmd' = cmd  BY DEF UnchangedBs, runVars
<1> QED  BY <1>1 DEF RInv, OneChild

\* The bs of the script runs only while the script waits for it.
LEMMA ChildIdle ==
  ASSUME RInv, rpc # "wait"  PROVE pc[Child] = "idle"
  BY DEF RInv, OneChild

\* Tarballs that are as they were, or were not written to their end.
TarballsKept ==
  \A v \in Version : tarball'[v] \notin {Absent, Torn} => tarball'[v] = tarball[v]

\* The tarballs hold what they held.
LEMMA TarballsSaved ==
  ASSUME Saved, TarballsKept
  PROVE  (\A v \in Version : tarball[v] \notin {Absent, Torn} =>
            \E a \in Argument : /\ {a.a, a.b} \subseteq ProdRo
                                /\ v = VersionAsked(a)
                                /\ tarball[v] = [bin |-> Requested(a)])'
<1> SUFFICES ASSUME NEW v \in Version, tarball'[v] \notin {Absent, Torn}
             PROVE  \E a \in Argument : /\ {a.a, a.b} \subseteq ProdRo
                                        /\ v = VersionAsked(a)
                                        /\ tarball'[v] = [bin |-> Requested(a)]
  OBVIOUS
<1>1. tarball'[v] = tarball[v]  BY DEF TarballsKept
<1>2. tarball[v] \notin {Absent, Torn}  BY <1>1
<1> QED  BY <1>1, <1>2, Zenon DEF Saved

\* The script ends: TMPD is gone.
LEMMA EndStep ==
  ASSUME RInv, End,
         BInv', pc'[Child] = "idle", OneChild',
         dest' \in [Version -> {Absent} \cup [bin : GoodFile]],
         tarball' \in [Version -> {Absent, Torn} \cup [bin : GoodFile]],
         TarballsKept
  PROVE  RInv'
<1>1. AnyArgument \in Argument  BY ReleaseAssumption DEF AnyArgument
<1>2. /\ rpc' = "idle" /\ args' \in Argument /\ destDir' = Absent /\ tmpd' = FALSE
      /\ bin' = [i \in 0..1 |-> Absent]
      /\ result' = [result EXCEPT ![Release] = Absent]
  BY <1>1 DEF End, DropTmpd
<1>3. ScriptOK'  BY <1>2 DEF ScriptOK, RLabel, AfterDestDir
<1>4. Verified'  BY <1>2 DEF Verified, AfterRo0, AfterRo1
<1>5. result'[Release] = Absent
  BY <1>2, ReleaseAssumption DEF RInv, BInv, FilesGood
<1>6. InTmpd' /\ Stage'  BY <1>2, <1>5 DEF InTmpd, Stage
<1>7. ASSUME ~SignerLies PROVE Saved'
  <2>1. Saved  BY <1>7 DEF RInv
  <2>2. rpc' \notin AfterDestDir /\ rpc' \notin {"cp", "tar", "rm", "success"}
    BY <1>2 DEF AfterDestDir
  <2> QED  BY <2>1, <2>2, TarballsSaved DEF Saved
<1> QED  BY <1>3, <1>4, <1>6, <1>7 DEF RInv

\* It ends without its bs running.
LEMMA EndAlone ==
  ASSUME RInv, End, UnchangedBs, pc[Child] = "idle",
         dest' \in [Version -> {Absent} \cup [bin : GoodFile]],
         tarball' \in [Version -> {Absent, Torn} \cup [bin : GoodFile]],
         TarballsKept
  PROVE  RInv'
<1>1. Absent \in GoodFile  BY DEF GoodFile
<1>2. BInv'  BY <1>1, ScriptBInv DEF End, DropTmpd
<1>3. OneChild'  BY OneChildKept
<1>4. pc'[Child] = "idle"  BY DEF UnchangedBs
<1> QED  BY <1>2, <1>3, <1>4, EndStep

\* It ends, and leaves dest_dir and the tarballs as they are.
LEMMA EndQuietly ==
  ASSUME RInv, End, UnchangedBs, UNCHANGED <<dest, tarball>>, pc[Child] = "idle"
  PROVE  RInv'
<1>1. TarballsKept  BY DEF TarballsKept
<1>2. /\ dest' \in [Version -> {Absent} \cup [bin : GoodFile]]
      /\ tarball' \in [Version -> {Absent, Torn} \cup [bin : GoodFile]]
  BY DEF RInv, ScriptOK
<1> QED  BY <1>1, <1>2, EndAlone

\* TMPD is made.
LEMMA CallStep ==
  ASSUME RInv, NEW a \in Argument, Call(a)
  PROVE  RInv'
<1>1. /\ rpc = "idle" /\ rpc' = "blank" /\ args' = a /\ tmpd' = TRUE
      /\ destDir' = Absent /\ UnchangedBs
      /\ UNCHANGED <<bin, tmp, result, dest, tarball>>
  BY DEF Call
<1>2. pc[Child] = "idle"  BY <1>1, ChildIdle
<1>3. BInv' /\ OneChild'  BY <1>1, <1>2, KeepBInv, OneChildKept
<1>4. ScriptOK'  BY <1>1 DEF RInv, ScriptOK, RLabel, AfterDestDir
<1>5. Verified'  BY <1>1 DEF Verified, AfterRo0, AfterRo1
<1>6. InTmpd' /\ Stage'  BY <1>1 DEF InTmpd, Stage, AfterRo0, AfterRo1
<1>7. ASSUME ~SignerLies PROVE Saved'
  BY <1>1, <1>7 DEF RInv, Saved, AfterDestDir
<1> QED  BY <1>3, <1>4, <1>5, <1>6, <1>7 DEF RInv

\* What a step of the script that goes on leaves alone, before there is a dest_dir.
Onward(label) ==
  /\ To(label) /\ label \in RLabel \ AfterDestDir
  /\ UNCHANGED <<tmpd, dest, tarball>>

\* It keeps the variables of the script, and the tarballs.
LEMMA OnwardKeeps ==
  ASSUME RInv, NEW label, Onward(label), bin' \in [0..1 -> ProdRo \cup {Absent}]
  PROVE  ScriptOK' /\ (~SignerLies => Saved')
<1>1. /\ rpc' = label /\ args' = args /\ destDir' = destDir
      /\ label \in RLabel /\ label \notin AfterDestDir
      /\ UNCHANGED <<tmpd, dest, tarball>>
  BY DEF Onward, To
<1>2. ScriptOK'
  <2>1. label # "cp"  BY <1>1 DEF AfterDestDir
  <2> QED  BY <1>1, <2>1 DEF RInv, ScriptOK
<1>3. ASSUME ~SignerLies PROVE Saved'
  <2>1. label \notin {"cp", "tar", "rm", "success"}  BY <1>1 DEF AfterDestDir
  <2> QED  BY <1>1, <1>3, <2>1 DEF RInv, Saved
<1> QED  BY <1>2, <1>3

\* release.bin is made.
LEMMA BlankStep ==
  ASSUME RInv, Blank
  PROVE  RInv'
<1>1. rpc = "blank" /\ pc[Child] = "idle" /\ UnchangedBs /\ UNCHANGED <<dest, tarball>>
  BY ChildIdle DEF Blank
<1>2. CASE End  BY <1>1, <1>2, EndQuietly
<1>3. CASE /\ tmpd /\ To("ro0") /\ UNCHANGED <<tmpd, bin, tmp>>
           /\ result' = [result EXCEPT ![Release] = BlankImage]
  <2>1. BlankImage \in GoodFile  BY BlankIsGood DEF GoodFile
  <2>2. tmp[Release] \in GoodFile /\ tmp' = [tmp EXCEPT ![Release] = tmp[Release]]
    BY <1>3, ReleaseAssumption DEF RInv, BInv, FilesGood
  <2>3. BInv' /\ result'[Release] = BlankImage
    BY <1>1, <1>3, <2>1, <2>2, ScriptBInv
  <2>4. OneChild'  BY <1>1, OneChildKept
  <2>5. Onward("ro0")  BY <1>1, <1>3 DEF Onward, RLabel, AfterDestDir
  <2>6. ScriptOK' /\ (~SignerLies => Saved')
    BY <1>3, <2>5, OnwardKeeps DEF RInv, ScriptOK
  <2>7. rpc' = "ro0" /\ tmpd' = TRUE  BY <1>3 DEF RInv, ScriptOK, To
  <2>8. Verified'  BY <2>7 DEF Verified, AfterRo0, AfterRo1
  <2>9. InTmpd' /\ Stage'
    BY <2>3, <2>7, BlankIsGood, GoodIsThere DEF InTmpd, Stage, AfterRo0, AfterRo1
  <2> QED  BY <2>3, <2>4, <2>6, <2>8, <2>9 DEF RInv
<1> QED  BY <1>2, <1>3 DEF Blank, BlankImage

\* The ROs are prepared and verified.
LEMMA PrepareStep ==
  ASSUME RInv, PrepareRo0 \/ PrepareRo1
  PROVE  RInv'
<1>1. PICK i \in 0..1, ro \in Ro, next \in RLabel :
        /\ PrepareRo(i, ro, next)
        /\ \/ i = 0 /\ rpc = "ro0" /\ ro = args.a /\ next = "ro1"
           \/ i = 1 /\ rpc = "ro1" /\ ro = args.b /\ next = "bs"
  <2>1. args.a \in Ro /\ args.b \in Ro  BY ReleaseAssumption DEF RInv, ScriptOK
  <2> QED  BY <2>1 DEF PrepareRo0, PrepareRo1, RLabel
<1>2. pc[Child] = "idle" /\ UnchangedBs /\ UNCHANGED <<dest, tarball>>
  BY <1>1, ChildIdle DEF PrepareRo
<1>3. CASE End  BY <1>2, <1>3, EndQuietly
<1>4. CASE /\ tmpd /\ ro \in ProdRo /\ bin' = [bin EXCEPT ![i] = ro] /\ To(next)
           /\ UNCHANGED <<tmpd, tmp, result>>
  <2>1. BInv' /\ OneChild'  BY <1>2, <1>4, KeepBInv, OneChildKept
  <2>2. Onward(next)
    BY <1>1, <1>2, <1>4 DEF Onward, RLabel, AfterDestDir
  <2>3. bin' \in [0..1 -> ProdRo \cup {Absent}]
    BY <1>4 DEF RInv, ScriptOK
  <2>4. ScriptOK' /\ (~SignerLies => Saved')  BY <2>2, <2>3, OnwardKeeps
  <2>5. rpc' = next /\ args' = args /\ tmpd' = TRUE
    BY <1>4 DEF RInv, ScriptOK, To
  <2>6. Verified'
    BY <1>1, <1>4, <2>5 DEF RInv, Verified, AfterRo0, AfterRo1, RLabel
  <2>7. ASSUME ~SignerLies PROVE Stage'
    <3>1. Stage /\ bin \in [0..1 -> ProdRo \cup {Absent}]
      BY <2>7 DEF RInv, ScriptOK
    <3>2. result'[Release] = BlankImage
      BY <1>1, <1>4, <3>1 DEF Stage
    <3>3. /\ i = 0 => bin'[0] = args.a
          /\ i = 1 => bin'[0] = bin[0] /\ bin'[1] = args.b
      BY <1>1, <1>4, <3>1
    <3>4. i = 1 => bin[0] = args.a
      BY <1>1, <1>4, <3>1 DEF Stage, AfterRo0, RLabel
    <3> QED
      BY <1>1, <2>5, <3>2, <3>3, <3>4 DEF Stage, AfterRo0, AfterRo1
  <2>8. InTmpd'
    BY <1>1, <1>4, <2>5 DEF RInv, InTmpd
  <2> QED  BY <2>1, <2>4, <2>6, <2>7, <2>8 DEF RInv
<1> QED  BY <1>1, <1>3, <1>4 DEF PrepareRo

\* bs is called.
LEMMA CallBsStep ==
  ASSUME RInv, CallBs
  PROVE  RInv'
<1> DEFINE c == BsCommand(args)
<1>1. /\ rpc = "bs" /\ MayStart(c) /\ Start(Child, c) /\ To("wait")
      /\ UNCHANGED <<tmpd, bin, dest, tarball>>
      /\ args \in Argument /\ c \in Command /\ Child \in Proc
      /\ BInv /\ ControlOK
  BY BsCommandIsOne, ReleaseAssumption DEF CallBs, RInv, ScriptOK, BInv
<1> HIDE DEF c
<1>2. BInv'  BY <1>1, StartBInv
<1>3. /\ pc'[Child] = "options" /\ cmd'[Child] = c /\ result' = result
      /\ outcome'[Child] = "none"
      /\ \A q \in Proc \ {Child} : Spared(q)
  BY <1>1 DEF Start, Goto, Spared, ControlOK
<1>4. rpc' = "wait" /\ args' = args  BY <1>1 DEF To
<1>5. OneChild'
  BY <1>3, <1>4 DEF RInv, OneChild, Spared, c
<1>6. Onward("wait")  BY <1>1 DEF Onward, RLabel, AfterDestDir
<1>7. ScriptOK' /\ (~SignerLies => Saved')
  BY <1>1, <1>6, OnwardKeeps DEF RInv, ScriptOK
<1>8. Verified'
  BY <1>1, <1>4 DEF RInv, Verified, AfterRo0, AfterRo1, RLabel
<1>9. ASSUME ~SignerLies PROVE Stage'
  <2>1. Stage  BY <1>9 DEF RInv
  <2>2. ~SaidSuccess(Child)'  BY <1>3 DEF SaidSuccess, Succeeded
  <2> QED
    BY <1>1, <1>3, <1>4, <2>1, <2>2 DEF Stage, AfterRo0, AfterRo1, RLabel
<1>10. InTmpd'  BY <1>1, <1>3, <1>4 DEF RInv, InTmpd
<1> QED  BY <1>2, <1>5, <1>7, <1>8, <1>9, <1>10 DEF RInv

\* bs has ended.
LEMMA ReturnStep ==
  ASSUME RInv, ReturnFromBs
  PROVE  RInv'
<1>1. /\ rpc = "wait" /\ pc[Child] = "idle" /\ UnchangedBs /\ UNCHANGED <<dest, tarball>>
  BY DEF ReturnFromBs
<1>2. CASE End  BY <1>1, <1>2, EndQuietly
<1>3. CASE outcome[Child] = "success" /\ To("dd0") /\ KeepTmpd
  <2>1. BInv' /\ OneChild'
    BY <1>1, <1>3, KeepBInv, OneChildKept DEF KeepTmpd
  <2>2. Onward("dd0")
    BY <1>1, <1>3 DEF Onward, KeepTmpd, RLabel, AfterDestDir
  <2>3. ScriptOK' /\ (~SignerLies => Saved')
    BY <1>3, <2>2, OnwardKeeps DEF RInv, ScriptOK, KeepTmpd
  <2>4. rpc' = "dd0" /\ args' = args /\ UNCHANGED <<tmpd, bin, result>>
    BY <1>3 DEF To, KeepTmpd
  <2>5. Verified'
    BY <1>1, <2>4 DEF RInv, Verified, AfterRo0, AfterRo1, RLabel
  <2>6. ASSUME ~SignerLies PROVE Stage'
    <3>1. Stage  BY <2>6 DEF RInv
    <3>2. tmpd => result[Release] = WithRws(args)
      BY <1>1, <1>3, <3>1 DEF Stage, SaidSuccess
    <3> QED
      BY <1>1, <2>4, <3>1, <3>2 DEF Stage, AfterRo0, AfterRo1, RLabel
  <2>7. InTmpd'  BY <1>1, <2>4 DEF RInv, InTmpd
  <2> QED  BY <2>1, <2>3, <2>5, <2>6, <2>7 DEF RInv
<1> QED  BY <1>2, <1>3 DEF ReturnFromBs

\* The ROs are put into release.bin.
LEMMA PasteStep ==
  ASSUME RInv, PasteRo0 \/ PasteRo1
  PROVE  RInv'
<1>1. PICK i \in 0..1, at \in Nat, next \in RLabel :
        /\ PasteRo(i, at, next)
        /\ \/ i = 0 /\ rpc = "dd0" /\ at = 0 /\ next = "dd1"
           \/ i = 1 /\ rpc = "dd1" /\ at = RoBAt /\ next = "version"
  BY ReleaseAssumption DEF PasteRo0, PasteRo1, RLabel
<1>2. pc[Child] = "idle" /\ UnchangedBs /\ UNCHANGED <<dest, tarball>>
  BY <1>1, ChildIdle DEF PasteRo
<1>3. CASE End  BY <1>2, <1>3, EndQuietly
<1> DEFINE new == Paste(result[Release], at, <<bin[i]>>)
<1>4. CASE /\ bin[i] # Absent /\ result' = [result EXCEPT ![Release] = new]
           /\ To(next) /\ UNCHANGED <<tmpd, bin, tmp>>
  <2>1. tmpd = TRUE /\ result[Release] # Absent /\ bin[i] \in Ro
    BY <1>1, <1>4, ReleaseAssumption DEF RInv, InTmpd, ScriptOK
  <2>2. result[Release] \in Seq(GoodBlock)
    BY <2>1, ThereIsGood, ReleaseAssumption DEF RInv, BInv
  <2>3. new \in Seq(GoodBlock)
    <3>1. <<bin[i]>> \in Seq(GoodBlock)  BY <2>1, RoIsFile
    <3> QED  BY <2>2, <3>1, HoleIsGood, PasteIsFile
  <2> HIDE DEF new
  <2>4. new \in GoodFile /\ new # Absent  BY <2>3, GoodIsThere DEF GoodFile
  <2>5. tmp[Release] \in GoodFile /\ tmp' = [tmp EXCEPT ![Release] = tmp[Release]]
    BY <1>4, ReleaseAssumption DEF RInv, BInv, FilesGood
  <2>6. BInv' /\ result'[Release] = new
    BY <1>2, <1>4, <2>4, <2>5, ScriptBInv
  <2>7. OneChild'  BY <1>2, OneChildKept
  <2>8. Onward(next)
    BY <1>1, <1>2, <1>4 DEF Onward, RLabel, AfterDestDir
  <2>9. ScriptOK' /\ (~SignerLies => Saved')
    BY <1>4, <2>8, OnwardKeeps DEF RInv, ScriptOK
  <2>10. rpc' = next /\ args' = args /\ tmpd' = TRUE /\ bin' = bin
    BY <1>4, <2>1 DEF To
  <2>11. Verified'
    BY <1>1, <2>10 DEF RInv, Verified, AfterRo0, AfterRo1, RLabel
  <2>12. InTmpd'  BY <2>4, <2>6, <2>10 DEF InTmpd
  <2>13. ASSUME ~SignerLies PROVE Stage'
    <3>1. Stage /\ args \in Argument  BY <2>13 DEF RInv, ScriptOK
    <3>2. bin[0] = args.a /\ bin[1] = args.b
      BY <1>1, <2>1, <3>1 DEF Stage, AfterRo0, AfterRo1, RLabel
    <3>3. CASE i = 0
      <4>1. new = WithRo0(args)
        BY <1>1, <2>1, <3>1, <3>2, <3>3 DEF Stage, new, WithRo0
      <4> QED
        BY <1>1, <2>6, <2>10, <3>2, <3>3, <4>1 DEF Stage
    <3>4. CASE i = 1
      <4>1. new = Requested(args)
        BY <1>1, <2>1, <3>1, <3>2, <3>4, RequestedBlocks DEF Stage, new
      <4> QED
        BY <1>1, <2>6, <2>10, <3>2, <3>4, <4>1 DEF Stage
    <3> QED  BY <1>1, <3>3, <3>4
  <2> QED  BY <2>6, <2>7, <2>9, <2>11, <2>12, <2>13 DEF RInv
<1> QED  BY <1>1, <1>3, <1>4 DEF PasteRo

\* The versions found in a full image are versions.
LEMMA VersionTypes ==
  ASSUME NEW file \in Seq(GoodBlock), HasVersion(file)
  PROVE  VersionIn(file) \in Version
<1> DEFINE rw == file[RwAt[0] + 1][1]
<1>1. file[1] \in Ro /\ rw \in Signed  BY DEF HasVersion, IsRw
<1>2. rw.elf \in Elf /\ rw.manifest.board \in BOOLEAN
  BY <1>1 DEF Signed, Manifest
<1> DEFINE b == BoardRead /\ rw.manifest.board
<1>3. b \in BOOLEAN  OBVIOUS
<1>4. VersionIn(file) = <<VersionOf[file[1]], VersionOf[rw.elf], b>>
  BY DEF VersionIn
<1> HIDE DEF rw, b
<1> QED  BY <1>1, <1>2, <1>3, <1>4 DEF Version

\* Those in the image asked for are those asked for.
LEMMA VersionOfRequested ==
  ASSUME NEW a \in Argument
  PROVE  VersionIn(Requested(a)) = VersionAsked(a)
<1> DEFINE c == BsCommand(a)
           signed == SignedBy(c.elves[0], WantedManifest(c), c.prod)
           part == WantedImage(c, 0)
<1>1. c \in Command /\ c.elves = a.elves /\ c.board = a.board
  BY BsCommandIsOne
<1>2. /\ signed.elf = c.elves[0] /\ signed.manifest = WantedManifest(c)
      /\ Blocks[c.elves[0]] \in Nat \ {0}
      /\ part = [k \in 1..Blocks[c.elves[0]] |-> <<signed, k>>]
  BY <1>1, WantedBlocks
<1> HIDE DEF c, signed, part
<1>3. 1 \in DOMAIN part /\ part[1] = <<signed, 1>>  BY <1>2
<1>4. Requested(a)[1] = a.a /\ Holds(Requested(a), RwAt[0], part)
  <2>1. 0 \in 0..1  OBVIOUS
  <2>2. Requested(a)[1] = a.a  BY RequestedBlocks
  <2>3. Holds(Requested(a), RwAt[0], WantedImage(BsCommand(a), 0))
    BY <2>1, RequestedBlocks, Zenon
  <2> QED  BY <2>2, <2>3 DEF part, c
<1>5. Requested(a)[RwAt[0] + 1] = <<signed, 1>>
  BY <1>3, <1>4 DEF Holds
<1>6. Requested(a)[RwAt[0] + 1][1] = signed  BY <1>5
<1>7. signed.elf = a.elves[0] /\ signed.manifest.board = (a.board = "good")
  <2>1. WantedManifest(c).board = (c.board = "good")  BY DEF WantedManifest
  <2> QED  BY <1>1, <1>2, <2>1
<1> QED  BY <1>4, <1>6, <1>7 DEF VersionIn, VersionAsked

\* dest_dir is made.
LEMMA MakeDestDirStep ==
  ASSUME RInv, MakeDestDir
  PROVE  RInv'
<1> DEFINE file == result[Release]
           v == VersionIn(file)
<1>1. /\ rpc = "version" /\ pc[Child] = "idle" /\ UnchangedBs
      /\ UNCHANGED tarball
  BY ChildIdle DEF MakeDestDir
<1>2. CASE End /\ UNCHANGED dest  BY <1>1, <1>2, EndQuietly
<1>3. CASE /\ HasVersion(file) /\ rpc' = "cp" /\ destDir' = v /\ UNCHANGED args
           /\ dest' = IF dest[v] = Absent
                      THEN [dest EXCEPT ![v] = [bin |-> Absent]] ELSE dest
           /\ KeepTmpd
  <2>1. file # Absent /\ file \in Seq(GoodBlock)
    BY <1>3, ThereIsGood, ReleaseAssumption DEF HasVersion, RInv, BInv
  <2>2. v \in Version  BY <1>3, <2>1, VersionTypes
  <2>3. BInv' /\ OneChild'
    BY <1>1, <1>3, KeepBInv, OneChildKept DEF KeepTmpd
  <2>4. tmpd = TRUE  BY <2>1 DEF RInv, InTmpd, ScriptOK
  <2>5. UNCHANGED <<tmpd, bin, result>>  BY <1>3 DEF KeepTmpd
  <2> HIDE DEF v
  <2>6. [bin |-> Absent] \in [bin : GoodFile]  BY DEF GoodFile
  <2>7. /\ dest' \in [Version -> {Absent} \cup [bin : GoodFile]]
        /\ dest'[v] \in [bin : GoodFile]
    <3>1. dest \in [Version -> {Absent} \cup [bin : GoodFile]]
      BY DEF RInv, ScriptOK
    <3>2. CASE dest[v] = Absent  BY <1>3, <2>2, <2>6, <3>1, <3>2
    <3>3. CASE dest[v] # Absent  BY <1>3, <2>2, <3>1, <3>3
    <3> QED  BY <3>2, <3>3
  <2>8. ScriptOK'
    BY <1>1, <1>3, <2>2, <2>5, <2>7 DEF RInv, ScriptOK, RLabel, AfterDestDir
  <2>9. Verified'
    BY <1>1, <1>3 DEF RInv, Verified, AfterRo0, AfterRo1, RLabel
  <2>10. InTmpd'  BY <1>1, <1>3, <2>5 DEF RInv, InTmpd
  <2>11. ASSUME ~SignerLies PROVE Stage' /\ Saved'
    <3>1. Stage /\ Saved /\ args \in Argument  BY <2>11 DEF RInv, ScriptOK
    <3>2. file = Requested(args)  BY <1>1, <2>4, <3>1 DEF Stage
    <3>3. v = VersionAsked(args)  BY <3>1, <3>2, VersionOfRequested DEF v
    <3>4. Stage'
      BY <1>1, <1>3, <2>4, <2>5, <3>1, <3>2 DEF Stage, AfterRo0, AfterRo1, RLabel
    <3>5. Saved'
      BY <1>1, <1>3, <3>1, <3>3 DEF Saved
    <3> QED  BY <3>4, <3>5
  <2> QED  BY <2>3, <2>8, <2>9, <2>10, <2>11 DEF RInv
<1> QED  BY <1>2, <1>3 DEF MakeDestDir

\* The image is saved.
LEMMA SaveStep ==
  ASSUME RInv, Save
  PROVE  RInv'
<1> DEFINE file == result[Release]
           Dirs == [Version -> {Absent} \cup [bin : GoodFile]]
<1>1. /\ rpc = "cp" /\ pc[Child] = "idle" /\ UnchangedBs
      /\ UNCHANGED tarball
  BY ChildIdle DEF Save
<1>2. /\ dest \in Dirs /\ destDir \in Version
      /\ dest[destDir] \in [bin : GoodFile]
      /\ tarball' \in [Version -> {Absent, Torn} \cup [bin : GoodFile]]
      /\ TarballsKept
  BY <1>1 DEF RInv, ScriptOK, AfterDestDir, TarballsKept
<1>3. ASSUME NEW f \in GoodFile
      PROVE  LET new == [dest EXCEPT ![destDir].bin = f] IN
             new \in Dirs /\ new[destDir] = [bin |-> f]
  <2> DEFINE dir == [dest[destDir] EXCEPT !.bin = f]
  <2>1. dir = [bin |-> f] /\ dir \in [bin : GoodFile]  BY <1>2
  <2> HIDE DEF dir
  <2>2. /\ [dest EXCEPT ![destDir] = dir] \in Dirs
        /\ [dest EXCEPT ![destDir] = dir][destDir] = dir
    BY <1>2, <2>1
  <2> QED  BY <2>1, <2>2 DEF dir
<1>4. CASE /\ file # Absent /\ dest' = [dest EXCEPT ![destDir].bin = file]
           /\ To("tar") /\ KeepTmpd
  <2>1. file \in Seq(GoodBlock)
    BY <1>4, ThereIsGood, ReleaseAssumption DEF RInv, BInv
  <2>2. dest' \in Dirs /\ dest'[destDir] = [bin |-> file]
    BY <1>3, <1>4, <2>1 DEF GoodFile
  <2>3. BInv' /\ OneChild'
    BY <1>1, <1>4, KeepBInv, OneChildKept DEF KeepTmpd
  <2>4. /\ rpc' = "tar" /\ args' = args /\ destDir' = destDir
        /\ UNCHANGED <<tmpd, bin, result>>
    BY <1>4 DEF To, KeepTmpd
  <2>5. tmpd = TRUE  BY <1>4 DEF RInv, InTmpd, ScriptOK
  <2>6. ScriptOK'
    BY <1>1, <1>2, <2>2, <2>4 DEF RInv, ScriptOK, RLabel, AfterDestDir
  <2>7. Verified'
    BY <1>1, <2>4 DEF RInv, Verified, AfterRo0, AfterRo1, RLabel
  <2>8. InTmpd'  BY <1>1, <2>4 DEF RInv, InTmpd
  <2>9. ASSUME ~SignerLies PROVE Stage' /\ Saved'
    <3>1. Stage /\ Saved  BY <2>9 DEF RInv
    <3>2. file = Requested(args)  BY <1>1, <2>5, <3>1 DEF Stage
    <3>3. Stage'
      BY <1>1, <2>4, <3>1 DEF Stage, AfterRo0, AfterRo1, RLabel
    <3>4. destDir = VersionAsked(args)  BY <1>1, <3>1 DEF Saved, AfterDestDir
    <3>5. Saved'
      BY <1>1, <2>2, <2>4, <3>1, <3>2, <3>4 DEF Saved
    <3> QED  BY <3>3, <3>5
  <2> QED  BY <2>3, <2>6, <2>7, <2>8, <2>9 DEF RInv
<1>5. CASE /\ file # Absent /\ End
           /\ \E part \in Torsos(file) : dest' = [dest EXCEPT ![destDir].bin = part]
  <2>1. file \in Seq(GoodBlock)
    BY <1>5, ThereIsGood, ReleaseAssumption DEF RInv, BInv
  <2>2. PICK part \in Torsos(file) : dest' = [dest EXCEPT ![destDir].bin = part]
    BY <1>5
  <2>3. part \in GoodFile  BY <2>1, TorsoIsFile DEF GoodFile
  <2>4. dest' \in Dirs  BY <1>3, <2>2, <2>3
  <2> QED  BY <1>1, <1>2, <1>5, <2>4, EndAlone
<1>6. CASE End /\ UNCHANGED dest  BY <1>1, <1>6, EndQuietly
<1> QED  BY <1>4, <1>5, <1>6 DEF Save

\* The tarball is packed.
LEMMA PackStep ==
  ASSUME RInv, Pack
  PROVE  RInv'
<1> DEFINE Tars == [Version -> {Absent, Torn} \cup [bin : GoodFile]]
<1>1. /\ rpc = "tar" /\ pc[Child] = "idle" /\ UnchangedBs /\ UNCHANGED dest
  BY ChildIdle DEF Pack
<1>2. /\ tarball \in Tars /\ destDir \in Version
      /\ dest' \in [Version -> {Absent} \cup [bin : GoodFile]]
  BY <1>1 DEF RInv, ScriptOK, AfterDestDir
<1>3. CASE /\ tarball' = [tarball EXCEPT ![destDir] = dest[destDir]]
           /\ To("rm") /\ KeepTmpd
  <2>1. tarball' \in Tars
    <3>1. dest[destDir] \in {Absent, Torn} \cup [bin : GoodFile]
      BY <1>2 DEF RInv, ScriptOK
    <3> QED  BY <1>2, <1>3, <3>1
  <2>2. BInv' /\ OneChild'
    BY <1>1, <1>3, KeepBInv, OneChildKept DEF KeepTmpd
  <2>3. /\ rpc' = "rm" /\ args' = args /\ destDir' = destDir
        /\ UNCHANGED <<tmpd, bin, result>>
    BY <1>3 DEF To, KeepTmpd
  <2>4. ScriptOK'
    BY <1>1, <1>2, <2>1, <2>3 DEF RInv, ScriptOK, RLabel, AfterDestDir
  <2>5. Verified'
    BY <1>1, <2>3 DEF RInv, Verified, AfterRo0, AfterRo1, RLabel
  <2>6. InTmpd'  BY <1>1, <2>3 DEF RInv, InTmpd
  <2>7. ASSUME ~SignerLies PROVE Stage' /\ Saved'
    <3>1. Stage /\ Saved /\ Verified /\ args \in Argument
      BY <2>7 DEF RInv, ScriptOK
    <3>2. Stage'
      BY <1>1, <2>3, <3>1 DEF Stage, AfterRo0, AfterRo1, RLabel
    <3>3. /\ destDir = VersionAsked(args)
          /\ dest[destDir] = [bin |-> Requested(args)]
      BY <1>1, <3>1 DEF Saved, AfterDestDir
    <3>4. {args.a, args.b} \subseteq ProdRo
      BY <1>1, <3>1 DEF Verified, AfterRo0, AfterRo1, RLabel
    <3>5. tarball'[destDir] = [bin |-> Requested(args)]
      BY <1>2, <1>3, <3>3
    <3>6. ASSUME NEW v \in Version, tarball'[v] \notin {Absent, Torn}
          PROVE  \E a \in Argument : /\ {a.a, a.b} \subseteq ProdRo
                                     /\ v = VersionAsked(a)
                                     /\ tarball'[v] = [bin |-> Requested(a)]
      <4>1. CASE v = destDir  BY <3>1, <3>3, <3>4, <3>5, <4>1
      <4>2. CASE v # destDir
        <5>1. tarball'[v] = tarball[v]  BY <1>2, <1>3, <4>2
        <5>2. tarball[v] \notin {Absent, Torn}  BY <3>6, <5>1
        <5> QED  BY <3>1, <5>1, <5>2, Zenon DEF Saved
      <4> QED  BY <4>1, <4>2
    <3>7. Saved'
      BY <2>3, <3>3, <3>5, <3>6 DEF Saved, AfterDestDir
    <3> QED  BY <3>2, <3>7
  <2> QED  BY <2>2, <2>4, <2>5, <2>6, <2>7 DEF RInv
<1>4. CASE tarball' = [tarball EXCEPT ![destDir] = Torn] /\ End
  <2>1. tarball' \in Tars /\ TarballsKept  BY <1>2, <1>4 DEF TarballsKept
  <2> QED  BY <1>1, <1>2, <1>4, <2>1, EndAlone
<1> QED  BY <1>3, <1>4 DEF Pack

\* dest_dir is removed.
LEMMA RemoveDestDirStep ==
  ASSUME RInv, RemoveDestDir
  PROVE  RInv'
<1>1. /\ rpc = "rm" /\ pc[Child] = "idle" /\ UnchangedBs /\ UNCHANGED tarball
  BY ChildIdle DEF RemoveDestDir
<1>2. CASE End /\ UNCHANGED dest  BY <1>1, <1>2, EndQuietly
<1>3. CASE dest' = [dest EXCEPT ![destDir] = Absent] /\ To("success") /\ KeepTmpd
  <2>1. BInv' /\ OneChild'
    BY <1>1, <1>3, KeepBInv, OneChildKept DEF KeepTmpd
  <2>2. /\ rpc' = "success" /\ args' = args /\ destDir' = destDir
        /\ UNCHANGED <<tmpd, bin, result>>
    BY <1>3 DEF To, KeepTmpd
  <2>3. ScriptOK'
    BY <1>1, <1>3, <2>2 DEF RInv, ScriptOK, RLabel, AfterDestDir
  <2>4. Verified'
    BY <1>1, <2>2 DEF RInv, Verified, AfterRo0, AfterRo1, RLabel
  <2>5. InTmpd'  BY <1>1, <2>2 DEF RInv, InTmpd
  <2>6. ASSUME ~SignerLies PROVE Stage' /\ Saved'
    <3>1. Stage /\ Saved  BY <2>6 DEF RInv
    <3>2. Stage'
      BY <1>1, <2>2, <3>1 DEF Stage, AfterRo0, AfterRo1, RLabel
    <3>3. Saved'
      BY <1>1, <2>2, <3>1 DEF Saved, AfterDestDir
    <3> QED  BY <3>2, <3>3
  <2> QED  BY <2>1, <2>3, <2>4, <2>5, <2>6 DEF RInv
<1> QED  BY <1>2, <1>3 DEF RemoveDestDir

\* It is done.
LEMMA FinishStep ==
  ASSUME RInv, Finish
  PROVE  RInv'
  BY ChildIdle, EndQuietly DEF Finish

\* The trap removes TMPD, and the script goes on without it.
LEMMA TerminateStep ==
  ASSUME RInv, Terminate
  PROVE  RInv'
<1>1. /\ DropTmpd /\ UnchangedBs /\ pc[Child] = "idle"
      /\ UNCHANGED <<rpc, args, destDir, dest, tarball>>
  BY ChildIdle DEF Terminate
<1>2. /\ tmpd' = FALSE /\ bin' = [i \in 0..1 |-> Absent]
      /\ result' = [result EXCEPT ![Release] = Absent]
      /\ tmp' = [tmp EXCEPT ![Release] = Absent]
  BY <1>1 DEF DropTmpd
<1>3. Absent \in GoodFile  BY DEF GoodFile
<1>4. BInv' /\ result'[Release] = Absent  BY <1>1, <1>2, <1>3, ScriptBInv
<1>5. OneChild'  BY <1>1, OneChildKept
<1>6. ScriptOK'  BY <1>1, <1>2 DEF RInv, ScriptOK
<1>7. Verified'  BY <1>1 DEF RInv, Verified
<1>8. InTmpd' /\ Stage'  BY <1>2, <1>4 DEF InTmpd, Stage
<1>9. ~SignerLies => Saved'  BY <1>1 DEF RInv, Saved
<1> QED  BY <1>4, <1>5, <1>6, <1>7, <1>8, <1>9 DEF RInv

\* The script and its bs are killed.
LEMMA KillAllStep ==
  ASSUME RInv, KillAll
  PROVE  RInv'
<1>1. /\ End /\ Die(Child) /\ UNCHANGED <<blob, dest, tarball>>
      /\ BInv /\ FilesGood /\ ControlOK /\ OneChild /\ Child \in Proc
  BY ReleaseAssumption DEF KillAll, RInv, BInv
<1>2. /\ tmp' = [tmp EXCEPT ![Release] = Absent]
      /\ result' = [result EXCEPT ![Release] = Absent]
  BY <1>1 DEF End, DropTmpd
<1>3. tmp' \in [Path -> GoodFile] /\ result' \in [Path -> GoodFile]
  BY <1>1, <1>2 DEF FilesGood, GoodFile
<1>4. ASSUME NEW q \in Proc \ {Child}, pc[q] # "idle"
      PROVE  /\ tmp'[cmd[q].path] = tmp[cmd[q].path]
             /\ result'[cmd[q].path] = result[cmd[q].path]
  <2>1. cmd[q].path # Release /\ cmd[q].path \in Path
    BY <1>1, <1>4, CommandFields DEF OneChild, ControlOK
  <2> QED  BY <1>1, <1>2, <2>1 DEF FilesGood
<1>5. BInv'  BY <1>1, <1>3, <1>4, DieBInv
<1>6. /\ pc'[Child] = "idle"
      /\ \A q \in Proc \ {Child} : pc'[q] = pc[q] /\ cmd'[q] = cmd[q]
  BY <1>1 DEF Die, Forget, Goto, ControlOK
<1>7. OneChild'  BY <1>1, <1>6 DEF OneChild
<1>8. /\ TarballsKept
      /\ dest' \in [Version -> {Absent} \cup [bin : GoodFile]]
      /\ tarball' \in [Version -> {Absent, Torn} \cup [bin : GoodFile]]
  BY <1>1 DEF TarballsKept, RInv, ScriptOK
<1> QED  BY <1>1, <1>5, <1>6, <1>7, <1>8, EndStep

\* The invariant is inductive.
LEMMA NextRInv == RInv /\ [ReleaseNext]_allVars => RInv'
<1> SUFFICES ASSUME RInv, [ReleaseNext]_allVars PROVE RInv'  OBVIOUS
<1>1. CASE \E a \in Argument : Call(a)  BY <1>1, CallStep
<1>2. CASE ScriptStep
  BY <1>2, BlankStep, PrepareStep, CallBsStep, ReturnStep, PasteStep,
     MakeDestDirStep, SaveStep, PackStep, RemoveDestDirStep, FinishStep
     DEF ScriptStep
<1>3. CASE Terminate  BY <1>3, TerminateStep
<1>4. CASE KillAll  BY <1>4, KillAllStep
<1>5. CASE (\E p \in Proc : StepOf(p)) /\ UNCHANGED releaseVars
  BY <1>5, BsStep
<1>6. CASE /\ \E p \in Proc \ {Child}, c \in Command :
                c.path # Release /\ MayStart(c) /\ Start(p, c)
           /\ UNCHANGED releaseVars
  BY <1>6, OtherStart
<1>7. CASE UNCHANGED allVars
  <2>1. UNCHANGED bsVars /\ UNCHANGED releaseVars  BY <1>7 DEF allVars
  <2>2. UnchangedBs /\ tmp' = tmp /\ result' = result /\ rpc' = rpc /\ args' = args
    BY <2>1 DEF bsVars, releaseVars, UnchangedBs
  <2>3. BInv' /\ OneChild'  BY <2>2, KeepBInv, OneChildKept
  <2>4. Spared(Child)  BY <2>2 DEF UnchangedBs, runVars, Spared
  <2>5. ~SignerLies => Stage'  BY <2>1, <2>2, <2>4, StageKept DEF RInv
  <2>6. InTmpd'  BY <2>1, <2>2 DEF RInv, InTmpd, releaseVars
  <2> QED  BY <2>1, <2>3, <2>5, <2>6, ScriptKept DEF RInv
<1> QED
  BY <1>1, <1>2, <1>3, <1>4, <1>5, <1>6, <1>7 DEF ReleaseNext, StepOf

----------------------------------------------------------------------------
(* What the invariant says.                                                *)

\* It holds the types.
LEMMA RInvTypes == RInv => ReleaseTypeOK
  BY BInvTypes DEF RInv, ScriptOK, ReleaseTypeOK

\* It holds that the image printed is the one asked for.
LEMMA RInvReleased == ~SignerLies /\ RInv => ReleasedIsRequested
<1> SUFFICES ASSUME ~SignerLies, RInv, rpc = "success"
             PROVE  /\ destDir = VersionAsked(args)
                    /\ tarball[VersionAsked(args)] = [bin |-> Requested(args)]
  BY DEF ReleasedIsRequested, VersionAsked
<1> QED  BY DEF RInv, Saved, AfterDestDir

\* Each RW in the image asked for is whole, signed with the prod key.
LEMMA RequestedIsProd ==
  ASSUME NEW a \in Argument, NEW i \in 0..1
  PROVE  LET image == Requested(a)
             signed == image[RwAt[i] + 1][1]
         IN /\ IsRw(image[RwAt[i] + 1])
            /\ signed.prodKey /\ Holds(image, RwAt[i], ImageOf(signed))
<1> DEFINE c == BsCommand(a)
           signed == SignedBy(c.elves[i], WantedManifest(c), c.prod)
           part == WantedImage(c, i)
           image == Requested(a)
<1>1. c \in Command /\ c.prod = TRUE  BY BsCommandIsOne
<1>2. Holds(image, RwAt[i], part)  BY RequestedBlocks
<1>3. /\ signed \in Signed /\ signed.prodKey = c.prod
      /\ Blocks[c.elves[i]] \in Nat \ {0}
      /\ part = [k \in 1..Blocks[c.elves[i]] |-> <<signed, k>>]
      /\ part = ImageOf(signed)
  BY <1>1, WantedBlocks
<1> HIDE DEF c, signed, part, image
<1>4. 1 \in DOMAIN part /\ part[1] = <<signed, 1>>  BY <1>3
<1>5. image[RwAt[i] + 1] = <<signed, 1>>  BY <1>2, <1>4 DEF Holds
<1>6. image[RwAt[i] + 1][1] = signed  BY <1>5
<1>7. IsRw(image[RwAt[i] + 1])  BY <1>3, <1>5 DEF IsRw
<1> QED  BY <1>1, <1>2, <1>3, <1>6, <1>7 DEF image

\* It holds that every whole tarball is one to release.
LEMMA RInvTarballs == ~SignerLies /\ RInv => TarballsCanBeReleased
<1> SUFFICES ASSUME ~SignerLies, RInv, NEW v \in Version,
                    tarball[v] \notin {Absent, Torn}
             PROVE  LET image == tarball[v].bin IN
                    /\ image # Absent /\ Len(image) = Size
                    /\ {image[1], image[RoBAt + 1]} \subseteq ProdRo
                    /\ \A i \in 0..1 :
                         /\ IsRw(image[RwAt[i] + 1])
                         /\ LET signed == image[RwAt[i] + 1][1] IN
                            signed.prodKey /\ Holds(image, RwAt[i], ImageOf(signed))
                    /\ v = VersionIn(image)
  BY Zenon DEF TarballsCanBeReleased
<1>1. PICK a \in Argument : /\ {a.a, a.b} \subseteq ProdRo
                            /\ v = VersionAsked(a)
                            /\ tarball[v] = [bin |-> Requested(a)]
  BY Zenon DEF RInv, Saved
<1>2. tarball[v].bin = Requested(a)  BY <1>1
<1>3. /\ Requested(a) \in Seq(Block) /\ Len(Requested(a)) = Size
      /\ Requested(a)[1] = a.a /\ Requested(a)[RoBAt + 1] = a.b
  BY RequestedBlocks
<1>4. Requested(a) # Absent  BY <1>3, FirstAssumption
<1>5. VersionIn(Requested(a)) = v  BY <1>1, VersionOfRequested
<1>6. \A i \in 0..1 :
        /\ IsRw(Requested(a)[RwAt[i] + 1])
        /\ Requested(a)[RwAt[i] + 1][1].prodKey
        /\ Holds(Requested(a), RwAt[i], ImageOf(Requested(a)[RwAt[i] + 1][1]))
  BY RequestedIsProd
<1>7. {Requested(a)[1], Requested(a)[RoBAt + 1]} \subseteq ProdRo  BY <1>1, <1>3
<1> QED  BY <1>2, <1>3, <1>4, <1>5, <1>6, <1>7

----------------------------------------------------------------------------
(* bs replaces the full images as FlashImage says.                         *)

\* What FlashImage sees of the script.
SeenImage == [f \in Images |-> result[f]]
SeenStatus == [p \in Proc |-> StatusOf(p)]

\* Only one run's progress is seen in its step.
LEMMA SeenOthers ==
  ASSUME NEW p \in Proc, \A q \in Proc \ {p} : Spared(q)
  PROVE  SeenStatus' = [SeenStatus EXCEPT ![p] = StatusOf(p)']
<1>1. \A q \in Proc \ {p} : StatusOf(q)' = StatusOf(q)
  BY DEF Spared, StatusOf
<1>2. SeenStatus' = [q \in Proc |-> StatusOf(q)']  BY DEF SeenStatus
<1>3. SeenStatus = [q \in Proc |-> StatusOf(q)]  BY DEF SeenStatus
<1> HIDE DEF SeenStatus
<1> QED  BY <1>1, <1>2, <1>3

\* The updated image is the same in both specifications.
LEMMA SameUpdate == \A file, c : Flash!Updated(file, c) = Updated(file, c)
  BY DEF Flash!Updated, Flash!Paste, Flash!Longest, Flash!WantedImage, Flash!ImageOf,
     Flash!SignedBy, Flash!WantedManifest,
     Updated, Paste, Longest, WantedImage, ImageOf, SignedBy, WantedManifest

\* A step of bs is one of FlashImage, or unseen.
LEMMA BsStepSeen ==
  ASSUME ~SignerLies, RInv, NEW p \in Proc, StepOf(p)
  PROVE  Flash!Next \/ UNCHANGED <<SeenImage, SeenStatus, cmd>>
<1>1. /\ ControlOK /\ FilesGood /\ Settled(p) /\ Done(p)
      /\ cmd[p] \in Command /\ cmd[p].path \in Path
  BY CommandFields DEF RInv, BInv, ControlOK
<1>2. Shape(p)  BY <1>1, StepShape
<1>3. SeenStatus' = [SeenStatus EXCEPT ![p] = StatusOf(p)']
  BY <1>1, StepSparesOthers, SeenOthers
<1>4. SeenStatus[p] = StatusOf(p)  BY DEF SeenStatus
<1>5. result' = result => SeenImage' = SeenImage  BY DEF SeenImage
<1>6. StatusOf(p)' = StatusOf(p) => SeenStatus' = SeenStatus
  BY <1>3 DEF SeenStatus
<1>7. CASE Working(p) /\ Working(p)' /\ Unseen
  BY <1>5, <1>6, <1>7 DEF Working, Unseen, StatusOf
<1>8. CASE /\ pc[p] = "mv" /\ pc'[p] = "echo" /\ cmd' = cmd
           /\ result' = [result EXCEPT ![cmd[p].path] = tmp[cmd[p].path]]
  <2>1. /\ ~cmd[p].hex /\ StatusOf(p) = "working"
        /\ tmp[cmd[p].path] = Updated(result[cmd[p].path], cmd[p])
    BY <1>1, <1>8 DEF Settled, Done, Pasting, StatusOf
  <2>2. CASE cmd[p].path = Release
    <3>1. SeenImage' = SeenImage
      BY <1>1, <1>8, <2>2 DEF SeenImage, Images, FilesGood
    <3>2. StatusOf(p)' = "working"  BY <1>8, <2>2 DEF StatusOf
    <3> QED  BY <1>6, <1>8, <2>1, <3>1, <3>2
  <2>3. CASE cmd[p].path # Release
    <3>1. cmd[p].path \in Images  BY <1>1, <2>3 DEF Images
    <3>2. StatusOf(p)' = "installed"  BY <1>8, <2>1, <2>3 DEF StatusOf
    <3>3. SeenImage' = [SeenImage EXCEPT ![cmd[p].path] =
                          Updated(SeenImage[cmd[p].path], cmd[p])]
      BY <1>1, <1>8, <2>1, <3>1 DEF SeenImage, Images, FilesGood
    <3>4. Flash!Install(p)
      BY <1>3, <1>4, <1>8, <2>1, <3>1, <3>2, <3>3, SameUpdate
         DEF Flash!Install, Flash!Updates, SeenImage, SeenStatus
    <3> QED  BY <3>4 DEF Flash!Next
  <2> QED  BY <2>2, <2>3
<1>9. CASE Working(p) /\ pc'[p] = "echo" /\ cmd[p].hex /\ Unseen
  BY <1>5, <1>6, <1>9 DEF Working, Unseen, StatusOf
<1>10. CASE pc[p] = "echo" /\ pc'[p] = "exit" /\ outcome'[p] = "success" /\ Unseen
  <2>1. StatusOf(p)' = "success"  BY <1>10 DEF StatusOf
  <2>2. \/ StatusOf(p) = "installed"
        \/ StatusOf(p) = "working" /\ (cmd[p].hex \/ cmd[p].path \notin Images)
    BY <1>10 DEF StatusOf, Images
  <2>3. Flash!Succeed(p)
    BY <1>3, <1>4, <1>5, <1>10, <2>1, <2>2
       DEF Flash!Succeed, Flash!Updates, SeenImage, SeenStatus, Unseen
  <2> QED  BY <2>3 DEF Flash!Next
<1>11. CASE /\ pc[p] \notin {"idle", "exit"} /\ pc'[p] = "exit"
            /\ outcome'[p] # "success" /\ Unseen
  <2>1. StatusOf(p)' = "fail" /\ StatusOf(p) \in {"working", "installed"}
    BY <1>11 DEF StatusOf
  <2>2. Flash!GiveUp(p)
    BY <1>3, <1>4, <1>5, <1>11, <2>1
       DEF Flash!GiveUp, SeenImage, SeenStatus, Unseen
  <2> QED  BY <2>2 DEF Flash!Next
<1>12. CASE /\ pc[p] # "idle" /\ pc'[p] = "idle" /\ result' = result
            /\ cmd' = [cmd EXCEPT ![p] = AnyCommand]
  <2>1. StatusOf(p)' = "idle" /\ StatusOf(p) # "idle"  BY <1>12 DEF StatusOf
  <2>2. Flash!Leave(p)
    BY <1>3, <1>4, <1>5, <1>12, <2>1, AnyCommandIsOne
       DEF Flash!Leave, SeenImage, SeenStatus
  <2> QED  BY <2>2 DEF Flash!Next
<1> QED  BY <1>2, <1>7, <1>8, <1>9, <1>10, <1>11, <1>12 DEF Shape

\* A call of bs is a request.
LEMMA StartSeen ==
  ASSUME ControlOK, NEW p \in Proc, NEW c \in Command, Start(p, c)
  PROVE  Flash!Next
<1>1. \A q \in Proc \ {p} : Spared(q)
  BY DEF Start, Goto, Spared, ControlOK
<1>2. SeenStatus' = [SeenStatus EXCEPT ![p] = StatusOf(p)']  BY <1>1, SeenOthers
<1>3. StatusOf(p) = "idle" /\ StatusOf(p)' = "working"
  BY DEF Start, Goto, StatusOf, ControlOK
<1>4. cmd' = [cmd EXCEPT ![p] = c] /\ SeenImage' = SeenImage
  BY DEF Start, SeenImage
<1>5. Flash!Ask(p, c)
  BY <1>2, <1>3, <1>4 DEF Flash!Ask, SeenImage, SeenStatus
<1> QED  BY <1>5 DEF Flash!Next

\* What the script does to release.bin is unseen.
LEMMA ScriptUnseen ==
  ASSUME FilesGood, UnchangedBs,
         \/ result' = result
         \/ \E x : result' = [result EXCEPT ![Release] = x]
  PROVE  UNCHANGED <<SeenImage, SeenStatus, cmd>>
<1>1. pc' = pc /\ cmd' = cmd /\ outcome' = outcome  BY DEF UnchangedBs, runVars
<1>2. \A f \in Images : result'[f] = result[f]  BY DEF Images, FilesGood
<1> QED  BY <1>1, <1>2 DEF SeenImage, SeenStatus, StatusOf

\* The script replaces no full image but release.bin.
LEMMA ScriptResult ==
  ASSUME \/ \E a \in Argument : Call(a)
         \/ ScriptStep /\ ~CallBs
         \/ Terminate
  PROVE  /\ UnchangedBs
         /\ \/ result' = result
            \/ \E x : result' = [result EXCEPT ![Release] = x]
<1>1. CASE End \/ DropTmpd \/ KeepTmpd
  <2>1. \/ result' = result
        \/ \E x : result' = [result EXCEPT ![Release] = x]
    BY <1>1 DEF End, DropTmpd, KeepTmpd
  <2>2. UnchangedBs
    BY DEF Call, ScriptStep, Terminate, Blank, PrepareRo0, PrepareRo1, PrepareRo,
       ReturnFromBs, PasteRo0, PasteRo1, PasteRo, MakeDestDir, Save, Pack,
       RemoveDestDir, Finish
  <2> QED  BY <2>1, <2>2
<1>2. CASE ~End /\ ~DropTmpd /\ ~KeepTmpd
  <2>1. CASE \E a \in Argument : Call(a)  BY <2>1 DEF Call
  <2>2. CASE Blank  BY <1>2, <2>2 DEF Blank
  <2>3. CASE PrepareRo0 \/ PrepareRo1
    BY <1>2, <2>3 DEF PrepareRo0, PrepareRo1, PrepareRo
  <2>4. CASE PasteRo0 \/ PasteRo1
    BY <1>2, <2>4 DEF PasteRo0, PasteRo1, PasteRo
  <2>5. ~ReturnFromBs /\ ~MakeDestDir /\ ~Save /\ ~Pack /\ ~RemoveDestDir /\ ~Finish
        /\ ~Terminate
    BY <1>2 DEF ReturnFromBs, MakeDestDir, Save, Pack, RemoveDestDir, Finish, Terminate
  <2> QED  BY <2>1, <2>2, <2>3, <2>4, <2>5 DEF ScriptStep
<1> QED  BY <1>1, <1>2

\* To kill the script and its bs is to let the request go, if there is one.
LEMMA KillAllSeen ==
  ASSUME RInv, KillAll
  PROVE  Flash!Next \/ UNCHANGED <<SeenImage, SeenStatus, cmd>>
<1>1. /\ Die(Child) /\ result' = [result EXCEPT ![Release] = Absent]
      /\ ControlOK /\ FilesGood /\ Settled(Child) /\ Child \in Proc
  BY ReleaseAssumption DEF KillAll, End, DropTmpd, RInv, BInv
<1>2. SeenImage' = SeenImage
  <2>1. \A f \in Images : result'[f] = result[f]
    BY <1>1 DEF Images, FilesGood
  <2> QED  BY <2>1 DEF SeenImage
<1>3. /\ pc' = [pc EXCEPT ![Child] = "idle"]
      /\ cmd' = [cmd EXCEPT ![Child] = AnyCommand]
      /\ \A q \in Proc \ {Child} : Spared(q)
  BY <1>1 DEF Die, Forget, Goto, Report, Spared, ControlOK
<1>4. SeenStatus' = [SeenStatus EXCEPT ![Child] = StatusOf(Child)']
  BY <1>1, <1>3, SeenOthers
<1>5. StatusOf(Child)' = "idle"  BY <1>1, <1>3 DEF StatusOf, ControlOK
<1>6. CASE pc[Child] = "idle"
  <2>1. cmd' = cmd  BY <1>1, <1>3, <1>6 DEF Settled, ControlOK
  <2>2. SeenStatus' = SeenStatus  BY <1>4, <1>5, <1>6 DEF SeenStatus, StatusOf
  <2> QED  BY <1>2, <2>1, <2>2
<1>7. CASE pc[Child] # "idle"
  <2>1. SeenStatus[Child] # "idle"  BY <1>1, <1>7 DEF SeenStatus, StatusOf
  <2>2. Flash!Leave(Child)
    BY <1>2, <1>3, <1>4, <1>5, <2>1, AnyCommandIsOne
       DEF Flash!Leave, SeenImage, SeenStatus
  <2> QED  BY <1>1, <2>2 DEF Flash!Next
<1> QED  BY <1>6, <1>7

\* Every step is one of FlashImage, or unseen.
LEMMA StepSeen ==
  ASSUME ~SignerLies, RInv, [ReleaseNext]_allVars
  PROVE  [Flash!Next]_Flash!vars
<1> SUFFICES Flash!Next \/ UNCHANGED <<SeenImage, SeenStatus, cmd>>
  BY DEF Flash!vars, SeenImage, SeenStatus
<1>1. ControlOK /\ FilesGood  BY DEF RInv, BInv
<1>2. CASE (\E a \in Argument : Call(a)) \/ (ScriptStep /\ ~CallBs) \/ Terminate
  BY <1>1, <1>2, ScriptResult, ScriptUnseen
<1>3. CASE CallBs
  <2>1. args \in Argument  BY DEF RInv, ScriptOK
  <2> QED  BY <1>1, <1>3, <2>1, StartSeen, BsCommandIsOne, ReleaseAssumption DEF CallBs
<1>4. CASE KillAll  BY <1>4, KillAllSeen
<1>5. CASE \E p \in Proc : StepOf(p)  BY <1>5, BsStepSeen
<1>6. CASE \E p \in Proc \ {Child}, c \in Command : Start(p, c)
  BY <1>1, <1>6, StartSeen
<1>7. CASE UNCHANGED allVars
  BY <1>7 DEF allVars, bsVars, runVars, SeenImage, SeenStatus, StatusOf
<1> QED
  BY <1>2, <1>3, <1>4, <1>5, <1>6, <1>7 DEF ReleaseNext, StepOf, ScriptStep

----------------------------------------------------------------------------
\* The invariant holds of every run of the two scripts.
THEOREM ReleaseInductive == ReleaseSpec => []RInv
  BY InitRInv, NextRInv, PTL DEF ReleaseSpec

\* The variables of both scripts hold what they are meant to.
THEOREM ReleaseTypeCorrect == ReleaseSpec => []ReleaseTypeOK
  BY ReleaseInductive, RInvTypes, PTL

\* Also with the release script in the tree, no debug image and no image for
\* single chips is ever signed with the prod key (bs:40, bs:77).
THEOREM ReleasedProdImages == ReleaseSpec => []ProdImagesAreProd
<1>1. RInv => ProdImagesAreProd  BY BInvProd DEF RInv
<1> QED  BY <1>1, ReleaseInductive, PTL

\* Also then a bs that prints SUCCESS has pasted both images (bs:23), as long as
\* the signer's exit status can be believed.
THEOREM ReleaseSuccessIsPasted ==
  ASSUME ~SignerLies  PROVE ReleaseSpec => []SuccessMeansPasted
<1>1. RInv => SuccessMeansPasted  BY BInvSuccess, ReleaseFits DEF RInv
<1> QED  BY <1>1, ReleaseInductive, PTL

\* When the script prints SUCCESS and the commands to go on with
\* (create_released_image.sh:228), the tarball named after the versions holds the
\* image its command line asked for, as long as the signer does not lie.
THEOREM ReleasedIsAsked ==
  ASSUME ~SignerLies  PROVE ReleaseSpec => []ReleasedIsRequested
<1>1. RInv => ReleasedIsRequested  BY RInvReleased
<1> QED  BY <1>1, ReleaseInductive, PTL

\* Whatever was killed or failed on the way, a whole tarball under a version holds
\* prod ROs and prod RWs of that version, as long as the signer does not lie.
THEOREM TarballsAreReleases ==
  ASSUME ~SignerLies  PROVE ReleaseSpec => []TarballsCanBeReleased
<1>1. RInv => TarballsCanBeReleased  BY RInvTarballs
<1> QED  BY <1>1, ReleaseInductive, PTL

\* bs replaces each full image in one step by both RWs of one request, or leaves
\* it alone, and says SUCCESS only after that (bs:220), as long as the signer
\* does not lie.
THEOREM ReleaseImplementsFlashImage ==
  ASSUME ~SignerLies  PROVE ReleaseSpec => ImplementsFlashImage
<1>1. ReleaseInit => SeenStatus = [p \in Proc |-> "idle"]
  BY DEF ReleaseInit, Init, SeenStatus, StatusOf
<1>2. RInv /\ [ReleaseNext]_allVars => [Flash!Next]_Flash!vars  BY StepSeen
<1> QED
  BY <1>1, <1>2, ReleaseInductive, PTL
     DEF ReleaseSpec, ImplementsFlashImage, Flash!Spec, SeenStatus

=============================================================================
