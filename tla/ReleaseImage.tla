---------------------------- MODULE ReleaseImage ----------------------------
(***************************************************************************)
(* The script util/signer/create_released_image.sh, which puts two prod    *)
(* ROs and two RWs signed by bs together to a full image, and packs it in  *)
(* a tarball named after the versions it finds in that image.              *)
(*                                                                         *)
(* Runs of the script follow one another.  Each works in a directory TMPD  *)
(* of its own, which is removed when it ends, and leaves dest_dir and the  *)
(* tarball behind.  Its bs is the process Child of BinarySigner; beside it *)
(* the other processes of that module use bs directly.                     *)
(***************************************************************************)
EXTENDS BinarySigner

CONSTANTS
  Child,      \* the bs that the script calls
  Release,    \* ${TMPD}/release.bin of the run in progress
  Ro,         \* RO images; each fills one block
  ProdRo,     \* those whose key byte has bit D2
  RoBAt,      \* the block at which the second RO starts, 262144
  Size,       \* blocks in IMAGE_SIZE
  Erased,     \* a block of 0xff
  VersionOf,  \* VersionOf[x]: the version of an RO or an RW ELF file
  BoardRead,  \* the signer takes the board ID from the manifest
  Argument,   \* command lines: the ROs .a and .b, .elves, .devids and .board
  Torn        \* a tarball that was not written to its end

\* The command line of bs.  H1_DEVIDS is inherited.
BsCommand(a) ==
  [kind |-> "sign", prod |-> TRUE, b1 |-> FALSE, hex |-> FALSE,
   elves |-> a.elves, devids |-> a.devids, board |-> a.board, path |-> Release]

ASSUME ReleaseAssumption ==
  /\ BoardRead \in BOOLEAN /\ RoBAt \in Nat /\ Size \in Nat
  /\ Child \in Proc /\ Release \in Path /\ ProdRo \subseteq Ro
  /\ First[Release] = Absent /\ Ro \cup {Erased} \subseteq Unsigned
  /\ Argument # {}
  /\ \A a \in Argument : {a.a, a.b} \subseteq Ro /\ BsCommand(a) \in Command
\* Every image fits its place.  The script does not look at their sizes.
ASSUME FitAssumption ==
  \A e \in Elf : /\ 1 <= RwAt[0] /\ RwAt[0] + Blocks[e] <= RoBAt
                 /\ RoBAt + 1 <= RwAt[1] /\ RwAt[1] + Blocks[e] <= Size

VARIABLES
  rpc,        \* the command the script is about to run
  args,       \* its command line
  tmpd,       \* TMPD is there
  bin,        \* bin[i]: ${TMPD}/i.bin
  destDir,    \* the version in dest_dir, or Absent
  dest,       \* dest[v]: the directory of version v, as [bin |-> its file]
  tarball     \* tarball[v]

releaseVars == <<rpc, args, tmpd, bin, destDir, dest, tarball>>
allVars == <<bsVars, releaseVars>>

RLabel == {"idle", "blank", "ro0", "ro1", "bs", "wait", "dd0", "dd1", "version",
           "cp", "tar", "rm", "success"}
Version == {<<VersionOf[r], VersionOf[e], b>> : r \in Ro, e \in Elf, b \in BOOLEAN}

\* What gsctool -b reads in an image: the first RO and the first RW.
HasVersion(file) ==
  /\ file # Absent
  /\ RwAt[0] < Len(file) /\ file[1] \in Ro /\ IsRw(file[RwAt[0] + 1])
VersionIn(file) ==
  LET rw == file[RwAt[0] + 1][1]
  IN <<VersionOf[file[1]], VersionOf[rw.elf], BoardRead /\ rw.manifest.board>>

\* rm -rf ${TMPD}
DropTmpd ==
  /\ tmpd' = FALSE
  /\ bin' = [i \in 0..1 |-> Absent]
  /\ tmp' = [tmp EXCEPT ![Release] = Absent]
  /\ result' = [result EXCEPT ![Release] = Absent]
KeepTmpd == UNCHANGED <<tmpd, bin, tmp, result>>

\* The script ends, by set -e or by exit, and its EXIT trap is run.
AnyArgument == CHOOSE a \in Argument : TRUE
End ==
  /\ rpc' = "idle"
  /\ args' = AnyArgument /\ destDir' = Absent
  /\ DropTmpd
To(label) == rpc' = label /\ UNCHANGED <<args, destDir>>
UnchangedBs == UNCHANGED <<pc, runVars, blob>>

----------------------------------------------------------------------------
\* mktemp, and the parameters.
Call(a) ==
  /\ rpc = "idle"
  /\ rpc' = "blank"
  /\ args' = a
  /\ tmpd' = TRUE
  /\ destDir' = Absent
  /\ UNCHANGED <<bin, tmp, result, dest, tarball>> /\ UnchangedBs

\* release.bin is made, and is IMAGE_SIZE bytes of 0xff.
Blank ==
  /\ rpc = "blank"
  /\ \/ /\ tmpd
        /\ result' = [result EXCEPT ![Release] = [n \in 1..Size |-> Erased]]
        /\ To("ro0")
        /\ UNCHANGED <<tmpd, bin, tmp>>
     \/ /\ ~tmpd \/ Faults
        /\ End
  /\ UNCHANGED <<dest, tarball>> /\ UnchangedBs

\* Mutant: verify_ro is called for the first RO only.
PrepareFirstRo(i, ro, next) ==
  /\ \/ /\ tmpd
        /\ i = 0 => ro \in ProdRo
        /\ bin' = [bin EXCEPT ![i] = ro]
        /\ To(next)
        /\ UNCHANGED <<tmpd, tmp, result>>
     \/ End
  /\ UNCHANGED <<dest, tarball>> /\ UnchangedBs

\* objcopy, and verify_ro for the type prod.
PrepareRo(i, ro, next) ==
  /\ \/ /\ tmpd /\ ro \in ProdRo
        /\ bin' = [bin EXCEPT ![i] = ro]
        /\ To(next)
        /\ UNCHANGED <<tmpd, tmp, result>>
     \/ /\ ~tmpd \/ ro \notin ProdRo \/ Faults
        /\ End
  /\ UNCHANGED <<dest, tarball>> /\ UnchangedBs
PrepareRo0 == rpc = "ro0" /\ PrepareRo(0, args.a, "ro1")
PrepareRo1 == rpc = "ro1" /\ PrepareRo(1, args.b, "bs")

\* bs prod elves ${rw_a} ${rw_b}
CallBs ==
  /\ rpc = "bs"
  /\ MayStart(BsCommand(args))
  /\ Start(Child, BsCommand(args))
  /\ To("wait")
  /\ UNCHANGED <<tmpd, bin, dest, tarball>>

\* The exit status of bs.
ReturnFromBs ==
  /\ rpc = "wait"
  /\ pc[Child] = "idle"
  /\ \/ outcome[Child] = "success" /\ To("dd0") /\ KeepTmpd
     \/ outcome[Child] # "success" /\ End
  /\ UNCHANGED <<dest, tarball>> /\ UnchangedBs

\* Mutant: the second dd is without conv=notrunc.
PasteRoTruncating(i, at, next) ==
  /\ \/ /\ bin[i] # Absent
        /\ result' = [result EXCEPT ![Release] =
                        IF i = 0 THEN Paste(@, at, <<bin[i]>>)
                                 ELSE PasteTruncating(@, at, <<bin[i]>>)]
        /\ To(next)
        /\ UNCHANGED <<tmpd, bin, tmp>>
     \/ bin[i] = Absent /\ End
  /\ UNCHANGED <<dest, tarball>> /\ UnchangedBs

\* dd if=${TMPD}/i.bin of=${RESULT_FILE} seek=at conv=notrunc
PasteRo(i, at, next) ==
  /\ \/ /\ bin[i] # Absent
        /\ result' = [result EXCEPT ![Release] = Paste(@, at, <<bin[i]>>)]
        /\ To(next)
        /\ UNCHANGED <<tmpd, bin, tmp>>
     \/ /\ bin[i] = Absent \/ Faults
        /\ End
  /\ UNCHANGED <<dest, tarball>> /\ UnchangedBs
PasteRo0 == rpc = "dd0" /\ PasteRo(0, 0, "dd1")
PasteRo1 == rpc = "dd1" /\ PasteRo(1, RoBAt, "version")

\* gsctool tells the versions, and dest_dir is made unless there is one.
MakeDestDir ==
  LET v == VersionIn(result[Release]) IN
  /\ rpc = "version"
  /\ \/ /\ HasVersion(result[Release])
        /\ rpc' = "cp"
        /\ destDir' = v
        /\ UNCHANGED args
        /\ dest' = IF dest[v] = Absent
                   THEN [dest EXCEPT ![v] = [bin |-> Absent]] ELSE dest
        /\ KeepTmpd
     \/ /\ ~HasVersion(result[Release]) \/ Faults
        /\ End
        /\ UNCHANGED dest
  /\ UNCHANGED tarball /\ UnchangedBs

\* Mutant: without set -e, a failing cp is not noticed.
SaveUnchecked ==
  /\ rpc = "cp"
  /\ IF result[Release] # Absent
     THEN dest' = [dest EXCEPT ![destDir].bin = result[Release]]
     ELSE UNCHANGED dest
  /\ To("tar")
  /\ KeepTmpd
  /\ UNCHANGED tarball /\ UnchangedBs

\* cp ${RESULT_FILE} ${dest_dir}/cr50.bin.prod
Save ==
  /\ rpc = "cp"
  /\ \/ /\ result[Release] # Absent
        /\ dest' = [dest EXCEPT ![destDir].bin = result[Release]]
        /\ To("tar")
        /\ KeepTmpd
     \/ /\ result[Release] # Absent /\ Faults
        /\ \E part \in Torsos(result[Release]) :
             dest' = [dest EXCEPT ![destDir].bin = part]
        /\ End
     \/ /\ result[Release] = Absent
        /\ End
        /\ UNCHANGED dest
  /\ UNCHANGED tarball /\ UnchangedBs

\* tar jcf ${dest_dir}.tbz2 ${dest_dir}
Pack ==
  /\ rpc = "tar"
  /\ \/ /\ tarball' = [tarball EXCEPT ![destDir] = dest[destDir]]
        /\ To("rm")
        /\ KeepTmpd
     \/ /\ Faults
        /\ tarball' = [tarball EXCEPT ![destDir] = Torn]
        /\ End
  /\ UNCHANGED dest /\ UnchangedBs

\* rm -rf ${dest_dir}, and the messages that begin with SUCCESS.
RemoveDestDir ==
  /\ rpc = "rm"
  /\ \/ dest' = [dest EXCEPT ![destDir] = Absent] /\ To("success") /\ KeepTmpd
     \/ Faults /\ End /\ UNCHANGED dest
  /\ UNCHANGED tarball /\ UnchangedBs

Finish == rpc = "success" /\ End /\ UNCHANGED <<dest, tarball>> /\ UnchangedBs

\* SIGINT or SIGTERM: the trap removes TMPD and the script goes on.  bash runs
\* a trap when the command it is waiting for has ended.
Terminate ==
  /\ rpc # "idle" /\ (rpc = "wait" => pc[Child] = "idle")
  /\ DropTmpd
  /\ UNCHANGED <<rpc, args, destDir, dest, tarball>> /\ UnchangedBs

\* SIGKILL for the script and its bs, or the machine goes down.  TMPD stays, but
\* mktemp will not give it to another run.
KillAll ==
  /\ rpc # "idle"
  /\ End
  /\ Die(Child)
  /\ UNCHANGED <<blob, dest, tarball>>

----------------------------------------------------------------------------
ScriptStep ==
  \/ Blank \/ PrepareRo0 \/ PrepareRo1 \/ CallBs \/ ReturnFromBs
  \/ PasteRo0 \/ PasteRo1 \/ MakeDestDir \/ Save \/ Pack
  \/ RemoveDestDir \/ Finish

ReleaseInit ==
  /\ Init
  /\ rpc = "idle"
  /\ args = AnyArgument
  /\ tmpd = FALSE
  /\ bin = [i \in 0..1 |-> Absent]
  /\ destDir = Absent
  /\ dest = [v \in Version |-> Absent]
  /\ tarball = [v \in Version |-> Absent]

ReleaseNext ==
  \/ \E a \in Argument : Call(a)
  \/ ScriptStep \/ Terminate \/ KillAll
  \/ /\ \/ \E p \in Proc : Run(p) \/ Interrupt(p) \/ Kill(p)
        \/ \E p \in Proc \ {Child}, c \in Command :
             c.path # Release /\ MayStart(c) /\ Start(p, c)
     /\ UNCHANGED releaseVars

ReleaseSpec == ReleaseInit /\ [][ReleaseNext]_allVars

----------------------------------------------------------------------------
ReleaseTypeOK ==
  /\ TypeOK
  /\ rpc \in RLabel
  /\ args \in Argument
  /\ tmpd \in BOOLEAN
  /\ bin \in [0..1 -> ProdRo \cup {Absent}]
  /\ destDir \in Version \cup {Absent}

\* The full image that a command line asks for.
Requested(a) ==
  LET blank == [n \in 1..Size |-> Erased]
      signed == Updated(blank, BsCommand(a))
  IN Paste(Paste(signed, 0, <<a.a>>), RoBAt, <<a.b>>)

\* "the new image" of the commands printed after SUCCESS
\* (create_released_image.sh:228): the tarball named after the versions, and the
\* board ID if there is one in the image, of what was asked for holds the image
\* asked for, complete, whatever earlier runs left behind under the same name,
\* and whoever else runs bs in the tree.
ReleasedIsRequested ==
  rpc = "success" =>
    LET v == <<VersionOf[args.a], VersionOf[args.elves[0]],
               BoardRead /\ args.board = "good">>
    IN destDir = v /\ tarball[v] = [bin |-> Requested(args)]

\* A tarball that can be unpacked is one that can be released: also after a run
\* that failed or was killed it holds, under the name of their versions, ROs
\* with prod keys and whole RWs with the prod key, four of them.
TarballsCanBeReleased ==
  \A v \in Version : tarball[v] \notin {Absent, Torn} =>
    LET image == tarball[v].bin IN
    /\ image # Absent /\ Len(image) = Size
    /\ {image[1], image[RoBAt + 1]} \subseteq ProdRo
    /\ \A i \in 0..1 :
         /\ IsRw(image[RwAt[i] + 1])
         /\ LET signed == image[RwAt[i] + 1][1] IN
            signed.prodKey /\ Holds(image, RwAt[i], ImageOf(signed))
    /\ v = VersionIn(image)

\* bs promises to replace each full image in one step, by both RWs of one
\* request ("preserving it in case dd fails for whatever reason", bs:220), and
\* to say SUCCESS only after that.  release.bin, which the release script makes
\* and removes itself, is left out.
StatusOf(p) ==
  CASE pc[p] = "idle" -> "idle"
    [] pc[p] = "exit" -> IF outcome[p] = "success" THEN "success" ELSE "fail"
    [] pc[p] = "echo" /\ ~cmd[p].hex /\ cmd[p].path # Release -> "installed"
    [] OTHER -> "working"
Images == Path \ {Release}
Flash == INSTANCE FlashImage
           WITH Target <- Images,
                image <- [f \in Images |-> result[f]],
                status <- [p \in Proc |-> StatusOf(p)],
                request <- cmd
ImplementsFlashImage == Flash!Spec
=============================================================================
