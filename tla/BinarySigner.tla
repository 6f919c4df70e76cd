---------------------------- MODULE BinarySigner ----------------------------
(***************************************************************************)
(* The script util/signer/bs, which signs two ELF files with               *)
(* cr50-codesigner and pastes the two images into the full image of a      *)
(* chip.                                                                   *)
(*                                                                         *)
(* A run is a walk over the commands of the script; one action is one      *)
(* command that touches a file other runs may see: the signed files, which *)
(* every run in the source tree shares, the full image and the copy of it  *)
(* that is worked on.  (The copy of the manifest is named after the pid    *)
(* and belongs to one run.)  A run may fail at any command, be interrupted *)
(* (its EXIT trap is run) or be killed (it is not).                        *)
(***************************************************************************)
EXTENDS FlashLayout, FiniteSets

CONSTANTS
  Proc,         \* runs of bs, one after another in each process
  Awaited,      \* those whose exit status somebody looks at
  Command,      \* command lines and environments
  Debug,        \* the ELF files in which strings finds "DBG/cr50"
  Path,         \* what RESULT_FILE may be
  First,        \* First[f]: the full image at f to begin with
  Unsigned,     \* the blocks that no signer makes
  SignerLies,   \* the signer may exit with 0 although its output is not written
  Faults,       \* touch, cp, dd, rm and mv may fail
  Cuts,         \* by how many blocks a file may be short that cp or dd fails on
  MaxRuns,      \* bound on the runs of bs that sign
  Absent        \* a file that is not there

ASSUME BsAssumption ==
  /\ Debug \subseteq Elf /\ Awaited \subseteq Proc
  /\ {SignerLies, Faults} \subseteq BOOLEAN
  /\ Hole \in Unsigned
  /\ Cuts \subseteq Nat \ {0}
  /\ MaxRuns \in Nat

ASSUME CommandAssumption ==
  /\ Command # {}
  /\ \A c \in Command :
       /\ c.kind \in {"sign", "help", "usage"}
       /\ {c.prod, c.b1, c.hex, c.devids} \subseteq BOOLEAN
       /\ c.elves \in [0..1 -> Elf]
       /\ c.board \in {"none", "good", "bad"}
       /\ c.path \in Path

VARIABLES
  pc,         \* pc[p]: the command p is about to run
  cmd,        \* cmd[p]: its command line
  manifest,   \* manifest[p]: what ${tmpf} holds
  count,      \* count[p]: the variable of that name
  linked,     \* linked[p]: the file p's signer has open still has its name
  outcome,    \* outcome[p]: how p ended, or is about to
  runs,       \* how many runs were to sign
  blob,       \* blob[s][i]: the file i.s, s a dst_suffix
  tmp,        \* tmp[f]: TMP_RESULT_FILE
  result      \* result[f]: RESULT_FILE

runVars == <<cmd, manifest, count, linked, outcome, runs>>
bsVars == <<pc, runVars, blob, tmp, result>>

Suffix == {"flat", "signed.hex"}
SuffixOf(p) == IF cmd[p].hex THEN "signed.hex" ELSE "flat"
Output(p) == blob[SuffixOf(p)][count[p]]

Label == {"idle", "options", "check", "tweak", "elf", "touch", "sign", "write",
          "copy", "paste0", "paste1", "rm", "mv", "echo", "exit"}
Goto(p, label) == pc' = [pc EXCEPT ![p] = label]
Exit(p, how) == Goto(p, "exit") /\ outcome' = [outcome EXCEPT ![p] = how]
Fresh == [prod |-> FALSE, blk0 |-> 2, devids |-> FALSE, board |-> FALSE]
AnyCommand == CHOOSE c \in Command : TRUE
\* What a process knew is gone with it.
Forget(p) ==
  /\ Goto(p, "idle")
  /\ cmd' = [cmd EXCEPT ![p] = AnyCommand]
  /\ manifest' = [manifest EXCEPT ![p] = Fresh]
  /\ count' = [count EXCEPT ![p] = 0]
  /\ UNCHANGED runs
Report(p, how) ==
  outcome' = [outcome EXCEPT ![p] = IF p \in Awaited THEN how ELSE "none"]
Die(p) ==
  /\ Forget(p)
  /\ Report(p, "fail")
  /\ linked' = [linked EXCEPT ![p] = FALSE]
WriteOutput(p, blocks) ==
  blob' = [blob EXCEPT ![SuffixOf(p)][count[p]] = blocks]
Torsos(file) == {SubSeq(file, 1, Len(file) - n) : n \in Cuts \cap 1..Len(file)}

\* cr50_RW-prod.pem.pub or cr50_rom0-dev-blsign.pem.pub.
KeyOption(p) == cmd[p].prod
NewImage(p) ==
  ImageOf(SignedBy(cmd[p].elves[count[p]], manifest[p], KeyOption(p)))

\* rm -rf [01].flat: a signer that has one of them open goes on writing to a
\* file without a name.
NoFlats == [blob EXCEPT !["flat"] = [i \in 0..1 |-> Absent]]
StillLinked == [q \in Proc |-> linked[q] /\ cmd[q].hex]

----------------------------------------------------------------------------
(* Up to the loop over the ELF files.                                      *)

\* The script is started; the dev manifest is copied to ${tmpf}.
Start(p, c) ==
  /\ pc[p] = "idle"
  /\ Goto(p, "options")
  /\ cmd' = [cmd EXCEPT ![p] = c]
  /\ manifest' = [manifest EXCEPT ![p] = Fresh]
  /\ outcome' = [outcome EXCEPT ![p] = "none"]
  /\ runs' = IF c.kind = "sign" THEN runs + 1 ELSE runs
  /\ UNCHANGED <<count, linked, blob, tmp, result>>

\* No signer, no chroot, no manifest to copy: the script ends in the directory
\* it was called from, where the trap may find other files than in the source
\* tree, or none.
NotReady(p) ==
  /\ pc[p] = "options"
  /\ Faults
  /\ \/ Exit(p, "fail") /\ UNCHANGED <<runs, cmd, manifest, count, linked>>
     \/ Die(p)
  /\ UNCHANGED <<blob, tmp, result>>

\* The loop over the parameters.
ParseOptions(p) ==
  /\ pc[p] = "options"
  /\ \/ /\ cmd[p].kind = "sign"
        /\ manifest' = [manifest EXCEPT ![p].blk0 = IF cmd[p].b1 THEN 0 ELSE @]
        /\ Goto(p, "check")
        /\ UNCHANGED outcome
     \/ cmd[p].kind = "help" /\ Exit(p, "help") /\ UNCHANGED manifest
     \/ cmd[p].kind = "usage" /\ Exit(p, "fail") /\ UNCHANGED manifest
  /\ UNCHANGED <<runs, cmd, count, linked, blob, tmp, result>>

\* The full image must exist, and there are no prod images for B1.
CheckOptions(p) ==
  LET bad == \/ ~cmd[p].hex /\ result[cmd[p].path] = Absent
             \/ cmd[p].prod /\ cmd[p].b1
  IN /\ pc[p] = "check"
     /\ \/ ~bad /\ Goto(p, "tweak") /\ UNCHANGED outcome
        \/ bad /\ Exit(p, "fail")
     /\ UNCHANGED <<runs, cmd, manifest, count, linked, blob, tmp, result>>

\* The manifest is chosen, and completed by tweak_manifest.
TweakManifest(p) ==
  /\ pc[p] = "tweak"
  /\ LET chosen == IF cmd[p].prod
                   THEN [manifest[p] EXCEPT !.prod = TRUE, !.blk0 = 2]
                   ELSE manifest[p]
     IN manifest' = [manifest EXCEPT
                       ![p] = [chosen EXCEPT
                                 !.devids = cmd[p].devids /\ ~cmd[p].prod,
                                 !.board = cmd[p].board = "good"]]
  /\ \/ cmd[p].board # "bad" /\ Goto(p, "elf") /\ UNCHANGED outcome
     \/ cmd[p].board = "bad" /\ Exit(p, "fail")
  /\ UNCHANGED <<runs, cmd, count, linked, blob, tmp, result>>

----------------------------------------------------------------------------
(* The loop over the ELF files.                                            *)

\* Mutant: only the first ELF file is looked into.
CheckFirstElf(p) ==
  /\ pc[p] = "elf"
  /\ \/ /\ count[p] < 2
        /\ count[p] > 0 \/ ~(cmd[p].prod /\ cmd[p].elves[count[p]] \in Debug)
        /\ Goto(p, "touch")
        /\ UNCHANGED outcome
     \/ /\ count[p] = 0 /\ cmd[p].prod /\ cmd[p].elves[count[p]] \in Debug
        /\ Exit(p, "fail")
     \/ count[p] = 2 /\ cmd[p].hex /\ Goto(p, "echo") /\ UNCHANGED outcome
     \/ count[p] = 2 /\ ~cmd[p].hex /\ Goto(p, "copy") /\ UNCHANGED outcome
  /\ UNCHANGED <<runs, cmd, manifest, count, linked, blob, tmp, result>>

\* "Will not sign debug image with prod keys"; and the end of the loop.
CheckElf(p) ==
  LET debug == cmd[p].prod /\ cmd[p].elves[count[p]] \in Debug IN
  /\ pc[p] = "elf"
  /\ \/ count[p] < 2 /\ ~debug /\ Goto(p, "touch") /\ UNCHANGED outcome
     \/ count[p] < 2 /\ debug /\ Exit(p, "fail")
     \/ count[p] = 2 /\ cmd[p].hex /\ Goto(p, "echo") /\ UNCHANGED outcome
     \/ count[p] = 2 /\ ~cmd[p].hex /\ Goto(p, "copy") /\ UNCHANGED outcome
  /\ UNCHANGED <<runs, cmd, manifest, count, linked, blob, tmp, result>>

\* touch ${signed_file}: what an earlier run left in it stays.
Touch(p) ==
  /\ pc[p] = "touch"
  /\ \/ /\ Output(p) = Absent
        /\ WriteOutput(p, << >>)
        /\ Goto(p, "sign")
        /\ UNCHANGED outcome
     \/ Output(p) # Absent /\ Goto(p, "sign") /\ UNCHANGED <<blob, outcome>>
     \/ Faults /\ Exit(p, "fail") /\ UNCHANGED blob
  /\ UNCHANGED <<runs, cmd, manifest, count, linked, tmp, result>>

\* The next ELF file.
NextElf(p) == Goto(p, "elf") /\ count' = [count EXCEPT ![p] = @ + 1]

\* Mutant: the exit status of the signer is not looked at.
SignUnchecked(p) ==
  /\ pc[p] = "sign"
  /\ \/ /\ WriteOutput(p, << >>)
        /\ linked' = [linked EXCEPT ![p] = TRUE]
        /\ Goto(p, "write")
        /\ UNCHANGED count
     \/ NextElf(p) /\ UNCHANGED <<linked, blob>>
  /\ UNCHANGED <<runs, cmd, manifest, outcome, tmp, result>>

\* The signer runs up to the point where it opens its output.
Sign(p) ==
  /\ pc[p] = "sign"
  /\ \/ /\ WriteOutput(p, << >>)
        /\ linked' = [linked EXCEPT ![p] = TRUE]
        /\ Goto(p, "write")
        /\ UNCHANGED <<count, outcome>>
     \/ /\ \E lies \in {FALSE, SignerLies} :
             IF lies THEN NextElf(p) /\ UNCHANGED outcome
                     ELSE Exit(p, "fail") /\ UNCHANGED count
        /\ UNCHANGED <<linked, blob>>
  /\ UNCHANGED <<runs, cmd, manifest, tmp, result>>

\* The signer writes its output, and exits with 0.
SignerWrites(p) ==
  /\ pc[p] = "write"
  /\ \E blocks \in {NewImage(p)} \cup (IF SignerLies THEN Torsos(NewImage(p)) ELSE {}) :
       IF linked[p] THEN WriteOutput(p, blocks) ELSE UNCHANGED blob
  /\ linked' = [linked EXCEPT ![p] = FALSE]
  /\ NextElf(p)
  /\ UNCHANGED <<runs, cmd, manifest, outcome, tmp, result>>

----------------------------------------------------------------------------
(* "paste the newly signed blobs into the output image, preserving it in   *)
(* case dd fails for whatever reason."                                     *)

\* Mutant: no copy is made, the full image is moved away and back.
CopyMoves(p) ==
  LET f == cmd[p].path IN
  /\ pc[p] = "copy"
  /\ result[f] # Absent
  /\ tmp' = [tmp EXCEPT ![f] = result[f]]
  /\ result' = [result EXCEPT ![f] = Absent]
  /\ Goto(p, "paste0")
  /\ UNCHANGED <<runs, cmd, manifest, count, linked, outcome, blob>>

\* cp ${RESULT_FILE} ${TMP_RESULT_FILE}.
Copy(p) ==
  LET f == cmd[p].path IN
  /\ pc[p] = "copy"
  /\ \/ /\ result[f] # Absent
        /\ tmp' = [tmp EXCEPT ![f] = result[f]]
        /\ Goto(p, "paste0")
        /\ UNCHANGED outcome
     \/ /\ result[f] # Absent /\ Faults
        /\ \E part \in Torsos(result[f]) : tmp' = [tmp EXCEPT ![f] = part]
        /\ Exit(p, "fail")
     \/ result[f] = Absent /\ Exit(p, "fail") /\ UNCHANGED tmp
  /\ UNCHANGED <<runs, cmd, manifest, count, linked, blob, result>>

\* dd if=i.flat of=${TMP_RESULT_FILE} seek=RwAt[i] conv=notrunc.
Dd(p, i, next) ==
  LET f == cmd[p].path
      old == IF tmp[f] = Absent THEN << >> ELSE tmp[f]
      flat == blob["flat"][i]
  IN /\ \/ /\ flat # Absent
           /\ tmp' = [tmp EXCEPT ![f] = Paste(old, RwAt[i], flat)]
           /\ Goto(p, next)
           /\ UNCHANGED outcome
        \/ /\ flat # Absent /\ Faults
           /\ \E part \in Torsos(flat) :
                tmp' = [tmp EXCEPT ![f] = Paste(old, RwAt[i], part)]
           /\ Exit(p, "fail")
        \/ flat = Absent /\ Exit(p, "fail") /\ UNCHANGED tmp
     /\ UNCHANGED <<runs, cmd, manifest, count, linked, blob, result>>
Paste0(p) == pc[p] = "paste0" /\ Dd(p, 0, "paste1")
Paste1(p) == pc[p] = "paste1" /\ Dd(p, 1, "rm")

\* rm [01].flat, which fails when there is none.
RemoveFlats(p) ==
  LET any == \E i \in 0..1 : blob["flat"][i] # Absent IN
  /\ pc[p] = "rm"
  /\ \/ /\ any
        /\ blob' = NoFlats /\ linked' = StillLinked
        /\ Goto(p, "mv")
        /\ UNCHANGED outcome
     \/ /\ ~any \/ Faults
        /\ Exit(p, "fail")
        /\ UNCHANGED <<blob, linked>>
  /\ UNCHANGED <<runs, cmd, manifest, count, tmp, result>>

\* mv ${TMP_RESULT_FILE} ${RESULT_FILE}: one step, on one file system.
Move(p) ==
  LET f == cmd[p].path IN
  /\ pc[p] = "mv"
  /\ \/ /\ tmp[f] # Absent
        /\ result' = [result EXCEPT ![f] = tmp[f]]
        /\ tmp' = [tmp EXCEPT ![f] = Absent]
        /\ Goto(p, "echo")
        /\ UNCHANGED outcome
     \/ /\ tmp[f] = Absent \/ Faults
        /\ Exit(p, "fail")
        /\ UNCHANGED <<tmp, result>>
  /\ UNCHANGED <<runs, cmd, manifest, count, linked, blob>>

\* echo "SUCCESS!!!"
Echo(p) ==
  /\ pc[p] = "echo"
  /\ Exit(p, "success")
  /\ UNCHANGED <<runs, cmd, manifest, count, linked, blob, tmp, result>>

\* The EXIT trap: rm -rf [01].flat ${tmpf}, whoever's the files are.
ExitTrap(p) ==
  /\ pc[p] = "exit"
  /\ Forget(p)
  /\ Report(p, outcome[p])
  /\ blob' = NoFlats
  /\ linked' = [StillLinked EXCEPT ![p] = FALSE]
  /\ UNCHANGED <<tmp, result>>

----------------------------------------------------------------------------
(* The world around the script.                                            *)

\* SIGINT or SIGTERM, for the script and the command it is waiting for.
Interrupt(p) ==
  /\ pc[p] \notin {"idle", "exit"}
  /\ Exit(p, "fail")
  /\ UNCHANGED <<runs, cmd, manifest, count, linked, blob, tmp, result>>

\* SIGKILL, or the machine goes down: no trap is run.
Kill(p) ==
  /\ pc[p] # "idle"
  /\ Die(p)
  /\ UNCHANGED <<blob, tmp, result>>

\* Somebody signs in this tree already.
Busy == \E p \in Proc : pc[p] # "idle" /\ cmd[p].kind = "sign"
MayStart(c) == c.kind = "sign" => ~Busy /\ runs < MaxRuns

----------------------------------------------------------------------------
Run(p) ==
  \/ NotReady(p) \/ ParseOptions(p) \/ CheckOptions(p) \/ TweakManifest(p)
  \/ CheckElf(p) \/ Touch(p) \/ Sign(p) \/ SignerWrites(p)
  \/ Copy(p) \/ Paste0(p) \/ Paste1(p) \/ RemoveFlats(p) \/ Move(p) \/ Echo(p)
  \/ ExitTrap(p)

Init ==
  /\ pc = [p \in Proc |-> "idle"]
  /\ cmd = [p \in Proc |-> AnyCommand]
  /\ manifest = [p \in Proc |-> Fresh]
  /\ count = [p \in Proc |-> 0]
  /\ linked = [p \in Proc |-> FALSE]
  /\ outcome = [p \in Proc |-> "none"]
  /\ runs = 0
  /\ blob = [s \in Suffix |-> [i \in 0..1 |-> Absent]]
  /\ tmp = [f \in Path |-> Absent]
  /\ result = First

\* Any number of runs that only print their usage, or give up, may go on beside
\* the one that signs.
Next ==
  \E p \in Proc :
    \/ \E c \in Command : MayStart(c) /\ Start(p, c)
    \/ Run(p) \/ Interrupt(p) \/ Kill(p)

Spec == Init /\ [][Next]_bsVars

----------------------------------------------------------------------------
Manifest == [prod : BOOLEAN, blk0 : {0, 2}, devids : BOOLEAN, board : BOOLEAN]
Signed == [elf : Elf, manifest : Manifest, prodKey : BOOLEAN]
IsRw(b) == b \in Signed \X (Nat \ {0})

\* A file holds signed blocks and such as were there before.
Block == Unsigned \cup (Signed \X (Nat \ {0}))
File == {Absent} \cup Seq(Block)
\* The blocks that were there before are none of the signer's.
ASSUME FirstAssumption ==
  /\ First \in [Path -> {Absent} \cup Seq(Unsigned)]
  /\ \A b \in Unsigned : ~IsRw(b)
  /\ Absent \notin Seq(Block)

TypeOK ==
  /\ pc \in [Proc -> Label]
  /\ cmd \in [Proc -> Command]
  /\ manifest \in [Proc -> Manifest]
  /\ count \in [Proc -> 0..2]
  /\ linked \in [Proc -> BOOLEAN]
  /\ outcome \in [Proc -> {"none", "success", "fail", "help"}]
  /\ runs \in 0..MaxRuns
  /\ blob \in [Suffix -> [0..1 -> File]]
  /\ tmp \in [Path -> File]
  /\ result \in [Path -> File]

\* "places the newly signed images into build/cr50/ec.bin" (bs:23), and with
\* hex in 0.signed.hex and 1.signed.hex (bs:38): a run that prints SUCCESS has
\* both images of its own command, whole, where they belong.  What killed runs
\* have left behind, and what the traps of other runs take away, must not get
\* in between.
Holds(file, at, part) ==
  /\ file # Absent
  /\ at + Len(part) <= Len(file)
  /\ \A n \in DOMAIN part : file[at + n] = part[n]
SuccessMeansPasted ==
  \A p \in Proc : pc[p] = "exit" /\ outcome[p] = "success" =>
    \A i \in 0..1 :
      IF cmd[p].hex
      THEN blob["signed.hex"][i] = WantedImage(cmd[p], i)
      ELSE Holds(result[cmd[p].path], RwAt[i], WantedImage(cmd[p], i))

\* "no debug image will be signed" with the prod key (bs:40), and no image for
\* single chips is (bs:77): whatever is in a file anywhere, the prod key is only
\* on images that were not debug builds, with the prod manifest and no device
\* ids; and the prod manifest is only on images with the prod key.
Contents ==
  {blob[s][i] : s \in Suffix, i \in 0..1} \cup {tmp[f] : f \in Path}
    \cup {result[f] : f \in Path}
ProdImagesAreProd ==
  \A file \in Contents \ {Absent} : \A n \in DOMAIN file :
    IsRw(file[n]) =>
      LET signed == file[n][1] IN
      /\ signed.prodKey = signed.manifest.prod
      /\ signed.prodKey => signed.elf \notin Debug /\ ~signed.manifest.devids
=============================================================================
