----------------------------- MODULE CodeSigner -----------------------------
(***************************************************************************)
(* The command cr50-codesigner: main of codesigner.cc, with Image::sign,   *)
(* Image::generate (image.cc) and PublicKey::sign (publickey.cc).          *)
(*                                                                         *)
(* One invocation at a time runs through main; one action is one stage of  *)
(* it, and the ways the stage can end the program.  Invocations follow one *)
(* another over the same files: the output, the hashes an invocation       *)
(* leaves for an external signer, and the signature that signer leaves for *)
(* a later invocation.                                                     *)
(*                                                                         *)
(* Hash functions and signatures are free terms: two hashes are equal when *)
(* what was hashed is equal, and a signature names its key and its text.   *)
(***************************************************************************)
EXTENDS Integers, Sequences, FiniteSets

CONSTANTS
  Key,          \* RSA moduli
  Words64,      \* those of 2048 bits, nwords() = 64
  N0inv,        \* N0inv[k]: what n0inv() returns for k
  Elf,          \* ELF files, standing for what Image::fromElf makes of them
  Manifest,     \* well-formed JSON manifests
  Xml,          \* XML files: .fuses, the HashTypes in order; .p4cl, the default
  Invocation,   \* command lines
  Chip,         \* chips: .fuses and .info, what their fuses and info words hold
  FuseMax,      \* FUSE_MAX
  InfoMax,      \* INFO_MAX
  Blk6,         \* the fuse FW_DEFINED_DATA_EXTRA_BLK6
  Blk6Index,    \* its hard-coded index, 125
  Blk6Width,    \* its hard-coded width, 5
  RsaFetched,   \* rsa # nullptr in Gnubby::doSign: only then can it sign
  DiskFaults,   \* open and write of the output and hashes files may fail
  BnFails,      \* BN_lshift and BN_mod may fail
  Junk,         \* what the stack may hold where SignedHeader() assigns nothing
  MaxTime,      \* BOUND: the last second of the clock
  Bad,          \* a file that cannot be read or parsed
  None,         \* an option that is not given, a field that is not filled in
  Absent,       \* a file that is not there
  Torn,         \* a file that was truncated and not written in full
  Ignore        \* FUSE_IGNORE and INFO_IGNORE

FuseIndex == 0..(FuseMax - 1)
InfoIndex == 0..(InfoMax - 1)

ASSUME ConstAssumption ==
  /\ Words64 \subseteq Key
  /\ FuseMax \in Nat \ {0} /\ InfoMax \in Nat \ {0}
  /\ Blk6Index \in FuseIndex
  /\ Blk6Width \in Nat
  /\ {RsaFetched, DiskFaults, BnFails} \subseteq BOOLEAN
  /\ Junk # {}
  /\ MaxTime \in Nat
  /\ Bad # None
  /\ {Bad, None} \cap (Key \cup Elf \cup Manifest \cup Xml) = {}

\* What the parsers make of a manifest and of an XML file.
ASSUME ManifestAssumption ==
  \A m \in Manifest :
    /\ {"keyid", "p4cl", "timestamp", "version", "policy", "board", "tag",
        "fuses", "info"} \subseteq DOMAIN m
    /\ m.fuses \in [DOMAIN m.fuses -> Nat]
    /\ m.info \in [DOMAIN m.info -> Nat]

HashType(x) ==
  [name : {x.fuses[i].name : i \in DOMAIN x.fuses}, offset : Nat, width : Nat]

\* What the numbering of the fuses takes for granted, and fuses.xml keeps to: up
\* to the first regression no logical offset is left out or repeated, and a fuse
\* that is listed again is the same fuse.
ASSUME XmlAssumption ==
  \A x \in Xml :
    /\ x.fuses \in Seq(HashType(x))
    /\ \A i \in DOMAIN x.fuses :
         (\A j \in 2..i : x.fuses[j].offset >= x.fuses[j - 1].offset) =>
           x.fuses[i].offset = i - 1
    /\ \A i, j \in DOMAIN x.fuses :
         x.fuses[i].name = x.fuses[j].name => x.fuses[i] = x.fuses[j]

ASSUME InvocationAssumption ==
  \A o \in Invocation :
    /\ o.key \in Key \cup {Bad}
    /\ o.elf \in Elf \cup {Bad}
    /\ o.json \in Manifest \cup {Bad, None}
    /\ o.xml \in Xml \cup {Bad, None}
    /\ {o.usage, o.private, o.cros, o.override, o.hashes, o.signature} \subseteq BOOLEAN

VARIABLES
  pc,           \* the stage of main
  opt,          \* the command line
  hdr,          \* the variable hdr of main
  fuse_values,  \* the array of that name
  info_values,  \* the array of that name
  mem,          \* mem_ from base_ to high_: the header in place, and the code
  hashes,       \* the variable hashes of Image::sign
  exit,         \* how the last invocation ended
  out,          \* the output file
  hashesFile,   \* the file of --hashes
  sigFile,      \* the file of --signature
  clock         \* time(NULL)

files == <<out, hashesFile, sigFile>>
locals == <<hdr, fuse_values, info_values, mem, hashes>>
vars == <<pc, opt, locals, exit, files, clock>>

Label == {"idle", "options", "key", "elf", "header", "manifest", "keyid", "tag",
          "xml", "fuses", "infos", "preload", "hash", "hashes", "sign",
          "generate", "write"}
Exit == {None, "ok", "usage", "nokey", "noelf", "abort", "segv", "killed"}

\* What fuse_values and info_values hold for a word that must hold a value:
\* FUSE_PADDING with its low bits replaced, INFO_IGNORE with the value XORed in.
Padded(width, value) == <<width, value>>
Xored(value) == <<value, 0>>

\* The header before SignedHeader() and main give it values: 'S' in signature.
FillSignature == [form |-> "fill", by |-> None, over |-> None]

----------------------------------------------------------------------------
(* What main reads.                                                        *)

\* map::operator[] on a map that lacks the key.
NoBoard == [type |-> 0, mask |-> 0, flags |-> 0]

\* The values of an invocation without a manifest.
Defaults(k) ==
  [keyid |-> N0inv[k], p4cl |-> 0, timestamp |-> 0, version |-> 0, policy |-> 0,
   board |-> NoBoard, tag |-> None, fuses |-> << >>, info |-> << >>]

\* readJSON: the fields it asks for.  It asks neither for the timestamp nor for
\* the board ID.
ReadJSON(m) == [m EXCEPT !.timestamp = 0, !.board = NoBoard]

Values(o) == IF o.json = None THEN Defaults(o.key) ELSE ReadJSON(o.json)

\* Mutant: the hard-coded expectation of EXTRA_BLK6 is lost.
FusesOfManifest(o) == Values(o).fuses

\* The fuses to check: EXTRA_BLK6 is 0 unless the manifest gives another value.
Fuses(o) ==
  LET m == Values(o).fuses IN
  [n \in DOMAIN m \cup {Blk6} |-> IF n \in DOMAIN m THEN m[n] ELSE 0]

\* find_fuses: the entries before the first whose logical offset regresses.
Regresses(fs) ==
  {i \in 2..Len(fs) : fs[i].offset < fs[i - 1].offset}
FirstOf(S) == CHOOSE i \in S : \A j \in S : i <= j
Listed(fs) == SubSeq(fs, 1, FirstOf(Regresses(fs)) - 1)

\* readXML fails when the XML cannot be read or no offset ever regresses.
XmlFails(o) == o.xml # None /\ (o.xml = Bad \/ Regresses(o.xml.fuses) = {})
XmlP4cl(o) == IF o.xml = None THEN 0 ELSE o.xml.p4cl

\* fuse_ids and fuse_bits: a fuse is numbered by its place in the list; of two
\* entries with one name the first counts.
FuseDefs(o) ==
  IF o.xml = None THEN << >>
  ELSE LET fs == Listed(o.xml.fuses)
           at(n) == FirstOf({i \in DOMAIN fs : fs[i].name = n})
       IN [n \in {fs[i].name : i \in DOMAIN fs} |->
             [index |-> at(n) - 1, width |-> fs[at(n)].width]]

\* The same with EXTRA_BLK6 hard-coded.
FuseIds(o) ==
  LET defs == FuseDefs(o) IN
  [n \in DOMAIN defs \cup {Blk6} |->
     IF n = Blk6 THEN [index |-> Blk6Index, width |-> Blk6Width] ELSE defs[n]]

\* The fuses to check that have number i, and the array fuse_values they give.
FusesAt(o, i) == {n \in DOMAIN Fuses(o) : FuseIds(o)[n].index = i}
FuseWords(o) ==
  [i \in FuseIndex |->
     IF FusesAt(o, i) = {} THEN Ignore
     ELSE LET n == CHOOSE n \in FusesAt(o, i) : TRUE
          IN Padded(FuseIds(o)[n].width, Fuses(o)[n])]

\* The array info_values the manifest gives.
InfoWords(o) ==
  LET info == Values(o).info IN
  [i \in InfoIndex |-> IF i \in DOMAIN info THEN Xored(info[i]) ELSE Ignore]

----------------------------------------------------------------------------
(* What is hashed and signed.                                              *)

\* Mutant: the hash covers the signature too.
ImageHashAll(h, code) == <<[h EXCEPT !.img_chk = None], code>>

\* SHA256 from the tag of the header to the end of the image: all of the header
\* but its signature and img_chk_.
ImageHash(h, code) == <<[h EXCEPT !.signature = None, !.img_chk = None], code>>

\* A signature as EVP_SignFinal, a gnubby or an external signer leaves it, and
\* times R mod N, as the header holds it.
RawSignature(k, text) == [form |-> "raw", by |-> k, over |-> text]
Montgomery(s) == [s EXCEPT !.form = "montgomery"]

----------------------------------------------------------------------------
Init ==
  /\ pc = "idle"
  /\ opt = None
  /\ hdr = None /\ mem = None /\ hashes = None
  /\ fuse_values = [i \in FuseIndex |-> Ignore]
  /\ info_values = [i \in InfoIndex |-> Ignore]
  /\ exit = None
  /\ out = Absent /\ hashesFile = Absent /\ sigFile = Absent
  /\ clock = 0

\* The program goes on to the next stage, or ends.
Goto(label) == pc' = label /\ UNCHANGED exit
Ends(how) == pc' = "idle" /\ exit' = how

\* main is entered.
Start(o) ==
  /\ pc = "idle"
  /\ opt' = o
  /\ pc' = "options"
  /\ exit' = None
  /\ hdr' = None /\ mem' = None /\ hashes' = None
  /\ fuse_values' = [i \in FuseIndex |-> Ignore]
  /\ info_values' = [i \in InfoIndex |-> Ignore]
  /\ UNCHANGED <<files, clock>>

\* getOptions.  A command line that asks for help, has an unknown option, lacks a
\* file name or names no format ends main (usage).  Case 'K' has no break, and
\* std::string::assign(NULL) follows; which comes first depends on their order.
GetOptions ==
  /\ pc = "options"
  /\ \/ ~opt.usage /\ ~opt.override /\ Goto("key")
     \/ opt.usage /\ Ends("usage")
     \/ opt.override /\ Ends("segv")
  /\ UNCHANGED <<opt, locals, files, clock>>

LoadKey ==
  /\ pc = "key"
  /\ \/ opt.key # Bad /\ Goto("elf")
     \/ opt.key = Bad /\ Ends("nokey")
  /\ UNCHANGED <<opt, locals, files, clock>>

LoadElf ==
  /\ pc = "elf"
  /\ \/ opt.elf # Bad /\ Goto("header")
     \/ opt.elf = Bad /\ Ends("noelf")
  /\ UNCHANGED <<opt, locals, files, clock>>

\* SignedHeader() and the fields main sets before it reads the manifest.  What
\* neither sets (u, swap_mark, rw_product_family_, dev_id0_, dev_id1_) holds
\* what the stack held.
PrepareHeader ==
  /\ pc = "header"
  /\ \E j \in Junk :
       hdr' = [signature |-> FillSignature, img_chk |-> None, tag |-> None,
               keyid |-> N0inv[opt.key], key |-> None, timestamp |-> clock,
               version |-> 0, p4cl |-> 0, policy |-> 0, board |-> NoBoard,
               fusemap |-> {}, infomap |-> {}, unset |-> j,
               fuses_chk |-> None, info_chk |-> None]
  /\ Goto("manifest")
  /\ UNCHANGED <<opt, fuse_values, info_values, mem, hashes, files, clock>>

\* The manifest is read and the header filled in from it.
ReadManifest ==
  /\ pc = "manifest"
  /\ \/ /\ opt.json # Bad
        /\ LET v == Values(opt) IN
           hdr' = [hdr EXCEPT
                     !.p4cl = v.p4cl, !.version = v.version, !.policy = v.policy,
                     !.timestamp = IF v.timestamp # 0 THEN v.timestamp ELSE @,
                     !.board = IF v.board.type # 0 /\ v.board.flags # 0
                               THEN v.board ELSE NoBoard]
        /\ Goto("keyid")
     \/ opt.json = Bad /\ Ends("abort") /\ UNCHANGED hdr
  /\ UNCHANGED <<opt, fuse_values, info_values, mem, hashes, files, clock>>

\* "Make sure the keyid matches the value in the manifest."
CheckKeyid ==
  /\ pc = "keyid"
  /\ \/ Values(opt).keyid = hdr.keyid /\ Goto("tag")
     \/ Values(opt).keyid # hdr.keyid /\ Ends("abort")
  /\ UNCHANGED <<opt, locals, files, clock>>

\* --cros sets the tag, and excludes one from the manifest.
SetTag ==
  /\ pc = "tag"
  /\ \/ /\ ~opt.cros \/ Values(opt).tag = None
        /\ hdr' = [hdr EXCEPT !.tag = IF opt.cros THEN "cros" ELSE Values(opt).tag]
        /\ Goto("xml")
     \/ /\ opt.cros /\ Values(opt).tag # None
        /\ Ends("abort")
        /\ UNCHANGED hdr
  /\ UNCHANGED <<opt, fuse_values, info_values, mem, hashes, files, clock>>

\* The XML is read and compared with what the manifest and this program expect.
XmlAccepted ==
  /\ ~XmlFails(opt)
  /\ Values(opt).p4cl = XmlP4cl(opt)
  /\ LET defs == FuseDefs(opt) IN
     /\ Cardinality(DOMAIN defs) < FuseMax
     /\ defs = << >> \/ /\ Blk6 \in DOMAIN defs
                        /\ defs[Blk6] = [index |-> Blk6Index, width |-> Blk6Width]
ReadXml ==
  /\ pc = "xml"
  /\ \/ XmlAccepted /\ Goto("fuses")
     \/ ~XmlAccepted /\ Ends("abort")
  /\ UNCHANGED <<opt, locals, files, clock>>

\* fuse_values is computed, and the fuses it lists marked in the header.
FusesAccepted ==
  \A n \in DOMAIN Fuses(opt) :
    /\ n \in DOMAIN FuseIds(opt)
    /\ FuseIds(opt)[n].index < FuseMax
    /\ Fuses(opt)[n] < 2 ^ FuseIds(opt)[n].width
SetFuses ==
  /\ pc = "fuses"
  /\ \/ /\ FusesAccepted
        /\ fuse_values' = FuseWords(opt)
        /\ hdr' = [hdr EXCEPT !.fusemap = {i \in FuseIndex : FusesAt(opt, i) # {}}]
        /\ Goto("infos")
     \/ ~FusesAccepted /\ Ends("abort") /\ UNCHANGED <<hdr, fuse_values>>
  /\ UNCHANGED <<opt, info_values, mem, hashes, files, clock>>

\* Mutant: the index is not checked.
SetInfosUnchecked ==
  /\ pc = "infos"
  /\ info_values' = InfoWords(opt)
  /\ hdr' = [hdr EXCEPT !.infomap = DOMAIN Values(opt).info]
  /\ Goto("preload")
  /\ UNCHANGED <<opt, fuse_values, mem, hashes, files, clock>>

\* The same for the info words of the manifest.
SetInfos ==
  /\ pc = "infos"
  /\ \/ /\ DOMAIN Values(opt).info \subseteq InfoIndex
        /\ info_values' = InfoWords(opt)
        /\ hdr' = [hdr EXCEPT !.infomap = DOMAIN Values(opt).info]
        /\ Goto("preload")
     \/ /\ ~(DOMAIN Values(opt).info \subseteq InfoIndex)
        /\ Ends("abort")
        /\ UNCHANGED <<hdr, info_values>>
  /\ UNCHANGED <<opt, fuse_values, mem, hashes, files, clock>>

\* --signature: the file must hold as many bytes as the header has room for,
\* which a signature by a 2048 bit key does not.
Loadable(s) == s \notin {Absent, Torn} /\ s.by \notin Words64
LoadSignature ==
  /\ pc = "preload"
  /\ \/ ~opt.signature /\ Goto("hash") /\ UNCHANGED hdr
     \/ /\ opt.signature /\ Loadable(sigFile)
        /\ hdr' = [hdr EXCEPT !.signature = sigFile]
        /\ Goto("hash")
     \/ opt.signature /\ ~Loadable(sigFile) /\ Ends("abort") /\ UNCHANGED hdr
  /\ UNCHANGED <<opt, fuse_values, info_values, mem, hashes, files, clock>>

\* Mutant: the image is hashed before info_chk_ is filled in.
HashImageEarly ==
  /\ pc = "hash"
  /\ LET h2 == [hdr EXCEPT !.key = opt.key, !.fuses_chk = fuse_values]
         digest == ImageHash(h2, opt.elf)
     IN /\ mem' = [hdr |-> [h2 EXCEPT !.info_chk = info_values, !.img_chk = digest],
                   code |-> opt.elf]
        /\ hashes' = [img |-> digest, fuses |-> fuse_values, info |-> info_values]
  /\ Goto("hashes")
  /\ UNCHANGED <<opt, hdr, fuse_values, info_values, files, clock>>

\* Image::sign: the header is copied over the image and completed, in this
\* order, and the three hashes are computed.
HashImage ==
  /\ pc = "hash"
  /\ LET h1 == [hdr EXCEPT !.key = opt.key]
         h2 == [h1 EXCEPT !.fuses_chk = fuse_values]
         h3 == [h2 EXCEPT !.info_chk = info_values]
         digest == ImageHash(h3, opt.elf)
     IN /\ mem' = [hdr |-> [h3 EXCEPT !.img_chk = digest], code |-> opt.elf]
        /\ hashes' = [img |-> digest, fuses |-> fuse_values, info |-> info_values]
  /\ Goto("hashes")
  /\ UNCHANGED <<opt, hdr, fuse_values, info_values, files, clock>>

\* Image::sign: the hashes are left for an external signer; whether that worked
\* is not looked at.
WriteHashes ==
  /\ pc = "hashes"
  /\ \/ ~opt.hashes /\ UNCHANGED hashesFile
     \/ opt.hashes /\ hashesFile' = hashes
     \/ opt.hashes /\ DiskFaults /\ hashesFile' \in {hashesFile, Torn}
  /\ Goto("sign")
  /\ UNCHANGED <<opt, locals, out, sigFile, clock>>

\* PublicKey::sign: the key's own private half, a gnubby for a public key of
\* 2048 bits, or else the signature found in the header.
SignsAfresh(o) == o.private \/ o.key \in Words64
Signature ==
  IF SignsAfresh(opt) THEN RawSignature(opt.key, hashes) ELSE mem.hdr.signature
CanSign == opt.private \/ opt.key \notin Words64 \/ RsaFetched

\* Mutant: Image::sign warns of a failure, and returns true.
KeySignAlwaysTrue ==
  /\ pc = "sign"
  /\ \/ CanSign /\ mem' = [mem EXCEPT !.hdr.signature = Montgomery(Signature)]
     \/ CanSign /\ BnFails /\ mem' = [mem EXCEPT !.hdr.signature.form = "swapped"]
     \/ SignsAfresh(opt) /\ UNCHANGED mem
  /\ Goto("generate")
  /\ UNCHANGED <<opt, hdr, fuse_values, info_values, hashes, files, clock>>

\* The result is brought to Montgomery form.  When that fails, sign still
\* returns 1, and what the header held goes back into it, words swapped.
KeySign ==
  /\ pc = "sign"
  /\ \/ /\ CanSign
        /\ mem' = [mem EXCEPT !.hdr.signature = Montgomery(Signature)]
        /\ Goto("generate")
     \/ /\ CanSign /\ BnFails
        /\ mem' = [mem EXCEPT !.hdr.signature.form = "swapped"]
        /\ Goto("generate")
     \/ SignsAfresh(opt) /\ Ends("abort") /\ UNCHANGED mem
  /\ UNCHANGED <<opt, hdr, fuse_values, info_values, hashes, files, clock>>

\* Image::generate: the output is truncated.  When it cannot be opened main
\* returns 0 all the same.
OpenOutput ==
  /\ pc = "generate"
  /\ \/ out' = Torn /\ Goto("write")
     \/ DiskFaults /\ Ends("ok") /\ UNCHANGED out
  /\ UNCHANGED <<opt, locals, hashesFile, sigFile, clock>>

WriteOutput ==
  /\ pc = "write"
  /\ out' = mem \/ (DiskFaults /\ UNCHANGED out)
  /\ Ends("ok")
  /\ UNCHANGED <<opt, locals, hashesFile, sigFile, clock>>

----------------------------------------------------------------------------
(* The world around the program.                                           *)

\* The program is killed.
Kill ==
  /\ pc # "idle"
  /\ Ends("killed")
  /\ UNCHANGED <<opt, locals, files, clock>>

\* The holder of a private key signs the hashes left for them.
ExternalSigner(k) ==
  /\ pc = "idle"
  /\ hashesFile \notin {Absent, Torn}
  /\ sigFile' = RawSignature(k, hashesFile)
  /\ UNCHANGED <<pc, opt, locals, exit, out, hashesFile, clock>>

Tick ==
  /\ clock < MaxTime
  /\ clock' = clock + 1
  /\ UNCHANGED <<pc, opt, locals, exit, files>>

\* What the boot ROM of chip c makes of an image: it computes the hashes from
\* the image and from the fuses and info words the header lists, and checks the
\* signature with the key the keyid stands for.
Boots(image, c) ==
  LET h == image.hdr
      seen == [img |-> ImageHash(h, image.code),
               fuses |-> [i \in FuseIndex |->
                            IF i \in h.fusemap THEN c.fuses[i] ELSE Ignore],
               info |-> [i \in InfoIndex |->
                            IF i \in h.infomap THEN c.info[i] ELSE Ignore]]
  IN /\ h.keyid = N0inv[h.key]
     /\ h.signature = Montgomery(RawSignature(h.key, seen))

----------------------------------------------------------------------------
Next ==
  \/ \E o \in Invocation : Start(o)
  \/ GetOptions \/ LoadKey \/ LoadElf \/ PrepareHeader \/ ReadManifest
  \/ CheckKeyid \/ SetTag \/ ReadXml \/ SetFuses \/ SetInfos \/ LoadSignature
  \/ HashImage \/ WriteHashes \/ KeySign \/ OpenOutput \/ WriteOutput
  \/ Kill \/ (\E k \in Key : ExternalSigner(k)) \/ Tick

Spec == Init /\ [][Next]_vars

----------------------------------------------------------------------------
TypeOK ==
  /\ pc \in Label
  /\ exit \in Exit
  /\ pc = "idle" \/ opt \in Invocation
  /\ fuse_values \in [FuseIndex -> {Ignore} \cup (Nat \X Nat)]
  /\ info_values \in [InfoIndex -> {Ignore} \cup (Nat \X {0})]
  /\ hdr = None \/ (hdr.fusemap \subseteq FuseIndex /\ hdr.infomap \subseteq InfoIndex)
  /\ pc \in {"generate", "write"} => mem.code = opt.elf
  /\ clock \in 0..MaxTime

\* The image about to be written.
Signed == pc \in {"generate", "write"}

\* A chip on which the fuses and info words named by the manifest hold what the
\* manifest says, a fuse being where the XML says it is.
FuseHolds(o, c, n, value) ==
  IF n = Blk6 THEN c.fuses[Blk6Index] = Padded(Blk6Width, value)
  ELSE \E i \in DOMAIN o.xml.fuses :
         /\ o.xml.fuses[i].name = n
         /\ c.fuses[o.xml.fuses[i].offset] = Padded(o.xml.fuses[i].width, value)
Expected(o, c) ==
  IF o.json = None THEN FuseHolds(o, c, Blk6, 0)
  ELSE /\ \A n \in DOMAIN o.json.fuses : FuseHolds(o, c, n, o.json.fuses[n])
       /\ Blk6 \in DOMAIN o.json.fuses \/ FuseHolds(o, c, Blk6, 0)
       /\ \A i \in DOMAIN o.json.info : c.info[i] = Xored(o.json.info[i])

\* A signed image starts on no chip but those its manifest was written for:
\* fusemap and infomap list every word the hashes depend on, at the place where
\* the chip has it, whoever signed and whatever failed on the way.
BootsOnlyOnExpectedChips ==
  Signed => \A c \in Chip : Boots(mem, c) => Expected(opt, c)

\* An image signed by this program, rather than with a signature it was given,
\* starts on all of them: what is hashed is not changed after it was hashed.
BootsOnExpectedChips ==
  Signed /\ SignsAfresh(opt) => \A c \in Chip : Expected(opt, c) => Boots(mem, c)

\* A complete image that gets into the output file is consistent in itself, and
\* signed: by the key it names over its own three hashes, or, with a public key
\* the gnubbies are not asked for, by whoever made the signature --signature was
\* given.  Only the first step of signing in two, such a key and no --signature,
\* leaves an image with the filling of SignedHeader() for a signature.
OwnHashes(image) ==
  [img |-> image.hdr.img_chk, fuses |-> image.hdr.fuses_chk,
   info |-> image.hdr.info_chk]
OutputIsSigned ==
  [][out' \notin {out, Absent, Torn} =>
       /\ out'.hdr.img_chk = ImageHash(out'.hdr, out'.code)
       /\ SignsAfresh(opt) =>
            out'.hdr.signature
              = Montgomery(RawSignature(out'.hdr.key, OwnHashes(out')))
       /\ ~SignsAfresh(opt) /\ opt.signature =>
            /\ sigFile.by \in Key
            /\ out'.hdr.signature = Montgomery(sigFile)]_vars

\* "Write hashes to file for subsequent extraneous (re)signing": an image built
\* with --signature, from a signature by its key over the hashes an earlier
\* --hashes run of the same inputs left, starts where it should.
Resigned == Signed /\ opt.signature /\ ~SignsAfresh(opt) /\ sigFile.by = opt.key
ResignedBoots ==
  Resigned => \A c \in Chip : Expected(opt, c) => Boots(mem, c)

\* What is true of it: the two runs must have read the same second and found the
\* same on the stack; then, and only then, the image starts on every chip its
\* manifest was written for, and it starts on no other.
ResignedBootsExactly ==
  Resigned =>
    \A c \in Chip :
      Boots(mem, c) <=>
        /\ Expected(opt, c)
        /\ sigFile.over.img[1].timestamp = mem.hdr.timestamp
        /\ sigFile.over.img[1].unset = mem.hdr.unset

\* "Set the board ID if the manifest has it."
ManifestBoardUsed ==
  Signed /\ opt.json # None
    /\ opt.json.board.type # 0 /\ opt.json.board.flags # 0 =>
    mem.hdr.board = opt.json.board
=============================================================================
