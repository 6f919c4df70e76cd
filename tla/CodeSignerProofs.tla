-------------------------- MODULE CodeSignerProofs --------------------------
(***************************************************************************)
(* Theorems about CodeSigner for any keys, ELF files, manifests, XML files *)
(* and command lines, any sizes of the fuse and info arrays, and any       *)
(* choice of the faults.                                                   *)
(***************************************************************************)
EXTENDS CodeSigner, TLAPS, FiniteSetTheorems, WellFoundedInduction

\* The fields of SignedHeader that the model keeps.
HeaderField ==
  {"signature", "img_chk", "tag", "keyid", "key", "timestamp", "version", "p4cl",
   "policy", "board", "fusemap", "infomap", "unset", "fuses_chk", "info_chk"}
IsHeader(h) == h = [f \in HeaderField |-> h[f]]

\* The stages of main from a given one on.
Writing == {"generate", "write"}
FromHashes == {"hashes", "sign"} \cup Writing
FromPreload == {"preload", "hash"} \cup FromHashes
FromInfos == {"infos"} \cup FromPreload
FromFuses == {"fuses"} \cup FromInfos
FromXml == {"tag", "xml"} \cup FromFuses
FromManifest == {"manifest", "keyid"} \cup FromXml

\* The hashes that are signed together: that of the image covers the other two.
Consistent(hs) ==
  /\ hs.img[1].fuses_chk = hs.fuses
  /\ hs.img[1].info_chk = hs.info

\* A signature is over hashes of this program, or is the filling of a header.
SignatureOK(s) ==
  /\ s = [f \in {"form", "by", "over"} |-> s[f]]
  /\ s.by = None \/ Consistent(s.over)

\* What the stages that main has passed have checked of the command line.
Checked ==
  /\ pc # "idle" => opt \in Invocation
  /\ pc \in {"elf", "header"} \cup FromManifest => opt.key # Bad
  /\ pc \in {"keyid"} \cup FromXml => opt.json # Bad
  /\ pc \in FromXml => Values(opt).keyid = N0inv[opt.key]
  /\ pc \in FromFuses => XmlAccepted
  /\ pc \in FromInfos => FusesAccepted
  /\ pc \in FromPreload => DOMAIN Values(opt).info \subseteq InfoIndex

\* The header main is preparing, and the arrays that go with it.
Prepared ==
  /\ pc \in FromManifest =>
       /\ IsHeader(hdr)
       /\ hdr.keyid = N0inv[opt.key]
       /\ SignatureOK(hdr.signature)
  /\ pc \in FromManifest \ FromInfos => hdr.fusemap = {}
  /\ pc \in FromManifest \ FromPreload => hdr.infomap = {}
  /\ pc \in FromInfos =>
       /\ fuse_values = FuseWords(opt)
       /\ hdr.fusemap = {i \in FuseIndex : FusesAt(opt, i) # {}}
  /\ pc \in FromPreload =>
       /\ info_values = InfoWords(opt)
       /\ hdr.infomap = DOMAIN Values(opt).info

\* The image in memory once Image::sign has hashed it.
Hashed ==
  pc \in FromHashes =>
    /\ mem = [f \in {"hdr", "code"} |-> mem[f]]
    /\ IsHeader(mem.hdr)
    /\ mem.code = opt.elf
    /\ mem.hdr.key = opt.key /\ mem.hdr.keyid = N0inv[opt.key]
    /\ mem.hdr.fusemap = hdr.fusemap /\ mem.hdr.infomap = hdr.infomap
    /\ mem.hdr.fuses_chk = fuse_values /\ mem.hdr.info_chk = info_values
    /\ mem.hdr.img_chk = ImageHash(mem.hdr, mem.code)
    /\ hashes = [img |-> mem.hdr.img_chk, fuses |-> fuse_values,
                 info |-> info_values]
    /\ SignatureOK(mem.hdr.signature)

\* The image once Image::sign has returned true.
SignedNow ==
  pc \in Writing /\ ~BnFails =>
    /\ mem.hdr.signature.form = "montgomery"
    /\ SignsAfresh(opt) =>
         mem.hdr.signature = Montgomery(RawSignature(opt.key, hashes))

\* The files an invocation leaves for later ones.
FilesOK ==
  /\ hashesFile \notin {Absent, Torn} => Consistent(hashesFile)
  /\ sigFile \notin {Absent, Torn} => SignatureOK(sigFile)

\* The inductive invariant.
IInv == TypeOK /\ Checked /\ Prepared /\ Hashed /\ SignedNow /\ FilesOK

----------------------------------------------------------------------------
(* The numbering of the fuses.                                             *)

\* FirstOf is the least element of a set of numbers that is not empty.
LEMMA FirstOfIsLeast ==
  ASSUME NEW S \in SUBSET Nat, S # {}
  PROVE  FirstOf(S) \in S /\ \A j \in S : FirstOf(S) <= j
<1> DEFINE Below(j) == 0..j
           Initial == {Below(j) : j \in S}
<1>1. Initial \subseteq FiniteSubsetsOf(Nat) /\ Initial # {}
  <2>1. \A j \in S : Below(j) \subseteq Nat /\ IsFiniteSet(Below(j))
    BY FS_Interval
  <2> QED
    BY <2>1 DEF FiniteSubsetsOf
<1>2. PICK T \in Initial : \A U \in Initial : <<U, T>> \notin StrictSubsetOrdering(Nat)
  BY <1>1, FS_StrictSubsetOrderingWellFounded, WFMin
<1>3. PICK m \in S : T = Below(m)
  BY <1>2
<1>4. ASSUME NEW j \in S, j < m PROVE FALSE
  <2>1. Below(j) \subseteq Below(m) /\ Below(j) # Below(m)
    <3>1. m \in Below(m) /\ m \notin Below(j)
      BY <1>4
    <3> QED
      BY <1>4, <3>1
  <2>2. <<Below(j), Below(m)>> \in StrictSubsetOrdering(Nat)
    BY <2>1 DEF StrictSubsetOrdering
  <2> QED
    BY <1>2, <1>3, <2>2
<1>5. \A j \in S : m <= j
  BY <1>4
<1> QED
  BY <1>5 DEF FirstOf

\* The values of an invocation whose manifest, if it has one, was read.
LEMMA ValuesRead ==
  ASSUME NEW o \in Invocation, o.json # Bad
  PROVE  /\ Values(o).fuses \in [DOMAIN Values(o).fuses -> Nat]
         /\ Values(o).info \in [DOMAIN Values(o).info -> Nat]
         /\ o.json = None => /\ DOMAIN Values(o).fuses = {}
                             /\ DOMAIN Values(o).info = {}
         /\ o.json # None => /\ Values(o).fuses = o.json.fuses
                             /\ Values(o).info = o.json.info
<1>1. CASE o.json = None
  BY <1>1 DEF Values, Defaults
<1>2. CASE o.json \in Manifest
  <2>1. o.json # None
    BY <1>2, ConstAssumption
  <2>2. /\ Values(o).fuses = o.json.fuses
        /\ Values(o).info = o.json.info
    BY <1>2, <2>1, ManifestAssumption DEF Values, ReadJSON
  <2> QED
    BY <1>2, <2>1, <2>2, ManifestAssumption
<1> QED
  BY <1>1, <1>2, InvocationAssumption

\* A fuse of the XML is numbered by its logical offset.
LEMMA FusesPlaced ==
  ASSUME NEW o \in Invocation, o.xml # None, ~XmlFails(o), NEW n \in DOMAIN FuseDefs(o)
  PROVE  \E i \in DOMAIN o.xml.fuses :
           /\ o.xml.fuses[i].name = n
           /\ o.xml.fuses[i].offset = i - 1
           /\ o.xml.fuses[i].offset \in Nat /\ o.xml.fuses[i].width \in Nat
           /\ FuseDefs(o)[n] = [index |-> o.xml.fuses[i].offset,
                                width |-> o.xml.fuses[i].width]
<1> DEFINE fs == o.xml.fuses
           last == FirstOf(Regresses(fs)) - 1
           at == {i \in DOMAIN Listed(fs) : Listed(fs)[i].name = n}
<1>1. o.xml \in Xml /\ Regresses(fs) # {}
  BY InvocationAssumption DEF XmlFails
<1>2. fs \in Seq(HashType(o.xml))
  BY <1>1, XmlAssumption
<1>3. /\ Len(fs) \in Nat /\ DOMAIN fs = 1..Len(fs)
      /\ \A i \in 1..Len(fs) : fs[i].offset \in Nat /\ fs[i].width \in Nat
  <2>1. /\ Len(fs) \in Nat /\ DOMAIN fs = 1..Len(fs)
        /\ \A i \in 1..Len(fs) : fs[i] \in HashType(o.xml)
    BY <1>2
  <2>2. \A e \in HashType(o.xml) : e.offset \in Nat /\ e.width \in Nat
    BY DEF HashType
  <2> QED
    BY <2>1, <2>2
<1>4. /\ last \in 1..(Len(fs) - 1)
      /\ \A j \in 2..last : fs[j].offset >= fs[j - 1].offset
  <2>1. Regresses(fs) \subseteq 2..Len(fs)
    BY DEF Regresses
  <2>2. /\ FirstOf(Regresses(fs)) \in Regresses(fs)
        /\ \A j \in Regresses(fs) : FirstOf(Regresses(fs)) <= j
    <3>1. Regresses(fs) \in SUBSET Nat
      BY <1>3, <2>1
    <3> QED
      BY <1>1, <3>1, FirstOfIsLeast
  <2>3. last \in 1..(Len(fs) - 1)
    BY <1>3, <2>1, <2>2
  <2>4. ASSUME NEW j \in 2..last PROVE fs[j].offset >= fs[j - 1].offset
    <3>1. j \notin Regresses(fs) /\ j \in 2..Len(fs)
      BY <1>3, <2>1, <2>2, <2>3
    <3>2. fs[j].offset \in Nat /\ fs[j - 1].offset \in Nat
      BY <1>3, <3>1
    <3> QED
      BY <3>1, <3>2 DEF Regresses
  <2> QED
    BY <2>3, <2>4
<1>5. /\ DOMAIN Listed(fs) = 1..last
      /\ \A i \in 1..last : Listed(fs)[i] = fs[i]
  BY <1>2, <1>3, <1>4 DEF Listed
<1>6. FuseDefs(o)[n] = [index |-> FirstOf(at) - 1, width |-> Listed(fs)[FirstOf(at)].width]
  BY DEF FuseDefs
<1>7. FirstOf(at) \in at
  <2>1. at # {}
    BY DEF FuseDefs
  <2>2. at \in SUBSET Nat
    BY <1>4, <1>5
  <2> QED
    BY <2>1, <2>2, FirstOfIsLeast
<1> DEFINE i == FirstOf(at)
<1>8. i \in 1..last /\ fs[i].name = n /\ Listed(fs)[i] = fs[i]
  BY <1>5, <1>7
<1> HIDE DEF i, at, last
<1>9. fs[i].offset = i - 1
  <2>1. i \in DOMAIN fs /\ \A j \in 2..i : j \in 2..last
    BY <1>3, <1>4, <1>8
  <2>2. \A j \in 2..i : fs[j].offset >= fs[j - 1].offset
    BY <1>4, <2>1
  <2> QED
    BY <1>1, <2>1, <2>2, XmlAssumption
<1>10. i \in 1..Len(fs)
  BY <1>3, <1>4, <1>8
<1>11. FuseDefs(o)[n] = [index |-> fs[i].offset, width |-> fs[i].width]
  BY <1>6, <1>8, <1>9 DEF i
<1> QED
  BY <1>3, <1>8, <1>9, <1>10, <1>11

\* A fuse that is checked has a number and a width, and is EXTRA_BLK6 or the
\* fuse of the XML whose logical offset is its number.
LEMMA CheckedFuse ==
  ASSUME opt \in Invocation, opt.json # Bad, XmlAccepted, FusesAccepted,
         NEW n \in DOMAIN Fuses(opt)
  PROVE  /\ Fuses(opt)[n] \in Nat
         /\ FuseIds(opt)[n].index \in FuseIndex
         /\ FuseIds(opt)[n].width \in Nat
         /\ n = Blk6 => FuseIds(opt)[n] = [index |-> Blk6Index, width |-> Blk6Width]
         /\ n # Blk6 \/ FuseDefs(opt) # << >> =>
              /\ opt.xml \in Xml
              /\ \E i \in DOMAIN opt.xml.fuses :
                   /\ opt.xml.fuses[i].name = n
                   /\ opt.xml.fuses[i].offset = i - 1
                   /\ opt.xml.fuses[i].offset = FuseIds(opt)[n].index
                   /\ opt.xml.fuses[i].width = FuseIds(opt)[n].width
<1>1. Fuses(opt)[n] \in Nat
  <2>1. Values(opt).fuses \in [DOMAIN Values(opt).fuses -> Nat]
    BY ValuesRead
  <2> QED
    BY <2>1 DEF Fuses
<1>2. /\ n \in DOMAIN FuseDefs(opt) \cup {Blk6}
      /\ n = Blk6 => FuseIds(opt)[n] = [index |-> Blk6Index, width |-> Blk6Width]
      /\ n # Blk6 => FuseIds(opt)[n] = FuseDefs(opt)[n]
  BY DEF FusesAccepted, FuseIds
<1>3. FuseIds(opt)[n].index < FuseMax
  BY DEF FusesAccepted
<1>4. /\ DOMAIN FuseDefs(opt) # {} => opt.xml # None
      /\ ~XmlFails(opt)
      /\ opt.xml # None => opt.xml \in Xml
  <2>1. ~XmlFails(opt)
    BY DEF XmlAccepted
  <2>2. opt.xml # None => opt.xml \in Xml
    BY <2>1, InvocationAssumption DEF XmlFails
  <2>3. opt.xml = None => DOMAIN FuseDefs(opt) = {}
    BY DEF FuseDefs
  <2> QED
    BY <2>1, <2>2, <2>3
<1>5. CASE n \in DOMAIN FuseDefs(opt)
  <2>1. PICK i \in DOMAIN opt.xml.fuses :
          /\ opt.xml.fuses[i].name = n
          /\ opt.xml.fuses[i].offset = i - 1
          /\ opt.xml.fuses[i].offset \in Nat /\ opt.xml.fuses[i].width \in Nat
          /\ FuseDefs(opt)[n] = [index |-> opt.xml.fuses[i].offset,
                                 width |-> opt.xml.fuses[i].width]
    BY <1>4, <1>5, FusesPlaced
  <2>2. FuseIds(opt)[n] = FuseDefs(opt)[n]
    <3>1. CASE n = Blk6
      BY <1>2, <1>5, <3>1 DEF XmlAccepted
    <3> QED
      BY <1>2, <3>1
  <2>3. FuseIds(opt)[n].index \in FuseIndex /\ FuseIds(opt)[n].width \in Nat
    BY <1>3, <2>1, <2>2, ConstAssumption DEF FuseIndex
  <2> QED
    BY <1>1, <1>2, <1>4, <1>5, <2>1, <2>2, <2>3
<1>6. CASE n \notin DOMAIN FuseDefs(opt)
  <2>1. n = Blk6 /\ FuseDefs(opt) = << >>
    BY <1>2, <1>6 DEF XmlAccepted
  <2> QED
    BY <1>1, <1>2, <2>1, ConstAssumption
<1> QED
  BY <1>5, <1>6

\* Two fuses that are checked have two numbers.
LEMMA FuseNumbersDiffer ==
  ASSUME opt \in Invocation, opt.json # Bad, XmlAccepted, FusesAccepted,
         NEW n \in DOMAIN Fuses(opt), NEW m \in DOMAIN Fuses(opt),
         FuseIds(opt)[n].index = FuseIds(opt)[m].index
  PROVE  n = m
<1>1. SUFFICES ASSUME FuseDefs(opt) # << >> PROVE n = m
  <2>1. CASE FuseDefs(opt) = << >>
    <3>1. DOMAIN FuseIds(opt) = DOMAIN FuseDefs(opt) \cup {Blk6}
      BY DEF FuseIds
    <3>2. DOMAIN FuseDefs(opt) = {}
      BY <2>1
    <3> QED
      BY <3>1, <3>2 DEF FusesAccepted
  <2> QED
    BY <2>1
<1>2. PICK i \in DOMAIN opt.xml.fuses :
        opt.xml.fuses[i].name = n /\ i - 1 = FuseIds(opt)[n].index
  BY <1>1, CheckedFuse
<1>3. PICK j \in DOMAIN opt.xml.fuses :
        opt.xml.fuses[j].name = m /\ j - 1 = FuseIds(opt)[m].index
  BY <1>1, CheckedFuse
<1>4. i \in Int /\ j \in Int
  <2>1. opt.xml.fuses \in Seq(HashType(opt.xml))
    BY <1>1, CheckedFuse, XmlAssumption
  <2> QED
    BY <2>1
<1> QED
  BY <1>2, <1>3, <1>4

\* fuse_values holds, at the number of a fuse, the value expected of that fuse.
LEMMA FuseWordOf ==
  ASSUME opt \in Invocation, opt.json # Bad, XmlAccepted, FusesAccepted,
         NEW n \in DOMAIN Fuses(opt)
  PROVE  FuseWords(opt)[FuseIds(opt)[n].index]
           = Padded(FuseIds(opt)[n].width, Fuses(opt)[n])
<1> DEFINE i == FuseIds(opt)[n].index
<1>1. i \in FuseIndex
  BY CheckedFuse
<1>2. FusesAt(opt, i) = {n}
  BY FuseNumbersDiffer DEF FusesAt
<1>3. (CHOOSE m \in FusesAt(opt, i) : TRUE) = n
  BY <1>2
<1> QED
  BY <1>1, <1>2, <1>3 DEF FuseWords

\* The arrays hold words of their types.
LEMMA WordsType ==
  ASSUME opt \in Invocation, opt.json # Bad
  PROVE  /\ XmlAccepted /\ FusesAccepted =>
              FuseWords(opt) \in [FuseIndex -> {Ignore} \cup (Nat \X Nat)]
         /\ InfoWords(opt) \in [InfoIndex -> {Ignore} \cup (Nat \X {0})]
<1>1. ASSUME XmlAccepted, FusesAccepted, NEW i \in FuseIndex
      PROVE  FuseWords(opt)[i] \in {Ignore} \cup (Nat \X Nat)
  <2>1. CASE FusesAt(opt, i) = {}
    BY <2>1 DEF FuseWords
  <2>2. CASE FusesAt(opt, i) # {}
    <3>1. PICK n \in DOMAIN Fuses(opt) : FuseIds(opt)[n].index = i
      BY <2>2 DEF FusesAt
    <3>2. FuseWords(opt)[i] = Padded(FuseIds(opt)[n].width, Fuses(opt)[n])
      BY <1>1, <3>1, FuseWordOf
    <3>3. FuseIds(opt)[n].width \in Nat /\ Fuses(opt)[n] \in Nat
      BY <1>1, CheckedFuse
    <3> QED
      BY <3>2, <3>3 DEF Padded
  <2> QED
    BY <2>1, <2>2
<1>2. InfoWords(opt) \in [InfoIndex -> {Ignore} \cup (Nat \X {0})]
  <2>1. Values(opt).info \in [DOMAIN Values(opt).info -> Nat]
    BY ValuesRead
  <2> QED
    BY <2>1 DEF InfoWords, Xored
<1>3. FuseWords(opt) = [i \in FuseIndex |-> FuseWords(opt)[i]]
  BY DEF FuseWords
<1> QED
  BY <1>1, <1>2, <1>3

\* A chip holds what is expected of a fuse exactly if it holds it at the number
\* of the fuse.
LEMMA FuseHoldsAtNumber ==
  ASSUME opt \in Invocation, opt.json # Bad, XmlAccepted, FusesAccepted,
         NEW n \in DOMAIN Fuses(opt), NEW c \in Chip, NEW value
  PROVE  FuseHolds(opt, c, n, value) <=>
           c.fuses[FuseIds(opt)[n].index] = Padded(FuseIds(opt)[n].width, value)
<1>1. CASE n = Blk6
  BY <1>1, CheckedFuse DEF FuseHolds
<1>2. CASE n # Blk6
  <2>1. PICK i \in DOMAIN opt.xml.fuses :
          /\ opt.xml \in Xml
          /\ opt.xml.fuses[i].name = n
          /\ opt.xml.fuses[i].offset = FuseIds(opt)[n].index
          /\ opt.xml.fuses[i].width = FuseIds(opt)[n].width
    BY <1>2, CheckedFuse
  <2>2. \A j \in DOMAIN opt.xml.fuses :
          opt.xml.fuses[j].name = n => opt.xml.fuses[j] = opt.xml.fuses[i]
    BY <2>1, XmlAssumption
  <2> QED
    BY <1>2, <2>1, <2>2 DEF FuseHolds
<1> QED
  BY <1>1, <1>2

\* What the boot ROM sees of a chip, through maps of the words that matter.
SeenFuses(c, fusemap) ==
  [i \in FuseIndex |-> IF i \in fusemap THEN c.fuses[i] ELSE Ignore]
SeenInfo(c, infomap) ==
  [i \in InfoIndex |-> IF i \in infomap THEN c.info[i] ELSE Ignore]

\* The boot ROM sees the words main hashed exactly on the chips the manifest was
\* written for.
LEMMA ExpectedIsSeen ==
  ASSUME opt \in Invocation, opt.json # Bad, XmlAccepted, FusesAccepted,
         DOMAIN Values(opt).info \subseteq InfoIndex, NEW c \in Chip
  PROVE  Expected(opt, c) <=>
           /\ SeenFuses(c, {i \in FuseIndex : FusesAt(opt, i) # {}}) = FuseWords(opt)
           /\ SeenInfo(c, DOMAIN Values(opt).info) = InfoWords(opt)
<1> DEFINE map == {i \in FuseIndex : FusesAt(opt, i) # {}}
           info == Values(opt).info
           number(n) == FuseIds(opt)[n].index
           FusesHold == \A n \in DOMAIN Fuses(opt) : FuseHolds(opt, c, n, Fuses(opt)[n])
           InfosHold == \A i \in DOMAIN info : c.info[i] = Xored(info[i])
<1>1. Expected(opt, c) <=> FusesHold /\ InfosHold
  <2>1. DOMAIN Fuses(opt) = DOMAIN Values(opt).fuses \cup {Blk6}
    BY DEF Fuses
  <2>2. \A n \in DOMAIN Fuses(opt) :
          Fuses(opt)[n] = IF n \in DOMAIN Values(opt).fuses THEN Values(opt).fuses[n] ELSE 0
    BY DEF Fuses
  <2>3. CASE opt.json = None
    BY <2>1, <2>2, <2>3, ValuesRead DEF Expected
  <2>4. CASE opt.json # None
    BY <2>1, <2>2, <2>4, ValuesRead DEF Expected
  <2> QED
    BY <2>3, <2>4
<1>2. FusesHold <=> SeenFuses(c, map) = FuseWords(opt)
  <2>1. \A n \in DOMAIN Fuses(opt) :
          FuseHolds(opt, c, n, Fuses(opt)[n]) <=>
            c.fuses[number(n)] = FuseWords(opt)[number(n)]
    BY FuseHoldsAtNumber, FuseWordOf
  <2>2. map = {number(n) : n \in DOMAIN Fuses(opt)}
    BY CheckedFuse DEF FusesAt
  <2>3. FusesHold <=> \A i \in map : c.fuses[i] = FuseWords(opt)[i]
    BY <2>1, <2>2
  <2>4. \A i \in FuseIndex \ map : FuseWords(opt)[i] = Ignore
    BY DEF FuseWords
  <2>5. FuseWords(opt) = [i \in FuseIndex |-> FuseWords(opt)[i]]
    BY DEF FuseWords
  <2>6. map \subseteq FuseIndex
    OBVIOUS
  <2> HIDE DEF map, FusesHold
  <2> QED
    BY <2>3, <2>4, <2>5, <2>6 DEF SeenFuses
<1>3. InfosHold <=> SeenInfo(c, DOMAIN info) = InfoWords(opt)
  BY DEF SeenInfo, InfoWords
<1> QED
  BY <1>1, <1>2, <1>3

\* The hash of an image depends on every field of the header but two.
LEMMA ImageHashFields ==
  ASSUME NEW h, IsHeader(h), NEW code
  PROVE  /\ ImageHash(h, code)[1].fuses_chk = h.fuses_chk
         /\ ImageHash(h, code)[1].info_chk = h.info_chk
         /\ \A s : /\ IsHeader([h EXCEPT !.signature = s])
                   /\ ImageHash([h EXCEPT !.signature = s], code) = ImageHash(h, code)
         /\ \A s : /\ IsHeader([h EXCEPT !.img_chk = s])
                   /\ ImageHash([h EXCEPT !.img_chk = s], code) = ImageHash(h, code)
<1> DEFINE blank(g) == [g EXCEPT !.signature = None, !.img_chk = None]
<1>1. blank(h) = [f \in HeaderField |->
                    IF f \in {"signature", "img_chk"} THEN None ELSE h[f]]
  BY DEF IsHeader, HeaderField
<1>2. ASSUME NEW s, NEW f \in {"signature", "img_chk"}
      PROVE  /\ IsHeader([h EXCEPT ![f] = s])
             /\ blank([h EXCEPT ![f] = s]) = blank(h)
  <2> DEFINE g == [h EXCEPT ![f] = s]
  <2>1. g = [e \in HeaderField |-> IF e = f THEN s ELSE h[e]]
    BY DEF IsHeader, HeaderField
  <2>2. IsHeader(g)
    BY <2>1 DEF IsHeader, HeaderField
  <2>3. \A e \in HeaderField \ {"signature", "img_chk"} : g[e] = h[e]
    BY <2>1
  <2>4. blank(g) = [e \in HeaderField |->
                      IF e \in {"signature", "img_chk"} THEN None ELSE g[e]]
    BY <2>2 DEF IsHeader, HeaderField
  <2> HIDE DEF g
  <2> QED
    BY <1>1, <2>2, <2>3, <2>4 DEF g
<1> QED
  BY <1>1, <1>2 DEF ImageHash, HeaderField

----------------------------------------------------------------------------
(* The inductive invariant.                                                *)

\* The initial state satisfies the inductive invariant.
LEMMA InitIInv == Init => IInv
BY ConstAssumption
   DEF Init, IInv, TypeOK, Checked, Prepared, Hashed, SignedNow, FilesOK, Label,
       Exit, Writing, FromHashes, FromPreload, FromInfos, FromFuses, FromXml,
       FromManifest

\* A step that ends the program, or is not a step of it, and touches no file.
LEMMA EndKeepsIInv ==
  ASSUME IInv, pc' = "idle", exit' \in Exit,
         UNCHANGED <<opt, locals, files, clock>>
  PROVE  IInv'
BY DEF IInv, TypeOK, Checked, Prepared, Hashed, SignedNow, FilesOK, Label,
       Writing, FromHashes, FromPreload, FromInfos, FromFuses, FromXml,
       FromManifest, locals, files

\* What was accepted of a command line stays so while the command line does.
LEMMA CheckedUnchanged ==
  ASSUME UNCHANGED opt
  PROVE  XmlAccepted' = XmlAccepted /\ FusesAccepted' = FusesAccepted
BY DEF XmlAccepted, FusesAccepted

\* Every action preserves the inductive invariant.
LEMMA NextIInv == IInv /\ [Next]_vars => IInv'
<1> SUFFICES ASSUME IInv, [Next]_vars PROVE IInv'
  OBVIOUS
<1> USE DEF IInv, TypeOK, Checked, Prepared, Hashed, SignedNow, FilesOK, Label, 
       Writing, FromHashes, FromPreload, FromInfos, FromFuses, FromXml,
       FromManifest, locals, files, Goto
<1>1. ASSUME NEW o \in Invocation, Start(o) PROVE IInv'
  BY <1>1 DEF Start, Exit
<1>2. ASSUME GetOptions PROVE IInv'
  <2>1. CASE Ends("segv") \/ Ends("usage")
    BY <1>2, <2>1, EndKeepsIInv DEF GetOptions, Ends, Exit
  <2>2. CASE Goto("key")
    BY <1>2, <2>2 DEF GetOptions
  <2> QED
    BY <1>2, <2>1, <2>2 DEF GetOptions
<1>3. ASSUME LoadKey PROVE IInv'
  <2>1. CASE Ends("nokey")
    BY <1>3, <2>1, EndKeepsIInv DEF LoadKey, Ends, Exit
  <2>2. CASE opt.key # Bad /\ Goto("elf")
    BY <1>3, <2>2 DEF LoadKey
  <2> QED
    BY <1>3, <2>1, <2>2 DEF LoadKey
<1>4. ASSUME LoadElf PROVE IInv'
  <2>1. CASE Ends("noelf")
    BY <1>4, <2>1, EndKeepsIInv DEF LoadElf, Ends, Exit
  <2>2. CASE Goto("header")
    BY <1>4, <2>2 DEF LoadElf
  <2> QED
    BY <1>4, <2>1, <2>2 DEF LoadElf
<1>5. ASSUME PrepareHeader PROVE IInv'
  <2>1. /\ IsHeader(hdr') /\ hdr'.keyid = N0inv[opt.key]
        /\ hdr'.signature = FillSignature
        /\ hdr'.fusemap = {} /\ hdr'.infomap = {}
    <3>1. PICK j \in Junk : hdr' =
            [signature |-> FillSignature, img_chk |-> None, tag |-> None,
             keyid |-> N0inv[opt.key], key |-> None, timestamp |-> clock,
             version |-> 0, p4cl |-> 0, policy |-> 0, board |-> NoBoard,
             fusemap |-> {}, infomap |-> {}, unset |-> j,
             fuses_chk |-> None, info_chk |-> None]
      BY <1>5 DEF PrepareHeader
    <3>2. DOMAIN hdr' = HeaderField /\ hdr' = [f \in DOMAIN hdr' |-> hdr'[f]]
      BY <3>1 DEF HeaderField
    <3> QED
      BY <3>1, <3>2 DEF IsHeader
  <2>2. SignatureOK(hdr'.signature)
    BY <2>1 DEF SignatureOK, FillSignature
  <2> QED
    BY <1>5, <2>1, <2>2 DEF PrepareHeader
<1>6. ASSUME ReadManifest PROVE IInv'
  <2>1. CASE opt.json = Bad
    BY <1>6, <2>1, EndKeepsIInv DEF ReadManifest, Ends, Exit
  <2>2. CASE opt.json # Bad
    BY <1>6, <2>2 DEF ReadManifest, IsHeader, HeaderField
  <2> QED
    BY <2>1, <2>2
<1>7. ASSUME CheckKeyid PROVE IInv'
  <2>1. CASE Ends("abort")
    BY <1>7, <2>1, EndKeepsIInv DEF CheckKeyid, Ends, Exit
  <2>2. CASE Values(opt).keyid = hdr.keyid /\ Goto("tag")
    BY <1>7, <2>2 DEF CheckKeyid
  <2> QED
    BY <1>7, <2>1, <2>2 DEF CheckKeyid
<1>8. ASSUME SetTag PROVE IInv'
  <2>1. CASE Ends("abort") /\ UNCHANGED hdr
    BY <1>8, <2>1, EndKeepsIInv DEF SetTag, Ends, Exit
  <2>2. CASE Goto("xml")
    BY <1>8, <2>2 DEF SetTag, IsHeader, HeaderField, Ends
  <2> QED
    BY <1>8, <2>1, <2>2 DEF SetTag
<1>9. ASSUME ReadXml PROVE IInv'
  <2>1. CASE Ends("abort")
    BY <1>9, <2>1, EndKeepsIInv DEF ReadXml, Ends, Exit
  <2>2. CASE XmlAccepted /\ Goto("fuses")
    BY <1>9, <2>2 DEF ReadXml, XmlAccepted
  <2> QED
    BY <1>9, <2>1, <2>2 DEF ReadXml
<1> USE CheckedUnchanged
<1>10. ASSUME SetFuses PROVE IInv'
  <2>1. CASE Ends("abort") /\ UNCHANGED <<hdr, fuse_values>>
    BY <1>10, <2>1, EndKeepsIInv DEF SetFuses, Ends, Exit
  <2>2. CASE FusesAccepted /\ Goto("infos")
    <3>1. fuse_values' = FuseWords(opt)
          /\ hdr' = [hdr EXCEPT !.fusemap = {i \in FuseIndex : FusesAt(opt, i) # {}}]
      BY <1>10, <2>2 DEF SetFuses, Ends
    <3>2. FuseWords(opt) \in [FuseIndex -> {Ignore} \cup (Nat \X Nat)]
      BY <1>10, <2>2, WordsType DEF SetFuses
    <3> QED
      BY <1>10, <2>2, <3>1, <3>2 DEF SetFuses, IsHeader, HeaderField
  <2> QED
    BY <1>10, <2>1, <2>2 DEF SetFuses
<1>11. ASSUME SetInfos PROVE IInv'
  <2>1. CASE Ends("abort") /\ UNCHANGED <<hdr, info_values>>
    BY <1>11, <2>1, EndKeepsIInv DEF SetInfos, Ends, Exit
  <2>2. CASE DOMAIN Values(opt).info \subseteq InfoIndex /\ Goto("preload")
    <3>1. info_values' = InfoWords(opt)
          /\ hdr' = [hdr EXCEPT !.infomap = DOMAIN Values(opt).info]
      BY <1>11, <2>2 DEF SetInfos, Ends
    <3>2. InfoWords(opt) \in [InfoIndex -> {Ignore} \cup (Nat \X {0})]
      BY <1>11, <2>2, WordsType DEF SetInfos
    <3> QED
      BY <1>11, <2>2, <3>1, <3>2 DEF SetInfos, IsHeader, HeaderField
  <2> QED
    BY <1>11, <2>1, <2>2 DEF SetInfos
<1>12. ASSUME LoadSignature PROVE IInv'
  <2>1. CASE Ends("abort") /\ UNCHANGED hdr
    BY <1>12, <2>1, EndKeepsIInv DEF LoadSignature, Ends, Exit
  <2>2. CASE Goto("hash") /\ UNCHANGED hdr
    BY <1>12, <2>2 DEF LoadSignature
  <2>3. CASE Loadable(sigFile) /\ Goto("hash") /\ hdr' = [hdr EXCEPT !.signature = sigFile]
    BY <1>12, <2>3 DEF LoadSignature, Loadable, IsHeader, HeaderField
  <2> QED
    BY <1>12, <2>1, <2>2, <2>3 DEF LoadSignature
<1>13. ASSUME HashImage PROVE IInv'
  <2> DEFINE h3 == [[[hdr EXCEPT !.key = opt.key] EXCEPT !.fuses_chk = fuse_values]
                      EXCEPT !.info_chk = info_values]
             digest == ImageHash(h3, opt.elf)
  <2>1. /\ pc = "hash" /\ pc' = "hashes"
        /\ mem' = [hdr |-> [h3 EXCEPT !.img_chk = digest], code |-> opt.elf]
        /\ hashes' = [img |-> digest, fuses |-> fuse_values, info |-> info_values]
        /\ UNCHANGED <<opt, hdr, fuse_values, info_values, files, clock, exit>>
    BY <1>13 DEF HashImage
  <2>2. /\ IsHeader(h3)
        /\ h3.key = opt.key /\ h3.fuses_chk = fuse_values
        /\ h3.info_chk = info_values
        /\ \A f \in {"keyid", "fusemap", "infomap", "signature"} : h3[f] = hdr[f]
    BY <2>1 DEF IsHeader, HeaderField
  <2>3. /\ IsHeader(mem'.hdr)
        /\ \A f \in HeaderField \ {"img_chk"} : mem'.hdr[f] = h3[f]
        /\ mem'.hdr.img_chk = digest
        /\ ImageHash(mem'.hdr, opt.elf) = digest
    <3> HIDE DEF digest, h3
    <3>1. mem'.hdr = [h3 EXCEPT !.img_chk = digest]
      BY <2>1
    <3>2. IsHeader(mem'.hdr) /\ ImageHash(mem'.hdr, opt.elf) = ImageHash(h3, opt.elf)
      BY <2>2, <3>1, ImageHashFields
    <3> QED
      BY <2>2, <3>1, <3>2 DEF IsHeader, HeaderField, digest
  <2>4. Hashed'
    <3> HIDE DEF digest, h3
    <3> QED
      BY <2>1, <2>2, <2>3 DEF HeaderField
  <2> QED
    BY <2>1, <2>4
<1>14. ASSUME WriteHashes PROVE IInv'
  <2>1. hashesFile' \notin {Absent, Torn} => Consistent(hashesFile')
    <3>1. Consistent(hashes)
      BY <1>14, ImageHashFields DEF WriteHashes, Consistent
    <3> QED
      BY <1>14, <3>1 DEF WriteHashes
  <2> QED
    BY <1>14, <2>1 DEF WriteHashes
<1>15. ASSUME KeySign PROVE IInv'
  <2>1. CASE Ends("abort") /\ UNCHANGED mem
    BY <1>15, <2>1, EndKeepsIInv DEF KeySign, Ends, Exit
  <2> SUFFICES ASSUME pc = "sign", Goto("generate"),
                      UNCHANGED <<opt, hdr, fuse_values, info_values, hashes,
                                  files, clock>>,
                      \/ mem' = [mem EXCEPT !.hdr.signature = Montgomery(Signature)]
                      \/ BnFails /\ mem' = [mem EXCEPT !.hdr.signature.form = "swapped"]
               PROVE  IInv'
    BY <1>15, <2>1 DEF KeySign
  <2>2. Consistent(hashes)
    BY ImageHashFields DEF Consistent
  <2>3. SignatureOK(Signature) /\ SignatureOK(mem.hdr.signature)
    BY <2>2 DEF Signature, SignatureOK, RawSignature
  <2>4. PICK s : /\ SignatureOK(s)
                 /\ mem' = [mem EXCEPT !.hdr = [mem.hdr EXCEPT !.signature = s]]
                 /\ BnFails \/ s = Montgomery(Signature)
    <3>1. CASE mem' = [mem EXCEPT !.hdr.signature = Montgomery(Signature)]
      <4>1. SignatureOK(Montgomery(Signature))
        BY <2>3 DEF SignatureOK, Montgomery
      <4> QED
        BY <3>1, <4>1
    <3>2. CASE BnFails /\ mem' = [mem EXCEPT !.hdr.signature.form = "swapped"]
      <4> DEFINE r == [mem.hdr.signature EXCEPT !.form = "swapped"]
      <4>1. SignatureOK(r)
        BY <2>3 DEF SignatureOK
      <4>2. mem' = [mem EXCEPT !.hdr = [mem.hdr EXCEPT !.signature = r]]
        BY <3>2
      <4> QED
        BY <3>2, <4>1, <4>2
    <3> QED
      BY <3>1, <3>2
  <2>5. mem'.hdr = [mem.hdr EXCEPT !.signature = s] /\ mem'.code = mem.code
        /\ mem' = [f \in {"hdr", "code"} |-> mem'[f]]
    BY <2>4
  <2>6. /\ IsHeader(mem'.hdr)
        /\ ImageHash(mem'.hdr, mem'.code) = ImageHash(mem.hdr, mem.code)
        /\ mem'.hdr.signature = s
        /\ \A f \in HeaderField \ {"signature"} : mem'.hdr[f] = mem.hdr[f]
    <3> DEFINE h == mem.hdr
               g == [h EXCEPT !.signature = s]
    <3>1. IsHeader(h)
      OBVIOUS
    <3>2. IsHeader(g) /\ ImageHash(g, mem.code) = ImageHash(h, mem.code)
      <4> HIDE DEF h, IInv, Hashed
      <4> QED
        BY <3>1, ImageHashFields
    <3>3. g.signature = s /\ \A f \in HeaderField \ {"signature"} : g[f] = h[f]
      BY <3>1 DEF IsHeader, HeaderField
    <3> QED
      BY <2>5, <3>2, <3>3
  <2>7. Hashed'
    BY <2>4, <2>5, <2>6 DEF HeaderField
  <2>8. SignedNow'
    BY <2>3, <2>4, <2>6 DEF Signature, SignsAfresh, Montgomery, SignatureOK
  <2> QED
    BY <2>5, <2>7, <2>8
<1>16. ASSUME OpenOutput PROVE IInv'
  <2>1. CASE Ends("ok") /\ UNCHANGED out
    BY <1>16, <2>1, EndKeepsIInv DEF OpenOutput, Ends, Exit
  <2>2. CASE out' = Torn /\ Goto("write")
    BY <1>16, <2>2 DEF OpenOutput
  <2> QED
    BY <1>16, <2>1, <2>2 DEF OpenOutput
<1>17. ASSUME WriteOutput PROVE IInv'
  BY <1>17 DEF WriteOutput, Ends, Exit
<1>18. ASSUME Kill PROVE IInv'
  BY <1>18, EndKeepsIInv DEF Kill, Ends, Exit
<1>19. ASSUME NEW k \in Key, ExternalSigner(k) PROVE IInv'
  BY <1>19 DEF ExternalSigner, SignatureOK, RawSignature
<1>20. ASSUME Tick PROVE IInv'
  BY <1>20, ConstAssumption DEF Tick
<1>21. CASE UNCHANGED vars
  BY <1>21 DEF vars
<1> QED
  BY <1>1, <1>2, <1>3, <1>4, <1>5, <1>6, <1>7, <1>8, <1>9, <1>10, <1>11, <1>12,
     <1>13, <1>14, <1>15, <1>16, <1>17, <1>18, <1>19, <1>20, <1>21 DEF Next

\* The invariant holds in every behaviour, over all invocations of the signer.
THEOREM Inductive == Spec => []IInv
BY InitIInv, NextIInv, PTL DEF Spec

\* Every variable keeps to its type.
THEOREM TypeCorrect == Spec => []TypeOK
<1>1. IInv => TypeOK
  BY DEF IInv
<1> QED
  BY <1>1, Inductive, PTL

\* The hashes the boot ROM computes from an image that is about to be written.
Seen(c) ==
  [img |-> ImageHash(mem.hdr, mem.code),
   fuses |-> SeenFuses(c, mem.hdr.fusemap),
   info |-> SeenInfo(c, mem.hdr.infomap)]

\* An image about to be written boots on a chip exactly if its signature is one
\* by its key over what the boot ROM sees there, and the chip shows the words
\* that were hashed exactly if it is one the manifest was written for.
LEMMA BootsOnChip ==
  ASSUME IInv, Signed, NEW c \in Chip
  PROVE  /\ Boots(mem, c) <=>
              mem.hdr.signature = Montgomery(RawSignature(opt.key, Seen(c)))
         /\ Expected(opt, c) <=>
              Seen(c).fuses = mem.hdr.fuses_chk /\ Seen(c).info = mem.hdr.info_chk
<1> USE DEF Signed, FromHashes, FromPreload, FromInfos, FromFuses, FromXml,
            FromManifest, Writing
<1>1. /\ opt \in Invocation /\ opt.json # Bad
      /\ XmlAccepted /\ FusesAccepted /\ DOMAIN Values(opt).info \subseteq InfoIndex
      /\ mem.hdr.key = opt.key /\ mem.hdr.keyid = N0inv[opt.key]
      /\ mem.hdr.fusemap = {i \in FuseIndex : FusesAt(opt, i) # {}}
      /\ mem.hdr.infomap = DOMAIN Values(opt).info
      /\ mem.hdr.fuses_chk = FuseWords(opt)
      /\ mem.hdr.info_chk = InfoWords(opt)
  BY DEF IInv, Checked, Prepared, Hashed
<1>2. Boots(mem, c) <=> mem.hdr.signature = Montgomery(RawSignature(opt.key, Seen(c)))
  BY <1>1 DEF Boots, Seen, SeenFuses, SeenInfo
<1>3. Expected(opt, c) <=>
        Seen(c).fuses = mem.hdr.fuses_chk /\ Seen(c).info = mem.hdr.info_chk
  BY <1>1, ExpectedIsSeen DEF Seen
<1> QED
  BY <1>2, <1>3

\* A chip that starts an image about to be written is one its manifest was
\* written for.
LEMMA OnlyExpectedNow ==
  ASSUME IInv, Signed, NEW c \in Chip, Boots(mem, c)
  PROVE  Expected(opt, c)
<1>1. /\ mem.hdr.signature = Montgomery(RawSignature(opt.key, Seen(c)))
      /\ SignatureOK(mem.hdr.signature) /\ IsHeader(mem.hdr)
      /\ opt.key \in Key
  <2>1. pc \in {"elf"} \cup FromHashes \cup FromManifest
    BY DEF Signed, FromHashes, Writing
  <2>2. opt \in Invocation /\ opt.key # Bad
    BY <2>1
    DEF IInv, Checked, Signed, FromHashes, FromPreload, FromInfos, FromFuses,
        FromXml, FromManifest, Writing
  <2> QED
    BY <2>2, BootsOnChip, InvocationAssumption
    DEF IInv, Hashed, Signed, FromHashes, Writing
<1>2. mem.hdr.signature.by = opt.key /\ mem.hdr.signature.over = Seen(c)
  BY <1>1 DEF Montgomery, RawSignature
<1>3. Consistent(Seen(c))
  BY <1>1, <1>2, ConstAssumption DEF SignatureOK
<1>4. Seen(c).fuses = mem.hdr.fuses_chk /\ Seen(c).info = mem.hdr.info_chk
  BY <1>1, <1>3, ImageHashFields DEF Consistent, Seen
<1> QED
  BY <1>4, BootsOnChip

\* No image starts on a chip its manifest was not written for, whoever signed
\* it, over whichever hashes, and whatever failed on the way.
THEOREM OnlyExpectedChips == Spec => []BootsOnlyOnExpectedChips
<1>1. IInv => BootsOnlyOnExpectedChips
  BY OnlyExpectedNow DEF BootsOnlyOnExpectedChips
<1> QED
  BY <1>1, Inductive, PTL

\* An image this program signed itself starts on every chip its manifest was
\* written for, as long as the library of big numbers does not fail.
THEOREM AllExpectedChips ==
  ASSUME ~BnFails
  PROVE  Spec => []BootsOnExpectedChips
<1>1. ASSUME IInv, Signed, SignsAfresh(opt), NEW c \in Chip, Expected(opt, c)
      PROVE  Boots(mem, c)
  <2>1. mem.hdr.signature = Montgomery(RawSignature(opt.key, hashes))
    BY <1>1 DEF IInv, SignedNow, Signed, Writing
  <2>2. /\ hashes = [img |-> ImageHash(mem.hdr, mem.code),
                     fuses |-> mem.hdr.fuses_chk, info |-> mem.hdr.info_chk]
    BY <1>1 DEF IInv, Hashed, Signed, FromHashes, Writing
  <2>3. hashes = Seen(c)
    BY <1>1, <2>2, BootsOnChip DEF Seen
  <2> QED
    BY <1>1, <2>1, <2>3, BootsOnChip
<1>2. IInv => BootsOnExpectedChips
  BY <1>1 DEF BootsOnExpectedChips
<1> QED
  BY <1>2, Inductive, PTL
=============================================================================
