---------------------------- MODULE ResigningProofs ----------------------------
(***************************************************************************)
(* Theorems about invocations of CodeSigner that follow one another: one   *)
(* leaves hashes for an external signer (--hashes), a later one builds an  *)
(* image with the signature made of them (--signature).                    *)
(***************************************************************************)
EXTENDS CodeSignerProofs

\* What goes into the header of the image that o makes, if time() gives t and
\* the stack holds j.
Timestamp(o, t) ==
  IF Values(o).timestamp # 0 THEN Values(o).timestamp ELSE t
Tag(o) == IF o.cros THEN "cros" ELSE Values(o).tag
Board(o) ==
  IF Values(o).board.type # 0 /\ Values(o).board.flags # 0
  THEN Values(o).board ELSE NoBoard

\* That header, as it is hashed, and the hashes.
HashedHeader(o, t, j) ==
  [signature |-> None, img_chk |-> None, tag |-> Tag(o),
   keyid |-> N0inv[o.key], key |-> o.key, timestamp |-> Timestamp(o, t),
   version |-> Values(o).version, p4cl |-> Values(o).p4cl,
   policy |-> Values(o).policy, board |-> Board(o),
   fusemap |-> {i \in FuseIndex : FusesAt(o, i) # {}},
   infomap |-> DOMAIN Values(o).info, unset |-> j,
   fuses_chk |-> FuseWords(o), info_chk |-> InfoWords(o)]
HashesOf(o, t, j) ==
  [img |-> <<HashedHeader(o, t, j), o.elf>>, fuses |-> FuseWords(o),
   info |-> InfoWords(o)]

\* The header main is preparing is this one, so far as it is filled in.
Made(t, j) ==
  /\ pc \in FromManifest => hdr.unset = j
  /\ pc = "manifest" => hdr.timestamp = t
  /\ pc \in {"keyid"} \cup FromXml =>
       /\ hdr.timestamp = Timestamp(opt, t) /\ hdr.version = Values(opt).version
       /\ hdr.p4cl = Values(opt).p4cl /\ hdr.policy = Values(opt).policy
       /\ hdr.board = Board(opt)
  /\ pc \in {"xml"} \cup FromFuses => hdr.tag = Tag(opt)
  /\ pc \in FromHashes => hashes = HashesOf(opt, t, j)

\* Hashes and signatures that were left for later are of an invocation with
\* --hashes.
Left(hs) ==
  \E o \in Invocation, t \in 0..MaxTime, j \in Junk :
    o.hashes /\ hs = HashesOf(o, t, j)
FilesMade ==
  /\ hashesFile \notin {Absent, Torn} => Left(hashesFile)
  /\ sigFile \notin {Absent, Torn} =>
       /\ sigFile.by \in Key /\ Left(sigFile.over)
       /\ sigFile = RawSignature(sigFile.by, sigFile.over)

\* With --signature it is the file that ends up in the image.
Preloaded ==
  /\ pc \in {"hash"} \cup FromHashes /\ opt.signature =>
       sigFile \notin {Absent, Torn} /\ hdr.signature = sigFile
  /\ pc \in {"hashes", "sign"} => mem.hdr.signature = hdr.signature
  /\ pc \in Writing /\ ~BnFails /\ ~SignsAfresh(opt) =>
       mem.hdr.signature = Montgomery(hdr.signature)

\* The inductive invariant.
RInv ==
  /\ IInv /\ FilesMade /\ Preloaded
  /\ \E t \in 0..MaxTime, j \in Junk : Made(t, j)

\* Command lines that ask for the same image.
SameInputs(o, p) ==
  \A f \in {"key", "elf", "json", "xml", "cros"} : o[f] = p[f]

----------------------------------------------------------------------------
(* The steps.                                                              *)

\* The hashes do not depend on the rest of the command line, and on the clock only
\* through the time in the header.
LEMMA SameHashes ==
  ASSUME NEW o, NEW p, SameInputs(o, p), NEW t, NEW u, NEW j,
         Timestamp(o, u) = Timestamp(p, t)
  PROVE  HashesOf(o, u, j) = HashesOf(p, t, j)
<1>1. /\ o.key = p.key /\ o.elf = p.elf /\ o.json = p.json
      /\ o.xml = p.xml /\ o.cros = p.cros
  BY DEF SameInputs
<1>2. Values(o) = Values(p)
  BY <1>1 DEF Values
<1>3. Fuses(o) = Fuses(p) /\ FuseDefs(o) = FuseDefs(p)
  BY <1>1, <1>2 DEF Fuses, FuseDefs
<1>4. FuseIds(o) = FuseIds(p)
  BY <1>3 DEF FuseIds
<1>5. \A i : FusesAt(o, i) = FusesAt(p, i)
  BY <1>3, <1>4 DEF FusesAt
<1>6. FuseWords(o) = FuseWords(p)
  <2>1. ASSUME NEW i \in FuseIndex  PROVE FuseWords(o)[i] = FuseWords(p)[i]
    <3> DEFINE n == CHOOSE n \in FusesAt(o, i) : TRUE
               m == CHOOSE m \in FusesAt(p, i) : TRUE
    <3>1. FusesAt(o, i) = FusesAt(p, i)  BY <1>5
    <3>2. n = m  BY <3>1
    <3>3. FuseWords(o)[i] = IF FusesAt(o, i) = {} THEN Ignore
                            ELSE Padded(FuseIds(o)[n].width, Fuses(o)[n])
      BY DEF FuseWords
    <3>4. FuseWords(p)[i] = IF FusesAt(p, i) = {} THEN Ignore
                            ELSE Padded(FuseIds(p)[m].width, Fuses(p)[m])
      BY DEF FuseWords
    <3> HIDE DEF n, m
    <3> QED  BY <1>3, <1>4, <3>1, <3>2, <3>3, <3>4
  <2>2. /\ FuseWords(o) = [i \in FuseIndex |-> FuseWords(o)[i]]
        /\ FuseWords(p) = [i \in FuseIndex |-> FuseWords(p)[i]]
    BY DEF FuseWords
  <2> QED  BY <2>1, <2>2
<1>8. InfoWords(o) = InfoWords(p)
  BY <1>2 DEF InfoWords
<1>7. Tag(o) = Tag(p) /\ Board(o) = Board(p)
  BY <1>1, <1>2 DEF Tag, Board
<1> QED
  BY <1>1, <1>2, <1>5, <1>6, <1>7, <1>8 DEF HashesOf, HashedHeader

\* A complete header hashes as HashedHeader says.
LEMMA HeaderHashed ==
  ASSUME NEW h, IsHeader(h), NEW o, NEW t, NEW j,
         \A f \in HeaderField \ {"signature", "img_chk"} :
           h[f] = HashedHeader(o, t, j)[f]
  PROVE  ImageHash(h, o.elf) = <<HashedHeader(o, t, j), o.elf>>
<1> DEFINE g == [h EXCEPT !.signature = None, !.img_chk = None]
           k == HashedHeader(o, t, j)
<1>1. g = [f \in HeaderField |->
             IF f \in {"signature", "img_chk"} THEN None ELSE h[f]]
  BY DEF IsHeader, HeaderField
<1>2. /\ k = [f \in HeaderField |-> k[f]]
      /\ k.signature = None /\ k.img_chk = None
  BY DEF HashedHeader, HeaderField
<1> HIDE DEF k
<1>3. g = k
  BY <1>1, <1>2 DEF k
<1> QED
  BY <1>3 DEF ImageHash, k

\* Whoever signs, what was signed is in the file.
LEMMA LeftStays == \A hs : Left(hs)' <=> Left(hs)
  BY DEF Left

\* Before the first invocation nothing was left.
LEMMA InitRInv == Init => RInv
<1> SUFFICES ASSUME Init  PROVE RInv  OBVIOUS
<1>1. PICK j \in Junk : TRUE  BY ConstAssumption
<1>2. 0 \in 0..MaxTime  BY ConstAssumption
<1>3. Made(0, j)
  BY DEF Init, Made, FromManifest, FromXml, FromFuses, FromInfos, FromPreload,
         FromHashes, Writing
<1>4. FilesMade /\ Preloaded
  BY DEF Init, FilesMade, Preloaded, FromHashes, Writing
<1> QED  BY <1>2, <1>3, <1>4, InitIInv DEF RInv

\* A step that ends the program, or is not a step of it, and touches no file.
LEMMA EndKeepsRInv ==
  ASSUME RInv, IInv', pc' = "idle", UNCHANGED <<opt, locals, files, clock>>
  PROVE  RInv'
<1> USE DEF FromManifest, FromXml, FromFuses, FromInfos, FromPreload, FromHashes,
            Writing
<1>1. PICK j \in Junk : TRUE  BY ConstAssumption
<1>2. 0 \in 0..MaxTime /\ Made(0, j)'
  BY ConstAssumption DEF Made
<1>3. FilesMade'  BY LeftStays DEF RInv, FilesMade, files
<1>4. Preloaded'  BY DEF Preloaded
<1> QED  BY <1>2, <1>3, <1>4 DEF RInv

\* A stage of main before the image is hashed keeps the header as it should be.
LEMMA PreparingKeepsRInv ==
  ASSUME RInv, IInv', pc' \notin {"idle", "hash"} \cup FromHashes,
         UNCHANGED files, \E t \in 0..MaxTime, j \in Junk : Made(t, j)'
  PROVE  RInv'
<1>1. FilesMade'  BY LeftStays DEF RInv, FilesMade, files
<1>2. Preloaded'  BY DEF Preloaded, FromHashes, Writing
<1>3. \E t \in 0..MaxTime, j \in Junk : Made(t, j)'  OBVIOUS
<1> QED  BY <1>1, <1>2, <1>3 DEF RInv

\* Every stage up to the hashing of the image.
LEMMA EarlyStepsRInv ==
  ASSUME RInv, IInv',
         \/ \E o \in Invocation : Start(o)
         \/ GetOptions \/ LoadKey \/ LoadElf \/ PrepareHeader \/ ReadManifest
         \/ CheckKeyid \/ SetTag \/ ReadXml \/ SetFuses \/ SetInfos
  PROVE  RInv'
<1> USE DEF FromManifest, FromXml, FromFuses, FromInfos, FromPreload, FromHashes,
            Writing, Goto
<1>0. PICK t \in 0..MaxTime, j \in Junk : Made(t, j)
  BY DEF RInv
<1>1. ASSUME NEW o \in Invocation, Start(o)  PROVE RInv'
  <2>1. Made(t, j)'  BY <1>1 DEF Start, Made
  <2> QED  BY <1>1, <2>1, PreparingKeepsRInv DEF Start
<1>2. CASE GetOptions
  <2>1. CASE pc' = "idle"  BY <1>2, <2>1, EndKeepsRInv DEF GetOptions
  <2>2. CASE pc' = "key"
    <3>1. Made(t, j)'  BY <2>2 DEF Made
    <3> QED  BY <1>2, <2>2, <3>1, PreparingKeepsRInv DEF GetOptions
  <2> QED  BY <1>2, <2>1, <2>2 DEF GetOptions, Ends
<1>3. CASE LoadKey
  <2>1. CASE pc' = "idle"  BY <1>3, <2>1, EndKeepsRInv DEF LoadKey
  <2>2. CASE pc' = "elf"
    <3>1. Made(t, j)'  BY <2>2 DEF Made
    <3> QED  BY <1>3, <2>2, <3>1, PreparingKeepsRInv DEF LoadKey
  <2> QED  BY <1>3, <2>1, <2>2 DEF LoadKey, Ends
<1>4. CASE LoadElf
  <2>1. CASE pc' = "idle"  BY <1>4, <2>1, EndKeepsRInv DEF LoadElf
  <2>2. CASE pc' = "header"
    <3>1. Made(t, j)'  BY <2>2 DEF Made
    <3> QED  BY <1>4, <2>2, <3>1, PreparingKeepsRInv DEF LoadElf
  <2> QED  BY <1>4, <2>1, <2>2 DEF LoadElf, Ends
<1>5. CASE PrepareHeader
  <2>1. PICK i \in Junk : hdr' =
            [signature |-> FillSignature, img_chk |-> None, tag |-> None,
             keyid |-> N0inv[opt.key], key |-> None, timestamp |-> clock,
             version |-> 0, p4cl |-> 0, policy |-> 0, board |-> NoBoard,
             fusemap |-> {}, infomap |-> {}, unset |-> i,
             fuses_chk |-> None, info_chk |-> None]
    BY <1>5 DEF PrepareHeader
  <2>2. pc' = "manifest" /\ UNCHANGED files  BY <1>5 DEF PrepareHeader
  <2>3. hdr'.unset = i /\ hdr'.timestamp = clock  BY <2>1
  <2>4. Made(clock, i)'
    <3>1. clock' = clock  BY <1>5 DEF PrepareHeader
    <3> QED  BY <2>2, <2>3, <3>1 DEF Made
  <2>5. clock \in 0..MaxTime  BY DEF RInv, IInv, TypeOK
  <2>6. clock' = clock  BY <1>5 DEF PrepareHeader
  <2>7. \E u \in 0..MaxTime, k \in Junk : Made(u, k)'
    BY <2>3, <2>2, <2>5 DEF Made
  <2> QED  BY <2>2, <2>7, PreparingKeepsRInv
<1>6. CASE ReadManifest
  <2>1. CASE opt.json = Bad  BY <1>6, <2>1, EndKeepsRInv DEF ReadManifest, Ends, locals
  <2>2. CASE opt.json # Bad
    <3> DEFINE v == Values(opt)
    <3>1. /\ hdr' = [hdr EXCEPT
                     !.p4cl = v.p4cl, !.version = v.version, !.policy = v.policy,
                     !.timestamp = IF v.timestamp # 0 THEN v.timestamp ELSE @,
                     !.board = IF v.board.type # 0 /\ v.board.flags # 0
                               THEN v.board ELSE NoBoard]
          /\ pc = "manifest" /\ pc' = "keyid" /\ opt' = opt /\ UNCHANGED files
      BY <1>6, <2>2 DEF ReadManifest
    <3>2. IsHeader(hdr)  BY <3>1 DEF RInv, IInv, Prepared
    <3>3. hdr.timestamp = t /\ hdr.unset = j  BY <1>0, <3>1 DEF Made
    <3>4. /\ hdr'.p4cl = v.p4cl /\ hdr'.version = v.version
          /\ hdr'.policy = v.policy /\ hdr'.timestamp = Timestamp(opt, t)
          /\ hdr'.board = Board(opt) /\ hdr'.unset = j
      BY <3>1, <3>2, <3>3 DEF IsHeader, HeaderField, Timestamp, Board
    <3>5. Made(t, j)'  BY <3>1, <3>4 DEF Made
    <3> QED  BY <3>1, <3>5, PreparingKeepsRInv
  <2> QED  BY <2>1, <2>2
<1>7. CASE CheckKeyid
  <2>1. CASE pc' = "idle"  BY <1>7, <2>1, EndKeepsRInv DEF CheckKeyid
  <2>2. CASE pc' = "tag"
    <3>1. Made(t, j)'  BY <1>0, <1>7, <2>2 DEF Made, CheckKeyid, locals
    <3> QED  BY <1>7, <2>2, <3>1, PreparingKeepsRInv DEF CheckKeyid
  <2> QED  BY <1>7, <2>1, <2>2 DEF CheckKeyid, Ends
<1>8. CASE SetTag
  <2>1. CASE Ends("abort") /\ UNCHANGED hdr
    BY <1>8, <2>1, EndKeepsRInv DEF SetTag, Ends, locals
  <2>2. CASE /\ hdr' = [hdr EXCEPT !.tag = IF opt.cros THEN "cros" ELSE Values(opt).tag]
             /\ Goto("xml")
    <3>1. IsHeader(hdr) /\ pc = "tag" /\ pc' = "xml" /\ opt' = opt /\ UNCHANGED files
      BY <1>8, <2>2 DEF SetTag, RInv, IInv, Prepared
    <3>2. /\ hdr'.tag = Tag(opt)
          /\ \A f \in HeaderField \ {"tag"} : hdr'[f] = hdr[f]
      BY <2>2, <3>1 DEF IsHeader, HeaderField, Tag
    <3>3. Made(t, j)'  BY <1>0, <3>1, <3>2 DEF Made, HeaderField
    <3> QED  BY <3>1, <3>3, PreparingKeepsRInv
  <2> QED  BY <1>8, <2>1, <2>2 DEF SetTag
<1>9. CASE ReadXml
  <2>1. CASE pc' = "idle"  BY <1>9, <2>1, EndKeepsRInv DEF ReadXml
  <2>2. CASE pc' = "fuses"
    <3>1. Made(t, j)'  BY <1>0, <1>9, <2>2 DEF Made, ReadXml, locals
    <3> QED  BY <1>9, <2>2, <3>1, PreparingKeepsRInv DEF ReadXml
  <2> QED  BY <1>9, <2>1, <2>2 DEF ReadXml, Ends
<1>10. CASE SetFuses
  <2>1. CASE Ends("abort") /\ UNCHANGED <<hdr, fuse_values>>
    BY <1>10, <2>1, EndKeepsRInv DEF SetFuses, Ends, locals
  <2>2. CASE /\ hdr' = [hdr EXCEPT !.fusemap = {i \in FuseIndex : FusesAt(opt, i) # {}}]
             /\ Goto("infos")
    <3>1. IsHeader(hdr) /\ pc = "fuses" /\ pc' = "infos" /\ opt' = opt /\ UNCHANGED files
      BY <1>10, <2>2 DEF SetFuses, RInv, IInv, Prepared
    <3>2. \A f \in HeaderField \ {"fusemap"} : hdr'[f] = hdr[f]
      BY <2>2, <3>1 DEF IsHeader, HeaderField
    <3>3. Made(t, j)'  BY <1>0, <3>1, <3>2 DEF Made, HeaderField
    <3> QED  BY <3>1, <3>3, PreparingKeepsRInv
  <2> QED  BY <1>10, <2>1, <2>2 DEF SetFuses
<1>11. CASE SetInfos
  <2>1. CASE Ends("abort") /\ UNCHANGED <<hdr, info_values>>
    BY <1>11, <2>1, EndKeepsRInv DEF SetInfos, Ends, locals
  <2>2. CASE /\ hdr' = [hdr EXCEPT !.infomap = DOMAIN Values(opt).info]
             /\ Goto("preload")
    <3>1. IsHeader(hdr) /\ pc = "infos" /\ pc' = "preload" /\ opt' = opt /\ UNCHANGED files
      BY <1>11, <2>2 DEF SetInfos, RInv, IInv, Prepared
    <3>2. \A f \in HeaderField \ {"infomap"} : hdr'[f] = hdr[f]
      BY <2>2, <3>1 DEF IsHeader, HeaderField
    <3>3. Made(t, j)'  BY <1>0, <3>1, <3>2 DEF Made, HeaderField
    <3> QED  BY <3>1, <3>3, PreparingKeepsRInv
  <2> QED  BY <1>11, <2>1, <2>2 DEF SetInfos
<1> QED
  BY <1>1, <1>2, <1>3, <1>4, <1>5, <1>6, <1>7, <1>8, <1>9, <1>10, <1>11

\* The signature that --signature asks for is read.
LEMMA LoadSignatureRInv == RInv /\ IInv' /\ LoadSignature => RInv'
<1> SUFFICES ASSUME RInv, IInv', LoadSignature  PROVE RInv'  OBVIOUS
<1> USE DEF FromManifest, FromXml, FromFuses, FromInfos, FromPreload, FromHashes,
            Writing
<1>1. PICK t \in 0..MaxTime, j \in Junk : Made(t, j)
  BY DEF RInv
<1>2. CASE Ends("abort") /\ UNCHANGED hdr
  BY <1>2, EndKeepsRInv DEF LoadSignature, Ends, locals
<1>3. CASE Goto("hash")
  <2>1. pc = "preload" /\ pc' = "hash" /\ opt' = opt /\ UNCHANGED files
    BY <1>3 DEF LoadSignature, Goto
  <2>2. IsHeader(hdr)  BY <2>1 DEF RInv, IInv, Prepared
  <2>3. \/ ~opt.signature /\ hdr' = hdr
        \/ Loadable(sigFile) /\ hdr' = [hdr EXCEPT !.signature = sigFile]
    BY <1>3 DEF LoadSignature, Ends, Goto
  <2>4. /\ \A f \in HeaderField \ {"signature"} : hdr'[f] = hdr[f]
        /\ ~opt.signature \/ (Loadable(sigFile) /\ hdr'.signature = sigFile)
    BY <2>2, <2>3 DEF IsHeader, HeaderField
  <2>5. Made(t, j)'  BY <1>1, <2>1, <2>4 DEF Made, HeaderField
  <2>6. Preloaded'  BY <2>1, <2>4 DEF Preloaded, Loadable, files
  <2>7. FilesMade'  BY <2>1, LeftStays DEF RInv, FilesMade, files
  <2> QED  BY <2>5, <2>6, <2>7 DEF RInv
<1> QED  BY <1>2, <1>3 DEF LoadSignature

\* The image is hashed.
LEMMA HashImageRInv == RInv /\ IInv' /\ HashImage => RInv'
<1> SUFFICES ASSUME RInv, IInv', HashImage  PROVE RInv'  OBVIOUS
<1> USE DEF FromManifest, FromXml, FromFuses, FromInfos, FromPreload, FromHashes,
            Writing
<1>1. PICK t \in 0..MaxTime, j \in Junk : Made(t, j)
  BY DEF RInv
<1> DEFINE h3 == [[[hdr EXCEPT !.key = opt.key] EXCEPT !.fuses_chk = fuse_values]
                    EXCEPT !.info_chk = info_values]
           digest == ImageHash(h3, opt.elf)
<1>2. /\ pc = "hash" /\ pc' = "hashes"
      /\ mem' = [hdr |-> [h3 EXCEPT !.img_chk = digest], code |-> opt.elf]
      /\ hashes' = [img |-> digest, fuses |-> fuse_values, info |-> info_values]
      /\ UNCHANGED <<opt, hdr, files>>
  BY DEF HashImage, Goto
<1>3. /\ IsHeader(hdr) /\ hdr.keyid = N0inv[opt.key]
      /\ fuse_values = FuseWords(opt) /\ info_values = InfoWords(opt)
      /\ hdr.fusemap = {i \in FuseIndex : FusesAt(opt, i) # {}}
      /\ hdr.infomap = DOMAIN Values(opt).info
  BY <1>2 DEF RInv, IInv, Prepared
<1>4. /\ IsHeader(h3)
      /\ h3.key = opt.key /\ h3.fuses_chk = fuse_values /\ h3.info_chk = info_values
      /\ \A f \in HeaderField \ {"key", "fuses_chk", "info_chk"} : h3[f] = hdr[f]
  BY <1>3 DEF IsHeader, HeaderField
<1>5. /\ hdr.unset = j /\ hdr.timestamp = Timestamp(opt, t)
      /\ hdr.version = Values(opt).version /\ hdr.p4cl = Values(opt).p4cl
      /\ hdr.policy = Values(opt).policy /\ hdr.board = Board(opt)
      /\ hdr.tag = Tag(opt)
  BY <1>1, <1>2 DEF Made
<1>6. mem'.hdr.signature = hdr.signature
  BY <1>2, <1>4 DEF IsHeader, HeaderField
<1> HIDE DEF h3
<1>7. digest = <<HashedHeader(opt, t, j), opt.elf>>
  <2> DEFINE k == HashedHeader(opt, t, j)
  <2>1. /\ k.tag = Tag(opt) /\ k.keyid = N0inv[opt.key] /\ k.key = opt.key
        /\ k.timestamp = Timestamp(opt, t) /\ k.version = Values(opt).version
        /\ k.p4cl = Values(opt).p4cl /\ k.policy = Values(opt).policy
        /\ k.board = Board(opt) /\ k.unset = j
        /\ k.fusemap = {i \in FuseIndex : FusesAt(opt, i) # {}}
        /\ k.infomap = DOMAIN Values(opt).info
        /\ k.fuses_chk = FuseWords(opt) /\ k.info_chk = InfoWords(opt)
    BY DEF HashedHeader
  <2> HIDE DEF k
  <2>2. \A f \in HeaderField \ {"signature", "img_chk"} : h3[f] = k[f]
    BY <1>3, <1>4, <1>5, <2>1 DEF HeaderField
  <2> QED  BY <1>4, <2>2, HeaderHashed DEF k
<1> HIDE DEF digest
<1>8. hashes' = HashesOf(opt, t, j)
  BY <1>2, <1>3, <1>7 DEF HashesOf
<1>9. Made(t, j)'  BY <1>1, <1>2, <1>8 DEF Made
<1>10. Preloaded'  BY <1>2, <1>6 DEF RInv, Preloaded, files
<1>11. FilesMade'  BY <1>2, LeftStays DEF RInv, FilesMade, files
<1> QED  BY <1>9, <1>10, <1>11 DEF RInv

\* The hashes are left.
LEMMA WriteHashesRInv == RInv /\ IInv' /\ WriteHashes => RInv'
<1> SUFFICES ASSUME RInv, IInv', WriteHashes  PROVE RInv'  OBVIOUS
<1> USE DEF FromManifest, FromXml, FromFuses, FromInfos, FromPreload, FromHashes,
            Writing
<1>1. PICK t \in 0..MaxTime, j \in Junk : Made(t, j)
  BY DEF RInv
<1>2. /\ pc = "hashes" /\ pc' = "sign"
      /\ UNCHANGED <<opt, hdr, mem, hashes, sigFile>>
      /\ opt \in Invocation
  BY DEF WriteHashes, Goto, locals, RInv, IInv, Checked
<1>3. hashes = HashesOf(opt, t, j)  BY <1>1, <1>2 DEF Made
<1>4. hashesFile' \in {hashesFile, Torn} \/ (opt.hashes /\ hashesFile' = hashes)
  BY DEF WriteHashes
<1>5. FilesMade'
  <2>1. opt.hashes => Left(hashes)  BY <1>2, <1>3 DEF Left
  <2>2. hashesFile' \notin {Absent, Torn} => Left(hashesFile')
    BY <1>4, <2>1 DEF RInv, FilesMade
  <2> QED  BY <1>2, <2>2, LeftStays DEF RInv, FilesMade
<1>6. Made(t, j)'  BY <1>1, <1>2 DEF Made
<1>7. Preloaded'  BY <1>2 DEF RInv, Preloaded
<1> QED  BY <1>5, <1>6, <1>7 DEF RInv

\* The image is signed, or given the signature that was read.
LEMMA KeySignRInv == RInv /\ IInv' /\ KeySign => RInv'
<1> SUFFICES ASSUME RInv, IInv', KeySign  PROVE RInv'  OBVIOUS
<1> USE DEF FromManifest, FromXml, FromFuses, FromInfos, FromPreload, FromHashes,
            Writing
<1>1. PICK t \in 0..MaxTime, j \in Junk : Made(t, j)
  BY DEF RInv
<1>2. CASE Ends("abort") /\ UNCHANGED mem
  BY <1>2, EndKeepsRInv DEF KeySign, Ends, locals
<1>3. CASE Goto("generate")
  <2>1. /\ pc = "sign" /\ pc' = "generate"
        /\ UNCHANGED <<opt, hdr, hashes, files>>
    BY <1>3 DEF KeySign, Goto
  <2>2. mem.hdr.signature = hdr.signature  BY <2>1 DEF RInv, Preloaded
  <2>3. mem = [f \in {"hdr", "code"} |-> mem[f]] /\ IsHeader(mem.hdr)
    BY <2>1 DEF RInv, IInv, Hashed
  <2>4. ASSUME ~BnFails, ~SignsAfresh(opt)
        PROVE  mem'.hdr.signature = Montgomery(hdr.signature)
    <3>1. mem' = [mem EXCEPT !.hdr.signature = Montgomery(Signature)]
      BY <1>3, <2>1, <2>4 DEF KeySign, Ends, Goto
    <3>2. Signature = hdr.signature  BY <2>2, <2>4 DEF Signature
    <3> QED  BY <2>3, <3>1, <3>2 DEF IsHeader, HeaderField
  <2>5. Preloaded'  BY <2>1, <2>4 DEF RInv, Preloaded, SignsAfresh, files
  <2>6. Made(t, j)'  BY <1>1, <2>1 DEF Made
  <2>7. FilesMade'  BY <2>1, LeftStays DEF RInv, FilesMade, files
  <2> QED  BY <2>5, <2>6, <2>7 DEF RInv
<1> QED  BY <1>2, <1>3 DEF KeySign

\* Every step keeps the invariant.
LEMMA NextRInv == RInv /\ [Next]_vars => RInv'
<1> SUFFICES ASSUME RInv, [Next]_vars  PROVE RInv'  OBVIOUS
<1> USE DEF FromManifest, FromXml, FromFuses, FromInfos, FromPreload, FromHashes,
            Writing
<1>1. IInv'  BY NextIInv DEF RInv
<1>2. PICK t \in 0..MaxTime, j \in Junk : Made(t, j)
  BY DEF RInv
<1>3. CASE \/ \E o \in Invocation : Start(o)
           \/ GetOptions \/ LoadKey \/ LoadElf \/ PrepareHeader \/ ReadManifest
           \/ CheckKeyid \/ SetTag \/ ReadXml \/ SetFuses \/ SetInfos
  BY <1>1, <1>3, EarlyStepsRInv
<1>4. CASE LoadSignature  BY <1>1, <1>4, LoadSignatureRInv
<1>5. CASE HashImage  BY <1>1, <1>5, HashImageRInv
<1>6. CASE WriteHashes  BY <1>1, <1>6, WriteHashesRInv
<1>7. CASE KeySign  BY <1>1, <1>7, KeySignRInv
<1>8. CASE OpenOutput
  <2>1. pc = "generate" /\ UNCHANGED <<opt, locals, hashesFile, sigFile>>
        /\ pc' \in {"write", "idle"}
    BY <1>8 DEF OpenOutput, Goto, Ends
  <2>2. Made(t, j)'  BY <1>2, <2>1 DEF Made, locals
  <2>3. Preloaded'  BY <2>1 DEF RInv, Preloaded, SignsAfresh, locals
  <2>4. FilesMade'  BY <2>1, LeftStays DEF RInv, FilesMade
  <2> QED  BY <1>1, <2>2, <2>3, <2>4 DEF RInv
<1>9. CASE WriteOutput
  <2>1. pc' = "idle" /\ UNCHANGED <<hashesFile, sigFile>>
    BY <1>9 DEF WriteOutput, Ends
  <2>2. Made(t, j)' /\ Preloaded'  BY <2>1 DEF Made, Preloaded
  <2>3. FilesMade'  BY <2>1, LeftStays DEF RInv, FilesMade
  <2> QED  BY <1>1, <2>2, <2>3 DEF RInv
<1>10. CASE Kill  BY <1>1, <1>10, EndKeepsRInv DEF Kill, Ends
<1>11. ASSUME NEW k \in Key, ExternalSigner(k)  PROVE RInv'
  <2>1. /\ pc' = "idle" /\ hashesFile' = hashesFile
        /\ hashesFile \notin {Absent, Torn}
        /\ sigFile' = RawSignature(k, hashesFile)
    BY <1>11 DEF ExternalSigner
  <2>2. Left(hashesFile)  BY <2>1 DEF RInv, FilesMade
  <2>3. FilesMade'  BY <2>1, <2>2, LeftStays DEF FilesMade, RawSignature
  <2>4. Made(t, j)' /\ Preloaded'  BY <2>1 DEF Made, Preloaded
  <2> QED  BY <1>1, <2>3, <2>4 DEF RInv
<1>12. CASE Tick \/ UNCHANGED vars
  <2>1. UNCHANGED <<pc, opt, locals, files>>  BY <1>12 DEF Tick, vars
  <2>2. Made(t, j)'  BY <1>2, <2>1 DEF Made, locals
  <2>3. Preloaded'  BY <2>1 DEF RInv, Preloaded, SignsAfresh, locals, files
  <2>4. FilesMade'  BY <2>1, LeftStays DEF RInv, FilesMade, files
  <2> QED  BY <1>1, <2>2, <2>3, <2>4 DEF RInv
<1> QED
  BY <1>3, <1>4, <1>5, <1>6, <1>7, <1>8, <1>9, <1>10, <1>11, <1>12 DEF Next

\* What the header and the files hold, over all invocations of the signer.
THEOREM ResigningInductive == Spec => []RInv
BY InitRInv, NextRInv, PTL DEF Spec

\* An image built with --signature, from a signature by its key over the hashes
\* --hashes runs of the same inputs left, starts on every chip its manifest was
\* written for exactly if the two runs read the same second and found the same on
\* the stack, and on no other chip.
THEOREM ResignedImageBoots ==
  ASSUME ~BnFails, \A o, p \in Invocation : o.hashes /\ p.signature => SameInputs(o, p)
  PROVE  Spec => []ResignedBootsExactly
<1>1. ASSUME RInv, Resigned, NEW c \in Chip
      PROVE  Boots(mem, c) <=>
               /\ Expected(opt, c)
               /\ sigFile.over.img[1].timestamp = mem.hdr.timestamp
               /\ sigFile.over.img[1].unset = mem.hdr.unset
  <2>1. /\ Signed /\ opt.signature /\ ~SignsAfresh(opt) /\ sigFile.by = opt.key
        /\ pc \in Writing /\ pc \in FromHashes /\ opt \in Invocation
    BY <1>1 DEF Resigned, Signed, Writing, FromHashes, RInv, IInv, Checked
  <2>2. PICK t \in 0..MaxTime, j \in Junk : hashes = HashesOf(opt, t, j)
    BY <1>1, <2>1 DEF RInv, Made
  <2>3. /\ sigFile \notin {Absent, Torn}
        /\ mem.hdr.signature = Montgomery(sigFile)
    BY <1>1, <2>1 DEF RInv, Preloaded
  <2>4. Left(sigFile.over) /\ sigFile = RawSignature(opt.key, sigFile.over)
    BY <1>1, <2>1, <2>3 DEF RInv, FilesMade
  <2>5. PICK o \in Invocation, u \in 0..MaxTime, i \in Junk :
          o.hashes /\ sigFile.over = HashesOf(o, u, i)
    BY <2>4 DEF Left
  <2>6. hashes = [img |-> ImageHash(mem.hdr, mem.code),
                  fuses |-> mem.hdr.fuses_chk, info |-> mem.hdr.info_chk]
        /\ IsHeader(mem.hdr)
    BY <1>1, <2>1 DEF RInv, IInv, Hashed
  <2>7. /\ hashes.img[1].timestamp = mem.hdr.timestamp
        /\ hashes.img[1].unset = mem.hdr.unset
    BY <2>6 DEF ImageHash, IsHeader, HeaderField
  <2>8. /\ sigFile.over.img[1].timestamp = Timestamp(o, u)
        /\ sigFile.over.img[1].unset = i
        /\ mem.hdr.timestamp = Timestamp(opt, t) /\ mem.hdr.unset = j
    BY <2>2, <2>5, <2>7 DEF HashesOf, HashedHeader
  <2>9. Boots(mem, c) <=> sigFile.over = Seen(c)
    <3>1. Boots(mem, c) <=>
            mem.hdr.signature = Montgomery(RawSignature(opt.key, Seen(c)))
      BY <1>1, <2>1, BootsOnChip DEF RInv
    <3>2. Montgomery(RawSignature(opt.key, sigFile.over))
            = Montgomery(RawSignature(opt.key, Seen(c))) <=> sigFile.over = Seen(c)
      BY DEF Montgomery, RawSignature
    <3> QED  BY <2>3, <2>4, <3>1, <3>2
  <2>10. Expected(opt, c) <=> hashes = Seen(c)
    BY <1>1, <2>1, <2>6, BootsOnChip DEF RInv, Seen
  <2>11. ASSUME sigFile.over = Seen(c)
         PROVE  /\ hashes = Seen(c)
                /\ sigFile.over.img[1].timestamp = mem.hdr.timestamp
                /\ sigFile.over.img[1].unset = mem.hdr.unset
    <3>1. Seen(c).img = hashes.img  BY <2>6 DEF Seen
    <3>2. Boots(mem, c) => Expected(opt, c)
      BY <1>1, <2>1, OnlyExpectedNow DEF RInv
    <3> QED  BY <2>7, <2>9, <2>10, <2>11, <3>1, <3>2
  <2>12. ASSUME hashes = Seen(c),
                sigFile.over.img[1].timestamp = mem.hdr.timestamp,
                sigFile.over.img[1].unset = mem.hdr.unset
         PROVE  sigFile.over = Seen(c)
    <3>1. SameInputs(o, opt)  BY <2>1, <2>5
    <3>2. Timestamp(o, u) = Timestamp(opt, t) /\ i = j  BY <2>8, <2>12
    <3>3. HashesOf(o, u, j) = HashesOf(opt, t, j)
      BY <3>1, <3>2, SameHashes
    <3> QED  BY <2>2, <2>5, <2>12, <3>2, <3>3
  <2> QED  BY <2>9, <2>10, <2>11, <2>12
<1>2. RInv => ResignedBootsExactly  BY <1>1 DEF ResignedBootsExactly
<1> QED  BY <1>2, ResigningInductive, PTL

\* As long as the library of big numbers does not fail, a complete image gets
\* into the output file only if it is consistent in itself, and signed by the key
\* it names over its own hashes or with the signature that was asked for; the
\* first step of signing in two is all that leaves an unsigned one.
THEOREM OutputSigned ==
  ASSUME ~BnFails
  PROVE  Spec => OutputIsSigned
<1> DEFINE SignedOut ==
      out' \notin {out, Absent, Torn} =>
        /\ out'.hdr.img_chk = ImageHash(out'.hdr, out'.code)
        /\ SignsAfresh(opt) =>
             out'.hdr.signature
               = Montgomery(RawSignature(out'.hdr.key, OwnHashes(out')))
        /\ ~SignsAfresh(opt) /\ opt.signature =>
             /\ sigFile.by \in Key
             /\ out'.hdr.signature = Montgomery(sigFile)
<1>1. ASSUME RInv, [Next]_vars, out' \notin {out, Absent, Torn}
      PROVE  pc = "write" /\ out' = mem
  BY <1>1 DEF Next, vars, files, locals, Start, GetOptions, LoadKey, LoadElf,
       PrepareHeader, ReadManifest, CheckKeyid, SetTag, ReadXml, SetFuses, SetInfos,
       LoadSignature, HashImage, WriteHashes, KeySign, OpenOutput, WriteOutput, Kill,
       ExternalSigner, Tick
<1>2. ASSUME RInv, [Next]_vars  PROVE SignedOut
  <2> SUFFICES ASSUME out' \notin {out, Absent, Torn}  PROVE SignedOut
    OBVIOUS
  <2>1. /\ pc \in Writing /\ pc \in FromHashes /\ out' = mem
    BY <1>1, <1>2 DEF Writing, FromHashes
  <2>2. /\ mem.hdr.key = opt.key
        /\ mem.hdr.img_chk = ImageHash(mem.hdr, mem.code)
        /\ hashes = OwnHashes(mem)
    BY <1>2, <2>1 DEF RInv, IInv, Hashed, OwnHashes
  <2>3. SignsAfresh(opt) =>
          mem.hdr.signature = Montgomery(RawSignature(opt.key, hashes))
    BY <1>2, <2>1 DEF RInv, IInv, SignedNow
  <2>4. ~SignsAfresh(opt) /\ opt.signature =>
          sigFile.by \in Key /\ mem.hdr.signature = Montgomery(sigFile)
    BY <1>2, <2>1 DEF RInv, Preloaded, FilesMade
  <2> QED  BY <2>1, <2>2, <2>3, <2>4
<1>3. RInv /\ [Next]_vars => [SignedOut]_vars
  BY <1>2
<1> QED
  BY <1>3, ResigningInductive, PTL DEF Spec, OutputIsSigned
=============================================================================
