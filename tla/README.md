# Models of the haven-rs signing tools

haven-rs is the start of an open firmware for the Haven (H1, "Cr50") security
chip.  Its boot ROM, loader and firmware are submodules that are not part of the
repository; `chip/` and `builtin-c/` hold generated register definitions and
vendored kernel headers.  The one program in it is the image signer under
`util/signer`: a C++ program, `cr50-codesigner`, and the scripts around it.
This directory models that program and its scripts, model-checks them with TLC
and proves with TLAPS, for every value of the constants, all the safety properties that
the runs find to hold.

All source paths below are relative to `src/util/signer` unless they start with
`src/`.

## 1. The system

| part | source | state | operations |
|---|---|---|---|
| `main` of the signer | `codesigner.cc`, `common/signed_header.h` | options, header, maps of fuses and info words, `fuse_values`, `info_values` | options, key, ELF, header, manifest (JSON), keyid, tag, fuse definitions (XML), fuse and info words, preloaded signature, sign, generate |
| `Image` | `image.cc`, `common/image.h` | `mem_`, `low_`, `high_`, `base_`, `success_` | `fromElf`, `fillPattern`, `fillRandom`, `sign`, `generate`, `toIntelHex`, `fromIntelHex` |
| `PublicKey` | `publickey.cc`, `common/publickey.h` | the key, `publicOnly_` | load, `n0inv`, `sign` (OpenSSL, gnubby or preloaded signature) |
| `Gnubby` | `gnubby.cc`, `common/gnubby.h` | `handle_`; the token file of each device under `~/.tmp` | `sign`, `doSign`, `write`, `write_bn`, `open` |
| `AES`, `ECDH` | `aes.cc`, `ecdh.cc` | keys | wrappers of OpenSSL |
| `bs` | `bs` | the manifest copy, `[01].flat`, the full image and its copy | adapt the manifest, sign two ELF files, paste them into the full image |
| release script | `create_released_image.sh` | a directory in `/tmp`, the release directory and tarball | check the ROs, run `bs`, assemble, pack |
| converters | `pmjp.py`, `src/util/regdef_convert.sh` | none | text in, text out |

Outside, but needed to say what is right: the security key and its user, other
signer processes on the host, the kernel that arbitrates USB interfaces, the
holder of a private key who signs hashes offline, and the boot ROM that checks
an image against the fuses and info words of its chip.

How the parts interact:

- `main` calls `Image::fromElf`, fills a `SignedHeader`, and calls
  `Image::sign`, which completes the header in place, hashes, and calls
  `PublicKey::sign`; for a public key of 2048 bits that builds a `Gnubby` and
  calls `Gnubby::sign`.  Everything is synchronous.
- Invocations of the signer share files: the output, the hashes file of
  `--hashes`, the signature file of `--signature`, and the token files.
- Invocations that run at the same time meet at a USB device (one process at a
  time can claim its interface; the device can be locked to the channel of one
  process), and at its token file.
- `bs` takes the exit status of the signer for the existence of its output.
- Every run of `bs` in the source tree uses the same `0.flat`, `1.flat`,
  `[01].signed.hex` and full image; its EXIT trap removes the flat files, also
  those of another run.
- The release script calls `bs` on a full image of its own in `TMPD`, takes its
  exit status, and pastes the ROs over the result.  What it leaves behind, a
  directory and a tarball named after the versions, meets its next run.
- `PublicKey::writeToGnubby` builds a `Gnubby` and calls `Gnubby::write`, which
  opens the first device there is and sends a key in seven numbers.

### What is hard in it

The complete list, with lines, is `hazards` in `PROJECT.json`.  In short:

- *interleaving and stale state*: the token file is checked, then the user is
  asked for a PIN, then the file is written; or a token is refused, then the
  file unlinked.  Only the claim of the interface orders two processes;
- *crash*: a process may die with the device locked, with the token file
  truncated and not written, or with the output truncated;
- *unreliable exchanges*: any command or its answer may be lost, the answer to
  a command that the device has carried out as well;
- *result multiplexing*: `result` in `doSign` is the code of the last exchange
  and the outcome, and one buffer receives the signature of whichever device
  signs;
- *lagging answers*: an answer that was not received stays in the device, and
  the next exchange, of this process or another, receives it;
- *transfers without a timeout*: an exchange for whose answer nobody will ever
  send a frame waits for ever;
- *writing in parts*: a key goes into the device number by number, and the
  numbers of two processes share the slot;
- *traps*: the EXIT trap of one run of `bs` removes the files of another; a
  SIGTERM trap of the release script removes its files and lets it go on;
- *leftovers*: output files, copies and directories of killed runs, which the next
  run finds under the names it uses itself;
- *retries without a limit*: wrong PIN, refused token, touch;
- *order of mutation*: the header is completed in place, and must be complete
  when it is hashed;
- *agreement of two encodings*: `fuse_values` (hashed here) and `fusemap` (what
  the chip will hash), and the same for info words;
- *two-step signing*: two invocations must hash the same header;
- *boundaries*: rounding, padding, the range of loadable addresses, and the
  segment arithmetic of Intel hex.

## 2. The modules

| module | what it is |
|---|---|
| `SignRequest` | abstract specification: what `Gnubby::sign` promises its caller and the host |
| `GnubbySign` | `Gnubby::sign`, `doSign` and the token cache, with several processes, devices, users, faults |
| `GnubbySignProofs` | the theorems about `GnubbySign` |
| `MCGnubbySign` | instances of it |
| `CodeSigner` | `main`, `Image::sign`, `Image::generate`, `PublicKey::sign`, and invocations one after another |
| `CodeSignerProofs` | the theorems about single images |
| `ResigningProofs` | the theorems about an image built by two invocations, and about the output file |
| `MCCodeSigner` | instances of it |
| `ImageFile` | the byte level of `Image`: loading, rounding, padding, header, Intel hex |
| `ImageFileProofs` | the theorems about loading, rounding, regions and padding |
| `IntelHexProofs` | the theorem about Intel hex |
| `MCImageFile` | instances of it |
| `GnubbyWrite` | `Gnubby::write`, `write_bn`, `open` and the frames of `gnubby_exchange`, with several processes |
| `GnubbyWriteProofs` | the theorems about it |
| `MCGnubbyWrite` | an instance of it |
| `FlashLayout` | the full image as a sequence of blocks, and `dd` into it |
| `FlashImage` | abstract specification: what `bs` promises about the full image |
| `BinarySigner` | `bs`, with several processes in one source tree |
| `BinarySignerProofs` | the theorems about `bs`, and lemmas about pasting |
| `ReleaseImage` | `create_released_image.sh`, composed with `BinarySigner` |
| `ReleaseImageProofs` | the theorems about both scripts, and the refinement of `FlashImage` |
| `MCReleaseImage` | instances of it |

`GnubbySign` details what `CodeSigner` takes as one step (`KeySign` with a public
key of 2048 bits, which either signs with the key asked for or fails: what
`SignRequest` promises), and `ImageFile` details what `CodeSigner` takes as the
constant `Elf` (what `fromElf` makes of a file).  `BinarySigner` takes a run of the
signer as two steps, `Sign` and `SignerWrites`: the output is truncated, then
written; `ReleaseImage` takes `bs` step by step, as a process of `BinarySigner`.

### GnubbySign

A process walks over the labels of `sign` and `doSign`; `pc[p]` is the label.
One action is one exchange with the device, or one system call on a file, since
these are the points where other processes, the device, the user or a kill can
come in between.  `dev[p]` is the device `handle_` is open on, `rc[p]` the
`result` of `doSign` and `result[p]` that of `sign`, `claimed[d]` the owner of
USB interface 0, and `locked`, `touch`, `tries`, `valid` the device.
A token is a value, of which the device issues one that is neither its last one nor in
its file (16 random bytes in truth); `file[d]` is that value, or `Absent`, or `Torn`
(fewer than 16 bytes).  How often a device issues a token, and drops it, has no limit.

| code | actions |
|---|---|
| `Gnubby::sign`, the device loop (516-543) | `Start`, `SkipDevice`, `ClaimDevice`, `Release`, `NoMoreDevices`, `Finish` |
| lock, select, read slot, compare (361-401) | `Lock`, `LockFails`, `Select`, `ReadSlot`, `CompareKey` |
| `getToken`, PIN, `saveToken` (403-434) | `GetToken`, `PinAccepted`, `PinRejected`, `PinBlocked`, `SaveOpen`, `SaveWrite` |
| sign request and its answers (444-474) | `Signed`, `TouchWanted`, `Wink`, `TokenRejected`, `ForgetToken` |
| `__fail` (476-480) | `Fail`, `Unlock` |
| `gnubby_exchange` failing | `CommandFails` (lost or refused), `AnswerLost` (carried out, answer lost) |
| the world | `Crash`, `LockExpires`, `Touch`, `DropToken` |

**`RsaFetched`.**  `doSign` sets `rsa` to `nullptr` and tests it without having
assigned it (355, 388), so in the code as it is no device gets past the
comparison.  The constant is `FALSE` for that code.  It is `TRUE` in the runs
that check the rest of the protocol, which would otherwise be unreachable; the
theorems hold for both values.  Run `gnubby_committed` shows the defect.

### CodeSigner

One action per stage of `main`, each with the ways the stage can end the
program.  The header `hdr` is a record whose fields are those the properties
tell apart: `version` stands for `epoch_`, `major_` and `minor_`, `policy` for
`applysec_`, `config1_` and the two response words, `unset` for the fields no
code assigns.  Hashes are the terms that were hashed, so that they are equal
exactly when what was hashed is; a signature is a record of the key that made it,
the text it is over, and whether it was brought to Montgomery form.
`Boots(image, c)` is what the boot ROM on chip `c` makes of an image: it computes
the hashes itself, from the image and from the words that `fusemap` and `infomap`
list.  It is external, written from the header's comments and from what
`Image::sign` leaves for it.

A manifest is a record of what `readJSON` looks for and of the timestamp and the
board ID that it does not; an XML file is the list of its `HashType` entries in
document order, and the value `find_default_reg_value` finds.  A fuse is at its
logical offset on the chip (`FuseHolds`), while `find_fuses` numbers it by its place in
the list; that the two agree is `XmlAssumption`, which `src/chip/signing/fuses.xml` keeps to and
the program does not verify beyond the place of `EXTRA_BLK6`.

Files: `out`, `hashesFile`, `sigFile` each hold their content, `Absent` or
`Torn`.  A command line that `getOptions` refuses (`usage`), or that makes it crash, is
one of those `GetOptions` ends for.  `Kill` may come between any two stages.

### ImageFile

`mem`, `low`, `high`, `base`, `success` are the members of `Image`.  Addresses
count from `FLASH_START * 16`, as indices into `mem_` do.  `ro` and `rx` are the
regions that `main` copies into the header.  `LoadFails` stands for the five early
exits of `fromElf`, `ReadSections` for its loop over section headers, which keeps the
lowest address and the highest end (in whatever order they come); then one action per
program header, rounding, padding, and the header that `Image::sign` lays over the start.  `main` may call `FillPattern`,
`FillRandom`, both in this order, or neither.  `store` compares every address with the
size of `mem_`; padding and the header do not, and a step of theirs that would write
outside ends at `overrun`, after which nothing is said.  `IntelHex`, `Binary` and
`FromIntelHex` are operators on the state: `toIntelHex`, the binary branch of
`generate`, and the reader, which takes the records one by one: a segment record
within the flash range (`ReadSegment`), the bytes of a data record within `mem_`
(`ReadData`), and everything else is passed over and clears `success`.

### GnubbyWrite

Here an exchange is taken apart, because what can go wrong in `write` is the pairing
of requests and answers.  `inbox` and `outbox` are the two queues of the device:
`Send` appends a request, `DeviceAnswers` takes one, carries it out or refuses it and
appends a frame, `Receive` takes the oldest frame, whoever it was for, whole or cut
short.  A frame has its channel (the process id), command, length and payload;
`Good` is the comparison of the first five bytes in `gnubby_exchange` together with
what its caller looks at (`gnubby_lock`: the payload; `gnubby_apdu` and `getSW12`: the
last two bytes).

| code | actions |
|---|---|
| `writeToGnubby`, `Gnubby` and `~Gnubby` (`publickey.cc` 286-294) | `Call`, `Return` |
| duplicating the numbers (612-621); `open` (550-567) | `DupFails`, `Open`, `OpenFails` |
| lock, select, `write_bn` seven times, unlock (628-654) | `step[p]` counts them; `Proceed`, `Fail` |
| `write_bn`: a number of another length than the slot takes (579) | `MisfitFails` |
| `libusb_bulk_transfer`, both directions | `Send`, `SendFails`, `Receive`, `ReceiveFails` |
| `__fail` on the handle that `open` has closed | `UseClosedHandle`, or `End` |
| the world | `DeviceAnswers`, `LockExpires`, `End` (also a kill: its channel becomes `Gone`) |

`slot[k]` is the key that number `k` in the device belongs to.

### FlashLayout, FlashImage, BinarySigner

A file is the sequence of its blocks, and a block of a signed image is the pair of
what was signed (`elf`, `manifest`, key) and its place in it.  So a file shows what it
was put together from, and `Paste` is `dd seek= conv=notrunc`, with a hole when the
file is too short.  `FlashImage` is the promise: the image changes only by both RW
images of one request being put in place, in one step.

| code of `bs` | actions |
|---|---|
| start, trap, checks of the environment, manifest (16-17, 110-138) | `Start`, `NotReady` |
| parameters; existence of the full image; prod and B1 (139-177) | `ParseOptions`, `CheckOptions` |
| choice of key and manifest, `tweak_manifest` (179-196, 73-108) | `TweakManifest` |
| the loop over the two ELF files (198-216) | `CheckElf`, `Touch`, `Sign`, `SignerWrites` |
| copy, two `dd`, `rm`, `mv` (218-226) | `Copy`, `Paste0`, `Paste1`, `RemoveFlats`, `Move` |
| the message (228), the EXIT trap (17) | `Echo`, `ExitTrap` |
| the world | `Interrupt` (the trap runs), `Kill` (it does not) |

`linked[p]` tells whether the output that the signer of `p` has open still has its
name: if the trap of another run removes it, the signer writes into a file without a
name and exits with 0.  Whatever a process does not use any more is reset (`Forget`),
so that runs that end alike are one state.

### ReleaseImage

It extends `BinarySigner`: `Child` is the `bs` that the script calls on
`${TMPD}/release.bin` (`Release`), the other processes call `bs` on the image of the
tree.  `result` is shared between the two modules.

| code of `create_released_image.sh` | actions |
|---|---|
| `mktemp`, parameters, the blank image (160-217) | `Call`, `Blank` |
| `objcopy`, `verify_ro` (70-77, 20-47) | `PrepareRo0`, `PrepareRo1` |
| `bs prod elves ...` (79-89) | `CallBs`, `ReturnFromBs` |
| `dd` of the two ROs (91-92) | `PasteRo0`, `PasteRo1` |
| versions by `gsctool`, `dest_dir` (128-143) | `MakeDestDir` |
| `cp`, `tar`, `rm`, the end (145, 223-231) | `Save`, `Pack`, `RemoveDestDir`, `Finish` |
| the traps (161) | `End` (EXIT), `Terminate` (SIGINT, SIGTERM: `TMPD` is gone, the script goes on) |
| the world | `KillAll` |

**`BoardRead`.**  The version that `gsctool` reads contains the board ID that is in
the image.  `readJSON` in the signer never picks it up (section 5), so the constant is
`FALSE` for the code as it is; `ReleaseImage` then shows the tarball of a release with
`--cr50_board_id` to be named, and built, as one without.

## 3. What is checked

| run | expected | properties |
|---|---|---|
| `gnubby_safe` | holds | `TypeOK`, `NoLeakedClaim`, `SignedByWantedKey`, `PinOnlyWithoutToken`, `NoStrandedLock`, `ForgetsOnlyStaleTokens`, `ImplementsRequest` |
| `gnubby_returns` | holds | `SignReturns` |
| `gnubby_committed` | violated | `RejectsOnlyWrongKey` |
| `signer_inputs` | holds | `TypeOK`, `BootsOnExpectedChips`, `ResignedBootsExactly`, `OutputIsSigned` |
| `signer_faults` | holds | `BootsOnlyOnExpectedChips` |
| `signer_two_seconds` | violated | `ResignedBoots` |
| `signer_board` | violated | `ManifestBoardUsed` |
| `image_load` | holds | `TypeOK`, `ImageIsElf`, `HexReadsBack`, `FillOnlyPads`, `RegionsCoverImage`, `StaysInMem` |
| `image_fill` | violated | `FillKept` |
| `gnubby_write` | holds | `TypeOK`, `WroteWhole`, `LockGivenBack`, `WriteReturns` |
| `release` | holds | `ReleaseTypeOK`, `SuccessMeansPasted`, `ProdImagesAreProd`, `ReleasedIsRequested`, `TarballsCanBeReleased`, `ImplementsFlashImage` |
| `bs_success` | violated | `SuccessMeansPasted` |

What the properties say:

- `NoLeakedClaim`: an interface is claimed exactly by the process whose handle
  is open on it, inside `doSign` only.  A leaked claim would shut every other
  signer out.
- `NoStrandedLock`: `doSign` has eight ways to `__fail`; whichever it takes, the
  device is not left locked, unless the unlocking exchange itself is lost.
- `SignedByWantedKey`: `sign` returns 1 only with a signature of the wanted key.
- `PinOnlyWithoutToken`: the check of the token file is not stale while the user
  types a PIN.
- `ForgetsOnlyStaleTokens`: no token that a device accepts is unlinked.
- `ImplementsRequest`: the refinement of `SignRequest`.
- `SignReturns`: every call of `sign` returns, as long as every device keeps its token
  in the end (`TokensLast`, below).  The loop for a wrong PIN ends with the device's
  counter and that for a touch with the user; the third, a refused token, has nothing in
  the code to end it.
- `BootsOnlyOnExpectedChips`: an image never starts on a chip whose fuses or info
  words differ from the manifest (with the hard-coded `EXTRA_BLK6`), whoever
  signed it and whatever failed.
- `BootsOnExpectedChips`: an image the signer signed starts on the chips it is
  for, so the hash was taken over the finished header.
- `OutputIsSigned`: what gets into the output file fits its own `img_chk`, and is
  signed by the key it names over its own three hashes; or, with a public key the
  gnubbies are not asked for, it holds the signature that `--signature` was given.  The
  one exception is the first step of signing in two (such a key, no `--signature`): the
  code writes an image there too, with the filling of `SignedHeader()` for a signature.
- `ResignedBoots`: signing in two invocations works.  It does not: `signer_two_seconds`
  breaks it with the clock alone (and `Junk` = {0, 1} with `MaxTime` = 0 does with the stack
  alone).
- `ResignedBootsExactly`: what is true of it.  An image built with a signature by its key
  over the hashes of an earlier run of the same inputs starts on the chips its manifest
  was written for if the two runs read the same second and found the same on the stack,
  on none if not, and on no other chip.
- `ImageIsElf`, `FillOnlyPads`, `HexReadsBack`: the image is the ELF file, erased
  elsewhere; padding and header leave it alone; and Intel hex read back is the
  image.
- `StaysInMem`: padding and the header are written within `mem_` for every ELF file for
  which `store` was called with an address of `mem_`, and outside of it for every other.
- `RegionsCoverImage`: what the header tells the chip may be read and executed
  covers what was loaded, in whichever order sections and program headers come, and
  after rounding.
- `WroteWhole`: `write` returns 0 only when the device holds all numbers of the key
  it was called with, as long as fewer answers went astray than a call makes
  exchanges.  Only the channel and the command tell a lagging answer from the right
  one.
- `LockGivenBack`: whichever way `write` fails, the device is not left locked to its
  process, unless the unlock request is still on its way.
- `WriteReturns`: every call returns, although transfers have no timeout: there is
  an answer for every exchange that waits, even when earlier ones went astray.
- `ImplementsFlashImage`: the full image is always the old one or one with both RWs
  of one request, whatever fails, is interrupted or killed, and SUCCESS comes after.
- `SuccessMeansPasted`: when SUCCESS has been printed, both images of this command
  are where they belong, whole; leftovers of killed runs and the traps of other runs
  have not come in between.  It holds only if the exit status of the signer can be
  relied on.
- `ProdImagesAreProd`: the prod key is only on images with the prod manifest, of
  builds that are neither debug builds nor for single chips, and the prod manifest only
  on images with the prod key, in every file at every moment.
- `ReleasedIsRequested`: when the release script ends with SUCCESS, the tarball it
  names holds the image that was asked for.
- `TarballsCanBeReleased`: every tarball that can be unpacked, also that of a run that
  failed later, was terminated or killed, holds ROs and whole RWs for release, under
  the name of their versions.

### Bounds, and why they are enough

- *Gnubby, safety*: two processes (interchangeable), two gnubbies of which one
  holds the wanted key, two wrong PINs, three values of tokens, which are
  interchangeable.  Every property is about a process and a device, and what one other
  process can do to them; a token may be valid, another in the file, and a third in the
  hands of a process.  No behaviour is cut short: tokens are issued and dropped without
  end.  The theorems of section 4 have no bounds.
- *Gnubby, liveness*: one gnubby and one other device, two processes, so that one
  waits for what the other does; two values of tokens, the one refused and the
  next; no symmetry.
- *Signer*: three fuses and two info words, of which the manifests name all, some
  or none, in XML files with a list that repeats, that does not, and that has
  `EXTRA_BLK6` elsewhere, and in one with as many fuses as there are fuse words
  (`FuseMax` = 4; codesigner.cc:523 refuses it); every chip there is with these words; a key of 2048
  bits and a larger one.  Among the inputs is one for every reason for which `main`
  gives up: the options that make `getOptions` return 1 (`usage`) or crash, key, ELF,
  manifest, key ID, tag, XML, fuses, infos, signature.  `MaxTime` bounds the clock to one
  tick, and `Junk` holds two contents of the stack: enough for two steps to differ in
  either, or both.
- *Image*: pages of four bytes, four of them, segment records every two pages,
  data records of two bytes, headers of two bytes.  Every pair of segments that
  starts at, just before and just after a boundary, overlaps or not, or lies or
  reaches outside `mem_` or the flash range; both, one or none is loaded.
- *Writing*: two processes, of which one may write either of two keys, and a key whose
  last number has the wrong length; three transfers that go wrong (`MaxFaults`, kills
  included) in a behaviour, which is what it takes for an answer to lag behind by two,
  or for both processes to be disturbed; a key of two numbers (`LastPart` = 1; 6 in the
  code), since a first and a last number show a mixture.  Calls are not bounded.
- *Scripts*: two signing runs in a behaviour (`MaxRuns`), one to leave something
  behind and one to find it, of `bs` or of the release script in either order, beside
  any number of runs that print the usage.  One image has two blocks, so that it can
  be torn; a file that `cp` or `dd` fails on is one block short (`Cuts`).  Command
  lines: plain, hex for B1 with device IDs, prod with a debug build, prod for B1, a bad
  board ID; releases with the right ROs, with a dev RO, with and without a board ID,
  with RWs in either order.

The bound in `WroteWhole` is sharp.  A process that goes on calling `write` after it
has missed `LastPart + 4` answers, as many as a call makes exchanges (10 in the code),
can take all the answers of an earlier call for its own: with `MaxFaults` = 5, one
process and two keys that fit, TLC finds `write` returning 0 over a slot that lacks the
last number (`MaxFaults` = 4 for `LastPart` = 0).

`DiskFaults`, `UsbFaults`, `UnlockLost` and `BnFails` switch kinds of fault on.
`UnlockLost` is off in `gnubby_safe` (else `NoStrandedLock` says nothing) and on in
`gnubby_returns`.  `BnFails` is off in `signer_inputs`: see section 5.

### Assumptions

- One signing run at a time in a source tree (`MayStart`).  Nothing in `bs` orders
  two: they write the same files, and both would fail their promises.  Nothing in the
  script or its usage says that they may run at once, so this is an assumption and not
  a property.
- `SIGKILL` for `bs` or the release script takes the signer, or `bs`, along.
- The images fit their places (`FitAssumption`); the scripts do not look.
- `TMPD` is new for each run (`mktemp`), `${tmpf}` is named after the process.
- `mv` is within one file system, so one step.
- A signing with the prod key can succeed.  With the code as it is it cannot, because
  of what run `gnubby_committed` shows.
- The device takes frames in order, answers each, and knows no status that begins
  with 90 but 9000; `open` finds the same device in every process.
- The contents of `ec_RW-manifest-dev.json` and `ec_RW-manifest-prod.json`, which are
  not in the repository, do not matter beyond what `bs` changes in them.

### Fairness

`FairSpec` of `GnubbySign` assumes that a process that can take a step does (the operating system
schedules it, and the device answers or the exchange fails), and that the user
touches a device that is asking (`Touch`) and answers a request for a PIN (part of
`Step`, rightly or not).  A user who never touches leaves `doSign` in its loop for ever.
Nothing is assumed of `Crash` and `LockExpires`.

It assumes one thing of `DropToken`: that it happens finitely often to each device
(`TokensLast`), at any moments.  The code has no limit of its own here (403-462): a token
that the device refuses is unlinked, the PIN asked for again, and a new token requested.
A device that drops each of its tokens before it is used keeps `doSign` and its user at
this for ever, and without the assumption TLC shows just that.  The assumption is about
the device, whose firmware is not part of the repository.  `SignReturns` is checked without disk
faults, because a token file that cannot be unlinked makes `doSign` read a refused token
again and again.

`Spec` of `GnubbyWrite` assumes weak fairness of each process in a call, and of
`DeviceAnswers`: a device that is plugged in answers.  Without it `WriteReturns` would
fail at the first transfer, since the timeout passed to `libusb_bulk_transfer` is 0.
Nothing is assumed of calls, kills and expiring locks.  The scripts are checked for
safety only.

## 4. What is proved

Every theorem is about the specification of its module without bounds: any number of
processes, devices, files and command lines, any sizes, every choice of the faults.
What it takes for granted are the named assumptions on the constants, which TLC
evaluates in the runs, and the hypothesis in its own statement.

Each module has one inductive invariant.  None of the properties is inductive by itself,
because it speaks of the end of a path on which the earlier stages have arranged what it
says.  TLC found each inductive invariant to hold on the instances of section 3; the one
conjunct it cannot evaluate as written, `Done`'s "some file, updated" over all sequences,
it checked with the file itself for a witness.

### `GnubbySignProofs`

| theorem | states | hypothesis |
|---|---|---|
| `TypeCorrect` | `[]TypeOK` | |
| `ClaimsNotLeaked` | `[]NoLeakedClaim` | |
| `LockNotStranded` | `[]NoStrandedLock` | |
| `SignatureByWantedKey` | `[]SignedByWantedKey` | |
| `PinAskedOnlyWithoutToken` | `[]PinOnlyWithoutToken` | |
| `OnlyStaleTokensForgotten` | `ForgetsOnlyStaleTokens` (an action property) | |
| `RequestImplemented` | `ImplementsRequest`: refinement of `SignRequest` | |

`IInv` (theorem `Inductive`) adds to `TypeOK` and `NoLeakedClaim`:

- `RightKey`: past the comparison the device holds the wanted key;
- `RcOne`: `rc` is 1 only after `Signed`, on the way out, with the wanted key's
  signature in the buffer;
- `ResultOne`: `result` is 1 only when `sign` is about to return that signature;
- `TokenKnown`: what the process on a device knows of the token file.  This is
  the heart of the matter: since `claimed[d]` has one owner, no other process
  writes or unlinks `file[d]` meanwhile, so that at `forget` the file holds the
  refused token or nothing.

`LockNotStranded` rests on `LockOwner`: unless an unlocking exchange may be lost, a
device is locked only to the process that is at work on it and has not come past
`Unlock`.  For the refinement, `Start`, `ClaimDevice`,
`Release`, `NoMoreDevices`, `Finish` and `Crash` are steps of the request, and lemma
`QuietStep` shows every other step to stutter.

### `CodeSignerProofs`, `ResigningProofs`

| theorem | states | hypothesis |
|---|---|---|
| `TypeCorrect` | `[]TypeOK` | |
| `OnlyExpectedChips` | `[]BootsOnlyOnExpectedChips` | |
| `AllExpectedChips` | `[]BootsOnExpectedChips` | `~BnFails` |
| `OutputSigned` | `OutputIsSigned` (an action property) | `~BnFails` |
| `ResignedImageBoots` | `[]ResignedBootsExactly` | `~BnFails`, `--hashes` and `--signature` with the same inputs |

The argument is about two encodings of the same words.  `CheckedFuse`,
`FuseNumbersDiffer` and `FuseWordOf` show that two fuses never share a word of
`fuse_values`; `ExpectedIsSeen`, that a chip shows the words hashed here exactly if it is
one the manifest was written for.  `IInv` (theorem `Inductive`) carries this through
`main`: `Checked` (what the stages passed have verified of the command line), `Prepared`
(header and arrays agree), `Hashed` (what was hashed is what is in `mem_`, the signature
excepted), `SignedNow`, and `FilesOK` for what earlier invocations left.
`OnlyExpectedChips` needs no hypothesis: any signature is over hashes of which that of
the image covers the other two, and a filled or swapped one fits nothing.  Without
`~BnFails` the others are false (section 5).

`RInv` (theorem `ResigningInductive`) adds that the hashes, also those in the files, are a
function of the command line, one reading of the clock and one content of the stack
(`Left`).  `ResignedImageBoots` compares those of the signature with those of the image
about to be written: with the same inputs they are equal exactly if time and stack are, and
a signature over other hashes than an image's own starts nothing.  There is no hypothesis
about the clock or the stack.  `OutputSigned` needs `RInv` for the other way of signing: a
signature file holds a signature by some key, never a filling.

### `ImageFileProofs`

| theorem | states | hypothesis |
|---|---|---|
| `ImageTypeCorrect` | `[]TypeOK` | |
| `LoadedImageIsElf` | `[]ImageIsElf` | |
| `RegionsCover` | `[]RegionsCoverImage` | |
| `PaddingKeepsImage` | `[]FillOnlyPads` | |
| `WritesStayInMem` | `[]StaysInMem` | |

`IInv` (theorem `ImageInductive`) says of the program headers passed so far that the last
one that has an address is in `mem_` there (`Contents`), and that `low_`, `high_`
(`Extent`) and the regions (`Regions`) enclose them; then of the rounded image that it
begins on a page below all that was stored and ends on one (`Rounded`), that it begins a
page or more before the end of `mem_` if anything was stored, and past it if not (`Inside`), and that
padding and the header leave what they must (`Padded`).  `Inside` is what `WritesStayInMem`
needs: `PaddingInside` and `HeaderInside` turn it into the bounds of what is written.
`ImageTypeCorrect` says of writing no more than that `store` keeps `low_` and `high_` in
range.  `PageBelow` and `PagesApart` are the arithmetic of
rounding.  `ConstAssumption` has `mem_` no larger than the flash range and a whole number
of pages, as 512K, pages of 2K and the range of either chip are.

### `IntelHexProofs`

| theorem | states | hypothesis |
|---|---|---|
| `HexIsImage` | `[]HexReadsBack` | |

It rests on `ImageInductive`: an image that has been rounded is a whole number of pages,
hence of records (`WholeRows`), and lies in `mem_`.  The rest is by induction on the length
of the file.  The theorems of the
library about induction take an operator and cannot be used; `UpTo` says the same of a
set of numbers, from the fact that a set of numbers that is not empty has a least element.

- *The operators.*  `FoldLeft` and `FlattenSeq` are defined by a function that is chosen.
  `ReadingExists` and `FlatExists` show that there is one; then a file with one more
  record is read by reading that record last (`ReadAppend`), and a file with one more row
  is the file and the row (`FlattenAppend`).
- *One record.*  After `m` bytes the reader has an image that holds the first `m` bytes
  of the written one and is erased elsewhere, and stands at the segment of the last of them
  (`After`).  A segment record moves it (`SegmentRead`), a data record adds its
  bytes (`DataRead`): its address in the span, added to the segment, is the address of
  its bytes because no record crosses a span (`SpanStays`).
- *The file.*  So every row takes `After(m)` to `After(m + RecordSize)` (`ReadRow`), `n` rows
  to `After(n * RecordSize)` (`ReadRows`), and the last one to the whole image.  Each passes the
  checks of the range and of `store`, so `success` stays.

### `GnubbyWriteProofs`

| theorem | states | hypothesis |
|---|---|---|
| `WriteTypeCorrect` | `[]TypeOK` | |
| `KeyWritten` | `[]WroteWhole` | (`WroteWhole` itself: fewer faults than exchanges) |
| `LockIsGivenBack` | `[]LockGivenBack` | `~UnlockLost` |

`WInv` (theorem `WriteInductive`) needs no record of which answer belongs to which
request.  `Lag(p)` is the number of items in the two queues ahead of the answer to `p`;
`Counted` says that each is a fault that has happened.  If there is none (`InTime`), what
was agreed to is in the slot.  If there is one (`Late`), the item that was last in the
queue when `p` began (`Before`) is no APDU's, because the call that left it ended with a
request to lock or unlock (`Ended`), or else the lag is less than the faults; so it will
meet an exchange of `p` that expects an APDU, and stop `p` before the last number.  A
process whose lag reaches all its exchanges escapes this, and that takes as many faults
as `WroteWhole` excludes.  `LockReturns` is for `LockGivenBack`: a process that has no
unlock request left to send has one on its way behind each of its lock requests.

### `BinarySignerProofs`, `ReleaseImageProofs`

| theorem | states | hypothesis |
|---|---|---|
| `BsTypeCorrect`, `ReleaseTypeCorrect` | `[]TypeOK`, `[]ReleaseTypeOK` | |
| `ProdImages`, `ReleasedProdImages` | `[]ProdImagesAreProd` | |
| `SuccessIsPasted`, `ReleaseSuccessIsPasted` | `[]SuccessMeansPasted` | `~SignerLies`, and for `bs` alone `Fits` |
| `ReleasedIsAsked` | `[]ReleasedIsRequested` | `~SignerLies` |
| `TarballsAreReleases` | `[]TarballsCanBeReleased` | `~SignerLies` |
| `ReleaseImplementsFlashImage` | `ImplementsFlashImage`: refinement of `FlashImage` | `~SignerLies` |

`PasteKeepsRest` says what `dd conv=notrunc` leaves; everything about the contents of
images rests on it.  `BInv` (theorem `BsInductive`): every block in every file is one that
`bs` may sign (`FilesGood`), a run has made of its command line what it should
(`Settled`), one run at a time signs (`OneSigner`), and what is done of its request is in
place (`Done`), where "in place" has to allow that the trap of another run has removed
the flat files: then the paste fails, and not silently.  `RInv` (theorem
`ReleaseInductive`) adds that only the `bs` the script waits for works on `release.bin`
(`OneChild`), that the ROs were verified, that what is in `TMPD` is what the script has
made so far or nothing (`InTmpd`, `Stage`), and what was saved (`Saved`).

The refinement maps the full image to itself and the status of a process to what its
stage shows; `mv` is the one step of `FlashImage` that changes an image.

`~SignerLies` says that the exit status 0 of the signer means that its output is written.
Run `bs_success` shows that the code does not keep to it, so these four theorems are
about the scripts and not about the scripts with this signer.  Types and
`ProdImagesAreProd` do not depend on it.

### What is only model-checked

- `SignReturns` and `WriteReturns`: liveness under fairness is beyond the prover.
- The properties of the runs that expect a violation.

## 5. Where the code and its documentation disagree

Shown by a run (`findings` in `PROJECT.json`): the comparison of keys that turns
every gnubby down; the manifest's timestamp that is not read, which breaks two-step
signing; the manifest's board ID that is not read; padding that overwrites an image
whose `base_` is not 0; SUCCESS from `bs` over output files that the signer did not
write.

Visible in the models as well, without a run of their own:

- `SignedHeader()` leaves fields unset that are hashed (`rw_product_family_`, `swap_mark`
  and the union; `Junk` in `PrepareHeader`).  Two invocations that find different bytes on
  the stack hash different headers, even within one second, and the signature of the
  first does not fit the image of the second (`ResignedBootsExactly`);
- `PublicKey::sign` returns 1 when `BN_lshift` or `BN_mod` fails (`BnFails` in
  `KeySign`); the output is then not bootable, but exit status 0;
- `Image::generate` says nothing when the output cannot be opened or written
  (`DiskFaults` in `OpenOutput`, `WriteOutput`);
- `--override-keyid` falls through to `--input` with a null argument (`GetOptions`),
  so that `hdr.keyid = values["keyid"]` in `main` is never reached;
- for an ELF file without a loaded segment `base_` is 512K: the header, and padding, are
  written outside `mem_` (`overrun`, `StaysInMem`);
- with a public key and no `--signature`, the output is written without a signature, and
  the exit status is 0 (`OutputIsSigned`);
- `--signature` has no effect with a key that can sign (`Signature`);
- `high_` is the last address during loading, so a last byte at a multiple of 2K is
  rounded away (last conjunct of `ImageIsElf`);
- the window of loadable addresses is 16 times the size of `mem_`; `store` drops the
  bytes beyond, and `main` never looks at `success_`;
- a board ID given to `bs` or to the release script reaches the manifest and no
  further (`BoardRead`): the release has neither it nor its name;
- `touch` in `bs` makes sure that a failed signing leaves a file that can be pasted;
  only the exit status stands between the two (`bs_success`);
- the release script's trap for SIGINT and SIGTERM does not exit (`Terminate`).  The
  script goes on without `TMPD` until a command misses a file; after `cp` none does, and
  it ends with SUCCESS, rightly (`ReleasedIsRequested`);
- `dest_dir` is never set when `prepare_image` starts (140-143): it is called once;
- `open` closes `handle_` and leaves it set when the claim fails, as it does whenever
  another signer runs, so that `__fail` and the destructor use it
  (`UseClosedHandle`, `End`);
- `write_bn` compares lengths only when it comes to a number: a key with a public
  exponent of 65537, or with a number that begins with a zero byte, is refused after
  its earlier numbers have replaced those in the slot (`MisfitFails`).

## 6. What is not modelled

- `PublicKey::print`, `encrypt`, `decrypt`, `raw`: they compute on a key and change
  nothing; no caller in the signer.  `Image::randomize`: no caller.
- The other records, malformed lines and unsigned files of `fromIntelHex` (no caller
  either; the reader serves as the inverse of the writer).
- `getPIN`, AES, ECDH and SHA: bytes, without state between calls.  The layout of APDUs
  beyond command, length and status.
- Parsing of JSON and XML, and `sed` on JSON: the models start at the values found.
- Two signing runs at once in one tree, and images that do not fit (section 3).
- Static initialisation (`FLASH_END` from `FLAGS_dauntless`), failures of
  `libusb_get_device_list`, `malloc` of structures.
- `pmjp.py` and `regdef_convert.sh`: text converters without state.

Nearly all lines of the repository are outside the models for good, which is why the
share of its lines that they cover is small.  `src/builtin-c` is a copy of kernel and
libc headers, `src/chip/c` and `src/chip/rust` are register definitions converted from
hardware tables: constants, without a statement that is executed.  The boot ROM, the
loader, the firmware and rs50 are submodules that are not part of this repository.  The
program is the signer: some 3000 lines with its scripts, of which the models cover what
changes state.

## 7. Plan

Modelled: `SignRequest`, `GnubbySign`; `CodeSigner`; `ImageFile`; `FlashLayout`,
`FlashImage`, `BinarySigner`; `GnubbyWrite` with the frames of `gnubby_exchange`;
`ReleaseImage` on top of `BinarySigner`.

Proved: every safety invariant and every action property of the passing runs, and both
refinements.  The two liveness properties stay with TLC.
