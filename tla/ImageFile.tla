------------------------------ MODULE ImageFile ------------------------------
(***************************************************************************)
(* The class Image of util/signer/common/image.h: an ELF file is loaded    *)
(* into mem_ and its extent rounded to pages, the image is padded, the     *)
(* signed header is laid over its start, and the image is written in       *)
(* binary or as Intel hex, which fromIntelHex can read back.               *)
(*                                                                         *)
(* Addresses are counted from FLASH_START * 16, where mem_ begins.         *)
(***************************************************************************)
EXTENDS Integers, Sequences, FiniteSets, FiniteSetsExt, SequencesExt

CONSTANTS
  Page,         \* 2048
  HeaderSize,   \* sizeof(SignedHeader)
  MemSize,      \* sizeof(mem_), 512K
  FlashStart,   \* FLASH_START * 16
  FlashSize,    \* FLASH_END * 16 - FLASH_START * 16
  Span,         \* 64K, the reach of a segment record
  RecordSize,   \* 16, the bytes of a data record
  Elf,          \* ELF files: their .sections, and .segments in order
  Erased,       \* the byte 0xff
  Header,       \* a byte of the signed header
  Patterns      \* what --patternfill and --randomfill put into a byte

ASSUME ConstAssumption ==
  /\ {Page, HeaderSize, MemSize, FlashStart, FlashSize, Span, RecordSize} \subseteq Nat \ {0}
  /\ HeaderSize < Page /\ MemSize % Page = 0 /\ MemSize <= FlashSize
  /\ Page % RecordSize = 0 /\ Span % RecordSize = 0

\* The sections and program headers of a file, addresses from FLASH_START * 16 on.
SectionHeader == [addr : Int, size : Nat, alloc : BOOLEAN, exec : BOOLEAN]
ProgramHeader == [paddr : Int, bytes : Seq(Nat), offset0 : BOOLEAN]
ASSUME ElfAssumption ==
  \A e \in Elf : /\ e.sections \in Seq(SectionHeader)
                 /\ e.segments \in Seq(ProgramHeader)

VARIABLES
  pc,       \* the stage main has brought the image to
  elf,      \* the file given to fromElf
  todo,     \* the program headers still to be loaded
  mem,      \* mem_
  low,      \* low_, the lowest address stored to
  high,     \* high_: the highest one, and from RoundImage on the end
  base,     \* base_
  success,  \* success_
  ro,       \* ro_base_ and ro_max_, the readable region of the header
  rx        \* rx_base_ and rx_max_, the executable one

regions == <<ro, rx>>
vars == <<pc, elf, todo, mem, low, high, base, success, regions>>

Mem == 0..(MemSize - 1)
FillEnd == MemSize - Page

----------------------------------------------------------------------------
\* Image::Image.
Init ==
  /\ pc = "open"
  /\ elf \in Elf
  /\ todo = elf.segments
  /\ mem = [a \in Mem |-> Erased]
  /\ low = MemSize
  /\ high = 0
  /\ base = 0
  /\ success = TRUE
  /\ ro = [base |-> FlashSize, max |-> -FlashStart]
  /\ rx = ro

\* What is within the flash range, as sections and program headers are tested.
InFlash(addr, size) == addr >= 0 /\ addr + size < FlashSize

\* The file cannot be opened, read, or is no ELF file: main returns -2.
LoadFails ==
  /\ pc = "open"
  /\ pc' = "failed"
  /\ UNCHANGED <<elf, todo, mem, low, high, base, success, regions>>

\* Mutant: the end of the region is that of the program header at hand.
WidenedToLast(region, addr, size) ==
  [base |-> Min({region.base, addr}), max |-> addr + size]

\* A region that holds what it did, and the bytes from addr on.
Widened(region, addr, size) ==
  [base |-> Min({region.base, addr}), max |-> Max({region.max, addr + size})]

\* The loop over the section headers, each of which widens the region.
CodeSections ==
  {s \in ToSet(elf.sections) : s.alloc /\ s.exec /\ InFlash(s.addr, s.size)}
ReadSections ==
  /\ pc = "open"
  /\ rx' = [base |-> Min({rx.base} \cup {s.addr : s \in CodeSections}),
            max |-> Max({rx.max} \cup {s.addr + s.size : s \in CodeSections})]
  /\ pc' = "load"
  /\ UNCHANGED <<elf, todo, mem, low, high, base, success, ro>>

\* A program header that is passed over.
Ignored(seg) == ~InFlash(seg.paddr, Len(seg.bytes)) \/ seg.offset0

Addresses(seg) == {seg.paddr + n : n \in 0..(Len(seg.bytes) - 1)}

\* Mutant: store does not compare the address with the size of mem_.
LoadSegmentUnchecked ==
  /\ pc = "load"
  /\ todo # << >>
  /\ LET seg == Head(todo) IN
     IF Ignored(seg) THEN UNCHANGED <<mem, low, high>>
     ELSE /\ mem' = [a \in Mem |-> IF a \in Addresses(seg)
                                   THEN seg.bytes[a - seg.paddr + 1] ELSE mem[a]]
          /\ low' = Min(Addresses(seg) \cup {low})
          /\ high' = Max(Addresses(seg) \cup {high})
  /\ todo' = Tail(todo)
  /\ UNCHANGED <<pc, elf, base, success, regions>>

\* Mutant: store looks whether an address is the lowest only if it is not the
\* highest.
LoadSegmentElse ==
  /\ pc = "load"
  /\ todo # << >>
  /\ LET seg == Head(todo)
         stored == Addresses(seg) \cap Mem
     IN IF Ignored(seg) THEN UNCHANGED <<mem, low, high, success, ro>>
        ELSE /\ mem' = [a \in Mem |-> IF a \in stored
                                      THEN seg.bytes[a - seg.paddr + 1] ELSE mem[a]]
             /\ low' = Min({a \in stored : a <= high} \cup {low})
             /\ high' = Max(stored \cup {high})
             /\ success' = (success /\ Addresses(seg) \subseteq Mem)
             /\ ro' = Widened(ro, seg.paddr, Len(seg.bytes))
  /\ todo' = Tail(todo)
  /\ UNCHANGED <<pc, elf, base, rx>>

\* One program header of fromElf, with the calls of store it makes.  Addresses
\* beyond mem_ are warned of, and success_ keeps record of them.
LoadSegment ==
  /\ pc = "load"
  /\ todo # << >>
  /\ LET seg == Head(todo)
         stored == Addresses(seg) \cap Mem
     IN IF Ignored(seg) THEN UNCHANGED <<mem, low, high, success, ro>>
        ELSE /\ mem' = [a \in Mem |-> IF a \in stored
                                      THEN seg.bytes[a - seg.paddr + 1] ELSE mem[a]]
             /\ low' = Min(stored \cup {low})
             /\ high' = Max(stored \cup {high})
             /\ success' = (success /\ Addresses(seg) \subseteq Mem)
             /\ ro' = Widened(ro, seg.paddr, Len(seg.bytes))
  /\ todo' = Tail(todo)
  /\ UNCHANGED <<pc, elf, base, rx>>

\* Mutant: the end is rounded down.
RoundDown ==
  /\ pc = "load"
  /\ todo = << >>
  /\ low' = (low \div Page) * Page
  /\ base' = low'
  /\ high' = (high \div Page) * Page
  /\ pc' = "loaded"
  /\ UNCHANGED <<elf, todo, mem, success, regions>>

\* The end of fromElf.  Whatever was found for them, the regions begin at the
\* header and after it.
RoundImage ==
  /\ pc = "load"
  /\ todo = << >>
  /\ low' = (low \div Page) * Page
  /\ base' = low'
  /\ high' = ((high + Page - 1) \div Page) * Page
  /\ ro' = [ro EXCEPT !.base = base']
  /\ rx' = [rx EXCEPT !.base = base' + HeaderSize]
  /\ pc' = "loaded"
  /\ UNCHANGED <<elf, todo, mem, success>>

\* Mutant: padding starts a byte too early.
PaddingEarly == (high - base - 1)..(FillEnd - 1)

\* What fillPattern and fillRandom write: from high_ - base_ on, whatever base_ is.
Padding == (high - base)..(FillEnd - 1)

\* The loop of either.  Neither compares an address with the bounds of mem_, and of
\* what follows a write outside of it nothing is said.
Fill(stage) ==
  /\ \/ /\ Padding \subseteq Mem
        /\ \E fill \in [Padding -> Patterns] :
             mem' = [a \in Mem |-> IF a \in Padding THEN fill[a] ELSE mem[a]]
        /\ high' = FillEnd
        /\ pc' = stage
     \/ /\ ~(Padding \subseteq Mem)
        /\ pc' = "overrun"
        /\ UNCHANGED <<mem, high>>
  /\ UNCHANGED <<elf, todo, low, base, success, regions>>

\* main calls fillPattern, fillRandom, both in this order, or neither.
FillPattern == pc = "loaded" /\ Fill("patterned")
FillRandom == pc \in {"loaded", "patterned"} /\ Fill("filled")

\* Image::sign copies the header to mem_ + base_, as unchecked.
HeaderBytes == base..(base + HeaderSize - 1)
PlaceHeader ==
  /\ pc \in {"loaded", "patterned", "filled"}
  /\ \/ /\ HeaderBytes \subseteq Mem
        /\ mem' = [a \in Mem |-> IF a \in HeaderBytes THEN Header ELSE mem[a]]
        /\ pc' = "signed"
     \/ /\ ~(HeaderBytes \subseteq Mem)
        /\ pc' = "overrun"
        /\ UNCHANGED mem
  /\ UNCHANGED <<elf, todo, low, high, base, success, regions>>

Done == pc \in {"signed", "failed", "overrun"} /\ UNCHANGED vars

Next ==
  \/ LoadFails \/ ReadSections \/ LoadSegment \/ RoundImage
  \/ FillPattern \/ FillRandom \/ PlaceHeader
  \/ Done

Spec == Init /\ [][Next]_vars

----------------------------------------------------------------------------
(* generate and fromIntelHex.                                              *)

\* Mutant: the address of a segment record is counted from base_.
SegmentAtFromBase(i) == i - base

\* What the segment record written before address i says.
SegmentAt(i) == base + (i - base)

\* toIntelHex: a segment record at the start of every span, data records whose
\* address is the offset in the span.
Bytes(i) == [n \in 1..RecordSize |-> mem[i + n - 1]]
Data(i) == [kind |-> "data", at |-> (i - base) % Span, bytes |-> Bytes(i)]
Segment(i) == [kind |-> "segment", at |-> SegmentAt(i), bytes |-> << >>]
Records(i) ==
  IF (i - base) % Span = 0 THEN <<Segment(i), Data(i)>> ELSE <<Data(i)>>
IntelHex ==
  FlattenSeq([n \in 1..((high - base) \div RecordSize) |->
                Records(base + (n - 1) * RecordSize)])

\* generate in binary format.
Binary == [n \in 1..(high - base) |-> mem[base + n - 1]]

\* fromIntelHex: a segment record within the flash range, and a data record, byte
\* by byte with store.  What cannot be taken is warned of and passed over.
ReadSegment(image, at) ==
  IF at \in 0..FlashSize THEN [image EXCEPT !.seg = at]
  ELSE [image EXCEPT !.success = FALSE]
ReadData(image, at, bytes) ==
  LET first == image.seg + at
      all == first..(first + Len(bytes) - 1)
      stored == all \cap Mem
  IN [image EXCEPT
        !.mem = [a \in Mem |-> IF a \in stored THEN bytes[a - first + 1] ELSE @[a]],
        !.low = Min(stored \cup {@}),
        !.high = Max(stored \cup {@}),
        !.success = @ /\ all \subseteq Mem]
ReadRecord(image, record) ==
  IF record.kind = "segment" THEN ReadSegment(image, record.at)
  ELSE ReadData(image, record.at, record.bytes)
NewImage == [seg |-> 0, mem |-> [a \in Mem |-> Erased], low |-> MemSize, high |-> 0,
             success |-> TRUE]

\* The image of a file withSignature, rounded, if every record could be taken.
FromIntelHex(records) ==
  LET read == FoldLeft(ReadRecord, NewImage, records)
      end == ((read.high + Page - 1) \div Page) * Page
  IN IF ~read.success THEN [success |-> FALSE]
     ELSE [success |-> TRUE, base |-> read.low,
           bytes |-> [n \in 1..(end - read.low) |-> read.mem[read.low + n - 1]]]

----------------------------------------------------------------------------
TypeOK ==
  /\ pc \in {"open", "failed", "load", "loaded", "patterned", "filled", "signed", "overrun"}
  /\ mem \in [Mem -> {Erased, Header} \cup Patterns \cup
                       UNION {ToSet(seg.bytes) : seg \in ToSet(elf.segments)}]
  /\ low \in 0..MemSize /\ high \in 0..MemSize /\ base \in 0..MemSize
  /\ success \in BOOLEAN
  /\ {ro.base, rx.base} \subseteq 0..(FlashSize + HeaderSize)
  /\ {ro.max, rx.max} \subseteq (-FlashStart)..FlashSize

\* The addresses of the ELF file that lie in mem_, and what it wants there.
Loaded == {i \in DOMAIN elf.segments : ~Ignored(elf.segments[i])}
Stored == UNION {Addresses(elf.segments[i]) \cap Mem : i \in Loaded}
ByteAt(a) ==
  LET last == elf.segments[Max({i \in Loaded : a \in Addresses(elf.segments[i])})]
  IN last.bytes[a - last.paddr + 1]
Image == base..(high - 1)

\* A loaded image starts on a page, holds what the ELF file has for it, and is
\* erased elsewhere; it reaches as far as the file does, but for one byte when
\* the last byte of the file is the first of a page.
ImageIsElf ==
  pc = "loaded" =>
    /\ base % Page = 0 /\ high % Page = 0
    /\ \A a \in Image : mem[a] = IF a \in Stored THEN ByteAt(a) ELSE Erased
    /\ \A a \in Stored \ Image : a = Max(Stored) /\ a % Page = 0

\* "readonly region", "executable region" (signed_header.h:55, 57), between
\* which the chip is told where an image may be read and executed: what was
\* stored is readable, header included, and code past the header executable, in
\* whichever order sections and program headers come.
Code(a) == \E s \in CodeSections : s.addr <= a /\ a < s.addr + s.size
Within(a, region) == region.base <= a /\ a < region.max
RegionsCoverImage ==
  pc \in {"loaded", "patterned", "filled", "signed"} =>
    \A a \in Stored : /\ Within(a, ro)
                      /\ Code(a) /\ a >= base + HeaderSize => Within(a, rx)

\* What generate writes as Intel hex is, read back, what it writes in binary,
\* and at the same address, wherever the image starts.  (Rounding leaves nothing
\* of an image that is a single byte at the start of a page.)
HexReadsBack ==
  pc = "signed" /\ base < high =>
    FromIntelHex(IntelHex) = [success |-> TRUE, base |-> base, bytes |-> Binary]

\* "to pad image to 512K": padding, and the header, change no byte of the image
\* past that header.  (A last byte that rounding left out is not in the image.)
Kept == {a \in Stored : a >= base + HeaderSize /\ ~(a = Max(Stored) /\ a % Page = 0)}
Written == pc \in {"patterned", "filled", "signed"}
FillKept == Written => \A a \in Kept : mem[a] = ByteAt(a)

\* Of images that start where mem_ does and leave room for padding this is so,
\* and what is written holds all of them.
FillOnlyPads ==
  Stored # {} /\ base = 0 /\ Max(Stored) < FillEnd =>
    FillKept /\ (Written => Kept \subseteq Image)

\* Whatever addresses an ELF file has, padding and the header are written within
\* mem_ when store was called for one address of it; without a loaded segment low_
\* is still where it began, past mem_, and what is written next is not.
StaysInMem == Written \/ pc = "overrun" => (pc = "overrun" <=> Stored = {})
=============================================================================
