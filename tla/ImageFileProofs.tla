-------------------------- MODULE ImageFileProofs --------------------------
(***************************************************************************)
(* Theorems about ImageFile for any sizes of the flash, of pages and of    *)
(* the header, and for any ELF files.                                      *)
(***************************************************************************)
EXTENDS ImageFile, TLAPS, FiniteSetTheorems, WellFoundedInduction, SequenceTheorems

----------------------------------------------------------------------------
(* The inductive invariant.                                                *)

\* How many program headers have been loaded.
Passed == Len(elf.segments) - Len(todo)
Has(i, a) == i \in Loaded /\ a \in Addresses(elf.segments[i])
Byte(i, a) == elf.segments[i].bytes[a - elf.segments[i].paddr + 1]

\* From RoundImage on.
Rounding == pc \in {"loaded", "patterned", "filled", "signed", "overrun"}

FileOK ==
  /\ elf \in Elf
  /\ todo \in Seq(ProgramHeader) /\ Len(todo) <= Len(elf.segments)
  /\ \A k \in 1..Len(todo) : todo[k] = elf.segments[Passed + k]
  /\ pc = "open" => Len(todo) = Len(elf.segments)
  /\ Rounding => Len(todo) = 0

\* What was loaded so far is in mem_, the last one on top, and within low_ and
\* high_.
Contents ==
  \A a \in Mem :
    \/ mem[a] = Erased /\ \A i \in 1..Passed : ~Has(i, a)
    \/ \E i \in 1..Passed : /\ Has(i, a) /\ mem[a] = Byte(i, a)
                            /\ \A j \in 1..Passed : Has(j, a) => j <= i
Extent ==
  /\ high < MemSize
  /\ \A a \in Mem, i \in 1..Passed : Has(i, a) => low <= a /\ a <= high
  /\ (\A a \in Mem, i \in 1..Passed : ~Has(i, a)) => low = MemSize /\ high = 0

\* So far as they have been found, code and data are in the regions.
Regions ==
  /\ ro \in [base : Int, max : Int] /\ rx \in [base : Int, max : Int]
  /\ \A i \in 1..Passed : \A a \in Mem : Has(i, a) => a < ro.max
  /\ pc \notin {"open", "failed"} =>
       \A s \in CodeSections : s.addr + s.size <= rx.max
  /\ pc \in {"open", "load"} => rx.base <= FlashSize /\ ro.base <= FlashSize

\* After rounding the image is whole pages, from below all that was stored.
Rounded ==
  Rounding =>
    /\ base % Page = 0 /\ high % Page = 0 /\ ro.base = base /\ rx.base = base + HeaderSize
    /\ \A a \in Stored : base <= a

\* An image that has something stored begins a page or more before the end of
\* mem_; one that has not begins there.
Inside ==
  Rounding =>
    /\ Stored = {} => pc \in {"loaded", "overrun"} /\ base = MemSize /\ high = 0
    /\ Stored # {} => pc # "overrun" /\ base <= high /\ base + Page <= MemSize

\* Padding and the header leave what FillKept is about.
Padded ==
  /\ pc = "patterned" => high = FillEnd
  /\ Written /\ base = 0 =>
       \A a \in Kept : /\ mem[a] = ByteAt(a)
                       /\ Max(Stored) < FillEnd => a \in Image

IInv ==
  /\ TypeOK /\ FileOK /\ Regions /\ Rounded /\ Inside /\ ImageIsElf /\ Padded
  /\ pc \in {"open", "load"} => Contents /\ Extent

----------------------------------------------------------------------------
(* Least and greatest numbers, and pages.                                  *)

\* A set of natural numbers that is not empty has a least element.
LEMMA LeastNumber ==
  ASSUME NEW S \in SUBSET Nat, S # {}
  PROVE  \E m \in S : \A j \in S : m <= j
<1> DEFINE Below(j) == 0..j
           Initial == {Below(j) : j \in S}
<1>1. Initial \subseteq FiniteSubsetsOf(Nat) /\ Initial # {}
  <2>1. \A j \in S : Below(j) \subseteq Nat /\ IsFiniteSet(Below(j))
    BY FS_Interval
  <2> QED  BY <2>1 DEF FiniteSubsetsOf
<1>2. PICK T \in Initial : \A U \in Initial : <<U, T>> \notin StrictSubsetOrdering(Nat)
  BY <1>1, FS_StrictSubsetOrderingWellFounded, WFMin
<1>3. PICK m \in S : T = Below(m)  BY <1>2
<1>4. ASSUME NEW j \in S, j < m PROVE FALSE
  <2>1. Below(j) \subseteq Below(m) /\ Below(j) # Below(m)
    BY <1>4
  <2>2. Below(j) \in Initial /\ Below(j) \in SUBSET Nat /\ T \in SUBSET Nat
    BY <1>3
  <2> QED  BY <1>2, <1>3, <2>1, <2>2 DEF StrictSubsetOrdering
<1> QED  BY <1>4

\* Min of numbers that are not negative.
LEMMA MinIsLeast ==
  ASSUME NEW S \in SUBSET Nat, S # {}
  PROVE  Min(S) \in S /\ \A j \in S : Min(S) <= j
  BY LeastNumber DEF Min

\* Max of numbers that have a bound.
LEMMA MaxIsGreatest ==
  ASSUME NEW S \in SUBSET Int, S # {}, NEW bound \in Int, \A j \in S : j <= bound
  PROVE  Max(S) \in S /\ \A j \in S : j <= Max(S)
<1> DEFINE T == {bound - j : j \in S}
<1>1. T \in SUBSET Nat /\ T # {}
  <2>1. \A j \in S : bound - j \in Nat  OBVIOUS
  <2> QED  BY <2>1
<1>2. PICK m \in T : \A t \in T : m <= t  BY <1>1, LeastNumber
<1>3. PICK g \in S : m = bound - g  BY <1>2
<1>4. \A j \in S : j <= g
  <2> TAKE j \in S
  <2>1. bound - j \in T /\ m <= bound - j  BY <1>2
  <2> QED  BY <1>3, <2>1
<1> HIDE DEF T
<1>5. \A j \in S : g >= j  BY <1>4
<1> QED  BY <1>5 DEF Max

\* Division.
LEMMA Division ==
  ASSUME NEW x \in Nat, NEW n \in Nat \ {0}
  PROVE  /\ x \div n \in Nat /\ x % n \in 0..(n - 1)
         /\ x = n * (x \div n) + (x % n)
  OBVIOUS

\* A multiple leaves no remainder.
LEMMA Multiple ==
  ASSUME NEW k \in Nat, NEW n \in Nat \ {0}
  PROVE  (k * n) % n = 0
  OBVIOUS

\* A multiple of a number, other than 0, is no less than it.
LEMMA MultipleIsNoLess ==
  ASSUME NEW x \in Nat \ {0}, NEW n \in Nat \ {0}, x % n = 0
  PROVE  n <= x
<1>1. ASSUME x < n  PROVE x % n = x  BY <1>1
<1> QED  BY <1>1

\* Multiples of a number are that number apart.
LEMMA MultiplesApart ==
  ASSUME NEW k \in Nat, NEW m \in Nat, NEW n \in Nat \ {0}, n * k < n * m + n
  PROVE  n * k <= n * m
  OBVIOUS

\* Rounding down to pages.
LEMMA PageBelow ==
  ASSUME NEW x \in Nat
  PROVE  LET b == (x \div Page) * Page IN
         b \in Nat /\ b % Page = 0 /\ b <= x /\ x < b + Page
<1> DEFINE k == x \div Page
<1>1. Page \in Nat \ {0}  BY ConstAssumption
<1>2. k \in Nat /\ x % Page \in 0..(Page - 1) /\ x = Page * k + (x % Page)
  BY <1>1, Division
<1>3. (k * Page) % Page = 0  BY <1>1, <1>2, Multiple
<1> HIDE DEF k
<1>4. k * Page \in Nat /\ k * Page = Page * k  BY <1>1, <1>2
<1>5. x % Page \in Nat /\ x % Page < Page  BY <1>1, <1>2
<1>6. k * Page <= x /\ x < k * Page + Page
  BY <1>1, <1>2, <1>4, <1>5
<1> QED  BY <1>3, <1>4, <1>6 DEF k

\* A page that begins before the end of another begins no later than it.
LEMMA PagesApart ==
  ASSUME NEW x \in Nat, NEW y \in Nat, x % Page = 0, y % Page = 0, x < y + Page
  PROVE  x <= y
<1> DEFINE k == x \div Page
           m == y \div Page
<1>1. Page \in Nat \ {0}  BY ConstAssumption
<1>2. k \in Nat /\ x = Page * k + (x % Page)  BY <1>1, Division
<1>3. m \in Nat /\ y = Page * m + (y % Page)  BY <1>1, Division
<1> HIDE DEF k, m
<1>4. Page * k \in Nat /\ Page * m \in Nat  BY <1>1, <1>2, <1>3
<1>5. x = Page * k /\ y = Page * m  BY <1>2, <1>3, <1>4
<1>6. Page * k <= Page * m  BY <1>1, <1>2, <1>3, <1>5, MultiplesApart
<1> QED  BY <1>5, <1>6
----------------------------------------------------------------------------
(* The file.                                                               *)

\* The program headers and the sections that count.
LEMMA FileFields ==
  ASSUME elf \in Elf
  PROVE  /\ elf.segments \in Seq(ProgramHeader) /\ Len(elf.segments) \in Nat
         /\ DOMAIN elf.segments = 1..Len(elf.segments)
         /\ \A i \in 1..Len(elf.segments) : elf.segments[i] \in ProgramHeader
         /\ Loaded \subseteq 1..Len(elf.segments)
         /\ \A s \in CodeSections : /\ s.addr \in Nat /\ s.size \in Nat
                                    /\ s.addr + s.size < FlashSize
<1>1. elf.segments \in Seq(ProgramHeader) /\ elf.sections \in Seq(SectionHeader)
  BY ElfAssumption
<1>2. /\ Len(elf.segments) \in Nat /\ DOMAIN elf.segments = 1..Len(elf.segments)
      /\ \A i \in 1..Len(elf.segments) : elf.segments[i] \in ProgramHeader
  BY <1>1, LenProperties, ElementOfSeq
<1>3. \A s \in ToSet(elf.sections) : s \in SectionHeader
  BY <1>1, LenProperties, ElementOfSeq DEF ToSet
<1>4. \A s \in CodeSections : /\ s.addr \in Nat /\ s.size \in Nat
                              /\ s.addr + s.size < FlashSize
  BY <1>3 DEF CodeSections, SectionHeader, InFlash
<1> QED  BY <1>1, <1>2, <1>4 DEF Loaded

\* Where the bytes of a program header go.
LEMMA AddressesAre ==
  ASSUME NEW seg \in ProgramHeader
  PROVE  /\ seg.paddr \in Int /\ Len(seg.bytes) \in Nat
         /\ \A a : a \in Addresses(seg) <=>
              a \in Int /\ seg.paddr <= a /\ a < seg.paddr + Len(seg.bytes)
         /\ \A a \in Addresses(seg) : seg.bytes[a - seg.paddr + 1] \in ToSet(seg.bytes)
         /\ ~Ignored(seg) => seg.paddr >= 0 /\ seg.paddr + Len(seg.bytes) < FlashSize
<1>1. seg.paddr \in Int /\ seg.bytes \in Seq(Nat)  BY DEF ProgramHeader
<1>2. Len(seg.bytes) \in Nat /\ DOMAIN seg.bytes = 1..Len(seg.bytes)
  BY <1>1, LenProperties
<1> DEFINE p == seg.paddr
           n == Len(seg.bytes)
<1> HIDE DEF p, n
<1>3. \A a : a \in {p + k : k \in 0..(n - 1)} <=> a \in Int /\ p <= a /\ a < p + n
  <2> TAKE a
  <2>1. p \in Int /\ n \in Nat  BY <1>1, <1>2 DEF p, n
  <2>2. ASSUME a \in Int, p <= a, a < p + n
        PROVE  a \in {p + k : k \in 0..(n - 1)}
    <3>1. a - p \in 0..(n - 1) /\ a = p + (a - p)  BY <2>1, <2>2
    <3> QED  BY <3>1
  <2> QED  BY <2>1, <2>2
<1>4. \A a : a \in Addresses(seg) <=>
        a \in Int /\ seg.paddr <= a /\ a < seg.paddr + Len(seg.bytes)
  BY <1>3 DEF Addresses, p, n
<1>5. ASSUME NEW a \in Addresses(seg)
      PROVE  seg.bytes[a - seg.paddr + 1] \in ToSet(seg.bytes)
  <2>1. a - seg.paddr + 1 \in 1..Len(seg.bytes)  BY <1>1, <1>2, <1>4
  <2> QED  BY <1>2, <2>1 DEF ToSet
<1>6. ~Ignored(seg) => seg.paddr >= 0 /\ seg.paddr + Len(seg.bytes) < FlashSize
  BY DEF Ignored, InFlash
<1> QED  BY <1>1, <1>2, <1>4, <1>5, <1>6

\* What is said of a file stays true of it.
LEMMA SameFile ==
  ASSUME elf' = elf
  PROVE  /\ Loaded' = Loaded /\ Stored' = Stored /\ CodeSections' = CodeSections
         /\ \A a : ByteAt(a)' = ByteAt(a)
         /\ \A i, a : (Has(i, a)' <=> Has(i, a)) /\ Byte(i, a)' = Byte(i, a)
  BY DEF Loaded, Stored, CodeSections, ByteAt, Has, Byte

\* The last program header that has an address gives its byte.
LEMMA ByteAtIs ==
  ASSUME elf \in Elf, NEW a, NEW i, Has(i, a), \A j : Has(j, a) => j <= i
  PROVE  ByteAt(a) = Byte(i, a)
<1> DEFINE S == {j \in Loaded : a \in Addresses(elf.segments[j])}
<1>1. i \in S /\ \A j \in S : j <= i  BY DEF Has
<1>2. S \subseteq Int /\ i \in Int  BY <1>1, FileFields
<1> HIDE DEF S
<1>3. Max(S) = i
  <2>1. \A j \in S : i >= j  BY <1>1, <1>2
  <2>2. Max(S) \in S /\ \A j \in S : Max(S) >= j
    <3> HIDE DEF Max
    <3>1. \E x \in S : \A j \in S : x >= j  BY <1>1, <2>1, Zenon
    <3> QED  BY <3>1, Zenon DEF Max
  <2>3. Max(S) >= i /\ i >= Max(S) /\ Max(S) \in Int
    BY <1>1, <1>2, <2>1, <2>2
  <2> QED  BY <1>2, <2>3
<1> QED  BY <1>3 DEF ByteAt, Byte, S

\* The last address that is stored to.
LEMMA MaxStored ==
  Stored # {} => Max(Stored) \in Stored /\ \A a \in Stored : a <= Max(Stored)
<1>1. MemSize \in Nat  BY ConstAssumption
<1>2. Stored \subseteq Int /\ \A a \in Stored : a <= MemSize
  BY <1>1 DEF Stored, Mem
<1> QED  BY <1>1, <1>2, MaxIsGreatest

\* An address is stored to if a program header that counts has it.
LEMMA StoredIs == \A a : a \in Stored <=> a \in Mem /\ \E i : Has(i, a)
  BY DEF Stored, Has

----------------------------------------------------------------------------
(* The steps.                                                              *)

\* At first nothing is loaded.
LEMMA InitIInv == Init => IInv
<1> SUFFICES ASSUME Init  PROVE IInv  OBVIOUS
<1> USE DEF Init
<1>1. {MemSize, FlashSize, FlashStart, HeaderSize} \subseteq Nat \ {0}
  BY ConstAssumption
<1>2. elf.segments \in Seq(ProgramHeader) /\ Len(elf.segments) \in Nat
  BY FileFields
<1>3. Passed = 0  BY <1>2 DEF Passed
<1>4. TypeOK  BY <1>1 DEF TypeOK
<1>5. FileOK  BY <1>2, <1>3 DEF FileOK, Rounding
<1>6. Regions  BY <1>1, <1>3 DEF Regions
<1>7. Rounded /\ Inside /\ ImageIsElf /\ Padded
  BY DEF Rounded, Rounding, Inside, ImageIsElf, Padded, Written
<1>8. Contents /\ Extent  BY <1>1, <1>3 DEF Contents, Extent
<1> QED  BY <1>4, <1>5, <1>6, <1>7, <1>8 DEF IInv

\* fromElf gives up.
LEMMA LoadFailsIInv == IInv /\ LoadFails => IInv'
<1> SUFFICES ASSUME IInv, LoadFails  PROVE IInv'  OBVIOUS
<1> USE DEF LoadFails, IInv
<1>1. Passed' = Passed  BY DEF Passed
<1>2. TypeOK'  BY DEF TypeOK, regions
<1>3. FileOK'  BY <1>1 DEF FileOK, Rounding
<1>4. Regions'  BY <1>1, SameFile DEF Regions, regions
<1>5. Rounded' /\ Inside' /\ ImageIsElf' /\ Padded'
  BY DEF Rounded, Rounding, Inside, ImageIsElf, Padded, Written
<1> QED  BY <1>2, <1>3, <1>4, <1>5

\* The sections are looked at.
LEMMA ReadSectionsIInv == IInv /\ ReadSections => IInv'
<1> SUFFICES ASSUME IInv, ReadSections  PROVE IInv'  OBVIOUS
<1> USE DEF ReadSections, IInv
<1>1. {MemSize, FlashSize, FlashStart, HeaderSize} \subseteq Nat \ {0}
  BY ConstAssumption
<1>2. elf \in Elf /\ Passed' = Passed  BY DEF FileOK, Passed
<1>3. rx.base \in Nat /\ rx.base <= FlashSize /\ rx.max \in (-FlashStart)..FlashSize
  BY <1>1 DEF TypeOK, Regions
<1>4. /\ rx'.base \in Nat /\ rx'.base <= FlashSize
  <2> DEFINE S == {rx.base} \cup {s.addr : s \in CodeSections}
  <2>1. S \in SUBSET Nat /\ rx.base \in S  BY <1>2, <1>3, FileFields
  <2>2. rx'.base = Min(S)  OBVIOUS
  <2> HIDE DEF S
  <2>3. Min(S) \in S /\ Min(S) <= rx.base  BY <2>1, MinIsLeast
  <2>4. Min(S) \in Nat /\ FlashSize \in Nat  BY <1>1, <2>1, <2>3
  <2>5. Min(S) <= FlashSize  BY <1>3, <2>3, <2>4
  <2> QED  BY <2>2, <2>4, <2>5
<1>5. /\ rx'.max \in (-FlashStart)..FlashSize
      /\ \A s \in CodeSections : s.addr + s.size <= rx'.max
  <2> DEFINE S == {rx.max} \cup {s.addr + s.size : s \in CodeSections}
  <2>1. S \in SUBSET Int /\ rx.max \in S /\ \A j \in S : j <= FlashSize
    BY <1>1, <1>2, <1>3, FileFields
  <2>2. rx'.max = Max(S)  OBVIOUS
  <2>3. \A s \in CodeSections : s.addr + s.size \in S  OBVIOUS
  <2> HIDE DEF S
  <2>4. Max(S) \in S /\ \A j \in S : j <= Max(S)
    <3>1. FlashSize \in Int /\ S # {}  BY <1>1, <2>1
    <3> QED  BY <2>1, <3>1, MaxIsGreatest
  <2>5. rx.max <= Max(S) /\ Max(S) \in Int /\ Max(S) <= FlashSize  BY <2>1, <2>4
  <2>6. Max(S) \in (-FlashStart)..FlashSize  BY <1>1, <1>3, <2>5
  <2> QED  BY <2>2, <2>3, <2>4, <2>6
<1>6. TypeOK'  BY <1>1, <1>4, <1>5 DEF TypeOK
<1>7. FileOK'  BY <1>2 DEF FileOK, Rounding
<1>8. Regions'
  <2>1. rx'.base \in Int /\ rx'.max \in Int  BY <1>1, <1>4, <1>5
  <2>2. rx' \in [base : Int, max : Int]  BY <2>1
  <2> QED  BY <1>2, <1>4, <1>5, <2>2, SameFile DEF Regions
<1>9. Rounded' /\ Inside' /\ ImageIsElf' /\ Padded'
  BY DEF Rounded, Rounding, Inside, ImageIsElf, Padded, Written
<1>10. Contents' /\ Extent'  BY <1>2, SameFile DEF Contents, Extent
<1> QED  BY <1>6, <1>7, <1>8, <1>9, <1>10
\* The next program header is the one after those that were loaded.
LEMMA NextHeader ==
  ASSUME FileOK, pc = "load", todo # << >>, todo' = Tail(todo), pc' = pc, elf' = elf
  PROVE  /\ Passed \in Nat /\ Passed' = Passed + 1
         /\ Passed + 1 \in 1..Len(elf.segments)
         /\ Head(todo) = elf.segments[Passed + 1] /\ Head(todo) \in ProgramHeader
         /\ FileOK'
<1>1. /\ elf \in Elf /\ todo \in Seq(ProgramHeader) /\ Len(todo) <= Len(elf.segments)
      /\ \A k \in 1..Len(todo) : todo[k] = elf.segments[Passed + k]
      /\ Len(elf.segments) \in Nat
  BY FileFields DEF FileOK
<1>2. /\ Len(todo) \in Nat /\ Len(todo) >= 1 /\ Head(todo) = todo[1]
      /\ todo' \in Seq(ProgramHeader) /\ Len(todo') = Len(todo) - 1
      /\ \A k \in 1..Len(todo') : todo'[k] = todo[k + 1]
  BY <1>1, LenProperties, EmptySeq, HeadTailProperties
<1>3. /\ Passed \in Nat /\ Passed' = Passed + 1
      /\ Passed + 1 \in 1..Len(elf.segments)
  BY <1>1, <1>2 DEF Passed
<1>4. Head(todo) = elf.segments[Passed + 1] /\ Head(todo) \in ProgramHeader
  BY <1>1, <1>2, <1>3, FileFields
<1>5. \A k \in 1..Len(todo') : todo'[k] = elf.segments[Passed' + k]
  <2> TAKE k \in 1..Len(todo')
  <2>1. k + 1 \in 1..Len(todo) /\ Passed + (k + 1) = Passed' + k
    BY <1>2, <1>3
  <2> QED  BY <1>1, <1>2, <2>1
<1>6. FileOK'
  <2>1. elf' \in Elf /\ todo' \in Seq(ProgramHeader) /\ elf'.segments = elf.segments
    BY <1>1, <1>2
  <2>2. Len(todo') <= Len(elf'.segments)  BY <1>1, <1>2
  <2>3. pc' = "load"  OBVIOUS
  <2> QED  BY <1>5, <2>1, <2>2, <2>3 DEF FileOK, Rounding
<1> QED  BY <1>3, <1>4, <1>6

\* A program header is loaded.
LEMMA LoadSegmentIInv == IInv /\ LoadSegment => IInv'
<1> SUFFICES ASSUME IInv, LoadSegment  PROVE IInv'  OBVIOUS
<1>1. /\ TypeOK /\ FileOK /\ Regions /\ Contents /\ Extent
      /\ pc = "load" /\ todo # << >> /\ todo' = Tail(todo)
      /\ UNCHANGED <<pc, elf, base, rx>>
  BY DEF IInv, LoadSegment
<1> DEFINE seg == Head(todo)
           n == Passed + 1
           stored == Addresses(seg) \cap Mem
<1>2. /\ Passed \in Nat /\ Passed' = n /\ n \in 1..Len(elf.segments)
      /\ seg = elf.segments[n] /\ seg \in ProgramHeader /\ FileOK'
  BY <1>1, NextHeader
<1>3. Rounded' /\ Inside' /\ ImageIsElf' /\ Padded'
  BY <1>1 DEF Rounded, Rounding, Inside, ImageIsElf, Padded, Written
<1>4. \A i, a : (Has(i, a)' <=> Has(i, a)) /\ Byte(i, a)' = Byte(i, a)
  BY <1>1, SameFile
<1>5. CodeSections' = CodeSections  BY <1>1, SameFile
<1>6. \A i : i \in 1..n <=> i \in 1..Passed \/ i = n
  BY <1>2
<1>7. CASE Ignored(seg)
  <2>1. UNCHANGED <<mem, low, high, success, ro>>  BY <1>7 DEF LoadSegment
  <2>2. \A a : ~Has(n, a)  BY <1>2, <1>7 DEF Has, Loaded
  <2>3. TypeOK'  BY <1>1, <2>1 DEF TypeOK
  <2>4. Regions'  BY <1>1, <1>2, <1>4, <1>5, <1>6, <2>1, <2>2 DEF Regions
  <2>5. Contents'
    <3> SUFFICES ASSUME NEW a \in Mem
                 PROVE  \/ mem[a] = Erased /\ \A i \in 1..n : ~Has(i, a)
                        \/ \E i \in 1..n : /\ Has(i, a) /\ mem[a] = Byte(i, a)
                                           /\ \A j \in 1..n : Has(j, a) => j <= i
      BY <1>2, <1>4, <2>1 DEF Contents
    <3> HIDE DEF n
    <3> QED  BY <1>1, <1>6, <2>2 DEF Contents
  <2>6. Extent'  BY <1>1, <1>2, <1>4, <1>6, <2>1, <2>2 DEF Extent
  <2> QED  BY <1>2, <1>3, <2>3, <2>4, <2>5, <2>6 DEF IInv
<1>8. CASE ~Ignored(seg)
  <2>1. /\ mem' = [a \in Mem |-> IF a \in stored
                                 THEN seg.bytes[a - seg.paddr + 1] ELSE mem[a]]
        /\ low' = Min(stored \cup {low})
        /\ high' = Max(stored \cup {high})
        /\ success' = (success /\ Addresses(seg) \subseteq Mem)
        /\ ro' = Widened(ro, seg.paddr, Len(seg.bytes))
    BY <1>8 DEF LoadSegment
  <2>2. {MemSize, FlashSize, FlashStart, HeaderSize} \subseteq Nat \ {0}
        /\ MemSize \in Nat /\ FlashSize \in Nat /\ FlashStart \in Nat
    BY ConstAssumption
  <2>3. \A a : Has(n, a) <=> a \in Addresses(seg)
    BY <1>2, <1>8, FileFields DEF Has, Loaded, FileOK
  <2>4. \A a \in stored : Byte(n, a) = seg.bytes[a - seg.paddr + 1]
    BY <1>2 DEF Byte
  <2>5. /\ seg.paddr \in Nat /\ Len(seg.bytes) \in Nat
        /\ seg.paddr + Len(seg.bytes) < FlashSize
        /\ \A a \in Addresses(seg) : a < seg.paddr + Len(seg.bytes)
        /\ \A a \in Addresses(seg) : seg.bytes[a - seg.paddr + 1] \in ToSet(seg.bytes)
    BY <1>2, <1>8, AddressesAre
  <2>6. low \in Nat /\ low <= MemSize /\ high \in Nat /\ high < MemSize
    BY <1>1, <2>2 DEF TypeOK, Extent
  <2> DEFINE lows == stored \cup {low}
             highs == stored \cup {high}
  <2>7. /\ lows \in SUBSET Nat /\ low \in lows
        /\ highs \in SUBSET Int /\ high \in highs /\ \A a \in highs : a <= MemSize - 1
    BY <2>2, <2>6 DEF Mem
  <2>8. /\ low' \in Nat /\ low' <= low /\ \A a \in stored : low' <= a
    <3>1. Min(lows) \in lows /\ \A a \in lows : Min(lows) <= a
      <4> HIDE DEF lows
      <4> QED  BY <2>7, MinIsLeast
    <3> QED  BY <2>1, <2>7, <3>1
  <2>9. /\ high' \in Nat /\ high <= high' /\ high' < MemSize
        /\ \A a \in stored : a <= high'
    <3>1. Max(highs) \in highs /\ \A a \in highs : a <= Max(highs)
      <4>1. MemSize - 1 \in Int /\ highs # {}  BY <2>2, <2>7
      <4> HIDE DEF highs
      <4> QED  BY <2>7, <4>1, MaxIsGreatest
    <3>2. high' = Max(highs)  BY <2>1
    <3>3. \A a \in stored : a \in highs  OBVIOUS
    <3> HIDE DEF highs
    <3>4. high' \in Int /\ high' <= MemSize - 1 /\ high <= high'
      BY <2>7, <3>1, <3>2
    <3>5. high' \in Nat /\ high' < MemSize  BY <2>2, <2>6, <3>4
    <3> QED  BY <3>1, <3>2, <3>3, <3>4, <3>5
  <2>10. /\ ro'.base \in Nat /\ ro'.base <= FlashSize
         /\ ro'.max \in (-FlashStart)..FlashSize
         /\ ro.max <= ro'.max /\ seg.paddr + Len(seg.bytes) <= ro'.max
    <3>1. /\ ro.base \in Nat /\ ro.base <= FlashSize
          /\ ro.max \in Int /\ -FlashStart <= ro.max /\ ro.max <= FlashSize
      BY <1>1, <2>2 DEF TypeOK, Regions
    <3> DEFINE bases == {ro.base, seg.paddr}
               ends == {ro.max, seg.paddr + Len(seg.bytes)}
    <3>2. ro'.base = Min(bases) /\ ro'.max = Max(ends)
      BY <2>1 DEF Widened
    <3>3. bases \in SUBSET Nat /\ ro.base \in bases
      BY <2>5, <3>1
    <3>4. /\ ends \in SUBSET Int /\ ro.max \in ends
          /\ seg.paddr + Len(seg.bytes) \in ends /\ \A j \in ends : j <= FlashSize
      BY <2>2, <2>5, <3>1
    <3> HIDE DEF bases, ends
    <3>5. Min(bases) \in bases /\ Min(bases) <= ro.base
      BY <3>3, MinIsLeast
    <3>6. Max(ends) \in ends /\ \A j \in ends : j <= Max(ends)
      <4>1. FlashSize \in Int /\ ends # {}  BY <2>2, <3>4
      <4> QED  BY <3>4, <4>1, MaxIsGreatest
    <3>7. Min(bases) \in Nat /\ Min(bases) <= FlashSize
      <4>1. Min(bases) \in Nat  BY <3>3, <3>5
      <4> QED  BY <2>2, <3>1, <3>5, <4>1
    <3>8. Max(ends) \in (-FlashStart)..FlashSize
      <4>1. Max(ends) \in Int /\ ro.max <= Max(ends) /\ Max(ends) <= FlashSize
        BY <3>4, <3>6
      <4> QED  BY <2>2, <3>1, <4>1
    <3> QED  BY <3>2, <3>4, <3>6, <3>7, <3>8
  <2>11. TypeOK'
    <3> DEFINE Values == {Erased, Header} \cup Patterns \cup
                           UNION {ToSet(g.bytes) : g \in ToSet(elf.segments)}
    <3>1. \A a \in stored : seg.bytes[a - seg.paddr + 1] \in Values
      <4>1. seg \in ToSet(elf.segments)
        BY <1>2, FileFields DEF ToSet, FileOK
      <4> QED  BY <2>5, <4>1
    <3>2. mem \in [Mem -> Values]  BY <1>1 DEF TypeOK
    <3> HIDE DEF Values, stored, seg
    <3>3. mem' \in [Mem -> Values]  BY <2>1, <3>1, <3>2
    <3>4. mem' \in [Mem -> {Erased, Header} \cup Patterns \cup
                       UNION {ToSet(g.bytes) : g \in ToSet(elf'.segments)}]
      BY <1>1, <3>3 DEF Values
    <3>5. low' \in 0..MemSize /\ high' \in 0..MemSize
      BY <2>2, <2>6, <2>8, <2>9
    <3>6. success' \in BOOLEAN  BY <2>1
    <3>7. {ro'.base, rx'.base} \subseteq 0..(FlashSize + HeaderSize)
      BY <1>1, <2>2, <2>10 DEF TypeOK
    <3>8. {ro'.max, rx'.max} \subseteq (-FlashStart)..FlashSize
      BY <1>1, <2>10 DEF TypeOK
    <3>9. base' \in 0..MemSize /\ pc' = "load"  BY <1>1 DEF TypeOK
    <3> QED  BY <3>4, <3>5, <3>6, <3>7, <3>8, <3>9 DEF TypeOK
  <2>12. Regions'
    <3>1. ASSUME NEW i \in 1..n, NEW a \in Mem, Has(i, a)  PROVE a < ro'.max
      <4>1. a \in Int  BY DEF Mem
      <4>2. CASE i = n  BY <2>3, <2>5, <2>10, <3>1, <4>1, <4>2
      <4>3. CASE i \in 1..Passed
        <5>1. a < ro.max  BY <1>1, <3>1, <4>3 DEF Regions
        <5>2. ro.max \in Int  BY <1>1 DEF TypeOK
        <5> QED  BY <2>10, <4>1, <5>1, <5>2
      <4> QED  BY <1>6, <4>2, <4>3
    <3>2. \A i \in 1..Passed' : \A a \in Mem : Has(i, a)' => a < ro'.max
      BY <1>2, <1>4, <3>1
    <3>3. ro'.base \in Int /\ ro'.max \in Int  BY <2>2, <2>10
    <3>4. ro' \in [base : Int, max : Int]  BY <2>1, <3>3 DEF Widened
    <3> QED  BY <1>1, <1>5, <2>10, <3>2, <3>4 DEF Regions
  <2>13. Contents'
    <3> SUFFICES ASSUME NEW a \in Mem
                 PROVE  \/ mem'[a] = Erased /\ \A i \in 1..n : ~Has(i, a)
                        \/ \E i \in 1..n : /\ Has(i, a) /\ mem'[a] = Byte(i, a)
                                           /\ \A j \in 1..n : Has(j, a) => j <= i
      BY <1>2, <1>4 DEF Contents
    <3>1. CASE a \in stored
      <4>1. Has(n, a) /\ mem'[a] = Byte(n, a)
        BY <2>1, <2>3, <2>4, <3>1
      <4>2. n \in 1..n /\ \A j \in 1..n : j <= n  BY <1>2
      <4> QED  BY <4>1, <4>2
    <3>2. CASE a \notin stored
      <4>1. ~Has(n, a) /\ mem'[a] = mem[a]  BY <2>1, <2>3, <3>2
      <4> HIDE DEF n
      <4> QED  BY <1>1, <1>6, <4>1 DEF Contents
    <3> QED  BY <3>1, <3>2
  <2>14. Extent'
    <3>1. ASSUME NEW a \in Mem, NEW i \in 1..n, Has(i, a)
          PROVE  low' <= a /\ a <= high'
      <4>1. a \in Int  BY DEF Mem
      <4>2. CASE i = n
        <5>1. a \in stored  BY <2>3, <3>1, <4>2
        <5> QED  BY <2>8, <2>9, <5>1
      <4>3. CASE i \in 1..Passed
        <5>1. low <= a /\ a <= high  BY <1>1, <3>1, <4>3 DEF Extent
        <5> QED  BY <2>6, <2>8, <2>9, <4>1, <5>1
      <4> QED  BY <1>6, <4>2, <4>3
    <3>2. \A a \in Mem, i \in 1..Passed' : Has(i, a)' => low' <= a /\ a <= high'
      BY <1>2, <1>4, <3>1
    <3>3. ASSUME \A a \in Mem, i \in 1..n : ~Has(i, a)
          PROVE  low' = MemSize /\ high' = 0
      <4>1. stored = {}
        <5>1. n \in 1..n  BY <1>2
        <5> QED  BY <2>3, <3>3, <5>1
      <4>2. low = MemSize /\ high = 0  BY <1>1, <1>6, <3>3 DEF Extent
      <4>3. lows = {low} /\ highs = {high}  BY <4>1
      <4>4. Min(lows) \in lows  BY <2>7, MinIsLeast
      <4>5. Max(highs) \in highs
        <5>1. MemSize - 1 \in Int /\ highs # {}  BY <2>2, <2>7
        <5> HIDE DEF highs
        <5> QED  BY <2>7, <5>1, MaxIsGreatest
      <4> QED  BY <2>1, <4>2, <4>3, <4>4, <4>5
    <3>4. (\A a \in Mem, i \in 1..Passed' : ~(Has(i, a)')) => low' = MemSize /\ high' = 0
      BY <1>2, <1>4, <3>3
    <3> QED  BY <2>9, <3>2, <3>4 DEF Extent
  <2> QED  BY <1>2, <1>3, <2>11, <2>12, <2>13, <2>14 DEF IInv
<1> QED  BY <1>7, <1>8

\* The image is rounded to pages.
LEMMA RoundImageIInv == IInv /\ RoundImage => IInv'
<1> SUFFICES ASSUME IInv, RoundImage  PROVE IInv'  OBVIOUS
<1>1. /\ TypeOK /\ FileOK /\ Regions /\ Contents /\ Extent
      /\ pc = "load" /\ todo = << >> /\ pc' = "loaded"
      /\ UNCHANGED <<elf, todo, mem, success>>
  BY DEF IInv, RoundImage
<1> DEFINE first == (low \div Page) * Page
           end == ((high + Page - 1) \div Page) * Page
<1>2. /\ low' = first /\ base' = first /\ high' = end
      /\ ro' = [ro EXCEPT !.base = first]
      /\ rx' = [rx EXCEPT !.base = first + HeaderSize]
  BY DEF RoundImage
<1>3. /\ Page \in Nat /\ Page > 0 /\ HeaderSize \in Nat /\ MemSize \in Nat
      /\ FlashSize \in Nat /\ FlashStart \in Nat /\ MemSize <= FlashSize
  BY ConstAssumption
<1>4. Passed = Len(elf.segments) /\ Len(elf.segments) \in Nat
  BY <1>1, EmptySeq, FileFields DEF FileOK, Passed
<1>5. low \in Nat /\ low <= MemSize /\ high \in Nat /\ high < MemSize
  BY <1>1, <1>3 DEF TypeOK, Extent
<1>6. first \in Nat /\ first % Page = 0 /\ first <= low
  BY <1>5, PageBelow
<1>7. end \in Nat /\ end % Page = 0 /\ high <= end /\ end <= MemSize
  <2> DEFINE x == high + Page - 1
  <2>1. x \in Nat /\ x + 1 = high + Page  BY <1>3, <1>5
  <2>2. end = (x \div Page) * Page  OBVIOUS
  <2> HIDE DEF x, end
  <2>3. end \in Nat /\ end % Page = 0 /\ end <= x /\ x < end + Page
    BY <2>1, <2>2, PageBelow
  <2>4. end \in Nat /\ end <= x /\ x < end + Page  BY <2>3
  <2>5. high <= end /\ end < MemSize + Page
    BY <1>3, <1>5, <2>1, <2>4
  <2>6. end <= MemSize  BY <1>3, <2>3, <2>5, PagesApart, ConstAssumption
  <2> QED  BY <2>3, <2>5, <2>6
<1> HIDE DEF first, end
<1>8. /\ first \in Nat /\ first <= low /\ first <= MemSize
      /\ end \in Nat /\ high <= end /\ end <= MemSize
  <2>1. first \in Nat /\ first <= low  BY <1>6
  <2>2. first <= MemSize  BY <1>3, <1>5, <2>1
  <2> QED  BY <1>7, <2>1, <2>2
<1>9. \A i, a : Has(i, a) => i \in 1..Passed
  BY <1>1, <1>4, FileFields DEF Has, FileOK
<1>10. \A a \in Stored : a \in Nat /\ low <= a /\ a <= high
  <2> TAKE a \in Stored
  <2>1. PICK i : a \in Mem /\ Has(i, a)  BY StoredIs
  <2> QED  BY <1>1, <1>9, <2>1 DEF Extent, Mem
<1>11. Stored' = Stored /\ \A a : ByteAt(a)' = ByteAt(a)
  BY <1>1, SameFile
<1>12. Image' = first..(end - 1)  BY <1>2 DEF Image
<1>13. /\ ro'.base = first /\ ro'.max = ro.max
       /\ rx'.base = first + HeaderSize /\ rx'.max = rx.max
       /\ ro' \in [base : Int, max : Int] /\ rx' \in [base : Int, max : Int]
  <2>1. first \in Int /\ first + HeaderSize \in Int  BY <1>3, <1>8
  <2> QED  BY <1>1, <1>2, <2>1 DEF Regions
<1>14. TypeOK'
  <2>1. first \in 0..(FlashSize + HeaderSize)  BY <1>3, <1>8
  <2>2. first + HeaderSize \in 0..(FlashSize + HeaderSize)
    <3>1. first + HeaderSize \in Nat  BY <1>3, <1>8
    <3>2. first + HeaderSize <= FlashSize + HeaderSize  BY <1>3, <1>8
    <3> QED  BY <1>3, <3>1, <3>2
  <2>3. low' \in 0..MemSize /\ high' \in 0..MemSize /\ base' \in 0..MemSize
    BY <1>2, <1>3, <1>8, <1>7
  <2> QED  BY <1>1, <1>13, <2>1, <2>2, <2>3 DEF TypeOK
<1>15. FileOK'
  <2>1. Len(todo) = 0  BY <1>1, EmptySeq
  <2>2. Passed' = Passed  BY <1>1 DEF Passed
  <2> QED  BY <1>1, <2>1, <2>2 DEF FileOK, Rounding
<1>16. Regions'
  <2>1. Passed' = Passed  BY <1>1 DEF Passed
  <2> QED  BY <1>1, <1>13, <2>1, SameFile DEF Regions
<1>17. Rounded'
  <2>1. \A a \in Stored : first <= a  BY <1>5, <1>8, <1>10
  <2> QED  BY <1>2, <1>6, <1>7, <1>11, <1>13, <2>1 DEF Rounded, Rounding
<1>18. ImageIsElf'
  <2>1. ASSUME NEW a \in Image'
        PROVE  mem[a] = IF a \in Stored THEN ByteAt(a) ELSE Erased
    <3>1. a \in Mem
      <4>1. a \in first..(end - 1) /\ MemSize \in Nat  BY <1>3, <1>12
      <4>2. a \in Int /\ first <= a /\ a <= end - 1  BY <1>3, <1>5, <1>8, <4>1
      <4> QED  BY <1>3, <1>5, <1>8, <4>1, <4>2 DEF Mem
    <3>2. CASE mem[a] = Erased /\ \A i \in 1..Passed : ~Has(i, a)
      <4>1. a \notin Stored  BY <1>9, <3>2, StoredIs
      <4> QED  BY <3>2, <4>1
    <3>3. CASE \E i \in 1..Passed : /\ Has(i, a) /\ mem[a] = Byte(i, a)
                                    /\ \A j \in 1..Passed : Has(j, a) => j <= i
      <4>1. PICK i \in 1..Passed : /\ Has(i, a) /\ mem[a] = Byte(i, a)
                                   /\ \A j \in 1..Passed : Has(j, a) => j <= i
        BY <3>3
      <4>2. a \in Stored  BY <3>1, <4>1, StoredIs
      <4>3. \A j : Has(j, a) => j <= i  BY <1>9, <4>1
      <4>4. ByteAt(a) = Byte(i, a)  BY <1>1, <4>1, <4>3, ByteAtIs DEF FileOK
      <4> QED  BY <4>1, <4>2, <4>4
    <3> QED  BY <1>1, <3>1, <3>2, <3>3 DEF Contents
  <2>2. ASSUME NEW a \in Stored, a \notin Image'
        PROVE  a = Max(Stored) /\ a % Page = 0
    <3>1. a \in Nat /\ first <= a /\ a <= high  BY <1>5, <1>8, <1>10
    <3>2. ~(a < end)
      <4>1. ASSUME a < end  PROVE a \in Image'
        <5>1. a \in Int /\ a <= end - 1  BY <1>3, <1>5, <1>8, <3>1, <4>1
        <5>2. a \in first..(end - 1)  BY <1>3, <1>5, <1>8, <3>1, <5>1
        <5> QED  BY <1>12, <5>2
      <4> QED  BY <2>2, <4>1
    <3>3. a = end /\ a = high  BY <1>5, <1>8, <3>1, <3>2
    <3>4. Max(Stored) \in Stored /\ a <= Max(Stored)  BY MaxStored
    <3>5. Max(Stored) \in Nat /\ Max(Stored) <= high  BY <1>10, <3>4
    <3> QED  BY <1>7, <3>1, <3>3, <3>4, <3>5
  <2> QED  BY <1>1, <1>2, <1>6, <1>7, <1>11, <2>1, <2>2 DEF ImageIsElf
<1>19. Padded' /\ (pc' \notin {"open", "load"})  BY <1>1 DEF Padded, Written
<1>20. Inside'
  <2>1. ASSUME Stored = {}  PROVE first = MemSize /\ end = 0
    <3>1. \A a \in Mem, i \in 1..Passed : ~Has(i, a)  BY <2>1, StoredIs
    <3>2. low = MemSize /\ high = 0  BY <1>1, <3>1 DEF Extent
    <3>3. first = MemSize
      <4>1. MemSize < first + Page  BY <1>5, <3>2, PageBelow DEF first
      <4>2. MemSize % Page = 0  BY ConstAssumption
      <4>3. MemSize <= first  BY <1>3, <1>6, <4>1, <4>2, PagesApart
      <4> QED  BY <1>3, <1>8, <4>3
    <3>4. end = 0
      <4>1. Page - 1 \in Nat /\ high + Page - 1 = Page - 1  BY <1>3, <3>2
      <4>2. end <= Page - 1  BY <4>1, PageBelow DEF end
      <4>3. ASSUME end # 0  PROVE FALSE
        <5>1. Page <= end  BY <1>3, <1>7, <4>3, MultipleIsNoLess
        <5> QED  BY <1>3, <1>8, <4>2, <5>1
      <4> QED  BY <4>3
    <3> QED  BY <3>3, <3>4
  <2>2. ASSUME Stored # {}  PROVE first <= end /\ first + Page <= MemSize
    <3>1. PICK a \in Stored : a \in Nat /\ low <= a /\ a <= high /\ a < MemSize
      BY <1>3, <1>10, <2>2, StoredIs DEF Mem
    <3>2. first <= end /\ first < MemSize  BY <1>3, <1>5, <1>8, <3>1
    <3>3. first + Page <= MemSize
      <4>1. MemSize % Page = 0  BY ConstAssumption
      <4>2. ASSUME MemSize < first + Page  PROVE FALSE
        <5>1. MemSize <= first  BY <1>3, <1>6, <1>8, <4>1, <4>2, PagesApart
        <5> QED  BY <1>3, <1>8, <3>2, <5>1
      <4> QED  BY <1>3, <1>8, <4>2
    <3> QED  BY <3>2, <3>3
  <2> QED  BY <1>1, <1>2, <1>11, <2>1, <2>2 DEF Inside
<1> QED  BY <1>14, <1>15, <1>16, <1>17, <1>18, <1>19, <1>20 DEF IInv
\* What is kept lies in a loaded image, which holds it.
LEMMA KeptIsLoaded ==
  ASSUME ImageIsElf, pc = "loaded", NEW a \in Kept
  PROVE  a \in Image /\ a \in Stored /\ mem[a] = ByteAt(a)
<1>1. a \in Stored /\ ~(a = Max(Stored) /\ a % Page = 0)  BY DEF Kept
<1>2. a \in Image  BY <1>1 DEF ImageIsElf
<1> QED  BY <1>1, <1>2 DEF ImageIsElf

\* What neither padding nor the header touches.
LEMMA Untouched ==
  ASSUME IInv, Rounding, pc' \in {"patterned", "filled", "signed", "overrun"},
         UNCHANGED <<elf, todo, base, ro, rx>>, high' % Page = 0
  PROVE  /\ FileOK' /\ Regions' /\ Rounded' /\ ImageIsElf'
         /\ Stored' = Stored /\ Kept' = Kept /\ \A a : ByteAt(a)' = ByteAt(a)
<1>1. FileOK /\ Regions /\ Rounded  BY DEF IInv
<1>2. Passed' = Passed  BY DEF Passed
<1>3. /\ Stored' = Stored /\ CodeSections' = CodeSections
      /\ \A a : ByteAt(a)' = ByteAt(a)
      /\ \A i, a : Has(i, a)' <=> Has(i, a)
  BY SameFile
<1>4. FileOK'  BY <1>1, <1>2 DEF FileOK, Rounding
<1>5. Regions'  BY <1>1, <1>2, <1>3 DEF Regions, Rounding
<1>6. Rounded'  BY <1>1, <1>3 DEF Rounded, Rounding
<1>7. ImageIsElf'  BY DEF ImageIsElf
<1>8. Kept' = Kept  BY <1>3 DEF Kept
<1> QED  BY <1>3, <1>4, <1>5, <1>6, <1>7, <1>8

\* A step that would write outside of mem_ is taken of an image of nothing.
LEMMA OverrunIInv ==
  ASSUME IInv, Rounding, pc' = "overrun", Stored = {},
         UNCHANGED <<elf, todo, mem, low, high, base, success, ro, rx>>
  PROVE  IInv'
<1>1. TypeOK /\ Rounded /\ Inside  BY DEF IInv
<1>2. /\ FileOK' /\ Regions' /\ Rounded' /\ ImageIsElf' /\ Stored' = Stored
  BY <1>1, Untouched DEF Rounded
<1>3. TypeOK'  BY <1>1 DEF TypeOK
<1>4. Inside'  BY <1>1, <1>2 DEF Inside
<1>5. Padded'  BY DEF Padded, Written
<1> QED  BY <1>2, <1>3, <1>4, <1>5 DEF IInv

\* Where padding ends.
LEMMA FillEndIs ==
  /\ MemSize \in Nat /\ Page \in Nat \ {0} /\ Page <= MemSize
  /\ FillEnd \in 0..MemSize /\ FillEnd % Page = 0
<1>1. MemSize \in Nat /\ Page \in Nat \ {0} /\ Page <= MemSize
  BY ConstAssumption, MultipleIsNoLess
<1>2. MemSize % Page = 0  BY ConstAssumption
<1>3. (MemSize - Page) % Page = 0
  <2> DEFINE k == MemSize \div Page
  <2>1. k \in Nat /\ MemSize = Page * k + (MemSize % Page)  BY <1>1, Division
  <2> HIDE DEF k
  <2>2. Page * k \in Nat /\ MemSize = Page * k  BY <1>1, <1>2, <2>1
  <2>3. k # 0  BY <1>1, <2>2
  <2>4. k - 1 \in Nat /\ (k - 1) * Page = Page * k - Page  BY <1>1, <2>1, <2>3
  <2>5. ((k - 1) * Page) % Page = 0  BY <1>1, <2>4, Multiple
  <2> QED  BY <2>2, <2>4, <2>5
<1> QED  BY <1>1, <1>3 DEF FillEnd

\* Of an image that has something stored, padding lies within mem_; of one that has
\* not it does not.
LEMMA PaddingInside ==
  ASSUME TypeOK, Inside, Rounding
  PROVE  Padding \subseteq Mem <=> Stored # {}
<1>1. /\ MemSize \in Nat /\ Page \in Nat \ {0} /\ Page <= MemSize
      /\ FillEnd \in 0..MemSize /\ FillEnd = MemSize - Page
  BY FillEndIs DEF FillEnd
<1>2. base \in Nat /\ base <= MemSize /\ high \in Nat
  BY <1>1 DEF TypeOK
<1>3. ASSUME Stored # {}  PROVE Padding \subseteq Mem
  <2>1. base <= high  BY <1>3 DEF Inside
  <2>2. high - base \in Nat  BY <1>2, <2>1
  <2>3. FillEnd - 1 < MemSize /\ FillEnd \in Int  BY <1>1
  <2> QED  BY <1>1, <2>2, <2>3 DEF Padding, Mem
<1>4. ASSUME Stored = {}  PROVE ~(Padding \subseteq Mem)
  <2>1. base = MemSize /\ high = 0  BY <1>4 DEF Inside
  <2>2. -MemSize <= FillEnd - 1 /\ -MemSize < 0  BY <1>1
  <2>3. high - base = -MemSize  BY <1>1, <2>1
  <2>4. -MemSize \in Padding  BY <1>1, <2>2, <2>3 DEF Padding
  <2>5. -MemSize \notin Mem  BY <1>1, <2>2 DEF Mem
  <2> QED  BY <2>4, <2>5
<1> QED  BY <1>3, <1>4

\* Nor does the header.
LEMMA HeaderInside ==
  ASSUME TypeOK, Inside, Rounding
  PROVE  HeaderBytes \subseteq Mem <=> Stored # {}
<1>1. /\ MemSize \in Nat /\ Page \in Nat /\ HeaderSize \in Nat \ {0}
      /\ HeaderSize < Page /\ base \in Nat
  BY ConstAssumption DEF TypeOK
<1>2. ASSUME Stored # {}  PROVE HeaderBytes \subseteq Mem
  <2>1. base + HeaderSize - 1 <= MemSize - 1  BY <1>1, <1>2 DEF Inside
  <2>2. base + HeaderSize - 1 \in Int  BY <1>1
  <2> QED  BY <1>1, <2>1, <2>2 DEF HeaderBytes, Mem
<1>3. ASSUME Stored = {}  PROVE ~(HeaderBytes \subseteq Mem)
  <2>1. base = MemSize  BY <1>3 DEF Inside
  <2>2. MemSize \in HeaderBytes /\ MemSize \notin Mem
    BY <1>1, <2>1 DEF HeaderBytes, Mem
  <2> QED  BY <2>2
<1> QED  BY <1>2, <1>3

\* Before padding what is kept is held, and padding does not reach it.
LEMMA KeptIsHeld ==
  ASSUME TypeOK, ImageIsElf, Padded, pc \in {"loaded", "patterned"}, base = 0,
         NEW a \in Kept
  PROVE  mem[a] = ByteAt(a) /\ a \notin Padding
<1>1. CASE pc = "loaded"
  <2>1. a \in Image /\ mem[a] = ByteAt(a)  BY <1>1, KeptIsLoaded
  <2>2. high \in Int  BY FillEndIs DEF TypeOK
  <2>3. a \notin Padding  BY <2>1, <2>2, FillEndIs DEF Image, Padding
  <2> QED  BY <2>1, <2>3
<1>2. CASE pc = "patterned"
  <2>1. mem[a] = ByteAt(a) /\ high = FillEnd  BY <1>2 DEF Padded, Written
  <2>2. a \notin Padding  BY <2>1, FillEndIs DEF Padding
  <2> QED  BY <2>1, <2>2
<1> QED  BY <1>1, <1>2

\* The image is padded.
LEMMA FillIInv ==
  ASSUME IInv, NEW stage \in {"patterned", "filled"},
         pc \in {"loaded", "patterned"}, Fill(stage)
  PROVE  IInv'
<1>1. /\ TypeOK /\ Rounded /\ Inside /\ ImageIsElf /\ Padded /\ Rounding
      /\ UNCHANGED <<elf, todo, low, base, success, ro, rx>>
  BY DEF IInv, Fill, regions, Rounding
<1>2. CASE ~(Padding \subseteq Mem)
  <2>1. pc' = "overrun" /\ UNCHANGED <<mem, high>>  BY <1>2 DEF Fill
  <2>2. Stored = {}  BY <1>1, <1>2, PaddingInside
  <2> QED  BY <1>1, <2>1, <2>2, OverrunIInv
<1>3. CASE Padding \subseteq Mem
  <2>1. PICK fill \in [Padding -> Patterns] :
          mem' = [a \in Mem |-> IF a \in Padding THEN fill[a] ELSE mem[a]]
    BY <1>3 DEF Fill
  <2>2. pc' = stage /\ high' = FillEnd /\ Stored # {}
    BY <1>1, <1>3, PaddingInside DEF Fill
  <2>3. /\ MemSize \in Nat /\ Page \in Nat \ {0}
        /\ FillEnd \in 0..MemSize /\ FillEnd % Page = 0
    BY FillEndIs
  <2>4. /\ FileOK' /\ Regions' /\ Rounded' /\ ImageIsElf'
        /\ Stored' = Stored /\ Kept' = Kept /\ \A a : ByteAt(a)' = ByteAt(a)
    BY <1>1, <2>2, <2>3, Untouched
  <2>5. TypeOK'
    <3> DEFINE Values == {Erased, Header} \cup Patterns \cup
                           UNION {ToSet(g.bytes) : g \in ToSet(elf.segments)}
    <3>1. (\A a \in Padding : fill[a] \in Values) /\ mem \in [Mem -> Values]
      BY <1>1 DEF TypeOK
    <3> HIDE DEF Values
    <3>2. mem' \in [Mem -> Values]  BY <2>1, <3>1
    <3>3. mem' \in [Mem -> {Erased, Header} \cup Patterns \cup
                        UNION {ToSet(g.bytes) : g \in ToSet(elf'.segments)}]
      BY <1>1, <3>2 DEF Values
    <3>4. high' \in 0..MemSize  BY <2>2, <2>3
    <3>5. pc' \in {"patterned", "filled"}  BY <2>2
    <3> QED  BY <1>1, <3>3, <3>4, <3>5 DEF TypeOK
  <2>6. Inside'
    <3>1. base \in Nat /\ base <= FillEnd  BY <1>1, <2>2, <2>3 DEF Inside, TypeOK, FillEnd
    <3>2. base + Page <= MemSize  BY <1>1, <2>2 DEF Inside
    <3> QED  BY <1>1, <2>2, <2>4, <3>1, <3>2 DEF Inside
  <2>7. Padded'
    <3> SUFFICES ASSUME base = 0, NEW a \in Kept
                 PROVE  /\ mem'[a] = ByteAt(a)
                        /\ Max(Stored) < FillEnd => a \in Image'
      BY <1>1, <2>2, <2>4 DEF Padded, FillEnd
    <3>1. a \in Stored /\ mem[a] = ByteAt(a) /\ a \notin Padding
      BY <1>1, KeptIsHeld DEF Kept
    <3>2. a \in Mem /\ a \in Int /\ 0 <= a  BY <2>3, <3>1, StoredIs DEF Mem
    <3>3. ASSUME Max(Stored) < FillEnd  PROVE a \in Image'
      <4>1. Max(Stored) \in Int /\ a <= Max(Stored)
        <5>1. Max(Stored) \in Stored /\ a <= Max(Stored)  BY <3>1, MaxStored
        <5>2. Max(Stored) \in Mem  BY <5>1, StoredIs
        <5> QED  BY <5>1, <5>2 DEF Mem
      <4>2. a < FillEnd /\ FillEnd \in Int  BY <2>3, <3>2, <3>3, <4>1
      <4>3. a \in 0..(FillEnd - 1)  BY <3>2, <4>2
      <4> QED  BY <1>1, <2>2, <4>3 DEF Image
    <3>4. mem'[a] = mem[a]  BY <2>1, <3>1, <3>2
    <3> QED  BY <3>1, <3>3, <3>4
  <2> QED  BY <2>2, <2>4, <2>5, <2>6, <2>7 DEF IInv
<1> QED  BY <1>2, <1>3

\* The header is laid over the image.
LEMMA PlaceHeaderIInv == IInv /\ PlaceHeader => IInv'
<1> SUFFICES ASSUME IInv, PlaceHeader  PROVE IInv'  OBVIOUS
<1>1. /\ TypeOK /\ Rounded /\ Inside /\ ImageIsElf /\ Padded /\ Rounding
      /\ pc \in {"loaded", "patterned", "filled"}
      /\ UNCHANGED <<elf, todo, low, high, base, success, ro, rx>>
  BY DEF IInv, PlaceHeader, regions, Rounding
<1>2. CASE ~(HeaderBytes \subseteq Mem)
  <2>1. pc' = "overrun" /\ UNCHANGED mem  BY <1>2 DEF PlaceHeader
  <2>2. Stored = {}  BY <1>1, <1>2, HeaderInside
  <2> QED  BY <1>1, <2>1, <2>2, OverrunIInv
<1>3. CASE HeaderBytes \subseteq Mem
  <2>1. /\ pc' = "signed" /\ Stored # {}
        /\ mem' = [a \in Mem |-> IF a \in HeaderBytes THEN Header ELSE mem[a]]
    BY <1>1, <1>3, HeaderInside DEF PlaceHeader
  <2>2. /\ FileOK' /\ Regions' /\ Rounded' /\ ImageIsElf'
        /\ Stored' = Stored /\ Kept' = Kept /\ \A a : ByteAt(a)' = ByteAt(a)
    BY <1>1, <2>1, Untouched DEF Rounded
  <2>3. TypeOK'
    <3> DEFINE Values == {Erased, Header} \cup Patterns \cup
                           UNION {ToSet(g.bytes) : g \in ToSet(elf.segments)}
    <3>1. Header \in Values /\ mem \in [Mem -> Values]  BY <1>1 DEF TypeOK
    <3> HIDE DEF Values
    <3>2. mem' \in [Mem -> Values]  BY <2>1, <3>1
    <3>3. mem' \in [Mem -> {Erased, Header} \cup Patterns \cup
                        UNION {ToSet(g.bytes) : g \in ToSet(elf'.segments)}]
      BY <1>1, <3>2 DEF Values
    <3> QED  BY <1>1, <2>1, <3>3 DEF TypeOK
  <2>4. Inside'  BY <1>1, <2>1, <2>2 DEF Inside
  <2>5. Padded'
    <3> SUFFICES ASSUME base = 0, NEW a \in Kept
                 PROVE  /\ mem'[a] = ByteAt(a)
                        /\ Max(Stored) < FillEnd => a \in Image
      BY <1>1, <2>1, <2>2 DEF Padded, FillEnd, Image
    <3>1. a \in Mem /\ a \in Int /\ a >= base + HeaderSize
      BY StoredIs DEF Kept, Mem
    <3>2. mem'[a] = mem[a]
      <4>1. HeaderSize \in Int  BY ConstAssumption
      <4> QED  BY <2>1, <3>1, <4>1 DEF HeaderBytes
    <3>3. mem[a] = ByteAt(a) /\ (Max(Stored) < FillEnd => a \in Image)
      BY <1>1, KeptIsLoaded DEF Padded, Written
    <3> QED  BY <3>2, <3>3
  <2> QED  BY <2>1, <2>2, <2>3, <2>4, <2>5 DEF IInv
<1> QED  BY <1>2, <1>3

\* Every step keeps the invariant.
LEMMA NextIInv == IInv /\ [Next]_vars => IInv'
<1> SUFFICES ASSUME IInv, [Next]_vars  PROVE IInv'  OBVIOUS
<1>1. CASE UNCHANGED vars
  <2>1. UNCHANGED <<pc, elf, todo, mem, low, high, base, success, ro, rx>>
    BY <1>1 DEF vars, regions
  <2>2. Passed' = Passed  BY <2>1 DEF Passed
  <2>3. /\ Stored' = Stored /\ CodeSections' = CodeSections
        /\ \A a : ByteAt(a)' = ByteAt(a)
        /\ \A i, a : (Has(i, a)' <=> Has(i, a)) /\ Byte(i, a)' = Byte(i, a)
    BY <2>1, SameFile
  <2>4. Kept' = Kept /\ Image' = Image  BY <2>1, <2>3 DEF Kept, Image
  <2>5. TypeOK' /\ FileOK'  BY <2>1, <2>2 DEF IInv, TypeOK, FileOK, Rounding
  <2>6. Regions' /\ Rounded' /\ Inside'
    BY <2>1, <2>2, <2>3 DEF IInv, Regions, Rounded, Rounding, Inside
  <2>7. ImageIsElf'  BY <2>1, <2>3, <2>4 DEF IInv, ImageIsElf
  <2>8. Padded'  BY <2>1, <2>3, <2>4 DEF IInv, Padded, FillEnd, Written
  <2>9. Contents /\ Extent => Contents' /\ Extent'
    BY <2>1, <2>2, <2>3 DEF Contents, Extent
  <2> QED  BY <2>1, <2>5, <2>6, <2>7, <2>8, <2>9 DEF IInv
<1>2. CASE LoadFails  BY <1>2, LoadFailsIInv
<1>3. CASE ReadSections  BY <1>3, ReadSectionsIInv
<1>4. CASE LoadSegment  BY <1>4, LoadSegmentIInv
<1>5. CASE RoundImage  BY <1>5, RoundImageIInv
<1>6. CASE FillPattern \/ FillRandom
  BY <1>6, FillIInv DEF FillPattern, FillRandom
<1>7. CASE PlaceHeader  BY <1>7, PlaceHeaderIInv
<1>8. CASE Done  BY <1>1, <1>8 DEF Done
<1> QED  BY <1>1, <1>2, <1>3, <1>4, <1>5, <1>6, <1>7, <1>8 DEF Next

----------------------------------------------------------------------------
(* The theorems.                                                           *)

\* The inductive invariant holds at every stage main brings an image to.
THEOREM ImageInductive == Spec => []IInv
<1>1. Init => IInv  BY InitIInv
<1>2. IInv /\ [Next]_vars => IInv'  BY NextIInv
<1> QED  BY <1>1, <1>2, PTL DEF Spec

\* low_, high_ and base_ stay within mem_, past its end included, and the regions
\* within the flash, whatever addresses an ELF file has.
THEOREM ImageTypeCorrect == Spec => []TypeOK
<1>1. IInv => TypeOK  BY DEF IInv
<1> QED  BY <1>1, ImageInductive, PTL

\* What fromElf leaves is whole pages of what the file has for them, the last
\* program header on top, and erased elsewhere.
THEOREM LoadedImageIsElf == Spec => []ImageIsElf
<1>1. IInv => ImageIsElf  BY DEF IInv
<1> QED  BY <1>1, ImageInductive, PTL

\* The chip may read all that was stored, and execute the code behind the header.
THEOREM RegionsCover == Spec => []RegionsCoverImage
<1>1. IInv => RegionsCoverImage
  <2> SUFFICES ASSUME IInv, pc \in {"loaded", "patterned", "filled", "signed"}, NEW a \in Stored
               PROVE  /\ Within(a, ro)
                      /\ Code(a) /\ a >= base + HeaderSize => Within(a, rx)
    BY DEF RegionsCoverImage
  <2>1. FileOK /\ Regions /\ Rounded  BY DEF IInv
  <2>2. PICK i : a \in Mem /\ Has(i, a)  BY StoredIs
  <2>3. i \in 1..Passed
    <3>1. Len(todo) = 0 /\ elf \in Elf  BY <2>1 DEF FileOK, Rounding
    <3>2. Loaded \subseteq 1..Len(elf.segments) /\ Len(elf.segments) \in Nat
      BY <3>1, FileFields
    <3>3. Passed = Len(elf.segments)  BY <3>1, <3>2 DEF Passed
    <3> QED  BY <2>2, <3>2, <3>3 DEF Has
  <2>4. Within(a, ro)  BY <2>1, <2>2, <2>3 DEF Within, Regions, Rounded, Rounding
  <2>5. ASSUME Code(a), a >= base + HeaderSize  PROVE Within(a, rx)
    <3>1. PICK s \in CodeSections : s.addr <= a /\ a < s.addr + s.size
      BY <2>5 DEF Code
    <3>2. s.addr + s.size <= rx.max /\ rx.max \in Int  BY <2>1 DEF Regions
    <3>3. s.addr \in Nat /\ s.size \in Nat  BY <2>1, FileFields DEF FileOK
    <3>4. a \in Int /\ base \in Int /\ HeaderSize \in Int
      BY <2>2, ConstAssumption DEF Mem, IInv, TypeOK
    <3>5. a < rx.max  BY <3>1, <3>2, <3>3, <3>4
    <3>6. rx.base = base + HeaderSize  BY <2>1 DEF Rounded, Rounding
    <3> QED  BY <2>5, <3>4, <3>5, <3>6 DEF Within
  <2> QED  BY <2>4, <2>5
<1> QED  BY <1>1, ImageInductive, PTL

\* Padding, and the header, change no byte of an image that starts where mem_
\* does, and leave none of them out.
THEOREM PaddingKeepsImage == Spec => []FillOnlyPads
<1>1. IInv => FillOnlyPads  BY DEF IInv, Padded, FillOnlyPads, FillKept
<1> QED  BY <1>1, ImageInductive, PTL

\* Whatever addresses an ELF file has, padding and the header are written outside
\* mem_ if, and only if, store was called for no address of it.
THEOREM WritesStayInMem == Spec => []StaysInMem
<1>1. IInv => StaysInMem  BY DEF IInv, Inside, Rounding, Written, StaysInMem
<1> QED  BY <1>1, ImageInductive, PTL
=============================================================================
