--------------------------- MODULE IntelHexProofs ---------------------------
(***************************************************************************)
(* What is written as Intel hex reads back as it is written in binary, for *)
(* an image of any size and content.                                       *)
(***************************************************************************)
EXTENDS ImageFileProofs

----------------------------------------------------------------------------
(* Induction.                                                              *)

\* A set of natural numbers with 0, and with the successor of each of its
\* elements below a bound, holds all numbers up to that bound.
LEMMA UpTo ==
  ASSUME NEW N \in Nat, NEW S \in SUBSET Nat, 0 \in S,
         \A n \in S : n < N => n + 1 \in S
  PROVE  \A n \in 0..N : n \in S
<1> DEFINE Left == {n \in 0..N : n \notin S}
<1> SUFFICES ASSUME Left # {}  PROVE FALSE  OBVIOUS
<1>1. Left \in SUBSET Nat  OBVIOUS
<1>2. PICK m \in Left : \A n \in Left : m <= n  BY <1>1, LeastNumber
<1>3. m \in 0..N /\ m \notin S /\ m # 0  BY <1>2
<1>4. m - 1 \in 0..N /\ m - 1 \notin Left  BY <1>2, <1>3
<1>5. m - 1 \in S /\ m - 1 < N /\ (m - 1) + 1 = m  BY <1>3, <1>4
<1> QED  BY <1>3, <1>5

----------------------------------------------------------------------------
(* Reading a file record by record.                                        *)

ReadAll(records) == FoldLeft(ReadRecord, NewImage, records)

\* What FoldLeft goes by: the image read from each set of lines, last line last.
IsReading(read, records, lines) ==
  read = [s \in SUBSET lines |->
            IF s = {} THEN NewImage
            ELSE ReadRecord(read[s \ {Max(s)}], records[Max(s)])]

Reading(records) == CHOOSE read : IsReading(read, records, DOMAIN records)

LEMMA ReadAllIs ==
  ASSUME NEW records
  PROVE  ReadAll(records) = Reading(records)[DOMAIN records]
BY DEF ReadAll, FoldLeft, MapThenFoldSet, Reading, IsReading

\* The greatest line of some, and of the first n.
LEMMA MaxLine ==
  ASSUME NEW n \in Nat, NEW s \in SUBSET (1..n), s # {}
  PROVE  Max(s) \in s /\ \A line \in s : line <= Max(s)
<1>1. s \in SUBSET Int /\ n \in Int /\ \A line \in s : line <= n  OBVIOUS
<1> QED  BY <1>1, MaxIsGreatest, Zenon

LEMMA LastLine ==
  ASSUME NEW n \in Nat \ {0}
  PROVE  Max(1..n) = n /\ (1..n) \ {n} = 1..(n - 1)
<1>1. n \in Nat /\ n \in 1..n /\ 1..n \in SUBSET (1..n)  OBVIOUS
<1>2. Max(1..n) \in 1..n /\ n <= Max(1..n)
  <2>1. 1..n # {}  BY <1>1
  <2> QED  BY <1>1, <2>1, MaxLine, Zenon
<1> QED  BY <1>2

\* There is such a function.
LEMMA ReadingExists ==
  ASSUME NEW N \in Nat, NEW records
  PROVE  \E read : IsReading(read, records, 1..N)
<1> DEFINE S == {n \in Nat : \E read : IsReading(read, records, 1..n)}
<1>1. 0 \in S
  <2>1. SUBSET (1..0) = {{}}  OBVIOUS
  <2>2. IsReading([s \in SUBSET (1..0) |-> NewImage], records, 1..0)
    BY <2>1 DEF IsReading
  <2> QED  BY <2>2
<1>2. ASSUME NEW n \in S  PROVE n + 1 \in S
  <2>1. PICK read : IsReading(read, records, 1..n)  BY <1>2
  <2> DEFINE more == [s \in SUBSET (1..(n + 1)) |->
                        IF n + 1 \in s
                        THEN ReadRecord(read[s \ {n + 1}], records[n + 1])
                        ELSE read[s]]
  <2>2. ASSUME NEW s \in SUBSET (1..(n + 1))
        PROVE  more[s] = IF s = {} THEN NewImage
                         ELSE ReadRecord(more[s \ {Max(s)}], records[Max(s)])
    <3>1. CASE s = {}
      <4>1. more[s] = read[s]  BY <3>1
      <4>2. read[s] = NewImage  BY <2>1, <3>1 DEF IsReading
      <4> QED  BY <3>1, <4>1, <4>2
    <3>2. CASE n + 1 \in s
      <4>1. Max(s) = n + 1
        <5>1. n \in Nat /\ n + 1 \in Nat /\ s # {}  BY <3>2
        <5>2. Max(s) \in s /\ n + 1 <= Max(s)  BY <3>2, <5>1, MaxLine
        <5>3. Max(s) \in 1..(n + 1)  BY <5>2
        <5> HIDE DEF Max
        <5> QED  BY <5>1, <5>2, <5>3
      <4>2. s \ {n + 1} \in SUBSET (1..(n + 1)) /\ n + 1 \notin s \ {n + 1}
        OBVIOUS
      <4>3. more[s \ {n + 1}] = read[s \ {n + 1}]  BY <4>2
      <4> HIDE DEF more
      <4>4. more[s] = ReadRecord(read[s \ {n + 1}], records[n + 1])
        BY <3>2 DEF more
      <4> QED  BY <3>2, <4>1, <4>3, <4>4
    <3>3. CASE s # {} /\ n + 1 \notin s
      <4>1. s \in SUBSET (1..n)  BY <3>3
      <4>2. s \ {Max(s)} \in SUBSET (1..(n + 1)) /\ n + 1 \notin s \ {Max(s)}
        BY <3>3
      <4>3. more[s] = read[s] /\ more[s \ {Max(s)}] = read[s \ {Max(s)}]
        BY <3>3, <4>2
      <4>4. read[s] = ReadRecord(read[s \ {Max(s)}], records[Max(s)])
        BY <2>1, <3>3, <4>1 DEF IsReading
      <4> QED  BY <3>3, <4>3, <4>4
    <3> QED  BY <3>1, <3>2, <3>3
  <2>3. IsReading(more, records, 1..(n + 1))
    <3>1. more = [s \in SUBSET (1..(n + 1)) |-> more[s]]  OBVIOUS
    <3> HIDE DEF more
    <3> QED  BY <2>2, <3>1 DEF IsReading
  <2> QED  BY <2>3
<1>3. S \in SUBSET Nat /\ N \in 0..N  OBVIOUS
<1> HIDE DEF S
<1>4. \A n \in 0..N : n \in S  BY <1>1, <1>2, <1>3, UpTo
<1> QED  BY <1>3, <1>4 DEF S

\* So the lines are read one after the other.
LEMMA ReadingStep ==
  ASSUME NEW N \in Nat, NEW records, DOMAIN records = 1..N
  PROVE  /\ Reading(records)[{}] = NewImage
         /\ \A n \in 1..N : Reading(records)[1..n] =
              ReadRecord(Reading(records)[1..(n - 1)], records[n])
<1> DEFINE read == Reading(records)
<1>1. IsReading(read, records, 1..N)  BY ReadingExists DEF Reading
<1> HIDE DEF read
<1>2. read[{}] = NewImage  BY <1>1 DEF IsReading
<1>3. ASSUME NEW n \in 1..N
      PROVE  read[1..n] = ReadRecord(read[1..(n - 1)], records[n])
  <2>1. 1..n \in SUBSET (1..N) /\ 1..n # {}  OBVIOUS
  <2>2. Max(1..n) = n /\ (1..n) \ {n} = 1..(n - 1)  BY LastLine
  <2> QED  BY <1>1, <2>1, <2>2 DEF IsReading
<1> QED  BY <1>2, <1>3 DEF read

\* Reading a file without lines, and one with a line more.
LEMMA ReadNothing == ReadAll(<< >>) = NewImage
<1>1. DOMAIN << >> = 1..0 /\ 1..0 = {}  OBVIOUS
<1>2. Reading(<< >>)[{}] = NewImage  BY <1>1, ReadingStep
<1> QED  BY <1>1, <1>2, ReadAllIs

LEMMA ReadAppend ==
  ASSUME NEW R, NEW records \in Seq(R), NEW record \in R
  PROVE  ReadAll(Append(records, record)) = ReadRecord(ReadAll(records), record)
<1> DEFINE N == Len(records)
           more == Append(records, record)
<1>1. /\ N \in Nat /\ DOMAIN records = 1..N /\ DOMAIN more = 1..(N + 1)
      /\ more[N + 1] = record /\ \A n \in 1..N : more[n] = records[n]
  BY LenProperties, AppendProperties
<1> HIDE DEF N, more
<1> DEFINE S == {n \in Nat : Reading(more)[1..n] = Reading(records)[1..n] \/ n > N}
<1>2. 0 \in S
  <2>1. 1..0 = {}  OBVIOUS
  <2>2. Reading(more)[{}] = NewImage /\ Reading(records)[{}] = NewImage
    BY <1>1, ReadingStep
  <2> QED  BY <2>1, <2>2
<1>3. ASSUME NEW n \in S, n < N  PROVE n + 1 \in S
  <2>1. Reading(more)[1..n] = Reading(records)[1..n]  BY <1>1, <1>3
  <2>2. n + 1 \in 1..N /\ n + 1 \in 1..(N + 1) /\ (n + 1) - 1 = n  BY <1>1, <1>3
  <2>3. Reading(more)[1..(n + 1)] = ReadRecord(Reading(more)[1..n], more[n + 1])
    BY <1>1, <2>2, ReadingStep
  <2>4. Reading(records)[1..(n + 1)] =
          ReadRecord(Reading(records)[1..n], records[n + 1])
    BY <1>1, <2>2, ReadingStep
  <2> QED  BY <1>1, <2>1, <2>2, <2>3, <2>4
<1>4. N \in S
  <2> HIDE DEF S
  <2>1. S \in SUBSET Nat /\ N \in 0..N  BY <1>1 DEF S
  <2>2. \A n \in 0..N : n \in S  BY <1>1, <1>2, <1>3, <2>1, UpTo
  <2> QED  BY <2>1, <2>2
<1>5. Reading(more)[1..N] = Reading(records)[1..N]  BY <1>1, <1>4
<1>6. Reading(more)[1..(N + 1)] = ReadRecord(Reading(more)[1..N], record)
  <2>1. N + 1 \in 1..(N + 1) /\ N + 1 \in Nat /\ (N + 1) - 1 = N  BY <1>1
  <2> QED  BY <1>1, <2>1, ReadingStep
<1> QED  BY <1>1, <1>5, <1>6, ReadAllIs DEF more

----------------------------------------------------------------------------
(* Writing a file row by row.                                              *)

\* What FlattenSeq goes by: the first i rows, one after the other.
IsFlat(flat, rows, n) ==
  flat = [i \in 1..n |-> IF i = 1 THEN rows[i] ELSE flat[i - 1] \o rows[i]]

Flat(rows) == CHOOSE flat : IsFlat(flat, rows, Len(rows))

LEMMA FlattenIs ==
  ASSUME NEW rows, Len(rows) # 0
  PROVE  FlattenSeq(rows) = Flat(rows)[Len(rows)]
BY DEF FlattenSeq, Flat, IsFlat

\* There is such a function.
LEMMA FlatExists ==
  ASSUME NEW N \in Nat, NEW rows
  PROVE  \E flat : IsFlat(flat, rows, N)
<1> DEFINE S == {n \in Nat : \E flat : IsFlat(flat, rows, n)}
<1>1. 0 \in S
  <2>1. 1..0 = {}  OBVIOUS
  <2>2. IsFlat([i \in 1..0 |-> << >>], rows, 0)  BY <2>1 DEF IsFlat
  <2> QED  BY <2>2
<1>2. ASSUME NEW n \in S  PROVE n + 1 \in S
  <2>1. PICK flat : IsFlat(flat, rows, n)  BY <1>2
  <2> DEFINE more == [i \in 1..(n + 1) |->
                        IF i = 1 THEN rows[i] ELSE flat[i - 1] \o rows[i]]
  <2>2. ASSUME NEW i \in 1..(n + 1), i # 1  PROVE more[i - 1] = flat[i - 1]
    <3>1. i - 1 \in 1..n /\ i - 1 \in 1..(n + 1)  BY <1>2, <2>2
    <3>2. more[i - 1] = IF i - 1 = 1 THEN rows[i - 1]
                        ELSE flat[(i - 1) - 1] \o rows[i - 1]
      BY <3>1
    <3>3. flat[i - 1] = IF i - 1 = 1 THEN rows[i - 1]
                        ELSE flat[(i - 1) - 1] \o rows[i - 1]
      BY <2>1, <3>1 DEF IsFlat
    <3> QED  BY <3>2, <3>3, Zenon
  <2>3. IsFlat(more, rows, n + 1)  BY <2>2 DEF IsFlat
  <2> QED  BY <2>3
<1>3. S \in SUBSET Nat /\ N \in 0..N  OBVIOUS
<1> HIDE DEF S
<1>4. \A n \in 0..N : n \in S  BY <1>1, <1>2, <1>3, UpTo
<1> QED  BY <1>3, <1>4 DEF S

\* So the rows come one after the other.
LEMMA FlatStep ==
  ASSUME NEW rows, Len(rows) \in Nat
  PROVE  \A i \in 1..Len(rows) :
           Flat(rows)[i] = IF i = 1 THEN rows[i] ELSE Flat(rows)[i - 1] \o rows[i]
<1> DEFINE flat == Flat(rows)
<1>1. IsFlat(flat, rows, Len(rows))  BY FlatExists DEF Flat
<1> HIDE DEF flat
<1>2. \A i \in 1..Len(rows) :
        flat[i] = IF i = 1 THEN rows[i] ELSE flat[i - 1] \o rows[i]
  BY <1>1 DEF IsFlat
<1> QED  BY <1>2 DEF flat

\* One row more.
LEMMA FlattenAppend ==
  ASSUME NEW R, NEW rows \in Seq(R), NEW row \in R
  PROVE  FlattenSeq(Append(rows, row)) =
           IF rows = << >> THEN row ELSE FlattenSeq(rows) \o row
<1> DEFINE N == Len(rows)
           more == Append(rows, row)
<1>1. /\ N \in Nat /\ Len(more) = N + 1 /\ more[N + 1] = row
      /\ \A n \in 1..N : more[n] = rows[n]
      /\ N = 0 <=> rows = << >>
  BY LenProperties, AppendProperties, EmptySeq
<1> HIDE DEF N, more
<1> USE <1>1 DEF N
<1>2. FlattenSeq(more) = Flat(more)[N + 1]  BY FlattenIs
<1>3. \A i \in 1..(N + 1) :
        Flat(more)[i] = IF i = 1 THEN more[i] ELSE Flat(more)[i - 1] \o more[i]
  <2>1. Len(more) \in Nat  OBVIOUS
  <2> QED  BY <2>1, FlatStep
<1>4. \A i \in 1..N :
        Flat(rows)[i] = IF i = 1 THEN rows[i] ELSE Flat(rows)[i - 1] \o rows[i]
  BY FlatStep
<1> HIDE DEF N
<1>5. CASE N = 0
  <2>1. 1 \in 1..(N + 1) /\ N + 1 = 1  BY <1>5
  <2> QED  BY <1>2, <1>3, <1>5, <2>1 DEF more
<1>6. CASE N # 0
  <2> DEFINE S == {n \in Nat : n = 0 \/ n > N \/ Flat(more)[n] = Flat(rows)[n]}
  <2>1. ASSUME NEW n \in S, n < N  PROVE n + 1 \in S
    <3>1. n + 1 \in 1..N /\ n + 1 \in 1..(N + 1) /\ (n + 1) - 1 = n
      BY <2>1
    <3>2. Flat(more)[n + 1] = IF n + 1 = 1 THEN more[n + 1]
                              ELSE Flat(more)[n] \o more[n + 1]
      BY <1>3, <3>1
    <3>3. Flat(rows)[n + 1] = IF n + 1 = 1 THEN rows[n + 1]
                              ELSE Flat(rows)[n] \o rows[n + 1]
      BY <1>4, <3>1
    <3>4. n + 1 # 1 => Flat(more)[n] = Flat(rows)[n]  BY <2>1
    <3>5. more[n + 1] = rows[n + 1]  BY <3>1
    <3>6. Flat(more)[n + 1] = Flat(rows)[n + 1]
      BY <3>2, <3>3, <3>4, <3>5, Zenon
    <3> QED  BY <3>1, <3>6
  <2>2. 0 \in S /\ S \in SUBSET Nat /\ N \in 0..N  OBVIOUS
  <2> HIDE DEF S
  <2>3. \A n \in 0..N : n \in S  BY <2>1, <2>2, UpTo
  <2>4. Flat(more)[N] = Flat(rows)[N]  BY <1>6, <2>2, <2>3 DEF S
  <2>5. FlattenSeq(rows) = Flat(rows)[N]  BY <1>6, FlattenIs DEF N
  <2>6. N + 1 \in 1..(N + 1) /\ N + 1 # 1 /\ (N + 1) - 1 = N  BY <1>6
  <2>7. Flat(more)[N + 1] = Flat(more)[N] \o more[N + 1]  BY <1>3, <2>6
  <2> QED  BY <1>2, <1>6, <2>4, <2>5, <2>7 DEF more
<1> QED  BY <1>5, <1>6

----------------------------------------------------------------------------
(* Pages, spans and records.                                               *)

\* What is left over.
LEMMA Remainder ==
  ASSUME NEW n \in Nat \ {0}, NEW q \in Nat, NEW s \in 0..(n - 1)
  PROVE  (n * q + s) % n = s /\ (n * q + s) \div n = q
<1> DEFINE x == n * q + s
           k == x \div n
           r == x % n
<1>1. n * q \in Nat /\ x \in Nat /\ s \in Nat /\ s < n  OBVIOUS
<1>2. k \in Nat /\ r \in 0..(n - 1) /\ x = n * k + r  BY <1>1, Division
<1>3. x = n * q + s  OBVIOUS
<1> HIDE DEF x, k, r
<1>4. n * k \in Nat /\ r \in Nat /\ r < n  BY <1>2
<1>5. n * q < n * k + n /\ n * k < n * q + n  BY <1>1, <1>2, <1>3, <1>4
<1>6. n * q <= n * k /\ n * k <= n * q  BY <1>2, <1>5, MultiplesApart
<1>7. n * q = n * k  BY <1>1, <1>4, <1>6
<1>8. s = r  BY <1>1, <1>2, <1>3, <1>4, <1>7
<1>9. q = k
  <2>1. CASE q < k
    <3>1. n * (q + 1) <= n * k  BY <1>2, <2>1
    <3>2. n * (q + 1) = n * q + n  OBVIOUS
    <3> QED  BY <1>1, <1>7, <3>1, <3>2
  <2>2. CASE k < q
    <3>1. n * (k + 1) <= n * q  BY <1>2, <2>2
    <3>2. n * (k + 1) = n * k + n  BY <1>2
    <3> QED  BY <1>1, <1>7, <3>1, <3>2
  <2> QED  BY <1>2, <2>1, <2>2
<1> QED  BY <1>8, <1>9 DEF x, k, r

\* A number that leaves no remainder is a multiple.
LEMMA IsMultiple ==
  ASSUME NEW x \in Nat, NEW n \in Nat \ {0}, x % n = 0
  PROVE  x \div n \in Nat /\ x = n * (x \div n)
<1> DEFINE k == x \div n
<1>1. k \in Nat /\ x = n * k + (x % n)  BY Division
<1> HIDE DEF k
<1>2. n * k \in Nat  BY <1>1
<1> QED  BY <1>1, <1>2 DEF k

\* What two multiples differ by is a multiple.
LEMMA Difference ==
  ASSUME NEW x \in Nat, NEW y \in Nat, y <= x, NEW n \in Nat \ {0},
         x % n = 0, y % n = 0
  PROVE  x - y \in Nat /\ (x - y) % n = 0
<1> DEFINE k == x \div n
           m == y \div n
<1>1. k \in Nat /\ x = n * k /\ m \in Nat /\ y = n * m  BY IsMultiple
<1> HIDE DEF k, m
<1>2. m <= k
  <2>1. CASE k < m
    <3>1. n * (k + 1) <= n * m  BY <1>1, <2>1
    <3>2. n * (k + 1) = n * k + n  BY <1>1
    <3> QED  BY <1>1, <3>1, <3>2
  <2> QED  BY <1>1, <2>1
<1>3. k - m \in Nat /\ (k - m) * n = n * k - n * m  BY <1>1, <1>2
<1>4. ((k - m) * n) % n = 0  BY <1>3, Multiple
<1> QED  BY <1>1, <1>3, <1>4

\* A multiple of a multiple.
LEMMA MultipleOfMultiple ==
  ASSUME NEW x \in Nat, NEW n \in Nat \ {0}, NEW r \in Nat \ {0},
         x % n = 0, n % r = 0
  PROVE  x % r = 0
<1> DEFINE k == x \div n
           t == n \div r
<1>1. k \in Nat /\ x = n * k /\ t \in Nat /\ n = r * t  BY IsMultiple
<1> HIDE DEF k, t
<1>2. t * k \in Nat /\ x = (t * k) * r
  <2>1. n * k = (r * t) * k  BY <1>1
  <2>2. (r * t) * k = (t * k) * r  BY <1>1
  <2> QED  BY <1>1, <2>1, <2>2
<1>3. ((t * k) * r) % r = 0  BY <1>2, Multiple
<1> QED  BY <1>2, <1>3

\* Between two segment records the span stays the same.
LEMMA SpanStays ==
  ASSUME NEW m \in Nat, m % Span # 0, m % RecordSize = 0
  PROVE  /\ m - RecordSize \in Nat
         /\ (m - RecordSize) - ((m - RecordSize) % Span) = m - (m % Span)
<1>1. Span \in Nat \ {0} /\ RecordSize \in Nat \ {0} /\ Span % RecordSize = 0
  BY ConstAssumption
<1> DEFINE q == m \div Span
           r == m % Span
<1>2. q \in Nat /\ r \in 0..(Span - 1) /\ m = Span * q + r /\ r # 0
  BY <1>1, Division
<1> HIDE DEF q, r
<1>3. Span * q \in Nat /\ r \in Nat /\ r < Span /\ m - Span * q = r
  BY <1>1, <1>2
<1>4. (Span * q) % Span = 0
  <2>1. (q * Span) % Span = 0 /\ q * Span = Span * q  BY <1>1, <1>2, Multiple
  <2> QED  BY <2>1
<1>5. (Span * q) % RecordSize = 0  BY <1>1, <1>3, <1>4, MultipleOfMultiple
<1>6. r % RecordSize = 0
  <2>1. Span * q <= m  BY <1>2, <1>3
  <2>2. (m - Span * q) % RecordSize = 0  BY <1>1, <1>3, <1>5, <2>1, Difference
  <2> QED  BY <1>3, <2>2
<1>7. RecordSize <= r  BY <1>1, <1>2, <1>3, <1>6, MultipleIsNoLess
<1>8. r - RecordSize \in 0..(Span - 1)  BY <1>1, <1>3, <1>7
<1>9. m - RecordSize = Span * q + (r - RecordSize) /\ m - RecordSize \in Nat
  BY <1>1, <1>2, <1>3, <1>7
<1>10. (m - RecordSize) % Span = r - RecordSize
  BY <1>1, <1>2, <1>8, <1>9, Remainder
<1> QED  BY <1>1, <1>2, <1>3, <1>9, <1>10 DEF r

----------------------------------------------------------------------------
(* Reading back what was written.                                          *)

\* An image of which m bytes have been read, in the span that begins at seg.
SpanOf(m) == m - (m % Span)
Part(m) == [a \in Mem |-> IF base <= a /\ a < base + m THEN mem[a] ELSE Erased]
ImageRead(seg, m) ==
  [seg |-> seg, mem |-> Part(m), low |-> IF m = 0 THEN MemSize ELSE base,
   high |-> IF m = 0 THEN 0 ELSE base + m - 1, success |-> TRUE]

\* The lines of a file, and the first n rows of it.
Line == {Data(i) : i \in Int} \cup {Segment(i) : i \in Int}
Rows(n) == [k \in 1..n |-> Records(base + (k - 1) * RecordSize)]

\* A function on 1..n is a sequence of length n.
LEMMA FunctionIsSeq ==
  ASSUME NEW S, NEW n \in Nat, NEW s \in [1..n -> S]
  PROVE  s \in Seq(S) /\ Len(s) = n
<1>1. s \in Seq(S)  BY SeqDef, Zenon
<1>2. Len(s) \in Nat /\ DOMAIN s = 1..Len(s)  BY <1>1, LenProperties
<1> QED  BY <1>1, <1>2

\* Before the first row.
LEMMA ReadFirst == base \in Nat => NewImage = ImageRead(0, 0)
<1> SUFFICES ASSUME base \in Nat  PROVE NewImage = ImageRead(0, 0)  OBVIOUS
<1>1. \A a \in Mem : ~(base <= a /\ a < base + 0)
  BY ConstAssumption DEF Mem
<1>2. Part(0) = [a \in Mem |-> Erased]  BY <1>1 DEF Part
<1> QED  BY <1>2 DEF NewImage, ImageRead

\* A segment record.
LEMMA SegmentRead ==
  ASSUME base \in Nat, NEW seg, NEW m \in Nat, base + m <= MemSize
  PROVE  ReadRecord(ImageRead(seg, m), Segment(base + m)) = ImageRead(base + m, m)
<1>1. SegmentAt(base + m) = base + m  BY DEF SegmentAt
<1>2. /\ Segment(base + m).kind = "segment"
      /\ Segment(base + m).at = base + m
  BY <1>1 DEF Segment
<1>3. base + m \in 0..FlashSize
  <2>1. MemSize \in Nat /\ FlashSize \in Nat /\ MemSize <= FlashSize
    BY ConstAssumption
  <2> QED  BY <2>1
<1> QED  BY <1>2, <1>3 DEF ReadRecord, ReadSegment, ImageRead

\* A data record.
LEMMA DataRead ==
  ASSUME base \in Nat, NEW m \in Nat, base + m + RecordSize <= MemSize
  PROVE  ReadRecord(ImageRead(base + SpanOf(m), m), Data(base + m))
           = ImageRead(base + SpanOf(m), m + RecordSize)
<1> DEFINE i == base + m
           image == ImageRead(base + SpanOf(m), m)
           all == i..(i + RecordSize - 1)
           stored == all \cap Mem
<1>1. /\ Span \in Nat \ {0} /\ RecordSize \in Nat \ {0} /\ MemSize \in Nat
      /\ m % Span \in 0..(Span - 1) /\ i \in Nat /\ i - base = m
  BY ConstAssumption, Division
<1>2. Bytes(i) = [n \in 1..RecordSize |-> mem[i + n - 1]]  BY DEF Bytes
<1>3. Len(Bytes(i)) = RecordSize
  <2> DEFINE V == {mem[i + n - 1] : n \in 1..RecordSize}
  <2>1. Bytes(i) \in [1..RecordSize -> V]  BY <1>2
  <2> HIDE DEF V
  <2> QED  BY <1>1, <2>1, FunctionIsSeq
<1>4. /\ Data(i).kind = "data" /\ Data(i).bytes = Bytes(i)
      /\ image.seg + Data(i).at = i
  <2>1. Data(i).at = m % Span  BY <1>1 DEF Data
  <2>2. (base + (m - (m % Span))) + (m % Span) = i  BY <1>1
  <2> QED  BY <2>1, <2>2 DEF Data, ImageRead, SpanOf
<1>5. ReadRecord(image, Data(i)) =
        [image EXCEPT !.mem = [a \in Mem |-> IF a \in stored THEN Bytes(i)[a - i + 1]
                                             ELSE image.mem[a]],
                      !.low = Min(stored \cup {image.low}),
                      !.high = Max(stored \cup {image.high}),
                      !.success = image.success /\ all \subseteq Mem]
  <2> HIDE DEF image, i
  <2> QED  BY <1>3, <1>4 DEF ReadRecord, ReadData
<1>6. all \subseteq Mem /\ stored = all
  <2>1. all \subseteq Mem  BY <1>1 DEF Mem
  <2> QED  BY <2>1
<1>7. [a \in Mem |-> IF a \in stored THEN Bytes(i)[a - i + 1] ELSE image.mem[a]]
        = Part(m + RecordSize)
  <2> SUFFICES ASSUME NEW a \in Mem
               PROVE  (IF a \in stored THEN Bytes(i)[a - i + 1] ELSE image.mem[a])
                      = IF base <= a /\ a < base + (m + RecordSize)
                        THEN mem[a] ELSE Erased
    BY DEF Part
  <2>1. a \in Int  BY <1>1 DEF Mem
  <2>2. image.mem[a] = IF base <= a /\ a < i THEN mem[a] ELSE Erased
    BY DEF ImageRead, Part
  <2>3. CASE a \in stored
    <3>1. a - i + 1 \in 1..RecordSize /\ i + (a - i + 1) - 1 = a
      BY <1>1, <1>6, <2>1, <2>3
    <3>2. Bytes(i)[a - i + 1] = mem[a]  BY <1>2, <3>1
    <3>3. base <= a /\ a < base + (m + RecordSize)
      BY <1>1, <1>6, <2>1, <2>3
    <3> QED  BY <2>3, <3>2, <3>3
  <2>4. CASE a \notin stored
    <3>1. base <= a /\ a < i <=> base <= a /\ a < base + (m + RecordSize)
      BY <1>1, <1>6, <2>1, <2>4
    <3> QED  BY <2>2, <2>4, <3>1
  <2> QED  BY <2>3, <2>4
<1>8. Min(stored \cup {image.low}) = base
  <2>1. image.low = IF m = 0 THEN MemSize ELSE base  BY DEF ImageRead
  <2>2. /\ stored \cup {image.low} \in SUBSET Nat /\ i \in stored
        /\ \A j \in stored \cup {image.low} : base <= j
        /\ base \in stored \cup {image.low}
    BY <1>1, <1>6, <2>1
  <2> HIDE DEF stored, image
  <2>3. /\ Min(stored \cup {image.low}) \in stored \cup {image.low}
        /\ Min(stored \cup {image.low}) <= base
    BY <2>2, MinIsLeast
  <2> QED  BY <2>2, <2>3
<1>9. Max(stored \cup {image.high}) = base + (m + RecordSize) - 1
  <2> DEFINE last == base + (m + RecordSize) - 1
  <2>1. image.high = IF m = 0 THEN 0 ELSE base + m - 1  BY DEF ImageRead
  <2>2. /\ last \in stored /\ last \in Int
        /\ stored \cup {image.high} \in SUBSET Int
        /\ \A j \in stored \cup {image.high} : j <= last
    BY <1>1, <1>6, <2>1
  <2> HIDE DEF stored, image, last
  <2>3. /\ Max(stored \cup {image.high}) \in stored \cup {image.high}
        /\ last <= Max(stored \cup {image.high})
    BY <2>2, MaxIsGreatest
  <2> QED  BY <2>2, <2>3 DEF last
<1>10. m + RecordSize # 0  BY <1>1
<1> HIDE DEF i, all, stored
<1> QED  BY <1>5, <1>6, <1>7, <1>8, <1>9, <1>10 DEF ImageRead, i

\* The segment after m bytes: none yet, or the one of the row before.
SegmentAfter(m) == IF m = 0 THEN 0 ELSE base + SpanOf(m - RecordSize)
After(m) == ImageRead(SegmentAfter(m), m)

\* One line more, and two.
LEMMA ConcatLines ==
  ASSUME NEW S, NEW s \in Seq(S), NEW x \in S, NEW y \in S
  PROVE  /\ s \o <<x>> = Append(s, x)
         /\ s \o <<x, y>> = Append(Append(s, x), y)
<1>1. s \o <<x>> = Append(s, x)  BY AppendIsConcat
<1>2. <<x>> \in Seq(S) /\ <<y>> \in Seq(S)  OBVIOUS
<1>3. <<x, y>> = Append(<<x>>, y)  OBVIOUS
<1>4. <<x, y>> = <<x>> \o <<y>>  BY <1>2, <1>3, AppendIsConcat
<1>5. s \o <<x, y>> = (s \o <<x>>) \o <<y>>  BY <1>2, <1>4, ConcatAssociative
<1>6. Append(s, x) \in Seq(S)  BY AppendProperties
<1>7. Append(s, x) \o <<y>> = Append(Append(s, x), y)  BY <1>6, AppendIsConcat
<1> QED  BY <1>1, <1>5, <1>7

\* One row of the file.
LEMMA ReadRow ==
  ASSUME base \in Nat, NEW m \in Nat, m % RecordSize = 0,
         base + m + RecordSize <= MemSize, NEW records \in Seq(Line),
         ReadAll(records) = After(m)
  PROVE  /\ records \o Records(base + m) \in Seq(Line)
         /\ ReadAll(records \o Records(base + m)) = After(m + RecordSize)
<1> DEFINE i == base + m
<1>1. /\ Span \in Nat \ {0} /\ RecordSize \in Nat \ {0} /\ i - base = m
      /\ (m + RecordSize) - RecordSize = m /\ m + RecordSize # 0
  BY ConstAssumption
<1>2. Data(i) \in Line /\ Segment(i) \in Line  BY DEF Line
<1>3. After(m + RecordSize) = ImageRead(base + SpanOf(m), m + RecordSize)
  BY <1>1 DEF After, SegmentAfter
<1>4. ReadRecord(ImageRead(base + SpanOf(m), m), Data(i)) = After(m + RecordSize)
  BY <1>3, DataRead
<1>5. MemSize \in Nat  BY ConstAssumption
<1>6. CASE m % Span = 0
  <2>1. Records(i) = <<Segment(i), Data(i)>>  BY <1>1, <1>6 DEF Records
  <2>2. records \o Records(i) = Append(Append(records, Segment(i)), Data(i))
    <3>1. \A x, y \in Line : records \o <<x, y>> = Append(Append(records, x), y)
      BY ConcatLines
    <3> HIDE DEF i
    <3> QED  BY <1>2, <2>1, <3>1, Zenon
  <2>3. Append(records, Segment(i)) \in Seq(Line)  BY <1>2
  <2>4. ReadAll(Append(records, Segment(i))) = ImageRead(base + m, m)
    <3>1. base + m <= MemSize  BY <1>1, <1>5
    <3> QED  BY <1>2, <3>1, ReadAppend, SegmentRead DEF After
  <2>5. SpanOf(m) = m  BY <1>1, <1>6 DEF SpanOf
  <2>6. ReadAll(Append(Append(records, Segment(i)), Data(i)))
          = ReadRecord(ImageRead(base + m, m), Data(i))
    BY <1>2, <2>3, <2>4, ReadAppend
  <2>7. Append(Append(records, Segment(i)), Data(i)) \in Seq(Line)  BY <1>2, <2>3
  <2> QED  BY <1>4, <2>2, <2>5, <2>6, <2>7
<1>7. CASE m % Span # 0
  <2>1. Records(i) = <<Data(i)>>  BY <1>1, <1>7 DEF Records
  <2>2. records \o Records(i) = Append(records, Data(i))
    BY <1>2, <2>1, ConcatLines
  <2>3. m # 0 /\ SpanOf(m - RecordSize) = SpanOf(m)
    <3>1. m # 0
      <4>1. 0 % Span = 0  BY <1>1
      <4> QED  BY <1>7, <4>1
    <3> QED  BY <1>7, <3>1, SpanStays DEF SpanOf
  <2>4. After(m) = ImageRead(base + SpanOf(m), m)  BY <2>3 DEF After, SegmentAfter
  <2>5. ReadAll(Append(records, Data(i))) = After(m + RecordSize)
    BY <1>2, <1>4, <2>4, ReadAppend
  <2>6. Append(records, Data(i)) \in Seq(Line)  BY <1>2
  <2> QED  BY <2>2, <2>5, <2>6
<1> QED  BY <1>6, <1>7

\* The rows up to the end of the image.
LEMMA RowsEnd ==
  ASSUME NEW n \in Nat, base \in Nat
  PROVE  /\ Rows(0) = << >>
         /\ Rows(n) \in Seq(Seq(Line)) /\ Len(Rows(n)) = n
         /\ Rows(n + 1) = Append(Rows(n), Records(base + n * RecordSize))
         /\ Records(base + n * RecordSize) \in Seq(Line)
<1>1. RecordSize \in Nat  BY ConstAssumption
<1>2. \A i \in Int : Records(i) \in Seq(Line)
  <2> TAKE i \in Int
  <2>1. Data(i) \in Line /\ Segment(i) \in Line  BY DEF Line
  <2> HIDE DEF Line
  <2> QED  BY <2>1 DEF Records
<1>3. ASSUME NEW k \in Nat
      PROVE  Rows(k) \in [1..k -> Seq(Line)]
  <2>1. \A j \in 1..k : base + (j - 1) * RecordSize \in Int  BY <1>1
  <2> QED  BY <1>2, <2>1 DEF Rows
<1>4. \A k \in Nat : Rows(k) \in Seq(Seq(Line)) /\ Len(Rows(k)) = k
  BY <1>3, FunctionIsSeq
<1>5. Rows(0) = << >>  BY <1>4, EmptySeq
<1>6. Records(base + n * RecordSize) \in Seq(Line)
  <2>1. base + n * RecordSize \in Int  BY <1>1
  <2> QED  BY <1>2, <2>1
<1>7. Rows(n + 1) = Append(Rows(n), Records(base + n * RecordSize))
  <2> DEFINE more == Append(Rows(n), Records(base + n * RecordSize))
  <2>1. /\ Rows(n) \in Seq(Seq(Line)) /\ Len(Rows(n)) = n
        /\ Rows(n + 1) \in Seq(Seq(Line)) /\ Len(Rows(n + 1)) = n + 1
    BY <1>4
  <2>2. /\ more \in Seq(Seq(Line)) /\ Len(more) = n + 1
        /\ more[n + 1] = Records(base + n * RecordSize)
        /\ \A k \in 1..n : more[k] = Rows(n)[k]
    BY <1>6, <2>1, AppendProperties
  <2> HIDE DEF more
  <2>3. ASSUME NEW k \in 1..(n + 1)  PROVE more[k] = Rows(n + 1)[k]
    <3>1. Rows(n + 1)[k] = Records(base + (k - 1) * RecordSize)  BY DEF Rows
    <3>2. CASE k = n + 1
      <4>1. k - 1 = n  BY <3>2
      <4> QED  BY <2>2, <3>1, <3>2, <4>1
    <3>3. CASE k # n + 1
      <4>1. k \in 1..n  BY <3>3
      <4>2. Rows(n)[k] = Records(base + (k - 1) * RecordSize)  BY <4>1 DEF Rows
      <4> QED  BY <2>2, <3>1, <4>1, <4>2
    <3> QED  BY <3>2, <3>3
  <2>4. \A k \in 1..Len(more) : more[k] = Rows(n + 1)[k]  BY <2>2, <2>3
  <2>5. more = Rows(n + 1)  BY <2>1, <2>2, <2>4, SeqEqual
  <2> QED  BY <2>5 DEF more
<1> QED  BY <1>4, <1>5, <1>6, <1>7

\* Reading n rows, from the first one on.
LEMMA ReadRows ==
  ASSUME base \in Nat, NEW N \in Nat, base + N * RecordSize <= MemSize
  PROVE  ReadAll(FlattenSeq(Rows(N))) = After(N * RecordSize)
<1> DEFINE File(n) == FlattenSeq(Rows(n))
           S == {n \in Nat : File(n) \in Seq(Line)
                             /\ ReadAll(File(n)) = After(n * RecordSize)}
<1>1. RecordSize \in Nat \ {0} /\ MemSize \in Nat  BY ConstAssumption
<1>2. File(0) = << >>
  <2>1. Rows(0) = << >>  BY RowsEnd
  <2> QED  BY <2>1 DEF FlattenSeq
<1>3. 0 \in S
  <2>1. 0 * RecordSize = 0 /\ After(0) = NewImage
    BY <1>1, ReadFirst DEF After, SegmentAfter
  <2>2. << >> \in Seq(Line)  OBVIOUS
  <2> QED  BY <1>2, <2>1, <2>2, ReadNothing
<1>4. ASSUME NEW n \in S, n < N  PROVE n + 1 \in S
  <2> DEFINE m == n * RecordSize
             row == Records(base + m)
  <2>1. n \in Nat /\ m \in Nat /\ (n + 1) * RecordSize = m + RecordSize
    BY <1>1
  <2>2. m % RecordSize = 0  BY <1>1, <2>1, Multiple
  <2>3. base + m + RecordSize <= MemSize
    <3>1. (n + 1) * RecordSize <= N * RecordSize  BY <1>1, <1>4, <2>1
    <3>2. N * RecordSize \in Nat  BY <1>1
    <3> HIDE DEF m
    <3> QED  BY <1>1, <2>1, <3>1, <3>2
  <2>4. File(n) \in Seq(Line) /\ ReadAll(File(n)) = After(m)  BY <1>4
  <2>5. /\ Rows(n) \in Seq(Seq(Line)) /\ row \in Seq(Line)
        /\ Rows(n + 1) = Append(Rows(n), row)
    BY <2>1, RowsEnd
  <2> HIDE DEF m, row
  <2>6. File(n + 1) = IF Rows(n) = << >> THEN row ELSE File(n) \o row
    BY <2>5, FlattenAppend
  <2>7. Rows(n) = << >> => File(n) = << >>  BY DEF FlattenSeq
  <2> HIDE DEF File
  <2>8. File(n + 1) = File(n) \o row  BY <2>5, <2>6, <2>7, ConcatEmptySeq
  <2>9. /\ File(n) \o row \in Seq(Line)
        /\ ReadAll(File(n) \o row) = After(m + RecordSize)
    BY <2>1, <2>2, <2>3, <2>4, ReadRow DEF row
  <2>10. /\ File(n + 1) \in Seq(Line)
         /\ ReadAll(File(n + 1)) = After((n + 1) * RecordSize)
    BY <2>1, <2>8, <2>9
  <2>11. n + 1 \in Nat  BY <2>1
  <2> QED  BY <2>10, <2>11
<1>5. S \in SUBSET Nat /\ N \in 0..N  OBVIOUS
<1> HIDE DEF S
<1>6. \A n \in 0..N : n \in S  BY <1>3, <1>4, <1>5, UpTo
<1> QED  BY <1>5, <1>6 DEF S

----------------------------------------------------------------------------
(* The theorem.                                                            *)

\* An image that has been rounded is rows of records, and its end a page's.
LEMMA WholeRows ==
  ASSUME base \in Nat, high \in Nat, base < high, base % Page = 0, high % Page = 0
  PROVE  /\ (high - base) \div RecordSize \in Nat
         /\ ((high - base) \div RecordSize) * RecordSize = high - base
         /\ (((high - 1) + Page - 1) \div Page) * Page = high
<1>1. /\ Page \in Nat \ {0} /\ Page >= 2 /\ RecordSize \in Nat \ {0}
      /\ Page % RecordSize = 0
  <2>1. /\ Page \in Nat \ {0} /\ HeaderSize \in Nat \ {0} /\ HeaderSize < Page
        /\ RecordSize \in Nat \ {0} /\ Page % RecordSize = 0
    BY ConstAssumption
  <2> QED  BY <2>1
<1>2. high - base \in Nat /\ (high - base) % Page = 0
  <2>1. base <= high  OBVIOUS
  <2> QED  BY <1>1, <2>1, Difference
<1>3. (high - base) % RecordSize = 0  BY <1>1, <1>2, MultipleOfMultiple
<1>4. /\ (high - base) \div RecordSize \in Nat
      /\ high - base = RecordSize * ((high - base) \div RecordSize)
  BY <1>1, <1>2, <1>3, IsMultiple
<1>5. ((high - base) \div RecordSize) * RecordSize = high - base
  <2> DEFINE k == (high - base) \div RecordSize
  <2>1. k \in Nat /\ high - base = RecordSize * k  BY <1>4
  <2> HIDE DEF k
  <2>2. k * RecordSize = high - base  BY <1>1, <2>1
  <2> QED  BY <2>2 DEF k
<1>6. (((high - 1) + Page - 1) \div Page) * Page = high
  <2> DEFINE x == (high - 1) + Page - 1
             end == (x \div Page) * Page
  <2>1. x \in Nat /\ x + 2 = high + Page  BY <1>1
  <2>2. end \in Nat /\ end % Page = 0 /\ end <= x /\ x < end + Page
    BY <2>1, PageBelow
  <2> HIDE DEF x, end
  <2>3. high < end + Page /\ end < high + Page  BY <1>1, <2>1, <2>2
  <2>4. high <= end /\ end <= high  BY <2>2, <2>3, PagesApart
  <2>5. end = high  BY <2>2, <2>4
  <2> QED  BY <2>5 DEF end, x
<1> QED  BY <1>4, <1>5, <1>6

\* Whatever is written as Intel hex reads back.
LEMMA ReadsBack ==
  ASSUME base \in Nat, high \in Nat, base < high, high <= MemSize,
         base % Page = 0, high % Page = 0
  PROVE  FromIntelHex(IntelHex) =
           [success |-> TRUE, base |-> base, bytes |-> Binary]
<1> DEFINE N == (high - base) \div RecordSize
           read == ReadAll(IntelHex)
           end == ((read.high + Page - 1) \div Page) * Page
<1>1. /\ N \in Nat /\ N * RecordSize = high - base
      /\ (((high - 1) + Page - 1) \div Page) * Page = high
  BY WholeRows
<1>2. MemSize \in Nat  BY ConstAssumption
<1>3. IntelHex = FlattenSeq(Rows(N))  BY DEF IntelHex, Rows
<1> HIDE DEF N
<1>4. read = After(high - base)
  <2>1. base + N * RecordSize <= MemSize  BY <1>1
  <2> QED  BY <1>1, <1>3, <2>1, ReadRows
<1>5. /\ read.low = base /\ read.high = high - 1 /\ read.success
      /\ read.mem = Part(high - base)
  <2>1. high - base # 0 /\ base + (high - base) - 1 = high - 1  OBVIOUS
  <2> QED  BY <1>4, <2>1 DEF After, ImageRead
<1>6. FromIntelHex(IntelHex) =
        [success |-> TRUE, base |-> read.low,
         bytes |-> [n \in 1..(end - read.low) |-> read.mem[read.low + n - 1]]]
  BY <1>5 DEF FromIntelHex, ReadAll
<1>7. end = high  BY <1>1, <1>5
<1> HIDE DEF read, end
<1>8. ASSUME NEW n \in 1..(high - base)
      PROVE  read.mem[base + n - 1] = mem[base + n - 1]
  <2>1. /\ base + n - 1 \in Mem /\ base <= base + n - 1
        /\ base + n - 1 < base + (high - base)
    BY <1>2 DEF Mem
  <2> QED  BY <1>5, <2>1 DEF Part
<1>9. [n \in 1..(high - base) |-> read.mem[base + n - 1]] = Binary
  BY <1>8 DEF Binary
<1> QED  BY <1>5, <1>6, <1>7, <1>9

\* The Intel hex file that generate writes (image.cc:313) is read back by
\* fromIntelHex (image.cc:207) as the bytes generate writes in binary, at the same
\* address, however long the image is and in however many 64K spans it lies.
THEOREM HexIsImage == Spec => []HexReadsBack
<1>1. IInv => HexReadsBack
  <2> SUFFICES ASSUME IInv, pc = "signed", base < high
               PROVE  FromIntelHex(IntelHex) =
                        [success |-> TRUE, base |-> base, bytes |-> Binary]
    BY DEF HexReadsBack
  <2>1. base % Page = 0 /\ high % Page = 0  BY DEF IInv, Rounded, Rounding
  <2>2. base \in Nat /\ high \in Nat /\ high <= MemSize
    BY ConstAssumption DEF IInv, TypeOK
  <2> QED  BY <2>1, <2>2, ReadsBack
<1> QED  BY <1>1, ImageInductive, PTL
=============================================================================
