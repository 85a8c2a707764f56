--------------------------- MODULE Loading_proofs ---------------------------
(***************************************************************************)
(* Proofs about the insertion of files: the division into shares and       *)
(* statements covers each line exactly once, whatever the number of lines  *)
(* and the limits, and so each line is inserted exactly once.              *)
(***************************************************************************)
EXTENDS Loading, DeterminePrefixes_proofs, FiniteSetTheorems, SequenceTheorems, TLAPS

-----------------------------------------------------------------------------
(* The division *)

LEMMA DivBounds ==
    ASSUME NEW a \in Nat, NEW b \in Nat \ {0}
    PROVE  a \div b \in Nat /\ b * (a \div b) <= a /\ a < b * (a \div b) + b
OBVIOUS

LEMMA CeilDivBounds ==
    ASSUME NEW a \in Nat \ {0}, NEW b \in Nat \ {0}
    PROVE  /\ CeilDiv(a, b) \in Nat \ {0}
           /\ a <= CeilDiv(a, b) * b
           /\ (CeilDiv(a, b) - 1) * b < a
<1> DEFINE q == (a + b - 1) \div b
<1>1. q \in Nat /\ b * q <= a + b - 1 /\ a + b - 1 < b * q + b
  BY DivBounds, a + b - 1 \in Nat
<1>2. CeilDiv(a, b) = q
  BY DEF CeilDiv
<1> HIDE DEF q
<1>3. a <= q * b /\ (q - 1) * b < a
  BY <1>1
<1>4. q # 0
  BY <1>3
<1> QED
  BY <1>1, <1>2, <1>3, <1>4

LEMMA CeilSqrtPositive ==
    ASSUME NEW a \in Nat \ {0}
    PROVE  CeilSqrt(a) \in Nat \ {0}
<1> DEFINE R == {r \in 0 .. a : r * r < a}
<1>1. IsFiniteSet(R)
  <2>1. R \in SUBSET (0 .. a) /\ IsFiniteSet(0 .. a)
    BY FS_Interval
  <2> QED
    BY <2>1, FS_Subset
<1>2. 0 \in R
  OBVIOUS
<1>3. Cardinality(R) \in Nat /\ Cardinality(R) # 0
  BY <1>1, <1>2, FS_CardinalityType, FS_EmptySet
<1> QED
  BY <1>3 DEF CeilSqrt

\* The sizes of shares and statements, and their number.
LEMMA Sizes ==
    ASSUME NEW n \in Nat \ {0}
    PROVE  /\ EntriesPerThread(n) \in Nat \ {0}
           /\ n <= EntriesPerThread(n) * MaxThreads
           /\ EntriesPerBatch(n) \in Nat \ {0}
           /\ BatchesPerThread(n) \in Nat
           /\ EntriesPerThread(n) <= BatchesPerThread(n) * EntriesPerBatch(n)
<1>1. EntriesPerThread(n) \in Nat \ {0} /\ n <= EntriesPerThread(n) * MaxThreads
  BY CeilDivBounds, LimitsAssumption DEF EntriesPerThread
<1>2. EntriesPerBatch(n) \in Nat \ {0}
  BY <1>1, CeilDivBounds, CeilSqrtPositive, LimitsAssumption DEF EntriesPerBatch
<1>3. /\ BatchesPerThread(n) \in Nat
      /\ EntriesPerThread(n) <= BatchesPerThread(n) * EntriesPerBatch(n)
  BY <1>1, <1>2, CeilDivBounds DEF BatchesPerThread
<1> QED
  BY <1>1, <1>2, <1>3

LEMMA BatchBounds ==
    ASSUME NEW n \in Nat \ {0}, NEW k \in Nat, NEW c \in Nat, NEW i \in Int
    PROVE  i \in Batch(n, k, c) <=>
             /\ k * EntriesPerThread(n) + c * EntriesPerBatch(n) <= i
             /\ i < k * EntriesPerThread(n) + (c + 1) * EntriesPerBatch(n)
             /\ i < (k + 1) * EntriesPerThread(n)
             /\ i < n
<1> DEFINE p == EntriesPerThread(n)  b == EntriesPerBatch(n)
           lo == k * p + c * b  mid == k * p + (c + 1) * b  hi == (k + 1) * p
<1>1. p \in Nat /\ b \in Nat
  BY Sizes
<1>2. lo \in Nat /\ mid \in Nat /\ hi \in Nat
  BY <1>1
<1>3. Batch(n, k, c) = lo .. Least(Least(mid, hi), n) - 1
  BY DEF Batch
<1> HIDE DEF lo, mid, hi
<1>4. i \in Batch(n, k, c) <=> lo <= i /\ i < mid /\ i < hi /\ i < n
  BY <1>2, <1>3 DEF Least
<1> QED
  BY <1>4 DEF lo, mid, hi

LEMMA QuotientUnique ==
    ASSUME NEW p \in Nat \ {0}, NEW j \in Nat, NEW k \in Nat, NEW i \in Int,
           j * p <= i, i < (j + 1) * p, k * p <= i, i < (k + 1) * p
    PROVE  j = k
OBVIOUS

\* No line of a file belongs to two statements: the shares do not overlap,
\* nor do the statements of one (AddToGivenSqlTable).
THEOREM NoLineTwice ==
    ASSUME NEW n \in Nat, NEW k \in Workers, NEW l \in Workers,
           NEW c \in 0 .. BatchesPerThread(n) - 1,
           NEW d \in 0 .. BatchesPerThread(n) - 1,
           NEW i \in Batch(n, k, c) \cap Batch(n, l, d)
    PROVE  k = l /\ c = d
<1> DEFINE p == EntriesPerThread(n)  b == EntriesPerBatch(n)
<1>1. n # 0
  BY DEF BatchesPerThread
<1>2. p \in Nat \ {0} /\ b \in Nat \ {0} /\ BatchesPerThread(n) \in Nat
  BY <1>1, Sizes
<1>3. k \in Nat /\ l \in Nat /\ c \in Nat /\ d \in Nat
  BY <1>2, LimitsAssumption DEF Workers
<1>4. i \in Int
  BY DEF Batch
<1>5. /\ k * p + c * b <= i /\ i < k * p + (c + 1) * b /\ i < (k + 1) * p
      /\ l * p + d * b <= i /\ i < l * p + (d + 1) * b /\ i < (l + 1) * p
  BY <1>1, <1>3, <1>4, BatchBounds
<1> HIDE DEF p, b
<1>6. c * b \in Nat /\ d * b \in Nat /\ k * p \in Nat /\ l * p \in Nat
  BY <1>2, <1>3
<1>7. k = l
  <2>1. k * p <= i /\ l * p <= i
    BY <1>4, <1>5, <1>6
  <2> QED
    BY <1>2, <1>3, <1>4, <1>5, <2>1, QuotientUnique
<1>8. c = d
  <2> DEFINE r == i - k * p
  <2>1. r \in Int
    BY <1>4, <1>6
  <2>2. c * b <= r /\ r < (c + 1) * b /\ d * b <= r /\ r < (d + 1) * b
    BY <1>2, <1>3, <1>4, <1>5, <1>6, <1>7
  <2> HIDE DEF r
  <2> QED
    BY <1>2, <1>3, <2>1, <2>2, QuotientUnique
<1> QED
  BY <1>7, <1>8

\* Every line of a file belongs to a statement (AddToGivenSqlTable).
THEOREM EveryLineOnce ==
    ASSUME NEW n \in Nat, NEW i \in 0 .. n - 1
    PROVE  \E k \in Workers : \E c \in 0 .. BatchesPerThread(n) - 1 : i \in Batch(n, k, c)
<1> DEFINE p == EntriesPerThread(n)  b == EntriesPerBatch(n)
           k == i \div p  r == i - k * p  c == r \div b
<1>1. n \in Nat \ {0} /\ i \in Nat
  OBVIOUS
<1>2. /\ p \in Nat \ {0} /\ b \in Nat \ {0} /\ BatchesPerThread(n) \in Nat
      /\ n <= p * MaxThreads /\ p <= BatchesPerThread(n) * b
  BY <1>1, Sizes
<1> HIDE DEF p, b
<1>3. k \in Nat /\ p * k <= i /\ i < p * k + p
  BY <1>1, <1>2, DivBounds
<1>4. k < MaxThreads
  <2> HIDE DEF k
  <2>1. ASSUME MaxThreads <= k PROVE FALSE
    <3>1. p * MaxThreads <= p * k
      BY <1>2, <1>3, <2>1, LimitsAssumption
    <3>2. p * MaxThreads \in Nat /\ p * k \in Nat
      BY <1>2, <1>3, LimitsAssumption
    <3> QED
      BY <1>1, <1>2, <1>3, <3>1, <3>2
  <2> QED
    BY <1>3, <2>1, LimitsAssumption
<1>5. r \in Nat /\ r < p /\ k * p = p * k
  <2> HIDE DEF k
  <2> QED
    BY <1>1, <1>2, <1>3
<1> HIDE DEF k
<1>6. c \in Nat /\ b * c <= r /\ r < b * c + b
  <2> HIDE DEF r
  <2> QED
    BY <1>2, <1>5, DivBounds
<1>7. c < BatchesPerThread(n)
  <2> HIDE DEF c, r
  <2>1. ASSUME BatchesPerThread(n) <= c PROVE FALSE
    <3>1. BatchesPerThread(n) * b <= b * c
      BY <1>2, <1>6, <2>1
    <3>2. BatchesPerThread(n) * b \in Nat /\ b * c \in Nat
      BY <1>2, <1>6
    <3> QED
      BY <1>2, <1>5, <1>6, <3>1, <3>2
  <2> QED
    BY <1>2, <1>6, <2>1
<1> HIDE DEF c
<1>8. /\ k * p + c * b <= i /\ i < k * p + (c + 1) * b /\ i < (k + 1) * p
  BY <1>1, <1>2, <1>3, <1>5, <1>6
<1>9. i \in Batch(n, k, c)
  BY <1>1, <1>3, <1>6, <1>8, BatchBounds DEF p, b
<1> QED
  BY <1>2, <1>3, <1>4, <1>6, <1>7, <1>9, LimitsAssumption DEF Workers

\* The limit on the size of a statement works against itself: once the root
\* of a share exceeds it, so does the size that is then chosen.  With the
\* code's limits of 100 and 100 that is from a million lines on
\* (AddToGivenSqlTable, "a maximum of 100 entries per batch").
THEOREM LimitExceeded ==
    ASSUME NEW n \in Nat \ {0},
           EntriesPerThread(n) > MaxEntriesPerInsert * MaxEntriesPerInsert
    PROVE  EntriesPerBatch(n) > MaxEntriesPerInsert
<1> DEFINE p == EntriesPerThread(n)  m == MaxEntriesPerInsert
           R == {r \in 0 .. p : r * r < p}
<1>1. p \in Nat \ {0} /\ m \in Nat \ {0} /\ m * m < p
  BY Sizes, LimitsAssumption
<1> HIDE DEF p, m
<1>2. CeilSqrt(p) > m
  <2>1. m <= m * m
    BY <1>1
  <2>2. \A r \in 0 .. m : r * r <= m * m
    BY <1>1
  <2>3. 0 .. m \in SUBSET R
    BY <1>1, <2>1, <2>2
  <2>4. IsFiniteSet(R) /\ Cardinality(R) \in Nat
    <3>1. R \in SUBSET (0 .. p) /\ IsFiniteSet(0 .. p)
      BY <1>1, FS_Interval
    <3> QED
      BY <3>1, FS_Subset, FS_CardinalityType
  <2>5. Cardinality(0 .. m) <= Cardinality(R)
    BY <2>3, <2>4, FS_Subset
  <2>6. Cardinality(0 .. m) = m + 1
    BY <1>1, FS_Interval
  <2> QED
    BY <1>1, <2>4, <2>5, <2>6 DEF CeilSqrt
<1>3. EntriesPerBatch(n) = CeilDiv(p, m)
  BY <1>2 DEF EntriesPerBatch, p, m
<1>4. CeilDiv(p, m) \in Nat /\ p <= CeilDiv(p, m) * m
  BY <1>1, CeilDivBounds
<1>5. CeilDiv(p, m) > m
  <2> DEFINE q == CeilDiv(p, m)
  <2> HIDE DEF q
  <2>1. ASSUME q <= m PROVE FALSE
    <3>1. q * m <= m * m
      BY <1>1, <1>4, <2>1 DEF q
    <3> QED
      BY <1>1, <1>4, <3>1 DEF q
  <2> QED
    BY <1>1, <1>4, <2>1 DEF q
<1> QED
  BY <1>3, <1>5 DEF m

-----------------------------------------------------------------------------
(* The table *)

Size(l) == Len(files[l].lines)

Row(l, i, k, c) == [load |-> l, line |-> i + 1, by |-> <<k, c>>]

Calls == {"idle", "insert", "failed", "prefixes", "build", "built"}

LoadTypes ==
    /\ lpc \in Calls
    /\ files \in Seq(Files)
    /\ lpc # "failed" => files # <<>>
    /\ nextBatch \in [Workers -> Nat]

\* Every row comes from a statement that holds its line.
RowsFromBatches ==
    \A x \in table :
        \E l \in DOMAIN files : \E k \in Workers : \E c \in 0 .. BatchesPerThread(Size(l)) - 1 :
            \E i \in Batch(Size(l), k, c) : x = Row(l, i, k, c)

\* The statements of earlier loads and those done of the last one.
Issued(l, k, c) == l < Len(files) \/ lpc \notin {"insert", "failed"} \/ c < nextBatch[k]

IssuedAreIn ==
    \A l \in DOMAIN files : \A k \in Workers : \A c \in 0 .. BatchesPerThread(Size(l)) - 1 :
        Issued(l, k, c) => \A i \in Batch(Size(l), k, c) : Row(l, i, k, c) \in table

LoadInv == LoadTypes /\ RowsFromBatches /\ IssuedAreIn

LEMMA SizeType ==
    ASSUME files \in Seq(Files), NEW l \in DOMAIN files
    PROVE  Size(l) \in Nat /\ l \in Nat /\ l <= Len(files) /\ l > 0
<1>1. l \in 1 .. Len(files) /\ files[l] \in Files
  BY ElementOfSeq, LenProperties
<1>2. files[l].lines \in Seq(Seq(Nat))
  BY <1>1, FilesAssumption
<1> QED
  BY <1>1, <1>2, LenProperties DEF Size

\* The invariant says what the property does.
LEMMA InsertedOnce == LoadInv => LinesAreInsertedOnce
<1> SUFFICES ASSUME LoadInv PROVE LinesAreInsertedOnce
  OBVIOUS
<1> USE DEF LoadInv
<1>1. ASSUME NEW x \in table, NEW y \in table, x.load = y.load, x.line = y.line
      PROVE  x = y
  <2>1. PICK l, k, c, i :
              /\ l \in DOMAIN files /\ k \in Workers
              /\ c \in 0 .. BatchesPerThread(Size(l)) - 1
              /\ i \in Batch(Size(l), k, c) /\ x = Row(l, i, k, c)
    BY DEF RowsFromBatches
  <2>2. PICK m, j, d, h :
              /\ m \in DOMAIN files /\ j \in Workers
              /\ d \in 0 .. BatchesPerThread(Size(m)) - 1
              /\ h \in Batch(Size(m), j, d) /\ y = Row(m, h, j, d)
    BY DEF RowsFromBatches
  <2>3. l = m
    BY <1>1, <2>1, <2>2 DEF Row
  <2>4. i \in Int /\ h \in Int
    BY <2>1, <2>2 DEF Batch
  <2>5. i + 1 = h + 1
    BY <1>1, <2>1, <2>2 DEF Row
  <2>6. i = h
    BY <2>4, <2>5
  <2>7. k = j /\ c = d
    BY <2>1, <2>2, <2>3, <2>6, NoLineTwice, SizeType DEF LoadTypes
  <2> QED
    BY <2>1, <2>2, <2>3, <2>6, <2>7
<1>2. ASSUME NEW l \in DOMAIN files, NEW i \in DOMAIN files[l].lines,
             l < Len(files) \/ lpc \notin {"insert", "failed"}
      PROVE  \E x \in table : x.load = l /\ x.line = i
  <2>1. files[l] \in Files
    BY ElementOfSeq, LenProperties DEF LoadTypes
  <2>2. i \in 1 .. Size(l) /\ Size(l) \in Nat
    BY <2>1, FilesAssumption, LenProperties DEF Size
  <2>3. i - 1 \in 0 .. Size(l) - 1
    BY <2>2
  <2>4. PICK k, c :
              /\ k \in Workers /\ c \in 0 .. BatchesPerThread(Size(l)) - 1
              /\ i - 1 \in Batch(Size(l), k, c)
    BY <2>2, <2>3, EveryLineOnce
  <2>5. Row(l, i - 1, k, c) \in table
    BY <1>2, <2>4 DEF IssuedAreIn, Issued
  <2>6. Row(l, i - 1, k, c).load = l /\ Row(l, i - 1, k, c).line = i
    BY <2>2 DEF Row
  <2> QED
    BY <2>5, <2>6
<1> QED
  BY <1>1, <1>2 DEF LinesAreInsertedOnce

\* What a load changes is a matter of the list of files and of the statements.
LEMMA SameTable ==
    ASSUME LoadInv, files' = files, table' = table, nextBatch' = nextBatch,
           lpc' \in Calls, lpc' # "failed" => lpc # "failed",
           lpc' \notin {"insert", "failed"} => lpc \notin {"insert", "failed"}
    PROVE  LoadInv'
BY DEF LoadInv, LoadTypes, RowsFromBatches, IssuedAreIn, Issued, Size, Row

LEMMA StepLoadInv ==
    ASSUME LoadInv, [LNext]_lvars
    PROVE  LoadInv'
<1> USE DEF LoadInv
<1>1. CASE InitializeSqlTable
  <2>1. PICK f \in Files : files' = <<f>>
    BY <1>1 DEF InitializeSqlTable
  <2>2. /\ table' = {} /\ lpc' = "insert" /\ nextBatch' = [k \in Workers |-> 0]
    BY <1>1 DEF InitializeSqlTable, StartLoad
  <2>3. LoadTypes'
    BY <2>1, <2>2 DEF LoadTypes, Calls
  <2>4. Len(f.lines) \in Nat /\ BatchesPerThread(Len(f.lines)) \in Int
    BY FilesAssumption, LenProperties, Sizes DEF BatchesPerThread
  <2>5. ASSUME NEW l \in DOMAIN files', NEW k \in Workers,
               NEW c \in 0 .. BatchesPerThread(Size(l)') - 1
        PROVE  ~ Issued(l, k, c)'
    <3>1. l = 1 /\ Len(files') = 1 /\ files'[l] = f
      BY <2>1
    <3>2. c \in Nat
      BY <2>4, <2>5, <3>1 DEF Size
    <3> QED
      BY <2>2, <3>1, <3>2 DEF Issued
  <2>6. IssuedAreIn'
    BY <2>5 DEF IssuedAreIn
  <2> QED
    BY <2>2, <2>3, <2>6 DEF RowsFromBatches
<1>2. CASE AddToSqlTable
  <2>1. PICK f \in Files : files' = Append(files, f)
    BY <1>2 DEF AddToSqlTable
  <2>2. /\ table' = table /\ lpc = "idle" /\ lpc' = "insert"
        /\ nextBatch' = [k \in Workers |-> 0]
    BY <1>2 DEF AddToSqlTable, StartLoad
  <2>3. /\ files' \in Seq(Files) /\ Len(files') = Len(files) + 1
        /\ DOMAIN files' = DOMAIN files \cup {Len(files')}
        /\ \A l \in DOMAIN files : l \in Nat /\ l < Len(files') /\ files'[l] = files[l]
    BY <2>1, AppendProperties, LenProperties DEF LoadTypes
  <2>4. \A l \in DOMAIN files : Size(l)' = Size(l)
    BY <2>3 DEF Size
  <2>5. LoadTypes'
    BY <2>2, <2>3 DEF LoadTypes, Calls
  <2>6. RowsFromBatches'
    BY <2>2, <2>3, <2>4 DEF RowsFromBatches, Row
  <2>7. ASSUME NEW l \in DOMAIN files', NEW k \in Workers,
               NEW c \in 0 .. BatchesPerThread(Size(l)') - 1, Issued(l, k, c)',
               NEW i \in Batch(Size(l)', k, c)
        PROVE  Row(l, i, k, c) \in table'
    <3>1. l \in DOMAIN files
      BY <2>2, <2>3, <2>7 DEF Issued
    <3> QED
      BY <2>2, <2>4, <2>7, <3>1 DEF IssuedAreIn, Issued
  <2>8. IssuedAreIn'
    BY <2>7 DEF IssuedAreIn, Row
  <2> QED
    BY <2>5, <2>6, <2>8
<1>3. ASSUME NEW k \in Workers, InsertBatch(k)
      PROVE  LoadInv'
  <2> DEFINE c == nextBatch[k]  n == Size(Len(files))
  <2>1. /\ files' = files /\ lpc' = lpc /\ lpc = "insert" /\ c < BatchesPerThread(Lines)
        /\ nextBatch' = [nextBatch EXCEPT ![k] = @ + 1]
        /\ table' = table \cup {[load |-> Len(files), line |-> i + 1, by |-> <<k, c>>] :
                                     i \in Batch(Lines, k, c)}
    BY <1>3 DEF InsertBatch
  <2>2. Lines = n /\ Len(files) \in DOMAIN files /\ Len(files) \in Nat
    BY <2>1, EmptySeq, LenProperties DEF Lines, Last, Size, LoadTypes
  <2>3. table' = table \cup {Row(Len(files), i, k, c) : i \in Batch(n, k, c)}
    BY <2>1, <2>2 DEF Row
  <2>4. LoadTypes' /\ c \in Nat
    BY <2>1 DEF LoadTypes
  <2>5. c \in 0 .. BatchesPerThread(n) - 1
    <3>1. n \in Nat /\ BatchesPerThread(n) \in Int
      BY <2>2, SizeType, Sizes DEF LoadTypes, BatchesPerThread
    <3> QED
      BY <2>1, <2>2, <2>4, <3>1
  <2>6. RowsFromBatches'
    <3> SUFFICES ASSUME NEW x \in table'
                 PROVE  \E l, j, d, i :
                            /\ l \in DOMAIN files' /\ j \in Workers
                            /\ d \in 0 .. BatchesPerThread(Size(l)') - 1
                            /\ i \in Batch(Size(l)', j, d) /\ x = Row(l, i, j, d)
      BY DEF RowsFromBatches, Row
    <3>1. CASE x \in table
      BY <2>1, <3>1 DEF RowsFromBatches, Size, Row
    <3>2. CASE x \notin table
      <4>1. PICK i \in Batch(n, k, c) : x = Row(Len(files), i, k, c)
        BY <2>3, <3>2
      <4> QED
        BY <2>1, <2>2, <2>5, <4>1 DEF Size, Row
    <3> QED
      BY <3>1, <3>2
  <2>7. ASSUME NEW l \in DOMAIN files, NEW j \in Workers,
               NEW d \in 0 .. BatchesPerThread(Size(l)) - 1, Issued(l, j, d)',
               NEW i \in Batch(Size(l), j, d)
        PROVE  Row(l, i, j, d) \in table'
    <3>1. CASE Issued(l, j, d)
      BY <2>3, <2>7, <3>1 DEF IssuedAreIn
    <3>2. CASE ~ Issued(l, j, d)
      <4>1. l = Len(files)
        BY <2>2, <3>2, SizeType DEF Issued, LoadTypes
      <4>2. BatchesPerThread(Size(l)) \in Int /\ d \in Int
        BY <2>7, SizeType, Sizes DEF LoadTypes, BatchesPerThread
      <4>3. j = k /\ d = c
        BY <2>1, <2>4, <2>7, <3>2, <4>1, <4>2 DEF Issued, LoadTypes
      <4> QED
        BY <2>3, <4>1, <4>3
    <3> QED
      BY <3>1, <3>2
  <2>8. IssuedAreIn'
    BY <2>1, <2>7 DEF IssuedAreIn, Size, Row
  <2> QED
    BY <2>4, <2>6, <2>8
<1>4. CASE InsertFails
  <2>1. /\ files' = files /\ table' = table /\ nextBatch' = nextBatch
        /\ lpc = "insert" /\ lpc' = "failed"
    BY <1>4 DEF InsertFails, loadVars
  <2> QED
    BY <2>1, SameTable DEF Calls
<1>5. CASE Loaded
  <2>1. /\ files' = files /\ table' = table /\ nextBatch' = nextBatch
        /\ lpc = "insert" /\ lpc' = "idle"
        /\ \A k \in Workers : nextBatch[k] >= BatchesPerThread(Lines)
    BY <1>5 DEF Loaded, loadVars
  <2>2. Lines = Size(Len(files)) /\ Len(files) \in DOMAIN files
    BY <2>1, EmptySeq, LenProperties DEF Lines, Last, Size, LoadTypes
  <2>3. LoadTypes' /\ RowsFromBatches'
    BY <2>1 DEF LoadTypes, RowsFromBatches, Size, Row, Calls
  <2>4. ASSUME NEW l \in DOMAIN files, NEW k \in Workers,
               NEW c \in 0 .. BatchesPerThread(Size(l)) - 1
        PROVE  Issued(l, k, c)
    <3>1. l \in Nat /\ l <= Len(files) /\ Len(files) \in Nat
      BY SizeType, LenProperties DEF LoadTypes
    <3>2. CASE l = Len(files)
      <4>1. nextBatch[k] >= BatchesPerThread(Size(l)) /\ nextBatch[k] \in Nat
        BY <2>1, <2>2, <3>2 DEF LoadTypes
      <4>2. BatchesPerThread(Size(l)) \in Int
        BY SizeType, Sizes DEF LoadTypes, BatchesPerThread
      <4> QED
        BY <4>1, <4>2 DEF Issued
    <3> QED
      BY <3>1, <3>2 DEF Issued
  <2>5. IssuedAreIn'
    BY <2>1, <2>4 DEF IssuedAreIn, Size, Row
  <2> QED
    BY <2>3, <2>5
<1>6. CASE \/ AddToTree \/ DeterminePrefixes1 \/ Launch \/ Built \/ Forget
           \/ \E k \in Workers : BuildShare(k)
  <2>1. /\ files' = files /\ table' = table /\ nextBatch' = nextBatch
        /\ {lpc, lpc'} \subseteq {"idle", "prefixes", "build", "built"}
    BY <1>6 DEF AddToTree, DeterminePrefixes1, Launch, Built, Forget, BuildShare, loadVars
  <2> QED
    BY <2>1, SameTable DEF Calls
<1>7. CASE UNCHANGED lvars
  BY <1>7, SameTable DEF lvars, loadVars, LoadTypes
<1> QED
  BY <1>1, <1>2, <1>3, <1>4, <1>5, <1>6, <1>7 DEF LNext

\* Whatever the file, the limits, the order of the goroutines and the
\* failures: no line is inserted twice, and a load that returns has inserted
\* all of them (AddToGivenSqlTable, CreateAndWriteSqlTable).
THEOREM LoadedOnce == LSpec => []LinesAreInsertedOnce
<1>1. LInit => LoadInv
  BY DEF LInit, LoadInv, LoadTypes, RowsFromBatches, IssuedAreIn, Calls
<1>2. LoadInv /\ [LNext]_lvars => LoadInv'
  BY StepLoadInv
<1> QED
  BY <1>1, <1>2, InsertedOnce, PTL DEF LSpec


-----------------------------------------------------------------------------
(* The tree: what determinePrefixes is called with *)

\* The lines of every file fit the columns of the table.
SameColumns == \A l \in DOMAIN files : files[l].columns = files[1].columns

TableInv == SameColumns /\ IsFiniteSet(table)

Building == lpc \in {"prefixes", "build", "built"}

\* The columns are those of the table, their values those in it.
ColumnsInv ==
    Building =>
        /\ Len(uniques) = files[1].columns
        /\ \A c \in 1 .. Len(uniques) : uniques[c] \in SetToSeqs(ValuesOf(c, range))

\* What determinePrefixes maintains; its result is forgotten.
PrefixInv ==
    IF Building
    THEN PrefixTypes /\ SlicesInv /\ ArraysInv /\ PathInv /\ Distinct /\ EntriesInv
    ELSE result = <<>>

\* The sum trees are those of the shares done.
Tree(n) == [at |-> n, rows |-> RowsOf(n)]

FiledInv ==
    Building =>
        /\ built \subseteq Workers
        /\ lpc = "prefixes" => built = {}
        /\ lpc # "prefixes" => stack = <<>>
        /\ lpc = "built" => built = Workers
        /\ filed = {Tree(n + 1) : n \in {m \in UNION {Share(Len(result), k) : k \in built} :
                                             RowsOf(m + 1) # {}}}

BuildInv == TableInv /\ ColumnsInv /\ PrefixInv /\ FiledInv

\* A row holds a value of each column of the table.
LEMMA RowLine ==
    ASSUME LoadInv, SameColumns, NEW x \in table
    PROVE  /\ files[1].columns \in Nat \ {0}
           /\ Line(x) \in Seq(Nat) /\ Len(Line(x)) = files[1].columns
           /\ DOMAIN Line(x) = 1 .. files[1].columns
           /\ \A c \in 1 .. files[1].columns : Line(x)[c] \in Nat
<1>1. PICK l, k, c, i :
            /\ l \in DOMAIN files /\ k \in Workers
            /\ c \in 0 .. BatchesPerThread(Size(l)) - 1
            /\ i \in Batch(Size(l), k, c) /\ x = Row(l, i, k, c)
  BY DEF LoadInv, RowsFromBatches
<1>2. Size(l) \in Nat /\ files[l] \in Files
  BY <1>1, SizeType, ElementOfSeq, LenProperties DEF LoadInv, LoadTypes
<1>3. Size(l) # 0 /\ k \in Nat /\ c \in Nat /\ i \in Int
  <2>1. Size(l) # 0
    BY <1>1 DEF BatchesPerThread
  <2>2. BatchesPerThread(Size(l)) \in Nat
    BY <1>2, <2>1, Sizes
  <2> QED
    BY <1>1, <2>1, <2>2, LimitsAssumption DEF Workers, Batch
<1>4. i >= 0 /\ i < Size(l)
  <2> DEFINE n == Size(l)  p == EntriesPerThread(n)  b == EntriesPerBatch(n)
  <2>1. p \in Nat /\ b \in Nat
    BY <1>2, <1>3, Sizes
  <2>2. k * p + c * b <= i /\ i < n
    BY <1>1, <1>2, <1>3, BatchBounds
  <2> HIDE DEF p, b, n
  <2>3. k * p \in Nat /\ c * b \in Nat
    BY <1>3, <2>1
  <2> QED
    BY <1>3, <2>2, <2>3 DEF n
<1>5. x.load = l /\ x.line = i + 1
  BY <1>1 DEF Row
<1>6. Line(x) = files[l].lines[i + 1] /\ i + 1 \in DOMAIN files[l].lines
  <2>1. files[l].lines \in Seq(Seq(Nat))
    BY <1>2, FilesAssumption
  <2> QED
    BY <1>2, <1>3, <1>4, <1>5, <2>1, LenProperties DEF Line, Size
<1>7. /\ files[l].lines \in Seq(Seq(Nat)) /\ files[l].columns \in Nat \ {0}
      /\ Len(files[l].lines[i + 1]) = files[l].columns
  BY <1>2, <1>6, FilesAssumption
<1>8. Line(x) \in Seq(Nat)
  BY <1>6, <1>7, ElementOfSeq, LenProperties
<1>9. Len(Line(x)) = files[1].columns /\ files[1].columns \in Nat \ {0}
  BY <1>1, <1>6, <1>7 DEF SameColumns
<1> QED
  BY <1>8, <1>9, LenProperties, ElementOfSeq

\* The values of a column are numbers, and finitely many.
LEMMA ColumnValues ==
    ASSUME LoadInv, TableInv, NEW c \in 1 .. files[1].columns, NEW rg
    PROVE  /\ ValuesOf(c, rg) \subseteq Nat
           /\ IsFiniteSet(ValuesOf(c, rg)) /\ Cardinality(ValuesOf(c, rg)) \in Nat
<1> DEFINE V == {Line(x)[c] : x \in table}
<1>1. V \subseteq Nat
  BY RowLine DEF TableInv
<1>2. IsFiniteSet(V)
  <2> DEFINE f == [x \in table |-> Line(x)[c]]
  <2>1. f \in Surjection(table, V)
    BY DEF Surjection
  <2>2. IsFiniteSet(table)
    BY DEF TableInv
  <2> HIDE DEF f, V
  <2> QED
    BY <2>1, <2>2, FS_Surjection
<1>3. ValuesOf(c, rg) \in SUBSET V
  BY DEF ValuesOf
<1> HIDE DEF V
<1>4. IsFiniteSet(ValuesOf(c, rg))
  BY <1>2, <1>3, FS_Subset
<1> QED
  BY <1>1, <1>3, <1>4, FS_CardinalityType

\* addAllUniques lists each value of a column once.
LEMMA ListsValues ==
    ASSUME NEW S, S \subseteq Nat, IsFiniteSet(S), NEW s \in SetToSeqs(S)
    PROVE  /\ s \in Seq(Nat) /\ \A i \in 1 .. Len(s) : s[i] \in S
           /\ \A v \in S : \E i \in 1 .. Len(s) : s[i] = v
           /\ \A i, j \in 1 .. Len(s) : s[i] = s[j] => i = j
<1> DEFINE D == 1 .. Cardinality(S)
<1>1. Cardinality(S) \in Nat
  BY FS_CardinalityType
<1>2. IsFiniteSet(D) /\ Cardinality(D) = Cardinality(S)
  BY <1>1, FS_Interval
<1>3. s \in [D -> S] /\ \A i, j \in D : i # j => s[i] # s[j]
  BY DEF SetToSeqs
<1>4. s \in [D -> Nat]
  BY <1>3
<1>5. s \in Seq(Nat) /\ Len(s) = Cardinality(S)
  BY <1>1, <1>4, SeqDef, LenProperties
<1>6. s \in Injection(D, S)
  BY <1>3 DEF Injection, IsInjective
<1>7. s \in Surjection(D, S)
  <2> HIDE DEF D
  <2> QED
    BY <1>2, <1>6, FS_Injection
<1> QED
  BY <1>3, <1>5, <1>7 DEF Surjection


-----------------------------------------------------------------------------
(* The tree: every step *)

LEMMA StepTable ==
    ASSUME LoadInv, TableInv, [LNext]_lvars
    PROVE  TableInv'
<1>1. CASE InitializeSqlTable
  <2>1. PICK f \in Files : files' = <<f>>
    BY <1>1 DEF InitializeSqlTable
  <2>2. table' = {}
    BY <1>1 DEF InitializeSqlTable
  <2> QED
    BY <2>1, <2>2, FS_EmptySet DEF TableInv, SameColumns
<1>2. CASE AddToSqlTable
  <2>1. PICK f \in Files : files' = Append(files, f) /\ f.columns = files[1].columns
    BY <1>2 DEF AddToSqlTable
  <2>2. table' = table /\ files # <<>> /\ files \in Seq(Files)
    BY <1>2 DEF AddToSqlTable, LoadInv, LoadTypes
  <2>3. /\ \A l \in DOMAIN files' : l \in DOMAIN files \/ files'[l] = f
        /\ \A l \in DOMAIN files : files'[l] = files[l]
        /\ 1 \in DOMAIN files
    <3>1. Len(files) \in Nat \ {0} /\ DOMAIN files = 1 .. Len(files)
      BY <2>2, EmptySeq, LenProperties
    <3>2. /\ files' \in Seq(Files) /\ Len(files') = Len(files) + 1
          /\ \A l \in 1 .. Len(files) : files'[l] = files[l]
          /\ files'[Len(files) + 1] = f
      BY <2>1, <2>2, AppendProperties
    <3> QED
      BY <3>1, <3>2, LenProperties
  <2> QED
    BY <2>1, <2>2, <2>3 DEF TableInv, SameColumns
<1>3. ASSUME NEW k \in Workers, InsertBatch(k)
      PROVE  TableInv'
  <2> DEFINE c == nextBatch[k]
             B == Batch(Lines, k, c)
             new(i) == [load |-> Len(files), line |-> i + 1, by |-> <<k, c>>]
             N == {new(i) : i \in B}
  <2>1. /\ files' = files /\ lpc = "insert" /\ c < BatchesPerThread(Lines)
        /\ table' = table \cup N
    BY <1>3 DEF InsertBatch
  <2>2. Lines = Size(Len(files)) /\ Len(files) \in DOMAIN files
    BY <2>1, EmptySeq, LenProperties DEF Lines, Last, Size, LoadInv, LoadTypes
  <2>3. Lines \in Nat \ {0} /\ k \in Nat /\ c \in Nat
    <3>1. Lines \in Nat /\ c \in Nat
      BY <2>2, SizeType DEF LoadInv, LoadTypes
    <3>2. Lines # 0
      BY <2>1, <3>1 DEF BatchesPerThread
    <3> QED
      BY <3>1, <3>2, LimitsAssumption DEF Workers
  <2>4. IsFiniteSet(B)
    <3> HIDE DEF B, c
    <3>1. B \in SUBSET (0 .. Lines - 1)
      <4> DEFINE p == EntriesPerThread(Lines)  b == EntriesPerBatch(Lines)
      <4>1. p \in Nat /\ b \in Nat
        BY <2>3, Sizes
      <4> SUFFICES ASSUME NEW i \in B
                   PROVE  i \in 0 .. Lines - 1
        OBVIOUS
      <4>2. i \in Int
        BY DEF B, Batch
      <4>3. k * p + c * b <= i /\ i < Lines
        BY <2>3, <4>2, BatchBounds DEF B
      <4> HIDE DEF p, b
      <4>4. k * p \in Nat /\ c * b \in Nat
        BY <2>3, <4>1
      <4> QED
        BY <2>3, <4>2, <4>3, <4>4
    <3>2. IsFiniteSet(0 .. Lines - 1)
      BY <2>3, FS_Interval
    <3> QED
      BY <3>1, <3>2, FS_Subset
  <2>5. IsFiniteSet(N)
    <3> DEFINE f == [i \in B |-> new(i)]
    <3>1. f \in Surjection(B, N)
      BY DEF Surjection
    <3> HIDE DEF f, N, B
    <3> QED
      BY <2>4, <3>1, FS_Surjection
  <2> HIDE DEF N
  <2>6. IsFiniteSet(table')
    BY <2>1, <2>5, FS_Union DEF TableInv
  <2> QED
    BY <2>1, <2>6 DEF TableInv, SameColumns
<1>4. ASSUME files' = files, table' = table
      PROVE  TableInv'
  BY <1>4 DEF TableInv, SameColumns
<1> QED
  BY <1>1, <1>2, <1>3, <1>4 DEF LNext, InsertFails, Loaded, AddToTree, DeterminePrefixes1,
     Launch, BuildShare, Built, Forget, loadVars, lvars

\* AddToTree calls determinePrefixes with the values in the table.
LEMMA CallTree ==
    ASSUME LoadInv, TableInv, AddToTree
    PROVE  ColumnsInv' /\ PrefixInv' /\ FiledInv'
<1> DEFINE k == files[1].columns
<1>1. files # <<>> /\ files' = files /\ table' = table /\ lpc' = "prefixes" /\ lpc = "idle"
  BY DEF AddToTree, loadVars, LoadInv, LoadTypes
<1>2. k \in Nat \ {0}
  <2>1. 1 \in DOMAIN files
    BY <1>1, EmptySeq, LenProperties DEF LoadInv, LoadTypes
  <2>2. files[1] \in Files
    BY <2>1, ElementOfSeq, LenProperties DEF LoadInv, LoadTypes
  <2> QED
    BY <2>2, FilesAssumption
<1>3. /\ DOMAIN uniques' = 1 .. k
      /\ uniques' = [c \in 1 .. k |-> uniques'[c]]
      /\ \A c \in 1 .. k : uniques'[c] \in SetToSeqs(ValuesOf(c, range'))
  <2> DEFINE O(rg) == [c \in 1 .. k |-> SetToSeqs(ValuesOf(c, rg))]
  <2>1. PICK rg \in TimeRanges :
            /\ uniques' \in {u \in [1 .. k -> UNION Range(O(rg))] :
                                 \A c \in 1 .. k : u[c] \in O(rg)[c]}
            /\ range' = rg
    BY DEF AddToTree
  <2>2. /\ uniques' \in [1 .. k -> UNION Range(O(rg))]
        /\ \A c \in 1 .. k : uniques'[c] \in O(rg)[c]
    BY <2>1
  <2>3. \A c \in 1 .. k : O(rg)[c] = SetToSeqs(ValuesOf(c, rg))
    OBVIOUS
  <2> HIDE DEF O
  <2> QED
    BY <2>1, <2>2, <2>3
<1>4. \A c \in 1 .. k :
          /\ uniques'[c] \in Seq(Nat)
          /\ \A i, j \in 1 .. Len(uniques'[c]) : uniques'[c][i] = uniques'[c][j] => i = j
  BY <1>3, ColumnValues, ListsValues
<1>5. uniques' \in Seq(Seq(Nat)) /\ Len(uniques') = k /\ uniques' # <<>>
  <2>1. uniques' \in [1 .. k -> Seq(Nat)]
    BY <1>3, <1>4
  <2>2. uniques' \in Seq(Seq(Nat)) /\ Len(uniques') = k
    BY <1>2, <2>1, SeqDef, LenProperties
  <2> QED
    BY <1>2, <2>2, EmptySeq
<1>6. ColumnsInv'
  <2>1. \A c : ValuesOf(c, range)' = ValuesOf(c, range')
    BY <1>1 DEF ValuesOf, Line
  <2> QED
    BY <1>1, <1>3, <1>5, <2>1 DEF ColumnsInv
<1>7. /\ arrays' = <<>> /\ result' = <<>> /\ stack' = <<Call(Slice(0, 0), <<>>)>>
      /\ built' = {} /\ filed' = {}
  BY DEF AddToTree
<1>8. (PrefixTypes /\ SlicesInv /\ ArraysInv /\ PathInv /\ EntriesInv)'
  <2>1. Begun'
    BY <1>5, <1>7 DEF Begun
  <2> QED
    BY <2>1, FirstCall, PTL
<1>9. Distinct'
  BY <1>3, <1>4 DEF Distinct
<1>10. PrefixInv'
  BY <1>1, <1>8, <1>9 DEF PrefixInv, Building
<1>11. FiledInv'
  BY <1>1, <1>7 DEF FiledInv, Building
<1> QED
  BY <1>6, <1>10, <1>11


LEMMA StepTree ==
    ASSUME LoadInv, BuildInv, \A f \in Files : f.columns <= 3, [LNext]_lvars
    PROVE  ColumnsInv' /\ PrefixInv' /\ FiledInv'
<1> USE DEF BuildInv
<1> DEFINE NotBuilding == {"idle", "insert", "failed"}
<1>1. CASE \/ InitializeSqlTable \/ AddToSqlTable \/ InsertFails \/ Loaded
           \/ \E k \in Workers : InsertBatch(k)
  <2>1. lpc \in NotBuilding /\ lpc' \in NotBuilding /\ result' = result
    BY <1>1 DEF InitializeSqlTable, AddToSqlTable, InsertFails, Loaded, InsertBatch, StartLoad, vars
  <2> QED
    BY <2>1 DEF ColumnsInv, PrefixInv, FiledInv, Building
<1>2. CASE AddToTree
  BY <1>2, CallTree
<1>3. ASSUME files' = files, table' = table, range' = range, uniques' = uniques,
             Building, Building'
      PROVE  ColumnsInv'
  BY <1>3 DEF ColumnsInv, ValuesOf, Line
<1>4. ASSUME Building, Building', [Next]_vars
      PROVE  PrefixInv'
  <2>1. PrefixTypes /\ SlicesInv /\ ArraysInv /\ PathInv /\ Distinct /\ EntriesInv
    BY <1>4 DEF PrefixInv
  <2>2. files # <<>> /\ Len(uniques) = files[1].columns
    BY <1>4 DEF ColumnsInv, Building, LoadInv, LoadTypes
  <2>3. 1 \in 1 .. Len(files)
    BY <2>2, EmptySeq, LenProperties DEF LoadInv, LoadTypes
  <2>4. files[1] \in Files
    BY <2>3, ElementOfSeq DEF LoadInv, LoadTypes
  <2>5. Len(uniques) <= 3
    BY <2>2, <2>4
  <2> QED
    BY <1>4, <2>1, <2>5, StepTypes, StepArrays, StepPath, StepEntries DEF PrefixInv
<1>5. CASE DeterminePrefixes1
  <2>1. /\ lpc = "prefixes" /\ lpc' = lpc /\ Next /\ files' = files /\ table' = table
        /\ range' = range /\ built' = built /\ filed' = filed
    BY <1>5 DEF DeterminePrefixes1, loadVars, buildVars
  <2>2. uniques' = uniques
    BY <2>1 DEF Next, NextTime, NextType, AddEntry, Return
  <2>3. FiledInv'
    BY <2>1 DEF FiledInv, Building
  <2> QED
    BY <1>3, <1>4, <2>1, <2>2, <2>3 DEF Building
<1>6. ASSUME UNCHANGED <<vars, files, table>>
      PROVE  \A n : RowsOf(n)' = RowsOf(n) /\ Tree(n)' = Tree(n)
  BY <1>6 DEF RowsOf, Tree, Line, vars
<1>7. CASE Launch \/ Built
  <2>1. /\ UNCHANGED <<vars, files, table, range, filed, built>>
        /\ \/ lpc = "prefixes" /\ lpc' = "build" /\ stack = <<>>
           \/ lpc = "build" /\ lpc' = "built" /\ built = Workers
    BY <1>7 DEF Launch, Built, loadVars, buildVars
  <2>2. uniques' = uniques /\ stack' = stack /\ result' = result
    BY <2>1 DEF vars
  <2>3. FiledInv'
    BY <1>6, <2>1, <2>2 DEF FiledInv, Building
  <2> QED
    BY <1>3, <1>4, <2>1, <2>2, <2>3 DEF Building
<1>8. ASSUME NEW k \in Workers, BuildShare(k)
      PROVE  ColumnsInv' /\ PrefixInv' /\ FiledInv'
  <2> DEFINE Trees(K) == {Tree(n + 1) : n \in {m \in UNION {Share(Len(result), w) : w \in K} :
                                                   RowsOf(m + 1) # {}}}
  <2>1. /\ UNCHANGED <<vars, files, table, range>> /\ lpc = "build" /\ lpc' = lpc
        /\ built' = built \cup {k} /\ filed' = filed \cup Trees({k})
    BY <1>8 DEF BuildShare, loadVars, Tree
  <2>2. uniques' = uniques /\ stack' = stack /\ result' = result
    BY <2>1 DEF vars
  <2>3. FiledInv'
    <3>1. built \subseteq Workers /\ filed = Trees(built) /\ stack = <<>>
      BY <2>1 DEF FiledInv, Building
    <3>2. Trees(built \cup {k}) = Trees(built) \cup Trees({k})
      OBVIOUS
    <3>3. filed' = Trees(built')
      BY <2>1, <3>1, <3>2
    <3>4. filed' = {Tree(n + 1)' : n \in {m \in UNION {Share(Len(result'), w) : w \in built'} :
                                             RowsOf(m + 1)' # {}}}
      BY <1>6, <2>1, <2>2, <3>3
    <3> QED
      BY <2>1, <2>2, <3>1, <3>4 DEF FiledInv
  <2> QED
    BY <1>3, <1>4, <2>1, <2>2, <2>3 DEF Building
<1>9. CASE Forget
  BY <1>9 DEF Forget, ColumnsInv, PrefixInv, FiledInv, Building
<1>10. CASE UNCHANGED lvars
  <2>1. /\ UNCHANGED <<vars, files, table, range, filed, built>>
        /\ lpc' = lpc /\ uniques' = uniques /\ result' = result /\ stack' = stack
    BY <1>10 DEF lvars, loadVars, buildVars, vars
  <2>2. CASE Building
    <3>1. FiledInv'
      BY <1>6, <2>1, <2>2 DEF FiledInv, Building
    <3> QED
      BY <1>3, <1>4, <2>1, <2>2, <3>1 DEF Building
  <2>3. CASE ~ Building
    BY <2>1, <2>3 DEF ColumnsInv, PrefixInv, FiledInv, Building
  <2> QED
    BY <2>2, <2>3
<1> QED
  BY <1>1, <1>2, <1>5, <1>7, <1>8, <1>9, <1>10 DEF LNext

-----------------------------------------------------------------------------
(* The tree: what it says of the rows *)

\* Every entry belongs to a goroutine's share.
LEMMA SharesCover ==
    ASSUME NEW n \in Nat, NEW i \in 1 .. n
    PROVE  \E k \in Workers : i - 1 \in Share(n, k)
<1> DEFINE l == CeilDiv(n, MaxThreads)
           h == i - 1
           k == h \div l
<1>1. n \in Nat \ {0} /\ MaxThreads \in Nat \ {0} /\ h \in Nat /\ h < n
  BY LimitsAssumption
<1>2. l \in Nat \ {0} /\ n <= l * MaxThreads
  BY <1>1, CeilDivBounds
<1> HIDE DEF l, h
<1>3. k \in Nat /\ l * k <= h /\ h < l * k + l
  BY <1>1, <1>2, DivBounds
<1> HIDE DEF k
<1>4. k < MaxThreads
  <2>1. ASSUME MaxThreads <= k PROVE FALSE
    <3>1. l * MaxThreads <= l * k
      BY <1>1, <1>2, <1>3, <2>1
    <3>2. l * MaxThreads \in Nat /\ l * k \in Nat
      BY <1>1, <1>2, <1>3
    <3> QED
      BY <1>1, <1>2, <1>3, <3>1, <3>2
  <2> QED
    BY <1>1, <1>3, <2>1
<1>5. k \in Workers
  BY <1>1, <1>3, <1>4 DEF Workers
<1>6. h \in Share(n, k)
  <2> DEFINE lo == k * l  hi == (k + 1) * l
  <2>1. lo \in Nat /\ hi \in Nat /\ lo <= h /\ h < hi
    BY <1>1, <1>2, <1>3
  <2>2. Share(n, k) = lo .. Least(hi, n) - 1
    BY DEF Share, l
  <2> HIDE DEF lo, hi
  <2> QED
    BY <1>1, <2>1, <2>2 DEF Least
<1> QED
  BY <1>5, <1>6 DEF h


\* No goroutine has a share of more than the entries.
LEMMA SharesInside ==
    ASSUME NEW n \in Nat, NEW k \in Workers, NEW m \in Share(n, k)
    PROVE  m + 1 \in 1 .. n
<1> DEFINE l == CeilDiv(n, MaxThreads)
           lo == k * l  hi == (k + 1) * l
<1>1. m \in lo .. Least(hi, n) - 1
  BY DEF Share
<1>2. k \in Nat /\ MaxThreads \in Nat \ {0}
  BY LimitsAssumption DEF Workers
<1>3. l \in Nat
  <2>1. CASE n # 0
    BY <1>2, <2>1, CeilDivBounds
  <2>2. CASE n = 0
    <3>1. MaxThreads - 1 \in Nat /\ n + MaxThreads - 1 = MaxThreads - 1
      BY <1>2, <2>2
    <3> QED
      BY <1>2, <3>1, DivBounds DEF CeilDiv
  <2> QED
    BY <2>1, <2>2
<1> HIDE DEF l
<1>4. lo \in Nat /\ hi \in Nat
  BY <1>2, <1>3
<1> HIDE DEF lo, hi
<1>5. m \in Nat /\ m < n
  BY <1>1, <1>4 DEF Least
<1> QED
  BY <1>5

\* The places of a row's values, if all are in the ranges of AddToTree.
LEMMA PlaceOfRow ==
    ASSUME LoadInv, BuildInv, Building, NEW x \in table,
           \A c \in 1 .. Len(uniques) : Line(x)[c] \in RangeOf(c, range)
    PROVE  \E J \in Places : Combination(J) = Line(x)
<1> USE DEF BuildInv
<1>1. /\ DOMAIN uniques = 1 .. Len(uniques) /\ Len(uniques) = files[1].columns
      /\ Line(x) \in Seq(Nat) /\ DOMAIN Line(x) = 1 .. Len(uniques)
  BY RowLine, Positions DEF TableInv, ColumnsInv, PrefixInv
<1>2. ASSUME NEW c \in 1 .. Len(uniques)
      PROVE  \E i \in 1 .. Len(uniques[c]) : uniques[c][i] = Line(x)[c]
  <2>1. Line(x)[c] \in ValuesOf(c, range)
    BY DEF ValuesOf
  <2>2. uniques[c] \in SetToSeqs(ValuesOf(c, range))
    BY DEF ColumnsInv
  <2> QED
    BY <1>1, <2>1, <2>2, ColumnValues, ListsValues, SMTT(30)
<1> DEFINE J == [c \in 1 .. Len(uniques) |->
                    CHOOSE i \in 1 .. Len(uniques[c]) : uniques[c][i] = Line(x)[c]]
<1>3. \A c \in 1 .. Len(uniques) : /\ J[c] \in 1 .. Len(uniques[c])
                                   /\ uniques[c][J[c]] = Line(x)[c]
  BY <1>2
<1>4. \A c \in 1 .. Len(uniques) : J[c] \in Nat
  <2>1. \A c \in 1 .. Len(uniques) : Len(uniques[c]) \in Nat
    BY Positions DEF PrefixInv
  <2> HIDE DEF J
  <2> QED
    BY <1>3, <2>1
<1>5. DOMAIN J = 1 .. Len(uniques) /\ J \in [1 .. Len(uniques) -> Nat]
  BY <1>4
<1> HIDE DEF J
<1>6. J \in Places
  BY <1>1, <1>3, <1>5 DEF Places
<1>7. Line(x) = [c \in 1 .. Len(uniques) |-> Line(x)[c]]
  BY <1>1
<1>8. Combination(J) = Line(x)
  BY <1>1, <1>3, <1>7 DEF Combination
<1> QED
  BY <1>6, <1>8

\* The values that an entry is about are in the ranges of AddToTree.
LEMMA EntryInRange ==
    ASSUME LoadInv, BuildInv, Building, NEW J \in Places, NEW c \in 1 .. Len(uniques)
    PROVE  Combination(J)[c] \in RangeOf(c, range)
<1> USE DEF BuildInv
<1>1. DOMAIN uniques = 1 .. Len(uniques) /\ Len(uniques) = files[1].columns
  BY Positions DEF ColumnsInv, PrefixInv
<1>2. uniques[c] \in SetToSeqs(ValuesOf(c, range))
  BY DEF ColumnsInv
<1>3. J[c] \in 1 .. Len(uniques[c])
  BY <1>1 DEF Places
<1>4. uniques[c][J[c]] \in ValuesOf(c, range)
  BY <1>1, <1>2, <1>3, ColumnValues, ListsValues
<1> QED
  BY <1>1, <1>4 DEF Combination, ValuesOf

\* The invariant says what the property does.
LEMMA Filed == LoadInv /\ BuildInv => EveryRowIsFiled
<1> SUFFICES ASSUME LoadInv, BuildInv, lpc = "built", NEW x \in table
             PROVE  LET holding == {e \in filed : x \in e.rows}
                    IN  IF /\ Line(x)[1] \in range[1] .. range[2] - 1
                           /\ \A c \in 2 .. Len(Line(x)) : Line(x)[c] < MaxInt32
                        THEN /\ Cardinality(holding) = 1
                             /\ \A e \in holding : Contents(result[e.at].prefix) = Line(x)
                        ELSE holding = {}
  BY DEF EveryRowIsFiled
<1> DEFINE N == Len(result)
           C == Len(uniques)
           holding == {e \in filed : x \in e.rows}
           InRanges == \A c \in 1 .. C : Line(x)[c] \in RangeOf(c, range)
<1>0. Building
  BY DEF Building
<1>1. PrefixTypes /\ ArraysInv /\ EntriesInv /\ stack = <<>> /\ built = Workers /\ N \in Nat
  BY <1>0, LenProperties DEF BuildInv, PrefixInv, FiledInv, PrefixTypes
<1>2. filed = {Tree(n + 1) : n \in {m \in UNION {Share(N, k) : k \in Workers} : RowsOf(m + 1) # {}}}
  BY <1>0, <1>1 DEF BuildInv, FiledInv
<1>3. \A J : Past(J)
  BY <1>1 DEF Past
<1>4. /\ C = files[1].columns /\ C \in Nat \ {0} /\ Len(Line(x)) = C
      /\ \A c \in 1 .. C : Line(x)[c] \in Nat
  BY <1>0, RowLine DEF BuildInv, TableInv, ColumnsInv
<1>5. InRanges <=> /\ Line(x)[1] \in range[1] .. range[2] - 1
                   /\ \A c \in 2 .. Len(Line(x)) : Line(x)[c] < MaxInt32
  <2> HIDE DEF C
  <2>0. MaxInt32 \in Nat
    BY SMT DEF MaxInt32
  <2>1. \A c \in 2 .. C : /\ c \in 1 .. C /\ c # 1
                          /\ Line(x)[c] < MaxInt32 <=> Line(x)[c] \in 0 .. MaxInt32 - 1
    <3> TAKE c \in 2 .. C
    <3>1. c \in 1 .. C /\ c # 1
      BY <1>4
    <3>2. Line(x)[c] \in Nat
      BY <1>4, <3>1
    <3> QED
      BY <2>0, <3>1, <3>2
  <2>2. 1 \in 1 .. C /\ \A c \in 1 .. C : c = 1 \/ c \in 2 .. C
    BY <1>4
  <2> QED
    BY <1>4, <2>1, <2>2 DEF RangeOf
<1>6. \A e \in holding : \E n \in 1 .. N : e = Tree(n) /\ result[n].vals = Line(x)
  <2> SUFFICES ASSUME NEW e \in filed, x \in e.rows
               PROVE  \E n \in 1 .. N : e = Tree(n) /\ result[n].vals = Line(x)
    OBVIOUS
  <2>1. PICK k \in Workers : \E m \in Share(N, k) : e = Tree(m + 1)
    BY <1>2
  <2>2. PICK m \in Share(N, k) : e = Tree(m + 1)
    BY <2>1
  <2>3. m + 1 \in 1 .. N
    BY <1>1, SharesInside
  <2>4. x \in RowsOf(m + 1)
    BY <2>2 DEF Tree
  <2> QED
    BY <2>2, <2>3, <2>4 DEF RowsOf
<1>7. \A n \in 1 .. N : result[n].vals = Line(x) => Tree(n) \in holding
  <2> TAKE n \in 1 .. N
  <2> HAVE result[n].vals = Line(x)
  <2>1. x \in RowsOf(n)
    BY DEF RowsOf
  <2>2. PICK k \in Workers : n - 1 \in Share(N, k)
    BY <1>1, SharesCover
  <2>3. (n - 1) + 1 = n
    BY <1>1
  <2> HIDE DEF N
  <2>4. n - 1 \in {m \in UNION {Share(N, w) : w \in Workers} : RowsOf(m + 1) # {}}
    BY <2>1, <2>2, <2>3
  <2>5. Tree(n) \in filed
    BY <1>2, <2>3, <2>4
  <2> QED
    BY <2>1, <2>5 DEF Tree
<1>8. /\ \A n \in 1 .. N : \E J \in Places : result[n].vals = Combination(J)
      /\ \A J \in Places : \E n \in 1 .. N : result[n].vals = Combination(J)
      /\ \A m, n \in 1 .. N : result[m].vals = result[n].vals => m = n
  BY <1>1, <1>3 DEF EntriesInv
<1>9. CASE InRanges
  <2>1. PICK J \in Places : Combination(J) = Line(x)
    BY <1>0, <1>9, PlaceOfRow
  <2>2. PICK n \in 1 .. N : result[n].vals = Line(x)
    BY <1>8, <2>1
  <2>3. holding = {Tree(n)}
    <3> HIDE DEF holding
    <3>1. Tree(n) \in holding
      BY <1>7, <2>2
    <3>2. \A e \in holding : e = Tree(n)
      BY <1>6, <1>8, <2>2
    <3> QED
      BY <3>1, <3>2
  <2>4. Contents(result[n].prefix) = Line(x)
    BY <1>1, <2>2 DEF ArraysInv, Spelled
  <2> HIDE DEF holding
  <2>5. Cardinality(holding) = 1
    BY <2>3, FS_Singleton
  <2>6. \A e \in holding : Contents(result[e.at].prefix) = Line(x)
    BY <2>3, <2>4 DEF Tree
  <2> QED
    BY <1>5, <1>9, <2>5, <2>6 DEF holding
<1>10. CASE ~ InRanges
  <2>1. \A n \in 1 .. N : result[n].vals # Line(x)
    BY <1>0, <1>8, <1>10, EntryInRange
  <2>2. holding = {}
    BY <1>6, <2>1
  <2> HIDE DEF holding, InRanges
  <2> QED
    BY <1>5, <1>10, <2>2 DEF holding
<1> QED
  BY <1>9, <1>10

LEMMA InitTree == LInit => LoadInv /\ BuildInv
<1> SUFFICES ASSUME LInit PROVE LoadInv /\ BuildInv
  OBVIOUS
<1>1. LoadInv
  BY DEF LInit, LoadInv, LoadTypes, RowsFromBatches, IssuedAreIn, Calls
<1>2. BuildInv
  BY FS_EmptySet DEF LInit, BuildInv, TableInv, SameColumns, ColumnsInv, PrefixInv, FiledInv, Building
<1> QED
  BY <1>1, <1>2

LEMMA StepBuildInv ==
    ASSUME LoadInv, BuildInv, \A f \in Files : f.columns <= 3, [LNext]_lvars
    PROVE  LoadInv' /\ BuildInv'
BY StepLoadInv, StepTable, StepTree DEF BuildInv

\* However a table with up to two type columns has come to be, and whatever
\* the order in which the goroutines of AddToTree build: each row with values
\* in the ranges is in exactly one sum tree, filed under the row's own time and
\* types, and no other row is in any (AddToTree, determinePrefixes).
THEOREM RowsAreFiled ==
    ASSUME \A f \in Files : f.columns <= 3
    PROVE  LSpec => []EveryRowIsFiled
<1>1. LoadInv /\ BuildInv /\ [LNext]_lvars => LoadInv' /\ BuildInv'
  BY StepBuildInv
<1> QED
  BY <1>1, InitTree, Filed, PTL DEF LSpec

\* The prefixes of a tree go on to spell their entries while it is built
\* (determinePrefixes, AddToTree).
THEOREM LoadedPrefixesSpelled ==
    ASSUME \A f \in Files : f.columns <= 3
    PROVE  LSpec => []PrefixesSpellTheirEntries
<1>1. LoadInv /\ BuildInv /\ [LNext]_lvars => LoadInv' /\ BuildInv'
  BY StepBuildInv
<1>2. BuildInv => PrefixesSpellTheirEntries
  <2> SUFFICES ASSUME BuildInv
               PROVE  PrefixesSpellTheirEntries
    OBVIOUS
  <2>1. CASE Building
    <3>1. PrefixTypes /\ ArraysInv
      BY <2>1 DEF BuildInv, PrefixInv
    <3>2. DOMAIN result = 1 .. Len(result)
      BY <3>1, LenProperties DEF PrefixTypes
    <3> QED
      BY <3>1, <3>2 DEF ArraysInv, Spelled, PrefixesSpellTheirEntries
  <2>2. CASE ~ Building
    BY <2>2 DEF BuildInv, PrefixInv, PrefixesSpellTheirEntries
  <2> QED
    BY <2>1, <2>2
<1> QED
  BY <1>1, <1>2, InitTree, PTL DEF LSpec

=============================================================================
