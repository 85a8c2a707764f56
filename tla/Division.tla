------------------------------ MODULE Division ------------------------------
(***************************************************************************)
(* How the server divides work (server/server.go): the lines of a file     *)
(* among MAX_THREADS goroutines and then into INSERT statements            *)
(* (AddToGivenSqlTable), and the prefixes of an epoch among the goroutines *)
(* of AddToTree.  Lines and prefixes are counted from 0, as in the code.   *)
(* The quotients are those of small integers, so that the rounding of the  *)
(* code's floating-point division is exact.                                *)
(***************************************************************************)
EXTENDS Integers, FiniteSets

CONSTANTS MaxThreads,           \* MAX_THREADS
          MaxEntriesPerInsert   \* MAX_ENTRIES_PER_INSERT

ASSUME LimitsAssumption ==
    MaxThreads \in Nat \ {0} /\ MaxEntriesPerInsert \in Nat \ {0}

Workers == 0 .. MaxThreads - 1

CeilDiv(a, b) == (a + b - 1) \div b
CeilSqrt(a)   == Cardinality({r \in 0 .. a : r * r < a})
Least(a, b)   == IF a < b THEN a ELSE b

-----------------------------------------------------------------------------
(* AddToGivenSqlTable, for a file of n lines *)

EntriesPerThread(n) == CeilDiv(n, MaxThreads)

\* The square root of the share; if that exceeds the maximum, the number of
\* statements of the maximal size that the share would need.
EntriesPerBatch(n) ==
    LET root == CeilSqrt(EntriesPerThread(n))
    IN  IF root > MaxEntriesPerInsert
        THEN CeilDiv(EntriesPerThread(n), MaxEntriesPerInsert)
        ELSE root

\* A file without lines makes this the integer nearest to no number, which
\* is below 1.
BatchesPerThread(n) ==
    IF n = 0 THEN 0 ELSE CeilDiv(EntriesPerThread(n), EntriesPerBatch(n))

\* Mutant of Batch: it is not cut at the end of the share.
BatchUncut(n, k, c) ==
    LET first == k * EntriesPerThread(n) + c * EntriesPerBatch(n)
    IN  first .. Least(first + EntriesPerBatch(n), n) - 1

\* The lines of statement c of goroutine k.
Batch(n, k, c) ==
    k * EntriesPerThread(n) + c * EntriesPerBatch(n)
      .. Least(Least(k * EntriesPerThread(n) + (c + 1) * EntriesPerBatch(n),
                     (k + 1) * EntriesPerThread(n)), n) - 1

-----------------------------------------------------------------------------
(* AddToTree, for n prefixes *)

\* Mutant of Share: the size of a share is rounded down.
ShareRoundedDown(n, k) ==
    LET l == n \div MaxThreads
    IN  k * l .. Least((k + 1) * l, n) - 1

\* The prefixes of goroutine k.
Share(n, k) ==
    LET l == CeilDiv(n, MaxThreads)
    IN  k * l .. Least((k + 1) * l, n) - 1

=============================================================================
