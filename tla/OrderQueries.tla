---------------------------- MODULE OrderQueries ------------------------------
(***************************************************************************)
(* Sum, minimum, maximum and quantile queries (server.go, client.go), from *)
(* the point where the client holds the verified roots of the sum trees of *)
(* all prefixes in its range.  The server answers from the SQL table,      *)
(* prefix by prefix and without a transaction, while the operator changes  *)
(* the table.                                                              *)
(*                                                                         *)
(* A range proof for [lo, hi) is the value and seed it was made for:       *)
(* RangeProof shows that it verifies against a leaf if and only if these   *)
(* are the leaf's, and the value lies in the interval.                     *)
(***************************************************************************)
EXTENDS SumTree, FiniteSetsExt, SequencesExt

CONSTANTS
    Tables,      \* SQL tables the operator may have committed to
    NewRows,     \* rows the operator may insert
    Kinds,       \* queries [op, k, q], op "sum", "min", "max" or "quantile"
    Changes,     \* what the operator does meanwhile: "insert", "drop", "reload"
    MaxChanges,  \* bound on the number of changes
    BP_MAX

VARIABLES
    committed,   \* the table the sum trees were built from
    db,          \* the SQL table: rows [val, seed, user, time], in some order
    changes,     \* number of changes so far
    query,       \* the query under way, or NoQuery
    read,        \* the rows the server has read for it, prefix by prefix
    answer       \* what the client concludes from it

vars == <<committed, db, changes, query, read, answer>>

NoQuery == [op |-> "none", k |-> 0, q |-> 1]

\* An answer is complete if every prefix had rows when it was read.
Answer(status, result) ==
    [query |-> query, status |-> status, result |-> result,
     complete |-> \A k \in DOMAIN read : read[k] # <<>>]

NoAnswer  == [query |-> NoQuery, status |-> "none", result |-> <<>>, complete |-> FALSE]
Refused   == Answer("refused", <<>>)
Panic     == Answer("panic", <<>>)     \* of the server or of the client
Accepted(result) == Answer("accepted", result)

-----------------------------------------------------------------------------
(* The table *)

\* The rows of one prefix, sorted by value.  (sort.Slice keeps the order of
\* equal values in the short slices considered here.)
GetVals(table, p) ==
    LET rows == SelectSeq(table, LAMBDA r : r.time = p)
        Before(m, n) == rows[m].val < rows[n].val \/ (rows[m].val = rows[n].val /\ m < n)
        order == SetToSortSeq(DOMAIN rows, Before)
    IN  [n \in DOMAIN rows |-> rows[order[n]]]

\* The prefixes the client was given, and the roots of their trees.
QueryPrefixes == SetToSortSeq({r.time : r \in Range(committed)}, <)
TreeRoot(k) == RootHash(GetVals(committed, QueryPrefixes[k]))

Vals(rows) == [n \in DOMAIN rows |-> rows[n].val]

RECURSIVE SumOver(_)
SumOver(s) == IF s = <<>> THEN 0 ELSE Head(s) + SumOver(Tail(s))

-----------------------------------------------------------------------------
(* Verification by the client *)

VerifyLeafProof(row, proof, lo, hi) ==
    /\ proof.leaf.comms[1] = [v |-> row.val, s |-> row.seed]
    /\ lo <= row.val /\ row.val < hi

\* Mutant of VerifyInclusionProof: the root is not compared.
VerifyInclusionProofOnItsOwn(proof, root, sides) ==
    \A n \in DOMAIN proof.copath : proof.copath[n].isLeft \in sides

VerifyInclusionProof(proof, root, sides) ==
    /\ \A n \in DOMAIN proof.copath : proof.copath[n].isLeft \in sides
    /\ RebuildRootHash(proof) = root

-----------------------------------------------------------------------------
(* Sums and counts: only prefixes with a row in the table take part. *)

\* RequestSumAndCounts: the trees of the rows read, and the sums.
RequestSumAndCounts ==
    LET all == FlattenSeq(read)
    IN  [trees   |-> [k \in DOMAIN read |->
                        IF read[k] = <<>> THEN <<>> ELSE <<BuildMerkleCommitmentTree(read[k])>>],
         count   |-> Len(all),
         valSum  |-> SumOver(Vals(all)),
         seedSum |-> SumOver([n \in DOMAIN all |-> all[n].seed])]

SumAnswer ==
    LET sent == RequestSumAndCounts
        present == SelectSeq([k \in DOMAIN read |-> k], LAMBDA k : sent.trees[k] # <<>>)
        Tree(k) == sent.trees[k][1]
        RECURSIVE Total(_)
        Total(n) == IF n = 1 THEN Tree(present[1]).comms[1]
                    ELSE Add(Total(n - 1), Tree(present[n]).comms[1])
    IN  IF \E k \in Range(present) : Tree(k).hash # TreeRoot(k) THEN Refused
        ELSE IF present = <<>> THEN Accepted(<<-1, -1>>)
        ELSE IF Total(Len(present)) # [v |-> sent.valSum, s |-> sent.seedSum] THEN Refused
        ELSE Accepted(<<sent.valSum, sent.count>>)

-----------------------------------------------------------------------------
(* Minimum and maximum: the leaf at one end of each tree, proven not to be  *)
(* beyond the result, and one leaf proven to be the result.  The server     *)
(* takes that element of each slice of rows, which panics on an empty one.  *)

\* What the server sends: the leaf of each prefix, with its inclusion proof,
\* the result, and the first prefix that attains it.
Ends(locals, value, preferLeft) ==
    [locals |-> locals, value |-> value,
     arg    |-> Min({k \in DOMAIN read : locals[k].val = value}),
     proofs |-> [k \in DOMAIN read |->
                   GenerateMembershipProof(read[k], locals[k].val, preferLeft)]]

RequestMinAndProofs ==
    LET locals == [k \in DOMAIN read |-> Head(read[k])]
    IN  Ends(locals, Min({locals[k].val : k \in DOMAIN read}), TRUE)

RequestMaxAndProofs ==
    LET locals == [k \in DOMAIN read |-> Last(read[k])]
    IN  Ends(locals, Max({locals[k].val : k \in DOMAIN read}), FALSE)

\* The siblings of the leaf at one end are all on the other side.
EndsVerified(sent, lo, hi, sides) ==
    /\ \A k \in DOMAIN read : VerifyInclusionProof(sent.proofs[k], TreeRoot(k), sides)
    /\ VerifyLeafProof(sent.locals[sent.arg], sent.proofs[sent.arg], sent.value, sent.value + 1)
    /\ \A k \in DOMAIN read : VerifyLeafProof(sent.locals[k], sent.proofs[k], lo, hi)

MinAnswer ==
    LET sent == RequestMinAndProofs
    IN  IF \E k \in DOMAIN read : read[k] = <<>> THEN Panic
        ELSE IF EndsVerified(sent, sent.value, BP_MAX, {FALSE}) THEN Accepted(<<sent.value>>)
        ELSE Refused

MaxAnswer ==
    LET sent == RequestMaxAndProofs
    IN  IF \E k \in DOMAIN read : read[k] = <<>> THEN Panic
        ELSE IF EndsVerified(sent, 0, sent.value + 1, {TRUE}) THEN Accepted(<<sent.value>>)
        ELSE Refused

-----------------------------------------------------------------------------
(* Quantiles *)

\* Linear interpolation at position (mm - 1) * k / q, rounded down.  (The code
\* computes in floating point, which is exact when q is a power of two.)
QuantileOf(values, k, q) ==
    LET pos  == (Len(values) - 1) * k
        rest == pos % q
        at   == pos \div q + 1
    IN  IF rest = 0 THEN values[at]
        ELSE (values[at] * (q - rest) + values[at + 1] * rest) \div q

SortedVals(rows) == SortSeq(Vals(rows), <)

\* The quantile, and for each prefix the last leaf up to it and the first one
\* from it on, where they exist, with their inclusion proofs.
RequestQuantileAndProofs(k, q) ==
    LET quantile == QuantileOf(SortedVals(FlattenSeq(read)), k, q)
        Below(i) == {n \in DOMAIN read[i] : read[i][n].val <= quantile}
        Above(i) == {n \in DOMAIN read[i] : read[i][n].val >= quantile}
        Proven(i, row, preferLeft) ==
            [row |-> row, proof |-> GenerateMembershipProof(read[i], row.val, preferLeft)]
    IN  [quantile |-> quantile,
         left  |-> [i \in {i \in DOMAIN read : Below(i) # {}} |->
                      Proven(i, read[i][Max(Below(i))], FALSE)],
         right |-> [i \in {i \in DOMAIN read : Above(i) # {}} |->
                      Proven(i, read[i][Min(Above(i))], TRUE)]]

\* Inclusion and range proofs of one side.
SideVerified(side, lo, hi) ==
    \A i \in DOMAIN side :
        /\ VerifyInclusionProof(side[i].proof, TreeRoot(i), BOOLEAN)
        /\ VerifyLeafProof(side[i].row, side[i].proof, lo, hi)

\* A proof that does not exist arrives as an empty one, never as nil: it has no
\* nodes on either side, and one node in total.
QuantileAnswer(k, q) ==
    LET sent == RequestQuantileAndProofs(k, q)
        LeftCount(i)  == GetNumLeftNodes(sent.left[i].proof) + 1
        RightCount(i) == GetNumRightNodes(sent.right[i].proof) + 1
        AllCount(i)   == IF i \in DOMAIN sent.left
                         THEN GetTotalNumNodes(sent.left[i].proof) ELSE 1
        total == MapThenSumSet(AllCount, DOMAIN read)
    IN  IF FlattenSeq(read) = <<>> THEN Panic   \* the client indexes empty lists
        ELSE IF /\ SideVerified(sent.left, 0, sent.quantile + 1)
                /\ SideVerified(sent.right, sent.quantile, BP_MAX)
                /\ MapThenSumSet(LeftCount, DOMAIN sent.left) >= (total * k) \div q
                /\ MapThenSumSet(RightCount, DOMAIN sent.right) >= (total * k) \div q
        THEN Accepted(<<sent.quantile, total>>) ELSE Refused

-----------------------------------------------------------------------------
(* Steps *)

Init ==
    /\ committed \in Tables
    /\ db = committed
    /\ changes = 0
    /\ query = NoQuery /\ read = <<>> /\ answer = NoAnswer

\* AddToSqlTable, row by row; a file that is loaded once more brings its
\* rows a second time, the table having no key.
Insert ==
    /\ "insert" \in Changes /\ changes < MaxChanges
    /\ \E row \in NewRows : db' = Append(db, row)
    /\ changes' = changes + 1
    /\ UNCHANGED <<committed, query, read, answer>>

\* InitializeSqlTable, up to the insertion of the new rows.
DropTable ==
    /\ "drop" \in Changes /\ changes < MaxChanges
    /\ db' = <<>>
    /\ changes' = changes + 1
    /\ UNCHANGED <<committed, query, read, answer>>

\* InitializeSqlTable, with all of its insertions.
ReloadTable ==
    /\ "reload" \in Changes /\ changes < MaxChanges
    /\ db' \in Tables
    /\ changes' = changes + 1
    /\ UNCHANGED <<committed, query, read, answer>>

Ask ==
    /\ query = NoQuery
    /\ query' \in Kinds
    /\ answer' = NoAnswer
    /\ UNCHANGED <<committed, db, changes, read>>

\* Mutant of Read: the last prefix is read for every prefix.
ReadLast ==
    /\ query # NoQuery /\ Len(read) < Len(QueryPrefixes)
    /\ read' = Append(read, GetVals(db, Last(QueryPrefixes)))
    /\ UNCHANGED <<committed, db, changes, query, answer>>

\* getVals for the next prefix.
Read ==
    /\ query # NoQuery /\ Len(read) < Len(QueryPrefixes)
    /\ read' = Append(read, GetVals(db, QueryPrefixes[Len(read) + 1]))
    /\ UNCHANGED <<committed, db, changes, query, answer>>

\* The rest of the request, and its verification.
Verify ==
    /\ query # NoQuery /\ Len(read) = Len(QueryPrefixes)
    /\ answer' = CASE query.op = "sum"      -> SumAnswer
                   [] query.op = "min"      -> MinAnswer
                   [] query.op = "max"      -> MaxAnswer
                   [] query.op = "quantile" -> QuantileAnswer(query.k, query.q)
    /\ query' = NoQuery /\ read' = <<>>
    /\ UNCHANGED <<committed, db, changes>>

Next == Insert \/ DropTable \/ ReloadTable \/ Ask \/ Read \/ Verify

Spec == Init /\ [][Next]_vars

-----------------------------------------------------------------------------
(* Properties *)

Rows == NewRows \cup UNION {Range(t) : t \in Tables}

TypeOK ==
    /\ committed \in Tables
    /\ Range(db) \subseteq Rows
    /\ changes \in 0 .. MaxChanges
    /\ query \in Kinds \cup {NoQuery}
    /\ Len(read) <= Len(QueryPrefixes)
    /\ \A k \in DOMAIN read : \A n \in DOMAIN read[k] : read[k][n].time = QueryPrefixes[k]
    /\ answer.status \in {"none", "refused", "panic", "accepted"}

\* The answer to a query about the committed rows.
RightResult(kind) ==
    LET values == SortedVals(committed)
    IN  CASE kind.op = "sum"      -> <<SumOver(values), Len(values)>>
          [] kind.op = "min"      -> <<Head(values)>>
          [] kind.op = "max"      -> <<Last(values)>>
          [] kind.op = "quantile" -> <<QuantileOf(values, kind.k, kind.q)>>

\* What the client accepts is the answer to its query about the rows that the
\* root hash commits to, whatever happens to the table while the server
\* reads it for one prefix after the other.  (A prefix without rows at the
\* moment is skipped by sums and quantiles, see TapClient.)
AnswersAreRight ==
    answer.status = "accepted" /\ answer.complete =>
        \A n \in DOMAIN RightResult(answer.query) :
            answer.result[n] = RightResult(answer.query)[n]

\* No row twice, as equal points cannot be added, and no value beyond the
\* range of the proofs.
Ordinary(table) ==
    /\ \A m, n \in DOMAIN table : table[m] = table[n] => m = n
    /\ \A n \in DOMAIN table : table[n].val < BP_MAX

\* A query about an ordinary table that does not change is answered: the
\* proofs that the server makes are those the client expects.
UndisturbedIsAccepted ==
    changes = 0 /\ Ordinary(committed) => answer.status \in {"none", "accepted"}

=============================================================================
