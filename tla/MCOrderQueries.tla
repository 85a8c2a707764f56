--------------------------- MODULE MCOrderQueries -----------------------------
(* Rows of two prefixes (the times 1 and 2).  Seeds are powers of two, so    *)
(* that no two sums of commitments meet by chance.  The two rows of time 2   *)
(* are of one user, so their leaves differ in nothing but their commitments. *)
EXTENDS OrderQueries

Row(val, seed, user, time) == [val |-> val, seed |-> seed, user |-> user, time |-> time]

FiveRows == {Row(2, 1, 1, 1), Row(5, 2, 2, 1), Row(2, 4, 3, 1),
             Row(4, 8, 1, 2), Row(7, 16, 1, 2)}
OtherRows == {Row(3, 32, 3, 2), Row(9, 64, 4, 1), Row(5, 2, 2, 1)}

\* Up to three rows of time 1, the first of them always, up to two of time 2.
SomeTables == {SetToSeq(S) : S \in {S \in (SUBSET FiveRows) \ {{}} :
                  (\E r \in S : r.time = 1) => Row(2, 1, 1, 1) \in S}}

\* Tables with a row twice or three times, and with a value of BP_MAX.
OddTables == LET a == Row(2, 1, 1, 1)  b == Row(5, 2, 2, 1)  c == Row(4, 8, 1, 2)
             IN  {<<a, a>>, <<a, a, b>>, <<b, c, b, a>>, <<a, c, c>>, <<a, a, a, c>>,
                  <<a, Row(16, 128, 5, 1), c>>, <<a, Row(16, 128, 5, 2)>>}

AllTables == SomeTables \cup OddTables

Sum         == [op |-> "sum", k |-> 0, q |-> 1]
Minimum     == [op |-> "min", k |-> 0, q |-> 1]
Maximum     == [op |-> "max", k |-> 0, q |-> 1]
Quantile(k, q) == [op |-> "quantile", k |-> k, q |-> q]

AllKinds    == {Sum, Minimum, Maximum, Quantile(1, 4), Quantile(1, 2)}
ThirdQuartiles == {Quantile(3, 4)}

=============================================================================
