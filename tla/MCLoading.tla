------------------------------ MODULE MCLoading ------------------------------
(* Files without a type column, with one and with two; the division leaves  *)
(* shares and statements of different sizes, and the statements are larger  *)
(* than the maximum for the longest files.  The districts of one of them    *)
(* go down from the largest value, as those of experiment 2b do.            *)
EXTENDS Loading

MCFiles ==
    {[columns |-> 1, lines |-> <<<<2>>, <<0>>, <<1>>, <<0>>>>],
     [columns |-> 2, lines |-> <<<<1, 0>>, <<0, 2>>, <<1, 0>>, <<0, 1>>, <<1, 1>>,
                                 <<0, 0>>, <<1, 2>>, <<0, 2>>>>],
     [columns |-> 2, lines |-> [i \in 1 .. 4 |-> <<0, MaxInt32 - ((i - 1) \div 2)>>]],
     [columns |-> 3, lines |-> <<<<1, 0, 1>>, <<2, 1, 1>>, <<0, 1, 2>>>>],
     [columns |-> 3, lines |-> [i \in 1 .. 13 |-> <<i % 2, (i \div 2) % 2, (i \div 3) % 2>>]],
     [columns |-> 3, lines |-> <<>>]}

\* What determinePrefixes is called with follows from the table.
MCSchemas == {}

MCRanges == {<<0, 3>>, <<1, 2>>}

=============================================================================
