---------------------------- MODULE MCTapServer ----------------------------
(* A small instance of TapServer: two rows in one prefix, one in another,  *)
(* and two combinations of a time and a type without rows.                 *)
EXTENDS TapServer

MCRows == { [uid |-> 1, key |-> <<1, 1>>, val |-> 5],
            [uid |-> 2, key |-> <<1, 1>>, val |-> 7],
            [uid |-> 1, key |-> <<2, 2>>, val |-> 6] }

MCFullRange == [times |-> Times, types |-> Types]

EpochRanges == { [times |-> {t}, types |-> Types] : t \in Times }

=============================================================================
