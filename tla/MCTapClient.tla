---------------------------- MODULE MCTapClient ----------------------------
(* A small instance of TapClient: two time slots and two type values, three *)
(* rows, two of them in one sum tree.                                      *)
EXTENDS TapClient

MCRows == { [uid |-> 1, key |-> <<1, 1>>, val |-> 5],
            [uid |-> 2, key |-> <<1, 1>>, val |-> 7],
            [uid |-> 1, key |-> <<2, 2>>, val |-> 5] }

MCRowsOneType == { [uid |-> 1, key |-> <<1, 1>>, val |-> 5],
                   [uid |-> 2, key |-> <<1, 1>>, val |-> 7],
                   [uid |-> 1, key |-> <<2, 1>>, val |-> 5] }

MCFullRange == [times |-> Times, types |-> Types]

\* One epoch each, as main.go adds them.
EpochRanges == { [times |-> {t}, types |-> Types] : t \in Times }

MCLookupRows == { r \in Rows : r.uid = 1 }
MCSumRanges  == { MCFullRange, [times |-> {1}, types |-> Types] }

=============================================================================
