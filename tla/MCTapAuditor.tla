---------------------------- MODULE MCTapAuditor ----------------------------
(* A small instance of TapAuditor.  The ranges of AddToTree overlap; of the *)
(* rows of the first prefix some are BP_MAX apart, and some that may be     *)
(* neighbours have the same seed.                                           *)
EXTENDS TapAuditor

Row(uid, key, val, seed) == [uid |-> uid, key |-> key, val |-> val, seed |-> seed]

MCRows == { Row(1, <<1, 1>>, 5, 1), Row(2, <<1, 1>>, 7, 2), Row(3, <<1, 1>>, 12, 1),
            Row(1, <<2, 1>>, 6, 1) }

MCFullRange == [times |-> Times, types |-> Types]

OverlappingRanges == { MCFullRange, [times |-> {1}, types |-> Types] }

=============================================================================
