---------------------------- MODULE MCPrefixTree ----------------------------
(* Prefixes of two fields of two bits; the ranges cover one, several and no *)
(* values of a field.                                                       *)
EXTENDS PrefixTreeHashes

CONSTANTS v1, v2

ThreeKeys == { <<0, 0, 0, 1>>, <<0, 0, 1, 1>>, <<0, 1, 0, 1>> }
FiveKeys  == ThreeKeys \cup { <<0, 1, 0, 0>>, <<0, 0, 0, 0>> }

MCRanges == { << <<0, 4>>, <<0, 4>> >>, << <<1, 2>>, <<0, 2>> >>,
              << <<0, 2>>, <<1, 2>> >>, << <<0, 1>>, <<2, 2>> >> }

ValueSymmetry == Permutations(Values)

=============================================================================
