----------------------------- MODULE PrefixMap -----------------------------
(***************************************************************************)
(* What PrefixAppend (trees/prefix_tree.go) does to a prefix tree, as seen *)
(* from outside: a map from prefixes to values, the map that the root hash *)
(* stands for, and the leaves that cannot be reached for the moment.       *)
(* TapServer uses the tree in this form; PrefixTree implements it.         *)
(***************************************************************************)
CONSTANTS Keys, Values, NoValue

VARIABLES leaves,     \* the value of each prefix, NoValue if it has no leaf
          rootHash,   \* the map the root hash stands for
          hidden      \* prefixes whose leaf cannot be reached

mvars == <<leaves, rootHash, hidden>>

Present == {k \in Keys : leaves[k] # NoValue}

MInit ==
    /\ leaves = [k \in Keys |-> NoValue]
    /\ rootHash = leaves
    /\ hidden = {}

\* One leaf at a time: nothing else is under way in the tree.
Quiet == leaves = rootHash /\ hidden = {}

\* The leaves under some node get out of reach ...
Split ==
    /\ Quiet
    /\ hidden' # {} /\ hidden' \subseteq Present
    /\ UNCHANGED <<leaves, rootHash>>

\* ... and come back.
Rejoin ==
    /\ hidden # {}
    /\ hidden' = {}
    /\ UNCHANGED <<leaves, rootHash>>

Attach ==
    /\ Quiet
    /\ \E k \in Keys, v \in Values : leaves' = [leaves EXCEPT ![k] = v]
    /\ UNCHANGED <<rootHash, hidden>>

Rehash ==
    /\ hidden = {}
    /\ rootHash' = leaves
    /\ UNCHANGED <<leaves, hidden>>

MNext == Split \/ Rejoin \/ Attach \/ Rehash

MSpec == MInit /\ [][MNext]_mvars

=============================================================================
