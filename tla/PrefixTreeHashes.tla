------------------------- MODULE PrefixTreeHashes --------------------------
(***************************************************************************)
(* What the root hash of a prefix tree must be, and the specification      *)
(* PrefixTree implements.                                                  *)
(***************************************************************************)
EXTENDS PrefixTree

\* The map has something under p.
Begins(map, p) == \E k \in Keys : map[k] # NoValue /\ IsPrefix(p, k)

\* The hash of what a map has under a prefix, by the definition of a
\* compressed trie, from the whole prefixes up one bit at a time; it knows
\* nothing of an order of insertion.  A spot is a prefix and the length of
\* the one that the node above stands for.  Only where both sides have
\* something is there a node.
Spots == Seq({0, 1}) \X Nat

LeafHashes(map) ==
    [x \in Spots |-> NodeHash(SubSeq(x[1], x[2] + 1, Len(x[1])), NilHash, NilHash, map[x[1]])]

HashesAbove(map, hash) ==
    [x \in Spots |->
        LET Side(b) == Append(x[1], b)
        IN  IF Begins(map, Side(0)) /\ Begins(map, Side(1))
            THEN NodeHash(SubSeq(x[1], x[2] + 1, Len(x[1])), hash[<<Side(0), Len(x[1])>>],
                          hash[<<Side(1), Len(x[1])>>], NoValue)
            ELSE IF Begins(map, Side(0)) THEN hash[<<Side(0), x[2]>>] ELSE hash[<<Side(1), x[2]>>]]

TrieHash(map) ==
    LET hash[n \in Nat] == IF n = 0 THEN LeafHashes(map) ELSE HashesAbove(map, hash[n - 1])
    IN  hash

\* The root is there even if it has one child or none.
RootHashOf(map) ==
    LET length == Len(CHOOSE k \in Keys : TRUE)
        Side(b) == IF Begins(map, <<b>>) THEN TrieHash(map)[length - 1][<< <<b>>, 0>>] ELSE NilHash
    IN  NodeHash(<<>>, Side(0), Side(1), NoValue)

\* Between calls of PrefixAppend the root hash is that of the pairs that
\* were appended, whatever their order: the auditor, who appends them in
\* the order of the list, gets the same hash as the server, who appends
\* them in the order its goroutines finished.
HashIsCanonical == wpc = "idle" => nodes[Root].hash = RootHashOf(content)

-----------------------------------------------------------------------------
(* The abstract specification this module implements. *)

LeafOf(k) == {n \in DOMAIN nodes : nodes[n].leaf /\ nodes[n].key = k}

LeafMap == [k \in Keys |-> IF LeafOf(k) = {} THEN NoValue ELSE nodes[CHOOSE n \in LeafOf(k) : TRUE].value]

\* Where getLeaf is after some rounds: a node and the number of bits that
\* have matched.
Onward(key, n, i) ==
    LET c == ChildOf(nodes, n, key[i + 1])
    IN  IF i < Len(key) /\ c # Nil /\ nodes[c].partial = SubSeq(key, i + 1, i + Len(nodes[c].partial))
        THEN {<<c, i + Len(nodes[c].partial)>>}
        ELSE {}

Walk(key) ==
    LET walk[n \in Nat] ==
            IF n = 0 THEN {<<Root, 0>>} ELSE UNION {Onward(key, x[1], x[2]) : x \in walk[n - 1]}
    IN  walk

Leads(key) == \E n \in 0 .. Len(key) : \E x \in Walk(key)[n] :
                  x[1] \in LeafOf(key) /\ x[2] = Len(key)

\* The leaves that getLeaf does not find at the moment.
Unreachable == {k \in Keys : LeafOf(k) # {} /\ ~ Leads(k)}

MapOf(S) == [k \in Keys |-> IF \E e \in S : e[1] = k THEN (CHOOSE e \in S : e[1] = k)[2] ELSE NoValue]

Map == INSTANCE PrefixMap WITH
           leaves <- LeafMap, hidden <- Unreachable,
           rootHash <- MapOf(Committed(nodes[Root].hash))

\* Seen from outside, PrefixAppend hides the leaves under one node, brings
\* them back, attaches or changes one leaf, and then, in one step, makes the
\* root hash stand for all the leaves: no step loses, moves or reveals one.
ActsAsMap == Map!MSpec

=============================================================================
