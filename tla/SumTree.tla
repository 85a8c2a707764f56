------------------------------ MODULE SumTree --------------------------------
(***************************************************************************)
(* The sum tree of one prefix (trees/commit_tree.go, trees/commit_node.go): *)
(* a Merkle tree over the rows of the prefix in which every node also       *)
(* commits to the sums of the first N_MOMENTS powers of the values below.   *)
(*                                                                          *)
(* A commitment is the pair of its value and its seed, a hash is the term   *)
(* that was hashed.  Sums stay far below the order of the group.            *)
(***************************************************************************)
EXTENDS Integers, Sequences, FiniteSets

CONSTANT N_MOMENTS     \* the powers of the values that are committed to

ASSUME MomentsAssumption == N_MOMENTS \in Nat \ {0}

-----------------------------------------------------------------------------
(* Commitments *)

Zero == [v |-> 0, s |-> 0]     \* the point at infinity

\* p256.Add.  Adding Zero on the right gives Zero, and so does adding a point
\* to itself.
Add(a, b) ==
    IF a = Zero \/ b = Zero \/ a = b
    THEN IF a = Zero THEN b ELSE Zero
    ELSE [v |-> a.v + b.v, s |-> a.s + b.s]

Moments(row) == [n \in 1 .. N_MOMENTS |-> [v |-> row.val ^ n, s |-> row.seed ^ n]]

-----------------------------------------------------------------------------
(* Nodes: the row of a leaf, the children of an internal node, and what the *)
(* code keeps with both.                                                    *)

\* The first commitment is not part of the hash.
HashCommitmentsAndCount(comms, n) == <<Tail(comms), n>>

Hash(children, comms, n, id) ==
    [children |-> children, comms |-> HashCommitmentsAndCount(comms, n), id |-> id]

Leaf(row) ==
    [row |-> <<row>>, kids |-> <<>>, num |-> 1, comms |-> Moments(row),
     hash |-> Hash(<<>>, Moments(row), 1, <<row.user, row.time>>)]

\* The number of leaves, the commitments and the hash of a node with the
\* given children: both, or only the left one.
GetInternalNodeParams(kids) ==
    LET comms == IF Len(kids) = 1 THEN kids[1].comms
                 ELSE [n \in 1 .. N_MOMENTS |-> Add(kids[1].comms[n], kids[2].comms[n])]
        num   == IF Len(kids) = 1 THEN kids[1].num ELSE kids[1].num + kids[2].num
    IN  [num |-> num, comms |-> comms,
         hash |-> Hash([n \in DOMAIN kids |-> kids[n].hash], comms, num, <<>>)]

Node(kids) ==
    LET p == GetInternalNodeParams(kids)
    IN  [row |-> <<>>, kids |-> kids, num |-> p.num, comms |-> p.comms, hash |-> p.hash]

\* Neighbours are paired; a last node without one moves up as it is.
RECURSIVE BuildUpTreePerLayer(_)
BuildUpTreePerLayer(ns) ==
    IF Len(ns) = 1 THEN ns[1]
    ELSE BuildUpTreePerLayer(
             [n \in 1 .. (Len(ns) + 1) \div 2 |->
                 IF 2 * n > Len(ns) THEN ns[2 * n - 1] ELSE Node(<<ns[2 * n - 1], ns[2 * n]>>)])

\* The root has the top node as its only child.
BuildMerkleCommitmentTree(rows) ==
    Node(<<BuildUpTreePerLayer([n \in DOMAIN rows |-> Leaf(rows[n])])>>)

RootHash(rows) == BuildMerkleCommitmentTree(rows).hash

-----------------------------------------------------------------------------
(* Membership proofs *)

\* The siblings on the way up from the k-th leaf below a node.  The side is
\* found by comparing hashes, with that of the left child first.
RECURSIVE CopathFrom(_, _)
CopathFrom(node, k) ==
    IF node.kids = <<>> THEN <<>>
    ELSE LET left  == node.kids[1]
             right == node.kids[2]
             child == IF k <= left.num THEN left ELSE right
             below == CopathFrom(child, IF k <= left.num THEN k ELSE k - left.num)
         IN  Append(below, IF child.hash = left.hash
                           THEN [isLeft |-> FALSE, node |-> right]
                           ELSE [isLeft |-> TRUE, node |-> left])

\* Mutant of GenerateMembershipProof: the side of equal leaves is swapped.
GenerateMembershipProofSwapped(rows, val, preferLeft) ==
    LET at  == {n \in DOMAIN rows : rows[n].val = val}
        k   == IF preferLeft THEN CHOOSE n \in at : \A m \in at : m <= n
               ELSE CHOOSE n \in at : \A m \in at : n <= m
        top == BuildMerkleCommitmentTree(rows).kids[1]
    IN  [leaf |-> Leaf(rows[k]), copath |-> CopathFrom(top, k)]

\* The proof for the first or the last leaf with a value, without the entry
\* for the root that the code appends.
GenerateMembershipProof(rows, val, preferLeft) ==
    LET at  == {n \in DOMAIN rows : rows[n].val = val}
        k   == IF preferLeft THEN CHOOSE n \in at : \A m \in at : n <= m
               ELSE CHOOSE n \in at : \A m \in at : m <= n
        top == BuildMerkleCommitmentTree(rows).kids[1]
    IN  [leaf |-> Leaf(rows[k]), copath |-> CopathFrom(top, k)]

RECURSIVE Climb(_, _)
Climb(node, copath) ==
    IF copath = <<>> THEN node
    ELSE LET step == Head(copath)
         IN  Climb(GetInternalNodeParams(IF step.isLeft THEN <<step.node, node>>
                                         ELSE <<node, step.node>>),
                   Tail(copath))

\* The entry of the root is nil: the top node is its only child.
RebuildRootHash(proof) == GetInternalNodeParams(<<Climb(proof.leaf, proof.copath)>>).hash

\* The number of leaves below the siblings on one side.
RECURSIVE SiblingLeaves(_, _)
SiblingLeaves(copath, sides) ==
    IF copath = <<>> THEN 0
    ELSE (IF Head(copath).isLeft \in sides THEN Head(copath).node.num ELSE 0)
         + SiblingLeaves(Tail(copath), sides)

GetNumLeftNodes(proof)  == SiblingLeaves(proof.copath, {TRUE})
GetNumRightNodes(proof) == SiblingLeaves(proof.copath, {FALSE})
GetTotalNumNodes(proof) == SiblingLeaves(proof.copath, BOOLEAN) + 1

=============================================================================
