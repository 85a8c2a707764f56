---------------------------- MODULE RangeProof ------------------------------
(***************************************************************************)
(* Range proofs for any interval [a, b) (crypto/bulletproofs/bprp.go),     *)
(* what the client concludes from one (verifyLeafProof), and the audit of  *)
(* the order of a sum tree's leaves, proof by proof (CheckRangeProofs).    *)
(*                                                                         *)
(* A commitment is the pair of its value and its seed modulo the order of  *)
(* the group: nobody opens one in two ways.  A Bulletproof for [0, 2^N)    *)
(* verifies if and only if the value of its commitment V is in that range. *)
(***************************************************************************)
EXTENDS Integers, Sequences

CONSTANTS
    Order,       \* order of the group
    RangeEnd,    \* MAX_RANGE_END, 2^N
    BPMax,       \* BP_MAX
    DUMMY,       \* the seed of the commitments added on both sides of a comparison
    Tables       \* leaves of a sum tree, [val, seed], in some order

\* The columns hold 32-bit integers, far below half the order.
Column == {x \in 0 .. Order - 1 : 2 * x < Order}

ASSUME OrderAssumption ==
    /\ Order \in Nat /\ RangeEnd \in Nat /\ BPMax \in Nat
    /\ 0 < BPMax /\ 2 * BPMax <= RangeEnd /\ 2 * RangeEnd < Order

\* p256 does not support seed 0: CommitG1 then yields the point at infinity.
Seed == Column \ {0}

ASSUME DummyAssumption == DUMMY \in Seed

ASSUME TablesAssumption ==
    Tables \subseteq Seq([val : Column, seed : Seed])

-----------------------------------------------------------------------------
(* Commitments and proofs *)

Point == [v : 0 .. Order - 1, s : 0 .. Order - 1]

\* The point at infinity, and what CommitG1 yields for a seed of 0
Zero == [v |-> 0, s |-> 0]

Commit(v, s) == IF s % Order = 0 THEN Zero ELSE [v |-> v % Order, s |-> s % Order]

Negated(p) == [v |-> (0 - p.v) % Order, s |-> (0 - p.s) % Order]

\* Add of p256.go: equal points, or a right one at infinity, give infinity.
Plus(p, q) ==
    IF p = Zero THEN q
    ELSE IF q = Zero \/ p = q THEN Zero
    ELSE [v |-> (p.v + q.v) % Order, s |-> (p.s + q.s) % Order]

\* The commitments V of the two Bulletproofs.
ProveGeneric(x, seed, a, b) ==
    [p1 |-> Commit(x - b + RangeEnd, seed), p2 |-> Commit(x - a, seed)]

Verify(proof) == proof.p1.v < RangeEnd /\ proof.p2.v < RangeEnd

\* The client: the leaf has a value in [lo, hi).
VerifyLeafProof(proof, leaf, lo, hi) ==
    LET leafDummy == Plus(leaf, Commit(0, DUMMY))
    IN  /\ Verify(proof)
        /\ Plus(proof.p1, Commit(hi - RangeEnd, DUMMY)) = leafDummy
        /\ Plus(proof.p2, Commit(lo, DUMMY)) = leafDummy

\* The auditor: the value of the right leaf exceeds that of the left one by
\* a number in [0, BP_MAX).
CheckRangeProof(proof, left, right) ==
    LET diff == Plus(right, Negated(left))
    IN  /\ Plus(proof.p1, Commit(0, DUMMY)) = Plus(diff, Commit(RangeEnd - BPMax, DUMMY))
        /\ proof.p2 = diff
        /\ Verify(proof)

-----------------------------------------------------------------------------
(* An audit.  It is to establish that the leaves are in order, so they may  *)
(* come in any order here.                                                  *)

VARIABLES
    table,        \* the leaves
    commitments,  \* what RequestCommitmentsAndProofs lists for them
    proofs,       \* one for each two neighbours
    i,            \* the next proof to check
    verdict

vars == <<table, commitments, proofs, i, verdict>>

Init ==
    /\ table \in Tables
    /\ commitments = <<>> /\ proofs = <<>> /\ i = 1 /\ verdict = "none"

RequestCommitmentsAndProofs ==
    /\ verdict = "none"
    /\ commitments' = [n \in 1 .. Len(table) |-> Commit(table[n].val, table[n].seed)]
    /\ proofs' = [n \in 1 .. Len(table) - 1 |->
                     ProveGeneric(table[n + 1].val - table[n].val,
                                  table[n + 1].seed - table[n].seed, 0, BPMax)]
    /\ verdict' = "checking"
    /\ UNCHANGED <<table, i>>

\* The proof for two leaves with the same seed has no V to compare.
CheckRangeProofs ==
    /\ verdict = "checking"
    /\ IF i > Len(proofs) THEN verdict' = "passed" /\ UNCHANGED i
       ELSE IF proofs[i].p2 = Zero THEN verdict' = "panic" /\ UNCHANGED i
       ELSE IF CheckRangeProof(proofs[i], commitments[i], commitments[i + 1])
       THEN i' = i + 1 /\ UNCHANGED verdict
       ELSE verdict' = "rejected" /\ UNCHANGED i
    /\ UNCHANGED <<table, commitments, proofs>>

Next == RequestCommitmentsAndProofs \/ CheckRangeProofs

Spec == Init /\ [][Next]_vars

-----------------------------------------------------------------------------
(* Properties *)

\* An audit that passes has shown that no leaf is smaller than the leaf
\* before it, although the difference of their commitments wraps around at
\* the order of the group.
PassedIsSorted ==
    verdict = "passed" => \A n \in 1 .. Len(table) - 1 : table[n].val <= table[n + 1].val

\* An audit rejects only a tree whose leaves are out of order, or that has
\* two neighbours which BP_MAX does not bound.
RejectedIsUnsorted ==
    verdict = "rejected" => \E n \in 1 .. Len(table) - 1 :
        table[n].val > table[n + 1].val \/ table[n + 1].val - table[n].val >= BPMax

=============================================================================
