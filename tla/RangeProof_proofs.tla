------------------------- MODULE RangeProof_proofs --------------------------
(***************************************************************************)
(* What a verified range proof shows, for every group order and range, and *)
(* that an audit that passes has shown the leaves to be in order.          *)
(***************************************************************************)
EXTENDS RangeProof, TLAPS

(* Arithmetic modulo the order. *)

LEMMA ModRange ==
    ASSUME NEW a \in Int, NEW n \in Nat, n > 0
    PROVE  a % n \in 0 .. n - 1
    BY SMT

LEMMA ModSmall ==
    ASSUME NEW a \in Int, NEW n \in Nat, 0 <= a, a < n
    PROVE  a % n = a
    BY SMT

LEMMA ModNegative ==
    ASSUME NEW a \in Int, NEW n \in Nat, 0 - n <= a, a < 0
    PROVE  a % n = a + n
    BY SMT

LEMMA ModLarge ==
    ASSUME NEW a \in Int, NEW n \in Nat, n <= a, a < 2 * n
    PROVE  a % n = a - n
    BY SMT

LEMMA ColumnBounds ==
    ASSUME NEW x \in Column
    PROVE  x \in Int /\ 0 <= x /\ x < Order /\ 2 * x < Order
<1>1. x \in Int /\ 0 <= x /\ 2 * x < Order
  BY DEF Column
<1> QED
  BY <1>1, OrderAssumption

LEMMA SeedBounds ==
    ASSUME NEW s \in Seed
    PROVE  s \in Int /\ 0 < s /\ s < Order /\ 2 * s < Order
<1>1. s \in Column /\ s # 0
  BY DEF Seed
<1> QED
  BY <1>1, ColumnBounds

\* Commitments with a seed.
LEMMA CommitIs ==
    ASSUME NEW v \in Int, NEW s \in Seed
    PROVE  Commit(v, s) = [v |-> v % Order, s |-> s] /\ Commit(v, s) # Zero
<1>1. s \in Int /\ 0 < s /\ s < Order
  BY SeedBounds
<1>2. s % Order = s
  BY <1>1, OrderAssumption, ModSmall
<1> QED
  BY <1>1, <1>2 DEF Commit, Zero

\* Any sum that is not infinity adds the values.
LEMMA PlusIs ==
    ASSUME NEW p \in Point, NEW v \in 0 .. Order - 1, NEW s \in 1 .. Order - 1,
           Plus(p, [v |-> v, s |-> s]) # Zero
    PROVE  Plus(p, [v |-> v, s |-> s]).v = (p.v + v) % Order
<1>1. v % Order = v
  BY OrderAssumption, ModSmall
<1>2. CASE p = Zero
  <2>1. p.v = 0 /\ 0 + v = v
    BY <1>2 DEF Zero
  <2> QED
    BY <1>1, <1>2, <2>1 DEF Plus
<1>3. CASE p # Zero
  BY <1>3 DEF Plus
<1> QED
  BY <1>2, <1>3

\* The sum of a leaf and the dummy commitment to 0.
LEMMA LeafDummyIs ==
    ASSUME NEW x \in Column, NEW s \in Seed, <<x, s>> # <<0, DUMMY>>
    PROVE  /\ Commit(x, s) = [v |-> x, s |-> s] /\ Commit(0, DUMMY) = [v |-> 0, s |-> DUMMY]
           /\ Plus(Commit(x, s), Commit(0, DUMMY)) = [v |-> x, s |-> s + DUMMY]
           /\ s + DUMMY > 0
<1>1. /\ x \in Int /\ 0 <= x /\ x < Order
      /\ s \in Int /\ 0 < s /\ 2 * s < Order /\ DUMMY \in Int /\ 0 < DUMMY /\ 2 * DUMMY < Order
  BY ColumnBounds, SeedBounds, DummyAssumption
<1>2. x % Order = x /\ 0 % Order = 0
  BY <1>1, OrderAssumption, ModSmall
<1>3. Commit(x, s) = [v |-> x, s |-> s] /\ Commit(0, DUMMY) = [v |-> 0, s |-> DUMMY]
  BY <1>1, <1>2, CommitIs, DummyAssumption
<1>4. s + DUMMY \in Int /\ 0 < s + DUMMY /\ s + DUMMY < Order
  BY <1>1, OrderAssumption
<1>5. (s + DUMMY) % Order = s + DUMMY /\ (x + 0) % Order = x
  BY <1>1, <1>2, <1>4, OrderAssumption, ModSmall
<1>6. Commit(x, s) # Zero /\ Commit(0, DUMMY) # Zero /\ Commit(x, s) # Commit(0, DUMMY)
  BY <1>1, <1>3 DEF Zero
<1> QED
  BY <1>3, <1>4, <1>5, <1>6 DEF Plus

-----------------------------------------------------------------------------
\* Soundness of verifyLeafProof: whatever points a range proof consists of, a
\* leaf for which it verifies has a value in [lo, hi).  The leaf must not be
\* the dummy commitment to 0 itself, whose sum with that one Add loses.
THEOREM LeafProofSound ==
    ASSUME NEW proof \in [p1 : Point, p2 : Point], NEW x \in Column, NEW s \in Seed,
           <<x, s>> # <<0, DUMMY>>,
           NEW lo \in Nat, NEW hi \in Nat, lo <= hi, hi <= RangeEnd,
           VerifyLeafProof(proof, Commit(x, s), lo, hi)
    PROVE  lo <= x /\ x < hi
<1>1. /\ proof.p1 \in Point /\ proof.p2 \in Point
      /\ proof.p1.v \in 0 .. RangeEnd - 1
      /\ proof.p2.v \in 0 .. RangeEnd - 1
  BY OrderAssumption DEF VerifyLeafProof, Verify, Point
<1>2. x \in Int /\ 0 <= x /\ x < Order
  BY ColumnBounds
<1> DEFINE sum == [v |-> x, s |-> s + DUMMY]
           b == (hi - RangeEnd) % Order
<1>3. /\ Plus(proof.p1, Commit(hi - RangeEnd, DUMMY)) = sum
      /\ Plus(proof.p2, Commit(lo, DUMMY)) = sum
      /\ sum # Zero /\ sum.v = x
  BY LeafDummyIs DEF VerifyLeafProof, Zero
<1>4. DUMMY \in 1 .. Order - 1
  BY DummyAssumption, SeedBounds, OrderAssumption
<1>5. hi - RangeEnd \in Int /\ lo % Order = lo /\ lo \in 0 .. Order - 1 /\ b \in 0 .. Order - 1
  BY OrderAssumption, ModSmall, ModRange
<1>6. /\ Commit(lo, DUMMY) = [v |-> lo, s |-> DUMMY]
      /\ Commit(hi - RangeEnd, DUMMY) = [v |-> b, s |-> DUMMY]
  BY <1>5, CommitIs, DummyAssumption
<1> HIDE DEF sum
<1>7. x = (proof.p2.v + lo) % Order /\ x = (proof.p1.v + b) % Order
  BY <1>1, <1>3, <1>4, <1>5, <1>6, PlusIs
<1> PICK u \in 0 .. RangeEnd - 1 : u = proof.p1.v
  BY <1>1
<1> PICK w \in 0 .. RangeEnd - 1 : w = proof.p2.v
  BY <1>1
<1>8. x = w + lo
  <2>1. w + lo \in Int /\ 0 <= w + lo /\ w + lo < Order
    BY OrderAssumption
  <2>2. (w + lo) % Order = w + lo
    BY <2>1, OrderAssumption, ModSmall
  <2> QED
    BY <1>7, <2>2
<1>9. CASE hi = RangeEnd
  <2>1. b = 0
    BY <1>9, OrderAssumption, ModSmall
  <2>2. u + b = u /\ u % Order = u
    BY <2>1, OrderAssumption, ModSmall
  <2> QED
    BY <1>7, <1>8, <1>9, <2>2, OrderAssumption
<1>10. CASE hi < RangeEnd
  <2>1. b = hi - RangeEnd + Order
    BY <1>10, OrderAssumption, ModNegative
  <2> DEFINE z == u + b
  <2>2. z \in Nat /\ z < 2 * Order /\ x = z % Order
    BY <1>7, <1>10, <2>1, OrderAssumption
  <2>3. CASE z < Order
    <3>1. x = z
      BY <2>2, <2>3, OrderAssumption, ModSmall
    <3> QED    \* too large for the second proof
      BY <1>1, <1>8, <2>1, <3>1, OrderAssumption
  <2>4. CASE z >= Order
    <3>1. x = z - Order
      BY <2>2, <2>4, OrderAssumption, ModLarge
    <3> QED
      BY <1>1, <1>8, <2>1, <3>1, OrderAssumption
  <2> QED
    BY <2>2, <2>3, <2>4, OrderAssumption
<1> QED
  BY <1>9, <1>10, OrderAssumption

\* The commitments of the proof that ProveGeneric makes for a value of the
\* interval.
LEMMA MadeForLeaf ==
    ASSUME NEW x \in Nat, NEW s \in Seed, NEW lo \in Nat, NEW hi \in Nat,
           lo <= x, x < hi, hi <= RangeEnd
    PROVE  LET proof == ProveGeneric(x, s, lo, hi)
           IN  /\ proof.p1 = [v |-> x - hi + RangeEnd, s |-> s]
               /\ proof.p2 = [v |-> x - lo, s |-> s]
               /\ Commit(lo, DUMMY) = [v |-> lo, s |-> DUMMY]
               /\ x \in Column /\ s > 0
<1>1. x - hi + RangeEnd \in Int /\ x - lo \in Int
  BY OrderAssumption
<1>2. (x - hi + RangeEnd) % Order = x - hi + RangeEnd /\ (x - lo) % Order = x - lo /\ lo % Order = lo
  BY OrderAssumption, ModSmall
<1>3. x \in 0 .. Order - 1 /\ 2 * x < Order
  BY OrderAssumption
<1> QED
  BY <1>1, <1>2, <1>3, CommitIs, DummyAssumption, SeedBounds DEF ProveGeneric, Column

\* Completeness of ProveGeneric and verifyLeafProof: the proof made for a
\* value of the interval verifies, for every seed but that of the dummy
\* commitments.
THEOREM LeafProofComplete ==
    ASSUME NEW x \in Nat, NEW s \in Seed \ {DUMMY},
           NEW lo \in Nat, NEW hi \in Nat, lo <= x, x < hi, hi <= RangeEnd
    PROVE  VerifyLeafProof(ProveGeneric(x, s, lo, hi), Commit(x, s), lo, hi)
<1> DEFINE proof == ProveGeneric(x, s, lo, hi)
           b == (hi - RangeEnd) % Order
<1>0. s \in Seed /\ s # DUMMY
  OBVIOUS
<1>1. /\ proof.p1 = [v |-> x - hi + RangeEnd, s |-> s] /\ proof.p2 = [v |-> x - lo, s |-> s]
      /\ Commit(lo, DUMMY) = [v |-> lo, s |-> DUMMY] /\ x \in Column /\ s > 0
  BY <1>0, MadeForLeaf
<1>2. Plus(Commit(x, s), Commit(0, DUMMY)) = [v |-> x, s |-> s + DUMMY]
  BY <1>1, LeafDummyIs
<1>3. Commit(hi - RangeEnd, DUMMY) = [v |-> b, s |-> DUMMY]
  <2>1. hi - RangeEnd \in Int
    BY OrderAssumption
  <2> QED
    BY <2>1, CommitIs, DummyAssumption
<1>4. (s + DUMMY) % Order = s + DUMMY /\ DUMMY > 0
  BY SeedBounds, DummyAssumption, OrderAssumption, ModSmall
<1>5. (x - lo + lo) % Order = x
  BY OrderAssumption, ModSmall
<1>6. ((x - hi + RangeEnd) + b) % Order = x
  <2>1. CASE hi = RangeEnd
    <3>1. b = 0
      BY <2>1, OrderAssumption, ModSmall
    <3> QED
      BY <2>1, <3>1, OrderAssumption, ModSmall
  <2>2. CASE hi < RangeEnd
    <3>1. b = hi - RangeEnd + Order
      BY <2>2, OrderAssumption, ModNegative
    <3>2. ((x - hi + RangeEnd) + (hi - RangeEnd + Order)) % Order = x
      BY OrderAssumption, ModLarge
    <3> QED
      BY <3>1, <3>2
  <2> QED
    BY <2>1, <2>2, OrderAssumption
<1> HIDE DEF proof, b
<1>7. Plus(proof.p1, Commit(hi - RangeEnd, DUMMY)) = [v |-> x, s |-> s + DUMMY]
  <2>1. proof.p1 # Zero /\ proof.p1 # [v |-> b, s |-> DUMMY] /\ [v |-> b, s |-> DUMMY] # Zero
    BY <1>1, <1>4 DEF Zero
  <2> QED
    BY <1>1, <1>3, <1>4, <1>6, <2>1 DEF Plus
<1>8. Plus(proof.p2, Commit(lo, DUMMY)) = [v |-> x, s |-> s + DUMMY]
  <2>1. proof.p2 # Zero /\ proof.p2 # [v |-> lo, s |-> DUMMY] /\ [v |-> lo, s |-> DUMMY] # Zero
    BY <1>1, <1>4 DEF Zero
  <2> QED
    BY <1>1, <1>4, <1>5, <2>1 DEF Plus
<1>9. Verify(proof)
  BY <1>1, OrderAssumption DEF Verify
<1> QED
  BY <1>2, <1>7, <1>8, <1>9 DEF VerifyLeafProof, proof

\* The exception is real: with the seed of the dummy commitments the proof of
\* a value that is twice the lower end is refused, because Add is given the
\* same point twice.
THEOREM LeafProofRefused ==
    ASSUME NEW lo \in Nat, NEW hi \in Nat, 0 < lo, 2 * lo < hi, hi <= RangeEnd
    PROVE  ~ VerifyLeafProof(ProveGeneric(2 * lo, DUMMY, lo, hi), Commit(2 * lo, DUMMY), lo, hi)
<1> PICK x \in Nat : x = 2 * lo
  OBVIOUS
<1> DEFINE proof == ProveGeneric(x, DUMMY, lo, hi)
<1>1. x \in Nat /\ lo <= x /\ x < hi /\ x - lo = lo /\ x # 0
  OBVIOUS
<1> DUMMY \in Seed
  BY DummyAssumption
<1>2. proof.p2 = Commit(lo, DUMMY) /\ x \in Column /\ proof.p2 # Zero
  <2>1. proof.p2 = Commit(lo, DUMMY)
    BY <1>1 DEF ProveGeneric
  <2>2. x \in Column
    BY <1>1, MadeForLeaf
  <2> QED
    BY <2>1, <2>2, CommitIs
<1>3. Plus(proof.p2, Commit(lo, DUMMY)) = Zero
  BY <1>2 DEF Plus
<1>4. Plus(Commit(x, DUMMY), Commit(0, DUMMY)) # Zero
  BY <1>1, <1>2, LeafDummyIs, DummyAssumption DEF Zero
<1> QED
  BY <1>3, <1>4 DEF VerifyLeafProof

\* What CheckRangeProofs computes of two neighbouring commitments.
LEMMA DifferenceIs ==
    ASSUME NEW x \in Column, NEW y \in Column, NEW s \in Seed, NEW t \in Seed
    PROVE  Plus(Commit(y, t), Negated(Commit(x, s))) = [v |-> (y - x) % Order, s |-> (t - s) % Order]
<1> DEFINE q == Negated(Commit(x, s))
           m == (0 - x) % Order
           n == (0 - s) % Order
<1>1. /\ x \in Int /\ 0 <= x /\ x < Order /\ 2 * x < Order /\ y \in Int /\ 0 <= y /\ y < Order
      /\ s \in Int /\ 0 < s /\ 2 * s < Order /\ t \in Int /\ 0 < t /\ 2 * t < Order
  BY ColumnBounds, SeedBounds
<1>2. x % Order = x /\ y % Order = y
  BY <1>1, OrderAssumption, ModSmall
<1>3. Commit(x, s) = [v |-> x, s |-> s] /\ Commit(y, t) = [v |-> y, s |-> t]
  BY <1>1, <1>2, CommitIs
<1>4. q = [v |-> m, s |-> n]
  BY <1>3 DEF Negated
<1>5. n = Order - s /\ n \in Int /\ m \in Int
  BY <1>1, OrderAssumption, ModNegative, ModRange
<1>6. Commit(y, t) # Zero /\ q # Zero /\ Commit(y, t) # q
  <2>1. n # 0 /\ n # t
    BY <1>1, <1>5, OrderAssumption
  <2> HIDE DEF n, m, q
  <2> QED
    BY <1>1, <1>3, <1>4, <2>1 DEF Zero
<1>7. (y + m) % Order = (y - x) % Order
  <2>1. CASE x = 0
    BY <1>1, <2>1, OrderAssumption, ModSmall
  <2>2. CASE x > 0
    <3>1. m = Order - x
      BY <1>1, <2>2, OrderAssumption, ModNegative
    <3>2. CASE y < x
      <4>1. (y + (Order - x)) % Order = y + Order - x
        BY <1>1, <3>2, OrderAssumption, ModSmall
      <4>2. (y - x) % Order = y - x + Order
        BY <1>1, <3>2, OrderAssumption, ModNegative
      <4> QED
        BY <1>1, <3>1, <4>1, <4>2, OrderAssumption
    <3>3. CASE x <= y
      <4> PICK z \in Int : z = y + m
        BY <1>1, <1>5
      <4>1. Order <= z /\ z < 2 * Order /\ z - Order = y - x
        BY <1>1, <2>2, <3>1, <3>3, OrderAssumption
      <4>2. z % Order = z - Order
        BY <4>1, OrderAssumption, ModLarge
      <4>3. (y - x) % Order = y - x
        BY <1>1, <2>2, <3>3, OrderAssumption, ModSmall
      <4> QED
        BY <4>1, <4>2, <4>3
    <3> QED
      BY <1>1, <3>2, <3>3
  <2> QED
    BY <1>1, <2>1, <2>2
<1>8. (t + n) % Order = (t - s) % Order
  <2>1. CASE t < s
    <3>1. (t + (Order - s)) % Order = t + Order - s
      BY <1>1, <2>1, OrderAssumption, ModSmall
    <3>2. (t - s) % Order = t - s + Order
      BY <1>1, <2>1, OrderAssumption, ModNegative
    <3> QED
      BY <1>1, <1>5, <3>1, <3>2, OrderAssumption
  <2>2. CASE s <= t
    <3> PICK z \in Int : z = t + n
      BY <1>1, <1>5
    <3>1. Order <= z /\ z < 2 * Order /\ z - Order = t - s
      BY <1>1, <1>5, <2>2, OrderAssumption
    <3>2. z % Order = z - Order
      BY <3>1, OrderAssumption, ModLarge
    <3>3. (t - s) % Order = t - s
      BY <1>1, <2>2, OrderAssumption, ModSmall
    <3> QED
      BY <3>1, <3>2, <3>3
  <2> QED
    BY <1>1, <2>1, <2>2
<1> HIDE DEF m, n, q
<1>9. Plus(Commit(y, t), q) = [v |-> (y + m) % Order, s |-> (t + n) % Order]
  BY <1>3, <1>4, <1>6 DEF Plus
<1> QED
  BY <1>7, <1>8, <1>9 DEF q

\* Soundness of one step of CheckRangeProofs, whatever points the proof
\* consists of.
LEMMA CheckSound ==
    ASSUME NEW proof, NEW x \in Column, NEW y \in Column, NEW s \in Seed, NEW t \in Seed,
           CheckRangeProof(proof, Commit(x, s), Commit(y, t))
    PROVE  x <= y
<1> DEFINE d == (y - x) % Order
<1>1. /\ x \in Int /\ 0 <= x /\ 2 * x < Order
      /\ y \in Int /\ 0 <= y /\ 2 * y < Order
  BY ColumnBounds
<1>2. proof.p2.v = d
  BY DifferenceIs DEF CheckRangeProof
<1>3. d < RangeEnd
  BY <1>2 DEF CheckRangeProof, Verify
<1>4. CASE y < x
  <2>1. d = y - x + Order
    BY <1>1, <1>4, OrderAssumption, ModNegative
  <2> QED
    BY <1>1, <1>3, <2>1, OrderAssumption
<1> QED
  BY <1>1, <1>4

-----------------------------------------------------------------------------
(* The audit *)

\* The lists of a running audit are those of the table, and what has been
\* checked is in order.
Audited ==
    verdict \in {"checking", "passed"} =>
        /\ commitments = [n \in 1 .. Len(table) |-> Commit(table[n].val, table[n].seed)]
        /\ Len(proofs) = (IF Len(table) = 0 THEN 0 ELSE Len(table) - 1)
        /\ \A n \in 1 .. i - 1 :
               n < Len(table) => table[n].val <= table[n + 1].val

AuditInv ==
    /\ table \in Seq([val : Column, seed : Seed])
    /\ i \in Nat \ {0}
    /\ verdict = "none" => i = 1
    /\ verdict = "passed" => i > Len(proofs)
    /\ Audited

LEMMA ElementType ==
    ASSUME NEW R, NEW q \in Seq(R), NEW n \in 1 .. Len(q)
    PROVE  q[n] \in R
    OBVIOUS

LEMMA AuditInitial == Init => AuditInv
<1> SUFFICES ASSUME Init PROVE AuditInv
  OBVIOUS
<1>1. table \in Seq([val : Column, seed : Seed])
  BY TablesAssumption DEF Init
<1>2. i = 1 /\ verdict = "none"
  BY DEF Init
<1> QED
  BY <1>1, <1>2 DEF AuditInv, Audited

LEMMA AuditInductive == AuditInv /\ [Next]_vars => AuditInv'
<1> SUFFICES ASSUME AuditInv, [Next]_vars PROVE AuditInv'
  OBVIOUS
<1> USE DEF AuditInv
<1>1. CASE RequestCommitmentsAndProofs
  <2>1. Len(proofs') = (IF Len(table) = 0 THEN 0 ELSE Len(table) - 1)
    <3> DEFINE k == IF Len(table) = 0 THEN 0 ELSE Len(table) - 1
               Proof(n) == ProveGeneric(table[n + 1].val - table[n].val,
                                        table[n + 1].seed - table[n].seed, 0, BPMax)
    <3>1. k \in Nat /\ 1 .. Len(table) - 1 = 1 .. k
      <4>1. Len(table) \in Nat
        OBVIOUS
      <4> QED
        BY <4>1
    <3>2. proofs' = [n \in 1 .. k |-> Proof(n)]
      BY <1>1, <3>1 DEF RequestCommitmentsAndProofs
    <3> HIDE DEF Proof, k
    <3>3. Len(proofs') = k
      BY <3>1, <3>2
    <3> QED
      BY <3>3 DEF k
  <2>2. /\ table' = table /\ i' = 1 /\ verdict' = "checking"
        /\ commitments' = [n \in 1 .. Len(table) |-> Commit(table[n].val, table[n].seed)]
    BY <1>1 DEF RequestCommitmentsAndProofs
  <2> QED
    BY <2>1, <2>2 DEF Audited
<1>2. CASE CheckRangeProofs
  <2>1. UNCHANGED <<table, commitments, proofs>> /\ verdict = "checking"
    BY <1>2 DEF CheckRangeProofs
  <2>2. CASE i > Len(proofs)
    BY <1>2, <2>1, <2>2 DEF CheckRangeProofs, Audited
  <2>3. CASE /\ ~(i > Len(proofs))
             /\ \/ proofs[i].p2 = Zero
                \/ ~ CheckRangeProof(proofs[i], commitments[i], commitments[i + 1])
    BY <1>2, <2>1, <2>3 DEF CheckRangeProofs, Audited
  <2>4. CASE /\ ~(i > Len(proofs)) /\ proofs[i].p2 # Zero
             /\ CheckRangeProof(proofs[i], commitments[i], commitments[i + 1])
    <3>1. i' = i + 1 /\ verdict' = "checking"
      BY <1>2, <2>1, <2>4 DEF CheckRangeProofs
    <3>2. i \in 1 .. Len(table) /\ i + 1 \in 1 .. Len(table)
      BY <2>1, <2>4 DEF Audited
    <3>3. /\ commitments[i] = Commit(table[i].val, table[i].seed)
          /\ commitments[i + 1] = Commit(table[i + 1].val, table[i + 1].seed)
      BY <2>1, <3>2 DEF Audited
    <3>4. /\ table[i].val \in Column /\ table[i].seed \in Seed
          /\ table[i + 1].val \in Column /\ table[i + 1].seed \in Seed
      <4>1. table[i] \in [val : Column, seed : Seed]
        BY <3>2, ElementType
      <4>2. table[i + 1] \in [val : Column, seed : Seed]
        BY <3>2, ElementType
      <4> QED
        BY <4>1, <4>2
    <3>5. table[i].val <= table[i + 1].val
      BY <2>4, <3>3, <3>4, CheckSound
    <3> QED
      BY <2>1, <3>1, <3>5 DEF Audited
  <2> QED
    BY <2>2, <2>3, <2>4
<1>3. CASE UNCHANGED vars
  BY <1>3 DEF vars, Audited
<1> QED
  BY <1>1, <1>2, <1>3 DEF Next

\* An audit that passes has shown the leaves to be in order: for every group
\* order, range and table.
THEOREM AuditSound == Spec => []PassedIsSorted
<1>1. AuditInv => PassedIsSorted
  BY DEF AuditInv, Audited, PassedIsSorted
<1> QED
  BY <1>1, AuditInitial, AuditInductive, PTL DEF Spec


-----------------------------------------------------------------------------
(* What the audit rejects *)

\* Completeness of one step of CheckRangeProofs: it accepts what
\* RequestCommitmentsAndProofs makes for two neighbours in order.
LEMMA CheckComplete ==
    ASSUME NEW x \in Column, NEW y \in Column, NEW s \in Seed, NEW t \in Seed,
           x <= y, y - x < BPMax, s # t
    PROVE  CheckRangeProof(ProveGeneric(y - x, t - s, 0, BPMax), Commit(x, s), Commit(y, t))
<1> DEFINE proof == ProveGeneric(y - x, t - s, 0, BPMax)
           diff == Plus(Commit(y, t), Negated(Commit(x, s)))
           d == y - x
           e == (t - s) % Order
           far == RangeEnd - BPMax
<1>1. /\ x \in Int /\ 0 <= x /\ x < Order /\ y \in Int /\ 0 <= y /\ y < Order
      /\ s \in Int /\ 0 < s /\ s < Order /\ t \in Int /\ 0 < t /\ t < Order
  BY ColumnBounds, SeedBounds
<1>2. d \in Nat /\ d < BPMax /\ far \in Nat /\ BPMax <= far /\ d + far < RangeEnd
  BY <1>1, OrderAssumption
<1>3. d % Order = d /\ far % Order = far /\ (d + far) % Order = d + far /\ 0 % Order = 0
  BY <1>2, OrderAssumption, ModSmall
<1>4. e \in 0 .. Order - 1 /\ e # 0
  <2>1. CASE t < s
    <3>1. e = t - s + Order
      BY <1>1, <2>1, OrderAssumption, ModNegative
    <3> QED
      BY <1>1, <2>1, <3>1, OrderAssumption
  <2>2. CASE s < t
    <3>1. e = t - s
      BY <1>1, <2>2, OrderAssumption, ModSmall
    <3> QED
      BY <1>1, <2>2, <3>1, OrderAssumption
  <2> QED
    BY <1>1, <2>1, <2>2
<1>5. diff = [v |-> d, s |-> e]
  BY <1>3, DifferenceIs
<1>6. proof.p1 = [v |-> d + far, s |-> e] /\ proof.p2 = diff
  <2>1. y - x - BPMax + RangeEnd = d + far /\ y - x - 0 = d
    BY <1>1, OrderAssumption
  <2>2. proof = [p1 |-> Commit(d + far, t - s), p2 |-> Commit(d, t - s)]
    BY <2>1 DEF ProveGeneric
  <2> QED
    BY <1>3, <1>4, <1>5, <2>2 DEF Commit
<1>7. Commit(0, DUMMY) = [v |-> 0, s |-> DUMMY] /\ Commit(far, DUMMY) = [v |-> far, s |-> DUMMY]
  BY <1>2, <1>3, CommitIs, DummyAssumption
<1>8. DUMMY \in Int /\ 0 < DUMMY
  BY SeedBounds, DummyAssumption
<1> HIDE DEF proof, diff, d, e, far
<1>9. Plus(proof.p1, Commit(0, DUMMY)) = [v |-> d + far, s |-> (e + DUMMY) % Order]
  <2>1. d + far + 0 = d + far /\ d + far # 0
    BY <1>2, OrderAssumption
  <2>2. proof.p1 # Zero /\ proof.p1 # Commit(0, DUMMY) /\ Commit(0, DUMMY) # Zero
    BY <1>6, <1>7, <1>8, <2>1 DEF Zero
  <2> QED
    BY <1>3, <1>6, <1>7, <2>1, <2>2 DEF Plus
<1>10. Plus(diff, Commit(far, DUMMY)) = [v |-> d + far, s |-> (e + DUMMY) % Order]
  <2>1. d # far
    BY <1>2, OrderAssumption
  <2>2. diff # Zero /\ diff # Commit(far, DUMMY) /\ Commit(far, DUMMY) # Zero
    BY <1>4, <1>5, <1>7, <1>8, <2>1 DEF Zero
  <2> QED
    BY <1>3, <1>5, <1>7, <2>2 DEF Plus
<1>11. Verify(proof)
  BY <1>2, <1>5, <1>6, OrderAssumption DEF Verify
<1> QED
  BY <1>6, <1>9, <1>10, <1>11 DEF CheckRangeProof, proof, diff, far

\* Neighbours with the same seed have no second commitment.
LEMMA SameSeeds ==
    ASSUME NEW s \in Seed, NEW t \in Seed, NEW d, ProveGeneric(d, t - s, 0, BPMax).p2 # Zero
    PROVE  s # t
<1> SUFFICES ASSUME s = t PROVE FALSE
  OBVIOUS
<1>1. t - s = 0 /\ 0 % Order = 0
  BY SeedBounds, OrderAssumption, ModSmall
<1> QED
  BY <1>1 DEF ProveGeneric, Commit

\* The proofs of a running audit are those made for the neighbours, and
\* what it has rejected is no more than two of them out of order.
RejectInv ==
    /\ verdict = "checking" =>
           proofs = [n \in 1 .. Len(table) - 1 |->
                        ProveGeneric(table[n + 1].val - table[n].val,
                                     table[n + 1].seed - table[n].seed, 0, BPMax)]
    /\ RejectedIsUnsorted

LEMMA RejectInductive ==
    ASSUME AuditInv, RejectInv, [Next]_vars
    PROVE  RejectInv'
<1> USE DEF RejectInv, AuditInv
<1>1. CASE RequestCommitmentsAndProofs
  BY <1>1 DEF RequestCommitmentsAndProofs, RejectedIsUnsorted
<1>2. CASE CheckRangeProofs
  <2>1. UNCHANGED <<table, commitments, proofs>> /\ verdict = "checking"
    BY <1>2 DEF CheckRangeProofs
  <2>2. CASE verdict' # "rejected"
    BY <2>1, <2>2 DEF RejectedIsUnsorted
  <2>3. CASE verdict' = "rejected"
    <3>1. /\ ~(i > Len(proofs)) /\ proofs[i].p2 # Zero
          /\ ~ CheckRangeProof(proofs[i], commitments[i], commitments[i + 1])
      BY <1>2, <2>1, <2>3 DEF CheckRangeProofs
    <3>2. /\ i \in 1 .. Len(table) /\ i + 1 \in 1 .. Len(table)
          /\ i \in 1 .. Len(table) - 1
      BY <2>1, <3>1 DEF Audited
    <3>3. /\ commitments[i] = Commit(table[i].val, table[i].seed)
          /\ commitments[i + 1] = Commit(table[i + 1].val, table[i + 1].seed)
      BY <2>1, <3>2 DEF Audited
    <3>4. proofs[i] = ProveGeneric(table[i + 1].val - table[i].val,
                                   table[i + 1].seed - table[i].seed, 0, BPMax)
      BY <2>1, <3>2
    <3>5. /\ table[i].val \in Column /\ table[i].seed \in Seed
          /\ table[i + 1].val \in Column /\ table[i + 1].seed \in Seed
      <4>1. table[i] \in [val : Column, seed : Seed]
        BY <3>2, ElementType
      <4>2. table[i + 1] \in [val : Column, seed : Seed]
        BY <3>2, ElementType
      <4> QED
        BY <4>1, <4>2
    <3>6. ~(table[i].val <= table[i + 1].val /\ table[i + 1].val - table[i].val < BPMax)
      <4>1. table[i].seed # table[i + 1].seed
        BY <3>1, <3>4, <3>5, SameSeeds
      <4> QED
        BY <3>1, <3>3, <3>4, <3>5, <4>1, CheckComplete
    <3>7. table[i].val > table[i + 1].val \/ table[i + 1].val - table[i].val >= BPMax
      <4>1. table[i].val \in Int /\ table[i + 1].val \in Int
        BY <3>5, ColumnBounds
      <4> QED
        BY <3>6, <4>1, OrderAssumption
    <3> QED
      BY <2>1, <3>2, <3>7 DEF RejectedIsUnsorted
  <2> QED
    BY <2>2, <2>3
<1>3. CASE UNCHANGED vars
  BY <1>3 DEF vars, RejectedIsUnsorted
<1> QED
  BY <1>1, <1>2, <1>3 DEF Next

\* An audit rejects nothing that is in order: if it does, two neighbours
\* are out of order, or too far apart for BP_MAX.
THEOREM AuditComplete == Spec => []RejectedIsUnsorted
<1>1. Init => AuditInv /\ RejectInv
  BY AuditInitial DEF Init, RejectInv, RejectedIsUnsorted
<1>2. AuditInv /\ RejectInv /\ [Next]_vars => AuditInv' /\ RejectInv'
  BY AuditInductive, RejectInductive
<1>3. RejectInv => RejectedIsUnsorted
  BY DEF RejectInv
<1> QED
  BY <1>1, <1>2, <1>3, PTL DEF Spec

=============================================================================
