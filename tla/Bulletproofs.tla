---------------------------- MODULE Bulletproofs ------------------------------
(***************************************************************************)
(* The range proofs of RangeProof in full: Bulletproofs for [0, 2^N) with  *)
(* their inner-product arguments (crypto/bulletproofs: bp.go, bip.go,      *)
(* vector.go, util.go, bprp.go), made by the server and checked by client  *)
(* and auditor.                                                            *)
(*                                                                         *)
(* A point is the list of its exponents over independent generators.  The  *)
(* challenges are hashes of points, nonzero modulo the order.  The random  *)
(* numbers of a proof come from the generator that all goroutines of the   *)
(* process share and reseed, so any choice is possible.                    *)
(***************************************************************************)
EXTENDS RangeProof, FiniteSetsExt

CONSTANTS
    N,          \* number of bits of a range
    Hash(_),    \* hash of a sequence of points
    Randoms     \* what a prover may draw: [alpha, rho, tau1, tau2, sL, sR]

Inverses(x) == {y \in 1 .. Order - 1 : (x * y) % Order = 1}

ASSUME SetupAssumption ==      \* Setup: N is a power of two
    /\ N \in {1, 2, 4, 8, 16, 32} /\ RangeEnd = 2 ^ N
    /\ \A x \in 1 .. Order - 1 : Inverses(x) # {}

ModInverse(x) == CHOOSE y \in 1 .. Order - 1 : (x * y) % Order = 1

-----------------------------------------------------------------------------
(* Points.  The name Multiply is the code's: the group is written additively *)
(* in one half of it.                                                        *)

Generators ==
    {<<"G", 0>>, <<"H", 0>>, <<"U", 0>>} \cup ({"g", "h"} \X (1 .. N))

Infinity == [e \in Generators |-> 0]
Generator(name, n) == [Infinity EXCEPT ![<<name, n>>] = 1]

G  == Generator("G", 0)
H  == Generator("H", 0)
Uu == Generator("U", 0)
Gg == [n \in 1 .. N |-> Generator("g", n)]
Hh == [n \in 1 .. N |-> Generator("h", n)]

ScalarMult(p, n) ==
    IF p = Infinity \/ n = 0 THEN Infinity
    ELSE [e \in Generators |-> (p[e] * n) % Order]

Neg(p) == ScalarMult(p, Order - 1)

Multiply(p, q) ==
    IF p = Infinity THEN q
    ELSE IF q = Infinity THEN p
    ELSE [e \in Generators |-> (p[e] + q[e]) % Order]

\* Mutant of Add: it doubles.
AddOrDouble(p, q) == Multiply(p, q)

\* Input points must be distinct and the right one is not infinity, or the
\* result is infinity.
Add(p, q) ==
    IF p = Infinity THEN q
    ELSE IF q = Infinity \/ p = q THEN Infinity
    ELSE Multiply(p, q)

CommitG1(v, r) == Add(ScalarMult(G, v), ScalarMult(H, r))

-----------------------------------------------------------------------------
(* Vectors of numbers modulo the order, and of points *)

RECURSIVE Total(_)
Total(s) == IF s = <<>> THEN 0 ELSE Head(s) + Total(Tail(s))

VectorCopy(x)         == [n \in 1 .. N |-> x % Order]
PowerOf(x)            ==
    LET power[n \in 1 .. N] == IF n = 1 THEN 1 ELSE (power[n - 1] * x) % Order IN power
VectorAdd(a, b)       == [n \in DOMAIN a |-> (a[n] + b[n]) % Order]
VectorSub(a, b)       == [n \in DOMAIN a |-> (a[n] - b[n]) % Order]
VectorMul(a, b)       == [n \in DOMAIN a |-> (a[n] * b[n]) % Order]
VectorScalarMul(a, x) == [n \in DOMAIN a |-> (a[n] * x) % Order]
ScalarProduct(a, b)   == Total(VectorMul(a, b)) % Order

RECURSIVE VectorExp(_, _)
VectorExp(ps, a) ==
    IF ps = <<>> THEN Infinity
    ELSE Multiply(ScalarMult(Head(ps), Head(a)), VectorExp(Tail(ps), Tail(a)))
VectorScalarExp(ps, x) == [n \in DOMAIN ps |-> ScalarMult(ps[n], x)]
VectorECAdd(ps, qs)    == [n \in DOMAIN ps |-> Multiply(ps[n], qs[n])]

LowHalf(s)  == SubSeq(s, 1, Len(s) \div 2)
HighHalf(s) == SubSeq(s, Len(s) \div 2 + 1, Len(s))

\* The second of two digests is of the same text as the first.
HashBP(p, q) == <<Hash(<<p, q>>), Hash(<<p, q>>)>>

HashIP(hs, P, c) == Hash(<<P, ScalarMult(G, c)>> \o Gg \o hs)

-----------------------------------------------------------------------------
(* The inner-product argument: halves the vectors until one element is left. *)

\* What both sides do with the generators and with the point that commits to
\* the two vectors, after a challenge x.
FoldG(gs, x) ==
    VectorECAdd(VectorScalarExp(LowHalf(gs), ModInverse(x)), VectorScalarExp(HighHalf(gs), x))
FoldH(hs, x) ==
    VectorECAdd(VectorScalarExp(LowHalf(hs), x), VectorScalarExp(HighHalf(hs), ModInverse(x)))
FoldP(P, L, R, x) ==
    LET x2 == (x * x) % Order
    IN  Multiply(Multiply(ScalarMult(L, x2), P), ScalarMult(R, ModInverse(x2)))

RECURSIVE ComputeBipRecursive(_, _, _, _, _, _, _)
ComputeBipRecursive(a, b, gs, hs, u, Ls, Rs) ==
    IF Len(a) = 1 THEN [a |-> a[1], b |-> b[1], u |-> u, Ls |-> Ls, Rs |-> Rs]
    ELSE LET cL == ScalarProduct(LowHalf(a), HighHalf(b))
             cR == ScalarProduct(HighHalf(a), LowHalf(b))
             L  == Multiply(Multiply(VectorExp(HighHalf(gs), LowHalf(a)),
                                     VectorExp(LowHalf(hs), HighHalf(b))), ScalarMult(u, cL))
             R  == Multiply(Multiply(VectorExp(LowHalf(gs), HighHalf(a)),
                                     VectorExp(HighHalf(hs), LowHalf(b))), ScalarMult(u, cR))
             x  == HashBP(L, R)[1]
             Folded(s, low, high) ==
                 VectorAdd(VectorScalarMul(LowHalf(s), low), VectorScalarMul(HighHalf(s), high))
         IN  ComputeBipRecursive(Folded(a, x, ModInverse(x)), Folded(b, ModInverse(x), x),
                                 FoldG(gs, x), FoldH(hs, x), u, Append(Ls, L), Append(Rs, R))

\* hs and P are the parameters that the proof carries to the verifier.
ProveInnerProduct(a, b, P, hs, c) ==
    LET ux == ScalarMult(Uu, HashIP(hs, P, c))
    IN  [proof |-> ComputeBipRecursive(a, b, Gg, hs, ux, <<>>, <<>>),
         hs    |-> hs,
         P     |-> Multiply(P, ScalarMult(ux, c))]

RECURSIVE FoldAll(_, _, _, _, _)
FoldAll(gs, hs, P, Ls, Rs) ==
    IF Ls = <<>> THEN [g |-> gs[1], h |-> hs[1], P |-> P]
    ELSE LET x == HashBP(Head(Ls), Head(Rs))[1]
         IN  FoldAll(FoldG(gs, x), FoldH(hs, x), FoldP(P, Head(Ls), Head(Rs), x),
                     Tail(Ls), Tail(Rs))

\* The difference of both sides.  The code computes it in place of P.
Difference(ip) ==
    LET p   == ip.proof
        end == FoldAll(Gg, ip.hs, ip.P, p.Ls, p.Rs)
        rhs == Multiply(Multiply(ScalarMult(end.g, p.a), ScalarMult(end.h, p.b)),
                        ScalarMult(p.u, p.a * p.b))
    IN  Multiply(Neg(end.P), rhs)

VerifyInnerProduct(ip) == Difference(ip) = Infinity

-----------------------------------------------------------------------------
(* Bulletproofs *)

\* Mutant of Decompose: the highest bit is missing.
DecomposeShort(secret) ==
    [n \in 1 .. N |-> IF n = N THEN 0 ELSE (secret \div 2 ^ (n - 1)) % 2]

\* The lowest N bits, also of a negative number.
Decompose(secret) == [n \in 1 .. N |-> (secret \div 2 ^ (n - 1)) % 2]

ComputeAR(aL) == [n \in DOMAIN aL |-> aL[n] - 1]

CommitVector(aL, aR, alpha) ==
    Multiply(ScalarMult(H, alpha), Multiply(VectorExp(Gg, aL), VectorExp(Hh, aR)))

\* Mutant of UpdateGenerators: the powers start at 1.
UpdateGeneratorsFromOne(y) ==
    LET yinv == PowerOf(ModInverse(y))
    IN  [n \in 1 .. N |-> ScalarMult(Hh[n], yinv[n] * ModInverse(y))]

UpdateGenerators(y) ==
    LET yinv == PowerOf(ModInverse(y))
    IN  [n \in 1 .. N |-> ScalarMult(Hh[n], yinv[n])]

Delta(y, z) ==
    LET z2 == (z * z) % Order
        sp1y == ScalarProduct(VectorCopy(1), PowerOf(y))
        sp12 == ScalarProduct(VectorCopy(1), PowerOf(2))
    IN  (((z - z2) % Order) * sp1y - ((z2 * z) % Order) * sp12) % Order

Prove(secret, gamma, rnd) ==
    LET aL == Decompose(secret)
        aR == ComputeAR(aL)
        A  == CommitVector(aL, aR, rnd.alpha)
        S  == CommitVector(rnd.sL, rnd.sR, rnd.rho)
        y  == HashBP(A, S)[1]
        z  == HashBP(A, S)[2]
        aLmvz  == VectorSub(aL, VectorCopy(z))
        aRzn   == VectorAdd(aR, VectorCopy(z))
        ynsR   == VectorMul(PowerOf(y), rnd.sR)
        z22n   == VectorScalarMul(PowerOf(2), z * z)
        ynaRzn == VectorAdd(VectorMul(PowerOf(y), aRzn), z22n)
        t1 == (ScalarProduct(aLmvz, ynsR) + ScalarProduct(rnd.sL, ynaRzn)) % Order
        t2 == ScalarProduct(rnd.sL, ynsR)
        T1 == CommitG1(t1, rnd.tau1)
        T2 == CommitG1(t2, rnd.tau2)
        x  == HashBP(T1, T2)[1]
        bl == VectorAdd(aLmvz, VectorScalarMul(rnd.sL, x))
        br == VectorAdd(VectorMul(PowerOf(y), VectorAdd(aRzn, VectorScalarMul(rnd.sR, x))), z22n)
        tprime == ScalarProduct(bl, br)
        hprime == UpdateGenerators(y)
        commit == Multiply(VectorExp(Gg, bl), VectorExp(hprime, br))
    IN  [V  |-> CommitG1(secret, gamma), A |-> A, S |-> S, T1 |-> T1, T2 |-> T2,
         taux   |-> (rnd.tau2 * ((x * x) % Order) + rnd.tau1 * x + ((z * z) % Order) * gamma) % Order,
         mu     |-> (rnd.rho * x + rnd.alpha) % Order,
         tprime |-> tprime,
         commit |-> commit,
         ip     |-> ProveInnerProduct(bl, br, commit, hprime, tprime)]

\* Conditions (65), (66) and (67) of the paper, then the inner product.
VerifyBulletProof(proof) ==
    LET x == HashBP(proof.T1, proof.T2)[1]
        y == HashBP(proof.A, proof.S)[1]
        z == HashBP(proof.A, proof.S)[2]
        rhs == Multiply(Multiply(Multiply(ScalarMult(proof.V, z * z), ScalarMult(G, Delta(y, z))),
                                 ScalarMult(proof.T1, x)), ScalarMult(proof.T2, x * x))
        zyn22n == VectorAdd(VectorMul(PowerOf(y), VectorCopy(z)),
                            VectorScalarMul(PowerOf(2), z * z))
        lP == Add(Add(Add(proof.A, ScalarMult(proof.S, x)),
                      VectorExp(Gg, VectorCopy(Order - z))),
                  VectorExp(UpdateGenerators(y), zyn22n))
        rP == Multiply(ScalarMult(H, proof.mu), proof.commit)
    IN  /\ Multiply(rhs, Neg(CommitG1(proof.tprime, proof.taux))) = Infinity
        /\ Add(rP, Neg(lP)) = Infinity
        /\ VerifyInnerProduct(proof.ip)

-----------------------------------------------------------------------------
(* Range proofs for [a, b), and their use by the client and the auditor *)

ProveBPRP(secret, seed, a, b, rnd) ==
    [P1 |-> Prove(secret - b + RangeEnd, seed, rnd[1]),
     P2 |-> Prove(secret - a, seed, rnd[2])]

\* Mutant of VerifyBPRP: the first proof decides.
VerifyFirst(proof) == VerifyBulletProof(proof.P1)

VerifyBPRP(proof) == VerifyBulletProof(proof.P1) /\ VerifyBulletProof(proof.P2)

\* After its verification: the point P of the parameters is what Difference
\* has left there.  The second proof is only verified if the first one is.
Spent(proof) ==
    [P1 |-> [proof.P1 EXCEPT !.ip.P = Difference(proof.P1.ip)],
     P2 |-> IF VerifyBulletProof(proof.P1)
            THEN [proof.P2 EXCEPT !.ip.P = Difference(proof.P2.ip)] ELSE proof.P2]

\* The client's verifyLeafProof.
LeafProofVerified(proof, leaf, minVal, maxVal) ==
    LET leafDummy == Add(leaf, CommitG1(0, DUMMY))
    IN  /\ VerifyBPRP(proof)
        /\ Add(proof.P1.V, CommitG1(maxVal - RangeEnd, DUMMY)) = leafDummy
        /\ Add(proof.P2.V, CommitG1(minVal, DUMMY)) = leafDummy

\* The body of the auditor's CheckRangeProofs.
RangeProofChecked(proof, left, right) ==
    LET diffComm == Add(right, Neg(left))
    IN  /\ Add(proof.P1.V, CommitG1(0, DUMMY)) = Add(diffComm, CommitG1(RangeEnd - BPMax, DUMMY))
        /\ proof.P2.V = diffComm
        /\ VerifyBPRP(proof)

-----------------------------------------------------------------------------
(* The audit of RangeProof, with these proofs *)

VARIABLE bulletproofs    \* the proofs that the entries of proofs stand for

bpVars == <<table, commitments, proofs, i, verdict, bulletproofs>>

BPInit == Init /\ bulletproofs = <<>>

LeafCommitment(n) == CommitG1(table[n].val, table[n].seed)

\* The server makes the proofs.
Request ==
    /\ RequestCommitmentsAndProofs
    /\ \E rnd \in [1 .. Len(table) - 1 -> Randoms \X Randoms] :
           bulletproofs' = [n \in 1 .. Len(table) - 1 |->
               ProveBPRP(table[n + 1].val - table[n].val,
                         table[n + 1].seed - table[n].seed, 0, BPMax, rnd[n])]

\* The auditor checks the next one.  A point without coordinates cannot be
\* compared.
Check ==
    /\ verdict = "checking"
    /\ IF i > Len(bulletproofs)
       THEN verdict' = "passed" /\ UNCHANGED <<i, bulletproofs>>
       ELSE LET proof == bulletproofs[i]
            IN  IF proof.P2.V = Infinity
                THEN verdict' = "panic" /\ UNCHANGED <<i, bulletproofs>>
                ELSE /\ IF RangeProofChecked(proof, LeafCommitment(i), LeafCommitment(i + 1))
                        THEN i' = i + 1 /\ UNCHANGED verdict
                        ELSE verdict' = "rejected" /\ UNCHANGED i
                     /\ bulletproofs' = [bulletproofs EXCEPT ![i] = Spent(@)]
    /\ UNCHANGED <<table, commitments, proofs>>

BPNext == Request \/ Check

BPSpec == BPInit /\ [][BPNext]_bpVars

-----------------------------------------------------------------------------
(* Properties *)

\* The audit with Bulletproofs is the audit of RangeProof, where a proof
\* verifies exactly if its value is in range: whatever numbers were drawn,
\* the equations hold for a value in range, and for no other.
ImplementsRangeProof == Spec

\* The proof that the server makes for a leaf convinces the client of exactly
\* the intervals that its value is in, unless the seed is that of the dummy
\* commitments: then a sum of two equal points may come out as infinity, and
\* the client refuses a proof although the value is in the interval.  It
\* refuses exactly where VerifyLeafProof does.
LeafProofsAgree ==
    verdict = "none" /\ Len(table) = 1 =>
        \A n \in DOMAIN table, rnd \in Randoms :
        \A lo, hi \in {0, BPMax} \cup {table[n].val \div 2, table[n].val, table[n].val + 1} :
            lo < hi /\ hi <= BPMax =>
                LET leaf == table[n]
                    proof == ProveBPRP(leaf.val, leaf.seed, lo, hi, <<rnd, rnd>>)
                    verified == LeafProofVerified(proof, LeafCommitment(n), lo, hi)
                IN  /\ verified => leaf.val \in lo .. hi - 1
                    /\ leaf.val \in lo .. hi - 1 /\ leaf.seed # DUMMY => verified
                    /\ verified = VerifyLeafProof(ProveGeneric(leaf.val, leaf.seed, lo, hi),
                                                  Commit(leaf.val, leaf.seed), lo, hi)

=============================================================================
