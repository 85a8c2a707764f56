---------------------------- MODULE MCRangeProof ----------------------------
(* Ranges of four bits in a group of order 1009.  Differences of values    *)
(* reach and exceed BP_MAX and 2^N, those of seeds are 0 and DUMMY, among   *)
(* others.                                                                  *)
EXTENDS Bulletproofs

Leaf(v, s) == [val |-> v, seed |-> s]
Leaves == {Leaf(v, s) : v \in {0, 4, 5, 6, 15, 16, 22}, s \in {1, 10, 11}}
ThreeLeaves == {Leaf(2, 1), Leaf(7, 10), Leaf(4, 11)}

MCTables == UNION {[1 .. n -> Leaves] : n \in 0 .. 2} \cup [1 .. 3 -> ThreeLeaves]

\* A hash of the exponents, from 1 to Order - 1.
MCHash(points) ==
    LET Weight(e) == e[2] + (CASE e[1] = "G" -> 11 [] e[1] = "H" -> 7 [] e[1] = "U" -> 5
                               [] e[1] = "g" -> 13 [] e[1] = "h" -> 29)
        Digest[n \in 0 .. Len(points)] ==
            IF n = 0 THEN 1
            ELSE (3 * Digest[n - 1] + MapThenSumSet(LAMBDA e : Weight(e) * points[n][e], Generators))
                     % (Order - 1)
    IN  1 + Digest[Len(points)]

\* Seeded alike and undisturbed, a process draws sL and sR equal.
MCRandoms ==
    { [alpha |-> 3, rho |-> 8, tau1 |-> 20, tau2 |-> 31,
       sL |-> <<5, 9, 2, 44>>, sR |-> <<5, 9, 2, 44>>],
      [alpha |-> 60, rho |-> 1, tau1 |-> 7, tau2 |-> 96,
       sL |-> <<1, 0, 77, 13>>, sR |-> <<0, 50, 4, 2>>] }

=============================================================================
