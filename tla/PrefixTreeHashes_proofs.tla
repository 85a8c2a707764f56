---------------------- MODULE PrefixTreeHashes_proofs ----------------------
(***************************************************************************)
(* Proofs about what a prefix tree is to those outside: between calls the  *)
(* root hash is the one that the definition of a compressed trie gives     *)
(* for the pairs that were appended, whatever their order; and every       *)
(* store of PrefixAppend, with clients reading in between, is a step of    *)
(* PrefixMap.                                                              *)
(***************************************************************************)
EXTENDS PrefixTreeHashes, PrefixTree_proofs

-----------------------------------------------------------------------------
(* The hash of a map, bit by bit *)

\* The first n steps: TrieHash is defined by recursion over all of them.
FirstHashes(map, n, f) ==
    f = [i \in 0 .. n |-> IF i = 0 THEN LeafHashes(map) ELSE HashesAbove(map, f[i - 1])]

LEMMA HashesIs ==
    ASSUME NEW map, NEW n \in Nat, NEW f, FirstHashes(map, n, f)
    PROVE  \A i \in 0 .. n : f[i] = IF i = 0 THEN LeafHashes(map) ELSE HashesAbove(map, f[i - 1])
BY Zenon DEF FirstHashes

LEMMA HashesAgree ==
    ASSUME NEW map, NEW n \in Nat, NEW m \in Nat, NEW f, NEW g,
           FirstHashes(map, n, f), FirstHashes(map, m, g), NEW i \in Nat, i <= n, i <= m
    PROVE  f[i] = g[i]
<1>1. \A y \in 0 .. n : f[y] = IF y = 0 THEN LeafHashes(map) ELSE HashesAbove(map, f[y - 1])
  BY HashesIs
<1>2. \A y \in 0 .. m : g[y] = IF y = 0 THEN LeafHashes(map) ELSE HashesAbove(map, g[y - 1])
  BY HashesIs
<1> DEFINE D == {j \in Nat : j <= n /\ j <= m /\ f[j] # g[j]}
<1> SUFFICES ASSUME D # {} PROVE FALSE
  OBVIOUS
<1>3. D \subseteq Nat
  OBVIOUS
<1>4. Min(D) \in D /\ \A y \in D : Min(D) <= y
  BY <1>3, NatMin
<1> DEFINE j == Min(D)
<1>5. j \in Nat /\ j <= n /\ j <= m /\ f[j] # g[j] /\ \A y \in D : j <= y
  BY <1>4
<1> HIDE DEF j
<1>6. /\ f[j] = IF j = 0 THEN LeafHashes(map) ELSE HashesAbove(map, f[j - 1])
      /\ g[j] = IF j = 0 THEN LeafHashes(map) ELSE HashesAbove(map, g[j - 1])
  <2>1. j \in 0 .. n /\ j \in 0 .. m
    BY <1>5
  <2> QED
    BY <1>1, <1>2, <2>1
<1>7. j # 0
  BY <1>5, <1>6
<1>8. j - 1 \in Nat /\ j - 1 <= n /\ j - 1 <= m /\ j - 1 \notin D
  BY <1>5, <1>7
<1>9. f[j - 1] = g[j - 1]
  BY <1>8
<1> QED
  BY <1>5, <1>6, <1>7, <1>9

\* They exist: if not, take the first that does not.
LEMMA FirstHashesExist ==
    ASSUME NEW map, NEW n \in Nat
    PROVE  \E f : FirstHashes(map, n, f)
<1> DEFINE D == {m \in Nat : \A f : ~ FirstHashes(map, m, f)}
<1> SUFFICES ASSUME D # {} PROVE FALSE
  OBVIOUS
<1>1. D \subseteq Nat
  OBVIOUS
<1>2. Min(D) \in D /\ \A y \in D : Min(D) <= y
  BY <1>1, NatMin
<1> DEFINE m == Min(D)
<1>3. m \in Nat /\ (\A f : ~ FirstHashes(map, m, f)) /\ \A y \in D : m <= y
  BY <1>2
<1> HIDE DEF m
<1>4. CASE m = 0
  <2> DEFINE f == [i \in 0 .. 0 |-> LeafHashes(map)]
  <2>1. f = [i \in 0 .. m |-> IF i = 0 THEN LeafHashes(map) ELSE HashesAbove(map, f[i - 1])]
    BY <1>4
  <2> QED
    BY <1>3, <2>1 DEF FirstHashes
<1>5. CASE m # 0
  <2> DEFINE p == m - 1
  <2>1. p \in Nat /\ m = p + 1 /\ p \notin D
    BY <1>3, <1>5
  <2>2. PICK f : FirstHashes(map, p, f)
    BY <2>1
  <2> HIDE DEF p
  <2> DEFINE g == [i \in 0 .. m |-> IF i = m THEN HashesAbove(map, f[p]) ELSE f[i]]
  <2>3. ASSUME NEW i \in 0 .. m
        PROVE  g[i] = IF i = 0 THEN LeafHashes(map) ELSE HashesAbove(map, g[i - 1])
    <3>1. CASE i = m
      <4>1. i # 0 /\ i - 1 = p /\ p \in 0 .. m /\ p # m
        BY <2>1, <3>1
      <4> QED
        BY <3>1, <4>1
    <3>2. CASE i # m
      <4>1. i \in 0 .. p /\ (i # 0 => i - 1 \in 0 .. m /\ i - 1 # m)
        BY <2>1, <2>3, <3>2
      <4>2. f[i] = IF i = 0 THEN LeafHashes(map) ELSE HashesAbove(map, f[i - 1])
        BY <2>1, <2>2, <4>1, HashesIs
      <4> QED
        BY <3>2, <4>1, <4>2
    <3> QED
      BY <3>1, <3>2
  <2>4. g = [i \in 0 .. m |-> IF i = 0 THEN LeafHashes(map) ELSE HashesAbove(map, g[i - 1])]
    BY <2>3
  <2> QED
    BY <1>3, <2>4 DEF FirstHashes
<1> QED
  BY <1>4, <1>5

\* TrieHash is what its definition says.
LEMMA TrieHashIs ==
    ASSUME NEW map
    PROVE  /\ TrieHash(map)[0] = LeafHashes(map)
           /\ \A n \in Nat : TrieHash(map)[n + 1] = HashesAbove(map, TrieHash(map)[n])
<1> DEFINE c == CHOOSE f : f = [n \in Nat |-> IF n = 0 THEN LeafHashes(map) ELSE HashesAbove(map, f[n - 1])]
           at0(n) == CHOOSE f : FirstHashes(map, n, f)
           F == [n \in Nat |-> at0(n)[n]]
<1>1. TrieHash(map) = c
  BY DEF TrieHash
<1>2. \A n \in Nat : FirstHashes(map, n, at0(n))
  BY FirstHashesExist
<1> HIDE DEF at0
<1>3. ASSUME NEW n \in Nat
      PROVE  F[n] = IF n = 0 THEN LeafHashes(map) ELSE HashesAbove(map, F[n - 1])
  <2>1. FirstHashes(map, n, at0(n)) /\ n \in 0 .. n
    BY <1>2
  <2>2. at0(n)[n] = IF n = 0 THEN LeafHashes(map) ELSE HashesAbove(map, at0(n)[n - 1])
    BY <2>1, HashesIs
  <2>3. ASSUME n # 0 PROVE at0(n)[n - 1] = at0(n - 1)[n - 1]
    <3>1. n - 1 \in Nat /\ n - 1 <= n /\ n - 1 <= n - 1
      BY <2>3
    <3>2. FirstHashes(map, n - 1, at0(n - 1))
      BY <1>2, <3>1
    <3> DEFINE p == n - 1
    <3> HIDE DEF p
    <3>3. at0(n)[p] = at0(p)[p]
      BY <2>1, <3>1, <3>2, HashesAgree DEF p
    <3> QED
      BY <3>3 DEF p
  <2>4. n # 0 => n - 1 \in Nat
    OBVIOUS
  <2> QED
    BY <2>2, <2>3, <2>4
<1>4. F = [n \in Nat |-> IF n = 0 THEN LeafHashes(map) ELSE HashesAbove(map, F[n - 1])]
  BY <1>3
<1> HIDE DEF F
<1>5. c = [n \in Nat |-> IF n = 0 THEN LeafHashes(map) ELSE HashesAbove(map, c[n - 1])]
  BY <1>4
<1> HIDE DEF c
<1>6. \A n \in Nat : c[n] = IF n = 0 THEN LeafHashes(map) ELSE HashesAbove(map, c[n - 1])
  BY <1>5, Zenon
<1>7. \A n \in Nat : n + 1 \in Nat /\ n + 1 # 0 /\ n + 1 - 1 = n
  OBVIOUS
<1>8. c[0] = LeafHashes(map)
  BY <1>6
<1>9. \A n \in Nat : c[n + 1] = HashesAbove(map, c[n])
  BY <1>6, <1>7
<1> QED
  BY <1>1, <1>8, <1>9

-----------------------------------------------------------------------------
(* The tree at rest has the root hash of its map *)

\* One bit more.
LEMMA OneBitMore ==
    ASSUME NEW p \in Seq(Bit), NEW b \in Bit
    PROVE  /\ Append(p, b) \in Seq(Bit) /\ Len(Append(p, b)) = Len(p) + 1 /\ Len(p) \in Nat
           /\ \A x \in 1 .. Len(p) : Append(p, b)[x] = p[x]
           /\ Append(p, b)[Len(p) + 1] = b
           /\ IsPrefix(p, Append(p, b))
<1> DEFINE q == Append(p, b)
<1>1. /\ q \in Seq(Bit) /\ Len(q) = Len(p) + 1 /\ Len(p) \in Nat
      /\ \A x \in 1 .. Len(p) : q[x] = p[x]
      /\ q[Len(p) + 1] = b
  BY AppendProperties, LenProperties
<1> HIDE DEF q
<1>2. IsPrefix(p, q)
  <2>1. Len(p) <= Len(q)
    BY <1>1
  <2> QED
    BY <1>1, <2>1, PrefixIs
<1> QED
  BY <1>1, <1>2 DEF q

LEMMA NextBit ==
    ASSUME NEW t \in Seq(Bit), NEW i \in Nat, i < Len(t)
    PROVE  Append(SubSeq(t, 1, i), t[i + 1]) = SubSeq(t, 1, i + 1)
<1> DEFINE p == SubSeq(t, 1, i)
           q == SubSeq(t, 1, i + 1)
           r == Append(p, t[i + 1])
<1>1. Len(t) \in Nat /\ i \in 0 .. Len(t) /\ i + 1 \in 0 .. Len(t) /\ t[i + 1] \in Bit
  <2>1. Len(t) \in Nat
    BY LenProperties
  <2>2. i + 1 \in 1 .. Len(t)
    BY <2>1
  <2> QED
    BY <2>1, <2>2, ElementOfSeq
<1>2. p \in Seq(Bit) /\ Len(p) = i /\ \A x \in 1 .. i : p[x] = t[x]
  BY <1>1, FirstBits
<1>3. q \in Seq(Bit) /\ Len(q) = i + 1 /\ \A x \in 1 .. i + 1 : q[x] = t[x]
  BY <1>1, FirstBits
<1> HIDE DEF p, q
<1>4. r \in Seq(Bit) /\ Len(r) = i + 1 /\ (\A x \in 1 .. i : r[x] = p[x]) /\ r[i + 1] = t[i + 1]
  BY <1>1, <1>2, OneBitMore
<1> HIDE DEF r
<1>5. \A x \in 1 .. i + 1 : r[x] = q[x]
  BY <1>2, <1>3, <1>4
<1>6. r = q
  BY <1>3, <1>4, <1>5, SeqEqual
<1> QED
  BY <1>6 DEF p, q, r

\* The prefixes of the nodes are not longer and longer.
LEMMA KeysAreBounded ==
    ASSUME TreeInv
    PROVE  \E x \in Nat : \A n \in DOMAIN nodes : Len(nodes[n].key) <= x
<1> DEFINE Bounded(m, x) == \A n \in 1 .. m : Len(nodes[n].key) <= x
           D == {m \in Nat : m <= Len(nodes) /\ \A x \in Nat : ~ Bounded(m, x)}
<1>1. Len(nodes) \in Nat /\ DOMAIN nodes = 1 .. Len(nodes) /\ \A n \in DOMAIN nodes : Len(nodes[n].key) \in Nat
  BY TypesOfTree
<1>2. ASSUME D # {} PROVE FALSE
  <2>1. D \subseteq Nat
    OBVIOUS
  <2>2. Min(D) \in D /\ \A y \in D : Min(D) <= y
    BY <1>2, <2>1, NatMin
  <2> DEFINE m == Min(D)
  <2>3. m \in Nat /\ m <= Len(nodes) /\ (\A x \in Nat : ~ Bounded(m, x)) /\ \A y \in D : m <= y
    BY <2>2
  <2> HIDE DEF m
  <2>4. m # 0
    <3>1. Bounded(0, 0)
      OBVIOUS
    <3> HIDE DEF Bounded
    <3> QED
      BY <2>3, <3>1
  <2>5. m - 1 \in Nat /\ m - 1 <= Len(nodes) /\ m - 1 \notin D
    <3>1. m - 1 \in Nat /\ m - 1 <= Len(nodes) /\ ~ (m <= m - 1)
      BY <1>1, <2>3, <2>4
    <3> HIDE DEF D
    <3> QED
      BY <2>3, <3>1
  <2>6. PICK x \in Nat : Bounded(m - 1, x)
    <3> HIDE DEF Bounded
    <3> QED
      BY <2>5
  <2> DEFINE l == Len(nodes[m].key)
             z == IF l <= x THEN x ELSE l
  <2>7. l \in Nat
    <3>1. m \in DOMAIN nodes
      BY <1>1, <2>3, <2>4
    <3> QED
      BY <1>1, <3>1
  <2>8. z \in Nat /\ l <= z /\ x <= z
    BY <2>7
  <2>9. ASSUME NEW n \in 1 .. m PROVE Len(nodes[n].key) <= z
    <3>1. CASE n = m
      BY <2>8, <3>1
    <3>2. CASE n # m
      <4>1. n \in 1 .. m - 1 /\ n \in DOMAIN nodes
        BY <1>1, <2>3, <2>9, <3>2
      <4>2. Len(nodes[n].key) <= x /\ Len(nodes[n].key) \in Nat
        BY <1>1, <2>6, <4>1
      <4> HIDE DEF z
      <4> QED
        BY <2>8, <4>2
    <3> QED
      BY <3>1, <3>2
  <2>10. Bounded(m, z)
    BY <2>9
  <2> HIDE DEF Bounded, z
  <2> QED
    BY <2>3, <2>8, <2>10
<1>3. PICK x \in Nat : Bounded(Len(nodes), x)
  <2> HIDE DEF Bounded
  <2> QED
    BY <1>1, <1>2
<1> QED
  BY <1>1, <1>3

\* Under every node but the root there is something.
LEMMA LeafBelow ==
    ASSUME TreeInv, wpc = "idle", NEW n \in DOMAIN nodes \ {Root}
    PROVE  \E k \in Keys : content[k] # NoValue /\ IsPrefix(nodes[n].key, k)
<1> DEFINE Has(m) == \E k \in Keys : content[k] # NoValue /\ IsPrefix(nodes[m].key, k)
           B == {m \in DOMAIN nodes \ {Root} : ~ Has(m)}
<1>1. PICK x \in Nat : \A m \in DOMAIN nodes : Len(nodes[m].key) <= x
  BY KeysAreBounded
<1> DEFINE D == {x - Len(nodes[m].key) : m \in B}
<1>2. \A m \in DOMAIN nodes : nodes[m].key \in Seq(Bit) /\ Len(nodes[m].key) \in Nat
  BY TypesOfTree
<1> SUFFICES ASSUME B # {} PROVE FALSE
  OBVIOUS
<1>3. D \subseteq Nat /\ D # {}
  BY <1>1, <1>2
<1>4. Min(D) \in D /\ \A y \in D : Min(D) <= y
  BY <1>3, NatMin
<1>5. PICK m \in B : Min(D) = x - Len(nodes[m].key)
  BY <1>4
<1>6. ASSUME NEW o \in DOMAIN nodes \ {Root}, Len(nodes[m].key) < Len(nodes[o].key) PROVE Has(o)
  <2>1. o \in B => x - Len(nodes[m].key) <= x - Len(nodes[o].key)
    BY <1>4, <1>5
  <2>2. o \notin B
    BY <1>2, <1>6, <2>1
  <2> QED
    BY <2>2
<1>7. m \in DOMAIN nodes \ {Root} /\ ~ Has(m)
  OBVIOUS
<1>8. CASE nodes[m].leaf
  <2>1. nodes[m].value = content[nodes[m].key] /\ nodes[m].value # NoValue /\ nodes[m].key \in Keys
    BY <1>7, <1>8, LeafAtRest DEF TreeInv, NodesFit
  <2>2. IsPrefix(nodes[m].key, nodes[m].key)
    BY <1>2, <1>7, PrefixRefl
  <2> QED
    BY <1>7, <2>1, <2>2
<1>9. CASE ~ nodes[m].leaf
  <2>1. ChildOf(nodes, m, 0) # Nil
    BY <1>7, <1>9 DEF TreeInv, OthersAreFull, Moving, Bit
  <2> DEFINE c == ChildOf(nodes, m, 0)
  <2>2. ChildFits(m, 0, c)
    BY <1>7, <2>1 DEF TreeInv, ChildrenFit, Bit
  <2> HIDE DEF c
  <2>3. /\ c \in DOMAIN nodes \ {Root} /\ Len(nodes[c].key) = Len(nodes[m].key) + Len(nodes[c].partial)
        /\ IsPrefix(nodes[m].key, nodes[c].key)
    BY <2>2 DEF ChildFits
  <2>4. Len(nodes[c].partial) > 0 /\ Len(nodes[c].partial) \in Nat
    BY <2>3, TypesOfTree DEF TreeInv, NodesFit
  <2>5. Len(nodes[m].key) < Len(nodes[c].key)
    <3>1. Len(nodes[m].key) \in Nat
      BY <1>2, <1>7
    <3>2. \A i, j \in Nat : j > 0 => i < i + j
      OBVIOUS
    <3> HIDE DEF Has, B, D
    <3> QED
      BY <2>3, <2>4, <3>1, <3>2
  <2>6. PICK k \in Keys : content[k] # NoValue /\ IsPrefix(nodes[c].key, k)
    BY <1>6, <2>3, <2>5
  <2>7. IsPrefix(nodes[m].key, k)
    <3>1. k \in Seq(Bit) /\ nodes[m].key \in Seq(Bit) /\ nodes[c].key \in Seq(Bit)
      BY <1>2, <1>7, <2>3, TypesOfTree
    <3> QED
      BY <2>3, <2>6, <3>1, PrefixTrans
  <2> QED
    BY <1>7, <2>6, <2>7
<1> QED
  BY <1>8, <1>9

\* So the map has something under each prefix of a node.
LEMMA BeginsBelow ==
    ASSUME TreeInv, wpc = "idle", NEW n \in DOMAIN nodes \ {Root}, NEW p \in Seq(Bit),
           IsPrefix(p, nodes[n].key)
    PROVE  Begins(content, p)
<1>1. PICK k \in Keys : content[k] # NoValue /\ IsPrefix(nodes[n].key, k)
  BY LeafBelow
<1>2. k \in Seq(Bit) /\ nodes[n].key \in Seq(Bit)
  BY TypesOfTree
<1>3. IsPrefix(p, k)
  BY <1>1, <1>2, PrefixTrans
<1> QED
  BY <1>1, <1>3 DEF Begins

\* What is under a longer prefix than that of a node and begins with the bit
\* of a child is under that child; so the child is there.
LEMMA BeginsUnderChild ==
    ASSUME TreeInv, wpc = "idle", NEW up \in DOMAIN nodes, NEW p \in Seq(Bit),
           IsPrefix(nodes[up].key, p), Len(nodes[up].key) < Len(p), Begins(content, p)
    PROVE  LET c == ChildOf(nodes, up, p[Len(nodes[up].key) + 1])
           IN  c # Nil /\ \E k \in Keys : IsPrefix(p, k) /\ IsPrefix(nodes[c].key, k)
<1>1. PICK k \in Keys : content[k] # NoValue /\ IsPrefix(p, k)
  BY DEF Begins
<1> DEFINE i == Len(nodes[up].key)
<1>2. nodes[up].key \in Seq(Bit) /\ i \in Nat /\ k \in Seq(Bit) /\ Len(k) \in Nat /\ Len(p) \in Nat
  BY TypesOfTree, LenProperties
<1>3. IsPrefix(nodes[up].key, k) /\ i < Len(k) /\ k[i + 1] = p[i + 1]
  <2>1. IsPrefix(nodes[up].key, k)
    BY <1>1, <1>2, PrefixTrans
  <2>2. Len(p) <= Len(k) /\ \A x \in 1 .. Len(p) : p[x] = k[x]
    BY <1>1, <1>2, PrefixBits
  <2>3. i + 1 \in 1 .. Len(p)
    BY <1>2
  <2> QED
    BY <1>2, <2>1, <2>2, <2>3
<1>4. LET c == ChildOf(nodes, up, k[i + 1]) IN c # Nil /\ IsPrefix(nodes[c].key, k)
  BY <1>1, <1>3, WayToKey
<1> QED
  BY <1>1, <1>3, <1>4

\* The partial prefix is what the node adds.
LEMMA PartialIsRest ==
    ASSUME TreeInv, ~ Moving, NEW n \in DOMAIN nodes \ {Root}
    PROVE  LET up == nodes[n].parent
           IN  /\ up \in DOMAIN nodes /\ ChildFits(up, nodes[n].partial[1], n)
               /\ ChildOf(nodes, up, nodes[n].partial[1]) = n /\ nodes[n].partial[1] \in Bit
               /\ Len(nodes[up].key) < Len(nodes[n].key)
               /\ nodes[n].partial = SubSeq(nodes[n].key, Len(nodes[up].key) + 1, Len(nodes[n].key))
<1> DEFINE up == nodes[n].parent
           i == Len(nodes[up].key)
           t == nodes[n].partial
           u == nodes[n].key
           r == SubSeq(u, i + 1, Len(u))
<1>1. up \in DOMAIN nodes /\ Len(t) > 0 /\ n # Nil
  BY TypesOfTree DEF TreeInv, NodesFit
<1>2. t \in Seq(Bit) /\ u \in Seq(Bit) /\ Len(t) \in Nat /\ Len(u) \in Nat /\ i \in Nat
  BY <1>1, TypesOfTree
<1>3. t[1] \in Bit
  BY <1>1, <1>2, ElementOfSeq
<1>4. ChildOf(nodes, up, t[1]) = n
  BY DEF TreeInv, EachIsAChild
<1>5. ChildFits(up, t[1], n)
  BY <1>1, <1>3, <1>4 DEF TreeInv, ChildrenFit
<1>6. Len(u) = i + Len(t)
  BY <1>5 DEF ChildFits
<1>7. \A x \in 1 .. Len(t) : t[x] = u[Len(u) - Len(t) + x]
  BY DEF TreeInv, NodesFit
<1> HIDE DEF up, i, t, u
<1>8. r \in Seq(Bit) /\ Len(r) = Len(u) - i /\ \A x \in 1 .. Len(u) - i : r[x] = u[i + x]
  <2>1. i \in 0 .. Len(u)
    BY <1>2, <1>6
  <2> QED
    BY <1>2, <2>1, LastBits
<1> HIDE DEF r
<1>9. Len(r) = Len(t) /\ \A x \in 1 .. Len(t) : r[x] = t[x]
  BY <1>2, <1>6, <1>7, <1>8
<1>10. r = t /\ i < Len(u)
  BY <1>1, <1>2, <1>6, <1>8, <1>9, SeqEqual
<1> QED
  BY <1>1, <1>3, <1>4, <1>5, <1>10 DEF up, i, t, u, r

\* The spot of a node after j bits: what begins with them, below the parent.
SpotAt(n, j) == <<SubSeq(nodes[n].key, 1, j), Len(nodes[nodes[n].parent].key)>>

LEMMA SpotFits ==
    ASSUME TreeInv, wpc = "idle", NEW n \in DOMAIN nodes \ {Root}, NEW j \in Nat,
           Len(nodes[nodes[n].parent].key) < j, j <= Len(nodes[n].key)
    PROVE  LET p == SubSeq(nodes[n].key, 1, j)
           IN  /\ p \in Seq(Bit) /\ Len(p) = j /\ SpotAt(n, j) \in Spots
               /\ SpotAt(n, j)[1] = p /\ SpotAt(n, j)[2] = Len(nodes[nodes[n].parent].key)
               /\ IsPrefix(p, nodes[n].key) /\ \A x \in 1 .. j : p[x] = nodes[n].key[x]
<1> DEFINE p == SubSeq(nodes[n].key, 1, j)
<1>1. ~ Moving
  BY DEF Moving
<1>2. nodes[n].parent \in DOMAIN nodes
  BY <1>1, PartialIsRest
<1>3. nodes[n].key \in Seq(Bit) /\ Len(nodes[n].key) \in Nat /\ Len(nodes[nodes[n].parent].key) \in Nat
  BY <1>2, TypesOfTree
<1>4. j \in 0 .. Len(nodes[n].key)
  BY <1>3
<1>5. p \in Seq(Bit) /\ Len(p) = j /\ IsPrefix(p, nodes[n].key) /\ \A x \in 1 .. j : p[x] = nodes[n].key[x]
  BY <1>3, <1>4, FirstBits
<1> HIDE DEF p
<1>6. <<p, Len(nodes[nodes[n].parent].key)>> \in Spots
  BY <1>3, <1>5 DEF Spots, Bit
<1> QED
  BY <1>5, <1>6 DEF SpotAt, p

\* One level of TrieHash at such a spot, inside a partial prefix.
LEMMA HashInside ==
    ASSUME TreeInv, wpc = "idle", NEW n \in DOMAIN nodes \ {Root}, NEW j \in Nat, NEW hash,
           Len(nodes[nodes[n].parent].key) < j, j < Len(nodes[n].key)
    PROVE  HashesAbove(content, hash)[SpotAt(n, j)] = hash[SpotAt(n, j + 1)]
<1> DEFINE up == nodes[n].parent
           u == nodes[n].key
           i == Len(nodes[up].key)
           p == SubSeq(u, 1, j)
           x == SpotAt(n, j)
           b == u[j + 1]
<1>1. ~ Moving
  BY DEF Moving
<1>2. /\ up \in DOMAIN nodes /\ ChildFits(up, nodes[n].partial[1], n) /\ i < Len(u)
      /\ ChildOf(nodes, up, nodes[n].partial[1]) = n
  BY <1>1, PartialIsRest
<1>3. u \in Seq(Bit) /\ Len(u) \in Nat /\ i \in Nat /\ nodes[up].key \in Seq(Bit)
  BY <1>2, TypesOfTree
<1>4. IsPrefix(nodes[up].key, u) /\ u[i + 1] = nodes[n].partial[1]
  BY <1>2 DEF ChildFits
<1>5. /\ p \in Seq(Bit) /\ Len(p) = j /\ x \in Spots /\ x[1] = p /\ x[2] = i
      /\ IsPrefix(p, u) /\ \A y \in 1 .. j : p[y] = u[y]
  BY SpotFits
<1>6. b \in Bit
  <2>1. j + 1 \in 1 .. Len(u)
    BY <1>3
  <2> QED
    BY <1>3, <2>1, ElementOfSeq
<1>7. Append(p, b) = SubSeq(u, 1, j + 1)
  BY <1>3, NextBit
<1>8. /\ SubSeq(u, 1, j + 1) \in Seq(Bit) /\ IsPrefix(SubSeq(u, 1, j + 1), u)
      /\ SpotAt(n, j + 1) = <<Append(p, b), i>>
  <2>1. j + 1 \in 0 .. Len(u)
    BY <1>3
  <2>2. SubSeq(u, 1, j + 1) \in Seq(Bit) /\ IsPrefix(SubSeq(u, 1, j + 1), u)
    BY <1>3, <2>1, FirstBits
  <2> QED
    BY <1>7, <2>2 DEF SpotAt
<1>9. Begins(content, Append(p, b))
  BY <1>7, <1>8, BeginsBelow
<1>10. IsPrefix(nodes[up].key, p)
  <2>1. Len(nodes[up].key) <= Len(p)
    BY <1>3, <1>5
  <2> HIDE DEF p, u, x
  <2> QED
    BY <1>3, <1>4, <1>5, <2>1, PrefixesCompare
<1>11. ~ Begins(content, Append(p, 1 - b))
  <2> SUFFICES ASSUME Begins(content, Append(p, 1 - b)) PROVE FALSE
    OBVIOUS
  <2> DEFINE q == Append(p, 1 - b)
  <2>1. 1 - b \in Bit /\ 1 - b # b
    BY <1>6 DEF Bit
  <2>2. /\ q \in Seq(Bit) /\ Len(q) = j + 1 /\ (\A y \in 1 .. j : q[y] = p[y]) /\ q[j + 1] = 1 - b
        /\ IsPrefix(p, q)
    <3> HIDE DEF p, b, x, u, i
    <3> QED
      BY <1>5, <2>1, OneBitMore
  <2> HIDE DEF q, p
  <2>3. IsPrefix(nodes[up].key, q) /\ i < Len(q) /\ q[i + 1] = u[i + 1]
    <3>1. IsPrefix(nodes[up].key, q)
      BY <1>3, <1>5, <1>10, <2>2, PrefixTrans
    <3>2. i + 1 \in 1 .. j
      BY <1>3
    <3> QED
      BY <1>3, <1>5, <2>2, <3>1, <3>2
  <2>4. \E k \in Keys : IsPrefix(q, k) /\ IsPrefix(nodes[ChildOf(nodes, up, q[i + 1])].key, k)
    BY <1>2, <2>2, <2>3, BeginsUnderChild DEF q
  <2>5. PICK k \in Keys : IsPrefix(q, k) /\ IsPrefix(u, k)
    BY <1>2, <1>4, <2>3, <2>4
  <2>6. k \in Seq(Bit)
    BY TypesOfTree
  <2>7. q[j + 1] = k[j + 1]
    <3>1. j + 1 \in 1 .. Len(q)
      BY <2>2
    <3> QED
      BY <2>2, <2>5, <2>6, <3>1, PrefixBits
  <2>8. u[j + 1] = k[j + 1]
    <3>1. j + 1 \in 1 .. Len(u)
      BY <1>3
    <3> QED
      BY <1>3, <2>5, <2>6, <3>1, PrefixBits
  <2> QED
    BY <2>1, <2>2, <2>7, <2>8
<1> HIDE DEF p, b, i, u, x
<1>12. HashesAbove(content, hash)[x] =
           IF Begins(content, Append(x[1], 0)) /\ Begins(content, Append(x[1], 1))
           THEN NodeHash(SubSeq(x[1], x[2] + 1, Len(x[1])), hash[<<Append(x[1], 0), Len(x[1])>>],
                         hash[<<Append(x[1], 1), Len(x[1])>>], NoValue)
           ELSE IF Begins(content, Append(x[1], 0)) THEN hash[<<Append(x[1], 0), x[2]>>]
           ELSE hash[<<Append(x[1], 1), x[2]>>]
  BY <1>5 DEF HashesAbove
<1>13. HashesAbove(content, hash)[x] = hash[<<Append(p, b), i>>]
  <2>1. CASE b = 0
    <3>1. Begins(content, Append(p, 0)) /\ ~ Begins(content, Append(p, 1))
      BY <1>9, <1>11, <2>1
    <3> QED
      BY <1>5, <1>12, <2>1, <3>1
  <2>2. CASE b = 1
    <3>1. Begins(content, Append(p, 1)) /\ ~ Begins(content, Append(p, 0))
      BY <1>9, <1>11, <2>2
    <3> QED
      BY <1>5, <1>12, <2>2, <3>1
  <2> QED
    BY <1>6, <2>1, <2>2 DEF Bit
<1> QED
  BY <1>8, <1>13 DEF x

\* ... and at the end of an inner node's.
LEMMA HashAtNode ==
    ASSUME TreeInv, wpc = "idle", NEW n \in DOMAIN nodes \ {Root}, NEW hash, ~ nodes[n].leaf,
           \A c \in DOMAIN nodes \ {Root} : nodes[c].parent = n =>
               hash[SpotAt(c, Len(nodes[n].key) + 1)] = nodes[c].hash
    PROVE  HashesAbove(content, hash)[SpotAt(n, Len(nodes[n].key))] = nodes[n].hash
<1> DEFINE up == nodes[n].parent
           u == nodes[n].key
           j == Len(u)
           i == Len(nodes[up].key)
           x == SpotAt(n, j)
<1>1. ~ Moving
  BY DEF Moving
<1>2. up \in DOMAIN nodes /\ i < j /\ nodes[n].partial = SubSeq(u, i + 1, j)
  BY <1>1, PartialIsRest
<1>3. u \in Seq(Bit) /\ j \in Nat /\ i \in Nat
  BY <1>2, TypesOfTree
<1>4. SubSeq(u, 1, j) = u
  <2> DEFINE p == SubSeq(u, 1, j)
  <2>1. p \in Seq(Bit) /\ Len(p) = j /\ \A y \in 1 .. j : p[y] = u[y]
    <3>1. j \in 0 .. Len(u)
      BY <1>3
    <3> QED
      BY <1>3, <3>1, FirstBits
  <2> HIDE DEF p
  <2>2. p = u
    BY <1>3, <2>1, SeqEqual
  <2> QED
    BY <2>2 DEF p
<1>5. x \in Spots /\ x[1] = u /\ x[2] = i
  <2>1. SpotAt(n, j) \in Spots /\ SpotAt(n, j)[1] = SubSeq(u, 1, j) /\ SpotAt(n, j)[2] = i
    BY <1>2, <1>3, SpotFits
  <2> QED
    BY <1>4, <2>1
<1>6. ASSUME NEW b \in Bit
      PROVE  /\ Begins(content, Append(u, b)) /\ ChildOf(nodes, n, b) # Nil
             /\ hash[<<Append(u, b), j>>] = nodes[ChildOf(nodes, n, b)].hash
  <2> DEFINE c == ChildOf(nodes, n, b)
  <2>1. c # Nil
    BY <1>1 DEF TreeInv, OthersAreFull, Moving
  <2>2. ChildFits(n, b, c)
    BY <2>1 DEF TreeInv, ChildrenFit
  <2> HIDE DEF c
  <2>3. /\ c \in DOMAIN nodes \ {Root} /\ nodes[c].parent = n /\ IsPrefix(u, nodes[c].key)
        /\ nodes[c].key[j + 1] = b
    BY <2>2 DEF ChildFits
  <2>4. nodes[c].key \in Seq(Bit) /\ Len(nodes[c].key) \in Nat /\ j < Len(nodes[c].key)
    BY <1>1, <2>3, PartialIsRest, TypesOfTree
  <2> DEFINE v == nodes[c].key
  <2>5. SubSeq(v, 1, j) = u
    <3> DEFINE p == SubSeq(v, 1, j)
    <3>1. p \in Seq(Bit) /\ Len(p) = j /\ \A y \in 1 .. j : p[y] = v[y]
      <4>1. j \in 0 .. Len(v)
        BY <1>3, <2>4
      <4> QED
        BY <2>4, <4>1, FirstBits
    <3>2. \A y \in 1 .. j : u[y] = v[y]
      BY <1>3, <2>3, <2>4, PrefixBits
    <3> HIDE DEF p
    <3>3. p = u
      BY <1>3, <3>1, <3>2, SeqEqual
    <3> QED
      BY <3>3 DEF p
  <2>6. Append(u, b) = SubSeq(v, 1, j + 1)
    BY <1>3, <2>3, <2>4, <2>5, NextBit
  <2>7. SpotAt(c, j + 1) = <<Append(u, b), j>>
    BY <2>3, <2>6 DEF SpotAt
  <2>8. hash[<<Append(u, b), j>>] = nodes[c].hash
    BY <2>3, <2>7
  <2>9. Begins(content, Append(u, b))
    <3>1. j + 1 \in 0 .. Len(v)
      BY <1>3, <2>4
    <3>2. SubSeq(v, 1, j + 1) \in Seq(Bit) /\ IsPrefix(SubSeq(v, 1, j + 1), v)
      BY <2>4, <3>1, FirstBits
    <3> QED
      BY <2>3, <2>6, <3>2, BeginsBelow
  <2> QED
    BY <2>1, <2>8, <2>9 DEF c
<1>7. nodes[n].hash = HashOfNode(nodes, n) /\ nodes[n].value = NoValue
  BY DEF TreeInv, HashesFit, IsStale, Moving, NodesFit
<1>8. /\ ChildOf(nodes, n, 0) = nodes[n].left /\ ChildOf(nodes, n, 1) = nodes[n].right
      /\ 0 \in Bit /\ 1 \in Bit
  BY DEF ChildOf, Bit
<1>9. nodes[n].hash = NodeHash(SubSeq(u, i + 1, j), hash[<<Append(u, 0), j>>], hash[<<Append(u, 1), j>>], NoValue)
  BY <1>2, <1>6, <1>7, <1>8 DEF HashOfNode, HashAt
<1>10. Begins(content, Append(u, 0)) /\ Begins(content, Append(u, 1))
  BY <1>6, <1>8
<1> HIDE DEF i, u, x
<1>11. HashesAbove(content, hash)[x] =
           IF Begins(content, Append(x[1], 0)) /\ Begins(content, Append(x[1], 1))
           THEN NodeHash(SubSeq(x[1], x[2] + 1, Len(x[1])), hash[<<Append(x[1], 0), Len(x[1])>>],
                         hash[<<Append(x[1], 1), Len(x[1])>>], NoValue)
           ELSE IF Begins(content, Append(x[1], 0)) THEN hash[<<Append(x[1], 0), x[2]>>]
           ELSE hash[<<Append(x[1], 1), x[2]>>]
  BY <1>5 DEF HashesAbove
<1> HIDE DEF j
<1>12. HashesAbove(content, hash)[x] = nodes[n].hash
  BY <1>5, <1>9, <1>10, <1>11 DEF j
<1> QED
  BY <1>12 DEF x, j, u

\* A leaf's hash.
LEMMA HashAtLeaf ==
    ASSUME TreeInv, wpc = "idle", NEW n \in DOMAIN nodes \ {Root}, nodes[n].leaf
    PROVE  LeafHashes(content)[SpotAt(n, Len(nodes[n].key))] = nodes[n].hash
<1> DEFINE up == nodes[n].parent
           u == nodes[n].key
           j == Len(u)
           i == Len(nodes[up].key)
           x == SpotAt(n, j)
<1>1. ~ Moving
  BY DEF Moving
<1>2. up \in DOMAIN nodes /\ i < j /\ nodes[n].partial = SubSeq(u, i + 1, j)
  BY <1>1, PartialIsRest
<1>3. u \in Seq(Bit) /\ j \in Nat /\ i \in Nat
  BY <1>2, TypesOfTree
<1>4. SubSeq(u, 1, j) = u
  <2> DEFINE p == SubSeq(u, 1, j)
  <2>1. p \in Seq(Bit) /\ Len(p) = j /\ \A y \in 1 .. j : p[y] = u[y]
    <3>1. j \in 0 .. Len(u)
      BY <1>3
    <3> QED
      BY <1>3, <3>1, FirstBits
  <2> HIDE DEF p
  <2>2. p = u
    BY <1>3, <2>1, SeqEqual
  <2> QED
    BY <2>2 DEF p
<1>5. x \in Spots /\ x[1] = u /\ x[2] = i
  <2>1. SpotAt(n, j) \in Spots /\ SpotAt(n, j)[1] = SubSeq(u, 1, j) /\ SpotAt(n, j)[2] = i
    BY <1>2, <1>3, SpotFits
  <2> QED
    BY <1>4, <2>1
<1>6. nodes[n].value = content[u] /\ LeafHash(nodes[n].partial, nodes[n].value) = nodes[n].hash
  BY LeafAtRest
<1>7. nodes[n].hash = NodeHash(SubSeq(u, i + 1, j), NilHash, NilHash, content[u])
  BY <1>2, <1>6 DEF LeafHash
<1> HIDE DEF i, u, x
<1>8. LeafHashes(content)[x] = NodeHash(SubSeq(x[1], x[2] + 1, Len(x[1])), NilHash, NilHash, content[x[1]])
  BY <1>5 DEF LeafHashes
<1> QED
  BY <1>5, <1>7, <1>8 DEF x, u

\* From the end of a node's prefix up to the end of its parent's, the hash of
\* the map is that of the node.
LEMMA HashBelow ==
    ASSUME TreeInv, wpc = "idle", NEW k0 \in Keys, NEW n0 \in DOMAIN nodes \ {Root}, NEW j0 \in Nat,
           Len(nodes[nodes[n0].parent].key) < j0, j0 <= Len(nodes[n0].key)
    PROVE  TrieHash(content)[Len(k0) - j0][SpotAt(n0, j0)] = nodes[n0].hash
<1> DEFINE H == TrieHash(content)
           L == Len(k0)
           Slot(n, j) == Len(nodes[nodes[n].parent].key) < j /\ j <= Len(nodes[n].key)
           Same(n, j) == H[L - j][SpotAt(n, j)] = nodes[n].hash
           D == {d \in Nat : \E n \in DOMAIN nodes \ {Root}, j \in Nat :
                                 Slot(n, j) /\ d = L - j /\ ~ Same(n, j)}
<1>1. L \in Nat /\ \A n \in DOMAIN nodes : Len(nodes[n].key) \in Nat /\ Len(nodes[n].key) <= L
  BY KeysAreLongest, TypesOfTree
<1>2. H[0] = LeafHashes(content) /\ \A d \in Nat : H[d + 1] = HashesAbove(content, H[d])
  BY TrieHashIs
<1> HIDE DEF H, L
<1>3. ASSUME D # {} PROVE FALSE
  <2>1. D \subseteq Nat
    OBVIOUS
  <2>2. Min(D) \in D /\ \A y \in D : Min(D) <= y
    BY <1>3, <2>1, NatMin
  <2> DEFINE d == Min(D)
  <2>3. d \in D /\ d \in Nat /\ \A y \in D : d <= y
    BY <2>1, <2>2
  <2> HIDE DEF d
  <2>4. PICK n \in DOMAIN nodes \ {Root}, j \in Nat : Slot(n, j) /\ d = L - j /\ ~ Same(n, j)
    <3> HIDE DEF Slot, Same
    <3> QED
      BY <2>3
  <2>5. ASSUME NEW m \in DOMAIN nodes \ {Root}, NEW e \in Nat, Slot(m, e), e <= L, L - e < d
        PROVE  Same(m, e)
    <3>1. L - e \in Nat /\ ~ (d <= L - e)
      BY <1>1, <2>3, <2>5
    <3>2. L - e \notin D
      BY <2>3, <3>1
    <3> HIDE DEF Slot, Same
    <3> QED
      BY <2>5, <3>1, <3>2
  <2>6. Len(nodes[n].key) \in Nat /\ Len(nodes[n].key) <= L /\ j <= L
    BY <1>1, <2>4
  <2>7. CASE j < Len(nodes[n].key)
    <3>1. d - 1 \in Nat /\ d - 1 = L - (j + 1) /\ (d - 1) + 1 = L - j /\ L - (j + 1) < d /\ j + 1 <= L
      BY <1>1, <2>3, <2>4, <2>6, <2>7
    <3>2. Slot(n, j + 1)
      <4>1. nodes[n].parent \in DOMAIN nodes
        BY DEF TreeInv, NodesFit
      <4>2. Len(nodes[nodes[n].parent].key) \in Nat
        BY <1>1, <4>1
      <4> QED
        BY <2>4, <2>6, <2>7, <4>2
    <3>3. Same(n, j + 1)
      <4> HIDE DEF Slot, Same
      <4> QED
        BY <2>5, <3>1, <3>2
    <3>4. HashesAbove(content, H[d - 1])[SpotAt(n, j)] = H[d - 1][SpotAt(n, j + 1)]
      BY <2>4, <2>7, HashInside
    <3>5. H[(d - 1) + 1] = HashesAbove(content, H[d - 1])
      BY <1>2, <3>1
    <3> QED
      BY <2>4, <3>1, <3>3, <3>4, <3>5
  <2>8. CASE j = Len(nodes[n].key) /\ nodes[n].leaf
    <3>1. j = L
      BY <2>8, KeysAreLongest DEF L
    <3>2. L - j = 0
      BY <1>1, <3>1
    <3>3. LeafHashes(content)[SpotAt(n, j)] = nodes[n].hash
      BY <2>8, HashAtLeaf
    <3> QED
      BY <1>2, <2>4, <3>2, <3>3
  <2>9. CASE j = Len(nodes[n].key) /\ ~ nodes[n].leaf
    <3>1. j < L
      BY <2>6, <2>9, KeysAreLongest DEF L
    <3>2. d - 1 \in Nat /\ d - 1 = L - (j + 1) /\ (d - 1) + 1 = L - j /\ L - (j + 1) < d /\ j + 1 <= L
      BY <1>1, <2>3, <2>4, <2>6, <3>1
    <3>3. ASSUME NEW c \in DOMAIN nodes \ {Root}, nodes[c].parent = n
          PROVE  H[d - 1][SpotAt(c, j + 1)] = nodes[c].hash
      <4>1. Len(nodes[n].key) < Len(nodes[c].key)
        BY <3>3, PartialIsRest DEF Moving
      <4>2. Slot(c, j + 1)
        BY <1>1, <2>6, <2>9, <3>3, <4>1
      <4>3. Same(c, j + 1)
        <5> HIDE DEF Slot, Same
        <5> QED
          BY <2>5, <3>2, <4>2
      <4> QED
        BY <3>2, <4>3
    <3>4. HashesAbove(content, H[d - 1])[SpotAt(n, j)] = nodes[n].hash
      BY <2>9, <3>3, HashAtNode
    <3>5. H[(d - 1) + 1] = HashesAbove(content, H[d - 1])
      BY <1>2, <3>2
    <3> QED
      BY <2>4, <3>2, <3>4, <3>5
  <2> QED
    BY <2>4, <2>6, <2>7, <2>8, <2>9
<1>4. j0 <= L /\ L - j0 \in Nat
  BY <1>1
<1>5. Slot(n0, j0)
  OBVIOUS
<1>6. Same(n0, j0)
  <2> HIDE DEF Slot, Same
  <2> QED
    BY <1>3, <1>4, <1>5
<1> QED
  BY <1>6 DEF H, L

\* One side of the root.
LEMMA HashOfSide ==
    ASSUME TreeInv, wpc = "idle", NEW b \in Bit
    PROVE  HashAt(nodes, ChildOf(nodes, Root, b)) =
               IF Begins(content, <<b>>)
               THEN TrieHash(content)[Len(CHOOSE k \in Keys : TRUE) - 1][<< <<b>>, 0>>]
               ELSE NilHash
<1> DEFINE c == ChildOf(nodes, Root, b)
           p == <<b>>
<1>1. p \in Seq(Bit) /\ Len(p) = 1 /\ p[1] = b
  OBVIOUS
<1>2. Root \in DOMAIN nodes /\ nodes[Root].key = <<>> /\ Len(nodes[Root].key) = 0
  BY DEF TreeInv, NodesFit
<1>3. ASSUME c # Nil
      PROVE  /\ c \in DOMAIN nodes \ {Root} /\ nodes[c].parent = Root /\ 0 < Len(nodes[c].key)
             /\ nodes[c].key \in Seq(Bit) /\ Len(nodes[c].key) \in Nat
             /\ nodes[c].key[1] = b /\ SubSeq(nodes[c].key, 1, 1) = p /\ IsPrefix(p, nodes[c].key)
  <2>1. ChildFits(Root, b, c)
    BY <1>2, <1>3 DEF TreeInv, ChildrenFit
  <2> HIDE DEF c
  <2>2. c \in DOMAIN nodes \ {Root} /\ nodes[c].parent = Root /\ nodes[c].key[1] = b
    BY <1>2, <2>1 DEF ChildFits
  <2>3. 0 < Len(nodes[c].key) /\ nodes[c].key \in Seq(Bit) /\ Len(nodes[c].key) \in Nat
    BY <1>2, <2>2, PartialIsRest, TypesOfTree DEF Moving
  <2> DEFINE q == SubSeq(nodes[c].key, 1, 1)
  <2>4. q \in Seq(Bit) /\ Len(q) = 1 /\ q[1] = nodes[c].key[1] /\ IsPrefix(q, nodes[c].key)
    <3>1. 1 \in 0 .. Len(nodes[c].key) /\ 1 \in 1 .. 1
      BY <2>3
    <3> QED
      BY <2>3, <3>1, FirstBits
  <2> HIDE DEF q
  <2>5. q = p
    BY <1>1, <2>2, <2>4
  <2> QED
    BY <2>2, <2>3, <2>4, <2>5 DEF q
<1>4. Begins(content, p) => c # Nil
  <2> HAVE Begins(content, p)
  <2>1. IsPrefix(nodes[Root].key, p) /\ Len(nodes[Root].key) < Len(p)
    <3> HIDE DEF p
    <3>1. IsPrefix(<<>>, p)
      BY <1>1, EmptyPrefix
    <3> QED
      BY <1>1, <1>2, <3>1
  <2>2. p[Len(nodes[Root].key) + 1] = b
    BY <1>1, <1>2
  <2> HIDE DEF p
  <2> QED
    BY <1>1, <1>2, <2>1, <2>2, BeginsUnderChild
<1>5. c # Nil => Begins(content, p)
  <2> HIDE DEF c, p
  <2> QED
    BY <1>1, <1>3, BeginsBelow
<1>6. CASE c = Nil
  BY <1>4, <1>6 DEF HashAt
<1>7. CASE c # Nil
  <2>1. PICK k0 \in Keys : content[k0] # NoValue
    BY <1>5, <1>7 DEF Begins
  <2>2. Len(CHOOSE k \in Keys : TRUE) = Len(k0)
    <3>1. (CHOOSE k \in Keys : TRUE) \in Keys
      BY <2>1
    <3> QED
      BY <2>1, <3>1, SameLength
  <2> HIDE DEF c, p
  <2>3. TrieHash(content)[Len(k0) - 1][SpotAt(c, 1)] = nodes[c].hash
    <3>1. 1 \in Nat /\ Len(nodes[nodes[c].parent].key) < 1 /\ 1 <= Len(nodes[c].key)
      BY <1>2, <1>3, <1>7
    <3> QED
      BY <1>3, <1>7, <3>1, HashBelow
  <2>4. SpotAt(c, 1) = <<p, 0>>
    BY <1>2, <1>3, <1>7 DEF SpotAt
  <2>5. HashAt(nodes, c) = nodes[c].hash
    BY <1>7 DEF HashAt
  <2> QED
    BY <1>5, <1>7, <2>2, <2>3, <2>4, <2>5 DEF c, p
<1> QED
  BY <1>6, <1>7

LEMMA HashFollows == TrieInv => HashIsCanonical
<1> SUFFICES ASSUME TreeInv, wpc = "idle" PROVE nodes[Root].hash = RootHashOf(content)
  BY DEF TrieInv, HashIsCanonical
<1>1. Root \in DOMAIN nodes /\ nodes[Root].value = NoValue /\ nodes[Root].partial = <<>>
  <2>1. /\ Root \in DOMAIN nodes /\ nodes[Root].value = NoValue
        /\ Len(nodes[Root].partial) <= Len(nodes[Root].key) /\ nodes[Root].key = <<>>
    BY DEF TreeInv, NodesFit
  <2>2. nodes[Root].partial \in Seq(Bit) /\ Len(nodes[Root].partial) \in Nat
    BY TypesOfTree
  <2>3. Len(nodes[Root].partial) = 0
    BY <2>1, <2>2
  <2> QED
    BY <2>1, <2>2, <2>3
<1>2. nodes[Root].hash = HashOfNode(nodes, Root)
  BY <1>1 DEF TreeInv, HashesFit, IsStale, Moving
<1>3. /\ ChildOf(nodes, Root, 0) = nodes[Root].left /\ ChildOf(nodes, Root, 1) = nodes[Root].right
      /\ 0 \in Bit /\ 1 \in Bit
  BY DEF ChildOf, Bit
<1>4. nodes[Root].hash = NodeHash(<<>>, HashAt(nodes, ChildOf(nodes, Root, 0)),
                                  HashAt(nodes, ChildOf(nodes, Root, 1)), NoValue)
  BY <1>1, <1>2, <1>3 DEF HashOfNode
<1> DEFINE OnSide(b) == IF Begins(content, <<b>>)
                      THEN TrieHash(content)[Len(CHOOSE k \in Keys : TRUE) - 1][<< <<b>>, 0>>]
                      ELSE NilHash
<1>5. RootHashOf(content) = NodeHash(<<>>, OnSide(0), OnSide(1), NoValue)
  BY Zenon DEF RootHashOf
<1>6. \A b \in Bit : HashAt(nodes, ChildOf(nodes, Root, b)) = OnSide(b)
  BY HashOfSide
<1> HIDE DEF OnSide
<1> QED
  BY <1>3, <1>4, <1>5, <1>6

\* Whatever was appended, in whatever order: between calls the root hash is
\* the one that the definition of a compressed trie gives for the pairs.
THEOREM HashCanonicalCorrect == Spec => []HashIsCanonical
BY TrieInvIsInductive, HashFollows, PTL

-----------------------------------------------------------------------------
(* The walks of getLeaf *)

NextPlaces(key, S) == UNION {Onward(key, x[1], x[2]) : x \in S}

\* The first n rounds: Walk is defined by recursion over all of them.
FirstPlaces(key, n, f) ==
    f = [i \in 0 .. n |-> IF i = 0 THEN {<<Root, 0>>} ELSE NextPlaces(key, f[i - 1])]

LEMMA PlacesAre ==
    ASSUME NEW key, NEW n \in Nat, NEW f, FirstPlaces(key, n, f)
    PROVE  \A i \in 0 .. n : f[i] = IF i = 0 THEN {<<Root, 0>>} ELSE NextPlaces(key, f[i - 1])
BY Zenon DEF FirstPlaces

LEMMA PlacesAgree ==
    ASSUME NEW key, NEW n \in Nat, NEW m \in Nat, NEW f, NEW g,
           FirstPlaces(key, n, f), FirstPlaces(key, m, g), NEW i \in Nat, i <= n, i <= m
    PROVE  f[i] = g[i]
<1>1. \A y \in 0 .. n : f[y] = IF y = 0 THEN {<<Root, 0>>} ELSE NextPlaces(key, f[y - 1])
  BY PlacesAre
<1>2. \A y \in 0 .. m : g[y] = IF y = 0 THEN {<<Root, 0>>} ELSE NextPlaces(key, g[y - 1])
  BY PlacesAre
<1> DEFINE D == {j \in Nat : j <= n /\ j <= m /\ f[j] # g[j]}
<1> SUFFICES ASSUME D # {} PROVE FALSE
  OBVIOUS
<1>3. D \subseteq Nat
  OBVIOUS
<1>4. Min(D) \in D /\ \A y \in D : Min(D) <= y
  BY <1>3, NatMin
<1> DEFINE j == Min(D)
<1>5. j \in Nat /\ j <= n /\ j <= m /\ f[j] # g[j] /\ \A y \in D : j <= y
  BY <1>4
<1> HIDE DEF j
<1>6. /\ f[j] = IF j = 0 THEN {<<Root, 0>>} ELSE NextPlaces(key, f[j - 1])
      /\ g[j] = IF j = 0 THEN {<<Root, 0>>} ELSE NextPlaces(key, g[j - 1])
  <2>1. j \in 0 .. n /\ j \in 0 .. m
    BY <1>5
  <2> QED
    BY <1>1, <1>2, <2>1
<1>7. j # 0
  BY <1>5, <1>6
<1>8. j - 1 \in Nat /\ j - 1 <= n /\ j - 1 <= m /\ j - 1 \notin D
  BY <1>5, <1>7
<1>9. f[j - 1] = g[j - 1]
  BY <1>8
<1> QED
  BY <1>5, <1>6, <1>7, <1>9

\* They exist: if not, take the first that does not.
LEMMA FirstPlacesExist ==
    ASSUME NEW key, NEW n \in Nat
    PROVE  \E f : FirstPlaces(key, n, f)
<1> DEFINE D == {m \in Nat : \A f : ~ FirstPlaces(key, m, f)}
<1> SUFFICES ASSUME D # {} PROVE FALSE
  OBVIOUS
<1>1. D \subseteq Nat
  OBVIOUS
<1>2. Min(D) \in D /\ \A y \in D : Min(D) <= y
  BY <1>1, NatMin
<1> DEFINE m == Min(D)
<1>3. m \in Nat /\ (\A f : ~ FirstPlaces(key, m, f)) /\ \A y \in D : m <= y
  BY <1>2
<1> HIDE DEF m
<1>4. CASE m = 0
  <2> DEFINE f == [i \in 0 .. 0 |-> {<<Root, 0>>}]
  <2>1. f = [i \in 0 .. m |-> IF i = 0 THEN {<<Root, 0>>} ELSE NextPlaces(key, f[i - 1])]
    BY <1>4
  <2> QED
    BY <1>3, <2>1 DEF FirstPlaces
<1>5. CASE m # 0
  <2> DEFINE p == m - 1
  <2>1. p \in Nat /\ m = p + 1 /\ p \notin D
    BY <1>3, <1>5
  <2>2. PICK f : FirstPlaces(key, p, f)
    BY <2>1
  <2> HIDE DEF p
  <2> DEFINE g == [i \in 0 .. m |-> IF i = m THEN NextPlaces(key, f[p]) ELSE f[i]]
  <2>3. ASSUME NEW i \in 0 .. m
        PROVE  g[i] = IF i = 0 THEN {<<Root, 0>>} ELSE NextPlaces(key, g[i - 1])
    <3>1. CASE i = m
      <4>1. i # 0 /\ i - 1 = p /\ p \in 0 .. m /\ p # m
        BY <2>1, <3>1
      <4> QED
        BY <3>1, <4>1
    <3>2. CASE i # m
      <4>1. i \in 0 .. p /\ (i # 0 => i - 1 \in 0 .. m /\ i - 1 # m)
        BY <2>1, <2>3, <3>2
      <4>2. f[i] = IF i = 0 THEN {<<Root, 0>>} ELSE NextPlaces(key, f[i - 1])
        BY <2>1, <2>2, <4>1, PlacesAre
      <4> QED
        BY <3>2, <4>1, <4>2
    <3> QED
      BY <3>1, <3>2
  <2>4. g = [i \in 0 .. m |-> IF i = 0 THEN {<<Root, 0>>} ELSE NextPlaces(key, g[i - 1])]
    BY <2>3
  <2> QED
    BY <1>3, <2>4 DEF FirstPlaces
<1> QED
  BY <1>4, <1>5

\* Walk is what its definition says.
LEMMA WalkIs ==
    ASSUME NEW key
    PROVE  /\ Walk(key)[0] = {<<Root, 0>>}
           /\ \A n \in Nat : Walk(key)[n + 1] = NextPlaces(key, Walk(key)[n])
<1> DEFINE c == CHOOSE f : f = [n \in Nat |-> IF n = 0 THEN {<<Root, 0>>} ELSE NextPlaces(key, f[n - 1])]
           at0(n) == CHOOSE f : FirstPlaces(key, n, f)
           F == [n \in Nat |-> at0(n)[n]]
<1>1. Walk(key) = c
  BY DEF Walk, NextPlaces
<1>2. \A n \in Nat : FirstPlaces(key, n, at0(n))
  BY FirstPlacesExist
<1> HIDE DEF at0
<1>3. ASSUME NEW n \in Nat
      PROVE  F[n] = IF n = 0 THEN {<<Root, 0>>} ELSE NextPlaces(key, F[n - 1])
  <2>1. FirstPlaces(key, n, at0(n)) /\ n \in 0 .. n
    BY <1>2
  <2>2. at0(n)[n] = IF n = 0 THEN {<<Root, 0>>} ELSE NextPlaces(key, at0(n)[n - 1])
    BY <2>1, PlacesAre
  <2>3. ASSUME n # 0 PROVE at0(n)[n - 1] = at0(n - 1)[n - 1]
    <3>1. n - 1 \in Nat /\ n - 1 <= n /\ n - 1 <= n - 1
      BY <2>3
    <3>2. FirstPlaces(key, n - 1, at0(n - 1))
      BY <1>2, <3>1
    <3> DEFINE p == n - 1
    <3> HIDE DEF p
    <3>3. at0(n)[p] = at0(p)[p]
      BY <2>1, <3>1, <3>2, PlacesAgree DEF p
    <3> QED
      BY <3>3 DEF p
  <2>4. n # 0 => n - 1 \in Nat
    OBVIOUS
  <2> QED
    BY <2>2, <2>3, <2>4
<1>4. F = [n \in Nat |-> IF n = 0 THEN {<<Root, 0>>} ELSE NextPlaces(key, F[n - 1])]
  BY <1>3
<1> HIDE DEF F
<1>5. c = [n \in Nat |-> IF n = 0 THEN {<<Root, 0>>} ELSE NextPlaces(key, c[n - 1])]
  BY <1>4
<1> HIDE DEF c
<1>6. \A n \in Nat : c[n] = IF n = 0 THEN {<<Root, 0>>} ELSE NextPlaces(key, c[n - 1])
  BY <1>5, Zenon
<1>7. \A n \in Nat : n + 1 \in Nat /\ n + 1 # 0 /\ n + 1 - 1 = n
  OBVIOUS
<1>8. c[0] = {<<Root, 0>>}
  BY <1>6
<1>9. \A n \in Nat : c[n + 1] = NextPlaces(key, c[n])
  BY <1>6, <1>7
<1> QED
  BY <1>1, <1>8, <1>9

\* A prefix that leads below the node that is being split.
Cut(p) == Moving /\ IsPrefix(nodes[job.node].key, p)

\* Where a walk is: at a node whose prefix has matched.
Standing(key, x) ==
    /\ x[1] \in DOMAIN nodes /\ x[2] = Len(nodes[x[1]].key)
    /\ IsPrefix(nodes[x[1]].key, key) /\ ~ Cut(nodes[x[1]].key)

\* No pointer from above leads below the node that is being split.
LEMMA ChildNotCut ==
    ASSUME TreeInv, NEW n \in DOMAIN nodes, ~ Cut(nodes[n].key), NEW b \in Bit,
           ChildOf(nodes, n, b) # Nil
    PROVE  ~ Cut(nodes[ChildOf(nodes, n, b)].key)
<1> DEFINE c == ChildOf(nodes, n, b)
           e == job.node
<1> SUFFICES ASSUME Moving, IsPrefix(nodes[e].key, nodes[c].key) PROVE FALSE
  BY DEF Cut
<1>1. c \in DOMAIN nodes \ {Root} /\ Side(c, n) = b /\ Below(n, c)
  BY ChildSide
<1>2. e \in DOMAIN nodes \ {Root}
  BY DEF TreeInv, JobFits, BranchesOff
<1>3. c # e
  BY <1>2 DEF TreeInv, EachIsAChild
<1>4. n # job.prev
  BY DEF TreeInv, JobFits
<1>5. /\ nodes[c].key \in Seq(Bit) /\ nodes[e].key \in Seq(Bit) /\ nodes[n].key \in Seq(Bit)
      /\ Len(nodes[c].key) \in Nat /\ Len(nodes[e].key) \in Nat /\ Len(nodes[n].key) \in Nat
  BY <1>1, <1>2, TypesOfTree
<1> HIDE DEF c, e
<1>6. Len(nodes[e].key) < Len(nodes[c].key)
  <2>1. Len(nodes[e].key) <= Len(nodes[c].key)
    BY <1>5, PrefixBits
  <2>2. Len(nodes[e].key) = Len(nodes[c].key) => nodes[e].key = nodes[c].key
    BY <1>5, PrefixBits
  <2>3. nodes[e].key # nodes[c].key
    BY <1>1, <1>2, <1>3 DEF TreeInv, Distinct
  <2> QED
    BY <1>5, <2>1, <2>2, <2>3
<1>7. Len(nodes[n].key) < Len(nodes[e].key)
  <2>1. Len(nodes[e].key) <= Len(nodes[n].key) => IsPrefix(nodes[e].key, nodes[n].key)
    BY <1>1, <1>5, PrefixesCompare DEF Below
  <2>2. ~ IsPrefix(nodes[e].key, nodes[n].key)
    BY DEF Cut, e
  <2> QED
    BY <1>5, <2>1, <2>2
<1>8. Below(n, e)
  <2>1. IsPrefix(nodes[n].key, nodes[e].key)
    BY <1>1, <1>5, <1>7, PrefixesCompare DEF Below
  <2> QED
    BY <1>7, <2>1 DEF Below
<1>9. nodes[e].key[Len(nodes[n].key) + 1] = b
  <2>1. Len(nodes[n].key) + 1 \in 1 .. Len(nodes[e].key)
    BY <1>5, <1>7
  <2>2. nodes[e].key[Len(nodes[n].key) + 1] = nodes[c].key[Len(nodes[n].key) + 1]
    BY <1>5, <2>1, PrefixBits
  <2> QED
    BY <1>1, <2>2 DEF Side
<1>10. NextOnWay(n, e) = c
  BY <1>4, <1>9 DEF NextOnWay, c
<1>11. IsPrefix(nodes[c].key, nodes[e].key)
  BY <1>2, <1>8, <1>10 DEF TreeInv, Covers
<1>12. Len(nodes[c].key) <= Len(nodes[e].key)
  BY <1>5, <1>11, PrefixBits
<1> QED
  BY <1>5, <1>6, <1>12

\* A round of a walk goes to such a node.
LEMMA OnwardStands ==
    ASSUME TreeInv, NEW k \in Keys, NEW x, Standing(k, x), NEW y \in Onward(k, x[1], x[2])
    PROVE  Standing(k, y)
<1> DEFINE n == x[1]
           i == x[2]
           c == ChildOf(nodes, n, k[i + 1])
           m == Len(nodes[c].partial)
<1>1. n \in DOMAIN nodes /\ i = Len(nodes[n].key) /\ IsPrefix(nodes[n].key, k) /\ ~ Cut(nodes[n].key)
  BY DEF Standing
<1>2. /\ i < Len(k) /\ c # Nil /\ nodes[c].partial = SubSeq(k, i + 1, i + m)
      /\ y = <<c, i + m>>
  BY DEF Onward
<1> HIDE DEF n, i
<1>3. k \in Seq(Bit) /\ Len(k) \in Nat /\ i \in Nat
  BY <1>1, TypesOfTree
<1>4. k[i + 1] \in Bit
  <2>1. i + 1 \in 1 .. Len(k)
    BY <1>2, <1>3
  <2> QED
    BY <1>3, <2>1, ElementOfSeq
<1>5. c \in DOMAIN nodes \ {Root} /\ Len(nodes[c].key) = i + m
  BY <1>1, <1>2, <1>4, ChildFound
<1>6. IsPrefix(nodes[c].key, k)
  BY <1>1, <1>2, <1>4, MatchIs
<1>7. ~ Cut(nodes[c].key)
  BY <1>1, <1>2, <1>4, ChildNotCut
<1> HIDE DEF c, m
<1> QED
  BY <1>2, <1>5, <1>6, <1>7 DEF Standing

\* So every walk of getLeaf stays on nodes whose prefix has matched.
LEMMA WalkStands ==
    ASSUME TreeInv, NEW k \in Keys
    PROVE  \A n \in Nat : \A x \in Walk(k)[n] : Standing(k, x)
<1> DEFINE W == Walk(k)
           D == {n \in Nat : \E x \in W[n] : ~ Standing(k, x)}
<1>1. W[0] = {<<Root, 0>>} /\ \A n \in Nat : W[n + 1] = NextPlaces(k, W[n])
  BY WalkIs
<1> HIDE DEF W
<1>2. ASSUME D # {} PROVE FALSE
  <2>1. D \subseteq Nat
    OBVIOUS
  <2>2. Min(D) \in D /\ \A y \in D : Min(D) <= y
    BY <1>2, <2>1, NatMin
  <2> DEFINE d == Min(D)
  <2>3. d \in D /\ d \in Nat /\ \A y \in D : d <= y
    BY <2>1, <2>2
  <2> HIDE DEF d
  <2>4. PICK x \in W[d] : ~ Standing(k, x)
    BY <2>3
  <2>5. CASE d = 0
    <3>1. x = <<Root, 0>>
      BY <1>1, <2>4, <2>5
    <3>2. x[1] = Root /\ x[2] = 0
      BY <3>1
    <3>3. Root \in DOMAIN nodes /\ nodes[Root].key = <<>> /\ Len(nodes[Root].key) = 0
      BY DEF TreeInv, NodesFit
    <3>4. IsPrefix(<<>>, k)
      BY TypesOfTree, EmptyPrefix
    <3>5. ~ Cut(nodes[Root].key)
      <4> SUFFICES ASSUME Moving, IsPrefix(nodes[job.node].key, <<>>) PROVE FALSE
        BY <3>3 DEF Cut
      <4>1. job.node \in DOMAIN nodes \ {Root} /\ job.i < Len(nodes[job.node].key)
        BY DEF TreeInv, JobFits, BranchesOff
      <4>2. /\ nodes[job.node].key \in Seq(Bit) /\ Len(nodes[job.node].key) \in Nat /\ job.i \in Nat
            /\ nodes[Root].key \in Seq(Bit)
        BY <3>3, <4>1, TypesOfTree
      <4>3. Len(nodes[job.node].key) <= Len(nodes[Root].key)
        BY <3>3, <4>2, PrefixBits
      <4> QED
        BY <3>3, <4>1, <4>2, <4>3
    <3> QED
      BY <2>4, <3>2, <3>3, <3>4, <3>5 DEF Standing
  <2>6. CASE d # 0
    <3>1. d - 1 \in Nat /\ (d - 1) + 1 = d /\ ~ (d <= d - 1)
      BY <2>3, <2>6
    <3>2. d - 1 \notin D
      BY <2>3, <3>1
    <3>3. \A y \in W[d - 1] : Standing(k, y)
      BY <3>1, <3>2
    <3>4. W[(d - 1) + 1] = NextPlaces(k, W[d - 1])
      BY <1>1, <3>1
    <3>5. x \in NextPlaces(k, W[d - 1])
      BY <2>4, <3>1, <3>4
    <3>6. PICK y \in W[d - 1] : x \in Onward(k, y[1], y[2])
      BY <3>5 DEF NextPlaces
    <3>7. Standing(k, x)
      BY <3>3, <3>6, OnwardStands
    <3> QED
      BY <2>4, <3>7
  <2> QED
    BY <2>5, <2>6
<1> HIDE DEF D
<1>3. D = {}
  BY <1>2
<1> QED
  BY <1>3 DEF D, W

\* As long as bits are left there is a next node, if the leaf is there and
\* the way to it is not cut.
LEMMA OnwardToLeaf ==
    ASSUME TreeInv, NEW k \in Keys, NEW l \in DOMAIN nodes, nodes[l].key = k, ~ Cut(k),
           NEW x, Standing(k, x), x[2] < Len(k)
    PROVE  \E y \in Onward(k, x[1], x[2]) : y[2] \in Nat /\ x[2] < y[2]
<1> DEFINE n == x[1]
           i == x[2]
           c == ChildOf(nodes, n, k[i + 1])
           m == Len(nodes[c].partial)
<1>1. n \in DOMAIN nodes /\ i = Len(nodes[n].key) /\ IsPrefix(nodes[n].key, k)
  BY DEF Standing
<1>2. i < Len(k)
  OBVIOUS
<1> HIDE DEF n, i
<1>3. k \in Seq(Bit) /\ Len(k) \in Nat /\ i \in Nat
  BY <1>1, TypesOfTree
<1>4. k[i + 1] \in Bit
  <2>1. i + 1 \in 1 .. Len(k)
    BY <1>2, <1>3
  <2> QED
    BY <1>3, <2>1, ElementOfSeq
<1>5. Below(n, l)
  BY <1>1, <1>2 DEF Below
<1>6. NextOnWay(n, l) # Nil /\ IsPrefix(nodes[NextOnWay(n, l)].key, k)
  BY <1>1, <1>5 DEF TreeInv, Covers
<1>7. NextOnWay(n, l) = c
  <2>1. ~ (Moving /\ n = job.prev)
    BY <1>6 DEF NextOnWay, Cut
  <2> QED
    BY <1>1, <2>1 DEF NextOnWay
<1>8. c # Nil /\ IsPrefix(nodes[c].key, k)
  BY <1>6, <1>7
<1>9. m \in Nat /\ m > 0
  <2>1. c \in DOMAIN nodes \ {Root}
    BY <1>1, <1>4, <1>8, ChildFound
  <2> QED
    BY <2>1, TypesOfTree DEF TreeInv, NodesFit
<1>10. SubSeq(k, i + 1, i + m) = nodes[c].partial
  <2>1. PICK b, a : b = k[i + 1] /\ a = c
    OBVIOUS
  <2>2. b \in Bit /\ a = ChildOf(nodes, n, b) /\ a # Nil /\ IsPrefix(nodes[a].key, k)
    BY <1>4, <1>8, <2>1
  <2> HIDE DEF c, m
  <2>3. LET p == Len(nodes[n].key)
        IN  SubSeq(k, p + 1, p + Len(nodes[a].partial)) = nodes[a].partial <=> IsPrefix(nodes[a].key, k)
    BY <1>1, <2>2, MatchIs
  <2> QED
    BY <1>1, <2>1, <2>2, <2>3 DEF m
<1>11. <<c, i + m>> \in Onward(k, n, i)
  BY <1>2, <1>8, <1>10 DEF Onward
<1> HIDE DEF c, m
<1>12. i + m \in Nat /\ i < i + m
  BY <1>3, <1>9
<1> QED
  BY <1>11, <1>12 DEF n, i

\* getLeaf finds a leaf, unless it is below the node that is being split.
LEMMA LeafIsLedTo ==
    ASSUME TreeInv, NEW k \in Keys, NEW l \in DOMAIN nodes, nodes[l].leaf, nodes[l].key = k, ~ Cut(k)
    PROVE  Leads(k)
<1> DEFINE W == Walk(k)
           K == Len(k)
           Reached(d, i) == \E x \in W[d] : x[2] = i
           D == {z \in Nat : \E d \in Nat, i \in Nat : d <= i /\ i <= K /\ z = K - i /\ Reached(d, i)}
<1>1. W[0] = {<<Root, 0>>} /\ \A n \in Nat : W[n + 1] = NextPlaces(k, W[n])
  BY WalkIs
<1>2. \A n \in Nat : \A x \in W[n] : Standing(k, x)
  BY WalkStands
<1>3. K \in Nat /\ k \in Seq(Bit)
  BY TypesOfTree
<1> HIDE DEF W, K
<1>4. D \subseteq Nat /\ D # {}
  <2>1. <<Root, 0>> \in W[0] /\ <<Root, 0>>[2] = 0
    BY <1>1
  <2>2. Reached(0, 0)
    BY <2>1
  <2>3. 0 <= K /\ K = K - 0
    BY <1>3
  <2> HIDE DEF Reached
  <2>4. K \in D
    BY <1>3, <2>2, <2>3
  <2> QED
    BY <2>4
<1>5. Min(D) \in D /\ \A y \in D : Min(D) <= y
  BY <1>4, NatMin
<1>6. PICK d \in Nat, i \in Nat : d <= i /\ i <= K /\ Min(D) = K - i /\ Reached(d, i)
  <2> HIDE DEF Reached
  <2> QED
    BY <1>5
<1>7. PICK x \in W[d] : x[2] = i
  BY <1>6
<1>8. Standing(k, x)
  BY <1>2, <1>7
<1>9. i = K
  <2> SUFFICES ASSUME i < K PROVE FALSE
    BY <1>3, <1>6
  <2>1. PICK y \in Onward(k, x[1], x[2]) : y[2] \in Nat /\ i < y[2]
    BY <1>7, <1>8, OnwardToLeaf DEF K
  <2>2. y \in W[d + 1]
    BY <1>1, <1>7, <2>1 DEF NextPlaces
  <2>3. Standing(k, y)
    <3>1. d + 1 \in Nat
      OBVIOUS
    <3> QED
      BY <1>2, <2>2, <3>1
  <2>4. y[2] <= K
    BY <2>3, KeysAreLongest DEF Standing, K
  <2>5. Reached(d + 1, y[2])
    BY <2>2
  <2> DEFINE j == y[2]
  <2>6. j \in Nat /\ i < j /\ j <= K /\ Reached(d + 1, j)
    BY <2>1, <2>4, <2>5
  <2> HIDE DEF j, Reached
  <2>7. K - j \in Nat /\ d + 1 \in Nat /\ d + 1 <= j /\ ~ (K - i <= K - j)
    BY <1>3, <1>6, <2>6
  <2>8. K - j \in D
    BY <2>6, <2>7
  <2> HIDE DEF D
  <2> QED
    BY <1>5, <1>6, <2>7, <2>8
<1>10. x[1] \in LeafOf(k)
  <2>1. x[1] \in DOMAIN nodes /\ IsPrefix(nodes[x[1]].key, k) /\ Len(nodes[x[1]].key) = Len(k)
    BY <1>7, <1>8, <1>9 DEF Standing, K
  <2>2. nodes[x[1]].key = k
    BY <1>3, <2>1, TypesOfTree, PrefixBits
  <2>3. x[1] = l
    BY <2>1, <2>2 DEF TreeInv, Distinct
  <2> QED
    BY <2>3 DEF LeafOf
<1>11. d \in 0 .. Len(k)
  BY <1>6, <1>9 DEF K
<1> QED
  BY <1>7, <1>9, <1>10, <1>11 DEF Leads, W, K

\* The leaves below the node that is being split.
CutLeaves == {k \in Keys : LeafOf(k) # {} /\ Cut(k)}

\* They are what getLeaf does not find.
LEMMA HiddenAreCut == TreeInv => Unreachable = CutLeaves
<1> SUFFICES ASSUME TreeInv PROVE Unreachable = CutLeaves
  OBVIOUS
<1>1. ASSUME NEW k \in Keys, LeafOf(k) # {}, ~ Cut(k) PROVE Leads(k)
  <2>1. PICK l \in DOMAIN nodes : nodes[l].leaf /\ nodes[l].key = k
    BY <1>1 DEF LeafOf
  <2> QED
    BY <1>1, <2>1, LeafIsLedTo
<1>2. ASSUME NEW k \in Keys, Cut(k) PROVE ~ Leads(k)
  <2> SUFFICES ASSUME Leads(k) PROVE FALSE
    OBVIOUS
  <2>1. PICK n \in 0 .. Len(k) : \E x \in Walk(k)[n] : x[1] \in LeafOf(k) /\ x[2] = Len(k)
    BY DEF Leads
  <2>2. PICK x \in Walk(k)[n] : x[1] \in LeafOf(k)
    BY <2>1
  <2>3. Standing(k, x)
    <3>1. n \in Nat
      BY <2>1
    <3> QED
      BY <2>2, <3>1, WalkStands
  <2> QED
    BY <1>2, <2>2, <2>3 DEF Standing, LeafOf
<1> QED
  BY <1>1, <1>2 DEF Unreachable, CutLeaves

\* While a node is being split there are some.
LEMMA SomeAreCut == TreeInv /\ Moving => CutLeaves # {}
<1> SUFFICES ASSUME TreeInv, Moving PROVE CutLeaves # {}
  OBVIOUS
<1> DEFINE e == job.node
           Has(m) == \E l \in DOMAIN nodes : nodes[l].leaf /\ IsPrefix(nodes[m].key, nodes[l].key)
           B == {m \in DOMAIN nodes : IsPrefix(nodes[e].key, nodes[m].key) /\ ~ Has(m)}
<1>1. /\ e \in DOMAIN nodes \ {Root} /\ job.i = Len(nodes[job.prev].key)
      /\ job.i < Len(nodes[e].key)
  BY DEF TreeInv, JobFits, BranchesOff, AtNode
<1>2. \A m \in DOMAIN nodes : nodes[m].key \in Seq(Bit) /\ Len(nodes[m].key) \in Nat
  BY TypesOfTree
<1>3. job.i \in Nat
  BY TypesOfTree
<1>4. PICK x \in Nat : \A m \in DOMAIN nodes : Len(nodes[m].key) <= x
  BY KeysAreBounded
<1> HIDE DEF e
<1>5. ASSUME B # {} PROVE FALSE
  <2> DEFINE D == {x - Len(nodes[m].key) : m \in B}
  <2>1. D \subseteq Nat /\ D # {}
    BY <1>2, <1>4, <1>5
  <2>2. Min(D) \in D /\ \A y \in D : Min(D) <= y
    BY <2>1, NatMin
  <2>3. PICK m \in B : Min(D) = x - Len(nodes[m].key)
    BY <2>2
  <2>4. m \in DOMAIN nodes /\ IsPrefix(nodes[e].key, nodes[m].key) /\ ~ Has(m)
    OBVIOUS
  <2>5. ASSUME NEW o \in DOMAIN nodes, IsPrefix(nodes[e].key, nodes[o].key),
               Len(nodes[m].key) < Len(nodes[o].key)
        PROVE  Has(o)
    <3>1. o \in B => x - Len(nodes[m].key) <= x - Len(nodes[o].key)
      BY <2>2, <2>3
    <3>2. o \notin B
      BY <1>2, <2>4, <2>5, <3>1
    <3> QED
      BY <2>5, <3>2
  <2> HIDE DEF B, D
  <2>6. ~ nodes[m].leaf
    <3>1. IsPrefix(nodes[m].key, nodes[m].key)
      BY <1>2, <2>4, PrefixRefl
    <3> QED
      BY <2>4, <3>1
  <2>7. m # Root /\ m # job.prev
    <3>1. Len(nodes[e].key) <= Len(nodes[m].key)
      BY <1>1, <1>2, <2>4, PrefixBits
    <3>2. Len(nodes[Root].key) = 0
      BY DEF TreeInv, NodesFit
    <3> QED
      BY <1>1, <1>2, <1>3, <2>4, <3>1, <3>2
  <2>8. ChildOf(nodes, m, 0) # Nil
    BY <2>4, <2>6, <2>7 DEF TreeInv, OthersAreFull, Bit
  <2>9. PICK c : c = ChildOf(nodes, m, 0)
    OBVIOUS
  <2>10. c \in DOMAIN nodes /\ Len(nodes[m].key) < Len(nodes[c].key) /\ IsPrefix(nodes[m].key, nodes[c].key)
    BY <2>4, <2>8, <2>9, ChildSide DEF Bit, Below
  <2>11. IsPrefix(nodes[e].key, nodes[c].key)
    BY <1>1, <1>2, <2>4, <2>10, PrefixTrans
  <2>12. PICK l \in DOMAIN nodes : nodes[l].leaf /\ IsPrefix(nodes[c].key, nodes[l].key)
    BY <2>5, <2>10, <2>11
  <2>13. IsPrefix(nodes[m].key, nodes[l].key)
    BY <1>2, <2>4, <2>10, <2>12, PrefixTrans
  <2> QED
    BY <2>4, <2>12, <2>13
<1>6. Has(e)
  <2>1. IsPrefix(nodes[e].key, nodes[e].key)
    BY <1>1, <1>2, PrefixRefl
  <2> QED
    BY <1>1, <1>5, <2>1
<1>7. PICK l \in DOMAIN nodes : nodes[l].leaf /\ IsPrefix(nodes[e].key, nodes[l].key)
  BY <1>6
<1>8. nodes[l].key \in Keys /\ l \in LeafOf(nodes[l].key) /\ Cut(nodes[l].key)
  BY <1>7 DEF TreeInv, NodesFit, LeafOf, Cut, e
<1> QED
  BY <1>8 DEF CutLeaves

-----------------------------------------------------------------------------
(* The tree as a map *)

\* Each leaf has its prefix for itself.
LeavesFit ==
    /\ LeafMap \in [Keys -> Values \cup {NoValue}]
    /\ \A n \in DOMAIN nodes : nodes[n].leaf =>
           nodes[n].key \in Keys /\ LeafMap[nodes[n].key] = nodes[n].value
    /\ \A k \in Keys : LeafMap[k] # NoValue <=> LeafOf(k) # {}

LEMMA LeavesMapped == TreeInv => LeavesFit
<1> SUFFICES ASSUME TreeInv PROVE LeavesFit
  OBVIOUS
<1>1. \A n \in DOMAIN nodes : nodes[n].leaf => nodes[n].key \in Keys /\ nodes[n].value \in Values
  BY DEF TreeInv, NodesFit
<1> DEFINE one(k) == CHOOSE n \in LeafOf(k) : TRUE
<1>2. \A k \in Keys : LeafMap[k] = IF LeafOf(k) = {} THEN NoValue ELSE nodes[one(k)].value
  BY DEF LeafMap
<1>3. \A k \in Keys : LeafOf(k) # {} => one(k) \in LeafOf(k)
  OBVIOUS
<1> HIDE DEF one
<1>4. ASSUME NEW n \in DOMAIN nodes, nodes[n].leaf
      PROVE  nodes[n].key \in Keys /\ LeafMap[nodes[n].key] = nodes[n].value
  <2>1. nodes[n].key \in Keys /\ n \in LeafOf(nodes[n].key)
    BY <1>1, <1>4 DEF LeafOf
  <2>2. one(nodes[n].key) \in LeafOf(nodes[n].key)
    BY <1>3, <2>1
  <2>3. one(nodes[n].key) = n
    BY <2>2 DEF LeafOf, TreeInv, Distinct
  <2> QED
    BY <1>2, <2>1, <2>3
<1>5. ASSUME NEW k \in Keys
      PROVE  /\ LeafMap[k] # NoValue <=> LeafOf(k) # {}
             /\ LeafMap[k] \in Values \cup {NoValue}
  <2>1. CASE LeafOf(k) = {}
    BY <1>2, <2>1
  <2>2. CASE LeafOf(k) # {}
    <3>1. one(k) \in DOMAIN nodes /\ nodes[one(k)].leaf
      BY <1>3, <2>2 DEF LeafOf
    <3>2. nodes[one(k)].value \in Values
      BY <1>1, <3>1
    <3> QED
      BY <1>2, <2>2, <3>2, KeysAssumption
  <2> QED
    BY <2>1, <2>2
<1>6. LeafMap \in [Keys -> Values \cup {NoValue}]
  BY <1>5 DEF LeafMap
<1> QED
  BY <1>4, <1>5, <1>6 DEF LeavesFit

LEMMA MapOfPairs ==
    ASSUME NEW map \in [Keys -> Values \cup {NoValue}]
    PROVE  MapOf(Pairs(map)) = map
<1>1. ASSUME NEW k \in Keys PROVE MapOf(Pairs(map))[k] = map[k]
  <2>1. PICK S : S = Pairs(map)
    OBVIOUS
  <2>2. PICK d : d = CHOOSE e \in S : e[1] = k
    OBVIOUS
  <2>3. MapOf(S)[k] = IF \E e \in S : e[1] = k THEN d[2] ELSE NoValue
    BY <2>2 DEF MapOf
  <2>4. \A e \in S : e[1] = k => e[2] = map[k] /\ map[k] # NoValue
    BY <2>1 DEF Pairs
  <2>5. CASE map[k] # NoValue
    <3>1. <<k, map[k]>> \in S /\ <<k, map[k]>>[1] = k
      BY <2>1, <2>5 DEF Pairs
    <3>2. d \in S /\ d[1] = k
      BY <2>2, <3>1
    <3> QED
      BY <2>1, <2>3, <2>4, <3>2
  <2>6. CASE map[k] = NoValue
    BY <2>1, <2>3, <2>4, <2>6
  <2> QED
    BY <2>5, <2>6
<1>2. MapOf(Pairs(map)) = [k \in Keys |-> MapOf(Pairs(map))[k]]
  BY DEF MapOf
<1>3. map = [k \in Keys |-> map[k]]
  OBVIOUS
<1> QED
  BY <1>1, <1>2, <1>3

\* What the root hash stands for.
HashMap == MapOf(Committed(nodes[Root].hash))

\* Between calls these are the leaves ...
LEMMA HashAtRest == TrieInv /\ wpc = "idle" => HashMap = LeafMap
<1> SUFFICES ASSUME TrieInv, wpc = "idle" PROVE HashMap = LeafMap
  OBVIOUS
<1>1. IsTrie(nodes, content)
  BY TrieFollows DEF StaysTrie, IsTrie, TrieInv, TreeInv, NodesFit
<1>2. Committed(nodes[Root].hash) = Pairs(content)
  BY <1>1, CommittedIsMap
<1>3. TreeInv /\ content \in [Keys -> Values \cup {NoValue}]
  BY DEF TrieInv, TreeInv, JobTypeOK
<1>4. HashMap = content
  BY <1>2, <1>3, MapOfPairs DEF HashMap
<1>5. ASSUME NEW k \in Keys PROVE content[k] = LeafMap[k]
  <2>0. ~ Unstored(k)
    BY DEF Unstored
  <2>1. CASE LeafOf(k) # {}
    <3>1. PICK n \in DOMAIN nodes : nodes[n].leaf /\ nodes[n].key = k
      BY <2>1 DEF LeafOf
    <3>2. LeafMap[k] = nodes[n].value
      BY <1>3, <3>1, LeavesMapped DEF LeavesFit
    <3> QED
      BY <1>3, <2>0, <3>1, <3>2 DEF TreeInv, ContentFits
  <2>2. CASE LeafOf(k) = {}
    <3>1. LeafMap[k] = NoValue
      BY <1>3, <2>2, LeavesMapped DEF LeavesFit
    <3>2. content[k] = NoValue
      BY <1>3, <2>0, <2>2 DEF TreeInv, ContentFits, LeafOf
    <3> QED
      BY <3>1, <3>2
  <2> QED
    BY <2>1, <2>2
<1>6. LeafMap \in [Keys -> Values \cup {NoValue}]
  BY <1>3, LeavesMapped DEF LeavesFit
<1>7. content = LeafMap
  BY <1>3, <1>5, <1>6
<1> QED
  BY <1>4, <1>7

\* ... and until PrefixAppend has stored its leaf as well.
RootMapFits == wpc # "update" => HashMap = LeafMap

LEMMA HashMapStays ==
    ASSUME nodes'[Root].hash = nodes[Root].hash
    PROVE  HashMap' = HashMap
<1>1. PICK h : h = nodes[Root].hash
  OBVIOUS
<1>2. HashMap = MapOf(Committed(h))
  BY <1>1 DEF HashMap
<1>3. HashMap' = MapOf(Committed(h))
  BY <1>1 DEF HashMap
<1> QED
  BY <1>2, <1>3

\* A step that changes no leaf.
LeavesKept ==
    /\ DOMAIN nodes \subseteq DOMAIN nodes'
    /\ \A n \in DOMAIN nodes : /\ nodes'[n].leaf = nodes[n].leaf /\ nodes'[n].key = nodes[n].key
                              /\ nodes'[n].value = nodes[n].value
    /\ \A n \in DOMAIN nodes' \ DOMAIN nodes : ~ nodes'[n].leaf

LEMMA LeavesStay ==
    ASSUME LeavesKept
    PROVE  LeafMap' = LeafMap /\ \A k \in Keys : LeafOf(k)' = LeafOf(k)
<1>1. \A k \in Keys : LeafOf(k)' = LeafOf(k)
  BY DEF LeavesKept, LeafOf
<1>2. ASSUME NEW k \in Keys
      PROVE  (IF LeafOf(k) = {} THEN NoValue ELSE nodes[CHOOSE n \in LeafOf(k) : TRUE].value)' =
             IF LeafOf(k) = {} THEN NoValue ELSE nodes[CHOOSE n \in LeafOf(k) : TRUE].value
  <2>1. PICK S : S = LeafOf(k)
    OBVIOUS
  <2>2. LeafOf(k)' = S
    BY <1>1, <2>1
  <2>3. PICK o : o = CHOOSE n \in S : TRUE
    OBVIOUS
  <2>4. S # {} => o \in S
    BY <2>3
  <2>5. S # {} => nodes'[o].value = nodes[o].value
    BY <2>1, <2>4 DEF LeavesKept, LeafOf
  <2> QED
    BY <2>1, <2>2, <2>3, <2>5
<1>3. LeafMap' = LeafMap
  BY <1>2 DEF LeafMap
<1> QED
  BY <1>1, <1>3

-----------------------------------------------------------------------------
(* Every store is a step of PrefixMap *)

\* A store to any other field.
LEMMA LeavesKeptByStore ==
    ASSUME IsHeap(nodes), NEW e \in DOMAIN nodes, NEW x,
           \/ nodes' = [nodes EXCEPT ![e].partial = x] \/ nodes' = [nodes EXCEPT ![e].parent = x]
           \/ nodes' = [nodes EXCEPT ![e].left = x] \/ nodes' = [nodes EXCEPT ![e].right = x]
           \/ nodes' = [nodes EXCEPT ![e].hash = x]
    PROVE  LeavesKept
<1>1. PICK H : nodes \in Seq(NodeRecords(H))
  BY DEF IsHeap
<1>2. \A n \in DOMAIN nodes : nodes[n] \in NodeRecords(H)
  BY <1>1
<1>3. PICK r : /\ r.leaf = nodes[e].leaf /\ r.key = nodes[e].key /\ r.value = nodes[e].value
               /\ nodes' = [nodes EXCEPT ![e] = r]
  <2>1. nodes[e] \in NodeRecords(H)
    BY <1>2
  <2>2. CASE nodes' = [nodes EXCEPT ![e].partial = x]
    <3> DEFINE r == [nodes[e] EXCEPT !.partial = x]
    <3>1. r.leaf = nodes[e].leaf /\ r.key = nodes[e].key /\ r.value = nodes[e].value
      BY <2>1 DEF NodeRecords
    <3>2. nodes' = [nodes EXCEPT ![e] = r]
      BY <2>2
    <3> HIDE DEF r
    <3> QED
      BY <3>1, <3>2
  <2>3. CASE nodes' = [nodes EXCEPT ![e].parent = x]
    <3> DEFINE r == [nodes[e] EXCEPT !.parent = x]
    <3>1. r.leaf = nodes[e].leaf /\ r.key = nodes[e].key /\ r.value = nodes[e].value
      BY <2>1 DEF NodeRecords
    <3>2. nodes' = [nodes EXCEPT ![e] = r]
      BY <2>3
    <3> HIDE DEF r
    <3> QED
      BY <3>1, <3>2
  <2>4. CASE nodes' = [nodes EXCEPT ![e].left = x]
    <3> DEFINE r == [nodes[e] EXCEPT !.left = x]
    <3>1. r.leaf = nodes[e].leaf /\ r.key = nodes[e].key /\ r.value = nodes[e].value
      BY <2>1 DEF NodeRecords
    <3>2. nodes' = [nodes EXCEPT ![e] = r]
      BY <2>4
    <3> HIDE DEF r
    <3> QED
      BY <3>1, <3>2
  <2>5. CASE nodes' = [nodes EXCEPT ![e].right = x]
    <3> DEFINE r == [nodes[e] EXCEPT !.right = x]
    <3>1. r.leaf = nodes[e].leaf /\ r.key = nodes[e].key /\ r.value = nodes[e].value
      BY <2>1 DEF NodeRecords
    <3>2. nodes' = [nodes EXCEPT ![e] = r]
      BY <2>5
    <3> HIDE DEF r
    <3> QED
      BY <3>1, <3>2
  <2>6. CASE nodes' = [nodes EXCEPT ![e].hash = x]
    <3> DEFINE r == [nodes[e] EXCEPT !.hash = x]
    <3>1. r.leaf = nodes[e].leaf /\ r.key = nodes[e].key /\ r.value = nodes[e].value
      BY <2>1 DEF NodeRecords
    <3>2. nodes' = [nodes EXCEPT ![e] = r]
      BY <2>6
    <3> HIDE DEF r
    <3> QED
      BY <3>1, <3>2
  <2> QED
    BY <2>2, <2>3, <2>4, <2>5, <2>6
<1>4. DOMAIN nodes' = DOMAIN nodes /\ \A n \in DOMAIN nodes : nodes'[n] = IF n = e THEN r ELSE nodes[n]
  BY <1>1, <1>3
<1> QED
  BY <1>3, <1>4 DEF LeavesKept

\* A new node.
LEMMA LeavesOfChild ==
    ASSUME IsHeap(nodes), NEW p \in DOMAIN nodes, NEW r, Len(nodes) + 1 # p,
           nodes' = AddChild(Append(nodes, r), p, Len(nodes) + 1)
    PROVE  /\ DOMAIN nodes' = DOMAIN nodes \cup {Len(nodes) + 1} /\ Len(nodes) + 1 \notin DOMAIN nodes
           /\ nodes'[Len(nodes) + 1] = r
           /\ \A n \in DOMAIN nodes : /\ nodes'[n].leaf = nodes[n].leaf /\ nodes'[n].key = nodes[n].key
                                     /\ nodes'[n].value = nodes[n].value
<1> DEFINE new == Len(nodes) + 1
           heap == Append(nodes, r)
<1>1. PICK H : nodes \in Seq(NodeRecords(H))
  BY DEF IsHeap
<1>2. \A n \in DOMAIN nodes : nodes[n] \in NodeRecords(H)
  BY <1>1
<1>3. /\ DOMAIN heap = DOMAIN nodes \cup {new} /\ new \notin DOMAIN nodes /\ heap[new] = r
      /\ \A n \in DOMAIN nodes : heap[n] = nodes[n]
  <2> DEFINE R == NodeRecords(H) \cup {r}
  <2>1. nodes \in Seq(R) /\ r \in R
    <3>1. NodeRecords(H) \subseteq R
      OBVIOUS
    <3> HIDE DEF R
    <3>2. nodes \in Seq(R)
      BY <1>1, <3>1
    <3> QED
      BY <3>2 DEF R
  <2> HIDE DEF R
  <2>2. /\ heap \in Seq(R) /\ Len(heap) = Len(nodes) + 1
        /\ \A n \in 1 .. Len(nodes) : heap[n] = nodes[n]
        /\ heap[Len(nodes) + 1] = r
    BY <2>1, AppendProperties
  <2>3. Len(nodes) \in Nat /\ DOMAIN nodes = 1 .. Len(nodes) /\ DOMAIN heap = 1 .. Len(heap)
    BY <2>1, <2>2, LenProperties
  <2> HIDE DEF heap
  <2> QED
    BY <2>2, <2>3
<1>4. nodes' = AddChild(heap, p, new) /\ new # p
  OBVIOUS
<1> HIDE DEF heap, new
<1>5. PICK o : /\ o.leaf = nodes[p].leaf /\ o.key = nodes[p].key /\ o.value = nodes[p].value
               /\ nodes' = [heap EXCEPT ![p] = o]
  <2>1. nodes[p] \in NodeRecords(H) /\ heap[p] = nodes[p]
    BY <1>2, <1>3
  <2>2. CASE nodes' = [heap EXCEPT ![p].left = new]
    <3> DEFINE o == [nodes[p] EXCEPT !.left = new]
    <3>1. o.leaf = nodes[p].leaf /\ o.key = nodes[p].key /\ o.value = nodes[p].value
      BY <2>1 DEF NodeRecords
    <3>2. nodes' = [heap EXCEPT ![p] = o]
      BY <2>1, <2>2
    <3> HIDE DEF o
    <3> QED
      BY <3>1, <3>2
  <2>3. CASE nodes' = [heap EXCEPT ![p].right = new]
    <3> DEFINE o == [nodes[p] EXCEPT !.right = new]
    <3>1. o.leaf = nodes[p].leaf /\ o.key = nodes[p].key /\ o.value = nodes[p].value
      BY <2>1 DEF NodeRecords
    <3>2. nodes' = [heap EXCEPT ![p] = o]
      BY <2>1, <2>3
    <3> HIDE DEF o
    <3> QED
      BY <3>1, <3>2
  <2> QED
    BY <1>4, <2>2, <2>3 DEF AddChild
<1>6. DOMAIN nodes' = DOMAIN heap /\ \A n \in DOMAIN heap : nodes'[n] = IF n = p THEN o ELSE heap[n]
  <2>1. heap = Append(nodes, r)
    BY DEF heap
  <2> QED
    BY <1>3, <1>5
<1> QED
  BY <1>3, <1>4, <1>5, <1>6 DEF new

\* What getLeaf does not find, before and after.
LEMMA NoneHidden == TreeInv /\ ~ Moving => Unreachable = {}
BY HiddenAreCut DEF CutLeaves, Cut

LEMMA SomeHidden == TreeInv /\ Moving => Unreachable # {} /\ Unreachable \subseteq Map!Present
<1> SUFFICES ASSUME TreeInv, Moving PROVE Unreachable # {} /\ Unreachable \subseteq Map!Present
  OBVIOUS
<1>1. Unreachable = CutLeaves /\ CutLeaves # {}
  BY HiddenAreCut, SomeAreCut
<1>2. CutLeaves \subseteq Map!Present
  BY LeavesMapped DEF LeavesFit, CutLeaves, Map!Present
<1> QED
  BY <1>1, <1>2

\* Nothing happens, as seen from outside.
LEMMA MapStutters ==
    ASSUME TreeInv, TreeInv', LeavesKept, nodes'[Root].hash = nodes[Root].hash,
           \/ ~ Moving /\ ~ Moving'
           \/ Moving /\ Moving' /\ job'.node = job.node
    PROVE  UNCHANGED Map!mvars
<1>1. LeafMap' = LeafMap /\ \A k \in Keys : LeafOf(k)' = LeafOf(k)
  BY LeavesStay
<1>2. HashMap' = HashMap
  BY HashMapStays
<1>3. Unreachable' = Unreachable
  <2>1. CASE ~ Moving /\ ~ Moving'
    <3>1. Unreachable = {}
      BY <2>1, NoneHidden
    <3>2. (TreeInv /\ ~ Moving => Unreachable = {})'
      BY NoneHidden, PTL
    <3> QED
      BY <2>1, <3>1, <3>2
  <2>2. CASE Moving /\ Moving' /\ job'.node = job.node
    <3>1. Unreachable = CutLeaves
      BY HiddenAreCut
    <3>2. (TreeInv => Unreachable = CutLeaves)'
      BY HiddenAreCut, PTL
    <3>3. nodes'[job'.node].key = nodes[job.node].key
      <4>1. job.node \in DOMAIN nodes
        BY <2>2 DEF TreeInv, JobFits, BranchesOff
      <4> QED
        BY <2>2, <4>1 DEF LeavesKept
    <3>4. \A k \in Keys : Cut(k)' <=> Cut(k)
      BY <2>2, <3>3 DEF Cut
    <3>5. CutLeaves' = CutLeaves
      BY <1>1, <3>4 DEF CutLeaves
    <3> QED
      BY <3>1, <3>2, <3>5
  <2> QED
    BY <2>1, <2>2
<1> QED
  BY <1>1, <1>2, <1>3 DEF Map!mvars, HashMap

\* The tree is at rest, but for the store that comes.
LEMMA QuietNow ==
    ASSUME TreeInv, RootMapFits, ~ Moving, wpc # "update"
    PROVE  Map!Quiet
<1>1. Unreachable = {} /\ HashMap = LeafMap
  BY NoneHidden DEF RootMapFits
<1> QED
  BY <1>1 DEF Map!Quiet, HashMap

LEMMA InsertParentSplits ==
    ASSUME TreeInv, TreeInv', RootMapFits, InsertParent, nodes'[Root].hash = nodes[Root].hash
    PROVE  Map!Split /\ RootMapFits'
<1> DEFINE r == Interior(job.prev, SubSeq(nodes[job.node].partial, 1, job.j), SubSeq(job.key, 1, job.i))
           new == Len(nodes) + 1
<1>1. /\ wpc = "split" /\ wpc' = "cut" /\ ~ Moving /\ Moving'
      /\ nodes' = AddChild(Append(nodes, r), job.prev, Len(nodes) + 1)
  BY DEF InsertParent, Moving
<1>2. IsHeap(nodes) /\ job.prev \in DOMAIN nodes /\ Len(nodes) + 1 # job.prev
  <2>1. IsHeap(nodes) /\ job.prev \in DOMAIN nodes
    BY <1>1 DEF TreeInv, NodesFit, JobFits
  <2> QED
    BY <2>1, TypesOfTree
<1>3. ~ r.leaf
  BY DEF Interior
<1> HIDE DEF r
<1>4. LeavesKept
  BY <1>1, <1>2, <1>3, LeavesOfChild DEF LeavesKept
<1>5. LeafMap' = LeafMap /\ HashMap' = HashMap
  BY <1>4, LeavesStay, HashMapStays
<1>6. Map!Quiet
  BY <1>1, QuietNow
<1>7. Unreachable' # {} /\ Unreachable' \subseteq Map!Present'
  <2>1. (TreeInv /\ Moving => Unreachable # {} /\ Unreachable \subseteq Map!Present)'
    BY SomeHidden, PTL
  <2> QED
    BY <1>1, <2>1
<1>8. Map!Present' = Map!Present
  BY <1>5 DEF Map!Present
<1>9. RootMapFits'
  BY <1>1, <1>5 DEF RootMapFits
<1>10. UNCHANGED <<LeafMap, MapOf(Committed(nodes[Root].hash))>>
  BY <1>5 DEF HashMap
<1>11. Unreachable' # {} /\ Unreachable' \subseteq Map!Present
  BY <1>7, <1>8
<1> HIDE DEF LeafMap, Unreachable, MapOf
<1>12. Map!Split
  BY <1>6, <1>10, <1>11 DEF Map!Split
<1> QED
  BY <1>9, <1>12

LEMMA LinkRejoins ==
    ASSUME TreeInv, TreeInv', RootMapFits, Link, nodes'[Root].hash = nodes[Root].hash
    PROVE  Map!Rejoin /\ RootMapFits'
<1>1. /\ wpc = "link" /\ wpc' = "rehash" /\ Moving /\ ~ Moving'
      /\ nodes' = AddChild(nodes, job.prev, job.node)
  BY DEF Link, Moving
<1>2. IsHeap(nodes) /\ job.prev \in DOMAIN nodes
  BY <1>1 DEF TreeInv, NodesFit, JobFits, AtNode
<1>3. LeavesKept
  BY <1>1, <1>2, LeavesKeptByStore DEF AddChild
<1>4. LeafMap' = LeafMap /\ HashMap' = HashMap
  BY <1>3, LeavesStay, HashMapStays
<1>5. Unreachable # {}
  BY <1>1, SomeHidden
<1>6. Unreachable' = {}
  <2>1. (TreeInv /\ ~ Moving => Unreachable = {})'
    BY NoneHidden, PTL
  <2> QED
    BY <1>1, <2>1
<1>7. RootMapFits'
  BY <1>1, <1>4 DEF RootMapFits
<1> QED
  BY <1>4, <1>5, <1>6, <1>7 DEF Map!Rejoin, HashMap

\* The value of one leaf is stored, of a new one or of one that was there.
LEMMA LeafStored ==
    ASSUME TreeInv, TreeInv', RootMapFits, ~ Moving, ~ Moving', wpc # "update", wpc' = "update",
           NEW p \in Keys, NEW v \in Values, nodes'[Root].hash = nodes[Root].hash,
           \A n \in DOMAIN nodes : nodes[n].leaf /\ nodes[n].key # p =>
               n \in DOMAIN nodes' /\ nodes'[n].leaf /\ nodes'[n].key = nodes[n].key
               /\ nodes'[n].value = nodes[n].value,
           \A n \in DOMAIN nodes' : nodes'[n].leaf /\ nodes'[n].key # p =>
               n \in DOMAIN nodes /\ nodes[n].leaf /\ nodes[n].key = nodes'[n].key,
           \E n \in DOMAIN nodes' : nodes'[n].leaf /\ nodes'[n].key = p /\ nodes'[n].value = v
    PROVE  Map!Attach /\ RootMapFits'
<1>1. (/\ LeafMap \in [Keys -> Values \cup {NoValue}]
       /\ \A n \in DOMAIN nodes : nodes[n].leaf =>
              nodes[n].key \in Keys /\ LeafMap[nodes[n].key] = nodes[n].value
       /\ \A k \in Keys : LeafMap[k] # NoValue <=> LeafOf(k) # {})'
  <2>1. (TreeInv => LeavesFit)'
    BY LeavesMapped, PTL
  <2> QED
    BY <2>1 DEF LeavesFit
<1>2. /\ LeafMap \in [Keys -> Values \cup {NoValue}]
      /\ \A n \in DOMAIN nodes : nodes[n].leaf =>
             nodes[n].key \in Keys /\ LeafMap[nodes[n].key] = nodes[n].value
      /\ \A k \in Keys : LeafMap[k] # NoValue <=> LeafOf(k) # {}
  BY LeavesMapped DEF LeavesFit
<1>3. LeafMap'[p] = v
  BY <1>1
<1>4. ASSUME NEW j \in Keys, j # p PROVE LeafMap'[j] = LeafMap[j]
  <2>1. CASE LeafOf(j) # {}
    <3>1. PICK n \in DOMAIN nodes : nodes[n].leaf /\ nodes[n].key = j
      BY <2>1 DEF LeafOf
    <3>2. LeafMap[j] = nodes[n].value
      BY <1>2, <3>1
    <3>3. n \in DOMAIN nodes' /\ nodes'[n].leaf /\ nodes'[n].key = j /\ nodes'[n].value = nodes[n].value
      BY <1>4, <3>1
    <3>4. LeafMap'[j] = nodes'[n].value
      BY <1>1, <3>3
    <3> QED
      BY <3>2, <3>3, <3>4
  <2>2. CASE LeafOf(j) = {}
    <3>1. LeafOf(j)' = {}
      BY <1>4, <2>2 DEF LeafOf
    <3>2. LeafMap[j] = NoValue /\ LeafMap'[j] = NoValue
      BY <1>1, <1>2, <2>2, <3>1
    <3> QED
      BY <3>2
  <2> QED
    BY <2>1, <2>2
<1>5. LeafMap' = [LeafMap EXCEPT ![p] = v]
  <2>1. DOMAIN LeafMap = Keys /\ LeafMap' \in [Keys -> Values \cup {NoValue}]
    BY <1>1, <1>2
  <2>2. LeafMap \in [Keys -> Values \cup {NoValue}]
    BY <1>2
  <2> QED
    BY <1>3, <1>4, <2>1, <2>2
<1>6. Map!Quiet
  BY QuietNow
<1>7. Unreachable' = Unreachable
  <2>1. (TreeInv /\ ~ Moving => Unreachable = {})'
    BY NoneHidden, PTL
  <2> QED
    BY <2>1, NoneHidden
<1>8. HashMap' = HashMap
  BY HashMapStays
<1>9. RootMapFits'
  BY DEF RootMapFits
<1> QED
  BY <1>5, <1>6, <1>7, <1>8, <1>9 DEF Map!Attach, HashMap

LEMMA AttachLeafAttaches ==
    ASSUME TreeInv, TreeInv', RootMapFits, AttachLeaf, nodes'[Root].hash = nodes[Root].hash
    PROVE  Map!Attach /\ RootMapFits'
<1> DEFINE r == Leaf(job.prev, SubSeq(job.key, job.i + 1, Len(job.key)), job.key, job.value)
           new == Len(nodes) + 1
<1>1. /\ wpc = "attach" /\ wpc' = "update" /\ ~ Moving /\ ~ Moving'
      /\ nodes' = AddChild(Append(nodes, r), job.prev, Len(nodes) + 1)
  BY DEF AttachLeaf, Moving
<1>2. /\ IsHeap(nodes) /\ job.prev \in DOMAIN nodes /\ Len(nodes) + 1 # job.prev
      /\ job.key \in Keys /\ job.value \in Values
  <2>1. IsHeap(nodes) /\ job.prev \in DOMAIN nodes /\ job.key \in Keys /\ job.value \in Values
    BY <1>1 DEF TreeInv, NodesFit, JobFits, AtNode
  <2> QED
    BY <2>1, TypesOfTree
<1>3. r.leaf /\ r.key = job.key /\ r.value = job.value
  BY DEF Leaf
<1> HIDE DEF r
<1>4. /\ DOMAIN nodes' = DOMAIN nodes \cup {new} /\ new \notin DOMAIN nodes /\ nodes'[new] = r
      /\ \A n \in DOMAIN nodes : /\ nodes'[n].leaf = nodes[n].leaf /\ nodes'[n].key = nodes[n].key
                                /\ nodes'[n].value = nodes[n].value
  BY <1>1, <1>2, LeavesOfChild
<1> HIDE DEF new
<1>5. \E n \in DOMAIN nodes' : nodes'[n].leaf /\ nodes'[n].key = job.key /\ nodes'[n].value = job.value
  BY <1>3, <1>4
<1>6. \A n \in DOMAIN nodes' : nodes'[n].leaf /\ nodes'[n].key # job.key =>
          n \in DOMAIN nodes /\ nodes[n].leaf /\ nodes[n].key = nodes'[n].key
  BY <1>3, <1>4
<1>7. PICK k, v : k = job.key /\ v = job.value
  OBVIOUS
<1> QED
  BY <1>1, <1>2, <1>4, <1>5, <1>6, <1>7, LeafStored

LEMMA SetValueAttaches ==
    ASSUME TreeInv, TreeInv', RootMapFits, SetValue, nodes'[Root].hash = nodes[Root].hash
    PROVE  Map!Attach /\ RootMapFits'
<1>1. /\ wpc = "replace" /\ wpc' = "update" /\ ~ Moving /\ ~ Moving'
      /\ nodes' = [nodes EXCEPT ![job.node].value = job.value]
  BY DEF SetValue, Moving
<1>2. /\ IsHeap(nodes) /\ job.node \in DOMAIN nodes /\ nodes[job.node].key = job.key
      /\ job.key \in Keys /\ job.value \in Values
  BY <1>1 DEF TreeInv, NodesFit, JobFits
<1>3. nodes[job.node].leaf
  BY <1>2, KeysAreLongest
<1>4. ValueStored(nodes', nodes, job.node, job.value)
  BY <1>1, <1>2, StoreValue, Zenon
<1>5. /\ DOMAIN nodes' = DOMAIN nodes
      /\ \A n \in DOMAIN nodes : /\ nodes'[n].leaf = nodes[n].leaf /\ nodes'[n].key = nodes[n].key
                                /\ nodes'[n].value = IF n = job.node THEN job.value ELSE nodes[n].value
  BY <1>4 DEF ValueStored, SameLeaf, SameKey
<1>6. \E n \in DOMAIN nodes' : nodes'[n].leaf /\ nodes'[n].key = job.key /\ nodes'[n].value = job.value
  BY <1>2, <1>3, <1>5
<1>7. \A n \in DOMAIN nodes : nodes[n].leaf /\ nodes[n].key # job.key =>
          n \in DOMAIN nodes' /\ nodes'[n].leaf /\ nodes'[n].key = nodes[n].key
          /\ nodes'[n].value = nodes[n].value
  BY <1>2, <1>5
<1>8. \A n \in DOMAIN nodes' : nodes'[n].leaf /\ nodes'[n].key # job.key =>
          n \in DOMAIN nodes /\ nodes[n].leaf /\ nodes[n].key = nodes'[n].key
  BY <1>5
<1>9. PICK k, v : k = job.key /\ v = job.value
  OBVIOUS
<1> QED
  BY <1>1, <1>2, <1>6, <1>7, <1>8, <1>9, LeafStored

LEMMA UpdateHashRehashes ==
    ASSUME TrieInv, TrieInv', UpdateHash, wpc' # "idle" => nodes'[Root].hash = nodes[Root].hash
    PROVE  [Map!MNext]_Map!mvars /\ RootMapFits'
<1>0. TreeInv /\ TreeInv'
  BY DEF TrieInv
<1>1. /\ wpc = "update" /\ wpc' \in {"update", "idle"} /\ ~ Moving /\ ~ Moving'
      /\ nodes' = [nodes EXCEPT ![job.node].hash = HashOfNode(nodes, job.node)]
  BY DEF UpdateHash, Moving
<1>2. IsHeap(nodes) /\ job.node \in DOMAIN nodes
  BY <1>0, <1>1 DEF TreeInv, NodesFit, JobFits
<1>3. LeavesKept
  BY <1>1, <1>2, LeavesKeptByStore
<1>4. CASE wpc' = "update"
  <2>1. nodes'[Root].hash = nodes[Root].hash
    BY <1>4
  <2>2. UNCHANGED Map!mvars
    BY <1>0, <1>1, <1>3, <2>1, MapStutters
  <2>3. RootMapFits'
    BY <1>4 DEF RootMapFits
  <2> QED
    BY <2>2, <2>3
<1>5. CASE wpc' = "idle"
  <2>1. HashMap' = LeafMap'
    <3>1. (TrieInv /\ wpc = "idle" => HashMap = LeafMap)'
      BY HashAtRest, PTL
    <3> QED
      BY <1>5, <3>1
  <2>2. LeafMap' = LeafMap
    BY <1>3, LeavesStay
  <2>3. Unreachable = {} /\ Unreachable' = {}
    <3>1. (TreeInv /\ ~ Moving => Unreachable = {})'
      BY NoneHidden, PTL
    <3> QED
      BY <1>0, <1>1, <3>1, NoneHidden
  <2>4. Map!Rehash
    BY <2>1, <2>2, <2>3 DEF Map!Rehash, HashMap
  <2>5. RootMapFits'
    BY <2>1 DEF RootMapFits
  <2> QED
    BY <2>4, <2>5 DEF Map!MNext
<1> QED
  BY <1>1, <1>4, <1>5

\* The steps that show nothing outside, one after the other.
LEMMA OtherStoresStutter ==
    ASSUME TreeInv, TreeInv', RootMapFits, nodes'[Root].hash = nodes[Root].hash,
           \/ \E k \in Keys, v \in Values : PrefixAppend(k, v)
           \/ NextChild \/ CutPrefix \/ SetParent \/ RehashNode
    PROVE  UNCHANGED Map!mvars /\ RootMapFits'
<1>1. wpc # "update" /\ wpc' # "update"
  BY DEF PrefixAppend, NextChild, CutPrefix, SetParent, RehashNode
<1>2. \/ ~ Moving /\ ~ Moving'
      \/ Moving /\ Moving' /\ job'.node = job.node
  BY DEF PrefixAppend, NextChild, CutPrefix, SetParent, RehashNode, Moving
<1>3. IsHeap(nodes)
  BY DEF TreeInv, NodesFit
<1>4. LeavesKept
  <2>1. CASE (\E k \in Keys, v \in Values : PrefixAppend(k, v)) \/ NextChild
    BY <2>1 DEF PrefixAppend, NextChild, LeavesKept
  <2>2. CASE CutPrefix
    <3>1. job.node \in DOMAIN nodes
      BY <2>2 DEF CutPrefix, TreeInv, JobFits, BranchesOff, Moving
    <3> QED
      BY <1>3, <2>2, <3>1, LeavesKeptByStore DEF CutPrefix
  <2>3. CASE SetParent
    <3>1. job.node \in DOMAIN nodes
      BY <2>3 DEF SetParent, TreeInv, JobFits, BranchesOff, Moving
    <3> QED
      BY <1>3, <2>3, <3>1, LeavesKeptByStore DEF SetParent
  <2>4. CASE RehashNode
    <3>1. job.node \in DOMAIN nodes
      BY <2>4 DEF RehashNode, TreeInv, JobFits, BranchesOff, Moving
    <3> QED
      BY <1>3, <2>4, <3>1, LeavesKeptByStore DEF RehashNode
  <2> QED
    BY <2>1, <2>2, <2>3, <2>4
<1>5. UNCHANGED Map!mvars
  BY <1>2, <1>4, MapStutters
<1>6. LeafMap' = LeafMap /\ HashMap' = HashMap
  BY <1>4, LeavesStay, HashMapStays
<1> QED
  BY <1>1, <1>5, <1>6 DEF RootMapFits

\* The writer's steps together.
LEMMA WriterMaps ==
    ASSUME TrieInv, TrieInv', ClimbInv, RootMapFits, WriterStep
    PROVE  [Map!MNext]_Map!mvars /\ RootMapFits'
<1>1. TreeInv /\ TreeInv'
  BY DEF TrieInv
<1>2. wpc' # "idle" => nodes'[Root].hash = nodes[Root].hash
  BY WriterKeeps, WriterClimb, <1>1
<1>3. CASE InsertParent
  <2>1. nodes'[Root].hash = nodes[Root].hash
    BY <1>2, <1>3 DEF InsertParent
  <2> QED
    BY <1>1, <1>3, <2>1, InsertParentSplits DEF Map!MNext
<1>4. CASE Link
  <2>1. nodes'[Root].hash = nodes[Root].hash
    BY <1>2, <1>4 DEF Link
  <2> QED
    BY <1>1, <1>4, <2>1, LinkRejoins DEF Map!MNext
<1>5. CASE AttachLeaf
  <2>1. nodes'[Root].hash = nodes[Root].hash
    BY <1>2, <1>5 DEF AttachLeaf
  <2> QED
    BY <1>1, <1>5, <2>1, AttachLeafAttaches DEF Map!MNext
<1>6. CASE SetValue
  <2>1. nodes'[Root].hash = nodes[Root].hash
    BY <1>2, <1>6 DEF SetValue
  <2> QED
    BY <1>1, <1>6, <2>1, SetValueAttaches DEF Map!MNext
<1>7. CASE UpdateHash
  BY <1>2, <1>7, UpdateHashRehashes
<1>8. CASE (\E k \in Keys, v \in Values : PrefixAppend(k, v)) \/ NextChild \/ CutPrefix \/ SetParent \/ RehashNode
  <2>1. nodes'[Root].hash = nodes[Root].hash
    BY <1>2, <1>8 DEF PrefixAppend, NextChild, CutPrefix, SetParent, RehashNode
  <2> QED
    BY <1>1, <1>8, <2>1, OtherStoresStutter
<1> QED
  BY <1>3, <1>4, <1>5, <1>6, <1>7, <1>8 DEF WriterStep

\* The readers change nothing.
LEMMA ReadersMap ==
    ASSUME TreeInv, TreeInv', RootMapFits, UNCHANGED treeVars
    PROVE  UNCHANGED Map!mvars /\ RootMapFits'
<1>1. nodes' = nodes /\ wpc' = wpc /\ job' = job
  BY DEF treeVars
<1>2. LeavesKept
  BY <1>1 DEF LeavesKept
<1>3. nodes'[Root].hash = nodes[Root].hash
  BY <1>1
<1>4. \/ ~ Moving /\ ~ Moving'
      \/ Moving /\ Moving' /\ job'.node = job.node
  BY <1>1 DEF Moving
<1>5. UNCHANGED Map!mvars
  BY <1>2, <1>3, <1>4, MapStutters
<1>6. LeafMap' = LeafMap /\ HashMap' = HashMap
  BY <1>2, <1>3, LeavesStay, HashMapStays
<1> QED
  BY <1>1, <1>5, <1>6 DEF RootMapFits

LEMMA MapStarts == Init /\ TrieInv => Map!MInit /\ RootMapFits
<1> SUFFICES ASSUME Init, TrieInv PROVE Map!MInit /\ RootMapFits
  OBVIOUS
<1>1. TreeInv /\ wpc = "idle" /\ ~ Moving
  BY DEF Init, TrieInv, Moving
<1>2. HashMap = LeafMap
  BY <1>1, HashAtRest
<1>3. Unreachable = {}
  BY <1>1, NoneHidden
<1>4. \A n \in DOMAIN nodes : ~ nodes[n].leaf
  BY DEF Init, Interior
<1>5. LeafMap = [k \in Keys |-> NoValue]
  BY <1>4 DEF LeafMap, LeafOf
<1> QED
  BY <1>2, <1>3, <1>5 DEF Map!MInit, HashMap, RootMapFits

\* Every step of the writer, even with readers between the steps, does to
\* the map of the leaves what PrefixMap allows: one split or one rejoining
\* at a time, one leaf at a time, and the root hash goes in one step from
\* the leaves before an append to those after it.
THEOREM ActsAsMapCorrect == Spec => ActsAsMap
<1>1. Init /\ TrieInv => Map!MInit /\ RootMapFits
  BY MapStarts
<1>2. TrieInv /\ TrieInv' /\ ClimbInv /\ RootMapFits /\ [Next]_vars =>
          [Map!MNext]_Map!mvars /\ RootMapFits'
  <2> SUFFICES ASSUME TrieInv, TrieInv', ClimbInv, RootMapFits, [Next]_vars
               PROVE  [Map!MNext]_Map!mvars /\ RootMapFits'
    OBVIOUS
  <2>1. CASE WriterStep
    BY <2>1, WriterMaps
  <2>2. CASE UNCHANGED treeVars
    BY <2>2, ReadersMap DEF TrieInv
  <2> QED
    BY <2>1, <2>2 DEF Next, vars
<1>3. SnapshotInv => ClimbInv
  BY DEF SnapshotInv
<1>4. Spec => Map!MSpec
  BY <1>1, <1>2, <1>3, TrieInvIsInductive, SnapshotInvIsInductive, PTL DEF Spec, Map!MSpec
<1> QED
  BY <1>4 DEF ActsAsMap

=============================================================================
