------------------------- MODULE PrefixTree_proofs -------------------------
(***************************************************************************)
(* Proofs about the prefix tree: while PrefixAppend splits nodes store by  *)
(* store and clients walk the pointers, the tree stays well formed, the    *)
(* code calls for no panic, and between calls it is the compressed trie of *)
(* what was appended, with every hash up to date; a client that no         *)
(* PrefixAppend disturbs gets an answer that is right and verifies; the    *)
(* root hash of a trie tells what it was built from; and proofs that were  *)
(* put together while PrefixAppend was at work are, if they verify, about  *)
(* what their root hash stands for: a membership proof about the value, a  *)
(* set completeness proof, with entries the client accepts, about nothing  *)
(* else in the range, and about all of it if no PrefixAppend was at work.  *)
(***************************************************************************)
EXTENDS PrefixTree, SequenceTheorems, WellFoundedInduction, TLAPS

Bit == {0, 1}

-----------------------------------------------------------------------------
(* Sequences of bits *)

LEMMA NatMin ==
    ASSUME NEW T, T \subseteq Nat, T # {}
    PROVE  Min(T) \in T /\ \A y \in T : Min(T) <= y
<1> DEFINE R == {ss \in Nat \X Nat : ss[1] < ss[2]}
<1>1. IsWellFoundedOn(R, Nat)
  BY NatLessThanWellFounded, Zenon DEF OpToRel
<1> HIDE DEF R
<1>2. PICK x \in T : \A y \in T : ~ (<<y, x>> \in R)
  BY <1>1, WFMin
<1>3. ASSUME NEW y \in T PROVE x <= y
  <2>1. ~ (<<y, x>> \in R) /\ x \in Nat /\ y \in Nat
    BY <1>2, <1>3
  <2>2. y < x => <<y, x>> \in R
    BY <2>1 DEF R
  <2> QED
    BY <2>1, <2>2
<1> QED
  BY <1>3 DEF Min

\* What getCommonPrefix returns: up to there the sequences agree, and there
\* one of them ends or they differ.
LEMMA AgreementIs ==
    ASSUME NEW s \in Seq(Bit), NEW t \in Seq(Bit)
    PROVE  /\ Agreement(s, t) \in 0 .. Len(s) /\ Agreement(s, t) \in 0 .. Len(t)
           /\ \A x \in 1 .. Agreement(s, t) : s[x] = t[x]
           /\ Agreement(s, t) < Len(s) /\ Agreement(s, t) < Len(t) =>
                  s[Agreement(s, t) + 1] # t[Agreement(s, t) + 1]
<1> DEFINE l == Min({Len(s), Len(t)})
           D == {j \in 1 .. l : s[j] # t[j]}
           T == {i - 1 : i \in D} \cup {Len(s), Len(t)}
<1>1. Len(s) \in Nat /\ Len(t) \in Nat
  BY LenProperties
<1>2. l \in {Len(s), Len(t)} /\ l <= Len(s) /\ l <= Len(t)
  <2>1. {Len(s), Len(t)} \subseteq Nat /\ {Len(s), Len(t)} # {}
    BY <1>1
  <2> QED
    BY <2>1, NatMin
<1> HIDE DEF l
<1>3. T \subseteq Nat /\ T # {}
  BY <1>1, <1>2
<1>4. Agreement(s, t) = Min(T)
  BY DEF Agreement, l
<1>5. Min(T) \in T /\ \A y \in T : Min(T) <= y
  BY <1>3, NatMin
<1> DEFINE m == Min(T)
<1>6. m \in Nat /\ m <= Len(s) /\ m <= Len(t)
  BY <1>3, <1>5
<1>7. ASSUME NEW x \in 1 .. m PROVE s[x] = t[x]
  <2>1. x \in 1 .. l
    BY <1>1, <1>2, <1>6
  <2>2. s[x] # t[x] => x - 1 \in T
    BY <2>1
  <2>3. x - 1 \in T => m <= x - 1
    BY <1>5
  <2> HIDE DEF T
  <2> QED
    BY <2>2, <2>3, <1>6
<1>8. m < Len(s) /\ m < Len(t) => s[m + 1] # t[m + 1]
  <2>1. m < Len(s) /\ m < Len(t) => m \in {i - 1 : i \in D}
    BY <1>1, <1>5
  <2> QED
    BY <2>1, <1>2, <1>6, <1>1
<1> HIDE DEF m, T
<1> QED
  BY <1>4, <1>6, <1>7, <1>8, <1>1 DEF m

\* IsPrefix, bit by bit.
LEMMA PrefixIs ==
    ASSUME NEW s \in Seq(Bit), NEW t \in Seq(Bit)
    PROVE  IsPrefix(s, t) <=> Len(s) <= Len(t) /\ \A x \in 1 .. Len(s) : s[x] = t[x]
<1>1. Len(s) \in Nat /\ Len(t) \in Nat
  BY LenProperties
<1>2. ASSUME Len(s) <= Len(t)
      PROVE  /\ DOMAIN SubSeq(s, 1, Len(s)) = 1 .. Len(s)
             /\ DOMAIN SubSeq(t, 1, Len(s)) = 1 .. Len(s)
             /\ \A x \in 1 .. Len(s) : SubSeq(s, 1, Len(s))[x] = s[x] /\ SubSeq(t, 1, Len(s))[x] = t[x]
             /\ SubSeq(s, 1, Len(s)) \in Seq(Bit) /\ SubSeq(t, 1, Len(s)) \in Seq(Bit)
  BY <1>1, <1>2
<1>3. ASSUME Len(s) <= Len(t), \A x \in 1 .. Len(s) : s[x] = t[x]
      PROVE  SubSeq(s, 1, Len(s)) = SubSeq(t, 1, Len(s))
  BY <1>1, <1>2, <1>3, SeqEqual
<1> QED
  BY <1>1, <1>2, <1>3 DEF IsPrefix

LEMMA PrefixRefl == \A s \in Seq(Bit) : IsPrefix(s, s)
BY PrefixIs, LenProperties

LEMMA PrefixTrans ==
    \A s, t, u \in Seq(Bit) : IsPrefix(s, t) /\ IsPrefix(t, u) => IsPrefix(s, u)
<1> TAKE s, t, u \in Seq(Bit)
<1>1. Len(s) \in Nat /\ Len(t) \in Nat /\ Len(u) \in Nat
  BY LenProperties
<1> QED
  BY <1>1, PrefixIs

\* Two prefixes of a sequence: the shorter one is a prefix of the other.
LEMMA PrefixesCompare ==
    \A s, t, u \in Seq(Bit) :
        IsPrefix(s, u) /\ IsPrefix(t, u) =>
            /\ Len(s) <= Len(t) => IsPrefix(s, t)
            /\ Len(s) = Len(t) => s = t
<1> TAKE s, t, u \in Seq(Bit)
<1>1. Len(s) \in Nat /\ Len(t) \in Nat /\ Len(u) \in Nat
  BY LenProperties
<1>2. IsPrefix(s, u) /\ IsPrefix(t, u) /\ Len(s) <= Len(t) => IsPrefix(s, t)
  BY <1>1, PrefixIs
<1>3. IsPrefix(s, t) /\ Len(s) = Len(t) => s = t
  BY <1>1, PrefixIs, SeqEqual
<1> QED
  BY <1>1, <1>2, <1>3

LEMMA PrefixBits ==
    \A s, t \in Seq(Bit) : IsPrefix(s, t) =>
        /\ Len(s) \in Nat /\ Len(t) \in Nat /\ Len(s) <= Len(t)
        /\ \A x \in 1 .. Len(s) : s[x] = t[x]
        /\ Len(s) = Len(t) => s = t
BY PrefixIs, PrefixRefl, PrefixesCompare, LenProperties

\* The first bits of a sequence.
LEMMA FirstBits ==
    ASSUME NEW t \in Seq(Bit), NEW i \in 0 .. Len(t)
    PROVE  /\ SubSeq(t, 1, i) \in Seq(Bit) /\ Len(SubSeq(t, 1, i)) = i
           /\ \A x \in 1 .. i : SubSeq(t, 1, i)[x] = t[x]
           /\ IsPrefix(SubSeq(t, 1, i), t)
<1>1. Len(t) \in Nat
  BY LenProperties
<1> DEFINE u == SubSeq(t, 1, i)
<1>2. u \in Seq(Bit) /\ Len(u) = i /\ \A x \in 1 .. i : u[x] = t[x]
  BY <1>1
<1> HIDE DEF u
<1>3. IsPrefix(u, t)
  BY <1>1, <1>2, PrefixIs
<1> QED
  BY <1>2, <1>3 DEF u

\* The last bits of a sequence.
LEMMA LastBits ==
    ASSUME NEW t \in Seq(Bit), NEW i \in 0 .. Len(t)
    PROVE  /\ SubSeq(t, i + 1, Len(t)) \in Seq(Bit) /\ Len(SubSeq(t, i + 1, Len(t))) = Len(t) - i
           /\ \A x \in 1 .. Len(t) - i : SubSeq(t, i + 1, Len(t))[x] = t[i + x]
<1>1. Len(t) \in Nat
  BY LenProperties
<1>2. \A y \in i + 1 .. Len(t) : t[y] \in Bit
  BY <1>1, ElementOfSeq
<1>3. /\ SubSeq(t, i + 1, Len(t)) \in Seq(Bit)
      /\ Len(SubSeq(t, i + 1, Len(t))) = IF i + 1 <= Len(t) THEN Len(t) - (i + 1) + 1 ELSE 0
      /\ \A x \in 1 .. Len(t) - (i + 1) + 1 : SubSeq(t, i + 1, Len(t))[x] = t[(i + 1) + x - 1]
  <2>1. i + 1 \in Int /\ Len(t) \in Int
    BY <1>1
  <2> QED
    BY <1>2, <2>1, SubSeqProperties
<1>4. \A x \in 1 .. Len(t) - i : (i + 1) + x - 1 = i + x
  BY <1>1
<1>5. Len(t) - (i + 1) + 1 = Len(t) - i /\ (IF i + 1 <= Len(t) THEN Len(t) - (i + 1) + 1 ELSE 0) = Len(t) - i
  BY <1>1
<1> QED
  BY <1>3, <1>4, <1>5

-----------------------------------------------------------------------------
(* The heap: what a store changes, field by field, and what it leaves alone *)

\* A node; nothing is assumed of the hashes, which are not of bounded depth.
NodeRecords(H) ==
    [leaf : BOOLEAN, parent : Nat, left : Nat, right : Nat, partial : Seq(Bit), hash : H,
     value : Values \cup {NoValue}, key : Seq(Bit)]

IsHeap(h) == \E H : h \in Seq(NodeRecords(H))

LEMMA HeapFields ==
    ASSUME NEW h, IsHeap(h)
    PROVE  /\ Len(h) \in Nat /\ DOMAIN h = 1 .. Len(h) /\ Nil \notin DOMAIN h
           /\ \A n \in DOMAIN h :
                  /\ n \in Nat
                  /\ h[n].leaf \in BOOLEAN /\ h[n].parent \in Nat
                  /\ h[n].left \in Nat /\ h[n].right \in Nat
                  /\ h[n].partial \in Seq(Bit) /\ Len(h[n].partial) \in Nat
                  /\ h[n].value \in Values \cup {NoValue}
                  /\ h[n].key \in Seq(Bit) /\ Len(h[n].key) \in Nat
<1>1. PICK H : h \in Seq(NodeRecords(H))
  BY DEF IsHeap
<1>2. Len(h) \in Nat /\ DOMAIN h = 1 .. Len(h)
  BY <1>1
<1>3. \A n \in DOMAIN h : h[n] \in NodeRecords(H)
  BY <1>1
<1>4. \A n \in DOMAIN h : h[n].partial \in Seq(Bit) /\ h[n].key \in Seq(Bit)
  BY <1>3 DEF NodeRecords
<1> QED
  BY <1>2, <1>3, <1>4, LenProperties DEF NodeRecords, Nil

\* Two heaps with the same nodes, but for some fields.
SameLeaf(g, h)    == \A n \in DOMAIN h : g[n].leaf = h[n].leaf
SameKey(g, h)     == \A n \in DOMAIN h : g[n].key = h[n].key
SameParent(g, h)  == \A n \in DOMAIN h : g[n].parent = h[n].parent
SamePartial(g, h) == \A n \in DOMAIN h : g[n].partial = h[n].partial
SameHash(g, h)    == \A n \in DOMAIN h : g[n].hash = h[n].hash
SameValue(g, h)   == \A n \in DOMAIN h : g[n].value = h[n].value
SameKids(g, h)    == \A n \in DOMAIN h, b \in Bit : ChildOf(g, n, b) = ChildOf(h, n, b)

\* One node is written.
LEMMA StoreNode ==
    ASSUME NEW R, NEW h \in Seq(R), NEW n \in DOMAIN h, NEW r \in R,
           NEW g, g = [h EXCEPT ![n] = r]
    PROVE  /\ g \in Seq(R) /\ DOMAIN g = DOMAIN h
           /\ \A m \in DOMAIN h : h[m] \in R /\ g[m] = IF m = n THEN r ELSE h[m]
<1>1. Len(h) \in Nat /\ DOMAIN h = 1 .. Len(h) /\ \A m \in DOMAIN h : h[m] \in R
  BY LenProperties, ElementOfSeq
<1>2. DOMAIN g = 1 .. Len(h) /\ \A m \in DOMAIN h : g[m] = IF m = n THEN r ELSE h[m]
  BY <1>1
<1>3. g \in [1 .. Len(h) -> R]
  BY <1>1, <1>2
<1> QED
  BY <1>1, <1>2, <1>3, SeqDef

ValueStored(g, h, n, x) ==
    /\ IsHeap(g) /\ DOMAIN g = DOMAIN h
    /\ SameLeaf(g, h) /\ SameKey(g, h) /\ SameParent(g, h) /\ SamePartial(g, h)
    /\ SameHash(g, h) /\ SameKids(g, h)
    /\ \A m \in DOMAIN h : g[m].value = IF m = n THEN x ELSE h[m].value

LEMMA StoreValue ==
    ASSUME NEW h, IsHeap(h), NEW n \in DOMAIN h, NEW x \in Values,
           NEW g, g = [h EXCEPT ![n].value = x]
    PROVE  ValueStored(g, h, n, x)
<1>1. PICK H : h \in Seq(NodeRecords(H))
  BY DEF IsHeap
<1> DEFINE r == [h[n] EXCEPT !.value = x]
<1>2. r \in NodeRecords(H)
  <2>1. h[n] \in NodeRecords(H)
    BY <1>1
  <2> QED
    BY <2>1 DEF NodeRecords
<1>3. /\ g \in Seq(NodeRecords(H)) /\ DOMAIN g = DOMAIN h
      /\ \A m \in DOMAIN h : h[m] \in NodeRecords(H) /\ g[m] = IF m = n THEN r ELSE h[m]
  BY <1>1, <1>2, StoreNode
<1> QED
  BY <1>2, <1>3
  DEF NodeRecords, IsHeap, ValueStored, SameLeaf, SameKey, SameParent, SamePartial, SameHash, SameKids, ChildOf

PartialStored(g, h, n, x) ==
    /\ IsHeap(g) /\ DOMAIN g = DOMAIN h
    /\ SameLeaf(g, h) /\ SameKey(g, h) /\ SameParent(g, h) /\ SameHash(g, h)
    /\ SameValue(g, h) /\ SameKids(g, h)
    /\ \A m \in DOMAIN h : g[m].partial = IF m = n THEN x ELSE h[m].partial

LEMMA StorePartial ==
    ASSUME NEW h, IsHeap(h), NEW n \in DOMAIN h, NEW x \in Seq(Bit),
           NEW g, g = [h EXCEPT ![n].partial = x]
    PROVE  PartialStored(g, h, n, x)
<1>1. PICK H : h \in Seq(NodeRecords(H))
  BY DEF IsHeap
<1> DEFINE r == [h[n] EXCEPT !.partial = x]
<1>2. r \in NodeRecords(H)
  <2>1. h[n] \in NodeRecords(H)
    BY <1>1
  <2> QED
    BY <2>1 DEF NodeRecords
<1>3. /\ g \in Seq(NodeRecords(H)) /\ DOMAIN g = DOMAIN h
      /\ \A m \in DOMAIN h : h[m] \in NodeRecords(H) /\ g[m] = IF m = n THEN r ELSE h[m]
  BY <1>1, <1>2, StoreNode
<1> QED
  BY <1>2, <1>3
  DEF NodeRecords, IsHeap, PartialStored, SameLeaf, SameKey, SameParent, SameValue, SameHash, SameKids, ChildOf

ParentStored(g, h, n, x) ==
    /\ IsHeap(g) /\ DOMAIN g = DOMAIN h
    /\ SameLeaf(g, h) /\ SameKey(g, h) /\ SamePartial(g, h) /\ SameHash(g, h)
    /\ SameValue(g, h) /\ SameKids(g, h)
    /\ \A m \in DOMAIN h : g[m].parent = IF m = n THEN x ELSE h[m].parent

LEMMA StoreParent ==
    ASSUME NEW h, IsHeap(h), NEW n \in DOMAIN h, NEW x \in Nat,
           NEW g, g = [h EXCEPT ![n].parent = x]
    PROVE  ParentStored(g, h, n, x)
<1>1. PICK H : h \in Seq(NodeRecords(H))
  BY DEF IsHeap
<1> DEFINE r == [h[n] EXCEPT !.parent = x]
<1>2. r \in NodeRecords(H)
  <2>1. h[n] \in NodeRecords(H)
    BY <1>1
  <2> QED
    BY <2>1 DEF NodeRecords
<1>3. /\ g \in Seq(NodeRecords(H)) /\ DOMAIN g = DOMAIN h
      /\ \A m \in DOMAIN h : h[m] \in NodeRecords(H) /\ g[m] = IF m = n THEN r ELSE h[m]
  BY <1>1, <1>2, StoreNode
<1> QED
  BY <1>2, <1>3
  DEF NodeRecords, IsHeap, ParentStored, SameLeaf, SameKey, SamePartial, SameValue, SameHash, SameKids, ChildOf

HashStored(g, h, n, x) ==
    /\ IsHeap(g) /\ DOMAIN g = DOMAIN h
    /\ SameLeaf(g, h) /\ SameKey(g, h) /\ SameParent(g, h) /\ SamePartial(g, h)
    /\ SameValue(g, h) /\ SameKids(g, h)
    /\ \A m \in DOMAIN h : g[m].hash = IF m = n THEN x ELSE h[m].hash

LEMMA StoreHash ==
    ASSUME NEW h, IsHeap(h), NEW n \in DOMAIN h, NEW x,
           NEW g, g = [h EXCEPT ![n].hash = x]
    PROVE  HashStored(g, h, n, x)
<1>1. PICK H : h \in Seq(NodeRecords(H))
  BY DEF IsHeap
<1> DEFINE r == [h[n] EXCEPT !.hash = x]
           R == NodeRecords(H \cup {x})
<1>2. NodeRecords(H) \subseteq R
  BY DEF NodeRecords
<1>3. h \in Seq(R) /\ r \in R
  <2>1. h \in Seq(R)
    <3> HIDE DEF R
    <3> QED
      BY <1>1, <1>2
  <2>2. h[n] \in NodeRecords(H)
    BY <1>1
  <2> QED
    BY <2>1, <2>2 DEF NodeRecords
<1>4. /\ g \in Seq(R) /\ DOMAIN g = DOMAIN h
      /\ \A m \in DOMAIN h : h[m] \in R /\ g[m] = IF m = n THEN r ELSE h[m]
  <2> HIDE DEF R
  <2> QED
    BY <1>3, StoreNode
<1> QED
  BY <1>4
  DEF NodeRecords, IsHeap, HashStored, SameLeaf, SameKey, SameParent, SamePartial, SameValue, SameKids, ChildOf

\* addChild changes one pointer, on the side of the first bit of the child.
ChildStored(g, h, n, c) ==
    /\ IsHeap(g) /\ DOMAIN g = DOMAIN h
    /\ SameLeaf(g, h) /\ SameKey(g, h) /\ SameParent(g, h) /\ SamePartial(g, h)
    /\ SameHash(g, h) /\ SameValue(g, h)
    /\ h[c].partial[1] \in Bit
    /\ \A m \in DOMAIN h, b \in Bit :
           ChildOf(g, m, b) = IF m = n /\ b = h[c].partial[1] THEN c ELSE ChildOf(h, m, b)

LEMMA StoreChild ==
    ASSUME NEW h, IsHeap(h), NEW n \in DOMAIN h, NEW c \in DOMAIN h, Len(h[c].partial) > 0,
           NEW g, g = AddChild(h, n, c)
    PROVE  ChildStored(g, h, n, c)
<1>1. PICK H : h \in Seq(NodeRecords(H))
  BY DEF IsHeap
<1>2. h[c].partial[1] \in Bit /\ Head(h[c].partial) = h[c].partial[1] /\ c \in Nat
  <2>1. h[c].partial \in Seq(Bit) /\ c \in Nat
    BY HeapFields
  <2> QED
    BY <2>1
<1> DEFINE r == IF h[c].partial[1] = 0 THEN [h[n] EXCEPT !.left = c] ELSE [h[n] EXCEPT !.right = c]
<1>3. g = [h EXCEPT ![n] = r]
  BY <1>2 DEF AddChild
<1>4. r \in NodeRecords(H)
  <2>1. h[n] \in NodeRecords(H)
    BY <1>1
  <2> QED
    BY <1>2, <2>1 DEF NodeRecords
<1>5. /\ g \in Seq(NodeRecords(H)) /\ DOMAIN g = DOMAIN h
      /\ \A m \in DOMAIN h : h[m] \in NodeRecords(H) /\ g[m] = IF m = n THEN r ELSE h[m]
  <2> HIDE DEF r
  <2> QED
    BY <1>1, <1>3, <1>4, StoreNode
<1>6. h[n] \in NodeRecords(H)
  BY <1>5
<1>7. /\ r.left = IF h[c].partial[1] = 0 THEN c ELSE h[n].left
      /\ r.right = IF h[c].partial[1] = 0 THEN h[n].right ELSE c
      /\ r.leaf = h[n].leaf /\ r.key = h[n].key /\ r.parent = h[n].parent
      /\ r.partial = h[n].partial /\ r.hash = h[n].hash /\ r.value = h[n].value
  BY <1>6 DEF NodeRecords
<1> HIDE DEF r
<1>8. \A m \in DOMAIN h, b \in Bit :
          ChildOf(g, m, b) = IF m = n /\ b = h[c].partial[1] THEN c ELSE ChildOf(h, m, b)
  BY <1>2, <1>5, <1>7 DEF ChildOf, Bit
<1> QED
  BY <1>2, <1>5, <1>7, <1>8
  DEF ChildStored, IsHeap, SameLeaf, SameKey, SameParent, SamePartial, SameValue, SameHash

LEMMA NewNode ==
    ASSUME NEW h, IsHeap(h), NEW H2, NEW r, r \in NodeRecords(H2), NEW g, g = Append(h, r)
    PROVE  /\ IsHeap(g) /\ DOMAIN g = DOMAIN h \cup {Len(h) + 1} /\ Len(h) + 1 \notin DOMAIN h
           /\ Len(h) + 1 \in Nat
           /\ \A m \in DOMAIN h : g[m] = h[m]
           /\ g[Len(h) + 1] = r
<1>1. PICK H : h \in Seq(NodeRecords(H))
  BY DEF IsHeap
<1> DEFINE R == NodeRecords(H \cup H2)
<1>3. NodeRecords(H) \subseteq R /\ NodeRecords(H2) \subseteq R
  BY DEF NodeRecords
<1>4. h \in Seq(R) /\ r \in R
  <2> HIDE DEF R
  <2> QED
    BY <1>1, <1>3
<1> HIDE DEF R
<1>5. /\ g \in Seq(R) /\ Len(g) = Len(h) + 1
      /\ \A m \in 1 .. Len(h) : g[m] = h[m]
      /\ g[Len(h) + 1] = r
  BY <1>4, AppendProperties
<1>6. Len(h) \in Nat /\ DOMAIN h = 1 .. Len(h) /\ DOMAIN g = 1 .. Len(g)
  BY <1>4, <1>5, LenProperties
<1> QED
  BY <1>5, <1>6 DEF IsHeap, R

\* A new node without children has been appended and linked below p.
Extended(g, h, p, r) ==
    LET new == Len(h) + 1
    IN  /\ IsHeap(g) /\ DOMAIN g = DOMAIN h \cup {new} /\ new \notin DOMAIN h
        /\ new \in Nat /\ p # new /\ new # Nil
        /\ SameLeaf(g, h) /\ SameKey(g, h) /\ SameParent(g, h) /\ SamePartial(g, h)
        /\ SameHash(g, h) /\ SameValue(g, h)
        /\ g[new].leaf = r.leaf /\ g[new].key = r.key /\ g[new].parent = r.parent
        /\ g[new].partial = r.partial /\ g[new].value = r.value /\ g[new].hash = r.hash
        /\ r.partial[1] \in Bit
        /\ \A m \in DOMAIN h, b \in Bit :
               ChildOf(g, m, b) = IF m = p /\ b = r.partial[1] THEN new ELSE ChildOf(h, m, b)
        /\ \A b \in Bit : ChildOf(g, new, b) = Nil

LEMMA NewChild ==
    ASSUME NEW h, IsHeap(h), NEW p, p \in DOMAIN h, NEW H2, NEW r, r \in NodeRecords(H2),
           Len(r.partial) > 0, r.left = Nil, r.right = Nil,
           NEW g, g = AddChild(Append(h, r), p, Len(h) + 1)
    PROVE  Extended(g, h, p, r)
<1> DEFINE e == Append(h, r)
           new == Len(h) + 1
<1>1. /\ IsHeap(e) /\ DOMAIN e = DOMAIN h \cup {new} /\ new \notin DOMAIN h /\ new \in Nat
      /\ \A m \in DOMAIN h : e[m] = h[m]
      /\ e[new] = r
  <2>1. e = Append(h, r)
    OBVIOUS
  <2>2. IsHeap(h) /\ r \in NodeRecords(H2)
    OBVIOUS
  <2> HIDE DEF e, new
  <2>4. IsHeap(e)
    BY <2>1, <2>2, NewNode, Zenon
  <2>3. /\ DOMAIN e = DOMAIN h \cup {Len(h) + 1} /\ Len(h) + 1 \notin DOMAIN h
        /\ Len(h) + 1 \in Nat
        /\ \A m \in DOMAIN h : e[m] = h[m]
        /\ e[Len(h) + 1] = r
    BY <2>1, <2>2, NewNode
  <2> QED
    BY <2>3, <2>4 DEF new
<1>2. g = AddChild(e, p, new)
  OBVIOUS
<1> HIDE DEF e, new
<1>8. p \in DOMAIN e /\ new \in DOMAIN e /\ Len(e[new].partial) > 0
  BY <1>1
<1>9. IsHeap(e)
  BY <1>1
<1>3. /\ IsHeap(g) /\ DOMAIN g = DOMAIN e
      /\ SameLeaf(g, e) /\ SameKey(g, e) /\ SameParent(g, e) /\ SamePartial(g, e)
      /\ SameHash(g, e) /\ SameValue(g, e)
      /\ e[new].partial[1] \in Bit
      /\ \A m \in DOMAIN e, b \in Bit :
             ChildOf(g, m, b) = IF m = p /\ b = e[new].partial[1] THEN new ELSE ChildOf(e, m, b)
  <2>1. ChildStored(g, e, p, new)
    BY <1>2, <1>8, <1>9, StoreChild, Zenon
  <2> QED
    BY <2>1 DEF ChildStored
<1>4. /\ SameLeaf(g, h) /\ SameKey(g, h) /\ SameParent(g, h) /\ SamePartial(g, h)
      /\ SameHash(g, h) /\ SameValue(g, h)
  BY <1>1, <1>3 DEF SameLeaf, SameKey, SameParent, SamePartial, SameHash, SameValue
<1>5. /\ g[new].leaf = r.leaf /\ g[new].key = r.key /\ g[new].parent = r.parent
      /\ g[new].partial = r.partial /\ g[new].value = r.value /\ g[new].hash = r.hash
  BY <1>1, <1>3 DEF SameLeaf, SameKey, SameParent, SamePartial, SameValue, SameHash
<1>6. p # new
  BY <1>1
<1>7. \A b \in Bit : ChildOf(e, new, b) = Nil /\ \A m \in DOMAIN h : ChildOf(e, m, b) = ChildOf(h, m, b)
  BY <1>1 DEF ChildOf
<1>10. new # Nil
  BY <1>1, <1>9, HeapFields
<1> QED
  BY <1>1, <1>3, <1>4, <1>5, <1>6, <1>7, <1>10 DEF new, Extended

\* The hash of a node depends on itself and the hashes of its children.
LEMMA HashDepends ==
    ASSUME NEW g, NEW h, NEW n, g[n].partial = h[n].partial, g[n].value = h[n].value,
           \A b \in Bit : ChildOf(g, n, b) = ChildOf(h, n, b),
           \A b \in Bit : ChildOf(h, n, b) # Nil => g[ChildOf(h, n, b)].hash = h[ChildOf(h, n, b)].hash
    PROVE  HashOfNode(g, n) = HashOfNode(h, n)
<1>1. g[n].left = h[n].left /\ g[n].right = h[n].right
  BY DEF ChildOf, Bit
<1>2. HashAt(g, g[n].left) = HashAt(h, h[n].left) /\ HashAt(g, g[n].right) = HashAt(h, h[n].right)
  BY <1>1 DEF ChildOf, Bit, HashAt
<1> QED
  BY <1>1, <1>2 DEF HashOfNode

-----------------------------------------------------------------------------
(* The inductive invariant of the writer *)

JobTypeOK ==
    /\ wpc \in {"idle", "descend", "attach", "replace", "split", "cut", "setParent", "link",
               "rehash", "update"}
    /\ job \in [key : Seq(Bit), value : Values \cup {NoValue}, prev : Nat, node : Nat,
                i : Nat, j : Nat]
    /\ appends \in 0 .. MaxAppends
    /\ content \in [Keys -> Values \cup {NoValue}]

\* Only leaves have values and keys of full length, and a partial prefix is
\* the end of the prefix its node stands for.
NodesFit ==
    /\ IsHeap(nodes) /\ Root \in DOMAIN nodes
    /\ nodes[Root].key = <<>> /\ ~ nodes[Root].leaf /\ nodes[Root].parent = Nil
    /\ \A n \in DOMAIN nodes :
           /\ n # Root => nodes[n].parent \in DOMAIN nodes /\ Len(nodes[n].partial) > 0
           /\ nodes[n].leaf => nodes[n].key \in Keys /\ nodes[n].value \in Values
           /\ ~ nodes[n].leaf =>
                  nodes[n].value = NoValue /\ \A k \in Keys : Len(nodes[n].key) < Len(k)
           /\ Len(nodes[n].partial) <= Len(nodes[n].key)
           /\ \A x \in 1 .. Len(nodes[n].partial) :
                  nodes[n].partial[x] = nodes[n].key[Len(nodes[n].key) - Len(nodes[n].partial) + x]

\* A child continues the prefix of its parent, with the bit of its side.
ChildFits(n, b, c) ==
    /\ c \in DOMAIN nodes \ {Root} /\ ~ nodes[n].leaf /\ nodes[c].parent = n
    /\ Len(nodes[c].key) = Len(nodes[n].key) + Len(nodes[c].partial)
    /\ IsPrefix(nodes[n].key, nodes[c].key)
    /\ nodes[c].key[Len(nodes[n].key) + 1] = b

ChildrenFit ==
    \A n \in DOMAIN nodes, b \in Bit :
        ChildOf(nodes, n, b) # Nil => ChildFits(n, b, ChildOf(nodes, n, b))

\* While a node is being split no pointer leads to it.
Moving == wpc \in {"cut", "setParent", "link"}

EachIsAChild ==
    \A n \in DOMAIN nodes \ {Root} :
        IF Moving /\ n = job.node
        THEN \A m \in DOMAIN nodes, b \in Bit : ChildOf(nodes, m, b) # n
        ELSE ChildOf(nodes, nodes[n].parent, nodes[n].partial[1]) = n

\* Only the root and the new parent of a split may lack a child.
OthersAreFull ==
    \A n \in DOMAIN nodes \ {Root} :
        \/ nodes[n].leaf
        \/ n = job.prev /\ (Moving \/ wpc \in {"rehash", "attach"})
        \/ \A b \in Bit : ChildOf(nodes, n, b) # Nil

Distinct == \A n, m \in DOMAIN nodes : nodes[n].key = nodes[m].key => n = m

Below(m, n) == Len(nodes[m].key) < Len(nodes[n].key) /\ IsPrefix(nodes[m].key, nodes[n].key)

\* The node through which the way from m to n leads.
NextOnWay(m, n) ==
    IF Moving /\ m = job.prev THEN job.node
    ELSE ChildOf(nodes, m, nodes[n].key[Len(nodes[m].key) + 1])

\* Whatever continues the prefix of a node is found below that node.
Covers ==
    \A m, n \in DOMAIN nodes : Below(m, n) =>
        /\ NextOnWay(m, n) # Nil
        /\ IsPrefix(nodes[NextOnWay(m, n)].key, nodes[n].key)

\* What PrefixAppend has found out: it is at a node whose prefix is the
\* first i bits of the key, with or without a child on the key's side.
AtNode(n) ==
    /\ n \in DOMAIN nodes
    /\ job.i = Len(nodes[n].key) /\ job.i < Len(job.key)
    /\ IsPrefix(nodes[n].key, job.key)

\* The node that is split and the key continue the new parent differently.
BranchesOff ==
    /\ job.node \in DOMAIN nodes \ {Root} /\ job.prev # Root /\ job.prev # job.node
    /\ job.i < Len(nodes[job.node].key)
    /\ IsPrefix(nodes[job.prev].key, nodes[job.node].key)
    /\ nodes[job.node].key[job.i + 1] # job.key[job.i + 1]

JobFits ==
    /\ wpc \notin {"idle", "update"} =>
           job.key \in Keys /\ job.value \in Values /\ content[job.key] = job.value
    /\ wpc = "descend" => AtNode(job.node)
    /\ wpc = "replace" => job.node \in DOMAIN nodes /\ nodes[job.node].key = job.key
    /\ wpc = "split" =>
           /\ job.prev \in DOMAIN nodes /\ job.node \in DOMAIN nodes
           /\ job.j \in 1 .. Len(nodes[job.node].partial) - 1
           /\ job.i = Len(nodes[job.prev].key) + job.j /\ job.i < Len(job.key)
           /\ job.node = ChildOf(nodes, job.prev, job.key[Len(nodes[job.prev].key) + 1])
           /\ \A x \in 1 .. job.i : nodes[job.node].key[x] = job.key[x]
           /\ nodes[job.node].key[job.i + 1] # job.key[job.i + 1]
    /\ Moving \/ wpc = "rehash" => AtNode(job.prev) /\ BranchesOff /\ ~ nodes[job.prev].leaf
    /\ Moving => \A b \in Bit : ChildOf(nodes, job.prev, b) = Nil
    /\ wpc = "cut" => Len(nodes[job.node].partial) = Len(nodes[job.node].key) - job.i + job.j
    /\ wpc \in {"setParent", "link"} => Len(nodes[job.node].partial) = Len(nodes[job.node].key) - job.i
    /\ wpc = "link" => nodes[job.node].parent = job.prev
    /\ wpc = "rehash" =>
           /\ ChildOf(nodes, job.prev, nodes[job.node].key[job.i + 1]) = job.node
           /\ ChildOf(nodes, job.prev, job.key[job.i + 1]) = Nil
    /\ wpc = "attach" =>
           /\ AtNode(job.prev)
           /\ ChildOf(nodes, job.prev, job.key[job.i + 1]) = Nil
           /\ job.prev # Root => ChildOf(nodes, job.prev, 1 - job.key[job.i + 1]) # Nil
    /\ wpc = "update" => job.node \in DOMAIN nodes

\* The nodes whose hashes wait for updateHash.
IsAbove(m, n) == n # Root /\ m = nodes[n].parent

IsStale(n) ==
    \/ /\ Moving \/ wpc = "rehash"
       /\ n = job.node \/ n = job.prev \/ IsAbove(n, job.prev)
    \/ /\ wpc = "attach"
       /\ n = job.prev \/ IsAbove(n, job.prev)
    \/ /\ wpc = "update"
       /\ n = job.node \/ IsAbove(n, job.node) \/ (job.node # Root /\ IsAbove(n, nodes[job.node].parent))

HashesFit == \A n \in DOMAIN nodes : ~ IsStale(n) => nodes[n].hash = HashOfNode(nodes, n)

\* The leaves are those of the map, but for the key that is being appended.
Unstored(k) == wpc \notin {"idle", "update"} /\ k = job.key

ContentFits ==
    /\ \A n \in DOMAIN nodes :
           nodes[n].leaf /\ ~ Unstored(nodes[n].key) => nodes[n].value = content[nodes[n].key]
    /\ \A k \in Keys : content[k] # NoValue /\ ~ Unstored(k) =>
           \E n \in DOMAIN nodes : nodes[n].leaf /\ nodes[n].key = k

TreeInv ==
    /\ JobTypeOK /\ NodesFit /\ ChildrenFit /\ EachIsAChild /\ OthersAreFull
    /\ Distinct /\ Covers /\ JobFits /\ HashesFit /\ ContentFits

LEMMA TreeInitInv == Init => TreeInv
<1> SUFFICES ASSUME Init PROVE TreeInv
  OBVIOUS
<1> DEFINE r == Interior(Nil, <<>>, <<>>)
<1>1. /\ r.leaf = FALSE /\ r.parent = Nil /\ r.left = Nil /\ r.right = Nil /\ r.partial = <<>>
      /\ r.hash = NilHash /\ r.value = NoValue /\ r.key = <<>>
      /\ r \in NodeRecords({NilHash})
  BY DEF Interior, NodeRecords, Nil
<1>2. nodes = <<r>> /\ DOMAIN nodes = {Root} /\ nodes[Root] = r /\ IsHeap(nodes)
  <2>1. nodes \in Seq(NodeRecords({NilHash}))
    BY <1>1 DEF Init
  <2> QED
    BY <2>1 DEF Init, Root, IsHeap
<1> HIDE DEF r
<1>3. \A b \in Bit : ChildOf(nodes, Root, b) = Nil
  BY <1>1, <1>2 DEF ChildOf
<1>4. wpc = "idle" /\ ~ Moving
  BY DEF Init, Moving
<1>5. JobTypeOK
  BY KeysAssumption DEF Init, JobTypeOK, NoJob, Nil
<1>6. NodesFit
  <2>1. \A k \in Keys : Len(nodes[Root].key) < Len(k)
    BY <1>1, <1>2, KeysAssumption
  <2>2. Len(nodes[Root].partial) = 0 /\ Len(nodes[Root].key) = 0 /\ 1 .. 0 = {}
    BY <1>1, <1>2
  <2>3. nodes[Root].key = <<>> /\ ~ nodes[Root].leaf /\ nodes[Root].parent = Nil /\ nodes[Root].value = NoValue
    BY <1>1, <1>2
  <2>4. Len(nodes[Root].partial) <= Len(nodes[Root].key) /\ 1 .. Len(nodes[Root].partial) = {}
    BY <2>2
  <2> QED
    BY <1>2, <2>1, <2>3, <2>4 DEF NodesFit
<1>7. ChildrenFit /\ EachIsAChild /\ OthersAreFull /\ Distinct /\ JobFits
  BY <1>2, <1>3, <1>4 DEF ChildrenFit, EachIsAChild, OthersAreFull, Distinct, JobFits
<1>8. Covers
  BY <1>1, <1>2 DEF Covers, Below
<1>9. HashesFit
  BY <1>1, <1>2 DEF HashesFit, HashOfNode, NodeHash, HashAt, Existing, NilHash
<1>10. ContentFits
  BY <1>1, <1>2 DEF ContentFits, Init
<1> QED
  BY <1>5, <1>6, <1>7, <1>8, <1>9, <1>10 DEF TreeInv

\* What a client that stands at a node can rely on: the node stays, stands for
\* the same prefix, and its partial prefix gets no longer.
NodesStay ==
    /\ DOMAIN nodes \subseteq DOMAIN nodes'
    /\ \A n \in DOMAIN nodes : /\ nodes'[n].key = nodes[n].key
                              /\ Len(nodes'[n].partial) <= Len(nodes[n].partial)

-----------------------------------------------------------------------------
(* The writer's steps, one lemma each *)

\* What the invariant says of the types of a node and of the job.
LEMMA TypesOfTree ==
    ASSUME TreeInv
    PROVE  /\ Len(nodes) \in Nat /\ DOMAIN nodes = 1 .. Len(nodes) /\ Nil \notin DOMAIN nodes
           /\ Root \in DOMAIN nodes
           /\ \A n \in DOMAIN nodes :
                  /\ n \in Nat /\ nodes[n].parent \in Nat
                  /\ nodes[n].partial \in Seq(Bit) /\ Len(nodes[n].partial) \in Nat
                  /\ nodes[n].key \in Seq(Bit) /\ Len(nodes[n].key) \in Nat
                  /\ nodes[n].value \in Values \cup {NoValue}
           /\ job.key \in Seq(Bit) /\ Len(job.key) \in Nat /\ job.i \in Nat /\ job.j \in Nat
           /\ \A x \in 1 .. Len(job.key) : job.key[x] \in Bit
           /\ \A k \in Keys : k \in Seq(Bit) /\ Len(k) \in Nat
<1>1. IsHeap(nodes) /\ Root \in DOMAIN nodes
  BY DEF TreeInv, NodesFit
<1>2. job.key \in Seq(Bit) /\ job.i \in Nat /\ job.j \in Nat
  BY DEF TreeInv, JobTypeOK
<1>3. \A x \in 1 .. Len(job.key) : job.key[x] \in Bit
  BY <1>2, ElementOfSeq
<1>4. Keys \subseteq Seq(Bit)
  BY KeysAssumption DEF Bit
<1> QED
  BY <1>1, <1>2, <1>3, <1>4, HeapFields, LenProperties

\* Every prefix that is appended is as long as any other.
LEMMA SameLength == \A p, q \in Keys : Len(p) = Len(q)
BY KeysAssumption

\* A step that stores nothing and that no node is moving before or after.
LEMMA TreeIsKept ==
    ASSUME TreeInv, nodes' = nodes, ~ Moving, ~ Moving'
    PROVE  NodesFit' /\ ChildrenFit' /\ EachIsAChild' /\ Distinct' /\ Covers'
<1>1. NodesFit'
  BY DEF TreeInv, NodesFit, IsHeap
<1>4. ChildrenFit'
  <2> SUFFICES ASSUME NEW n \in DOMAIN nodes, NEW b \in Bit, ChildOf(nodes, n, b) # Nil
               PROVE  ChildFits(n, b, ChildOf(nodes, n, b))'
    BY DEF ChildrenFit, ChildOf
  <2>1. ChildFits(n, b, ChildOf(nodes, n, b))
    BY DEF TreeInv, ChildrenFit
  <2> QED
    BY <2>1 DEF ChildFits, ChildOf
<1>5. Distinct'
  BY DEF TreeInv, Distinct
<1>2. EachIsAChild'
  BY DEF TreeInv, EachIsAChild, ChildOf
<1>3. Covers'
  BY DEF TreeInv, Covers, Below, NextOnWay, ChildOf
<1> QED
  BY <1>1, <1>2, <1>3, <1>4, <1>5

LEMMA PrefixAppendKeeps ==
    ASSUME TreeInv, NEW k \in Keys, NEW v \in Values, PrefixAppend(k, v)
    PROVE  TreeInv' /\ NodesStay
<1>1. /\ wpc = "idle" /\ wpc' = "descend" /\ nodes' = nodes
      /\ ~ Moving /\ ~ Moving'
  BY DEF PrefixAppend, Moving
<1>2. /\ job'.key = k /\ job'.value = v /\ job'.node = Root /\ job'.i = 0
      /\ job' \in [key : Seq(Bit), value : Values \cup {NoValue}, prev : Nat, node : Nat,
                   i : Nat, j : Nat]
  <2>1. k \in Seq(Bit)
    BY KeysAssumption DEF Bit
  <2> QED
    BY <2>1 DEF PrefixAppend, NoJob, Nil, Root
<1>3. content' = [content EXCEPT ![k] = v] /\ content \in [Keys -> Values \cup {NoValue}]
  BY DEF PrefixAppend, TreeInv, JobTypeOK
<1>4. JobTypeOK'
  <2>1. appends \in 0 .. MaxAppends /\ appends < MaxAppends /\ appends' = appends + 1 /\ MaxAppends \in Nat
    BY KeysAssumption DEF PrefixAppend, TreeInv, JobTypeOK
  <2>2. appends' \in 0 .. MaxAppends
    BY <2>1
  <2> QED
    BY <1>1, <1>2, <1>3, <2>2 DEF JobTypeOK
<1>5. NodesFit' /\ ChildrenFit' /\ EachIsAChild' /\ Distinct' /\ Covers'
  BY <1>1, TreeIsKept
<1>6. OthersAreFull'
  BY <1>1 DEF TreeInv, OthersAreFull, ChildOf
<1>7. JobFits'
  <2>1. nodes[Root].key = <<>> /\ Root \in DOMAIN nodes
    BY DEF TreeInv, NodesFit
  <2>2. Len(nodes[Root].key) = 0 /\ IsPrefix(nodes[Root].key, k) /\ 0 < Len(k)
    <3>1. <<>> \in Seq(Bit) /\ Len(<<>>) = 0 /\ k \in Seq(Bit) /\ Len(k) > 0 /\ Len(k) \in Nat
      BY KeysAssumption, LenProperties DEF Bit
    <3>2. ASSUME NEW s \in Seq(Bit), Len(s) = 0
          PROVE  IsPrefix(s, k)
      <4>1. Len(s) <= Len(k) /\ \A x \in 1 .. Len(s) : s[x] = k[x]
        BY <3>1, <3>2
      <4>2. k \in Seq(Bit)
        BY <3>1
      <4> QED
        BY <3>2, <4>1, <4>2, PrefixIs
    <3> QED
      BY <2>1, <3>1, <3>2
  <2>3. AtNode(Root)'
    BY <1>1, <1>2, <2>1, <2>2 DEF AtNode
  <2> QED
    BY <1>1, <1>2, <1>3, <2>3 DEF JobFits, Root
<1>8. HashesFit'
  BY <1>1 DEF TreeInv, HashesFit, IsStale, HashOfNode, HashAt
<1>9. ContentFits'
  BY <1>1, <1>2, <1>3 DEF TreeInv, ContentFits, Unstored, NodesFit
<1>10. NodesStay
  BY <1>1, TypesOfTree DEF NodesStay, SameKey, SamePartial
<1> QED
  BY <1>4, <1>5, <1>6, <1>7, <1>8, <1>9, <1>10 DEF TreeInv


\* The prefix of no node is longer than a key.
LEMMA KeysAreLongest ==
    ASSUME TreeInv, NEW n \in DOMAIN nodes, NEW k \in Keys
    PROVE  /\ Len(nodes[n].key) <= Len(k)
           /\ Len(nodes[n].key) = Len(k) => nodes[n].leaf
           /\ nodes[n].leaf => Len(nodes[n].key) = Len(k)
<1>1. Len(nodes[n].key) \in Nat /\ Len(k) \in Nat
  BY TypesOfTree
<1>2. CASE nodes[n].leaf
  <2>1. nodes[n].key \in Keys
    BY <1>2 DEF TreeInv, NodesFit
  <2>2. Len(nodes[n].key) = Len(k)
    BY <2>1, SameLength
  <2> QED
    BY <1>1, <1>2, <2>2
<1>3. CASE ~ nodes[n].leaf
  <2>1. Len(nodes[n].key) < Len(k)
    BY <1>3 DEF TreeInv, NodesFit
  <2> QED
    BY <1>1, <1>3, <2>1
<1> QED
  BY <1>2, <1>3

\* What NextChild knows if it finds a child c of n and the key agrees with m
\* bits of its partial prefix.
MatchFits(n, k, c, m) ==
    LET i == Len(nodes[n].key)
    IN  /\ c \in DOMAIN nodes /\ m \in Nat /\ m > 0 /\ m <= Len(nodes[c].partial)
        /\ i + m <= Len(k) /\ Len(nodes[c].key) = i + Len(nodes[c].partial)
        /\ \A x \in 1 .. i + m : nodes[c].key[x] = k[x]
        /\ m < Len(nodes[c].partial) => i + m < Len(k) /\ nodes[c].key[i + m + 1] # k[i + m + 1]

LEMMA ChildOnTheWay ==
    ASSUME TreeInv, NEW n \in DOMAIN nodes, NEW k \in Keys, NEW c,
           IsPrefix(nodes[n].key, k), Len(nodes[n].key) < Len(k),
           c = ChildOf(nodes, n, k[Len(nodes[n].key) + 1]), c # Nil
    PROVE  MatchFits(n, k, c, Agreement(SubSeq(k, Len(nodes[n].key) + 1, Len(k)), nodes[c].partial))
<1> DEFINE i == Len(nodes[n].key)
           m == Agreement(SubSeq(k, i + 1, Len(k)), nodes[c].partial)
           s == SubSeq(k, i + 1, Len(k))
           t == nodes[c].partial
<1>0. k[i + 1] \in Bit /\ c \in DOMAIN nodes
  <2>1. k[i + 1] \in Bit
    BY TypesOfTree, ElementOfSeq
  <2> QED
    BY <2>1 DEF TreeInv, ChildrenFit, ChildFits
<1>1. /\ k \in Seq(Bit) /\ Len(k) \in Nat /\ i \in Nat /\ i < Len(k) /\ t \in Seq(Bit) /\ Len(t) \in Nat
      /\ nodes[n].key \in Seq(Bit) /\ nodes[c].key \in Seq(Bit) /\ Len(nodes[c].key) \in Nat
      /\ k[i + 1] \in Bit
  BY <1>0, TypesOfTree
<1>3. ChildFits(n, k[i + 1], c)
  BY <1>1 DEF TreeInv, ChildrenFit
<1>4. /\ c # Root /\ Len(nodes[c].key) = i + Len(t) /\ IsPrefix(nodes[n].key, nodes[c].key)
      /\ nodes[c].key[i + 1] = k[i + 1]
  BY <1>3 DEF ChildFits
<1>5. Len(t) > 0 /\ \A x \in 1 .. Len(t) : t[x] = nodes[c].key[i + x]
  <2>1. Len(t) > 0 /\ \A x \in 1 .. Len(t) : t[x] = nodes[c].key[Len(nodes[c].key) - Len(t) + x]
    BY <1>0, <1>4 DEF TreeInv, NodesFit
  <2>2. Len(nodes[c].key) - Len(t) = i
    BY <1>1, <1>4
  <2> QED
    BY <2>1, <2>2
<1>6. s \in Seq(Bit) /\ Len(s) = Len(k) - i /\ \A x \in 1 .. Len(k) - i : s[x] = k[i + x]
  <2>1. i \in 0 .. Len(k)
    BY <1>1
  <2> QED
    BY <1>1, <2>1, LastBits
<1>7. Len(nodes[c].key) <= Len(k)
  BY <1>0, KeysAreLongest
<1>8. /\ m \in 0 .. Len(s) /\ m \in 0 .. Len(t) /\ \A x \in 1 .. m : s[x] = t[x]
      /\ m < Len(s) /\ m < Len(t) => s[m + 1] # t[m + 1]
  <2>1. m = Agreement(s, t)
    OBVIOUS
  <2> HIDE DEF s, t, m
  <2>2. s \in Seq(Bit) /\ t \in Seq(Bit)
    BY <1>1, <1>6
  <2> QED
    BY <2>1, <2>2, AgreementIs
<1> HIDE DEF s, t, m
<1>9. m > 0
  <2>1. s[1] = k[i + 1] /\ t[1] = nodes[c].key[i + 1]
    BY <1>1, <1>5, <1>6, SMTT(30)
  <2> QED
    BY <1>1, <1>4, <1>5, <1>6, <1>8, <2>1
<1>10. ASSUME NEW x \in 1 .. i + m PROVE nodes[c].key[x] = k[x]
  <2>1. CASE x <= i
    BY <1>1, <1>4, <2>1, PrefixBits
  <2>2. CASE x > i
    <3>1. x - i \in 1 .. m /\ i + (x - i) = x
      BY <1>1, <1>8, <2>2
    <3>2. x - i \in 1 .. Len(t) /\ x - i \in 1 .. Len(k) - i
      BY <1>1, <1>6, <1>8, <3>1
    <3>3. s[x - i] = t[x - i]
      BY <1>8, <3>1
    <3>4. s[x - i] = k[i + (x - i)]
      BY <1>6, <3>2
    <3>5. t[x - i] = nodes[c].key[i + (x - i)]
      BY <1>5, <3>2
    <3> QED
      BY <3>1, <3>3, <3>4, <3>5
  <2> QED
    BY <1>1, <1>8, <2>1, <2>2
<1>11. ASSUME m < Len(t) PROVE i + m < Len(k) /\ nodes[c].key[i + m + 1] # k[i + m + 1]
  <2>1. m < Len(s)
    BY <1>1, <1>4, <1>6, <1>7, <1>8, <1>11
  <2>2. s[m + 1] # t[m + 1] /\ m + 1 \in 1 .. Len(t) /\ m + 1 \in 1 .. Len(k) - i
    BY <1>1, <1>6, <1>8, <1>11, <2>1
  <2>3. s[m + 1] = k[i + (m + 1)]
    BY <1>6, <2>2
  <2>4. t[m + 1] = nodes[c].key[i + (m + 1)]
    BY <1>5, <2>2
  <2>5. i + (m + 1) = i + m + 1 /\ i + m < Len(k)
    <3>1. i \in Nat /\ m \in Nat /\ Len(k) \in Nat /\ Len(s) = Len(k) - i /\ m < Len(s)
      BY <1>1, <1>6, <1>8, <2>1
    <3> HIDE DEF i
    <3> QED
      BY <3>1
  <2> QED
    BY <2>2, <2>3, <2>4, <2>5
<1>12. m \in Nat /\ m <= Len(t) /\ i + m <= Len(k)
  BY <1>1, <1>6, <1>8
<1>13. MatchFits(n, k, c, m)
  BY <1>0, <1>4, <1>9, <1>10, <1>11, <1>12 DEF t, MatchFits
<1> QED
  BY <1>13 DEF m


LEMMA NextChildKeeps ==
    ASSUME TreeInv, NextChild
    PROVE  TreeInv' /\ NodesStay
<1> DEFINE n == job.node
           k == job.key
           c == ChildOf(nodes, n, k[job.i + 1])
           m == IF c = Nil THEN 0
                ELSE Agreement(SubSeq(k, job.i + 1, Len(k)), nodes[c].partial)
<1>1. /\ wpc = "descend" /\ wpc' \in {"attach", "split", "descend", "replace"} /\ nodes' = nodes
      /\ ~ Moving /\ ~ Moving' /\ content' = content /\ appends' = appends
  BY DEF NextChild, Moving
<1>2. AtNode(n) /\ k \in Keys /\ job.value \in Values /\ content[k] = job.value
  BY <1>1 DEF TreeInv, JobFits
<1>3. /\ n \in DOMAIN nodes /\ job.i = Len(nodes[n].key) /\ job.i < Len(k)
      /\ IsPrefix(nodes[n].key, k)
  BY <1>2 DEF AtNode
<1>4. /\ k \in Seq(Bit) /\ Len(k) \in Nat /\ job.i \in Nat /\ k[job.i + 1] \in Bit
      /\ n \in Nat
  BY <1>3, TypesOfTree
<1>5. c # Nil =>
          /\ c \in DOMAIN nodes /\ m \in Nat /\ m > 0 /\ m <= Len(nodes[c].partial)
          /\ job.i + m <= Len(k) /\ Len(nodes[c].key) = job.i + Len(nodes[c].partial)
          /\ \A x \in 1 .. job.i + m : nodes[c].key[x] = k[x]
          /\ m < Len(nodes[c].partial) =>
                 job.i + m < Len(k) /\ nodes[c].key[job.i + m + 1] # k[job.i + m + 1]
  <2>1. ASSUME c # Nil PROVE MatchFits(n, k, c, m)
    <3>1. MatchFits(n, k, c, Agreement(SubSeq(k, Len(nodes[n].key) + 1, Len(k)), nodes[c].partial))
      <4>1. c = ChildOf(nodes, n, k[Len(nodes[n].key) + 1])
        BY <1>3
      <4> HIDE DEF c, n, k
      <4> QED
        BY <1>2, <1>3, <2>1, <4>1, ChildOnTheWay
    <3> QED
      BY <1>3, <2>1, <3>1
  <2> HIDE DEF c, m, k, n
  <2> QED
    BY <1>3, <2>1 DEF MatchFits
<1>6. /\ job' = [job EXCEPT !.prev = n, !.node = c, !.i = job.i + m, !.j = m]
      /\ \/ c = Nil /\ wpc' = "attach"
         \/ c # Nil /\ m < Len(nodes[c].partial) /\ wpc' = "split"
         \/ /\ c # Nil /\ m = Len(nodes[c].partial)
            /\ wpc' = IF job.i + m < Len(k) THEN "descend" ELSE "replace"
  BY DEF NextChild
<1>7. c \in Nat /\ m \in Nat /\ Nil \in Nat
  <2>1. CASE c = Nil
    BY <2>1 DEF Nil
  <2>2. CASE c # Nil
    <3> HIDE DEF c, m, n, k
    <3>1. c \in DOMAIN nodes /\ m \in Nat
      BY <1>5, <2>2
    <3>2. c \in Nat
      BY <3>1, TypesOfTree
    <3> QED
      BY <3>1, <3>2 DEF Nil
  <2> QED
    BY <2>1, <2>2
<1> HIDE DEF c, m, n, k
<1>8. job \in [key : Seq(Bit), value : Values \cup {NoValue}, prev : Nat, node : Nat, i : Nat, j : Nat]
  BY DEF TreeInv, JobTypeOK
<1>9. /\ job'.key = k /\ job'.value = job.value /\ job'.prev = n /\ job'.node = c
      /\ job'.i = job.i + m /\ job'.j = m
      /\ job' \in [key : Seq(Bit), value : Values \cup {NoValue}, prev : Nat, node : Nat, i : Nat, j : Nat]
  <2>1. job.i + m \in Nat
    BY <1>4, <1>7
  <2>2. k = job.key
    BY DEF k
  <2> QED
    BY <1>4, <1>6, <1>7, <1>8, <2>1, <2>2
<1>10. JobTypeOK'
  BY <1>1, <1>9 DEF JobTypeOK, TreeInv
<1>11. NodesFit' /\ ChildrenFit' /\ EachIsAChild' /\ Distinct' /\ Covers'
  BY <1>1, TreeIsKept
<1>12. OthersAreFull'
  BY <1>1 DEF TreeInv, OthersAreFull, ChildOf
<1>13. HashesFit'
  <2>1. \A x \in DOMAIN nodes : ~ IsStale(x)
    BY <1>1 DEF IsStale
  <2>2. CASE wpc' # "attach"
    BY <1>1, <2>1, <2>2 DEF TreeInv, HashesFit, IsStale, HashOfNode, HashAt
  <2>3. CASE wpc' = "attach"
    BY <1>1, <2>1, <2>3 DEF TreeInv, HashesFit, IsStale, HashOfNode, HashAt
  <2> QED
    BY <2>2, <2>3
<1>14. ContentFits'
  BY <1>1, <1>9 DEF TreeInv, ContentFits, Unstored, k
<1>15. JobFits'
  <2>1. CASE c = Nil /\ wpc' = "attach"
    <3>1. m = 0 /\ job'.i = job.i
      BY <1>4, <1>9, <2>1 DEF m
    <3>2. AtNode(job.prev)'
      BY <1>1, <1>3, <1>9, <3>1 DEF AtNode
    <3>3. ChildOf(nodes, n, k[job.i + 1]) = Nil
      BY <2>1 DEF c
    <3>4. n # Root => ChildOf(nodes, n, 1 - k[job.i + 1]) # Nil
      <4>1. ~ nodes[n].leaf
        BY <1>2, <1>3, <1>4, KeysAreLongest
      <4>2. n # Root => \A b \in Bit : ChildOf(nodes, n, b) # Nil
        BY <1>1, <1>3, <4>1 DEF TreeInv, OthersAreFull
      <4> QED
        BY <1>4, <4>2 DEF Bit
    <3>5. ChildOf(nodes, job.prev, job.key[job.i + 1])' = Nil /\ (job.prev # Root => ChildOf(nodes, job.prev, 1 - job.key[job.i + 1]) # Nil)'
      BY <1>1, <1>9, <3>1, <3>3, <3>4 DEF ChildOf
    <3>6. job'.key \in Keys /\ job'.value \in Values /\ content'[job'.key] = job'.value
      BY <1>1, <1>2, <1>9 DEF k
    <3>7. wpc' = "attach" /\ ~ Moving'
      BY <2>1 DEF Moving
    <3> QED
      BY <3>2, <3>5, <3>6, <3>7 DEF JobFits
  <2>2. CASE c # Nil /\ m < Len(nodes[c].partial) /\ wpc' = "split"
    <3>1. c = ChildOf(nodes, n, k[Len(nodes[n].key) + 1])
      BY <1>3 DEF c
    <3>2. m \in 1 .. Len(nodes[c].partial) - 1 /\ n \in DOMAIN nodes /\ c \in DOMAIN nodes
      <4>1. c \in DOMAIN nodes /\ n \in DOMAIN nodes /\ m \in Nat /\ m > 0 /\ m < Len(nodes[c].partial)
        BY <1>3, <1>5, <2>2
      <4>2. Len(nodes[c].partial) \in Nat
        BY <4>1, TypesOfTree
      <4> QED
        BY <4>1, <4>2
    <3>3. (/\ job.prev \in DOMAIN nodes /\ job.node \in DOMAIN nodes
           /\ job.j \in 1 .. Len(nodes[job.node].partial) - 1
           /\ job.i = Len(nodes[job.prev].key) + job.j /\ job.i < Len(job.key)
           /\ job.node = ChildOf(nodes, job.prev, job.key[Len(nodes[job.prev].key) + 1])
           /\ \A x \in 1 .. job.i : nodes[job.node].key[x] = job.key[x]
           /\ nodes[job.node].key[job.i + 1] # job.key[job.i + 1])'
      BY <1>1, <1>3, <1>5, <1>9, <2>2, <3>1, <3>2 DEF ChildOf
    <3> QED
      BY <1>1, <1>2, <1>9, <2>2, <3>3 DEF JobFits, k
  <2>3. CASE c # Nil /\ m = Len(nodes[c].partial)
    <3>1. c \in DOMAIN nodes /\ Len(nodes[c].key) = job'.i
      BY <1>5, <1>9, <2>3
    <3>2. IsPrefix(nodes[c].key, k)
      <4>1. nodes[c].key \in Seq(Bit)
        BY <3>1, TypesOfTree
      <4> QED
        BY <1>4, <1>5, <2>3, <4>1, PrefixIs
    <3>3. CASE job.i + m < Len(k) /\ wpc' = "descend"
      <4>1. AtNode(job.node)'
        BY <1>1, <1>9, <3>1, <3>2, <3>3 DEF AtNode
      <4> QED
        BY <1>1, <1>2, <1>9, <3>3, <4>1 DEF JobFits, k
    <3>4. CASE ~ (job.i + m < Len(k)) /\ wpc' = "replace"
      <4>1. nodes[c].key = k
        <5>1. Len(nodes[c].key) = Len(k) /\ nodes[c].key \in Seq(Bit)
          BY <1>4, <1>5, <1>7, <2>3, <3>4, TypesOfTree, SMTT(30)
        <5> QED
          BY <1>4, <3>2, <5>1, PrefixBits
      <4> QED
        BY <1>1, <1>2, <1>9, <3>1, <3>4, <4>1 DEF JobFits, k
    <3> QED
      BY <1>6, <2>3, <3>3, <3>4
  <2> QED
    BY <1>6, <2>1, <2>2, <2>3
<1>16. NodesStay
  BY <1>1, TypesOfTree DEF NodesStay, SameKey, SamePartial
<1> QED
  BY <1>10, <1>11, <1>12, <1>13, <1>14, <1>15, <1>16 DEF TreeInv


\* Nodes whose prefix the key of the job continues: one below prev has a
\* child on the key's side of prev above it.
LEMMA NotBeyond ==
    ASSUME TreeInv, ~ Moving, NEW p \in DOMAIN nodes, NEW k \in Seq(Bit), IsPrefix(nodes[p].key, k),
           Len(nodes[p].key) < Len(k), NEW m \in DOMAIN nodes, IsPrefix(nodes[m].key, k),
           Len(nodes[p].key) < Len(nodes[m].key)
    PROVE  LET c == ChildOf(nodes, p, k[Len(nodes[p].key) + 1])
           IN  c # Nil /\ IsPrefix(nodes[c].key, nodes[m].key)
<1>1. /\ nodes[p].key \in Seq(Bit) /\ nodes[m].key \in Seq(Bit)
      /\ Len(nodes[p].key) \in Nat /\ Len(nodes[m].key) \in Nat
  BY TypesOfTree
<1>2. Below(p, m)
  BY <1>1, PrefixesCompare DEF Below
<1>3. nodes[m].key[Len(nodes[p].key) + 1] = k[Len(nodes[p].key) + 1]
  BY <1>1, PrefixBits
<1> QED
  BY <1>2, <1>3 DEF TreeInv, Covers, NextOnWay

\* A node with the prefix of another one, or one that leads to it.
LEMMA Compared ==
    ASSUME TreeInv, NEW k \in Seq(Bit), NEW p \in DOMAIN nodes, NEW m \in DOMAIN nodes,
           IsPrefix(nodes[p].key, k), IsPrefix(nodes[m].key, k)
    PROVE  \/ m = p
           \/ Below(m, p) /\ nodes[p].key[Len(nodes[m].key) + 1] = k[Len(nodes[m].key) + 1]
           \/ Len(nodes[p].key) < Len(nodes[m].key)
<1>1. /\ nodes[p].key \in Seq(Bit) /\ nodes[m].key \in Seq(Bit)
      /\ Len(nodes[p].key) \in Nat /\ Len(nodes[m].key) \in Nat
  BY TypesOfTree
<1>2. CASE Len(nodes[m].key) = Len(nodes[p].key)
  BY <1>1, <1>2, PrefixesCompare DEF TreeInv, Distinct
<1>3. CASE Len(nodes[m].key) < Len(nodes[p].key)
  <2>1. Below(m, p)
    BY <1>1, <1>3, PrefixesCompare DEF Below
  <2>2. nodes[p].key[Len(nodes[m].key) + 1] = k[Len(nodes[m].key) + 1]
    BY <1>1, <1>3, PrefixBits, SMTT(30)
  <2> QED
    BY <2>1, <2>2
<1> QED
  BY <1>1, <1>2, <1>3

LEMMA AttachLeafKeeps ==
    ASSUME TreeInv, AttachLeaf
    PROVE  TreeInv' /\ NodesStay
<1> DEFINE p == job.prev
           k == job.key
           b0 == k[job.i + 1]
           new == Len(nodes) + 1
           q == SubSeq(k, job.i + 1, Len(k))
           r == Leaf(p, q, k, job.value)
<1>1. /\ wpc = "attach" /\ wpc' = "update" /\ ~ Moving /\ ~ Moving'
      /\ appends' = appends /\ content' = content
      /\ nodes' = AddChild(Append(nodes, r), p, new)
      /\ job' = [job EXCEPT !.node = new]
  BY DEF AttachLeaf, Moving
<1>2. /\ k \in Keys /\ job.value \in Values /\ content[k] = job.value
      /\ p \in DOMAIN nodes /\ job.i = Len(nodes[p].key) /\ job.i < Len(k) /\ IsPrefix(nodes[p].key, k)
      /\ ChildOf(nodes, p, b0) = Nil
      /\ p # Root => ChildOf(nodes, p, 1 - b0) # Nil
  BY <1>1 DEF TreeInv, JobFits, AtNode
<1>3. /\ k \in Seq(Bit) /\ Len(k) \in Nat /\ job.i \in Nat /\ b0 \in Bit /\ p \in Nat
      /\ IsHeap(nodes) /\ Nil \notin DOMAIN nodes /\ Root \in DOMAIN nodes
      /\ nodes[p].key \in Seq(Bit)
  <2>1. k \in Seq(Bit) /\ Len(k) \in Nat /\ job.i \in Nat /\ job.i + 1 \in 1 .. Len(k)
    BY <1>2, TypesOfTree
  <2>2. b0 \in Bit
    BY <2>1, TypesOfTree
  <2> QED
    BY <1>2, <2>1, <2>2, TypesOfTree DEF TreeInv, NodesFit
<1>4. q \in Seq(Bit) /\ Len(q) = Len(k) - job.i /\ \A x \in 1 .. Len(k) - job.i : q[x] = k[job.i + x]
  <2>1. job.i \in 0 .. Len(k)
    BY <1>2, <1>3
  <2> QED
    BY <1>3, <2>1, LastBits
<1>5. Len(q) > 0 /\ q[1] = b0
  <2>1. 1 \in 1 .. Len(k) - job.i
    BY <1>2, <1>3
  <2> HIDE DEF q
  <2>2. q[1] = k[job.i + 1]
    BY <1>4, <2>1
  <2>3. Len(q) > 0
    <3>1. Len(q) = Len(k) - job.i /\ job.i < Len(k) /\ Len(k) \in Nat /\ job.i \in Nat
      BY <1>2, <1>3, <1>4
    <3> HIDE DEF k
    <3> QED
      BY <3>1
  <2> QED
    BY <2>2, <2>3
<1>6. /\ r \in NodeRecords({NilHash}) /\ r.leaf = TRUE /\ r.parent = p /\ r.partial = q /\ r.key = k
      /\ r.value = job.value /\ r.left = Nil /\ r.right = Nil
  <2> HIDE DEF q
  <2> QED
    BY <1>2, <1>3, <1>4 DEF Leaf, NodeRecords, Nil
<1> HIDE DEF r, q, k, p, b0
<1>7. /\ IsHeap(nodes') /\ DOMAIN nodes' = DOMAIN nodes \cup {new} /\ new \notin DOMAIN nodes
      /\ new \in Nat /\ p # new /\ new # Nil
      /\ SameLeaf(nodes', nodes) /\ SameKey(nodes', nodes) /\ SameParent(nodes', nodes)
      /\ SamePartial(nodes', nodes) /\ SameHash(nodes', nodes) /\ SameValue(nodes', nodes)
      /\ nodes'[new].leaf = TRUE /\ nodes'[new].key = k /\ nodes'[new].parent = p
      /\ nodes'[new].partial = q /\ nodes'[new].value = job.value
      /\ \A m \in DOMAIN nodes, b \in Bit :
             ChildOf(nodes', m, b) = IF m = p /\ b = b0 THEN new ELSE ChildOf(nodes, m, b)
      /\ \A b \in Bit : ChildOf(nodes', new, b) = Nil
  <2>1. IsHeap(nodes) /\ p \in DOMAIN nodes /\ r \in NodeRecords({NilHash}) /\ Len(r.partial) > 0
    BY <1>2, <1>3, <1>5, <1>6
  <2>2. r.left = Nil /\ r.right = Nil /\ nodes' = AddChild(Append(nodes, r), p, Len(nodes) + 1)
    BY <1>1, <1>6
  <2>3. Extended(nodes', nodes, p, r)
    BY <2>1, <2>2, NewChild, Zenon
  <2> QED
    BY <1>5, <1>6, <2>3 DEF Extended
<1> HIDE DEF new
<1>8. /\ job' \in [key : Seq(Bit), value : Values \cup {NoValue}, prev : Nat, node : Nat, i : Nat, j : Nat]
      /\ job'.node = new /\ job'.key = k
  BY <1>1, <1>7 DEF TreeInv, JobTypeOK, k
<1>9. JobTypeOK'
  BY <1>1, <1>8 DEF TreeInv, JobTypeOK
<1> USE DEF SameLeaf, SameKey, SameParent, SamePartial, SameHash, SameValue
<1>10. NodesFit'
  <2>1. new # Root
    BY <1>3, <1>7
  <2>2. \A x \in 1 .. Len(q) : q[x] = k[Len(k) - Len(q) + x]
    BY <1>2, <1>3, <1>4
  <2>3. Len(q) <= Len(k)
    BY <1>2, <1>3, <1>4
  <2>4. \A n \in DOMAIN nodes :
           (/\ n # Root => nodes[n].parent \in DOMAIN nodes /\ Len(nodes[n].partial) > 0
            /\ nodes[n].leaf => nodes[n].key \in Keys /\ nodes[n].value \in Values
            /\ ~ nodes[n].leaf =>
                   nodes[n].value = NoValue /\ \A x \in Keys : Len(nodes[n].key) < Len(x)
            /\ Len(nodes[n].partial) <= Len(nodes[n].key)
            /\ \A x \in 1 .. Len(nodes[n].partial) :
                   nodes[n].partial[x] = nodes[n].key[Len(nodes[n].key) - Len(nodes[n].partial) + x])'
    <3> TAKE n \in DOMAIN nodes
    <3>1. /\ n # Root => nodes[n].parent \in DOMAIN nodes /\ Len(nodes[n].partial) > 0
          /\ nodes[n].leaf => nodes[n].key \in Keys /\ nodes[n].value \in Values
          /\ ~ nodes[n].leaf =>
                 nodes[n].value = NoValue /\ \A x \in Keys : Len(nodes[n].key) < Len(x)
          /\ Len(nodes[n].partial) <= Len(nodes[n].key)
          /\ \A x \in 1 .. Len(nodes[n].partial) :
                 nodes[n].partial[x] = nodes[n].key[Len(nodes[n].key) - Len(nodes[n].partial) + x]
      BY DEF TreeInv, NodesFit
    <3> QED
      BY <1>7, <3>1
  <2>5. (/\ Root \in DOMAIN nodes
         /\ nodes[Root].key = <<>> /\ ~ nodes[Root].leaf /\ nodes[Root].parent = Nil)'
    BY <1>7 DEF TreeInv, NodesFit
  <2>6. /\ nodes'[new].parent \in DOMAIN nodes' /\ Len(nodes'[new].partial) > 0
        /\ nodes'[new].leaf /\ nodes'[new].key \in Keys /\ nodes'[new].value \in Values
        /\ Len(nodes'[new].partial) <= Len(nodes'[new].key)
        /\ \A x \in 1 .. Len(nodes'[new].partial) :
               nodes'[new].partial[x] = nodes'[new].key[Len(nodes'[new].key) - Len(nodes'[new].partial) + x]
    BY <1>2, <1>5, <1>7, <2>2, <2>3
  <2>7. IsHeap(nodes') /\ DOMAIN nodes' = DOMAIN nodes \cup {new}
    BY <1>7
  <2> QED
    BY <2>1, <2>4, <2>5, <2>6, <2>7 DEF NodesFit
<1>11. ~ nodes[p].leaf /\ \A m \in DOMAIN nodes : Len(nodes[m].key) <= Len(k) /\ Len(nodes[m].key) \in Nat
  BY <1>2, <1>3, KeysAreLongest, TypesOfTree
<1>12. ChildrenFit'
  <2>1. ASSUME NEW m \in DOMAIN nodes', NEW b \in Bit, ChildOf(nodes', m, b) # Nil
        PROVE  ChildFits(m, b, ChildOf(nodes, m, b))'
    <3>1. CASE m = p /\ b = b0
      <4>1. ChildOf(nodes', m, b) = new
        BY <1>2, <1>7, <3>1
      <4>2. new # Root /\ Len(k) = Len(nodes[p].key) + Len(q)
        BY <1>2, <1>3, <1>4, <1>7
      <4>3. k[Len(nodes[p].key) + 1] = b0
        BY <1>2 DEF b0
      <4>4. m \in DOMAIN nodes
        BY <1>2, <3>1
      <4> QED
        BY <1>2, <1>7, <1>11, <3>1, <4>1, <4>2, <4>3, <4>4 DEF ChildFits
    <3>2. CASE ~ (m = p /\ b = b0)
      <4>1. m \in DOMAIN nodes /\ ChildOf(nodes', m, b) = ChildOf(nodes, m, b)
        BY <1>7, <2>1, <3>2
      <4>2. ChildFits(m, b, ChildOf(nodes, m, b))
        BY <2>1, <4>1 DEF TreeInv, ChildrenFit
      <4> DEFINE c == ChildOf(nodes, m, b)
      <4>3. /\ c \in DOMAIN nodes /\ c # Root /\ ~ nodes[m].leaf /\ nodes[c].parent = m
            /\ Len(nodes[c].key) = Len(nodes[m].key) + Len(nodes[c].partial)
            /\ IsPrefix(nodes[m].key, nodes[c].key)
            /\ nodes[c].key[Len(nodes[m].key) + 1] = b
        BY <4>2 DEF ChildFits
      <4>4. ChildOf(nodes', m, b) = c
        BY <4>1
      <4> HIDE DEF c
      <4>5. /\ nodes'[c].key = nodes[c].key /\ nodes'[c].parent = nodes[c].parent
            /\ nodes'[c].partial = nodes[c].partial /\ nodes'[m].key = nodes[m].key
            /\ nodes'[m].leaf = nodes[m].leaf /\ c \in DOMAIN nodes'
        BY <1>7, <4>1, <4>3
      <4> QED
        BY <4>3, <4>4, <4>5 DEF ChildFits
    <3> QED
      BY <3>1, <3>2
  <2> QED
    BY <2>1 DEF ChildrenFit
<1>13. EachIsAChild'
  <2>1. ASSUME NEW n \in DOMAIN nodes' \ {Root}
        PROVE  ChildOf(nodes', nodes'[n].parent, nodes'[n].partial[1]) = n
    <3>1. CASE n = new
      BY <1>2, <1>3, <1>5, <1>7, <3>1
    <3>2. CASE n \in DOMAIN nodes
      <4>1. ChildOf(nodes, nodes[n].parent, nodes[n].partial[1]) = n
        BY <1>1, <2>1, <3>2 DEF TreeInv, EachIsAChild
      <4>2. nodes[n].parent \in DOMAIN nodes /\ nodes[n].partial[1] \in Bit /\ n # Nil
        <5>1. nodes[n].parent \in DOMAIN nodes /\ Len(nodes[n].partial) > 0 /\ nodes[n].partial \in Seq(Bit)
          BY <2>1, <3>2, TypesOfTree DEF TreeInv, NodesFit
        <5> QED
          BY <1>3, <3>2, <5>1
      <4> QED
        BY <1>2, <1>7, <3>2, <4>1, <4>2
    <3> QED
      BY <1>7, <2>1, <3>1, <3>2
  <2> QED
    BY <1>1, <2>1 DEF EachIsAChild
<1>14. OthersAreFull'
  <2>1. ASSUME NEW n \in DOMAIN nodes \ {Root}
        PROVE  nodes'[n].leaf \/ \A b \in Bit : ChildOf(nodes', n, b) # Nil
    <3>1. CASE n = p
      BY <1>2, <1>3, <1>7, <2>1, <3>1 DEF Bit, Nil
    <3>2. CASE n # p
      BY <1>1, <1>7, <2>1, <3>2 DEF TreeInv, OthersAreFull, p
    <3> QED
      BY <3>1, <3>2
  <2> QED
    BY <1>7, <2>1 DEF OthersAreFull
<1>15. \A m \in DOMAIN nodes : IsPrefix(nodes[m].key, k) => Len(nodes[m].key) <= job.i
  <2> SUFFICES ASSUME NEW m \in DOMAIN nodes, IsPrefix(nodes[m].key, k), ~ (Len(nodes[m].key) <= job.i)
               PROVE  FALSE
    OBVIOUS
  <2>1. Len(nodes[p].key) < Len(nodes[m].key)
    BY <1>2, <1>3, <1>11
  <2>2. ChildOf(nodes, p, k[Len(nodes[p].key) + 1]) # Nil
    BY <1>1, <1>2, <1>3, <2>1, NotBeyond
  <2> QED
    BY <1>2, <2>2 DEF b0
<1>16. Distinct'
  <2>1. \A m \in DOMAIN nodes : nodes[m].key # k
    BY <1>2, <1>3, <1>15, PrefixRefl
  <2> QED
    BY <1>7, <2>1 DEF TreeInv, Distinct
<1>17. Covers'
  <2> SUFFICES ASSUME NEW m \in DOMAIN nodes', NEW n \in DOMAIN nodes', Below(m, n)'
               PROVE  /\ ChildOf(nodes', m, nodes'[n].key[Len(nodes'[m].key) + 1]) # Nil
                      /\ IsPrefix(nodes'[ChildOf(nodes', m, nodes'[n].key[Len(nodes'[m].key) + 1])].key,
                                  nodes'[n].key)
    BY <1>1 DEF Covers, NextOnWay
  <2>1. m \in DOMAIN nodes
    BY <1>7, <1>11 DEF Below
  <2>2. CASE n = new
    <3>1. Len(nodes[m].key) < Len(k) /\ IsPrefix(nodes[m].key, k)
      BY <1>7, <2>1, <2>2 DEF Below
    <3>2. k[Len(nodes[m].key) + 1] \in Bit
      BY <1>3, <1>11, <2>1, <3>1
    <3>3. CASE m = p
      <4>1. ChildOf(nodes', m, nodes'[n].key[Len(nodes'[m].key) + 1]) = new
        BY <1>2, <1>7, <2>1, <2>2, <3>2, <3>3 DEF b0
      <4> QED
        BY <1>3, <1>7, <2>2, <4>1, PrefixRefl DEF Nil
    <3>4. CASE m # p
      <4>1. Below(m, p) /\ nodes[p].key[Len(nodes[m].key) + 1] = k[Len(nodes[m].key) + 1]
        BY <1>2, <1>3, <1>11, <1>15, <2>1, <3>1, <3>4, Compared
      <4> DEFINE c == ChildOf(nodes, m, k[Len(nodes[m].key) + 1])
      <4>2. c # Nil /\ IsPrefix(nodes[c].key, nodes[p].key)
        BY <1>1, <1>2, <2>1, <4>1 DEF TreeInv, Covers, NextOnWay
      <4>3. c \in DOMAIN nodes
        BY <2>1, <3>2, <4>2 DEF TreeInv, ChildrenFit, ChildFits
      <4>4. IsPrefix(nodes[c].key, k)
        BY <1>2, <1>3, <4>2, <4>3, PrefixTrans, TypesOfTree
      <4>5. ChildOf(nodes', m, nodes'[n].key[Len(nodes'[m].key) + 1]) = c
        BY <1>7, <2>1, <2>2, <3>2, <3>4
      <4> QED
        BY <1>7, <2>2, <4>2, <4>3, <4>4, <4>5
    <3> QED
      BY <3>3, <3>4
  <2>3. CASE n \in DOMAIN nodes
    <3>1. Below(m, n)
      BY <1>7, <2>1, <2>3 DEF Below
    <3> DEFINE c == ChildOf(nodes, m, nodes[n].key[Len(nodes[m].key) + 1])
    <3>2. c # Nil /\ IsPrefix(nodes[c].key, nodes[n].key)
      BY <1>1, <2>1, <2>3, <3>1 DEF TreeInv, Covers, NextOnWay
    <3>3. nodes[n].key[Len(nodes[m].key) + 1] \in Bit
      <4>1. nodes[n].key \in Seq(Bit) /\ Len(nodes[m].key) + 1 \in 1 .. Len(nodes[n].key)
        BY <1>11, <2>1, <2>3, <3>1, TypesOfTree DEF Below
      <4> QED
        BY <4>1, ElementOfSeq
    <3>4. c \in DOMAIN nodes
      BY <2>1, <3>2, <3>3 DEF TreeInv, ChildrenFit, ChildFits
    <3>5. ChildOf(nodes', m, nodes'[n].key[Len(nodes'[m].key) + 1]) = c
      BY <1>2, <1>7, <2>1, <2>3, <3>2, <3>3
    <3> QED
      BY <1>7, <2>3, <3>2, <3>4, <3>5
  <2> QED
    BY <1>7, <2>2, <2>3
<1>18. JobFits'
  BY <1>1, <1>7, <1>8 DEF JobFits, Moving
<1>19. HashesFit'
  <2> SUFFICES ASSUME NEW n \in DOMAIN nodes', ~ IsStale(n)'
               PROVE  nodes'[n].hash = HashOfNode(nodes', n)
    BY DEF HashesFit
  <2>1. n # new /\ n # p /\ (p # Root => n # nodes[p].parent)
    BY <1>1, <1>2, <1>3, <1>7, <1>8 DEF IsStale, IsAbove
  <2>2. n \in DOMAIN nodes /\ ~ IsStale(n)
    BY <1>1, <1>7, <2>1 DEF IsStale, IsAbove, p
  <2>3. nodes[n].hash = HashOfNode(nodes, n)
    BY <2>2 DEF TreeInv, HashesFit
  <2>4. \A b \in Bit : ChildOf(nodes', n, b) = ChildOf(nodes, n, b)
    BY <1>7, <2>1, <2>2
  <2>5. \A b \in Bit : ChildOf(nodes, n, b) # Nil => ChildOf(nodes, n, b) \in DOMAIN nodes
    BY <2>2 DEF TreeInv, ChildrenFit, ChildFits
  <2>6. HashOfNode(nodes', n) = HashOfNode(nodes, n)
    BY <1>7, <2>2, <2>4, <2>5, HashDepends
  <2> QED
    BY <1>7, <2>2, <2>3, <2>6
<1>20. ContentFits'
  <2>1. \A n \in DOMAIN nodes' : nodes'[n].leaf => nodes'[n].value = content[nodes'[n].key]
    <3>1. \A n \in DOMAIN nodes : nodes[n].leaf => nodes[n].key # k
      BY <1>2, <1>3, <1>15, PrefixRefl
    <3> QED
      BY <1>1, <1>2, <1>7, <3>1 DEF TreeInv, ContentFits, Unstored, k
  <2>2. \A x \in Keys : content[x] # NoValue => \E n \in DOMAIN nodes' : nodes'[n].leaf /\ nodes'[n].key = x
    <3> TAKE x \in Keys
    <3>1. CASE x = k
      BY <1>7, <3>1
    <3>2. CASE x # k
      <4>1. content[x] # NoValue => \E n \in DOMAIN nodes : nodes[n].leaf /\ nodes[n].key = x
        BY <1>1, <3>2 DEF TreeInv, ContentFits, Unstored, k
      <4> QED
        BY <1>7, <4>1
    <3> QED
      BY <3>1, <3>2
  <2> QED
    BY <1>1, <2>1, <2>2 DEF ContentFits
<1>21. NodesStay
  BY <1>7, TypesOfTree DEF NodesStay, SameKey, SamePartial
<1> QED
  BY <1>9, <1>10, <1>12, <1>13, <1>14, <1>16, <1>17, <1>18, <1>19, <1>20, <1>21 DEF TreeInv


\* A step that leaves all pointers to children as they are, and the parents
\* and partial prefixes but for the node that is moving.
LEMMA ShapeIsKept ==
    ASSUME TreeInv, DOMAIN nodes' = DOMAIN nodes,
           SameLeaf(nodes', nodes), SameKey(nodes', nodes), SameKids(nodes', nodes),
           Moving' = Moving, Moving => job'.node = job.node /\ job'.prev = job.prev,
           \A n \in DOMAIN nodes : ~ (Moving /\ n = job.node) =>
               nodes'[n].parent = nodes[n].parent /\ nodes'[n].partial = nodes[n].partial
    PROVE  ChildrenFit' /\ EachIsAChild' /\ Distinct' /\ Covers'
<1> USE DEF SameLeaf, SameKey, SameKids
<1>1. ChildrenFit'
  <2> SUFFICES ASSUME NEW n \in DOMAIN nodes, NEW b \in Bit, ChildOf(nodes', n, b) # Nil
               PROVE  ChildFits(n, b, ChildOf(nodes, n, b))'
    BY DEF ChildrenFit
  <2> DEFINE c == ChildOf(nodes, n, b)
  <2>1. ChildOf(nodes', n, b) = c /\ c # Nil
    OBVIOUS
  <2>2. ChildFits(n, b, c)
    BY <2>1 DEF TreeInv, ChildrenFit
  <2>3. c \in DOMAIN nodes /\ c # Root
    BY <2>2 DEF ChildFits
  <2>4. ~ (Moving /\ c = job.node)
    BY <2>3 DEF TreeInv, EachIsAChild
  <2>5. /\ c \in DOMAIN nodes /\ c # Root /\ ~ nodes[n].leaf /\ nodes[c].parent = n
        /\ Len(nodes[c].key) = Len(nodes[n].key) + Len(nodes[c].partial)
        /\ IsPrefix(nodes[n].key, nodes[c].key)
        /\ nodes[c].key[Len(nodes[n].key) + 1] = b
    BY <2>2 DEF ChildFits
  <2> HIDE DEF c
  <2>6. /\ nodes'[c].key = nodes[c].key /\ nodes'[c].parent = nodes[c].parent
        /\ nodes'[c].partial = nodes[c].partial /\ nodes'[n].key = nodes[n].key
        /\ nodes'[n].leaf = nodes[n].leaf /\ c \in DOMAIN nodes'
    BY <2>3, <2>4
  <2> QED
    BY <2>1, <2>5, <2>6 DEF ChildFits
<1>2. EachIsAChild'
  <2> SUFFICES ASSUME NEW n \in DOMAIN nodes \ {Root}
               PROVE  IF (Moving /\ n = job.node)'
                      THEN \A m \in DOMAIN nodes, b \in Bit : ChildOf(nodes', m, b) # n
                      ELSE ChildOf(nodes', nodes'[n].parent, nodes'[n].partial[1]) = n
    BY DEF EachIsAChild
  <2>1. CASE Moving /\ n = job.node
    BY <2>1 DEF TreeInv, EachIsAChild
  <2>2. CASE ~ (Moving /\ n = job.node)
    <3>1. ChildOf(nodes, nodes[n].parent, nodes[n].partial[1]) = n
      BY <2>2 DEF TreeInv, EachIsAChild
    <3>2. nodes[n].parent \in DOMAIN nodes /\ nodes[n].partial[1] \in Bit
      <4>1. nodes[n].parent \in DOMAIN nodes /\ Len(nodes[n].partial) > 0 /\ nodes[n].partial \in Seq(Bit)
        BY TypesOfTree DEF TreeInv, NodesFit
      <4> QED
        BY <4>1
    <3>3. nodes'[n].parent = nodes[n].parent /\ nodes'[n].partial = nodes[n].partial
      BY <2>2
    <3>4. ~ (Moving /\ n = job.node)'
      BY <2>2
    <3> QED
      BY <3>1, <3>2, <3>3, <3>4
  <2> QED
    BY <2>1, <2>2
<1>3. Distinct'
  BY DEF TreeInv, Distinct
<1>4. Covers'
  <2> SUFFICES ASSUME NEW m \in DOMAIN nodes, NEW n \in DOMAIN nodes, Below(m, n)'
               PROVE  NextOnWay(m, n)' # Nil /\ IsPrefix(nodes[NextOnWay(m, n)].key, nodes[n].key)'
    BY DEF Covers
  <2>1. Below(m, n)
    BY DEF Below
  <2>2. NextOnWay(m, n) # Nil /\ IsPrefix(nodes[NextOnWay(m, n)].key, nodes[n].key)
    BY <2>1 DEF TreeInv, Covers
  <2>3. nodes[n].key[Len(nodes[m].key) + 1] \in Bit
    <3>1. nodes[n].key \in Seq(Bit) /\ Len(nodes[m].key) + 1 \in 1 .. Len(nodes[n].key)
      BY <2>1, TypesOfTree DEF Below
    <3> QED
      BY <3>1, ElementOfSeq
  <2>4. NextOnWay(m, n)' = NextOnWay(m, n)
    BY <2>3 DEF NextOnWay
  <2>5. NextOnWay(m, n) \in DOMAIN nodes
    <3>1. CASE Moving /\ m = job.prev
      BY <3>1 DEF TreeInv, JobFits, BranchesOff, NextOnWay
    <3>2. CASE ~ (Moving /\ m = job.prev)
      BY <2>2, <2>3, <3>2 DEF TreeInv, ChildrenFit, ChildFits, NextOnWay
    <3> QED
      BY <3>1, <3>2
  <2>6. nodes'[NextOnWay(m, n)].key = nodes[NextOnWay(m, n)].key /\ nodes'[n].key = nodes[n].key
    BY <2>5
  <2> QED
    BY <2>2, <2>4, <2>6
<1> QED
  BY <1>1, <1>2, <1>3, <1>4

\* A step that changes at most hashes leaves every node as it must be.
LEMMA NodesAreKept ==
    ASSUME TreeInv, IsHeap(nodes'), DOMAIN nodes' = DOMAIN nodes,
           SameLeaf(nodes', nodes), SameKey(nodes', nodes), SameParent(nodes', nodes),
           SamePartial(nodes', nodes), SameValue(nodes', nodes)
    PROVE  NodesFit'
<1> USE DEF SameLeaf, SameKey, SameParent, SamePartial, SameValue
<1>1. ASSUME NEW n \in DOMAIN nodes
      PROVE  (/\ n # Root => nodes[n].parent \in DOMAIN nodes /\ Len(nodes[n].partial) > 0
              /\ nodes[n].leaf => nodes[n].key \in Keys /\ nodes[n].value \in Values
              /\ ~ nodes[n].leaf =>
                     nodes[n].value = NoValue /\ \A x \in Keys : Len(nodes[n].key) < Len(x)
              /\ Len(nodes[n].partial) <= Len(nodes[n].key)
              /\ \A x \in 1 .. Len(nodes[n].partial) :
                     nodes[n].partial[x] = nodes[n].key[Len(nodes[n].key) - Len(nodes[n].partial) + x])'
  <2>1. /\ n # Root => nodes[n].parent \in DOMAIN nodes /\ Len(nodes[n].partial) > 0
        /\ nodes[n].leaf => nodes[n].key \in Keys /\ nodes[n].value \in Values
        /\ ~ nodes[n].leaf =>
               nodes[n].value = NoValue /\ \A x \in Keys : Len(nodes[n].key) < Len(x)
        /\ Len(nodes[n].partial) <= Len(nodes[n].key)
        /\ \A x \in 1 .. Len(nodes[n].partial) :
               nodes[n].partial[x] = nodes[n].key[Len(nodes[n].key) - Len(nodes[n].partial) + x]
    BY DEF TreeInv, NodesFit
  <2> QED
    BY <2>1
<1>2. (/\ Root \in DOMAIN nodes
       /\ nodes[Root].key = <<>> /\ ~ nodes[Root].leaf /\ nodes[Root].parent = Nil)'
  BY DEF TreeInv, NodesFit
<1> QED
  BY <1>1, <1>2 DEF NodesFit


\* A hash that a step leaves up to date: the node is not touched and none of
\* its children gets another hash.
LEMMA HashIsKept ==
    ASSUME TreeInv, NEW n \in DOMAIN nodes, nodes[n].hash = HashOfNode(nodes, n),
           nodes'[n].hash = nodes[n].hash, nodes'[n].partial = nodes[n].partial,
           nodes'[n].value = nodes[n].value,
           \A b \in Bit : ChildOf(nodes', n, b) = ChildOf(nodes, n, b),
           \A c \in DOMAIN nodes : nodes[c].parent = n => nodes'[c].hash = nodes[c].hash
    PROVE  nodes'[n].hash = HashOfNode(nodes', n)
<1>1. \A b \in Bit : ChildOf(nodes, n, b) # Nil =>
          nodes'[ChildOf(nodes, n, b)].hash = nodes[ChildOf(nodes, n, b)].hash
  BY DEF TreeInv, ChildrenFit, ChildFits
<1>2. HashOfNode(nodes', n) = HashOfNode(nodes, n)
  BY <1>1, HashDepends
<1> QED
  BY <1>2

LEMMA SetValueKeeps ==
    ASSUME TreeInv, SetValue
    PROVE  TreeInv' /\ NodesStay
<1> DEFINE e == job.node
<1>1. /\ wpc = "replace" /\ wpc' = "update" /\ ~ Moving /\ ~ Moving'
      /\ appends' = appends /\ content' = content /\ job' = job
      /\ nodes' = [nodes EXCEPT ![e].value = job.value]
  BY DEF SetValue, Moving
<1>2. /\ job.key \in Keys /\ job.value \in Values /\ content[job.key] = job.value
      /\ e \in DOMAIN nodes /\ nodes[e].key = job.key
  BY <1>1 DEF TreeInv, JobFits
<1>3. nodes[e].leaf
  BY <1>2, KeysAreLongest, TypesOfTree
<1>4. /\ IsHeap(nodes') /\ DOMAIN nodes' = DOMAIN nodes
      /\ SameLeaf(nodes', nodes) /\ SameKey(nodes', nodes) /\ SameParent(nodes', nodes)
      /\ SamePartial(nodes', nodes) /\ SameHash(nodes', nodes) /\ SameKids(nodes', nodes)
      /\ \A m \in DOMAIN nodes : nodes'[m].value = IF m = e THEN job.value ELSE nodes[m].value
  <2>1. IsHeap(nodes)
    BY DEF TreeInv, NodesFit
  <2> QED
    <3>1. ValueStored(nodes', nodes, e, job.value)
      BY <1>1, <1>2, <2>1, StoreValue, Zenon
    <3> QED
      BY <3>1 DEF ValueStored
<1> HIDE DEF e
<1> USE DEF SameLeaf, SameKey, SameParent, SamePartial, SameHash, SameKids
<1>5. JobTypeOK'
  BY <1>1 DEF TreeInv, JobTypeOK
<1>6. NodesFit'
  <2>1. ASSUME NEW n \in DOMAIN nodes
        PROVE  (/\ n # Root => nodes[n].parent \in DOMAIN nodes /\ Len(nodes[n].partial) > 0
                /\ nodes[n].leaf => nodes[n].key \in Keys /\ nodes[n].value \in Values
                /\ ~ nodes[n].leaf =>
                       nodes[n].value = NoValue /\ \A x \in Keys : Len(nodes[n].key) < Len(x)
                /\ Len(nodes[n].partial) <= Len(nodes[n].key)
                /\ \A x \in 1 .. Len(nodes[n].partial) :
                       nodes[n].partial[x] = nodes[n].key[Len(nodes[n].key) - Len(nodes[n].partial) + x])'
    <3>1. /\ n # Root => nodes[n].parent \in DOMAIN nodes /\ Len(nodes[n].partial) > 0
          /\ nodes[n].leaf => nodes[n].key \in Keys /\ nodes[n].value \in Values
          /\ ~ nodes[n].leaf =>
                 nodes[n].value = NoValue /\ \A x \in Keys : Len(nodes[n].key) < Len(x)
          /\ Len(nodes[n].partial) <= Len(nodes[n].key)
          /\ \A x \in 1 .. Len(nodes[n].partial) :
                 nodes[n].partial[x] = nodes[n].key[Len(nodes[n].key) - Len(nodes[n].partial) + x]
      BY DEF TreeInv, NodesFit
    <3> QED
      BY <1>2, <1>3, <1>4, <3>1
  <2>2. (/\ Root \in DOMAIN nodes
         /\ nodes[Root].key = <<>> /\ ~ nodes[Root].leaf /\ nodes[Root].parent = Nil)'
    BY <1>4 DEF TreeInv, NodesFit
  <2> QED
    BY <1>4, <2>1, <2>2 DEF NodesFit
<1>7. ChildrenFit' /\ EachIsAChild' /\ Distinct' /\ Covers'
  <2>1. Moving' = Moving
    BY <1>1 DEF Moving
  <2>2. \A n \in DOMAIN nodes :
            nodes'[n].parent = nodes[n].parent /\ nodes'[n].partial = nodes[n].partial
    BY <1>4
  <2> QED
    BY <1>1, <1>4, <2>1, <2>2, ShapeIsKept
<1>8. OthersAreFull'
  <2> SUFFICES ASSUME NEW n \in DOMAIN nodes \ {Root}
               PROVE  nodes'[n].leaf \/ \A b \in Bit : ChildOf(nodes', n, b) # Nil
    BY <1>4 DEF OthersAreFull
  <2>1. nodes[n].leaf \/ \A b \in Bit : ChildOf(nodes, n, b) # Nil
    BY <1>1 DEF TreeInv, OthersAreFull
  <2> QED
    BY <1>4, <2>1
<1>9. JobFits'
  BY <1>1, <1>2, <1>4 DEF JobFits, e
<1>10. HashesFit'
  <2> SUFFICES ASSUME NEW n \in DOMAIN nodes, ~ IsStale(n)'
               PROVE  nodes'[n].hash = HashOfNode(nodes', n)
    BY <1>4 DEF HashesFit
  <2>1. n # e /\ ~ IsStale(n)
    BY <1>1 DEF IsStale, e
  <2> QED
    BY <1>4, <2>1, HashIsKept DEF TreeInv, HashesFit
<1>11. ContentFits'
  <2>1. \A n \in DOMAIN nodes : nodes[n].key = job.key => n = e
    BY <1>2 DEF TreeInv, Distinct
  <2>2. \A n \in DOMAIN nodes : nodes'[n].leaf => nodes'[n].value = content[nodes'[n].key]
    BY <1>1, <1>2, <1>4, <2>1 DEF TreeInv, ContentFits, Unstored
  <2>3. \A x \in Keys : content[x] # NoValue => \E n \in DOMAIN nodes : nodes'[n].leaf /\ nodes'[n].key = x
    BY <1>1, <1>2, <1>3, <1>4 DEF TreeInv, ContentFits, Unstored
  <2> QED
    BY <1>1, <1>4, <2>2, <2>3 DEF ContentFits
<1>12. NodesStay
  BY <1>4, TypesOfTree DEF NodesStay, SameKey, SamePartial
<1> QED
  BY <1>5, <1>6, <1>7, <1>8, <1>9, <1>10, <1>11, <1>12 DEF TreeInv

LEMMA CutPrefixKeeps ==
    ASSUME TreeInv, CutPrefix
    PROVE  TreeInv' /\ NodesStay
<1> DEFINE e == job.node
           q == SubSeq(nodes[e].partial, job.j + 1, Len(nodes[e].partial))
<1>1. /\ wpc = "cut" /\ wpc' = "setParent" /\ Moving /\ Moving'
      /\ appends' = appends /\ content' = content /\ job' = job
      /\ nodes' = [nodes EXCEPT ![e].partial = q]
  BY DEF CutPrefix, Moving
<1>2. /\ AtNode(job.prev) /\ BranchesOff /\ ~ nodes[job.prev].leaf
      /\ \A b \in Bit : ChildOf(nodes, job.prev, b) = Nil
      /\ Len(nodes[e].partial) = Len(nodes[e].key) - job.i + job.j
      /\ e \in DOMAIN nodes /\ e # Root /\ job.i < Len(nodes[e].key)
  BY <1>1 DEF TreeInv, JobFits, BranchesOff
<1>3. /\ nodes[e].partial \in Seq(Bit) /\ nodes[e].key \in Seq(Bit) /\ Len(nodes[e].key) \in Nat
      /\ Len(nodes[e].partial) \in Nat /\ job.i \in Nat /\ job.j \in Nat
  BY <1>2, TypesOfTree
<1>4. /\ q \in Seq(Bit) /\ Len(q) = Len(nodes[e].key) - job.i
      /\ \A x \in 1 .. Len(q) : q[x] = nodes[e].partial[job.j + x]
  <2>1. job.j \in 0 .. Len(nodes[e].partial) /\ Len(nodes[e].partial) - job.j = Len(nodes[e].key) - job.i
    BY <1>2, <1>3
  <2>2. /\ q \in Seq(Bit) /\ Len(q) = Len(nodes[e].partial) - job.j
        /\ \A x \in 1 .. Len(nodes[e].partial) - job.j : q[x] = nodes[e].partial[job.j + x]
    BY <1>3, <2>1, LastBits, Zenon
  <2> HIDE DEF q, e
  <2> QED
    BY <2>1, <2>2, Zenon
<1>5. /\ Len(q) > 0 /\ Len(q) <= Len(nodes[e].key)
      /\ \A x \in 1 .. Len(q) : q[x] = nodes[e].key[Len(nodes[e].key) - Len(q) + x]
  <2> HIDE DEF q
  <2>1. Len(q) > 0 /\ Len(q) <= Len(nodes[e].key)
    BY <1>2, <1>3, <1>4
  <2>2. \A x \in 1 .. Len(nodes[e].partial) :
            nodes[e].partial[x] = nodes[e].key[Len(nodes[e].key) - Len(nodes[e].partial) + x]
    BY <1>2 DEF TreeInv, NodesFit
  <2>3. ASSUME NEW x \in 1 .. Len(q)
        PROVE  q[x] = nodes[e].key[Len(nodes[e].key) - Len(q) + x]
    <3>1. job.j + x \in 1 .. Len(nodes[e].partial)
      BY <1>2, <1>3, <1>4
    <3>2. Len(nodes[e].key) - Len(nodes[e].partial) + (job.j + x) = Len(nodes[e].key) - Len(q) + x
      BY <1>2, <1>3, <1>4
    <3> QED
      BY <1>4, <2>2, <3>1, <3>2
  <2> QED
    BY <2>1, <2>3
<1> HIDE DEF q
<1>6. /\ IsHeap(nodes') /\ DOMAIN nodes' = DOMAIN nodes
      /\ SameLeaf(nodes', nodes) /\ SameKey(nodes', nodes) /\ SameParent(nodes', nodes)
      /\ SameHash(nodes', nodes) /\ SameValue(nodes', nodes) /\ SameKids(nodes', nodes)
      /\ \A m \in DOMAIN nodes : nodes'[m].partial = IF m = e THEN q ELSE nodes[m].partial
  <2>1. IsHeap(nodes)
    BY DEF TreeInv, NodesFit
  <2> QED
    <3>1. PartialStored(nodes', nodes, e, q)
      BY <1>1, <1>2, <1>4, <2>1, StorePartial, Zenon
    <3> QED
      BY <3>1 DEF PartialStored
<1> HIDE DEF e
<1> USE DEF SameLeaf, SameKey, SameParent, SameHash, SameKids, SameValue
<1>7. JobTypeOK'
  BY <1>1 DEF TreeInv, JobTypeOK
<1>8. NodesFit'
  <2>1. ASSUME NEW n \in DOMAIN nodes
        PROVE  (/\ n # Root => nodes[n].parent \in DOMAIN nodes /\ Len(nodes[n].partial) > 0
                /\ nodes[n].leaf => nodes[n].key \in Keys /\ nodes[n].value \in Values
                /\ ~ nodes[n].leaf =>
                       nodes[n].value = NoValue /\ \A x \in Keys : Len(nodes[n].key) < Len(x)
                /\ Len(nodes[n].partial) <= Len(nodes[n].key)
                /\ \A x \in 1 .. Len(nodes[n].partial) :
                       nodes[n].partial[x] = nodes[n].key[Len(nodes[n].key) - Len(nodes[n].partial) + x])'
    <3>1. /\ n # Root => nodes[n].parent \in DOMAIN nodes /\ Len(nodes[n].partial) > 0
          /\ nodes[n].leaf => nodes[n].key \in Keys /\ nodes[n].value \in Values
          /\ ~ nodes[n].leaf =>
                 nodes[n].value = NoValue /\ \A x \in Keys : Len(nodes[n].key) < Len(x)
          /\ Len(nodes[n].partial) <= Len(nodes[n].key)
          /\ \A x \in 1 .. Len(nodes[n].partial) :
                 nodes[n].partial[x] = nodes[n].key[Len(nodes[n].key) - Len(nodes[n].partial) + x]
      BY DEF TreeInv, NodesFit
    <3>2. CASE n = e
      <4>1. nodes'[e].partial = q /\ nodes'[e].key = nodes[e].key
        BY <1>6, <3>2
      <4> QED
        BY <1>5, <1>6, <3>1, <3>2, <4>1
    <3>3. CASE n # e
      BY <1>6, <3>1, <3>3
    <3> QED
      BY <3>2, <3>3
  <2>2. (/\ Root \in DOMAIN nodes
         /\ nodes[Root].key = <<>> /\ ~ nodes[Root].leaf /\ nodes[Root].parent = Nil)'
    BY <1>6 DEF TreeInv, NodesFit
  <2> QED
    BY <1>6, <2>1, <2>2 DEF NodesFit
<1>9. ChildrenFit' /\ EachIsAChild' /\ Distinct' /\ Covers'
  BY <1>1, <1>6, ShapeIsKept DEF e
<1>10. OthersAreFull'
  <2> SUFFICES ASSUME NEW n \in DOMAIN nodes \ {Root}, n # job.prev
               PROVE  nodes'[n].leaf \/ \A b \in Bit : ChildOf(nodes', n, b) # Nil
    BY <1>1, <1>6 DEF OthersAreFull
  <2>1. nodes[n].leaf \/ \A b \in Bit : ChildOf(nodes, n, b) # Nil
    BY <1>1 DEF TreeInv, OthersAreFull
  <2> QED
    BY <1>6, <2>1
<1>11. JobFits'
  <2>1. job.prev \in DOMAIN nodes
    BY <1>2 DEF AtNode
  <2>2. (AtNode(job.prev) /\ BranchesOff /\ ~ nodes[job.prev].leaf)'
    BY <1>1, <1>2, <1>6, <2>1 DEF AtNode, BranchesOff
  <2>3. (\A b \in Bit : ChildOf(nodes, job.prev, b) = Nil)'
    BY <1>1, <1>2, <1>6, <2>1
  <2>4. (Len(nodes[job.node].partial) = Len(nodes[job.node].key) - job.i)'
    BY <1>1, <1>2, <1>4, <1>6 DEF e
  <2>5. (job.key \in Keys /\ job.value \in Values /\ content[job.key] = job.value)'
    BY <1>1 DEF TreeInv, JobFits
  <2> QED
    BY <1>1, <2>2, <2>3, <2>4, <2>5 DEF JobFits
<1>12. HashesFit'
  <2> SUFFICES ASSUME NEW n \in DOMAIN nodes, ~ IsStale(n)'
               PROVE  nodes'[n].hash = HashOfNode(nodes', n)
    BY <1>6 DEF HashesFit
  <2>0. job.prev \in DOMAIN nodes
    BY <1>2 DEF AtNode
  <2>1. n # e /\ ~ IsStale(n)
    BY <1>1, <1>6, <2>0 DEF IsStale, IsAbove, e
  <2> QED
    BY <1>6, <2>1, HashIsKept DEF TreeInv, HashesFit
<1>13. ContentFits'
  BY <1>1, <1>6 DEF TreeInv, ContentFits, Unstored
<1>14. NodesStay
  <2>1. Len(q) <= Len(nodes[e].partial)
    BY <1>2, <1>3, <1>4
  <2> QED
    BY <1>6, <2>1, TypesOfTree DEF NodesStay
<1> QED
  BY <1>7, <1>8, <1>9, <1>10, <1>11, <1>12, <1>13, <1>14 DEF TreeInv


LEMMA SetParentKeeps ==
    ASSUME TreeInv, SetParent
    PROVE  TreeInv' /\ NodesStay
<1> DEFINE e == job.node
<1>1. /\ wpc = "setParent" /\ wpc' = "link" /\ Moving /\ Moving'
      /\ appends' = appends /\ content' = content /\ job' = job
      /\ nodes' = [nodes EXCEPT ![e].parent = job.prev]
  BY DEF SetParent, Moving
<1>2. /\ AtNode(job.prev) /\ BranchesOff /\ ~ nodes[job.prev].leaf
      /\ \A b \in Bit : ChildOf(nodes, job.prev, b) = Nil
      /\ Len(nodes[e].partial) = Len(nodes[e].key) - job.i
      /\ e \in DOMAIN nodes /\ e # Root /\ job.prev \in DOMAIN nodes /\ job.prev \in Nat
  BY <1>1, TypesOfTree DEF TreeInv, JobFits, BranchesOff, AtNode
<1>3. /\ IsHeap(nodes') /\ DOMAIN nodes' = DOMAIN nodes
      /\ SameLeaf(nodes', nodes) /\ SameKey(nodes', nodes) /\ SamePartial(nodes', nodes)
      /\ SameHash(nodes', nodes) /\ SameValue(nodes', nodes) /\ SameKids(nodes', nodes)
      /\ \A m \in DOMAIN nodes : nodes'[m].parent = IF m = e THEN job.prev ELSE nodes[m].parent
  <2>1. IsHeap(nodes)
    BY DEF TreeInv, NodesFit
  <2>2. ParentStored(nodes', nodes, e, job.prev)
    BY <1>1, <1>2, <2>1, StoreParent, Zenon
  <2> QED
    BY <2>2 DEF ParentStored
<1> HIDE DEF e
<1> USE DEF SameLeaf, SameKey, SamePartial, SameHash, SameKids, SameValue
<1>4. JobTypeOK'
  BY <1>1 DEF TreeInv, JobTypeOK
<1>5. NodesFit'
  <2>1. ASSUME NEW n \in DOMAIN nodes
        PROVE  (/\ n # Root => nodes[n].parent \in DOMAIN nodes /\ Len(nodes[n].partial) > 0
                /\ nodes[n].leaf => nodes[n].key \in Keys /\ nodes[n].value \in Values
                /\ ~ nodes[n].leaf =>
                       nodes[n].value = NoValue /\ \A x \in Keys : Len(nodes[n].key) < Len(x)
                /\ Len(nodes[n].partial) <= Len(nodes[n].key)
                /\ \A x \in 1 .. Len(nodes[n].partial) :
                       nodes[n].partial[x] = nodes[n].key[Len(nodes[n].key) - Len(nodes[n].partial) + x])'
    <3>1. /\ n # Root => nodes[n].parent \in DOMAIN nodes /\ Len(nodes[n].partial) > 0
          /\ nodes[n].leaf => nodes[n].key \in Keys /\ nodes[n].value \in Values
          /\ ~ nodes[n].leaf =>
                 nodes[n].value = NoValue /\ \A x \in Keys : Len(nodes[n].key) < Len(x)
          /\ Len(nodes[n].partial) <= Len(nodes[n].key)
          /\ \A x \in 1 .. Len(nodes[n].partial) :
                 nodes[n].partial[x] = nodes[n].key[Len(nodes[n].key) - Len(nodes[n].partial) + x]
      BY DEF TreeInv, NodesFit
    <3> QED
      BY <1>2, <1>3, <3>1
  <2>2. (/\ Root \in DOMAIN nodes
         /\ nodes[Root].key = <<>> /\ ~ nodes[Root].leaf /\ nodes[Root].parent = Nil)'
    BY <1>2, <1>3 DEF TreeInv, NodesFit
  <2> QED
    BY <1>3, <2>1, <2>2 DEF NodesFit
<1>6. ChildrenFit' /\ EachIsAChild' /\ Distinct' /\ Covers'
  BY <1>1, <1>3, ShapeIsKept DEF e
<1>7. OthersAreFull'
  <2> SUFFICES ASSUME NEW n \in DOMAIN nodes \ {Root}, n # job.prev
               PROVE  nodes'[n].leaf \/ \A b \in Bit : ChildOf(nodes', n, b) # Nil
    BY <1>1, <1>3 DEF OthersAreFull
  <2>1. nodes[n].leaf \/ \A b \in Bit : ChildOf(nodes, n, b) # Nil
    BY <1>1 DEF TreeInv, OthersAreFull
  <2> QED
    BY <1>3, <2>1
<1>8. JobFits'
  <2>1. (AtNode(job.prev) /\ BranchesOff /\ ~ nodes[job.prev].leaf)'
    BY <1>1, <1>2, <1>3 DEF AtNode, BranchesOff
  <2>2. (\A b \in Bit : ChildOf(nodes, job.prev, b) = Nil)'
    BY <1>1, <1>2, <1>3
  <2>3. (Len(nodes[job.node].partial) = Len(nodes[job.node].key) - job.i)' /\ (nodes[job.node].parent = job.prev)'
    BY <1>1, <1>2, <1>3 DEF e
  <2>4. (job.key \in Keys /\ job.value \in Values /\ content[job.key] = job.value)'
    BY <1>1 DEF TreeInv, JobFits
  <2> QED
    BY <1>1, <2>1, <2>2, <2>3, <2>4 DEF JobFits
<1>9. HashesFit'
  <2> SUFFICES ASSUME NEW n \in DOMAIN nodes, ~ IsStale(n)'
               PROVE  nodes'[n].hash = HashOfNode(nodes', n)
    BY <1>3 DEF HashesFit
  <2>1. job.prev # e
    BY <1>2 DEF BranchesOff, e
  <2>2. n # e /\ ~ IsStale(n)
    BY <1>1, <1>2, <1>3, <2>1 DEF IsStale, IsAbove, e
  <2> QED
    BY <1>3, <2>2, HashIsKept DEF TreeInv, HashesFit
<1>10. ContentFits'
  BY <1>1, <1>3 DEF TreeInv, ContentFits, Unstored
<1>11. NodesStay
  BY <1>3, TypesOfTree DEF NodesStay, SameKey, SamePartial
<1> QED
  BY <1>4, <1>5, <1>6, <1>7, <1>8, <1>9, <1>10, <1>11 DEF TreeInv

\* Where the node that is linked begins to differ from the key.
LEMMA LinkKeeps ==
    ASSUME TreeInv, Link
    PROVE  TreeInv' /\ NodesStay
<1> DEFINE e == job.node
           p == job.prev
           b1 == nodes[e].partial[1]
<1>1. /\ wpc = "link" /\ wpc' = "rehash" /\ Moving /\ ~ Moving'
      /\ appends' = appends /\ content' = content /\ job' = job
      /\ nodes' = AddChild(nodes, p, e)
  BY DEF Link, Moving
<1>2. /\ AtNode(p) /\ BranchesOff /\ ~ nodes[p].leaf
      /\ \A b \in Bit : ChildOf(nodes, p, b) = Nil
      /\ Len(nodes[e].partial) = Len(nodes[e].key) - job.i /\ nodes[e].parent = p
      /\ e \in DOMAIN nodes /\ e # Root /\ p # Root /\ p # e /\ p \in DOMAIN nodes
      /\ job.i < Len(nodes[e].key) /\ job.i = Len(nodes[p].key) /\ job.i < Len(job.key)
      /\ IsPrefix(nodes[p].key, nodes[e].key)
      /\ nodes[e].key[job.i + 1] # job.key[job.i + 1]
  BY <1>1 DEF TreeInv, JobFits, BranchesOff, AtNode
<1>3. /\ nodes[e].partial \in Seq(Bit) /\ nodes[e].key \in Seq(Bit) /\ Len(nodes[e].key) \in Nat
      /\ Len(nodes[e].partial) \in Nat /\ Len(nodes[e].partial) > 0 /\ job.i \in Nat
      /\ IsHeap(nodes) /\ e # Nil
  BY <1>2, TypesOfTree DEF TreeInv, NodesFit
<1>4. b1 = nodes[e].key[job.i + 1] /\ b1 \in Bit
  <2>1. b1 = nodes[e].key[Len(nodes[e].key) - Len(nodes[e].partial) + 1]
    <3>1. 1 \in 1 .. Len(nodes[e].partial)
      BY <1>3
    <3> QED
      BY <1>2, <3>1 DEF TreeInv, NodesFit
  <2>2. Len(nodes[e].key) - Len(nodes[e].partial) = job.i
    BY <1>2, <1>3
  <2>3. b1 \in Bit
    BY <1>3
  <2> QED
    BY <2>1, <2>2, <2>3
<1> HIDE DEF b1
<1>5. /\ IsHeap(nodes') /\ DOMAIN nodes' = DOMAIN nodes
      /\ SameLeaf(nodes', nodes) /\ SameKey(nodes', nodes) /\ SameParent(nodes', nodes)
      /\ SamePartial(nodes', nodes) /\ SameHash(nodes', nodes) /\ SameValue(nodes', nodes)
      /\ \A m \in DOMAIN nodes, b \in Bit :
             ChildOf(nodes', m, b) = IF m = p /\ b = b1 THEN e ELSE ChildOf(nodes, m, b)
  <2>1. ChildStored(nodes', nodes, p, e)
    BY <1>1, <1>2, <1>3, StoreChild, Zenon
  <2> QED
    BY <2>1 DEF ChildStored, b1
<1> HIDE DEF e, p
<1> USE DEF SameLeaf, SameKey, SameParent, SamePartial, SameHash, SameValue
<1>6. JobTypeOK'
  BY <1>1 DEF TreeInv, JobTypeOK
<1>7. NodesFit'
  BY <1>5, NodesAreKept
<1>8. ChildrenFit'
  <2>1. ASSUME NEW m \in DOMAIN nodes, NEW b \in Bit, ChildOf(nodes', m, b) # Nil
        PROVE  ChildFits(m, b, ChildOf(nodes, m, b))'
    <3>1. CASE m = p /\ b = b1
      <4>1. ChildOf(nodes', m, b) = e
        BY <1>5, <3>1
      <4>2. Len(nodes[e].key) = Len(nodes[p].key) + Len(nodes[e].partial)
        BY <1>2, <1>3
      <4> QED
        <5>1. /\ nodes'[e].key = nodes[e].key /\ nodes'[e].parent = p /\ nodes'[e].partial = nodes[e].partial
              /\ nodes'[p].key = nodes[p].key /\ nodes'[p].leaf = nodes[p].leaf /\ DOMAIN nodes' = DOMAIN nodes
          BY <1>2, <1>5
        <5>2. nodes[e].key[Len(nodes[p].key) + 1] = b1
          BY <1>2, <1>4
        <5>3. /\ e \in DOMAIN nodes' \ {Root} /\ ~ nodes'[m].leaf /\ nodes'[e].parent = m
              /\ Len(nodes'[e].key) = Len(nodes'[m].key) + Len(nodes'[e].partial)
              /\ IsPrefix(nodes'[m].key, nodes'[e].key)
              /\ nodes'[e].key[Len(nodes'[m].key) + 1] = b
          BY <1>2, <3>1, <4>2, <5>1, <5>2
        <5> QED
          BY <4>1, <5>3 DEF ChildFits
    <3>2. CASE ~ (m = p /\ b = b1)
      <4> DEFINE c == ChildOf(nodes, m, b)
      <4>1. ChildOf(nodes', m, b) = c
        BY <1>5, <3>2
      <4>2. ChildFits(m, b, c)
        BY <2>1, <4>1 DEF TreeInv, ChildrenFit
      <4>3. /\ c \in DOMAIN nodes /\ c # Root /\ ~ nodes[m].leaf /\ nodes[c].parent = m
            /\ Len(nodes[c].key) = Len(nodes[m].key) + Len(nodes[c].partial)
            /\ IsPrefix(nodes[m].key, nodes[c].key)
            /\ nodes[c].key[Len(nodes[m].key) + 1] = b
        BY <4>2 DEF ChildFits
      <4> HIDE DEF c
      <4>4. /\ nodes'[c].key = nodes[c].key /\ nodes'[c].parent = nodes[c].parent
            /\ nodes'[c].partial = nodes[c].partial /\ nodes'[m].key = nodes[m].key
            /\ nodes'[m].leaf = nodes[m].leaf /\ c \in DOMAIN nodes'
        BY <1>5, <4>3
      <4> QED
        BY <4>1, <4>3, <4>4 DEF ChildFits
    <3> QED
      BY <3>1, <3>2
  <2> QED
    BY <1>5, <2>1 DEF ChildrenFit
<1>9. EachIsAChild'
  <2>1. ASSUME NEW n \in DOMAIN nodes \ {Root}
        PROVE  ChildOf(nodes', nodes'[n].parent, nodes'[n].partial[1]) = n
    <3>1. CASE n = e
      BY <1>2, <1>4, <1>5, <3>1 DEF b1
    <3>2. CASE n # e
      <4>1. ChildOf(nodes, nodes[n].parent, nodes[n].partial[1]) = n
        BY <3>2 DEF TreeInv, EachIsAChild, e
      <4>2. nodes[n].parent \in DOMAIN nodes /\ nodes[n].partial[1] \in Bit /\ n # Nil
        <5>1. nodes[n].parent \in DOMAIN nodes /\ Len(nodes[n].partial) > 0 /\ nodes[n].partial \in Seq(Bit) /\ n # Nil
          BY TypesOfTree DEF TreeInv, NodesFit
        <5> QED
          BY <5>1
      <4> QED
        BY <1>2, <1>5, <4>1, <4>2
    <3> QED
      BY <3>1, <3>2
  <2> QED
    BY <1>1, <1>5, <2>1 DEF EachIsAChild
<1>10. OthersAreFull'
  <2> SUFFICES ASSUME NEW n \in DOMAIN nodes \ {Root}, n # p
               PROVE  nodes'[n].leaf \/ \A b \in Bit : ChildOf(nodes', n, b) # Nil
    BY <1>1, <1>5 DEF OthersAreFull, p
  <2>1. nodes[n].leaf \/ \A b \in Bit : ChildOf(nodes, n, b) # Nil
    BY <1>1 DEF TreeInv, OthersAreFull, p
  <2> QED
    BY <1>5, <2>1
<1>11. Distinct'
  BY <1>5 DEF TreeInv, Distinct
<1>12. Covers'
  <2> SUFFICES ASSUME NEW m \in DOMAIN nodes, NEW n \in DOMAIN nodes, Below(m, n)'
               PROVE  /\ ChildOf(nodes', m, nodes'[n].key[Len(nodes'[m].key) + 1]) # Nil
                      /\ IsPrefix(nodes'[ChildOf(nodes', m, nodes'[n].key[Len(nodes'[m].key) + 1])].key,
                                  nodes'[n].key)
    BY <1>1, <1>5 DEF Covers, NextOnWay
  <2>1. Below(m, n)
    BY <1>5 DEF Below
  <2>2. nodes[n].key[Len(nodes[m].key) + 1] \in Bit
    <3>1. nodes[n].key \in Seq(Bit) /\ Len(nodes[m].key) + 1 \in 1 .. Len(nodes[n].key)
      BY <2>1, TypesOfTree DEF Below
    <3> QED
      BY <3>1, ElementOfSeq
  <2>3. CASE m = p
    <3>1. IsPrefix(nodes[e].key, nodes[n].key)
      BY <1>1, <2>1, <2>3 DEF TreeInv, Covers, NextOnWay, p, e
    <3>2. nodes[n].key[job.i + 1] = nodes[e].key[job.i + 1]
      <4>1. job.i + 1 \in 1 .. Len(nodes[e].key) /\ nodes[n].key \in Seq(Bit)
        <5>1. job.i < Len(nodes[e].key) /\ job.i \in Nat /\ Len(nodes[e].key) \in Nat
          BY <1>2, <1>3, TypesOfTree, Zenon
        <5>2. nodes[n].key \in Seq(Bit)
          BY TypesOfTree, Zenon
        <5> QED
          BY <5>1, <5>2
      <4> QED
        BY <1>3, <3>1, <4>1, PrefixBits
    <3>3. ChildOf(nodes', m, nodes'[n].key[Len(nodes'[m].key) + 1]) = e
      <4>1. nodes'[n].key[Len(nodes'[m].key) + 1] = b1
        <5>1. nodes'[n].key = nodes[n].key /\ Len(nodes'[m].key) = job.i
          BY <1>2, <1>5, <2>3
        <5> QED
          BY <1>4, <3>2, <5>1
      <4> QED
        BY <1>4, <1>5, <2>3, <4>1
    <3> QED
      BY <1>2, <1>3, <1>5, <3>1, <3>3
  <2>4. CASE m # p
    <3> DEFINE c == ChildOf(nodes, m, nodes[n].key[Len(nodes[m].key) + 1])
    <3>1. c # Nil /\ IsPrefix(nodes[c].key, nodes[n].key)
      BY <2>1, <2>4 DEF TreeInv, Covers, NextOnWay, p
    <3>2. c \in DOMAIN nodes
      BY <2>2, <3>1 DEF TreeInv, ChildrenFit, ChildFits
    <3>3. ChildOf(nodes', m, nodes'[n].key[Len(nodes'[m].key) + 1]) = c
      BY <1>5, <2>2, <2>4
    <3> QED
      BY <1>5, <3>1, <3>2, <3>3
  <2> QED
    BY <2>3, <2>4
<1>13. JobFits'
  <2>1. (AtNode(job.prev) /\ BranchesOff /\ ~ nodes[job.prev].leaf)'
    BY <1>1, <1>2, <1>5 DEF AtNode, BranchesOff, p, e
  <2>2. (ChildOf(nodes, job.prev, nodes[job.node].key[job.i + 1]) = job.node)'
    BY <1>1, <1>2, <1>4, <1>5 DEF p, e
  <2>3. (ChildOf(nodes, job.prev, job.key[job.i + 1]) = Nil)'
    <3>1. job.key[job.i + 1] \in Bit
      BY <1>2, <1>3, TypesOfTree
    <3> QED
      BY <1>1, <1>2, <1>4, <1>5, <3>1 DEF p
  <2>4. (job.key \in Keys /\ job.value \in Values /\ content[job.key] = job.value)'
    BY <1>1 DEF TreeInv, JobFits
  <2> QED
    BY <1>1, <2>1, <2>2, <2>3, <2>4 DEF JobFits
<1>14. HashesFit'
  <2> SUFFICES ASSUME NEW n \in DOMAIN nodes, ~ IsStale(n)'
               PROVE  nodes'[n].hash = HashOfNode(nodes', n)
    BY <1>5 DEF HashesFit
  <2>1. n # p /\ ~ IsStale(n)
    BY <1>1, <1>2, <1>5 DEF IsStale, IsAbove, p
  <2> QED
    BY <1>5, <2>1, HashIsKept DEF TreeInv, HashesFit
<1>15. ContentFits'
  BY <1>1, <1>5 DEF TreeInv, ContentFits, Unstored
<1>16. NodesStay
  BY <1>5, TypesOfTree DEF NodesStay, SameKey, SamePartial
<1> QED
  BY <1>6, <1>7, <1>8, <1>9, <1>10, <1>11, <1>12, <1>13, <1>14, <1>15, <1>16 DEF TreeInv


LEMMA RehashNodeKeeps ==
    ASSUME TreeInv, RehashNode
    PROVE  TreeInv' /\ NodesStay
<1> DEFINE e == job.node
           p == job.prev
           x == HashOfNode(nodes, e)
<1>1. /\ wpc = "rehash" /\ wpc' = "attach" /\ ~ Moving /\ ~ Moving' /\ Moving' = Moving
      /\ appends' = appends /\ content' = content /\ job' = job
      /\ nodes' = [nodes EXCEPT ![e].hash = x]
  BY DEF RehashNode, Moving
<1>2. /\ AtNode(p) /\ BranchesOff
      /\ ChildOf(nodes, p, nodes[e].key[job.i + 1]) = e /\ ChildOf(nodes, p, job.key[job.i + 1]) = Nil
      /\ e \in DOMAIN nodes /\ e # Root /\ p # Root /\ p # e /\ p \in DOMAIN nodes
      /\ job.i < Len(nodes[e].key) /\ job.i = Len(nodes[p].key) /\ job.i < Len(job.key)
      /\ nodes[e].key[job.i + 1] # job.key[job.i + 1]
      /\ job.key \in Keys /\ job.value \in Values /\ content[job.key] = job.value
  BY <1>1 DEF TreeInv, JobFits, BranchesOff, AtNode
<1>3. /\ nodes[e].key[job.i + 1] \in Bit /\ job.key[job.i + 1] \in Bit /\ IsHeap(nodes) /\ e # Nil
  <2>1. /\ nodes[e].key \in Seq(Bit) /\ job.key \in Seq(Bit) /\ job.i \in Nat
        /\ Len(nodes[e].key) \in Nat /\ Len(job.key) \in Nat
    BY <1>2, TypesOfTree
  <2>2. job.i + 1 \in 1 .. Len(nodes[e].key) /\ job.i + 1 \in 1 .. Len(job.key)
    <3>1. job.i < Len(nodes[e].key) /\ job.i < Len(job.key)
      BY <1>2, Zenon
    <3> HIDE DEF e
    <3> QED
      BY <2>1, <3>1
  <2>3. nodes[e].key[job.i + 1] \in Bit /\ job.key[job.i + 1] \in Bit
    BY <2>1, <2>2, ElementOfSeq
  <2> QED
    BY <1>2, <2>3, TypesOfTree DEF TreeInv, NodesFit
<1>4. nodes[e].parent = p
  <2>1. ChildFits(p, nodes[e].key[job.i + 1], e)
    BY <1>2, <1>3 DEF TreeInv, ChildrenFit
  <2> QED
    BY <2>1 DEF ChildFits
<1> HIDE DEF x
<1>5. /\ IsHeap(nodes') /\ DOMAIN nodes' = DOMAIN nodes
      /\ SameLeaf(nodes', nodes) /\ SameKey(nodes', nodes) /\ SameParent(nodes', nodes)
      /\ SamePartial(nodes', nodes) /\ SameValue(nodes', nodes) /\ SameKids(nodes', nodes)
      /\ \A m \in DOMAIN nodes : nodes'[m].hash = IF m = e THEN x ELSE nodes[m].hash
  <2>1. HashStored(nodes', nodes, e, x)
    BY <1>1, <1>2, <1>3, StoreHash, Zenon
  <2> QED
    BY <2>1 DEF HashStored
<1> HIDE DEF e, p
<1> USE DEF SameLeaf, SameKey, SameParent, SamePartial, SameKids, SameValue
<1>6. JobTypeOK'
  BY <1>1 DEF TreeInv, JobTypeOK
<1>7. NodesFit'
  BY <1>5, NodesAreKept
<1>8. ChildrenFit' /\ EachIsAChild' /\ Distinct' /\ Covers'
  BY <1>1, <1>5, ShapeIsKept
<1>9. OthersAreFull'
  <2> SUFFICES ASSUME NEW n \in DOMAIN nodes \ {Root}, n # p
               PROVE  nodes'[n].leaf \/ \A b \in Bit : ChildOf(nodes', n, b) # Nil
    BY <1>1, <1>5 DEF OthersAreFull, p
  <2>1. nodes[n].leaf \/ \A b \in Bit : ChildOf(nodes, n, b) # Nil
    BY <1>1 DEF TreeInv, OthersAreFull, p
  <2> QED
    BY <1>5, <2>1
<1>10. JobFits'
  <2>1. AtNode(job.prev)'
    BY <1>1, <1>2, <1>5 DEF AtNode, p
  <2>2. (ChildOf(nodes, job.prev, job.key[job.i + 1]) = Nil)'
    BY <1>1, <1>2, <1>3, <1>5 DEF p
  <2>3. (ChildOf(nodes, job.prev, 1 - job.key[job.i + 1]) # Nil)'
    <3>1. nodes[e].key[job.i + 1] = 1 - job.key[job.i + 1]
      BY <1>2, <1>3 DEF Bit
    <3>2. ChildOf(nodes, p, 1 - job.key[job.i + 1]) # Nil /\ 1 - job.key[job.i + 1] \in Bit
      BY <1>2, <1>3, <3>1
    <3> QED
      BY <1>1, <1>2, <1>5, <3>2 DEF p
  <2> QED
    BY <1>1, <1>2, <2>1, <2>2, <2>3 DEF JobFits, Moving
<1>11. HashesFit'
  <2> SUFFICES ASSUME NEW n \in DOMAIN nodes, ~ IsStale(n)'
               PROVE  nodes'[n].hash = HashOfNode(nodes', n)
    BY <1>5 DEF HashesFit
  <2>1. n # p
    BY <1>1 DEF IsStale, p
  <2>2. CASE n = e
    <3>1. \A b \in Bit : ChildOf(nodes, n, b) # Nil => ChildOf(nodes, n, b) # e /\ ChildOf(nodes, n, b) \in DOMAIN nodes
      <4> TAKE b \in Bit
      <4> HAVE ChildOf(nodes, n, b) # Nil
      <4>1. ChildFits(n, b, ChildOf(nodes, n, b))
        BY DEF TreeInv, ChildrenFit
      <4>2. ChildOf(nodes, n, b) \in DOMAIN nodes /\ nodes[ChildOf(nodes, n, b)].parent = n
        BY <4>1 DEF ChildFits
      <4> QED
        BY <1>2, <1>4, <2>2, <4>2
    <3>2. HashOfNode(nodes', n) = HashOfNode(nodes, n)
      <4>1. /\ nodes'[n].partial = nodes[n].partial /\ nodes'[n].value = nodes[n].value
            /\ \A b \in Bit : ChildOf(nodes', n, b) = ChildOf(nodes, n, b)
            /\ \A b \in Bit : ChildOf(nodes, n, b) # Nil =>
                   nodes'[ChildOf(nodes, n, b)].hash = nodes[ChildOf(nodes, n, b)].hash
        BY <1>5, <3>1
      <4> QED
        BY <4>1, HashDepends
    <3> QED
      BY <1>2, <1>5, <2>2, <3>2 DEF x
  <2>3. CASE n # e
    <3>1. ~ IsStale(n)
      BY <1>1, <1>2, <1>5, <2>3 DEF IsStale, IsAbove, p, e
    <3>2. \A c \in DOMAIN nodes : nodes[c].parent = n => nodes'[c].hash = nodes[c].hash
      BY <1>4, <1>5, <2>1
    <3> QED
      BY <1>5, <2>3, <3>1, <3>2, HashIsKept DEF TreeInv, HashesFit
  <2> QED
    BY <2>2, <2>3
<1>12. ContentFits'
  BY <1>1, <1>5 DEF TreeInv, ContentFits, Unstored
<1>13. NodesStay
  BY <1>5, TypesOfTree DEF NodesStay, SameKey, SamePartial
<1> QED
  BY <1>6, <1>7, <1>8, <1>9, <1>10, <1>11, <1>12, <1>13 DEF TreeInv

LEMMA UpdateHashKeeps ==
    ASSUME TreeInv, UpdateHash
    PROVE  TreeInv' /\ NodesStay
<1> DEFINE e == job.node
           x == HashOfNode(nodes, e)
<1>1. /\ wpc = "update" /\ wpc' \in {"update", "idle"} /\ ~ Moving /\ ~ Moving' /\ Moving' = Moving
      /\ appends' = appends /\ content' = content
      /\ nodes' = [nodes EXCEPT ![e].hash = x]
  BY DEF UpdateHash, Moving
<1>2. e \in DOMAIN nodes /\ IsHeap(nodes) /\ e # Nil
  BY <1>1, TypesOfTree DEF TreeInv, JobFits, NodesFit
<1>3. /\ job' \in [key : Seq(Bit), value : Values \cup {NoValue}, prev : Nat, node : Nat, i : Nat, j : Nat]
      /\ e = Root => wpc' = "idle"
      /\ e # Root => wpc' = "update" /\ job'.node = nodes[e].parent /\ nodes[e].parent \in DOMAIN nodes
  <2>1. e # Root => nodes[e].parent \in DOMAIN nodes
    BY <1>2 DEF TreeInv, NodesFit
  <2>2. NoJob \in [key : Seq(Bit), value : Values \cup {NoValue}, prev : Nat, node : Nat, i : Nat, j : Nat]
    BY DEF NoJob, Nil
  <2>3. job \in [key : Seq(Bit), value : Values \cup {NoValue}, prev : Nat, node : Nat, i : Nat, j : Nat]
    BY DEF TreeInv, JobTypeOK
  <2>4. nodes[e].parent \in Nat
    BY <1>2, TypesOfTree
  <2> QED
    BY <1>1, <2>1, <2>2, <2>3, <2>4 DEF UpdateHash
<1>4. \A c \in DOMAIN nodes : c # Root /\ nodes[c].parent = c => FALSE
  <2> SUFFICES ASSUME NEW c \in DOMAIN nodes, c # Root, nodes[c].parent = c
               PROVE  FALSE
    OBVIOUS
  <2>1. ChildOf(nodes, c, nodes[c].partial[1]) = c
    BY <1>1 DEF TreeInv, EachIsAChild
  <2>2. /\ nodes[c].partial \in Seq(Bit) /\ Len(nodes[c].partial) > 0 /\ Len(nodes[c].partial) \in Nat
        /\ Len(nodes[c].key) \in Nat /\ c # Nil
    BY TypesOfTree DEF TreeInv, NodesFit
  <2>3. nodes[c].partial[1] \in Bit
    BY <2>2
  <2>4. ChildFits(c, nodes[c].partial[1], c)
    BY <2>1, <2>2, <2>3 DEF TreeInv, ChildrenFit
  <2> DEFINE l == Len(nodes[c].key)
             m == Len(nodes[c].partial)
  <2>5. l = l + m
    BY <2>4 DEF ChildFits
  <2>6. l \in Nat /\ m \in Nat /\ m > 0
    BY <2>2
  <2> HIDE DEF l, m
  <2> QED
    BY <2>5, <2>6
<1> HIDE DEF x
<1>5. /\ IsHeap(nodes') /\ DOMAIN nodes' = DOMAIN nodes
      /\ SameLeaf(nodes', nodes) /\ SameKey(nodes', nodes) /\ SameParent(nodes', nodes)
      /\ SamePartial(nodes', nodes) /\ SameValue(nodes', nodes) /\ SameKids(nodes', nodes)
      /\ \A m \in DOMAIN nodes : nodes'[m].hash = IF m = e THEN x ELSE nodes[m].hash
  <2>1. HashStored(nodes', nodes, e, x)
    BY <1>1, <1>2, StoreHash, Zenon
  <2> QED
    BY <2>1 DEF HashStored
<1> HIDE DEF e
<1> USE DEF SameLeaf, SameKey, SameParent, SamePartial, SameKids, SameValue
<1>6. JobTypeOK'
  BY <1>1, <1>3 DEF TreeInv, JobTypeOK
<1>7. NodesFit'
  BY <1>5, NodesAreKept
<1>8. ChildrenFit' /\ EachIsAChild' /\ Distinct' /\ Covers'
  BY <1>1, <1>5, ShapeIsKept
<1>9. OthersAreFull'
  <2> SUFFICES ASSUME NEW n \in DOMAIN nodes \ {Root}
               PROVE  nodes'[n].leaf \/ \A b \in Bit : ChildOf(nodes', n, b) # Nil
    BY <1>1, <1>5 DEF OthersAreFull
  <2>1. nodes[n].leaf \/ \A b \in Bit : ChildOf(nodes, n, b) # Nil
    BY <1>1 DEF TreeInv, OthersAreFull
  <2> QED
    BY <1>5, <2>1
<1>10. JobFits'
  BY <1>1, <1>2, <1>3, <1>5 DEF JobFits, Moving
<1>11. HashesFit'
  <2> SUFFICES ASSUME NEW n \in DOMAIN nodes, ~ IsStale(n)'
               PROVE  nodes'[n].hash = HashOfNode(nodes', n)
    BY <1>5 DEF HashesFit
  <2>1. e # Root => n # nodes[e].parent
    BY <1>3 DEF IsStale
  <2>2. CASE n = e
    <3>1. \A b \in Bit : ChildOf(nodes, n, b) # Nil => ChildOf(nodes, n, b) # e /\ ChildOf(nodes, n, b) \in DOMAIN nodes
      <4> TAKE b \in Bit
      <4> HAVE ChildOf(nodes, n, b) # Nil
      <4>1. ChildFits(n, b, ChildOf(nodes, n, b))
        BY DEF TreeInv, ChildrenFit
      <4>2. ChildOf(nodes, n, b) \in DOMAIN nodes \ {Root} /\ nodes[ChildOf(nodes, n, b)].parent = n
        BY <4>1 DEF ChildFits
      <4> QED
        BY <1>4, <2>2, <4>2
    <3>2. HashOfNode(nodes', n) = HashOfNode(nodes, n)
      <4>1. /\ nodes'[n].partial = nodes[n].partial /\ nodes'[n].value = nodes[n].value
            /\ \A b \in Bit : ChildOf(nodes', n, b) = ChildOf(nodes, n, b)
            /\ \A b \in Bit : ChildOf(nodes, n, b) # Nil =>
                   nodes'[ChildOf(nodes, n, b)].hash = nodes[ChildOf(nodes, n, b)].hash
        BY <1>5, <3>1
      <4> QED
        BY <4>1, HashDepends
    <3> QED
      BY <1>2, <1>5, <2>2, <3>2 DEF x
  <2>3. CASE n # e
    <3>1. ~ IsStale(n)
      BY <1>1, <1>2, <1>3, <1>5, <2>1, <2>3 DEF IsStale, IsAbove, e, Moving
    <3>2. \A c \in DOMAIN nodes : nodes[c].parent = n => nodes'[c].hash = nodes[c].hash
      <4>1. nodes[Root].parent = Nil /\ n # Nil
        BY TypesOfTree DEF TreeInv, NodesFit
      <4> QED
        BY <1>5, <2>1, <4>1
    <3> QED
      BY <1>5, <2>3, <3>1, <3>2, HashIsKept DEF TreeInv, HashesFit
  <2> QED
    BY <2>2, <2>3
<1>12. ContentFits'
  BY <1>1, <1>5 DEF TreeInv, ContentFits, Unstored
<1>13. NodesStay
  BY <1>5, TypesOfTree DEF NodesStay, SameKey, SamePartial
<1> QED
  BY <1>6, <1>7, <1>8, <1>9, <1>10, <1>11, <1>12, <1>13 DEF TreeInv


LEMMA InsertParentKeeps ==
    ASSUME TreeInv, InsertParent
    PROVE  TreeInv' /\ NodesStay
<1> DEFINE p == job.prev
           e == job.node
           k == job.key
           l == Len(nodes[p].key)
           b0 == k[l + 1]
           new == Len(nodes) + 1
           u == SubSeq(nodes[e].partial, 1, job.j)
           w == SubSeq(k, 1, job.i)
           r == Interior(p, u, w)
<1>1. /\ wpc = "split" /\ wpc' = "cut" /\ ~ Moving /\ Moving'
      /\ appends' = appends /\ content' = content
      /\ nodes' = AddChild(Append(nodes, r), p, new)
      /\ job' = [job EXCEPT !.prev = new]
  BY DEF InsertParent, Moving
<1>2. /\ k \in Keys /\ job.value \in Values /\ content[k] = job.value
      /\ p \in DOMAIN nodes /\ e \in DOMAIN nodes
      /\ job.j \in 1 .. Len(nodes[e].partial) - 1
      /\ job.i = l + job.j /\ job.i < Len(k)
      /\ e = ChildOf(nodes, p, b0)
      /\ \A x \in 1 .. job.i : nodes[e].key[x] = k[x]
      /\ nodes[e].key[job.i + 1] # k[job.i + 1]
  BY <1>1 DEF TreeInv, JobFits
<1>3. /\ k \in Seq(Bit) /\ Len(k) \in Nat /\ job.i \in Nat /\ job.j \in Nat /\ l \in Nat /\ p \in Nat /\ e \in Nat
      /\ IsHeap(nodes) /\ Nil \notin DOMAIN nodes /\ Root \in DOMAIN nodes
      /\ nodes[p].key \in Seq(Bit) /\ nodes[e].key \in Seq(Bit) /\ Len(nodes[e].key) \in Nat
      /\ nodes[e].partial \in Seq(Bit) /\ Len(nodes[e].partial) \in Nat
  BY <1>2, TypesOfTree DEF TreeInv, NodesFit
<1>4. l + 1 \in 1 .. Len(k) /\ l + 1 \in 1 .. job.i /\ job.j > 0 /\ job.j < Len(nodes[e].partial)
  <2> HIDE DEF k, l, e
  <2> QED
    BY <1>2, <1>3, SMTT(30)
<1>5. b0 \in Bit /\ e # Nil
  BY <1>2, <1>3, <1>4, ElementOfSeq
<1>6. ChildFits(p, b0, e)
  <2> HIDE DEF e, p, b0
  <2> QED
    BY <1>2, <1>5 DEF TreeInv, ChildrenFit
<1>7. /\ e # Root /\ ~ nodes[p].leaf /\ nodes[e].parent = p
      /\ Len(nodes[e].key) = l + Len(nodes[e].partial)
      /\ IsPrefix(nodes[p].key, nodes[e].key) /\ nodes[e].key[l + 1] = b0
  BY <1>6 DEF ChildFits
<1>8. job.i < Len(nodes[e].key)
  <2> HIDE DEF l, e
  <2> QED
    BY <1>2, <1>3, <1>4, <1>7, SMTT(30)
<1>9. u \in Seq(Bit) /\ Len(u) = job.j /\ \A x \in 1 .. job.j : u[x] = nodes[e].key[l + x]
  <2>1. job.j \in 0 .. Len(nodes[e].partial)
    BY <1>3, <1>4
  <2>2. u \in Seq(Bit) /\ Len(u) = job.j /\ \A x \in 1 .. job.j : u[x] = nodes[e].partial[x]
    BY <1>3, <2>1, FirstBits
  <2>3. \A x \in 1 .. Len(nodes[e].partial) :
            nodes[e].partial[x] = nodes[e].key[Len(nodes[e].key) - Len(nodes[e].partial) + x]
    BY <1>2 DEF TreeInv, NodesFit
  <2>4. Len(nodes[e].key) - Len(nodes[e].partial) = l
    <3> HIDE DEF l
    <3> QED
      BY <1>3, <1>7
  <2>5. \A x \in 1 .. job.j : x \in 1 .. Len(nodes[e].partial)
    BY <1>3, <1>4
  <2>6. \A x \in 1 .. job.j : nodes[e].partial[x] = nodes[e].key[l + x]
    <3> HIDE DEF l, e
    <3> QED
      BY <2>3, <2>4, <2>5
  <2> HIDE DEF u, l, e
  <2> QED
    BY <2>2, <2>6, Zenon
<1>10. /\ w \in Seq(Bit) /\ Len(w) = job.i /\ \A x \in 1 .. job.i : w[x] = k[x]
       /\ IsPrefix(w, k)
  <2>1. job.i \in 0 .. Len(k)
    <3>1. job.i < Len(k) /\ job.i \in Nat /\ Len(k) \in Nat
      BY <1>2, <1>3, Zenon
    <3> HIDE DEF k
    <3> QED
      BY <3>1
  <2> HIDE DEF k
  <2> QED
    BY <1>3, <2>1, FirstBits, Zenon
<1> HIDE DEF u, w
<1>11. IsPrefix(w, nodes[e].key) /\ IsPrefix(nodes[p].key, w) /\ w[l + 1] = b0
  <2>1. IsPrefix(w, nodes[e].key)
    <3>1. Len(w) <= Len(nodes[e].key)
      BY <1>3, <1>8, <1>10
    <3>2. \A x \in 1 .. Len(w) : w[x] = nodes[e].key[x]
      BY <1>2, <1>10
    <3>3. w \in Seq(Bit) /\ nodes[e].key \in Seq(Bit)
      BY <1>3, <1>10
    <3> QED
      BY <3>1, <3>2, <3>3, PrefixIs
  <2>2. l <= job.i
    <3> HIDE DEF l
    <3> QED
      BY <1>2, <1>3
  <2>3. IsPrefix(nodes[p].key, w)
    BY <1>3, <1>7, <1>10, <2>1, <2>2, PrefixesCompare
  <2>4. w[l + 1] = b0
    BY <1>4, <1>10
  <2> QED
    BY <2>1, <2>3, <2>4
<1>12. u[1] = b0 /\ Len(u) > 0
  <2>1. 1 \in 1 .. job.j
    BY <1>3, <1>4
  <2> QED
    BY <1>4, <1>7, <1>9, <2>1
<1>13. /\ r \in NodeRecords({NilHash}) /\ r.leaf = FALSE /\ r.parent = p /\ r.partial = u /\ r.key = w
       /\ r.value = NoValue /\ r.left = Nil /\ r.right = Nil
  BY <1>3, <1>9, <1>10 DEF Interior, NodeRecords, Nil
<1> HIDE DEF r, k, p, e, b0, l
<1>14. /\ IsHeap(nodes') /\ DOMAIN nodes' = DOMAIN nodes \cup {new} /\ new \notin DOMAIN nodes
       /\ new \in Nat /\ p # new /\ new # Nil
       /\ SameLeaf(nodes', nodes) /\ SameKey(nodes', nodes) /\ SameParent(nodes', nodes)
       /\ SamePartial(nodes', nodes) /\ SameHash(nodes', nodes) /\ SameValue(nodes', nodes)
       /\ nodes'[new].leaf = FALSE /\ nodes'[new].key = w /\ nodes'[new].parent = p
       /\ nodes'[new].partial = u /\ nodes'[new].value = NoValue
       /\ \A m \in DOMAIN nodes, b \in Bit :
              ChildOf(nodes', m, b) = IF m = p /\ b = b0 THEN new ELSE ChildOf(nodes, m, b)
       /\ \A b \in Bit : ChildOf(nodes', new, b) = Nil
  <2>1. IsHeap(nodes) /\ p \in DOMAIN nodes /\ r \in NodeRecords({NilHash}) /\ Len(r.partial) > 0
    BY <1>2, <1>3, <1>12, <1>13
  <2>2. r.left = Nil /\ r.right = Nil /\ nodes' = AddChild(Append(nodes, r), p, Len(nodes) + 1)
    BY <1>1, <1>13
  <2>3. Extended(nodes', nodes, p, r)
    BY <2>1, <2>2, NewChild, Zenon
  <2> QED
    BY <1>12, <1>13, <2>3 DEF Extended
<1> HIDE DEF new
<1>15. /\ job' \in [key : Seq(Bit), value : Values \cup {NoValue}, prev : Nat, node : Nat, i : Nat, j : Nat]
       /\ job'.node = e /\ job'.key = k /\ job'.prev = new /\ job'.i = job.i /\ job'.j = job.j
       /\ job'.value = job.value
  BY <1>1, <1>14 DEF TreeInv, JobTypeOK, k, e
<1>16. JobTypeOK'
  BY <1>1, <1>15 DEF TreeInv, JobTypeOK
<1> USE DEF SameLeaf, SameKey, SameParent, SamePartial, SameHash, SameValue
<1>17. NodesFit'
  <2>1. new # Root
    BY <1>3, <1>14
  <2>2. \A x \in 1 .. Len(u) : u[x] = w[Len(w) - Len(u) + x]
    <3> TAKE x \in 1 .. Len(u)
    <3>0. Len(w) = job.i /\ Len(u) = job.j /\ x \in 1 .. job.j
      BY <1>9, <1>10
    <3>1. job.i - job.j + x = l + x /\ l + x \in 1 .. job.i
      <4>1. job.i = l + job.j /\ l \in Nat /\ job.j \in Nat
        BY <1>2, <1>3, Zenon
      <4> QED
        BY <3>0, <4>1
    <3>2. w[l + x] = k[l + x] /\ k[l + x] = nodes[e].key[l + x] /\ u[x] = nodes[e].key[l + x]
      BY <1>2, <1>9, <1>10, <3>0, <3>1
    <3> QED
      BY <3>0, <3>1, <3>2
  <2>3. Len(u) <= Len(w)
    BY <1>2, <1>3, <1>9, <1>10
  <2>4. \A n \in DOMAIN nodes :
           (/\ n # Root => nodes[n].parent \in DOMAIN nodes /\ Len(nodes[n].partial) > 0
            /\ nodes[n].leaf => nodes[n].key \in Keys /\ nodes[n].value \in Values
            /\ ~ nodes[n].leaf =>
                   nodes[n].value = NoValue /\ \A x \in Keys : Len(nodes[n].key) < Len(x)
            /\ Len(nodes[n].partial) <= Len(nodes[n].key)
            /\ \A x \in 1 .. Len(nodes[n].partial) :
                   nodes[n].partial[x] = nodes[n].key[Len(nodes[n].key) - Len(nodes[n].partial) + x])'
    <3> TAKE n \in DOMAIN nodes
    <3>1. /\ n # Root => nodes[n].parent \in DOMAIN nodes /\ Len(nodes[n].partial) > 0
          /\ nodes[n].leaf => nodes[n].key \in Keys /\ nodes[n].value \in Values
          /\ ~ nodes[n].leaf =>
                 nodes[n].value = NoValue /\ \A x \in Keys : Len(nodes[n].key) < Len(x)
          /\ Len(nodes[n].partial) <= Len(nodes[n].key)
          /\ \A x \in 1 .. Len(nodes[n].partial) :
                 nodes[n].partial[x] = nodes[n].key[Len(nodes[n].key) - Len(nodes[n].partial) + x]
      BY DEF TreeInv, NodesFit
    <3> QED
      BY <1>14, <3>1
  <2>5. (/\ Root \in DOMAIN nodes
         /\ nodes[Root].key = <<>> /\ ~ nodes[Root].leaf /\ nodes[Root].parent = Nil)'
    BY <1>14 DEF TreeInv, NodesFit
  <2>6. \A x \in Keys : Len(w) < Len(x)
    <3>1. \A x \in Keys : Len(x) = Len(k)
      BY <1>2, SameLength
    <3> QED
      BY <1>2, <1>10, <3>1
  <2>7. /\ nodes'[new].parent \in DOMAIN nodes' /\ Len(nodes'[new].partial) > 0
        /\ ~ nodes'[new].leaf /\ nodes'[new].value = NoValue /\ \A x \in Keys : Len(nodes'[new].key) < Len(x)
        /\ Len(nodes'[new].partial) <= Len(nodes'[new].key)
        /\ \A x \in 1 .. Len(nodes'[new].partial) :
               nodes'[new].partial[x] = nodes'[new].key[Len(nodes'[new].key) - Len(nodes'[new].partial) + x]
    BY <1>2, <1>12, <1>14, <2>2, <2>3, <2>6
  <2>8. IsHeap(nodes') /\ DOMAIN nodes' = DOMAIN nodes \cup {new}
    BY <1>14
  <2> QED
    BY <2>1, <2>4, <2>5, <2>7, <2>8 DEF NodesFit
<1>18. ChildrenFit'
  <2>1. ASSUME NEW m \in DOMAIN nodes', NEW b \in Bit, ChildOf(nodes', m, b) # Nil
        PROVE  ChildFits(m, b, ChildOf(nodes, m, b))'
    <3>1. CASE m = p /\ b = b0
      <4>1. ChildOf(nodes', m, b) = new /\ m \in DOMAIN nodes
        BY <1>2, <1>14, <3>1
      <4>2. new # Root /\ Len(w) = l + Len(u)
        BY <1>2, <1>3, <1>9, <1>10, <1>14
      <4> QED
        <5>1. /\ new \in DOMAIN nodes' \ {Root} /\ ~ nodes'[m].leaf /\ nodes'[new].parent = m
              /\ nodes'[m].key = nodes[p].key /\ nodes'[new].key = w /\ nodes'[new].partial = u
          BY <1>2, <1>7, <1>14, <3>1, <4>1, <4>2
        <5>2. /\ Len(w) = Len(nodes[p].key) + Len(u) /\ IsPrefix(nodes[p].key, w)
              /\ w[Len(nodes[p].key) + 1] = b
          BY <1>11, <3>1, <4>2 DEF l
        <5> QED
          BY <4>1, <5>1, <5>2 DEF ChildFits
    <3>2. CASE ~ (m = p /\ b = b0)
      <4>1. m \in DOMAIN nodes /\ ChildOf(nodes', m, b) = ChildOf(nodes, m, b)
        BY <1>14, <2>1, <3>2
      <4>2. ChildFits(m, b, ChildOf(nodes, m, b))
        BY <2>1, <4>1 DEF TreeInv, ChildrenFit
      <4> DEFINE c == ChildOf(nodes, m, b)
      <4>3. /\ c \in DOMAIN nodes /\ c # Root /\ ~ nodes[m].leaf /\ nodes[c].parent = m
            /\ Len(nodes[c].key) = Len(nodes[m].key) + Len(nodes[c].partial)
            /\ IsPrefix(nodes[m].key, nodes[c].key)
            /\ nodes[c].key[Len(nodes[m].key) + 1] = b
        BY <4>2 DEF ChildFits
      <4>4. ChildOf(nodes', m, b) = c
        BY <4>1
      <4> HIDE DEF c
      <4>5. /\ nodes'[c].key = nodes[c].key /\ nodes'[c].parent = nodes[c].parent
            /\ nodes'[c].partial = nodes[c].partial /\ nodes'[m].key = nodes[m].key
            /\ nodes'[m].leaf = nodes[m].leaf /\ c \in DOMAIN nodes'
        BY <1>14, <4>1, <4>3
      <4> QED
        BY <4>3, <4>4, <4>5 DEF ChildFits
    <3> QED
      BY <3>1, <3>2
  <2> QED
    BY <2>1 DEF ChildrenFit
<1>19. e # new
  BY <1>2, <1>14
<1>20. EachIsAChild'
  <2>1. ASSUME NEW m \in DOMAIN nodes', NEW b \in Bit
        PROVE  ChildOf(nodes', m, b) # e
    <3>1. CASE m = new
      BY <1>5, <1>14, <3>1
    <3>2. CASE m = p /\ b = b0
      BY <1>2, <1>14, <1>19, <3>2
    <3>3. CASE m \in DOMAIN nodes /\ ~ (m = p /\ b = b0)
      <4>1. ASSUME ChildOf(nodes, m, b) = e PROVE FALSE
        <5>1. ChildFits(m, b, e)
          BY <1>5, <3>3, <4>1 DEF TreeInv, ChildrenFit
        <5>2. m = p /\ nodes[e].key[Len(nodes[m].key) + 1] = b
          BY <1>7, <5>1 DEF ChildFits
        <5> QED
          BY <1>7, <3>3, <5>2 DEF l
      <4> QED
        BY <1>14, <3>3, <4>1
    <3> QED
      BY <1>14, <3>1, <3>2, <3>3
  <2>2. ASSUME NEW n \in DOMAIN nodes' \ {Root}, n # e
        PROVE  ChildOf(nodes', nodes'[n].parent, nodes'[n].partial[1]) = n
    <3>1. CASE n = new
      BY <1>2, <1>5, <1>12, <1>14, <3>1
    <3>2. CASE n \in DOMAIN nodes
      <4>1. ChildOf(nodes, nodes[n].parent, nodes[n].partial[1]) = n
        BY <1>1, <2>2, <3>2 DEF TreeInv, EachIsAChild
      <4>2. nodes[n].parent \in DOMAIN nodes /\ nodes[n].partial[1] \in Bit
        <5>1. nodes[n].parent \in DOMAIN nodes /\ Len(nodes[n].partial) > 0 /\ nodes[n].partial \in Seq(Bit)
          BY <2>2, <3>2, TypesOfTree DEF TreeInv, NodesFit
        <5> QED
          BY <5>1
      <4>3. ~ (nodes[n].parent = p /\ nodes[n].partial[1] = b0)
        BY <1>2, <2>2, <4>1
      <4> QED
        BY <1>14, <3>2, <4>1, <4>2, <4>3
    <3> QED
      BY <1>14, <2>2, <3>1, <3>2
  <2> QED
    BY <1>1, <1>15, <2>1, <2>2 DEF EachIsAChild
<1>21. OthersAreFull'
  <2>1. ASSUME NEW n \in DOMAIN nodes \ {Root}
        PROVE  nodes'[n].leaf \/ \A b \in Bit : ChildOf(nodes', n, b) # Nil
    <3>1. nodes[n].leaf \/ \A b \in Bit : ChildOf(nodes, n, b) # Nil
      BY <1>1 DEF TreeInv, OthersAreFull, Moving
    <3> QED
      BY <1>14, <3>1
  <2> QED
    BY <1>1, <1>14, <1>15, <2>1 DEF OthersAreFull
<1>22. \A m \in DOMAIN nodes : nodes[m].key \in Seq(Bit) /\ Len(nodes[m].key) \in Nat
  BY TypesOfTree
\* Whatever continues the new prefix continues that of the node split.
<1>23. \A m \in DOMAIN nodes : IsPrefix(w, nodes[m].key) => IsPrefix(nodes[e].key, nodes[m].key)
  <2> TAKE m \in DOMAIN nodes
  <2> HAVE IsPrefix(w, nodes[m].key)
  <2>1. IsPrefix(nodes[p].key, nodes[m].key)
    BY <1>3, <1>10, <1>11, <1>22, PrefixTrans
  <2>2. job.i <= Len(nodes[m].key) /\ nodes[m].key[l + 1] = b0
    BY <1>4, <1>10, <1>11, <1>22, PrefixBits
  <2>3. Below(p, m)
    BY <1>2, <1>3, <1>4, <1>22, <2>1, <2>2 DEF Below, l
  <2> QED
    BY <1>1, <1>2, <2>2, <2>3 DEF TreeInv, Covers, NextOnWay, l
<1>24. \A m \in DOMAIN nodes : IsPrefix(nodes[m].key, w) => Len(nodes[m].key) <= l
  <2> SUFFICES ASSUME NEW m \in DOMAIN nodes, IsPrefix(nodes[m].key, w), ~ (Len(nodes[m].key) <= l)
               PROVE  FALSE
    OBVIOUS
  <2>1. l < Len(nodes[m].key) /\ l < Len(w) /\ Len(nodes[p].key) = l
    BY <1>2, <1>3, <1>4, <1>10, <1>22, SMTT(30) DEF l
  <2>2. IsPrefix(nodes[e].key, nodes[m].key)
    BY <1>1, <1>2, <1>10, <1>11, <2>1, NotBeyond
  <2>3. IsPrefix(nodes[e].key, w)
    BY <1>3, <1>10, <1>22, <2>2, PrefixTrans
  <2>4. Len(nodes[e].key) <= job.i
    BY <1>3, <1>10, <2>3, PrefixBits
  <2> QED
    BY <1>3, <1>8, <2>4
<1>25. Distinct'
  <2>1. \A m \in DOMAIN nodes : nodes[m].key # w
    <3> SUFFICES ASSUME NEW m \in DOMAIN nodes, nodes[m].key = w PROVE FALSE
      OBVIOUS
    <3>1. job.i <= l
      BY <1>10, <1>24, PrefixRefl
    <3> QED
      BY <1>3, <1>4, <3>1
  <2> QED
    BY <1>14, <2>1 DEF TreeInv, Distinct
<1>26. Covers'
  <2> SUFFICES ASSUME NEW m \in DOMAIN nodes', NEW n \in DOMAIN nodes', Below(m, n)'
               PROVE  NextOnWay(m, n)' # Nil /\ IsPrefix(nodes'[NextOnWay(m, n)'].key, nodes'[n].key)
    BY DEF Covers
  <2>1. CASE m = new
    <3>1. n # new /\ IsPrefix(w, nodes'[n].key)
      BY <1>3, <1>10, <1>14, <2>1 DEF Below
    <3>2. n \in DOMAIN nodes /\ nodes'[n].key = nodes[n].key
      BY <1>14, <3>1
    <3>3. NextOnWay(m, n)' = e
      BY <1>1, <1>15, <2>1 DEF NextOnWay
    <3> QED
      BY <1>2, <1>5, <1>14, <1>23, <3>1, <3>2, <3>3
  <2>2. CASE m \in DOMAIN nodes /\ n = new
    <3>1. Len(nodes[m].key) < job.i /\ IsPrefix(nodes[m].key, w)
      BY <1>10, <1>14, <2>2 DEF Below
    <3>2. w[Len(nodes[m].key) + 1] \in Bit /\ Len(nodes[m].key) <= l
      <4>1. Len(nodes[m].key) + 1 \in 1 .. Len(w)
        BY <1>3, <1>10, <1>22, <2>2, <3>1
      <4> QED
        BY <1>10, <1>24, <2>2, <3>1, <4>1, ElementOfSeq
    <3>3. NextOnWay(m, n)' = ChildOf(nodes', m, w[Len(nodes[m].key) + 1])
      BY <1>14, <1>15, <2>2 DEF NextOnWay
    <3>4. CASE m = p
      <4>1. NextOnWay(m, n)' = new
        BY <1>2, <1>5, <1>11, <1>14, <3>3, <3>4 DEF l
      <4> QED
        BY <1>10, <1>14, <2>2, <4>1, PrefixRefl
    <3>5. CASE m # p
      <4>1. Below(m, p) /\ nodes[p].key[Len(nodes[m].key) + 1] = w[Len(nodes[m].key) + 1]
        <5>1. ~ (Len(nodes[p].key) < Len(nodes[m].key))
          BY <1>3, <1>22, <2>2, <3>2 DEF l
        <5> QED
          BY <1>2, <1>10, <1>11, <2>2, <3>1, <3>5, <5>1, Compared
      <4> DEFINE c == ChildOf(nodes, m, w[Len(nodes[m].key) + 1])
      <4>2. c # Nil /\ IsPrefix(nodes[c].key, nodes[p].key)
        BY <1>1, <1>2, <2>2, <4>1 DEF TreeInv, Covers, NextOnWay
      <4>3. c \in DOMAIN nodes
        BY <2>2, <3>2, <4>2 DEF TreeInv, ChildrenFit, ChildFits
      <4>4. IsPrefix(nodes[c].key, w)
        BY <1>3, <1>10, <1>11, <1>22, <4>2, <4>3, PrefixTrans
      <4>5. NextOnWay(m, n)' = c
        BY <1>14, <2>2, <3>2, <3>3, <3>5
      <4> QED
        BY <1>14, <2>2, <4>2, <4>3, <4>4, <4>5
    <3> QED
      BY <3>4, <3>5
  <2>3. CASE m \in DOMAIN nodes /\ n \in DOMAIN nodes
    <3>1. Below(m, n)
      BY <1>14, <2>3 DEF Below
    <3> DEFINE b == nodes[n].key[Len(nodes[m].key) + 1]
               c == ChildOf(nodes, m, b)
    <3>2. c # Nil /\ IsPrefix(nodes[c].key, nodes[n].key)
      BY <1>1, <2>3, <3>1 DEF TreeInv, Covers, NextOnWay
    <3>3. b \in Bit
      <4>1. Len(nodes[m].key) + 1 \in 1 .. Len(nodes[n].key)
        BY <1>22, <2>3, <3>1 DEF Below
      <4> QED
        BY <1>22, <2>3, <4>1, ElementOfSeq
    <3>4. c \in DOMAIN nodes
      BY <2>3, <3>2, <3>3 DEF TreeInv, ChildrenFit, ChildFits
    <3>5. NextOnWay(m, n)' = ChildOf(nodes', m, b) /\ nodes'[n].key = nodes[n].key
      BY <1>14, <1>15, <2>3 DEF NextOnWay
    <3>6. CASE m = p /\ b = b0
      <4>1. c = e /\ NextOnWay(m, n)' = new
        BY <1>2, <1>14, <3>3, <3>5, <3>6
      <4>2. IsPrefix(w, nodes[n].key)
        BY <1>3, <1>10, <1>11, <1>22, <2>3, <3>2, <4>1, PrefixTrans
      <4> QED
        BY <1>14, <3>5, <4>1, <4>2
    <3>7. CASE ~ (m = p /\ b = b0)
      <4>1. NextOnWay(m, n)' = c
        BY <1>14, <2>3, <3>3, <3>5, <3>7
      <4> QED
        BY <1>14, <3>2, <3>4, <3>5, <4>1
    <3> QED
      BY <3>6, <3>7
  <2> QED
    BY <1>14, <2>1, <2>2, <2>3
<1>27. JobFits'
  <2>1. AtNode(job.prev)'
    BY <1>2, <1>10, <1>14, <1>15 DEF AtNode
  <2>2. BranchesOff'
    <3>1. new # Root
      BY <1>3, <1>14
    <3> QED
      BY <1>2, <1>7, <1>8, <1>11, <1>14, <1>15, <1>19, <3>1 DEF BranchesOff
  <2>3. (~ nodes[job.prev].leaf /\ \A b \in Bit : ChildOf(nodes, job.prev, b) = Nil)'
    BY <1>14, <1>15
  <2>4. (Len(nodes[job.node].partial) = Len(nodes[job.node].key) - job.i + job.j)'
    <3> DEFINE a == Len(nodes[e].partial)
               d == Len(nodes[e].key)
    <3>0. a \in Nat /\ d \in Nat /\ d = l + a /\ job.i = l + job.j /\ l \in Nat /\ job.j \in Nat
      BY <1>2, <1>3, <1>7
    <3> HIDE DEF a, d
    <3>2. a = d - job.i + job.j
      BY <3>0
    <3>1. Len(nodes[e].partial) = Len(nodes[e].key) - job.i + job.j
      BY <3>2 DEF a, d
    <3> QED
      BY <1>2, <1>14, <1>15, <3>1
  <2> QED
    BY <1>1, <1>2, <1>15, <2>1, <2>2, <2>3, <2>4 DEF JobFits
<1>28. HashesFit'
  <2> SUFFICES ASSUME NEW n \in DOMAIN nodes', ~ IsStale(n)'
               PROVE  nodes'[n].hash = HashOfNode(nodes', n)
    BY DEF HashesFit
  <2>1. n # new /\ n # p
    <3>1. new # Root
      BY <1>3, <1>14
    <3> QED
      BY <1>1, <1>14, <1>15, <3>1 DEF IsStale, IsAbove
  <2>2. n \in DOMAIN nodes /\ ~ IsStale(n)
    BY <1>1, <1>14, <2>1 DEF IsStale
  <2>3. nodes[n].hash = HashOfNode(nodes, n)
    BY <2>2 DEF TreeInv, HashesFit
  <2>4. \A b \in Bit : ChildOf(nodes', n, b) = ChildOf(nodes, n, b)
    BY <1>14, <2>1, <2>2
  <2>5. \A b \in Bit : ChildOf(nodes, n, b) # Nil => ChildOf(nodes, n, b) \in DOMAIN nodes
    BY <2>2 DEF TreeInv, ChildrenFit, ChildFits
  <2>6. HashOfNode(nodes', n) = HashOfNode(nodes, n)
    BY <1>14, <2>2, <2>4, <2>5, HashDepends
  <2> QED
    BY <1>14, <2>2, <2>3, <2>6
<1>29. ContentFits'
  <2>1. \A x \in Keys : Unstored(x)' <=> Unstored(x)
    BY <1>1, <1>15 DEF Unstored, k
  <2>2. \A n \in DOMAIN nodes' : nodes'[n].leaf => n \in DOMAIN nodes /\ nodes[n].leaf /\ nodes[n].key \in Keys
    BY <1>14 DEF TreeInv, NodesFit
  <2>3. \A n \in DOMAIN nodes' : nodes'[n].leaf /\ ~ Unstored(nodes[n].key)' => nodes'[n].value = content[nodes'[n].key]
    <3> TAKE n \in DOMAIN nodes'
    <3> HAVE nodes'[n].leaf /\ ~ Unstored(nodes[n].key)'
    <3>1. /\ n \in DOMAIN nodes /\ nodes[n].leaf /\ nodes[n].key \in Keys
          /\ nodes'[n].key = nodes[n].key /\ nodes'[n].value = nodes[n].value
      BY <1>14, <2>2
    <3>2. ~ Unstored(nodes[n].key)
      BY <1>1, <1>15, <3>1 DEF Unstored, k
    <3> QED
      BY <3>1, <3>2 DEF TreeInv, ContentFits
  <2>4. \A x \in Keys : content[x] # NoValue /\ ~ Unstored(x) => \E n \in DOMAIN nodes' : nodes'[n].leaf /\ nodes'[n].key = x
    BY <1>14 DEF TreeInv, ContentFits
  <2> QED
    BY <1>1, <2>1, <2>3, <2>4 DEF ContentFits
<1>30. NodesStay
  BY <1>14, TypesOfTree DEF NodesStay, SameKey, SamePartial
<1> QED
  BY <1>16, <1>17, <1>18, <1>20, <1>21, <1>25, <1>26, <1>27, <1>28, <1>29, <1>30 DEF TreeInv


LEMMA WriterKeeps ==
    ASSUME TreeInv, WriterStep
    PROVE  TreeInv' /\ NodesStay
<1>1. ASSUME NEW k \in Keys, NEW v \in Values, PrefixAppend(k, v) PROVE TreeInv' /\ NodesStay
  BY <1>1, PrefixAppendKeeps
<1> QED
  BY <1>1, NextChildKeeps, AttachLeafKeeps, SetValueKeeps, InsertParentKeeps, CutPrefixKeeps,
     SetParentKeeps, LinkKeeps, RehashNodeKeeps, UpdateHashKeeps
  DEF WriterStep

LEMMA TreeStutters ==
    ASSUME TreeInv, UNCHANGED treeVars
    PROVE  TreeInv' /\ NodesStay
<1>1. /\ nodes' = nodes /\ wpc' = wpc /\ job' = job /\ appends' = appends /\ content' = content
      /\ Moving' = Moving
  BY DEF treeVars, Moving
<1>2. JobTypeOK' /\ NodesFit'
  BY <1>1 DEF TreeInv, JobTypeOK, NodesFit, IsHeap
<1>3. ChildrenFit' /\ EachIsAChild' /\ Distinct' /\ Covers'
  <2>1. \A n \in DOMAIN nodes, b \in Bit : ChildOf(nodes', n, b) = ChildOf(nodes, n, b)
    BY <1>1 DEF ChildOf
  <2> QED
    BY <1>1, <2>1, ShapeIsKept DEF SameLeaf, SameKey, SameKids
<1>4. OthersAreFull'
  BY <1>1 DEF TreeInv, OthersAreFull, ChildOf, Moving
<1>5. JobFits'
  BY <1>1 DEF TreeInv, JobFits, AtNode, BranchesOff, ChildOf
<1>6. HashesFit'
  BY <1>1 DEF TreeInv, HashesFit, IsStale, IsAbove, HashOfNode, HashAt
<1>7. ContentFits'
  BY <1>1 DEF TreeInv, ContentFits, Unstored
<1>8. NodesStay
  BY <1>1, TypesOfTree DEF NodesStay
<1> QED
  BY <1>2, <1>3, <1>4, <1>5, <1>6, <1>7, <1>8 DEF TreeInv

-----------------------------------------------------------------------------
(* The inductive invariant of the reader *)

\* The steps of a round of buildCopathFromNode after the first.
InRound == {"parent", "sibling", "again", "parentAgain", "siblingAgain", "hash", "sideParent",
            "side", "prefixParent", "prefix", "up"}

\* The steps of a client on its way up, until it verifies.
Climbing == InRound \cup {"climb", "value"}

\* What has been read of a round are nodes of the tree.
RoundFits ==
    /\ round \in [bit : Bit, up : DOMAIN nodes \cup {Nil}, sibling : DOMAIN nodes \cup {Nil},
                  other : {round.other}, isLeft : {round.isLeft}, partial : {round.partial}]
    /\ rpc \in {"sibling", "siblingAgain", "side", "prefix"} => round.up # Nil
    /\ rpc = "hash" => round.sibling # Nil

\* The nodes a client stands at or is to visit are nodes of the tree, and it
\* has matched no more bits than the node it stands at stands for.
ReaderInv ==
    /\ rpc \in {"idle", "membership", "match", "set", "extend", "verify", "done"} \cup Climbing
    /\ req \in [kind : {"none", "membership", "set"}, key : Seq(Bit),
                range : SetRanges \cup {<<>>}, appends : Nat, quiet : BOOLEAN, leaf : Nat]
    /\ at \in DOMAIN nodes \cup {Nil}
    /\ bits \in Nat /\ \A p \in Keys : bits <= Len(p)
    /\ rpc = "membership" =>
           /\ at \in DOMAIN nodes /\ req.key \in Keys
           /\ bits <= Len(nodes[at].key) /\ bits < Len(req.key)
    /\ rpc = "match" =>
           /\ at \in DOMAIN nodes \ {Root} /\ req.key \in Keys
           /\ bits + Len(nodes[at].partial) <= Len(nodes[at].key)
    /\ rpc \in Climbing => at \in DOMAIN nodes /\ req.leaf \in DOMAIN nodes
    /\ rpc \in InRound => at # Root
    /\ RoundFits
    /\ (\E R : pending \in Seq(R)) /\ \A i \in DOMAIN pending : pending[i].node \in DOMAIN nodes
    /\ rpc \in {"set", "extend"} => pending # <<>>
    /\ answer.status # "panic" /\ (rpc # "done" => answer.status = "none")

TrieInv == TreeInv /\ ReaderInv

LEMMA ReaderInitInv == Init => ReaderInv
<1> SUFFICES ASSUME Init PROVE ReaderInv
  OBVIOUS
<1>1. <<>> \in Seq(Bit)
  OBVIOUS
<1>2. req \in [kind : {"none", "membership", "set"}, key : Seq(Bit),
               range : SetRanges \cup {<<>>}, appends : Nat, quiet : BOOLEAN, leaf : Nat]
  BY <1>1 DEF Init, NoRequest, Nil
<1>3. (\E R : pending \in Seq(R)) /\ DOMAIN pending = {}
  BY <1>1 DEF Init
<1>4. RoundFits
  BY DEF Init, RoundFits, NoRound, Bit
<1> QED
  BY <1>2, <1>3, <1>4, KeysAssumption DEF Init, ReaderInv, Nil, Climbing, InRound

\* Whatever the writer does, a client may go on.
LEMMA WriterLetsRead ==
    ASSUME TreeInv, TreeInv', ReaderInv, NodesStay, UNCHANGED readerVars
    PROVE  ReaderInv'
<1>1. /\ rpc' = rpc /\ req' = req /\ at' = at /\ bits' = bits /\ pending' = pending
      /\ answer' = answer /\ round' = round
  BY DEF readerVars
<1>2. \A n \in DOMAIN nodes : /\ n \in DOMAIN nodes' /\ nodes'[n].key = nodes[n].key
                              /\ Len(nodes'[n].partial) <= Len(nodes[n].partial)
                              /\ Len(nodes[n].partial) \in Nat /\ Len(nodes'[n].partial) \in Nat
                              /\ Len(nodes[n].key) \in Nat
  <2>1. DOMAIN nodes \subseteq DOMAIN nodes'
    BY DEF NodesStay
  <2>2. \A n \in DOMAIN nodes : Len(nodes[n].partial) \in Nat /\ Len(nodes[n].key) \in Nat
    BY TypesOfTree
  <2>3. \A n \in DOMAIN nodes' : Len(nodes'[n].partial) \in Nat
    <3>1. IsHeap(nodes')
      BY DEF TreeInv, NodesFit
    <3> QED
      BY <3>1, HeapFields
  <2> QED
    BY <2>1, <2>2, <2>3 DEF NodesStay
<1>3. rpc = "match" => bits + Len(nodes'[at].partial) <= Len(nodes'[at].key)
  <2> SUFFICES ASSUME rpc = "match" PROVE bits + Len(nodes'[at].partial) <= Len(nodes'[at].key)
    OBVIOUS
  <2> DEFINE a == Len(nodes[at].partial)
             b == Len(nodes'[at].partial)
             c == Len(nodes[at].key)
  <2>1. a \in Nat /\ b \in Nat /\ c \in Nat /\ b <= a /\ bits \in Nat /\ bits + a <= c
        /\ nodes'[at].key = nodes[at].key
    BY <1>2 DEF ReaderInv
  <2>2. b = Len(nodes'[at].partial) /\ c = Len(nodes'[at].key)
    BY <2>1
  <2> HIDE DEF a, b, c
  <2>3. bits + b <= c
    BY <2>1
  <2> QED
    BY <2>2, <2>3
<1>4. (bits \in Nat /\ \A p \in Keys : bits <= Len(p))'
  BY <1>1 DEF ReaderInv
<1>5. (rpc = "match" =>
           /\ at \in DOMAIN nodes \ {Root} /\ req.key \in Keys
           /\ bits + Len(nodes[at].partial) <= Len(nodes[at].key))'
  BY <1>1, <1>2, <1>3 DEF ReaderInv
<1>6. (rpc = "membership" =>
           /\ at \in DOMAIN nodes /\ req.key \in Keys
           /\ bits <= Len(nodes[at].key) /\ bits < Len(req.key))'
  BY <1>1, <1>2 DEF ReaderInv
<1>7. ((\E R : pending \in Seq(R)) /\ \A i \in DOMAIN pending : pending[i].node \in DOMAIN nodes)'
  BY <1>1, <1>2 DEF ReaderInv
<1>9. RoundFits'
  BY <1>1, <1>2 DEF ReaderInv, RoundFits
<1>8. (/\ rpc \in {"idle", "membership", "match", "set", "extend", "verify", "done"} \cup Climbing
       /\ req \in [kind : {"none", "membership", "set"}, key : Seq(Bit),
                   range : SetRanges \cup {<<>>}, appends : Nat, quiet : BOOLEAN, leaf : Nat]
       /\ at \in DOMAIN nodes \cup {Nil}
       /\ rpc \in Climbing => at \in DOMAIN nodes /\ req.leaf \in DOMAIN nodes
       /\ rpc \in InRound => at # Root
       /\ rpc \in {"set", "extend"} => pending # <<>>
       /\ answer.status # "panic" /\ (rpc # "done" => answer.status = "none"))'
  BY <1>1, <1>2 DEF ReaderInv
<1> QED
  BY <1>4, <1>5, <1>6, <1>7, <1>8, <1>9 DEF ReaderInv

\* A child of a node, as a client finds it.
LEMMA ChildFound ==
    ASSUME TreeInv, NEW n \in DOMAIN nodes, NEW b \in Bit, ChildOf(nodes, n, b) # Nil
    PROVE  LET c == ChildOf(nodes, n, b)
           IN  /\ c \in DOMAIN nodes \ {Root}
               /\ Len(nodes[c].key) = Len(nodes[n].key) + Len(nodes[c].partial)
<1> DEFINE c == ChildOf(nodes, n, b)
<1>1. ChildFits(n, b, c)
  BY DEF TreeInv, ChildrenFit
<1> HIDE DEF c
<1>2. c \in DOMAIN nodes \ {Root} /\ Len(nodes[c].key) = Len(nodes[n].key) + Len(nodes[c].partial)
  BY <1>1 DEF ChildFits
<1> QED
  BY <1>2 DEF c

\* The calls that are added name nodes of the tree.
LEMMA CallsJoined ==
    ASSUME NEW R, NEW S, NEW s \in Seq(R), NEW t \in Seq(S), NEW D,
           \A i \in DOMAIN s : s[i].node \in D, \A i \in DOMAIN t : t[i].node \in D
    PROVE  s \o t \in Seq(R \cup S) /\ \A i \in DOMAIN (s \o t) : (s \o t)[i].node \in D
<1> DEFINE Q == R \cup S
           u == s \o t
<1>1. s \in Seq(Q) /\ t \in Seq(Q)
  BY SeqDef, LenProperties, ElementOfSeq
<1> HIDE DEF Q
<1>2. /\ u \in Seq(Q) /\ Len(u) = Len(s) + Len(t)
      /\ \A i \in 1 .. Len(s) + Len(t) : u[i] = IF i <= Len(s) THEN s[i] ELSE t[i - Len(s)]
  BY <1>1, ConcatProperties
<1>3. Len(s) \in Nat /\ Len(t) \in Nat /\ DOMAIN s = 1 .. Len(s) /\ DOMAIN t = 1 .. Len(t)
      /\ DOMAIN u = 1 .. Len(u)
  BY <1>1, <1>2, LenProperties
<1> HIDE DEF u
<1>4. ASSUME NEW i \in DOMAIN u PROVE u[i].node \in D
  <2>1. CASE i <= Len(s)
    BY <1>2, <1>3, <1>4, <2>1
  <2>2. CASE ~ (i <= Len(s))
    <3>1. i - Len(s) \in DOMAIN t /\ u[i] = t[i - Len(s)]
      BY <1>2, <1>3, <1>4, <2>2
    <3> QED
      BY <3>1
  <2> QED
    BY <2>1, <2>2
<1> QED
  BY <1>2, <1>4 DEF u, Q

LEMMA ChildrenFound ==
    ASSUME TreeInv, NEW n \in DOMAIN nodes, NEW copy
    PROVE  /\ \E R : Children(n, copy) \in Seq(R)
           /\ \A i \in DOMAIN Children(n, copy) : Children(n, copy)[i].node \in DOMAIN nodes
<1> DEFINE Call(b) == IF ChildOf(nodes, n, b) = Nil THEN <<>>
                      ELSE <<[node |-> ChildOf(nodes, n, b), parent |-> copy, bit |-> b]>>
           R(b) == {[node |-> ChildOf(nodes, n, b), parent |-> copy, bit |-> b]}
<1>1. ASSUME NEW b \in Bit
      PROVE  Call(b) \in Seq(R(b)) /\ \A i \in DOMAIN Call(b) : Call(b)[i].node \in DOMAIN nodes
  <2>1. CASE ChildOf(nodes, n, b) = Nil
    BY <2>1
  <2>2. CASE ChildOf(nodes, n, b) # Nil
    <3>1. ChildOf(nodes, n, b) \in DOMAIN nodes
      BY <2>2, ChildFound
    <3> QED
      BY <2>2, <3>1
  <2> QED
    BY <2>1, <2>2
<1>2. Children(n, copy) = Call(0) \o Call(1)
  BY DEF Children
<1>3. 0 \in Bit /\ 1 \in Bit
  BY DEF Bit
<1> HIDE DEF Call, R
<1>4. /\ Call(0) \in Seq(R(0)) /\ \A i \in DOMAIN Call(0) : Call(0)[i].node \in DOMAIN nodes
      /\ Call(1) \in Seq(R(1)) /\ \A i \in DOMAIN Call(1) : Call(1)[i].node \in DOMAIN nodes
  BY <1>1, <1>3
<1> DEFINE s == Call(0)
           t == Call(1)
           S == R(0)
           T == R(1)
<1> HIDE DEF s, t, S, T
<1>5. /\ s \in Seq(S) /\ \A i \in DOMAIN s : s[i].node \in DOMAIN nodes
      /\ t \in Seq(T) /\ \A i \in DOMAIN t : t[i].node \in DOMAIN nodes
      /\ Children(n, copy) = s \o t
  BY <1>2, <1>4 DEF s, t, S, T
<1>6. s \o t \in Seq(S \cup T) /\ \A i \in DOMAIN (s \o t) : (s \o t)[i].node \in DOMAIN nodes
  BY <1>5, CallsJoined
<1> QED
  BY <1>5, <1>6

\* A step of a client on its way up that stays in the tree.
LEMMA ClimbKeeps ==
    ASSUME ReaderInv, UNCHANGED <<treeVars, req, bits, pending>>, rpc \in Climbing,
           rpc' \in Climbing \cup {"done"}, at' \in DOMAIN nodes, rpc' \in InRound => at' # Root,
           RoundFits', answer'.status # "panic", rpc' # "done" => answer'.status = "none"
    PROVE  ReaderInv'
<1>1. nodes' = nodes
  BY DEF treeVars
<1>2. rpc' \notin {"membership", "match", "set", "extend"}
  BY DEF Climbing, InRound
<1> QED
  BY <1>1, <1>2, Zenon DEF ReaderInv

LEMMA ClimbStepsKeep ==
    ASSUME TreeInv, ReaderInv, BuildCopath \/ ReadLeafPrefix \/ VerifyMembership, UNCHANGED treeVars
    PROVE  ReaderInv'
<1>1. nodes' = nodes
  BY DEF treeVars
<1>2. /\ answer.status # "panic" /\ (rpc # "done" => answer.status = "none")
      /\ round \in [bit : Bit, up : DOMAIN nodes \cup {Nil}, sibling : DOMAIN nodes \cup {Nil},
                    other : {round.other}, isLeft : {round.isLeft}, partial : {round.partial}]
      /\ rpc \in {"sibling", "siblingAgain", "side", "prefix"} => round.up \in DOMAIN nodes
      /\ rpc \in Climbing => at \in DOMAIN nodes
      /\ rpc \in InRound => at # Root
  BY DEF ReaderInv, RoundFits
<1>3. \A n \in DOMAIN nodes \ {Root} : nodes[n].parent \in DOMAIN nodes /\ Head(nodes[n].partial) \in Bit
  <2> TAKE n \in DOMAIN nodes \ {Root}
  <2>1. nodes[n].parent \in DOMAIN nodes /\ Len(nodes[n].partial) > 0 /\ nodes[n].partial \in Seq(Bit)
    BY TypesOfTree DEF TreeInv, NodesFit
  <2> QED
    BY <2>1
<1>4. Nil \notin DOMAIN nodes
  BY TypesOfTree
<1>5. CASE ReadBit
  <2>1. /\ UNCHANGED <<req, bits, pending>> /\ at' = at /\ at # Root /\ answer' = answer
        /\ rpc \in {"climb", "again"} /\ rpc' \in {"parent", "parentAgain"}
        /\ round' = [NoRound EXCEPT !.bit = Head(nodes[at].partial)]
    BY <1>5 DEF ReadBit, Read
  <2>2. RoundFits'
    BY <1>1, <1>2, <1>3, <2>1 DEF RoundFits, NoRound, Climbing, InRound
  <2> QED
    BY <1>2, <2>1, <2>2, ClimbKeeps DEF Climbing, InRound
<1>6. CASE ReadParent
  <2>1. /\ UNCHANGED <<req, bits, pending>> /\ at' = at /\ answer' = answer
        /\ rpc \in {"parent", "parentAgain", "sideParent", "prefixParent"}
        /\ rpc' \in {"sibling", "siblingAgain", "side", "prefix"}
        /\ round' = [round EXCEPT !.up = nodes[at].parent]
    BY <1>6 DEF ReadParent, Read
  <2>2. at \in DOMAIN nodes \ {Root}
    BY <1>2, <2>1 DEF Climbing, InRound
  <2>3. RoundFits'
    BY <1>1, <1>2, <1>3, <1>4, <2>1, <2>2 DEF RoundFits
  <2> QED
    BY <1>2, <2>1, <2>2, <2>3, ClimbKeeps DEF Climbing, InRound
<1>7. CASE ReadSibling
  <2>1. /\ UNCHANGED <<req, bits, pending>> /\ at' = at /\ answer' = answer
        /\ rpc = "sibling" /\ rpc' \in {"sideParent", "again"} /\ round' = NoRound
    BY <1>7 DEF ReadSibling, Read
  <2>2. RoundFits'
    BY <1>1, <2>1 DEF RoundFits, NoRound, Bit
  <2> QED
    BY <1>2, <2>1, <2>2, ClimbKeeps DEF Climbing, InRound
<1>8. CASE ReadSiblingAgain
  <2>1. /\ UNCHANGED <<req, bits, pending>> /\ at' = at /\ rpc = "siblingAgain"
        /\ \/ rpc' = "done" /\ answer'.status = "nilSibling" /\ round' = NoRound
           \/ /\ rpc' = "hash" /\ answer' = answer /\ Sibling # Nil
              /\ round' = [NoRound EXCEPT !.sibling = Sibling]
    BY <1>8 DEF ReadSiblingAgain, Reply
  <2>2. Sibling # Nil => Sibling \in DOMAIN nodes
    <3>1. round.up \in DOMAIN nodes /\ 1 - round.bit \in Bit
      BY <1>2, <2>1 DEF Bit
    <3> QED
      BY <3>1, ChildFound DEF Sibling
  <2> HIDE DEF Sibling
  <2>3. RoundFits'
    BY <1>1, <1>4, <2>1, <2>2 DEF RoundFits, NoRound, Bit
  <2> QED
    BY <1>2, <2>1, <2>3, ClimbKeeps DEF Climbing, InRound
<1>9. CASE ReadHash
  <2>1. /\ UNCHANGED <<req, bits, pending>> /\ at' = at /\ answer' = answer
        /\ rpc = "hash" /\ rpc' = "sideParent"
        /\ round' = [NoRound EXCEPT !.other = nodes[round.sibling].hash]
    BY <1>9 DEF ReadHash, Read
  <2>2. RoundFits'
    BY <1>1, <2>1 DEF RoundFits, NoRound, Bit
  <2> QED
    BY <1>2, <2>1, <2>2, ClimbKeeps DEF Climbing, InRound
<1>10. CASE ReadSide
  <2>1. /\ UNCHANGED <<req, bits, pending>> /\ at' = at /\ answer' = answer
        /\ rpc = "side" /\ rpc' = "prefixParent"
        /\ round' = [round EXCEPT !.up = Nil, !.isLeft = at # nodes[round.up].right]
    BY <1>10 DEF ReadSide, Read
  <2>2. RoundFits'
    BY <1>1, <1>2, <2>1 DEF RoundFits
  <2> QED
    BY <1>2, <2>1, <2>2, ClimbKeeps DEF Climbing, InRound
<1>11. CASE ReadPrefix
  <2>1. /\ UNCHANGED <<req, bits, pending>> /\ at' = at /\ answer' = answer
        /\ rpc = "prefix" /\ rpc' = "up" /\ round' = NoRound
    BY <1>11 DEF ReadPrefix
  <2>2. RoundFits'
    BY <1>1, <2>1 DEF RoundFits, NoRound, Bit
  <2> QED
    BY <1>2, <2>1, <2>2, ClimbKeeps DEF Climbing, InRound
<1>12. CASE Climb
  <2>1. /\ UNCHANGED <<req, bits, pending>> /\ at' = nodes[at].parent /\ answer' = answer
        /\ rpc = "up" /\ rpc' = "climb" /\ round' = round
    BY <1>12 DEF Climb
  <2>2. at' \in DOMAIN nodes
    BY <1>2, <1>3, <2>1 DEF Climbing, InRound
  <2>3. RoundFits'
    BY <1>1, <1>2, <2>1 DEF RoundFits
  <2> QED
    BY <1>2, <2>1, <2>2, <2>3, ClimbKeeps DEF Climbing, InRound
<1>13. CASE ReadLeafPrefix
  <2>1. /\ UNCHANGED <<req, bits, pending>> /\ at' = at /\ answer' = answer
        /\ rpc = "climb" /\ rpc' = "value"
        /\ round' = [NoRound EXCEPT !.partial = nodes[req.leaf].partial]
    BY <1>13 DEF ReadLeafPrefix, Read
  <2>2. RoundFits'
    BY <1>1, <2>1 DEF RoundFits, NoRound, Bit
  <2> QED
    BY <1>2, <2>1, <2>2, ClimbKeeps DEF Climbing, InRound
<1>14. CASE VerifyMembership
  <2>1. /\ UNCHANGED <<req, bits, pending>> /\ at' = at /\ rpc = "value" /\ rpc' = "done"
        /\ answer'.status \in {"verified", "rejected"} /\ round' = NoRound
    BY <1>14 DEF VerifyMembership, Reply
  <2>2. RoundFits'
    BY <1>1, <2>1 DEF RoundFits, NoRound, Bit
  <2> QED
    BY <1>2, <2>1, <2>2, ClimbKeeps DEF Climbing, InRound
<1> QED
  BY <1>5, <1>6, <1>7, <1>8, <1>9, <1>10, <1>11, <1>12, <1>13, <1>14 DEF BuildCopath

LEMMA ReaderKeeps ==
    ASSUME TreeInv, ReaderInv, ReaderStep, UNCHANGED treeVars
    PROVE  ReaderInv'
<1>1. nodes' = nodes /\ wpc' = wpc /\ appends' = appends
  BY DEF treeVars
<1>2. /\ req \in [kind : {"none", "membership", "set"}, key : Seq(Bit),
                  range : SetRanges \cup {<<>>}, appends : Nat, quiet : BOOLEAN, leaf : Nat]
      /\ bits \in Nat /\ \A p \in Keys : bits <= Len(p)
      /\ (\E R : pending \in Seq(R)) /\ \A i \in DOMAIN pending : pending[i].node \in DOMAIN nodes
      /\ at \in DOMAIN nodes \cup {Nil}
      /\ answer.status # "panic" /\ (rpc # "done" => answer.status = "none")
      /\ RoundFits
  BY DEF ReaderInv
<1>3. Root \in DOMAIN nodes /\ Root \in Nat /\ appends \in Nat /\ DOMAIN nodes \subseteq Nat /\ Nil \in Nat
  BY TypesOfTree, KeysAssumption DEF TreeInv, JobTypeOK, Root, Nil
<1>13. round' = round /\ rpc' \notin InRound \cup {"value"} => RoundFits'
  BY <1>1, <1>2 DEF RoundFits, InRound
<1>4. Forget => ReaderInv'
  <2>1. NoRequest \in [kind : {"none", "membership", "set"}, key : Seq(Bit),
                       range : SetRanges \cup {<<>>}, appends : Nat, quiet : BOOLEAN, leaf : Nat]
    BY DEF NoRequest, Nil
  <2>2. <<>> \in Seq(Bit) /\ DOMAIN <<>> = {} /\ \A p \in Keys : 0 <= Len(p)
    BY TypesOfTree
  <2>3. Forget => RoundFits'
    BY <1>1 DEF Forget, RoundFits, NoRound, Bit
  <2> QED
    BY <1>1, <2>1, <2>2, <2>3 DEF Forget, ReaderInv, Climbing, InRound
<1>5. ASSUME NEW k \in Keys, AskMembership(k) PROVE ReaderInv'
  <2>1. /\ rpc' = "membership" /\ at' = Root /\ bits' = 0 /\ pending' = pending /\ answer' = answer
        /\ round' = round /\ rpc = "idle"
        /\ req' = [NoRequest EXCEPT !.kind = "membership", !.key = k, !.range = <<>>,
                                    !.appends = appends, !.quiet = wpc = "idle"]
    BY <1>5 DEF AskMembership, Ask
  <2>2. k \in Seq(Bit) /\ 0 < Len(k) /\ \A p \in Keys : 0 <= Len(p)
    BY KeysAssumption, TypesOfTree DEF Bit
  <2>3. req'.key = k /\ req' \in [kind : {"none", "membership", "set"}, key : Seq(Bit),
                  range : SetRanges \cup {<<>>}, appends : Nat, quiet : BOOLEAN, leaf : Nat]
    BY <1>3, <2>1, <2>2 DEF NoRequest
  <2>4. 0 <= Len(nodes[Root].key)
    BY <1>3, TypesOfTree
  <2> QED
    BY <1>1, <1>2, <1>3, <1>13, <2>1, <2>2, <2>3, <2>4 DEF ReaderInv, Climbing, InRound
<1>6. ASSUME NEW rg \in SetRanges, AskSet(rg) PROVE ReaderInv'
  <2>1. /\ rpc' = "set" /\ at' = at /\ bits' = bits /\ answer' = answer
        /\ round' = round /\ rpc = "idle"
        /\ pending' = <<[node |-> Root, parent |-> Nil, bit |-> 0]>>
        /\ req' = [NoRequest EXCEPT !.kind = "set", !.key = <<>>, !.range = rg,
                                    !.appends = appends, !.quiet = wpc = "idle"]
    BY <1>6 DEF AskSet, Ask
  <2>2. req' \in [kind : {"none", "membership", "set"}, key : Seq(Bit),
                  range : SetRanges \cup {<<>>}, appends : Nat, quiet : BOOLEAN, leaf : Nat]
    <3>1. <<>> \in Seq(Bit) /\ rg \in SetRanges /\ (wpc = "idle") \in BOOLEAN
      OBVIOUS
    <3> QED
      BY <1>3, <2>1, <3>1 DEF NoRequest
  <2>3. pending' \in Seq({[node |-> Root, parent |-> Nil, bit |-> 0]}) /\ pending' # <<>>
        /\ \A i \in DOMAIN pending' : pending'[i].node \in DOMAIN nodes
    BY <1>3, <2>1
  <2> QED
    BY <1>1, <1>2, <1>3, <1>13, <2>1, <2>2, <2>3 DEF ReaderInv, Climbing, InRound
<1>7. Descend => ReaderInv'
  <2> SUFFICES ASSUME Descend PROVE ReaderInv'
    OBVIOUS
  <2> DEFINE c == ChildOf(nodes, at, req.key[bits + 1])
  <2>1. /\ rpc = "membership" /\ req' = req /\ bits' = bits /\ pending' = pending /\ round' = round
        /\ \/ rpc' = "done" /\ answer'.status = "notFound" /\ at' = at
           \/ c # Nil /\ rpc' = "match" /\ at' = c /\ answer' = answer
    BY DEF Descend, Reply
  <2>2. at \in DOMAIN nodes /\ req.key \in Keys /\ bits <= Len(nodes[at].key) /\ bits < Len(req.key)
    BY <2>1 DEF ReaderInv
  <2>3. req.key[bits + 1] \in Bit
    <3>1. req.key \in Seq(Bit) /\ Len(req.key) \in Nat
      BY <2>2, TypesOfTree
    <3>2. bits + 1 \in 1 .. Len(req.key)
      BY <1>2, <2>2, <3>1
    <3> QED
      BY <3>1, <3>2, ElementOfSeq
  <2>4. c # Nil => c \in DOMAIN nodes \ {Root} /\ Len(nodes[c].key) = Len(nodes[at].key) + Len(nodes[c].partial)
    BY <2>2, <2>3, ChildFound
  <2> HIDE DEF c
  <2>5. c # Nil => bits + Len(nodes[c].partial) <= Len(nodes[c].key)
    <3> HAVE c # Nil
    <3> DEFINE x == Len(nodes[c].partial)
               y == Len(nodes[c].key)
               z == Len(nodes[at].key)
    <3>1. x \in Nat /\ y \in Nat /\ z \in Nat /\ y = z + x /\ bits <= z /\ bits \in Nat
      BY <1>2, <2>2, <2>4, TypesOfTree
    <3> HIDE DEF x, y, z
    <3>2. bits + x <= y
      BY <3>1
    <3> QED
      BY <3>2 DEF x, y
  <2>6. CASE rpc' = "done" /\ answer'.status = "notFound" /\ at' = at
    BY <1>1, <1>2, <1>13, <2>1, <2>6 DEF ReaderInv, Climbing, InRound
  <2>7. CASE c # Nil /\ rpc' = "match" /\ at' = c /\ answer' = answer
    BY <1>1, <1>2, <1>13, <2>1, <2>2, <2>4, <2>5, <2>7 DEF ReaderInv, Climbing, InRound
  <2> QED
    BY <2>1, <2>6, <2>7
<1>8. Match => ReaderInv'
  <2> SUFFICES ASSUME Match PROVE ReaderInv'
    OBVIOUS
  <2> DEFINE n == Len(nodes[at].partial)
             l == Len(nodes[at].key)
  <2>1. /\ rpc = "match" /\ at' = at /\ pending' = pending /\ round' = round
        /\ \/ rpc' = "done" /\ answer'.status = "notFound" /\ bits' = bits /\ req' = req
           \/ /\ bits' = bits + n
              /\ \/ bits + n < Len(req.key) /\ rpc' = "membership" /\ answer' = answer /\ req' = req
                 \/ /\ ~ (bits + n < Len(req.key)) /\ nodes[at].leaf /\ rpc' = "climb"
                    /\ req' = [req EXCEPT !.leaf = at] /\ answer' = answer
                 \/ ~ (bits + n < Len(req.key)) /\ ~ nodes[at].leaf
    BY DEF Match, Reply
  <2>2. /\ at \in DOMAIN nodes \ {Root} /\ req.key \in Keys /\ bits + n <= l
        /\ n \in Nat /\ l \in Nat /\ bits + n \in Nat /\ Len(req.key) \in Nat
    <3>1. at \in DOMAIN nodes \ {Root} /\ req.key \in Keys /\ bits + n <= l
      BY <2>1 DEF ReaderInv
    <3>2. n \in Nat /\ l \in Nat /\ Len(req.key) \in Nat
      BY <3>1, TypesOfTree
    <3> HIDE DEF n, l
    <3> QED
      BY <1>2, <3>1, <3>2
  <2>3. ~ nodes[at].leaf => l < Len(req.key)
    BY <2>2 DEF TreeInv, NodesFit
  <2>4. \A p \in Keys : l <= Len(p) /\ Len(p) \in Nat
    BY <2>2, KeysAreLongest, TypesOfTree
  <2> HIDE DEF n, l
  <2>5. /\ \A p \in Keys : bits + n <= Len(p)
        /\ ~ nodes[at].leaf => bits + n < Len(req.key)
    BY <2>2, <2>3, <2>4
  <2>6. CASE rpc' = "done" /\ answer'.status = "notFound" /\ bits' = bits /\ req' = req
    BY <1>1, <1>2, <1>13, <2>1, <2>6 DEF ReaderInv, Climbing, InRound
  <2>7. CASE /\ bits' = bits + n
             /\ bits + n < Len(req.key) /\ rpc' = "membership" /\ answer' = answer /\ req' = req
    BY <1>1, <1>2, <1>13, <2>1, <2>2, <2>5, <2>7 DEF ReaderInv, Climbing, InRound, l
  <2>8. CASE /\ bits' = bits + n /\ nodes[at].leaf /\ rpc' = "climb"
             /\ req' = [req EXCEPT !.leaf = at] /\ answer' = answer
    <3>1. req'.leaf = at /\ req' \in [kind : {"none", "membership", "set"}, key : Seq(Bit),
                  range : SetRanges \cup {<<>>}, appends : Nat, quiet : BOOLEAN, leaf : Nat]
      BY <1>2, <1>3, <2>2, <2>8
    <3> QED
      BY <1>1, <1>2, <1>13, <2>1, <2>2, <2>5, <2>8, <3>1 DEF ReaderInv, Climbing, InRound
  <2> QED
    BY <2>1, <2>5, <2>6, <2>7, <2>8
<1>9. BuildCopath \/ ReadLeafPrefix \/ VerifyMembership => ReaderInv'
  BY ClimbStepsKeep
<1>10. CopyNode => ReaderInv'
  BY <1>1, <1>2, <1>13 DEF CopyNode, ReaderInv, Climbing, InRound
<1>11. ExtendSetCompletenessProof => ReaderInv'
  <2> SUFFICES ASSUME ExtendSetCompletenessProof PROVE ReaderInv'
    OBVIOUS
  <2> DEFINE next == Head(pending)
             calls == Children(next.node, Len(copies))
  <2>1. /\ rpc = "extend" /\ req' = req /\ at' = at /\ bits' = bits /\ answer' = answer /\ round' = round
        /\ pending' = calls \o Tail(pending) \/ pending' = Tail(pending)
        /\ rpc' = IF pending' = <<>> THEN "verify" ELSE "set"
    BY DEF ExtendSetCompletenessProof
  <2>2. PICK R : pending \in Seq(R)
    BY <1>2
  <2>3. pending # <<>>
    BY <2>1 DEF ReaderInv
  <2>4. /\ Tail(pending) \in Seq(R) /\ Len(Tail(pending)) = Len(pending) - 1 /\ Len(pending) \in Nat
        /\ Len(pending) > 0 /\ Head(pending) = pending[1]
        /\ \A i \in 1 .. Len(Tail(pending)) : Tail(pending)[i] = pending[i + 1]
        /\ DOMAIN pending = 1 .. Len(pending) /\ DOMAIN Tail(pending) = 1 .. Len(Tail(pending))
    BY <2>2, <2>3
  <2>5. \A i \in DOMAIN Tail(pending) : i + 1 \in DOMAIN pending
    BY <2>4
  <2>6. next.node \in DOMAIN nodes /\ \A i \in DOMAIN Tail(pending) : Tail(pending)[i].node \in DOMAIN nodes
    BY <1>2, <2>4, <2>5
  <2> HIDE DEF next
  <2>7. PICK S : calls \in Seq(S)
    BY <2>6, ChildrenFound
  <2>8. \A i \in DOMAIN calls : calls[i].node \in DOMAIN nodes
    BY <2>6, ChildrenFound
  <2> HIDE DEF calls
  <2>9. (\E Q : pending' \in Seq(Q)) /\ \A i \in DOMAIN pending' : pending'[i].node \in DOMAIN nodes
    <3> DEFINE t == Tail(pending)
    <3>1. t \in Seq(R) /\ \A i \in DOMAIN t : t[i].node \in DOMAIN nodes
      BY <2>4, <2>6
    <3> HIDE DEF t
    <3>2. calls \o t \in Seq(S \cup R) /\ \A i \in DOMAIN (calls \o t) : (calls \o t)[i].node \in DOMAIN nodes
      BY <2>7, <2>8, <3>1, CallsJoined
    <3>3. pending' = calls \o t \/ pending' = t
      BY <2>1 DEF t
    <3> QED
      BY <3>1, <3>2, <3>3
  <2> QED
    BY <1>1, <1>2, <1>13, <2>1, <2>9 DEF ReaderInv, Climbing, InRound
<1>12. VerifyPrefixSet => ReaderInv'
  BY <1>1, <1>2, <1>13 DEF VerifyPrefixSet, Reply, ReaderInv, Climbing, InRound
<1> QED
  BY <1>4, <1>5, <1>6, <1>7, <1>8, <1>9, <1>10, <1>11, <1>12 DEF ReaderStep


-----------------------------------------------------------------------------
(* What holds of the tree at every moment *)

LEMMA TrieInvIsInductive == Spec => []TrieInv
<1>1. Init => TrieInv
  BY TreeInitInv, ReaderInitInv DEF TrieInv
<1>2. TrieInv /\ [Next]_vars => TrieInv'
  <2> SUFFICES ASSUME TrieInv, [Next]_vars PROVE TrieInv'
    OBVIOUS
  <2>1. CASE WriterStep /\ UNCHANGED readerVars
    BY <2>1, WriterKeeps, WriterLetsRead DEF TrieInv
  <2>2. CASE ReaderStep /\ UNCHANGED treeVars
    BY <2>2, TreeStutters, ReaderKeeps DEF TrieInv
  <2>3. CASE UNCHANGED vars
    BY <2>3, TreeStutters, WriterLetsRead DEF TrieInv, vars
  <2> QED
    BY <2>1, <2>2, <2>3 DEF Next
<1> QED
  BY <1>1, <1>2, PTL DEF Spec

LEMMA TypesFollow == TrieInv => TypeOK
<1> SUFFICES ASSUME TrieInv PROVE TypeOK
  OBVIOUS
<1>1. TreeInv /\ ReaderInv
  BY DEF TrieInv
<1>2. ASSUME NEW n \in DOMAIN nodes
      PROVE  /\ nodes[n].parent \in DOMAIN nodes \cup {Nil}
             /\ nodes[n].left \in DOMAIN nodes \cup {Nil}
             /\ nodes[n].right \in DOMAIN nodes \cup {Nil}
             /\ nodes[n].value \in Values \cup {NoValue}
  <2>1. \A b \in Bit : ChildOf(nodes, n, b) \in DOMAIN nodes \cup {Nil}
    BY <1>1, ChildFound
  <2>2. nodes[n].left \in DOMAIN nodes \cup {Nil} /\ nodes[n].right \in DOMAIN nodes \cup {Nil}
    BY <2>1 DEF Bit, ChildOf
  <2>3. nodes[n].parent \in DOMAIN nodes \cup {Nil}
    BY <1>1 DEF TreeInv, NodesFit
  <2>4. nodes[n].value \in Values \cup {NoValue}
    BY <1>1, TypesOfTree
  <2> QED
    BY <2>2, <2>3, <2>4
<1>3. \A p \in Keys : bits \in 0 .. Len(p)
  BY <1>1, TypesOfTree DEF ReaderInv
<1>4. JobTypeOK
  BY <1>1 DEF TreeInv
<1> QED
  BY <1>1, <1>2, <1>3, <1>4 DEF TypeOK, JobTypeOK, ReaderInv, RoundFits, Climbing, InRound

\* Pointers lead to nodes of the tree at every moment of a split, and a
\* client never counts more bits than a prefix has.
THEOREM TypeCorrect == Spec => []TypeOK
BY TrieInvIsInductive, TypesFollow, PTL

LEMMA NoPanicFollows == TrieInv => NoPanic
<1> SUFFICES ASSUME TrieInv PROVE NoPanic
  OBVIOUS
<1>1. TreeInv /\ ReaderInv
  BY DEF TrieInv
<1>2. wpc = "split" => job.j \in 1 .. Len(nodes[job.node].partial) - 1
  BY <1>1 DEF TreeInv, JobFits
<1>3. wpc = "attach" => job.i < Len(job.key)
  BY <1>1 DEF TreeInv, JobFits, AtNode
<1>4. wpc = "replace" => nodes[job.node].leaf
  <2> HAVE wpc = "replace"
  <2>1. job.node \in DOMAIN nodes /\ nodes[job.node].key = job.key /\ job.key \in Keys
    BY <1>1 DEF TreeInv, JobFits
  <2> QED
    BY <1>1, <2>1, KeysAreLongest
<1>5. wpc = "idle" => \A n \in DOMAIN nodes \ {Root} :
          nodes[n].leaf \/ (nodes[n].left # Nil /\ nodes[n].right # Nil)
  <2> HAVE wpc = "idle"
  <2> TAKE n \in DOMAIN nodes \ {Root}
  <2>1. nodes[n].leaf \/ \A b \in Bit : ChildOf(nodes, n, b) # Nil
    BY <1>1 DEF TreeInv, OthersAreFull, Moving
  <2> QED
    BY <2>1 DEF Bit, ChildOf
<1>6. \A n \in DOMAIN nodes : nodes[n].parent = Nil => n = Root
  <2>1. Nil \notin DOMAIN nodes
    BY <1>1, TypesOfTree
  <2> QED
    BY <1>1, <2>1 DEF TreeInv, NodesFit
<1>7. answer.status # "panic"
  BY <1>1 DEF ReaderInv
<1> QED
  BY <1>2, <1>3, <1>4, <1>5, <1>6, <1>7 DEF NoPanic

\* PrefixAppend, getLeaf and GenerateMembershipProof call for no panic, even
\* when a client walks through a split.  (The nil that getSibling may return
\* there is not such a call: SiblingIsThere does not hold.)
THEOREM NoPanicCorrect == Spec => []NoPanic
BY TrieInvIsInductive, NoPanicFollows, PTL

\* A node stands for the prefix of its parent and its own partial one.
LEMMA KeyIsSpelled ==
    ASSUME TreeInv, ~ Moving, NEW n \in DOMAIN nodes \ {Root}
    PROVE  LET up == nodes[n].parent
           IN  /\ up \in DOMAIN nodes /\ nodes[n].partial # <<>>
               /\ ChildOf(nodes, up, Head(nodes[n].partial)) = n
               /\ nodes[n].key = nodes[up].key \o nodes[n].partial
<1> DEFINE up == nodes[n].parent
           s == nodes[up].key
           t == nodes[n].partial
           u == nodes[n].key
<1>1. up \in DOMAIN nodes /\ Len(t) > 0 /\ n # Nil
  BY TypesOfTree DEF TreeInv, NodesFit
<1>2. s \in Seq(Bit) /\ t \in Seq(Bit) /\ u \in Seq(Bit) /\ Len(s) \in Nat /\ Len(t) \in Nat /\ Len(u) \in Nat
  BY <1>1, TypesOfTree
<1>3. Head(t) = t[1] /\ t # <<>> /\ t[1] \in Bit
  BY <1>1, <1>2
<1>4. ChildOf(nodes, up, t[1]) = n
  BY DEF TreeInv, EachIsAChild
<1>5. ChildFits(up, t[1], n)
  BY <1>1, <1>3, <1>4 DEF TreeInv, ChildrenFit
<1>6. Len(u) = Len(s) + Len(t) /\ IsPrefix(s, u)
  BY <1>5 DEF ChildFits
<1>7. \A x \in 1 .. Len(t) : t[x] = u[Len(u) - Len(t) + x]
  BY DEF TreeInv, NodesFit
<1> HIDE DEF up, s, t, u
<1>8. \A x \in 1 .. Len(s) : s[x] = u[x]
  BY <1>2, <1>6, PrefixBits
<1>9. /\ s \o t \in Seq(Bit) /\ Len(s \o t) = Len(s) + Len(t)
      /\ \A x \in 1 .. Len(s) + Len(t) : (s \o t)[x] = IF x <= Len(s) THEN s[x] ELSE t[x - Len(s)]
  BY <1>2, ConcatProperties
<1>10. ASSUME NEW x \in 1 .. Len(u) PROVE (s \o t)[x] = u[x]
  <2>1. CASE x <= Len(s)
    <3>1. x \in 1 .. Len(s) /\ x \in 1 .. Len(s) + Len(t)
      BY <1>2, <1>6, <2>1
    <3> QED
      BY <1>8, <1>9, <2>1, <3>1
  <2>2. CASE ~ (x <= Len(s))
    <3>1. x - Len(s) \in 1 .. Len(t) /\ x \in 1 .. Len(s) + Len(t) /\ Len(u) - Len(t) + (x - Len(s)) = x
      BY <1>2, <1>6, <2>2
    <3>2. t[x - Len(s)] = u[Len(u) - Len(t) + (x - Len(s))]
      BY <1>7, <3>1
    <3> QED
      BY <1>9, <2>2, <3>1, <3>2
  <2> QED
    BY <2>1, <2>2
<1>11. s \o t = u
  <2> DEFINE v == s \o t
  <2>1. v \in Seq(Bit) /\ Len(v) = Len(u) /\ \A x \in 1 .. Len(u) : v[x] = u[x]
    BY <1>6, <1>9, <1>10
  <2> HIDE DEF v
  <2>2. v = u
    BY <1>2, <2>1, SeqEqual
  <2> QED
    BY <2>2 DEF v
<1> QED
  BY <1>1, <1>3, <1>4, <1>11 DEF up, s, t, u

LEMMA TrieFollows == TrieInv => StaysTrie
<1> SUFFICES ASSUME TreeInv, wpc = "idle" PROVE IsTrieOf(nodes, content)
  BY DEF TrieInv, StaysTrie
<1>1. ~ Moving /\ \A k \in Keys : ~ Unstored(k)
  BY DEF Moving, Unstored
<1>2. nodes[Root].key = <<>> /\ nodes[Root].partial = <<>>
  <2>1. nodes[Root].key = <<>> /\ Len(nodes[Root].partial) <= Len(nodes[Root].key)
    BY DEF TreeInv, NodesFit
  <2>2. nodes[Root].partial \in Seq(Bit) /\ Len(nodes[Root].partial) \in Nat
    BY TypesOfTree
  <2>3. Len(nodes[Root].partial) = 0
    BY <2>1, <2>2
  <2> QED
    BY <2>1, <2>2, <2>3
<1>3. \A n \in DOMAIN nodes \ {Root} :
          LET up == nodes[n].parent
          IN  /\ up \in DOMAIN nodes /\ nodes[n].partial # <<>>
              /\ ChildOf(nodes, up, Head(nodes[n].partial)) = n
              /\ nodes[n].key = nodes[up].key \o nodes[n].partial
  BY <1>1, KeyIsSpelled
<1>4. ASSUME NEW n \in DOMAIN nodes
      PROVE  IF nodes[n].leaf
             THEN /\ nodes[n].left = Nil /\ nodes[n].right = Nil
                  /\ nodes[n].key \in Keys /\ nodes[n].value # NoValue
                  /\ nodes[n].value = content[nodes[n].key]
             ELSE /\ nodes[n].value = NoValue
                  /\ n # Root => nodes[n].left # Nil /\ nodes[n].right # Nil
  <2>1. CASE nodes[n].leaf
    <3>1. \A b \in Bit : ChildOf(nodes, n, b) = Nil
      BY <2>1 DEF TreeInv, ChildrenFit, ChildFits
    <3>2. nodes[n].key \in Keys /\ nodes[n].value \in Values
      BY <2>1 DEF TreeInv, NodesFit
    <3>3. nodes[n].value = content[nodes[n].key]
      BY <1>1, <2>1, <3>2 DEF TreeInv, ContentFits
    <3> QED
      BY <2>1, <3>1, <3>2, <3>3, KeysAssumption DEF Bit, ChildOf
  <2>2. CASE ~ nodes[n].leaf
    <3>1. nodes[n].value = NoValue
      BY <2>2 DEF TreeInv, NodesFit
    <3>2. n # Root => \A b \in Bit : ChildOf(nodes, n, b) # Nil
      BY <1>1, <2>2 DEF TreeInv, OthersAreFull
    <3> QED
      BY <2>2, <3>1, <3>2 DEF Bit, ChildOf
  <2> QED
    BY <2>1, <2>2
<1>5. ASSUME NEW n \in DOMAIN nodes, NEW b \in {0, 1}, ChildOf(nodes, n, b) # Nil
      PROVE  \E c \in DOMAIN nodes \ {Root} : /\ c = ChildOf(nodes, n, b) /\ nodes[c].parent = n
                                             /\ Head(nodes[c].partial) = b
  <2> DEFINE c == ChildOf(nodes, n, b)
  <2>1. ChildFits(n, b, c)
    BY <1>5 DEF TreeInv, ChildrenFit, Bit
  <2> HIDE DEF c
  <2>2. /\ c \in DOMAIN nodes \ {Root} /\ nodes[c].parent = n
        /\ Len(nodes[c].key) = Len(nodes[n].key) + Len(nodes[c].partial)
        /\ nodes[c].key[Len(nodes[n].key) + 1] = b
    BY <2>1 DEF ChildFits
  <2>3. /\ Len(nodes[c].partial) > 0 /\ Len(nodes[c].partial) \in Nat /\ nodes[c].partial \in Seq(Bit)
        /\ Len(nodes[n].key) \in Nat
    BY <2>2, TypesOfTree DEF TreeInv, NodesFit
  <2>4. nodes[c].partial[1] = nodes[c].key[Len(nodes[c].key) - Len(nodes[c].partial) + 1]
    <3>1. 1 \in 1 .. Len(nodes[c].partial)
      BY <2>3
    <3> QED
      BY <2>2, <3>1 DEF TreeInv, NodesFit
  <2>5. Len(nodes[c].key) - Len(nodes[c].partial) = Len(nodes[n].key)
    BY <2>2, <2>3
  <2>6. Head(nodes[c].partial) = b
    BY <2>2, <2>3, <2>4, <2>5
  <2> QED
    BY <2>2, <2>6 DEF c
<1>6. \A k \in Keys : content[k] # NoValue => \E n \in DOMAIN nodes : nodes[n].leaf /\ nodes[n].key = k
  BY <1>1 DEF TreeInv, ContentFits
<1>7. \A n \in DOMAIN nodes : nodes[n].hash = HashOfNode(nodes, n)
  BY <1>1 DEF TreeInv, HashesFit, IsStale
<1>8. \A n \in DOMAIN nodes : \A b \in {0, 1} :
          ChildOf(nodes, n, b) = Nil \/
              \E c \in DOMAIN nodes \ {Root} : /\ c = ChildOf(nodes, n, b) /\ nodes[c].parent = n
                                              /\ Head(nodes[c].partial) = b
  BY <1>5
<1> QED
  BY <1>2, <1>3, <1>4, <1>6, <1>7, <1>8, Zenon DEF IsTrieOf

\* However many prefixes have been appended, in whatever order, with however
\* many splits: between calls the tree is the compressed trie of what was
\* appended, and every hash is that of its node.
THEOREM StaysTrieCorrect == Spec => []StaysTrie
BY TrieInvIsInductive, TrieFollows, PTL

-----------------------------------------------------------------------------
(* RebuildRootHash, round by round *)

\* What a node keeps of its hash, round by round: RebuildRootHash is defined
\* by recursion along the copath.
Rounds(x, path, h) ==
    h = [i \in 0 .. Len(path) |-> IF i = 0 THEN x ELSE Combine(h[i - 1], path[i])]

LEMMA RoundIs ==
    ASSUME NEW x, NEW path, NEW h, Rounds(x, path, h)
    PROVE  \A i \in 0 .. Len(path) : h[i] = IF i = 0 THEN x ELSE Combine(h[i - 1], path[i])
BY Zenon DEF Rounds

LEMMA RoundsAgree ==
    ASSUME NEW R, NEW s \in Seq(R), NEW x, NEW g, NEW h, Rounds(x, s, g), Rounds(x, s, h)
    PROVE  g[Len(s)] = h[Len(s)]
<1> DEFINE n == Len(s)
           D == {i \in 0 .. n : g[i] # h[i]}
<1>0. n \in Nat
  BY LenProperties
<1>1. /\ \A i \in 0 .. n : g[i] = IF i = 0 THEN x ELSE Combine(g[i - 1], s[i])
      /\ \A i \in 0 .. n : h[i] = IF i = 0 THEN x ELSE Combine(h[i - 1], s[i])
  BY RoundIs
<1> HIDE DEF n
<1> SUFFICES ASSUME D # {} PROVE FALSE
  BY <1>0 DEF n
<1>2. D \subseteq Nat
  OBVIOUS
<1>3. Min(D) \in D /\ \A y \in D : Min(D) <= y
  BY <1>2, NatMin
<1> DEFINE m == Min(D)
<1>4. m \in 0 .. n /\ g[m] # h[m] /\ \A y \in D : m <= y
  BY <1>3
<1> HIDE DEF m
<1>5. m # 0
  BY <1>1, <1>4
<1>6. m - 1 \in 0 .. n /\ m - 1 \notin D
  BY <1>0, <1>4, <1>5
<1> QED
  BY <1>1, <1>4, <1>5, <1>6

LEMMA NextRound ==
    ASSUME NEW R, NEW s \in Seq(R), NEW x, NEW h, Rounds(x, s, h), NEW z
    PROVE  \E g : Rounds(x, Append(s, z), g) /\ g[Len(Append(s, z))] = Combine(h[Len(s)], z)
<1> DEFINE t == Append(s, z)
           g == [i \in 0 .. Len(s) + 1 |-> IF i = Len(s) + 1 THEN Combine(h[Len(s)], z) ELSE h[i]]
<1>1. Len(s) \in Nat
  BY LenProperties
<1> DEFINE Q == R \cup {z}
<1>2. s \in Seq(Q) /\ z \in Q
  BY SeqDef, LenProperties, ElementOfSeq
<1> HIDE DEF Q
<1>3. Len(t) = Len(s) + 1 /\ t[Len(s) + 1] = z /\ \A i \in 1 .. Len(s) : t[i] = s[i]
  BY <1>2, AppendProperties
<1> HIDE DEF t
<1> DEFINE f == [i \in 0 .. Len(t) |-> IF i = 0 THEN x ELSE Combine(g[i - 1], t[i])]
<1>4. ASSUME NEW i \in 0 .. Len(s) + 1 PROVE g[i] = IF i = 0 THEN x ELSE Combine(g[i - 1], t[i])
  <2>1. CASE i = Len(s) + 1
    <3>1. i # 0 /\ i - 1 = Len(s) /\ Len(s) \in 0 .. Len(s) + 1 /\ Len(s) # Len(s) + 1
      BY <1>1, <2>1
    <3>2. g[i] = Combine(h[Len(s)], z) /\ g[Len(s)] = h[Len(s)]
      BY <2>1, <3>1
    <3> QED
      BY <1>3, <2>1, <3>1, <3>2
  <2>2. CASE i # Len(s) + 1
    <3>1. i \in 0 .. Len(s) /\ (i # 0 => i - 1 \in 0 .. Len(s) + 1 /\ i - 1 # Len(s) + 1 /\ i \in 1 .. Len(s))
      BY <1>1, <1>4, <2>2
    <3>2. g[i] = h[i] /\ (i # 0 => g[i - 1] = h[i - 1])
      BY <2>2, <3>1
    <3>3. h[i] = IF i = 0 THEN x ELSE Combine(h[i - 1], s[i])
      BY <3>1, RoundIs
    <3> QED
      BY <1>3, <3>1, <3>2, <3>3
  <2> QED
    BY <2>1, <2>2
<1>5. g = f
  BY <1>3, <1>4
<1>6. g[Len(t)] = Combine(h[Len(s)], z)
  BY <1>1, <1>3
<1>7. Rounds(x, t, g) /\ g[Len(t)] = Combine(h[Len(s)], z)
  BY <1>5, <1>6 DEF Rounds
<1> HIDE DEF g
<1> QED
  BY <1>7 DEF t

\* The rounds exist: if not, take a shortest copath without.
LEMMA RoundsExist ==
    ASSUME NEW R, NEW s \in Seq(R), NEW x
    PROVE  \E h : Rounds(x, s, h)
<1> DEFINE D == {n \in Nat : \E t \in Seq(R) : Len(t) = n /\ \A h : ~ Rounds(x, t, h)}
<1> SUFFICES ASSUME D # {} PROVE FALSE
  BY LenProperties
<1>1. D \subseteq Nat
  OBVIOUS
<1>2. Min(D) \in D /\ \A y \in D : Min(D) <= y
  BY <1>1, NatMin
<1>3. PICK t \in Seq(R) : Len(t) = Min(D) /\ \A h : ~ Rounds(x, t, h)
  BY <1>2
<1>4. Len(t) \in Nat /\ \A y \in D : Len(t) <= y
  BY <1>2, <1>3
<1>5. CASE Len(t) = 0
  <2> DEFINE h == [i \in 0 .. 0 |-> x]
  <2>1. h = [i \in 0 .. Len(t) |-> IF i = 0 THEN x ELSE Combine(h[i - 1], t[i])]
    BY <1>5
  <2> QED
    BY <1>3, <2>1 DEF Rounds
<1>6. CASE Len(t) # 0
  <2> DEFINE m == Len(t) - 1
             s1 == SubSeq(t, 1, m)
  <2>1. t # <<>> /\ m \in Nat /\ Len(t) = m + 1
    BY <1>4, <1>6
  <2>2. /\ s1 \in Seq(R) /\ Len(s1) = m /\ \A i \in 1 .. m : s1[i] = t[i]
    BY <2>1
  <2>3. t = Append(s1, t[Len(t)])
    <3>1. Append(s1, t[Len(t)]) \in Seq(R) /\ Len(Append(s1, t[Len(t)])) = Len(t)
          /\ \A i \in 1 .. Len(t) : Append(s1, t[Len(t)])[i] = t[i]
      <4>1. t[Len(t)] \in R
        BY <2>1, ElementOfSeq
      <4> HIDE DEF s1, m
      <4> QED
        BY <2>1, <2>2, <4>1, AppendProperties
    <3> HIDE DEF s1, m
    <3> QED
      BY <3>1, SeqEqual
  <2> HIDE DEF s1, m
  <2>4. m \notin D
    BY <1>4, <2>1
  <2>5. PICK h : Rounds(x, s1, h)
    <3> HIDE DEF D
    <3>1. m \in Nat /\ ~ (m \in D)
      BY <2>1, <2>4
    <3> QED
      BY <2>2, <3>1 DEF D
  <2>6. \E g : Rounds(x, Append(s1, t[Len(t)]), g)
    BY <2>2, <2>5, NextRound, Zenon
  <2> QED
    BY <1>3, <2>3, <2>6
<1> QED
  BY <1>5, <1>6

LEMMA RebuiltIs ==
    ASSUME NEW R, NEW s \in Seq(R), NEW x, NEW h, Rounds(x, s, h)
    PROVE  RebuildRootHash(x, s) = h[Len(s)]
<1> DEFINE c == CHOOSE g : g = [i \in 0 .. Len(s) |-> IF i = 0 THEN x ELSE Combine(g[i - 1], s[i])]
<1>1. c = [i \in 0 .. Len(s) |-> IF i = 0 THEN x ELSE Combine(c[i - 1], s[i])]
  BY DEF Rounds
<1>2. RebuildRootHash(x, s) = c[Len(s)]
  BY DEF RebuildRootHash
<1> HIDE DEF c
<1>3. Rounds(x, s, c) /\ Len(s) \in Nat
  BY <1>1, LenProperties DEF Rounds
<1>4. c[Len(s)] = h[Len(s)]
  BY <1>3, RoundsAgree, Zenon
<1> QED
  BY <1>2, <1>4

\* One more node on the copath is one more round.
LEMMA RebuildAppend ==
    ASSUME NEW R, NEW s \in Seq(R), NEW x, NEW z
    PROVE  /\ RebuildRootHash(x, <<>>) = x
           /\ RebuildRootHash(x, Append(s, z)) = Combine(RebuildRootHash(x, s), z)
<1>1. RebuildRootHash(x, <<>>) = x
  <2> DEFINE h == [i \in 0 .. 0 |-> x]
  <2>1. <<>> \in Seq(R) /\ Len(<<>>) = 0
    OBVIOUS
  <2>2. h = [i \in 0 .. 0 |-> IF i = 0 THEN x ELSE Combine(h[i - 1], <<>>[i])]
    OBVIOUS
  <2>3. Rounds(x, <<>>, h) /\ h[0] = x
    BY <2>1, <2>2 DEF Rounds
  <2> HIDE DEF h
  <2> QED
    BY <2>1, <2>3, RebuiltIs
<1>2. PICK h : Rounds(x, s, h)
  BY RoundsExist
<1>3. RebuildRootHash(x, s) = h[Len(s)]
  BY <1>2, RebuiltIs
<1>7. \E g : Rounds(x, Append(s, z), g) /\ g[Len(Append(s, z))] = Combine(h[Len(s)], z)
  BY <1>2, NextRound
<1> DEFINE t == Append(s, z)
<1> HIDE DEF t
<1>4. PICK g : Rounds(x, t, g) /\ g[Len(t)] = Combine(h[Len(s)], z)
  BY <1>7 DEF t
<1>5. t \in Seq(R \cup {z})
  <2> DEFINE Q == R \cup {z}
  <2>1. s \in Seq(Q) /\ z \in Q
    BY SeqDef, LenProperties, ElementOfSeq
  <2> HIDE DEF Q
  <2> QED
    BY <2>1, AppendProperties DEF Q, t
<1>6. RebuildRootHash(x, t) = g[Len(t)]
  BY <1>4, <1>5, RebuiltIs
<1> QED
  BY <1>1, <1>3, <1>4, <1>6 DEF t

-----------------------------------------------------------------------------
(* The inductive invariant of a request that no PrefixAppend disturbs *)

\* What a request knows of the appends since it began.
RequestFits ==
    /\ req.appends <= appends
    /\ req.quiet /\ req.appends = appends => wpc = "idle"
    /\ rpc = "idle" => copath = <<>> /\ copies = <<>>
    /\ rpc \in {"membership", "match"} \cup Climbing => req.kind = "membership"
    /\ rpc \in {"set", "extend", "verify"} => req.kind = "set"
    /\ req.kind = "membership" => req.key \in Keys

\* The hash of the leaf of the request.
LeafNow == LeafHash(nodes[req.leaf].partial, nodes[req.leaf].value)

\* The node on the other side of a node's parent.
SiblingOf(n) == ChildOf(nodes, nodes[n].parent, 1 - Head(nodes[n].partial))

\* What a round reads if nothing changes meanwhile, and how far it is.
CopathNode(n) ==
    [partial |-> nodes[nodes[n].parent].partial, other |-> HashAt(nodes, SiblingOf(n)),
     isLeft |-> n # nodes[nodes[n].parent].right]

RoundNow ==
    /\ rpc \in {"parent", "sibling", "parentAgain", "siblingAgain"} =>
           round.bit = Head(nodes[at].partial)
    /\ rpc \in {"sibling", "siblingAgain", "side", "prefix"} => round.up = nodes[at].parent
    /\ rpc \in {"again", "parentAgain", "siblingAgain"} => SiblingOf(at) # Nil
    /\ rpc = "hash" => round.sibling = SiblingOf(at)
    /\ rpc \in {"sideParent", "side", "prefixParent", "prefix"} => round.other = CopathNode(at).other
    /\ rpc \in {"prefixParent", "prefix"} => round.isLeft = CopathNode(at).isLeft
    /\ rpc = "value" => at = Root /\ round.partial = nodes[req.leaf].partial

\* getLeaf is at a node on the way to its key, and the copath hashes up to
\* the node that the climb is at, or at the end of a round to the next.
GetLeafFits ==
    /\ \E R : copath \in Seq(R)
    /\ rpc \in {"membership", "match"} => copath = <<>>
    /\ rpc = "membership" => bits = Len(nodes[at].key) /\ IsPrefix(nodes[at].key, req.key)
    /\ rpc = "match" =>
           LET up == nodes[at].parent
           IN  /\ bits = Len(nodes[up].key) /\ bits < Len(req.key)
               /\ IsPrefix(nodes[up].key, req.key)
               /\ at = ChildOf(nodes, up, req.key[bits + 1])
    /\ rpc \in Climbing =>
           /\ nodes[req.leaf].leaf /\ nodes[req.leaf].key = req.key
           /\ RebuildRootHash(LeafNow, copath)
                  = nodes[IF rpc = "up" THEN nodes[at].parent ELSE at].hash
           /\ RoundNow

\* The calls of ExtendSetCompletenessProof whose nodes have not been copied.
Waiting == IF rpc = "extend" THEN Range(Tail(pending)) ELSE Range(pending)

\* A copy whose cumulative prefix has been read.
IsRead(i) == i \in DOMAIN copies /\ (rpc = "extend" => i # Len(copies))

NoneCopied(i) == (\A b \in Bit : ChildOf(copies, i, b) = Nil) /\ \A c \in Waiting : c.parent # i

AllCopied(i, n) ==
    \A b \in Bit : \/ ChildOf(nodes, n, b) = Nil
                   \/ ChildOf(copies, i, b) # Nil
                   \/ \E c \in Waiting : c.parent = i /\ c.bit = b

\* A copy is one of a node as it is: a child that has been copied is linked
\* and has the child's hash and prefix, and either all children are copied or
\* wait for it, or none is and none does; they are if the node overlaps the
\* range.
IsCopyOf(i, n) ==
    /\ copies[i].partial = nodes[n].partial /\ copies[i].hash = nodes[n].hash
    /\ copies[i].prefix = nodes[n].key
    /\ \A b \in Bit : ChildOf(copies, i, b) # Nil =>
           /\ ChildOf(copies, i, b) \in DOMAIN copies /\ ChildOf(nodes, n, b) # Nil
           /\ copies[ChildOf(copies, i, b)].hash = nodes[ChildOf(nodes, n, b)].hash
           /\ copies[ChildOf(copies, i, b)].prefix = nodes[ChildOf(nodes, n, b)].key
    /\ \A c \in Waiting : c.parent = i => c.node = ChildOf(nodes, n, c.bit)
    /\ NoneCopied(i) \/ AllCopied(i, n)
    /\ IsRead(i) =>
           /\ copies[i].cumulative = nodes[n].key
           /\ DoesPrefixOverlapRange(req.range, nodes[n].key) => AllCopied(i, n)

CopyRecords(P) ==
    [partial : P, hash : P, prefix : P, cumulative : P, left : Nat, right : Nat]

CopiesFit ==
    /\ \E P : copies \in Seq(CopyRecords(P))
    /\ \A c \in Waiting : /\ c.node \in DOMAIN nodes
                          /\ \/ c.parent = Nil /\ c.node = Root
                             \/ c.parent \in DOMAIN copies /\ c.bit \in Bit
    /\ \A i \in DOMAIN copies : \E n \in DOMAIN nodes : IsCopyOf(i, n)
    /\ copies # <<>> => copies[1].hash = nodes[Root].hash /\ copies[1].prefix = nodes[Root].key
    /\ rpc = "extend" =>
           /\ copies # <<>> /\ IsCopyOf(Len(copies), Head(pending).node)
           /\ \A b \in Bit : ChildOf(copies, Len(copies), b) = Nil
           /\ \A c \in Waiting : c.parent # Len(copies)
           /\ CumulativeAbove(Head(pending)) \o nodes[Head(pending).node].partial
                  = nodes[Head(pending).node].key
    /\ rpc = "verify" => copies # <<>> /\ pending = <<>>

RestFits ==
    /\ seen = nodes[Root].hash
    /\ GetLeafFits
    /\ rpc \in {"set", "extend", "verify"} => CopiesFit

QuietInv ==
    /\ RequestFits
    /\ Undisturbed => RestFits
    /\ UndisturbedIsRight

\* No request is undisturbed while PrefixAppend runs or after it ran.
LEMMA WriterDisturbs ==
    ASSUME TrieInv, RequestFits, WriterStep, UNCHANGED readerVars
    PROVE  RequestFits' /\ ~ Undisturbed'
<1>1. /\ rpc' = rpc /\ req' = req /\ copath' = copath /\ copies' = copies
  BY DEF readerVars
<1>2. appends \in Nat /\ req.appends \in Nat
  BY KeysAssumption DEF TrieInv, TreeInv, JobTypeOK, ReaderInv
<1>3. ASSUME NEW k \in Keys, NEW v \in Values, PrefixAppend(k, v)
      PROVE  req.appends <= appends' /\ req.appends # appends'
  BY <1>2, <1>3 DEF PrefixAppend, RequestFits
<1>4. ASSUME \A k \in Keys, v \in Values : ~ PrefixAppend(k, v)
      PROVE  appends' = appends /\ wpc # "idle"
  BY <1>4 DEF WriterStep, NextChild, AttachLeaf, SetValue, InsertParent, CutPrefix, SetParent,
              Link, RehashNode, UpdateHash
<1>5. req.appends <= appends' /\ ~ (req.quiet /\ req.appends = appends')
  BY <1>3, <1>4 DEF RequestFits
<1> QED
  BY <1>1, <1>5 DEF RequestFits, Undisturbed

-----------------------------------------------------------------------------
(* getLeaf and the copath in a tree at rest *)

\* The way to a prefix that was appended does not end early.
LEMMA WayToKey ==
    ASSUME TreeInv, wpc = "idle", NEW n \in DOMAIN nodes, NEW k \in Keys,
           IsPrefix(nodes[n].key, k), Len(nodes[n].key) < Len(k), content[k] # NoValue
    PROVE  LET c == ChildOf(nodes, n, k[Len(nodes[n].key) + 1])
           IN  c # Nil /\ IsPrefix(nodes[c].key, k)
<1>1. ~ Unstored(k) /\ ~ Moving
  BY DEF Unstored, Moving
<1>2. PICK l \in DOMAIN nodes : nodes[l].leaf /\ nodes[l].key = k
  BY <1>1 DEF TreeInv, ContentFits
<1>3. Below(n, l)
  BY <1>2 DEF Below
<1>4. NextOnWay(n, l) = ChildOf(nodes, n, k[Len(nodes[n].key) + 1])
  BY <1>1, <1>2 DEF NextOnWay
<1> QED
  BY <1>2, <1>3, <1>4 DEF TreeInv, Covers

\* A leaf has the value of its key and the hash the client computes.
LEMMA LeafAtRest ==
    ASSUME TreeInv, wpc = "idle", NEW n \in DOMAIN nodes, nodes[n].leaf
    PROVE  /\ nodes[n].value = content[nodes[n].key] /\ nodes[n].value # NoValue
           /\ LeafHash(nodes[n].partial, nodes[n].value) = nodes[n].hash
<1>1. nodes[n].value \in Values /\ ~ Unstored(nodes[n].key)
  BY DEF TreeInv, NodesFit, Unstored
<1>2. \A b \in Bit : ChildOf(nodes, n, b) = Nil
  BY DEF TreeInv, ChildrenFit, ChildFits
<1>3. nodes[n].left = Nil /\ nodes[n].right = Nil
  BY <1>2 DEF ChildOf, Bit
<1>4. nodes[n].hash = HashOfNode(nodes, n)
  BY DEF TreeInv, HashesFit, IsStale, Moving
<1>5. HashOfNode(nodes, n) = LeafHash(nodes[n].partial, nodes[n].value)
  BY <1>3 DEF HashOfNode, HashAt, LeafHash
<1> QED
  BY <1>1, <1>4, <1>5, KeysAssumption DEF TreeInv, ContentFits

LEMMA MiddleBits ==
    ASSUME NEW t \in Seq(Bit), NEW i \in Nat, NEW m \in Nat, i + m <= Len(t)
    PROVE  /\ SubSeq(t, i + 1, i + m) \in Seq(Bit) /\ Len(SubSeq(t, i + 1, i + m)) = m
           /\ \A x \in 1 .. m : SubSeq(t, i + 1, i + m)[x] = t[i + x]
<1> DEFINE u == SubSeq(t, i + 1, i + m)
<1>1. Len(t) \in Nat /\ i + 1 \in Int /\ i + m \in Int
  BY LenProperties
<1>2. i + 1 .. i + m \subseteq 1 .. Len(t)
  BY <1>1
<1>3. \A y \in i + 1 .. i + m : t[y] \in Bit
  BY <1>2, ElementOfSeq
<1>4. /\ u \in Seq(Bit) /\ Len(u) = IF i + 1 <= i + m THEN i + m - (i + 1) + 1 ELSE 0
      /\ \A x \in 1 .. i + m - (i + 1) + 1 : u[x] = t[(i + 1) + x - 1]
  BY <1>1, <1>3, SubSeqProperties
<1>5. i + m - (i + 1) + 1 = m /\ (IF i + 1 <= i + m THEN i + m - (i + 1) + 1 ELSE 0) = m
      /\ \A x \in 1 .. m : (i + 1) + x - 1 = i + x
  OBVIOUS
<1> HIDE DEF u
<1>6. u \in Seq(Bit) /\ Len(u) = m /\ \A x \in 1 .. m : u[x] = t[i + x]
  BY <1>4, <1>5
<1> QED
  BY <1>6 DEF u

\* The child's prefix leads to the key if its partial prefix matches.
LEMMA MatchIs ==
    ASSUME TreeInv, NEW n \in DOMAIN nodes, NEW b \in Bit, NEW c, c = ChildOf(nodes, n, b), c # Nil,
           NEW k \in Keys, IsPrefix(nodes[n].key, k)
    PROVE  LET i == Len(nodes[n].key)
           IN  SubSeq(k, i + 1, i + Len(nodes[c].partial)) = nodes[c].partial <=> IsPrefix(nodes[c].key, k)
<1> DEFINE i == Len(nodes[n].key)
           p == nodes[c].partial
           m == Len(nodes[c].partial)
           q == nodes[c].key
           u == SubSeq(k, i + 1, i + m)
<1>1. ChildFits(n, b, c)
  BY DEF TreeInv, ChildrenFit
<1>2. /\ c \in DOMAIN nodes \ {Root} /\ Len(q) = i + m /\ IsPrefix(nodes[n].key, q)
  BY <1>1 DEF ChildFits
<1>3. /\ i \in Nat /\ m \in Nat /\ p \in Seq(Bit) /\ q \in Seq(Bit) /\ k \in Seq(Bit) /\ Len(k) \in Nat
      /\ nodes[n].key \in Seq(Bit)
  BY <1>2, TypesOfTree
<1>4. Len(q) <= Len(k) /\ i + m <= Len(k)
  BY <1>2, KeysAreLongest
<1>5. \A x \in 1 .. m : p[x] = q[Len(q) - m + x]
  BY <1>2 DEF TreeInv, NodesFit
<1>6. \A x \in 1 .. i : nodes[n].key[x] = q[x] /\ nodes[n].key[x] = k[x]
  <2>1. PICK s : s = nodes[n].key /\ IsPrefix(s, q) /\ IsPrefix(s, k) /\ s \in Seq(Bit) /\ i = Len(s)
    BY <1>2, <1>3
  <2> HIDE DEF i, p, m, q
  <2>2. \A x \in 1 .. Len(s) : s[x] = q[x] /\ s[x] = k[x]
    BY <1>3, <2>1, PrefixBits
  <2> QED
    BY <2>1, <2>2
<1>8. m = Len(p)
  OBVIOUS
<1> HIDE DEF i, p, m, q
<1>7. u \in Seq(Bit) /\ Len(u) = m /\ \A x \in 1 .. m : u[x] = k[i + x]
  BY <1>3, <1>4, MiddleBits, Zenon
<1> HIDE DEF u
<1>9. \A x \in 1 .. m : p[x] = q[i + x]
  BY <1>2, <1>3, <1>5
<1>10. ASSUME u = p PROVE IsPrefix(q, k)
  <2>1. ASSUME NEW x \in 1 .. Len(q) PROVE q[x] = k[x]
    <3>1. CASE x <= i
      BY <1>3, <1>6, <3>1
    <3>2. CASE ~ (x <= i)
      <4>1. x - i \in 1 .. m /\ i + (x - i) = x
        BY <1>2, <1>3, <3>2
      <4> QED
        BY <1>7, <1>9, <1>10, <4>1
    <3> QED
      BY <3>1, <3>2
  <2> QED
    BY <1>3, <1>4, <2>1, PrefixIs
<1>11. ASSUME IsPrefix(q, k) PROVE u = p
  <2>1. ASSUME NEW x \in 1 .. m PROVE u[x] = p[x]
    <3>1. i + x \in 1 .. Len(q)
      BY <1>2, <1>3
    <3>2. q[i + x] = k[i + x]
      BY <1>3, <1>11, <3>1, PrefixBits
    <3> QED
      BY <1>7, <1>9, <3>2
  <2> QED
    BY <1>3, <1>7, <1>8, <2>1, SeqEqual
<1>12. u = p <=> IsPrefix(q, k)
  BY <1>10, <1>11
<1> QED
  BY <1>12 DEF i, p, m, q, u

\* A round of the client's hashing goes from a node's hash to its parent's.
LEMMA CombineUp ==
    ASSUME TreeInv, wpc = "idle", NEW n \in DOMAIN nodes \ {Root}
    PROVE  /\ nodes[n].parent \in DOMAIN nodes
           /\ Combine(nodes[n].hash, CopathNode(n)) = nodes[nodes[n].parent].hash
<1> DEFINE up == nodes[n].parent
           b == nodes[n].partial[1]
<1>1. ~ Moving
  BY DEF Moving
<1>2. up \in DOMAIN nodes /\ Head(nodes[n].partial) = b /\ b \in Bit /\ n # Nil
  <2>1. up \in DOMAIN nodes /\ Len(nodes[n].partial) > 0 /\ n # Nil
    BY TypesOfTree DEF TreeInv, NodesFit
  <2>2. nodes[n].partial \in Seq(Bit) /\ Len(nodes[n].partial) \in Nat
    BY TypesOfTree
  <2>3. 1 \in 1 .. Len(nodes[n].partial)
    BY <2>1, <2>2
  <2>4. b \in Bit
    BY <2>2, <2>3, ElementOfSeq
  <2> QED
    BY <2>1, <2>2, <2>4
<1>3. ChildOf(nodes, up, b) = n
  BY <1>1 DEF TreeInv, EachIsAChild
<1> HIDE DEF up, b
<1>4. ~ nodes[up].leaf /\ nodes[up].value = NoValue
  <2>1. ChildFits(up, b, n)
    BY <1>2, <1>3 DEF TreeInv, ChildrenFit
  <2> QED
    BY <1>2, <2>1 DEF ChildFits, TreeInv, NodesFit
<1>5. ChildOf(nodes, up, 1 - b) # n
  <2> SUFFICES ASSUME ChildOf(nodes, up, 1 - b) = n PROVE FALSE
    OBVIOUS
  <2>1. 1 - b \in Bit /\ 1 - b # b
    BY <1>2 DEF Bit
  <2>2. ChildFits(up, b, n) /\ ChildFits(up, 1 - b, n)
    BY <1>2, <1>3, <2>1 DEF TreeInv, ChildrenFit
  <2> QED
    BY <2>1, <2>2 DEF ChildFits
<1>6. nodes[up].hash = HashOfNode(nodes, up)
  BY <1>2 DEF TreeInv, HashesFit, IsStale, Moving
<1>7. CopathNode(n) = [partial |-> nodes[up].partial, other |-> HashAt(nodes, ChildOf(nodes, up, 1 - b)),
                       isLeft |-> n # nodes[up].right]
  BY <1>2 DEF CopathNode, SiblingOf, up
<1>8. HashAt(nodes, n) = nodes[n].hash
  BY <1>2 DEF HashAt
<1> DEFINE node == CopathNode(n)
<1>11. /\ node.partial = nodes[up].partial /\ node.other = HashAt(nodes, ChildOf(nodes, up, 1 - b))
       /\ node.isLeft = (n # nodes[up].right)
  BY <1>7
<1> HIDE DEF node
<1>9. CASE b = 0
  <2>1. nodes[up].left = n /\ nodes[up].right # n /\ ChildOf(nodes, up, 1 - b) = nodes[up].right
    BY <1>3, <1>5, <1>9 DEF ChildOf
  <2> QED
    BY <1>2, <1>4, <1>6, <1>8, <1>11, <2>1 DEF Combine, HashOfNode, up, node
<1>10. CASE b = 1
  <2>1. nodes[up].right = n /\ ChildOf(nodes, up, 1 - b) = nodes[up].left
    BY <1>3, <1>10 DEF ChildOf
  <2> QED
    BY <1>2, <1>4, <1>6, <1>8, <1>11, <2>1 DEF Combine, HashOfNode, up, node
<1> QED
  BY <1>2, <1>9, <1>10 DEF Bit

LEMMA EmptyPrefix == \A s \in Seq(Bit) : Len(<<>>) = 0 /\ IsPrefix(<<>>, s)
<1> TAKE s \in Seq(Bit)
<1>1. Len(s) \in Nat
  BY LenProperties
<1> DEFINE e == <<>>
<1>2. e \in Seq(Bit) /\ Len(e) = 0
  OBVIOUS
<1> HIDE DEF e
<1>3. Len(e) <= Len(s) /\ \A x \in 1 .. Len(e) : e[x] = s[x]
  BY <1>1, <1>2
<1>4. IsPrefix(e, s)
  BY <1>2, <1>3, PrefixIs
<1> QED
  BY <1>2, <1>4 DEF e

-----------------------------------------------------------------------------
(* Requests for a membership proof *)

LEMMA AskMembershipQuiet ==
    ASSUME TrieInv, QuietInv, NEW k \in Keys, AskMembership(k), UNCHANGED treeVars
    PROVE  QuietInv'
<1>1. /\ nodes' = nodes /\ wpc' = wpc /\ appends' = appends /\ content' = content
      /\ rpc = "idle" /\ rpc' = "membership" /\ at' = Root /\ bits' = 0
      /\ seen' = nodes[Root].hash /\ copath' = copath /\ copies' = copies
      /\ req' = [NoRequest EXCEPT !.kind = "membership", !.key = k, !.range = <<>>,
                                  !.appends = appends, !.quiet = wpc = "idle"]
      /\ rpc' \notin Climbing
  BY DEF AskMembership, Ask, treeVars, Climbing, InRound
<1>2. req'.key = k /\ req'.kind = "membership" /\ req'.appends = appends /\ req'.quiet = (wpc = "idle")
  BY <1>1 DEF NoRequest
<1>3. RequestFits'
  <2>1. appends <= appends
    BY KeysAssumption DEF TrieInv, TreeInv, JobTypeOK
  <2> QED
    BY <1>1, <1>2, <2>1 DEF RequestFits
<1>4. GetLeafFits'
  <2>1. copath' = <<>>
    BY <1>1 DEF QuietInv, RequestFits
  <2>2. <<>> \in Seq({})
    OBVIOUS
  <2>3. nodes[Root].key = <<>> /\ k \in Seq(Bit)
    BY TypesOfTree DEF TrieInv, TreeInv, NodesFit
  <2>4. Len(nodes'[at'].key) = 0 /\ IsPrefix(nodes'[at'].key, k)
    BY <1>1, <2>3, EmptyPrefix
  <2> QED
    BY <1>1, <1>2, <2>1, <2>2, <2>4 DEF GetLeafFits
<1> QED
  BY <1>1, <1>3, <1>4 DEF QuietInv, RestFits, UndisturbedIsRight

LEMMA DescendQuiet ==
    ASSUME TrieInv, QuietInv, Descend, UNCHANGED treeVars
    PROVE  QuietInv'
<1> DEFINE k == req.key
           c == ChildOf(nodes, at, k[bits + 1])
<1>1. /\ nodes' = nodes /\ wpc' = wpc /\ appends' = appends /\ content' = content
      /\ rpc = "membership" /\ req' = req /\ seen' = seen /\ bits' = bits
      /\ copath' = copath /\ copies' = copies
      /\ \/ c = Nil /\ rpc' = "done" /\ answer' = [status |-> "notFound"]
         \/ c # Nil /\ rpc' = "match" /\ at' = c
      /\ rpc' \notin Climbing
  BY DEF Descend, Reply, treeVars, Climbing, InRound
<1>2. TreeInv /\ at \in DOMAIN nodes /\ k \in Keys /\ bits < Len(k) /\ req.kind = "membership"
  BY <1>1 DEF TrieInv, ReaderInv, QuietInv, RequestFits
<1> HIDE DEF c
<1>3. RequestFits'
  BY <1>1, <1>2 DEF QuietInv, RequestFits
<1>4. ASSUME Undisturbed PROVE RestFits' /\ UndisturbedIsRight'
  <2>1. /\ wpc = "idle" /\ seen = nodes[Root].hash /\ (\E R : copath \in Seq(R)) /\ copath = <<>>
        /\ bits = Len(nodes[at].key) /\ IsPrefix(nodes[at].key, k)
    BY <1>1, <1>4 DEF Undisturbed, QuietInv, RestFits, GetLeafFits
  <2>2. CASE c = Nil /\ rpc' = "done" /\ answer' = [status |-> "notFound"]
    <3>1. content[k] = NoValue
      BY <1>2, <2>1, <2>2, WayToKey DEF c
    <3>2. GetLeafFits'
      BY <1>1, <2>1, <2>2 DEF GetLeafFits
    <3> QED
      BY <1>1, <1>2, <2>1, <2>2, <3>1, <3>2 DEF RestFits, UndisturbedIsRight
  <2>3. CASE c # Nil /\ rpc' = "match" /\ at' = c
    <3>1. k[bits + 1] \in Bit
      BY <1>2, <2>1, TypesOfTree, ElementOfSeq
    <3>2. nodes[c].parent = at
      BY <1>2, <2>3, <3>1 DEF TreeInv, ChildrenFit, ChildFits, c
    <3>3. c = ChildOf(nodes, at, k[bits + 1])
      BY DEF c
    <3>4. GetLeafFits'
      BY <1>1, <1>2, <2>1, <2>3, <3>2, <3>3 DEF GetLeafFits, ChildOf
    <3> QED
      BY <1>1, <2>1, <2>3, <3>4 DEF RestFits, UndisturbedIsRight
  <2> QED
    BY <1>1, <2>2, <2>3
<1> QED
  BY <1>1, <1>3, <1>4 DEF QuietInv, Undisturbed, UndisturbedIsRight

LEMMA MatchQuiet ==
    ASSUME TrieInv, QuietInv, Match, UNCHANGED treeVars
    PROVE  QuietInv'
<1> DEFINE k == req.key
           n == Len(nodes[at].partial)
           same == SubSeq(k, bits + 1, bits + n) = nodes[at].partial
<1>1. /\ nodes' = nodes /\ wpc' = wpc /\ appends' = appends /\ content' = content
      /\ rpc = "match" /\ at' = at /\ seen' = seen /\ copath' = copath /\ copies' = copies
      /\ \/ ~ same /\ rpc' = "done" /\ answer' = [status |-> "notFound"] /\ req' = req
         \/ /\ same /\ bits' = bits + n
            /\ \/ bits + n < Len(k) /\ rpc' = "membership" /\ req' = req
               \/ /\ ~ (bits + n < Len(k)) /\ nodes[at].leaf /\ rpc' = "climb"
                  /\ req' = [req EXCEPT !.leaf = at]
               \/ ~ (bits + n < Len(k)) /\ ~ nodes[at].leaf /\ rpc' = "done" /\ req' = req
                  /\ answer' = [status |-> "panic"]
  BY DEF Match, Reply, treeVars
<1>2. TreeInv /\ at \in DOMAIN nodes \ {Root} /\ k \in Keys /\ req.kind = "membership"
  BY <1>1 DEF TrieInv, ReaderInv, QuietInv, RequestFits
<1>3. /\ req'.appends = req.appends /\ req'.quiet = req.quiet /\ req'.kind = req.kind /\ req'.key = k
      /\ rpc' = "climb" => req'.leaf = at
  BY <1>1 DEF TrieInv, ReaderInv
<1>4. answer'.status # "panic"
  <2>1. ReaderInv'
    BY ReaderKeeps DEF TrieInv, ReaderStep
  <2> QED
    BY <2>1 DEF ReaderInv
<1>5. RequestFits'
  BY <1>1, <1>2, <1>3 DEF QuietInv, RequestFits
<1> HIDE DEF same
<1>6. ASSUME Undisturbed PROVE RestFits' /\ UndisturbedIsRight'
  <2> DEFINE up == nodes[at].parent
             b == k[bits + 1]
  <2>1. /\ wpc = "idle" /\ seen = nodes[Root].hash /\ (\E R : copath \in Seq(R)) /\ copath = <<>>
        /\ bits = Len(nodes[up].key) /\ bits < Len(k) /\ IsPrefix(nodes[up].key, k)
        /\ at = ChildOf(nodes, up, b)
    BY <1>1, <1>6 DEF Undisturbed, QuietInv, RestFits, GetLeafFits
  <2>2. up \in DOMAIN nodes /\ at # Nil
    BY <1>2, TypesOfTree DEF TreeInv, NodesFit
  <2>3. k \in Seq(Bit) /\ Len(k) \in Nat /\ bits \in Nat /\ b \in Bit
    BY <1>2, <2>1, <2>2, TypesOfTree, ElementOfSeq
  <2>4. Len(nodes[at].key) = bits + n /\ nodes[at].key \in Seq(Bit)
    BY <1>2, <2>1, <2>2, <2>3, ChildFound, TypesOfTree
  <2>5. same <=> IsPrefix(nodes[at].key, k)
    <3> HIDE DEF k
    <3> QED
      BY <1>2, <2>1, <2>2, <2>3, MatchIs DEF same
  <2>6. CASE ~ same /\ rpc' = "done" /\ answer' = [status |-> "notFound"] /\ req' = req
    <3>1. content[k] = NoValue
      BY <1>2, <2>1, <2>2, <2>5, <2>6, WayToKey
    <3>2. GetLeafFits'
      BY <1>1, <2>1, <2>6 DEF GetLeafFits, Climbing, InRound
    <3> QED
      BY <1>1, <1>2, <2>1, <2>6, <3>1, <3>2 DEF RestFits, UndisturbedIsRight
  <2>7. CASE same /\ bits' = bits + n /\ bits + n < Len(k) /\ rpc' = "membership" /\ req' = req
    <3>1. GetLeafFits'
      BY <1>1, <2>1, <2>4, <2>5, <2>7 DEF GetLeafFits, Climbing, InRound
    <3> QED
      BY <1>1, <2>1, <2>7, <3>1 DEF RestFits, UndisturbedIsRight
  <2>8. CASE same /\ ~ (bits + n < Len(k)) /\ nodes[at].leaf /\ rpc' = "climb"
    <3>1. nodes[at].key \in Keys /\ Len(nodes[at].key) = Len(k)
      BY <1>2, <2>8, KeysAreLongest DEF TreeInv, NodesFit
    <3>2. nodes[at].key = k
      BY <2>3, <2>4, <2>5, <2>8, <3>1, PrefixBits
    <3> DEFINE h == LeafHash(nodes[at].partial, nodes[at].value)
    <3>3. RebuildRootHash(h, <<>>) = nodes[at].hash
      <4>1. h = nodes[at].hash
        BY <1>2, <2>1, <2>8, LeafAtRest
      <4>2. <<>> \in Seq({})
        OBVIOUS
      <4> HIDE DEF h
      <4> QED
        BY <4>1, <4>2, RebuildAppend
    <3>4. (\E R : copath' \in Seq(R)) /\ copath' = <<>>
      BY <1>1, <2>1
    <3>5. /\ nodes'[req'.leaf].leaf /\ nodes'[req'.leaf].key = req'.key
          /\ RebuildRootHash(LeafNow, copath)' = nodes'[at'].hash
      BY <1>1, <1>3, <2>8, <3>2, <3>3, <3>4 DEF LeafNow
    <3>7. RoundNow'
      BY <2>8 DEF RoundNow
    <3>6. GetLeafFits'
      BY <2>8, <3>4, <3>5, <3>7 DEF GetLeafFits, Climbing, InRound
    <3> QED
      BY <1>1, <2>1, <2>8, <3>6 DEF RestFits, UndisturbedIsRight
  <2> QED
    BY <1>1, <1>4, <2>6, <2>7, <2>8
<1> QED
  BY <1>1, <1>3, <1>5, <1>6 DEF QuietInv, Undisturbed, UndisturbedIsRight

\* A read within a round, or of the leaf's partial prefix.
LEMMA ReadQuiet ==
    ASSUME nodes' = nodes, req' = req, copath' = copath, at' = at, GetLeafFits,
           rpc \in Climbing, rpc # "up", rpc' \in Climbing, rpc' # "up", RoundNow'
    PROVE  GetLeafFits'
<1>1. rpc' \notin {"membership", "match"}
  BY DEF Climbing, InRound
<1>2. LeafNow' = LeafNow
  BY DEF LeafNow
<1>3. RebuildRootHash(LeafNow, copath)' = RebuildRootHash(LeafNow, copath)
  BY <1>2 DEF RebuildRootHash
<1> QED
  BY <1>1, <1>3 DEF GetLeafFits

LEMMA BuildCopathQuiet ==
    ASSUME TrieInv, wpc = "idle", GetLeafFits, BuildCopath \/ ReadLeafPrefix, UNCHANGED treeVars
    PROVE  GetLeafFits' /\ rpc' \in Climbing
<1>1. nodes' = nodes
  BY DEF treeVars
<1>2. TreeInv /\ RoundFits /\ (rpc \in Climbing => at \in DOMAIN nodes) /\ (rpc \in InRound => at # Root)
  BY DEF TrieInv, ReaderInv
<1>3. round \in [bit : Bit, up : DOMAIN nodes \cup {Nil}, sibling : DOMAIN nodes \cup {Nil},
                 other : {round.other}, isLeft : {round.isLeft}, partial : {round.partial}]
  BY <1>2 DEF RoundFits
<1>4. rpc \in Climbing => RoundNow
  BY DEF GetLeafFits
<1>5. /\ CopathNode(at).other = HashAt(nodes, SiblingOf(at))
      /\ CopathNode(at).partial = nodes[nodes[at].parent].partial
      /\ CopathNode(at).isLeft = (at # nodes[nodes[at].parent].right)
  BY DEF CopathNode
<1>7. ASSUME at' = at PROVE CopathNode(at)' = CopathNode(at) /\ SiblingOf(at)' = SiblingOf(at)
  BY <1>1, <1>7 DEF CopathNode, SiblingOf, ChildOf, HashAt
<1>8. CASE ReadBit
  <2>1. /\ UNCHANGED <<req, copath>> /\ at' = at
        /\ rpc \in {"climb", "again"} /\ rpc' = IF rpc = "climb" THEN "parent" ELSE "parentAgain"
        /\ round' = [NoRound EXCEPT !.bit = Head(nodes[at].partial)]
    BY <1>8 DEF ReadBit, Read
  <2>2. RoundNow'
    BY <1>1, <1>4, <1>7, <2>1 DEF RoundNow, NoRound, Climbing, InRound
  <2> QED
    BY <1>1, <2>1, <2>2, ReadQuiet DEF Climbing, InRound
<1>9. CASE ReadParent
  <2>1. /\ UNCHANGED <<req, copath>> /\ at' = at
        /\ <<rpc, rpc'>> \in {<<"parent", "sibling">>, <<"parentAgain", "siblingAgain">>,
                              <<"sideParent", "side">>, <<"prefixParent", "prefix">>}
        /\ round' = [round EXCEPT !.up = nodes[at].parent]
    BY <1>9 DEF ReadParent, Read
  <2>2. /\ round'.bit = round.bit /\ round'.up = nodes[at].parent /\ round'.other = round.other
        /\ round'.isLeft = round.isLeft
    BY <1>3, <2>1
  <2>3. RoundNow'
    BY <1>1, <1>4, <1>7, <2>1, <2>2 DEF RoundNow, Climbing, InRound
  <2> QED
    BY <1>1, <2>1, <2>3, ReadQuiet DEF Climbing, InRound
<1>10. ASSUME rpc \in {"sibling", "siblingAgain"} PROVE Sibling = SiblingOf(at)
  BY <1>4, <1>10 DEF RoundNow, Climbing, InRound, Sibling, SiblingOf
<1>11. CASE ReadSibling
  <2>1. /\ UNCHANGED <<req, copath>> /\ at' = at
        /\ rpc = "sibling" /\ rpc' = IF Sibling = Nil THEN "sideParent" ELSE "again"
        /\ round' = NoRound
    BY <1>11 DEF ReadSibling, Read
  <2>2. Sibling = Nil => CopathNode(at).other = NilHash
    BY <1>5, <1>10, <2>1 DEF HashAt
  <2> HIDE DEF Sibling
  <2>3. RoundNow'
    BY <1>1, <1>7, <1>10, <2>1, <2>2 DEF RoundNow, NoRound
  <2> QED
    BY <1>1, <2>1, <2>3, ReadQuiet DEF Climbing, InRound
<1>12. CASE ReadSiblingAgain
  <2>1. Sibling # Nil
    <3>1. rpc = "siblingAgain"
      BY <1>12 DEF ReadSiblingAgain
    <3> QED
      BY <1>4, <1>10, <3>1 DEF RoundNow, Climbing, InRound
  <2>2. /\ UNCHANGED <<req, copath>> /\ at' = at /\ rpc = "siblingAgain"
        /\ rpc' = "hash" /\ round' = [NoRound EXCEPT !.sibling = Sibling]
    BY <1>12, <2>1 DEF ReadSiblingAgain
  <2> HIDE DEF Sibling
  <2>3. RoundNow'
    BY <1>1, <1>7, <1>10, <2>2 DEF RoundNow, NoRound
  <2> QED
    BY <1>1, <2>2, <2>3, ReadQuiet DEF Climbing, InRound
<1>13. CASE ReadHash
  <2>1. /\ UNCHANGED <<req, copath>> /\ at' = at /\ rpc = "hash" /\ rpc' = "sideParent"
        /\ round' = [NoRound EXCEPT !.other = nodes[round.sibling].hash]
    BY <1>13 DEF ReadHash, Read
  <2>2. round.sibling # Nil /\ round.sibling = SiblingOf(at)
    BY <1>2, <1>4, <2>1 DEF RoundFits, RoundNow, Climbing, InRound
  <2>3. nodes[round.sibling].hash = CopathNode(at).other
    BY <1>5, <2>2 DEF HashAt
  <2>4. RoundNow'
    BY <1>1, <1>7, <2>1, <2>3 DEF RoundNow, NoRound
  <2> QED
    BY <1>1, <2>1, <2>4, ReadQuiet DEF Climbing, InRound
<1>14. CASE ReadSide
  <2>1. /\ UNCHANGED <<req, copath>> /\ at' = at /\ rpc = "side" /\ rpc' = "prefixParent"
        /\ round' = [round EXCEPT !.up = Nil, !.isLeft = at # nodes[round.up].right]
    BY <1>14 DEF ReadSide, Read
  <2>2. round.up = nodes[at].parent /\ round.other = CopathNode(at).other
    BY <1>4, <2>1 DEF RoundNow, Climbing, InRound
  <2>3. round'.other = CopathNode(at).other /\ round'.isLeft = CopathNode(at).isLeft
    BY <1>3, <1>5, <2>1, <2>2
  <2>4. RoundNow'
    BY <1>1, <1>7, <2>1, <2>3 DEF RoundNow
  <2> QED
    BY <1>1, <2>1, <2>4, ReadQuiet DEF Climbing, InRound
<1>15. CASE ReadPrefix
  <2> DEFINE node == CopathNode(at)
  <2>1. /\ UNCHANGED req /\ at' = at /\ rpc = "prefix" /\ rpc' = "up" /\ round' = NoRound
        /\ copath' = Append(copath, [partial |-> nodes[round.up].partial, other |-> round.other,
                                     isLeft |-> round.isLeft])
    BY <1>15 DEF ReadPrefix
  <2>2. round.up = nodes[at].parent /\ round.other = node.other /\ round.isLeft = node.isLeft
    BY <1>4, <2>1 DEF RoundNow, Climbing, InRound
  <2>3. copath' = Append(copath, node)
    BY <2>1, <2>2 DEF CopathNode
  <2>4. at \in DOMAIN nodes \ {Root}
    BY <1>2, <2>1 DEF Climbing, InRound
  <2>5. Combine(nodes[at].hash, node) = nodes[nodes[at].parent].hash
    BY <1>2, <2>4, CombineUp
  <2> HIDE DEF node
  <2>6. PICK R : copath \in Seq(R)
    BY DEF GetLeafFits
  <2>7. RebuildRootHash(LeafNow, copath) = nodes[at].hash /\ nodes[req.leaf].leaf
        /\ nodes[req.leaf].key = req.key
    BY <2>1 DEF GetLeafFits, Climbing, InRound
  <2>8. LeafNow' = LeafNow
    BY <1>1, <2>1 DEF LeafNow
  <2> HIDE DEF LeafNow
  <2>9. RebuildRootHash(LeafNow, Append(copath, node)) = nodes[nodes[at].parent].hash
    BY <2>5, <2>6, <2>7, RebuildAppend
  <2>10. RebuildRootHash(LeafNow, copath)' = RebuildRootHash(LeafNow, Append(copath, node))
    BY <2>3, <2>8 DEF RebuildRootHash
  <2>11. \E Q : Append(copath, node) \in Seq(Q)
    <3> DEFINE Q == R \cup {node}
    <3>1. copath \in Seq(Q) /\ node \in Q
      BY <2>6, SeqDef, LenProperties, ElementOfSeq
    <3> HIDE DEF Q
    <3> QED
      BY <3>1, AppendProperties
  <2>12. RoundNow'
    BY <2>1 DEF RoundNow
  <2> QED
    BY <1>1, <2>1, <2>3, <2>7, <2>9, <2>10, <2>11, <2>12 DEF GetLeafFits, Climbing, InRound
<1>16. CASE Climb
  <2>1. UNCHANGED <<req, copath>> /\ at' = nodes[at].parent /\ rpc = "up" /\ rpc' = "climb"
    BY <1>16 DEF Climb
  <2>2. LeafNow' = LeafNow
    BY <1>1, <2>1 DEF LeafNow
  <2>3. RebuildRootHash(LeafNow, copath)' = RebuildRootHash(LeafNow, copath)
    BY <2>1, <2>2 DEF RebuildRootHash
  <2>4. RoundNow'
    BY <2>1 DEF RoundNow
  <2> QED
    BY <1>1, <2>1, <2>3, <2>4 DEF GetLeafFits, Climbing, InRound
<1>17. CASE ReadLeafPrefix
  <2>1. /\ UNCHANGED <<req, copath>> /\ at' = at /\ at = Root /\ rpc = "climb" /\ rpc' = "value"
        /\ round' = [NoRound EXCEPT !.partial = nodes[req.leaf].partial]
    BY <1>17 DEF ReadLeafPrefix, Read
  <2>2. RoundNow'
    BY <1>1, <2>1 DEF RoundNow, NoRound
  <2> QED
    BY <1>1, <2>1, <2>2, ReadQuiet DEF Climbing, InRound
<1> QED
  BY <1>8, <1>9, <1>11, <1>12, <1>13, <1>14, <1>15, <1>16, <1>17 DEF BuildCopath

\* What the steps of a client on its way up leave alone.
LEMMA ClimbingOnly ==
    ASSUME BuildCopath \/ ReadLeafPrefix \/ VerifyMembership
    PROVE  /\ rpc \in Climbing /\ rpc' \in Climbing \cup {"done"}
           /\ req' = req /\ seen' = seen /\ bits' = bits /\ copies' = copies /\ pending' = pending
<1>1. ReadBit \/ ReadParent => UNCHANGED <<req, seen, bits, copies, pending>>
      /\ rpc \in Climbing /\ rpc' \in Climbing
  BY DEF ReadBit, ReadParent, Read, Climbing, InRound
<1>2. ReadSibling \/ ReadSiblingAgain \/ ReadHash => UNCHANGED <<req, seen, bits, copies, pending>>
      /\ rpc \in Climbing /\ rpc' \in Climbing \cup {"done"}
  BY DEF ReadSibling, ReadSiblingAgain, ReadHash, Read, Reply, Climbing, InRound
<1>3. ReadSide \/ ReadPrefix \/ Climb => UNCHANGED <<req, seen, bits, copies, pending>>
      /\ rpc \in Climbing /\ rpc' \in Climbing
  BY DEF ReadSide, ReadPrefix, Climb, Read, Climbing, InRound
<1>4. ReadLeafPrefix \/ VerifyMembership => UNCHANGED <<req, seen, bits, copies, pending>>
      /\ rpc \in Climbing /\ rpc' \in Climbing \cup {"done"}
  BY DEF ReadLeafPrefix, VerifyMembership, Read, Reply, Climbing, InRound
<1> QED
  BY <1>1, <1>2, <1>3, <1>4 DEF BuildCopath

LEMMA ClimbQuiet ==
    ASSUME TrieInv, QuietInv, BuildCopath \/ ReadLeafPrefix \/ VerifyMembership, UNCHANGED treeVars
    PROVE  QuietInv'
<1> DEFINE l == req.leaf
<1>1. /\ nodes' = nodes /\ wpc' = wpc /\ appends' = appends /\ content' = content
      /\ req' = req /\ seen' = seen /\ copies' = copies
      /\ rpc \in Climbing /\ rpc' \in Climbing \cup {"done"}
  BY ClimbingOnly DEF treeVars
<1>2. /\ req.kind = "membership" /\ req.key \in Keys /\ at \in DOMAIN nodes /\ l \in DOMAIN nodes
      /\ rpc' \notin {"idle", "membership", "match", "set", "extend", "verify"}
  BY <1>1 DEF TrieInv, ReaderInv, QuietInv, RequestFits, Climbing, InRound
<1>3. RequestFits'
  BY <1>1, <1>2 DEF QuietInv, RequestFits
<1>4. ASSUME Undisturbed PROVE RestFits' /\ UndisturbedIsRight'
  <2>1. /\ wpc = "idle" /\ seen = nodes[Root].hash /\ GetLeafFits /\ nodes[l].leaf
        /\ nodes[l].key = req.key
    BY <1>1, <1>4 DEF Undisturbed, QuietInv, RestFits, GetLeafFits
  <2>2. CASE BuildCopath \/ ReadLeafPrefix
    <3>1. GetLeafFits' /\ rpc' # "done"
      BY <2>1, <2>2, BuildCopathQuiet DEF Climbing, InRound
    <3> QED
      BY <1>1, <1>2, <2>1, <3>1 DEF RestFits, UndisturbedIsRight
  <2>3. CASE VerifyMembership
    <3> DEFINE h == RebuildRootHash(LeafHash(round.partial, nodes[l].value), copath)
    <3>1. /\ rpc = "value" /\ rpc' = "done" /\ copath' = copath
          /\ answer' = [status |-> IF h = seen THEN "verified" ELSE "rejected", value |-> nodes[l].value]
      BY <2>3 DEF VerifyMembership, Reply
    <3>2. round.partial = nodes[l].partial /\ at = Root
          /\ RebuildRootHash(LeafNow, copath) = nodes[at].hash
      BY <2>1, <3>1 DEF GetLeafFits, RoundNow, Climbing, InRound
    <3>3. h = seen
      BY <2>1, <3>2 DEF LeafNow
    <3> HIDE DEF h
    <3>4. nodes[l].value = content[req.key] /\ content[req.key] # NoValue
      BY <1>2, <2>1, LeafAtRest DEF TrieInv
    <3>5. GetLeafFits'
      <4>1. rpc' \notin Climbing
        BY <3>1 DEF Climbing, InRound
      <4> QED
        BY <1>2, <2>1, <3>1, <4>1 DEF GetLeafFits
    <3>6. answer' = [status |-> "verified", value |-> content[req.key]]
      BY <3>1, <3>3, <3>4
    <3> QED
      BY <1>1, <1>2, <2>1, <3>1, <3>4, <3>5, <3>6 DEF RestFits, UndisturbedIsRight
  <2> QED
    BY <2>2, <2>3
<1> QED
  BY <1>1, <1>3, <1>4 DEF QuietInv, Undisturbed, UndisturbedIsRight

-----------------------------------------------------------------------------
(* Requests for a set completeness proof *)

LEMMA RangeOfTail ==
    ASSUME NEW R, NEW s \in Seq(R), s # <<>>, NEW t, t = Tail(s)
    PROVE  Range(s) = {Head(s)} \cup Range(t)
<1>1. /\ Len(s) \in Nat /\ Len(s) > 0 /\ DOMAIN s = 1 .. Len(s) /\ Head(s) = s[1]
      /\ Len(t) = Len(s) - 1 /\ DOMAIN t = 1 .. Len(t)
      /\ \A i \in 1 .. Len(t) : t[i] = s[i + 1]
  OBVIOUS
<1>2. ASSUME NEW x \in Range(s) PROVE x \in {Head(s)} \cup Range(t)
  <2>1. PICK i \in DOMAIN s : x = s[i]
    BY DEF Range
  <2>2. i # 1 => i - 1 \in 1 .. Len(t) /\ t[i - 1] = s[i]
    BY <1>1
  <2> QED
    BY <1>1, <2>1, <2>2 DEF Range
<1>3. ASSUME NEW x \in {Head(s)} \cup Range(t) PROVE x \in Range(s)
  <2>1. CASE x = Head(s)
    <3>1. 1 \in DOMAIN s
      BY <1>1
    <3> QED
      BY <1>1, <2>1, <3>1 DEF Range
  <2>2. CASE x \in Range(t)
    <3>1. PICK i \in DOMAIN t : x = t[i]
      BY <2>2 DEF Range
    <3>2. i + 1 \in DOMAIN s /\ x = s[i + 1]
      BY <1>1, <3>1
    <3> QED
      BY <3>2 DEF Range
  <2> QED
    BY <2>1, <2>2
<1> QED
  BY <1>2, <1>3

LEMMA RangeOfJoin ==
    ASSUME NEW R, NEW S, NEW s \in Seq(R), NEW t \in Seq(S)
    PROVE  Range(s \o t) = Range(s) \cup Range(t)
<1> DEFINE Q == R \cup S
           u == s \o t
<1>1. s \in Seq(Q) /\ t \in Seq(Q)
  BY SeqDef, LenProperties, ElementOfSeq
<1> HIDE DEF Q
<1>2. /\ u \in Seq(Q) /\ Len(u) = Len(s) + Len(t)
      /\ \A i \in 1 .. Len(s) + Len(t) : u[i] = IF i <= Len(s) THEN s[i] ELSE t[i - Len(s)]
  BY <1>1, ConcatProperties
<1>3. Len(s) \in Nat /\ Len(t) \in Nat /\ DOMAIN s = 1 .. Len(s) /\ DOMAIN t = 1 .. Len(t)
      /\ DOMAIN u = 1 .. Len(s) + Len(t)
  BY <1>1, <1>2, LenProperties
<1> HIDE DEF u
<1>4. ASSUME NEW x \in Range(u) PROVE x \in Range(s) \cup Range(t)
  <2>1. PICK i \in DOMAIN u : x = u[i]
    BY DEF Range
  <2>2. CASE i <= Len(s)
    <3>1. i \in DOMAIN s /\ x = s[i]
      BY <1>2, <1>3, <2>1, <2>2
    <3> QED
      BY <3>1 DEF Range
  <2>3. CASE ~ (i <= Len(s))
    <3>1. i - Len(s) \in DOMAIN t /\ x = t[i - Len(s)]
      BY <1>2, <1>3, <2>1, <2>3
    <3> QED
      BY <3>1 DEF Range
  <2> QED
    BY <2>2, <2>3
<1>5. ASSUME NEW x \in Range(s) PROVE x \in Range(u)
  <2>1. PICK i \in DOMAIN s : x = s[i]
    BY DEF Range
  <2>2. i \in DOMAIN u /\ u[i] = x
    BY <1>2, <1>3, <2>1
  <2> QED
    BY <2>2 DEF Range
<1>6. ASSUME NEW x \in Range(t) PROVE x \in Range(u)
  <2>1. PICK i \in DOMAIN t : x = t[i]
    BY DEF Range
  <2> DEFINE j == Len(s) + i
  <2>2. j \in DOMAIN u /\ ~ (j <= Len(s)) /\ j - Len(s) = i
    BY <1>3, <2>1
  <2>3. u[j] = x
    BY <1>2, <1>3, <2>1, <2>2
  <2> QED
    BY <2>2, <2>3 DEF Range
<1> QED
  BY <1>4, <1>5, <1>6 DEF u

\* The calls for the children of a node.
CallsFor(n, copy) ==
    {[node |-> ChildOf(nodes, n, b), parent |-> copy, bit |-> b] :
        b \in {x \in Bit : ChildOf(nodes, n, x) # Nil}}

LEMMA ChildrenAre ==
    ASSUME NEW n, NEW copy
    PROVE  (\E R : Children(n, copy) \in Seq(R)) /\ Range(Children(n, copy)) = CallsFor(n, copy)
<1> DEFINE Rec(b) == [node |-> ChildOf(nodes, n, b), parent |-> copy, bit |-> b]
           Call(b) == IF ChildOf(nodes, n, b) = Nil THEN <<>> ELSE <<Rec(b)>>
<1>1. Children(n, copy) = Call(0) \o Call(1)
  BY DEF Children
<1>2. CallsFor(n, copy) = {Rec(b) : b \in {x \in Bit : ChildOf(nodes, n, x) # Nil}}
  BY DEF CallsFor
<1> HIDE DEF Rec
<1>3. ASSUME NEW b \in Bit
      PROVE  /\ Call(b) \in Seq({Rec(b)})
             /\ Range(Call(b)) = {Rec(x) : x \in {y \in {b} : ChildOf(nodes, n, y) # Nil}}
  <2>1. CASE ChildOf(nodes, n, b) = Nil
    BY <2>1 DEF Range
  <2>2. CASE ChildOf(nodes, n, b) # Nil
    <3>1. Call(b) = <<Rec(b)>>
      BY <2>2
    <3>2. <<Rec(b)>> \in Seq({Rec(b)}) /\ Range(<<Rec(b)>>) = {Rec(b)}
      BY DEF Range
    <3> QED
      BY <2>2, <3>1, <3>2
  <2> QED
    BY <2>1, <2>2
<1> HIDE DEF Call
<1>4. /\ Call(0) \in Seq({Rec(0)}) /\ Call(1) \in Seq({Rec(1)})
      /\ Range(Call(0)) = {Rec(x) : x \in {y \in {0} : ChildOf(nodes, n, y) # Nil}}
      /\ Range(Call(1)) = {Rec(x) : x \in {y \in {1} : ChildOf(nodes, n, y) # Nil}}
  BY <1>3 DEF Bit
<1>5. Range(Call(0) \o Call(1)) = Range(Call(0)) \cup Range(Call(1))
  BY <1>4, RangeOfJoin
<1>6. \E R : Call(0) \o Call(1) \in Seq(R)
  <2> DEFINE Q == {Rec(0)} \cup {Rec(1)}
  <2>1. Call(0) \in Seq(Q) /\ Call(1) \in Seq(Q)
    BY <1>4, SeqDef, LenProperties, ElementOfSeq
  <2> HIDE DEF Q
  <2> QED
    BY <2>1, ConcatProperties
<1> QED
  BY <1>1, <1>2, <1>4, <1>5, <1>6 DEF Bit

\* A copy that is added, and linked to the copy of the parent.
CopyAdded(g, call, r) ==
    /\ \E Q : g \in Seq(CopyRecords(Q))
    /\ Len(g) = Len(copies) + 1 /\ DOMAIN g = 1 .. Len(copies) + 1
    /\ g[Len(copies) + 1] = r
    /\ \A i \in DOMAIN copies :
           /\ g[i].partial = copies[i].partial /\ g[i].hash = copies[i].hash
           /\ g[i].prefix = copies[i].prefix /\ g[i].cumulative = copies[i].cumulative
           /\ \A b \in Bit : ChildOf(g, i, b) = IF i = call.parent /\ b = call.bit THEN Len(copies) + 1
                                                ELSE ChildOf(copies, i, b)

LEMMA CopyFields ==
    ASSUME NEW P, copies \in Seq(CopyRecords(P))
    PROVE  /\ Len(copies) \in Nat /\ DOMAIN copies = 1 .. Len(copies) /\ Nil \notin DOMAIN copies
           /\ \A i \in DOMAIN copies : copies[i] \in CopyRecords(P)
<1>1. Len(copies) \in Nat /\ DOMAIN copies = 1 .. Len(copies)
  BY LenProperties
<1> QED
  BY <1>1 DEF Nil

LEMMA AddCopy ==
    ASSUME NEW P, copies \in Seq(CopyRecords(P)), NEW r, r \in CopyRecords(P),
           NEW call, call.parent = Nil \/ (call.parent \in DOMAIN copies /\ call.bit \in Bit)
    PROVE  CopyAdded(Append(Linked(call, Len(copies) + 1), r), call, r)
<1> DEFINE L == Len(copies) + 1
           l == Linked(call, L)
           g == Append(l, r)
<1>1. /\ Len(copies) \in Nat /\ DOMAIN copies = 1 .. Len(copies) /\ Nil \notin DOMAIN copies
      /\ \A i \in DOMAIN copies : copies[i] \in CopyRecords(P)
  BY CopyFields
<1>2. L \in Nat
  BY <1>1
<1>3. /\ l \in Seq(CopyRecords(P)) /\ DOMAIN l = DOMAIN copies /\ Len(l) = Len(copies)
      /\ \A i \in DOMAIN copies :
             /\ l[i].partial = copies[i].partial /\ l[i].hash = copies[i].hash
             /\ l[i].prefix = copies[i].prefix /\ l[i].cumulative = copies[i].cumulative
             /\ \A b \in Bit : ChildOf(l, i, b) = IF i = call.parent /\ b = call.bit THEN L
                                                  ELSE ChildOf(copies, i, b)
  <2> HIDE DEF L
  <2>1. CASE call.parent = Nil
    <3>1. l = copies
      BY <2>1 DEF Linked
    <3> QED
      BY <1>1, <2>1, <3>1
  <2>2. ASSUME call.parent # Nil, call.parent \in DOMAIN copies, call.bit = 0
        PROVE  <1>3
    <3> DEFINE x == [copies[call.parent] EXCEPT !.left = L]
    <3>1. x \in CopyRecords(P) /\ l = [copies EXCEPT ![call.parent] = x]
      BY <1>1, <1>2, <2>2 DEF CopyRecords, Linked
    <3>2. copies[call.parent] \in CopyRecords(P)
      BY <1>1, <2>2
    <3>3. x.left = L /\ x.right = copies[call.parent].right /\ x.partial = copies[call.parent].partial
          /\ x.hash = copies[call.parent].hash /\ x.prefix = copies[call.parent].prefix
          /\ x.cumulative = copies[call.parent].cumulative
      BY <3>2 DEF CopyRecords
    <3> HIDE DEF x
    <3>4. /\ l \in Seq(CopyRecords(P)) /\ DOMAIN l = DOMAIN copies
          /\ \A m \in DOMAIN copies : l[m] = IF m = call.parent THEN x ELSE copies[m]
      BY <2>2, <3>1, StoreNode
    <3> HIDE DEF l
    <3>5. Len(l) = Len(copies)
      BY <1>1, <3>4, LenProperties
    <3> QED
      BY <2>2, <3>3, <3>4, <3>5 DEF ChildOf, Bit
  <2>3. ASSUME call.parent # Nil, call.parent \in DOMAIN copies, call.bit = 1
        PROVE  <1>3
    <3> DEFINE x == [copies[call.parent] EXCEPT !.right = L]
    <3>2. copies[call.parent] \in CopyRecords(P)
      BY <1>1, <2>3
    <3>6. x \in CopyRecords(P)
      BY <1>2, <3>2 DEF CopyRecords
    <3>1. x \in CopyRecords(P) /\ l = [copies EXCEPT ![call.parent] = x]
      BY <2>3, <3>6 DEF Linked
    <3>3. x.right = L /\ x.left = copies[call.parent].left /\ x.partial = copies[call.parent].partial
          /\ x.hash = copies[call.parent].hash /\ x.prefix = copies[call.parent].prefix
          /\ x.cumulative = copies[call.parent].cumulative
      BY <3>2 DEF CopyRecords
    <3> HIDE DEF x
    <3>4. /\ l \in Seq(CopyRecords(P)) /\ DOMAIN l = DOMAIN copies
          /\ \A m \in DOMAIN copies : l[m] = IF m = call.parent THEN x ELSE copies[m]
      BY <2>3, <3>1, StoreNode
    <3> HIDE DEF l
    <3>5. Len(l) = Len(copies)
      BY <1>1, <3>4, LenProperties
    <3> QED
      BY <2>3, <3>3, <3>4, <3>5 DEF ChildOf, Bit
  <2> QED
    BY <2>1, <2>2, <2>3 DEF Bit
<1> HIDE DEF l
<1>4. /\ g \in Seq(CopyRecords(P)) /\ Len(g) = L /\ g[L] = r
      /\ \A i \in DOMAIN copies : g[i] = l[i]
  BY <1>1, <1>3, AppendProperties
<1>5. DOMAIN g = 1 .. L
  BY <1>4, LenProperties
<1> HIDE DEF g
<1>6. ASSUME NEW i \in DOMAIN copies
      PROVE  /\ g[i].partial = copies[i].partial /\ g[i].hash = copies[i].hash
             /\ g[i].prefix = copies[i].prefix /\ g[i].cumulative = copies[i].cumulative
             /\ \A b \in Bit : ChildOf(g, i, b) = IF i = call.parent /\ b = call.bit THEN L
                                                  ELSE ChildOf(copies, i, b)
  <2>1. g[i] = l[i]
    BY <1>4
  <2>2. \A b \in Bit : ChildOf(g, i, b) = ChildOf(l, i, b)
    BY <2>1 DEF ChildOf
  <2> HIDE DEF l, L
  <2> QED
    BY <1>3, <2>1, <2>2
<1>7. CopyAdded(g, call, r)
  BY <1>4, <1>5, <1>6, Zenon DEF CopyAdded
<1> QED
  BY <1>7 DEF g, l

LEMMA AskSetQuiet ==
    ASSUME TrieInv, QuietInv, NEW rg \in SetRanges, AskSet(rg), UNCHANGED treeVars
    PROVE  QuietInv'
<1> DEFINE call == [node |-> Root, parent |-> Nil, bit |-> 0]
<1>1. /\ nodes' = nodes /\ wpc' = wpc /\ appends' = appends /\ content' = content
      /\ rpc = "idle" /\ rpc' = "set" /\ pending' = <<call>>
      /\ seen' = nodes[Root].hash /\ copath' = copath /\ copies' = copies
      /\ req' = [NoRequest EXCEPT !.kind = "set", !.key = <<>>, !.range = rg,
                                  !.appends = appends, !.quiet = wpc = "idle"]
  BY DEF AskSet, Ask, treeVars
<1>2. req'.kind = "set" /\ req'.appends = appends /\ req'.quiet = (wpc = "idle")
  BY <1>1 DEF NoRequest
<1>3. RequestFits'
  <2>1. appends <= appends
    BY KeysAssumption DEF TrieInv, TreeInv, JobTypeOK
  <2> QED
    BY <1>1, <1>2, <2>1 DEF RequestFits, Climbing, InRound
<1>4. copath' = <<>> /\ copies' = <<>>
  BY <1>1 DEF QuietInv, RequestFits, Climbing, InRound
<1>5. GetLeafFits'
  <2>1. <<>> \in Seq({})
    OBVIOUS
  <2> QED
    BY <1>1, <1>4, <2>1 DEF GetLeafFits, Climbing, InRound
<1>6. CopiesFit'
  <2>1. Waiting' = {call}
    <3>1. Waiting' = Range(<<call>>)
      BY <1>1 DEF Waiting
    <3> HIDE DEF call
    <3> QED
      BY <3>1 DEF Range
  <2>2. <<>> \in Seq(CopyRecords({})) /\ DOMAIN <<>> = {}
    OBVIOUS
  <2>3. Root \in DOMAIN nodes
    BY DEF TrieInv, TreeInv, NodesFit
  <2> QED
    BY <1>1, <1>4, <2>1, <2>2, <2>3 DEF CopiesFit
<1> QED
  BY <1>1, <1>3, <1>5, <1>6 DEF QuietInv, RestFits, UndisturbedIsRight

LEMMA KeyOfChild ==
    ASSUME TrieInv, wpc = "idle", NEW m \in DOMAIN nodes, NEW b \in Bit, NEW c,
           c = ChildOf(nodes, m, b), c # Nil
    PROVE  nodes[c].key = nodes[m].key \o nodes[c].partial
<1>1. IsTrieOf(nodes, content)
  BY TrieFollows DEF StaysTrie
<1>2. \A x \in DOMAIN nodes \ {Root} : nodes[x].key = nodes[nodes[x].parent].key \o nodes[x].partial
  BY <1>1, Zenon DEF IsTrieOf
<1>3. c \in DOMAIN nodes \ {Root} /\ nodes[c].parent = m
  BY <1>1 DEF IsTrieOf, Bit
<1> QED
  BY <1>2, <1>3, Zenon

\* The prefix of the node that is to be copied.
LEMMA KeyOfCall ==
    ASSUME TrieInv, wpc = "idle", CopiesFit, rpc = "set", NEW call, call = Head(pending)
    PROVE  /\ PrefixAbove(call) \o nodes[call.node].partial = nodes[call.node].key
           /\ CumulativeAbove(call) \o nodes[call.node].partial = nodes[call.node].key
<1>1. call \in Waiting
  <2>1. pending # <<>> /\ \E R : pending \in Seq(R)
    BY DEF TrieInv, ReaderInv
  <2> QED
    BY <2>1, RangeOfTail DEF Waiting
<1>2. /\ call.node \in DOMAIN nodes
      /\ \/ call.parent = Nil /\ call.node = Root
         \/ call.parent \in DOMAIN copies /\ call.bit \in Bit
  BY <1>1 DEF CopiesFit
<1>3. CASE call.parent = Nil /\ call.node = Root
  <2>1. nodes[Root].key = <<>> /\ nodes[Root].partial = <<>>
    <3>1. IsTrieOf(nodes, content)
      BY TrieFollows DEF StaysTrie
    <3> QED
      BY <3>1, Zenon DEF IsTrieOf
  <2>2. PrefixAbove(call) = <<>> /\ CumulativeAbove(call) = <<>> /\ <<>> \o <<>> = <<>>
    BY <1>3 DEF PrefixAbove, CumulativeAbove
  <2> QED
    BY <1>3, <2>1, <2>2
<1>4. CASE call.parent \in DOMAIN copies /\ call.bit \in Bit
  <2>1. PICK m \in DOMAIN nodes : IsCopyOf(call.parent, m)
    BY <1>4 DEF CopiesFit
  <2>2. call.node = ChildOf(nodes, m, call.bit)
    BY <1>1, <2>1 DEF IsCopyOf
  <2>3. copies[call.parent].prefix = nodes[m].key /\ copies[call.parent].cumulative = nodes[m].key
    BY <1>4, <2>1 DEF IsCopyOf, IsRead
  <2>4. call.node # Nil
    BY <1>2, TypesOfTree DEF TrieInv
  <2>5. nodes[call.node].key = nodes[m].key \o nodes[call.node].partial
    BY <1>4, <2>2, <2>4, KeyOfChild
  <2>6. call.parent # Nil
    <3>1. \E P : copies \in Seq(CopyRecords(P))
      BY DEF CopiesFit
    <3> QED
      BY <1>4, <3>1, CopyFields
  <2> QED
    BY <2>3, <2>5, <2>6 DEF PrefixAbove, CumulativeAbove
<1> QED
  BY <1>2, <1>3, <1>4

LEMMA CopyNodeQuiet ==
    ASSUME TrieInv, QuietInv, CopyNode, UNCHANGED treeVars
    PROVE  QuietInv'
<1> DEFINE call == Head(pending)
           L == Len(copies) + 1
           n == call.node
           r == [partial |-> nodes[n].partial, hash |-> nodes[n].hash,
                 prefix |-> PrefixAbove(call) \o nodes[n].partial,
                 cumulative |-> <<>>, left |-> Nil, right |-> Nil]
<1>1. /\ nodes' = nodes /\ wpc' = wpc /\ appends' = appends /\ content' = content
      /\ rpc = "set" /\ rpc' = "extend" /\ req' = req /\ seen' = seen /\ copath' = copath
      /\ pending' = pending
      /\ copies' = Append(Linked(call, L), r)
  BY DEF CopyNode, treeVars
<1>2. RequestFits'
  BY <1>1 DEF QuietInv, RequestFits, Climbing, InRound
<1>3. ASSUME Undisturbed PROVE RestFits'
  <2>1. GetLeafFits /\ CopiesFit /\ seen = nodes[Root].hash
    BY <1>1, <1>3 DEF QuietInv, RestFits
  <2>2. GetLeafFits'
    BY <1>1, <2>1 DEF GetLeafFits, Climbing, InRound
  <2>3. Waiting = {call} \cup Waiting'
    <3>1. pending # <<>> /\ \E R : pending \in Seq(R)
      BY <1>1 DEF TrieInv, ReaderInv
    <3>2. Range(pending) = {Head(pending)} \cup Range(Tail(pending))
      BY <3>1, RangeOfTail
    <3> QED
      BY <1>1, <3>2 DEF Waiting
  <2>4. PICK P : copies \in Seq(CopyRecords(P))
    BY <2>1 DEF CopiesFit
  <2>5. /\ Len(copies) \in Nat /\ DOMAIN copies = 1 .. Len(copies) /\ Nil \notin DOMAIN copies
        /\ L \notin DOMAIN copies /\ L # Nil /\ L \in 1 .. L /\ DOMAIN copies \subseteq 1 .. L
    BY <2>4, CopyFields DEF Nil
  <2>6. /\ n \in DOMAIN nodes
        /\ \/ call.parent = Nil /\ n = Root
           \/ call.parent \in DOMAIN copies /\ call.bit \in Bit
    BY <2>1, <2>3 DEF CopiesFit
  <2>7. CopyAdded(copies', call, r)
    <3> DEFINE Q == P \cup {nodes[n].partial, nodes[n].hash, PrefixAbove(call) \o nodes[n].partial, <<>>}
    <3>1. copies \in Seq(CopyRecords(Q))
      <4>1. CopyRecords(P) \subseteq CopyRecords(Q)
        BY DEF CopyRecords
      <4> HIDE DEF Q
      <4> QED
        BY <2>4, <4>1
    <3>2. r \in CopyRecords(Q)
      BY DEF CopyRecords, Nil
    <3> HIDE DEF Q, r, call
    <3>3. CopyAdded(Append(Linked(call, Len(copies) + 1), r), call, r)
      BY <2>6, <3>1, <3>2, AddCopy
    <3> QED
      BY <1>1, <3>3
  <2>17. /\ PrefixAbove(call) \o nodes[n].partial = nodes[n].key
         /\ CumulativeAbove(call) \o nodes[n].partial = nodes[n].key
    BY <1>1, <1>3, <2>1, KeyOfCall DEF Undisturbed
  <2>8. /\ r.partial = nodes[n].partial /\ r.hash = nodes[n].hash /\ r.prefix = nodes[n].key
        /\ r.left = Nil /\ r.right = Nil
    BY <2>17
  <2> HIDE DEF r, call
  <2>9. /\ (\E Q : copies' \in Seq(CopyRecords(Q))) /\ Len(copies') = L /\ DOMAIN copies' = 1 .. L
        /\ copies'[L] = r
        /\ \A i \in DOMAIN copies :
               /\ copies'[i].partial = copies[i].partial /\ copies'[i].hash = copies[i].hash
               /\ copies'[i].prefix = copies[i].prefix /\ copies'[i].cumulative = copies[i].cumulative
               /\ \A b \in Bit : ChildOf(copies', i, b) = IF i = call.parent /\ b = call.bit THEN L
                                                          ELSE ChildOf(copies, i, b)
    BY <2>7, Zenon DEF CopyAdded
  <2> HIDE DEF L
  <2>10. \A c \in Waiting' : c.parent # L
    BY <2>1, <2>3, <2>5 DEF CopiesFit
  <2>11. \A b \in Bit : ChildOf(copies', L, b) = Nil
    BY <2>8, <2>9 DEF ChildOf
  <2>16. PICK l, o : l = L /\ o = n
    OBVIOUS
  <2>18. (\A i \in DOMAIN copies : IsRead(i)) /\ \A i : IsRead(i)' => i \in DOMAIN copies
    BY <1>1, <2>5, <2>9 DEF IsRead, L
  <2>12. IsCopyOf(l, o)'
    <3>1. ~ IsRead(l)'
      BY <2>5, <2>16, <2>18
    <3> QED
      BY <1>1, <2>8, <2>9, <2>10, <2>11, <2>16, <3>1 DEF IsCopyOf, NoneCopied, ChildOf
  <2>13. ASSUME NEW i \in DOMAIN copies PROVE \E m \in DOMAIN nodes' : IsCopyOf(i, m)'
    <3>1. PICK m \in DOMAIN nodes : IsCopyOf(i, m)
      BY <2>1 DEF CopiesFit
    <3>2. /\ copies'[i].partial = nodes'[m].partial /\ copies'[i].hash = nodes'[m].hash
          /\ copies'[i].prefix = nodes'[m].key
          /\ copies'[i].cumulative = nodes'[m].key
      BY <1>1, <2>9, <2>18, <3>1 DEF IsCopyOf
    <3>3. \A b \in Bit : ChildOf(nodes', m, b) = ChildOf(nodes, m, b)
      BY <1>1 DEF ChildOf
    <3>4. ASSUME NEW b \in Bit, ChildOf(copies', i, b) # Nil
          PROVE  /\ ChildOf(copies', i, b) \in DOMAIN copies' /\ ChildOf(nodes', m, b) # Nil
                 /\ copies'[ChildOf(copies', i, b)].hash = nodes'[ChildOf(nodes', m, b)].hash
                 /\ copies'[ChildOf(copies', i, b)].prefix = nodes'[ChildOf(nodes', m, b)].key
      <4>1. CASE i = call.parent /\ b = call.bit
        <5>1. ChildOf(copies', i, b) = L
          BY <2>9, <4>1
        <5>2. n = ChildOf(nodes, m, b)
          BY <2>3, <3>1, <4>1 DEF IsCopyOf, n
        <5>3. n # Nil
          BY <2>6, TypesOfTree DEF TrieInv
        <5> QED
          BY <1>1, <2>5, <2>8, <2>9, <3>3, <5>1, <5>2, <5>3
      <4>2. CASE ~ (i = call.parent /\ b = call.bit)
        <5>1. ChildOf(copies', i, b) = ChildOf(copies, i, b)
          BY <2>9, <4>2
        <5>2. /\ ChildOf(copies, i, b) \in DOMAIN copies /\ ChildOf(nodes, m, b) # Nil
              /\ copies[ChildOf(copies, i, b)].hash = nodes[ChildOf(nodes, m, b)].hash
              /\ copies[ChildOf(copies, i, b)].prefix = nodes[ChildOf(nodes, m, b)].key
          BY <3>1, <3>4, <5>1 DEF IsCopyOf
        <5> QED
          BY <1>1, <2>5, <2>9, <3>3, <5>1, <5>2
      <4> QED
        BY <4>1, <4>2
    <3>5. \A c \in Waiting' : c.parent = i => c.node = ChildOf(nodes', m, c.bit)
      <4>1. \A c \in Waiting' : c.parent = i => c.node = ChildOf(nodes, m, c.bit)
        BY <2>3, <3>1 DEF IsCopyOf
      <4> QED
        BY <1>1, <4>1 DEF ChildOf
    <3>6. NoneCopied(i) => NoneCopied(i)'
      <4> SUFFICES ASSUME NoneCopied(i) PROVE NoneCopied(i)'
        OBVIOUS
      <4>1. i # call.parent /\ \A c \in Waiting' : c.parent # i
        BY <2>3 DEF NoneCopied
      <4>2. \A b \in Bit : ChildOf(copies', i, b) = Nil
        BY <2>9, <4>1 DEF NoneCopied
      <4> QED
        BY <4>1, <4>2 DEF NoneCopied, ChildOf
    <3>8. AllCopied(i, m) => AllCopied(i, m)'
      <4> SUFFICES ASSUME AllCopied(i, m), NEW b \in Bit
                   PROVE  \/ ChildOf(nodes', m, b) = Nil
                          \/ ChildOf(copies', i, b) # Nil
                          \/ \E c \in Waiting' : c.parent = i /\ c.bit = b
        BY DEF AllCopied, ChildOf
      <4>1. CASE i = call.parent /\ b = call.bit
        BY <2>5, <2>9, <4>1
      <4>2. CASE ~ (i = call.parent /\ b = call.bit)
        <5>1. ChildOf(copies', i, b) = ChildOf(copies, i, b)
          BY <2>9, <4>2
        <5> QED
          BY <2>3, <3>3, <4>2, <5>1 DEF AllCopied
      <4> QED
        BY <4>1, <4>2
    <3>9. /\ (NoneCopied(i) \/ AllCopied(i, m))'
          /\ DoesPrefixOverlapRange(req'.range, nodes'[m].key) => AllCopied(i, m)'
      <4>1. /\ NoneCopied(i) \/ AllCopied(i, m)
            /\ DoesPrefixOverlapRange(req.range, nodes[m].key) => AllCopied(i, m)
        BY <2>18, <3>1 DEF IsCopyOf
      <4>2. req' = req /\ nodes' = nodes
        BY <1>1
      <4> QED
        BY <3>6, <3>8, <4>1, <4>2
    <3>7. IsCopyOf(i, m)'
      BY <3>2, <3>4, <3>5, <3>9 DEF IsCopyOf, ChildOf
    <3> QED
      BY <1>1, <3>1, <3>7
  <2>14. copies'[1].hash = nodes'[Root].hash /\ copies'[1].prefix = nodes'[Root].key
    <3>1. CASE copies = <<>>
      <4>1. L = 1 /\ n = Root
        BY <2>6, <3>1 DEF L
      <4> QED
        BY <1>1, <2>8, <2>9, <4>1
    <3>2. CASE copies # <<>>
      <4>1. 1 \in DOMAIN copies
        BY <2>4, <2>5, <3>2
      <4> QED
        BY <1>1, <2>1, <2>9, <3>2, <4>1 DEF CopiesFit
    <3> QED
      BY <3>1, <3>2
  <2>15. CopiesFit'
    <3>1. copies' # <<>>
      BY <2>5, <2>9
    <3>2. \A c \in Waiting' : /\ c.node \in DOMAIN nodes'
                              /\ \/ c.parent = Nil /\ c.node = Root
                                 \/ c.parent \in DOMAIN copies' /\ c.bit \in Bit
      BY <1>1, <2>1, <2>3, <2>5, <2>9 DEF CopiesFit
    <3>3. \A i \in DOMAIN copies' : \E m \in DOMAIN nodes' : IsCopyOf(i, m)'
      <4>1. \A i \in 1 .. L : i \in DOMAIN copies \/ i = L
        BY <2>5 DEF L
      <4> QED
        BY <1>1, <2>6, <2>9, <2>12, <2>13, <2>16, <4>1
    <3>4. IsCopyOf(Len(copies), Head(pending).node)'
      BY <1>1, <2>9, <2>12, <2>16 DEF call, IsCopyOf
    <3>5. (CumulativeAbove(Head(pending)) \o nodes[Head(pending).node].partial
               = nodes[Head(pending).node].key)'
      <4>1. CumulativeAbove(call)' = CumulativeAbove(call)
        <5>1. call.parent = Nil \/ call.parent \in DOMAIN copies
          BY <2>6
        <5>2. call' = call
          BY <1>1 DEF call
        <5> QED
          BY <2>9, <5>1, <5>2 DEF CumulativeAbove
      <4> QED
        BY <1>1, <2>17, <4>1 DEF call
    <3> QED
      BY <1>1, <2>9, <2>10, <2>11, <2>14, <3>1, <3>2, <3>3, <3>4, <3>5 DEF CopiesFit
  <2> QED
    BY <1>1, <2>1, <2>2, <2>15 DEF RestFits
<1> QED
  BY <1>1, <1>2, <1>3 DEF QuietInv, Undisturbed, UndisturbedIsRight

\* The calls that wait after a call has been made.
LEMMA NowWaiting ==
    ASSUME TrieInv, ExtendSetCompletenessProof, NEW calls,
           calls = CallsFor(Head(pending).node, Len(copies))
    PROVE  /\ Waiting' = Waiting \/ Waiting' = Waiting \cup calls
           /\ DoesPrefixOverlapRange(req.range, CumulativeAbove(Head(pending)) \o nodes[Head(pending).node].partial)
                  => Waiting' = Waiting \cup calls
<1> DEFINE new == Children(Head(pending).node, Len(copies))
           t == Tail(pending)
           x == CumulativeAbove(Head(pending)) \o nodes[Head(pending).node].partial
<1>1. /\ rpc = "extend" /\ rpc' \in {"verify", "set"}
      /\ pending' = IF DoesPrefixOverlapRange(req.range, x) THEN new \o t ELSE t
  BY DEF ExtendSetCompletenessProof
<1>2. (\E R : new \in Seq(R)) /\ Range(new) = calls
  BY ChildrenAre
<1>3. \E R : t \in Seq(R)
  <2>1. pending # <<>> /\ \E R : pending \in Seq(R)
    BY <1>1 DEF TrieInv, ReaderInv
  <2> QED
    BY <2>1
<1>4. Waiting = Range(t) /\ Waiting' = Range(pending')
  BY <1>1 DEF Waiting
<1> HIDE DEF new, t, x
<1>5. Range(new \o t) = Range(new) \cup Range(t)
  BY <1>2, <1>3, RangeOfJoin
<1>6. /\ Waiting' = Waiting \/ Waiting' = Waiting \cup calls
      /\ DoesPrefixOverlapRange(req.range, x) => Waiting' = Waiting \cup calls
  BY <1>1, <1>2, <1>4, <1>5
<1> QED
  BY <1>6 DEF x

\* The second read of a partial prefix.
LEMMA CumulativeRead ==
    ASSUME NEW P, copies \in Seq(CopyRecords(P)), copies # <<>>, NEW x,
           copies' = [copies EXCEPT ![Len(copies)].cumulative = x]
    PROVE  /\ (\E Q : copies' \in Seq(CopyRecords(Q))) /\ DOMAIN copies' = DOMAIN copies
           /\ Len(copies') = Len(copies) /\ copies' # <<>>
           /\ copies'[Len(copies)].cumulative = x
           /\ \A i \in DOMAIN copies :
                  /\ copies'[i].partial = copies[i].partial /\ copies'[i].hash = copies[i].hash
                  /\ copies'[i].prefix = copies[i].prefix
                  /\ copies'[i].left = copies[i].left /\ copies'[i].right = copies[i].right
                  /\ i # Len(copies) => copies'[i].cumulative = copies[i].cumulative
<1> DEFINE L == Len(copies)
           Q == P \cup {x}
           r == [copies[L] EXCEPT !.cumulative = x]
<1>1. /\ L \in Nat /\ DOMAIN copies = 1 .. L /\ L \in DOMAIN copies
      /\ \A i \in DOMAIN copies : copies[i] \in CopyRecords(P)
  <2>1. L > 0
    OBVIOUS
  <2> QED
    BY <2>1, CopyFields
<1>2. copies \in Seq(CopyRecords(Q))
  <2>1. CopyRecords(P) \subseteq CopyRecords(Q)
    BY DEF CopyRecords
  <2> HIDE DEF Q
  <2> QED
    BY <2>1
<1>3. copies[L] \in CopyRecords(P)
  BY <1>1
<1>4. /\ r \in CopyRecords(Q) /\ r.partial = copies[L].partial /\ r.hash = copies[L].hash
      /\ r.prefix = copies[L].prefix /\ r.cumulative = x
      /\ r.left = copies[L].left /\ r.right = copies[L].right
  BY <1>3 DEF CopyRecords
<1>5. copies' = [copies EXCEPT ![L] = r]
  OBVIOUS
<1> HIDE DEF Q, r, L
<1>6. /\ copies' \in Seq(CopyRecords(Q)) /\ DOMAIN copies' = DOMAIN copies
      /\ \A m \in DOMAIN copies : copies'[m] = IF m = L THEN r ELSE copies[m]
  BY <1>1, <1>2, <1>4, <1>5, StoreNode
<1>7. Len(copies') = L /\ copies' # <<>>
  BY <1>1, <1>6, LenProperties
<1>8. /\ (\E R : copies' \in Seq(CopyRecords(R))) /\ DOMAIN copies' = DOMAIN copies
      /\ Len(copies') = L /\ copies' # <<>> /\ copies'[L].cumulative = x
      /\ \A i \in DOMAIN copies :
             /\ copies'[i].partial = copies[i].partial /\ copies'[i].hash = copies[i].hash
             /\ copies'[i].prefix = copies[i].prefix
             /\ copies'[i].left = copies[i].left /\ copies'[i].right = copies[i].right
             /\ i # L => copies'[i].cumulative = copies[i].cumulative
  BY <1>1, <1>4, <1>6, <1>7
<1> QED
  BY <1>8 DEF L

LEMMA ExtendQuiet ==
    ASSUME TrieInv, QuietInv, ExtendSetCompletenessProof, UNCHANGED treeVars
    PROVE  QuietInv'
<1> DEFINE n == Head(pending).node
           L == Len(copies)
           calls == CallsFor(n, L)
<1>1. PICK x : /\ x = CumulativeAbove(Head(pending)) \o nodes[n].partial
               /\ nodes' = nodes /\ wpc' = wpc /\ appends' = appends /\ content' = content
               /\ rpc = "extend" /\ rpc' = (IF pending' = <<>> THEN "verify" ELSE "set")
               /\ req' = req /\ seen' = seen /\ copath' = copath
               /\ copies' = [copies EXCEPT ![L].cumulative = x]
  BY DEF ExtendSetCompletenessProof, treeVars
<1>2. RequestFits'
  BY <1>1 DEF QuietInv, RequestFits, Climbing, InRound
<1>3. ASSUME Undisturbed PROVE RestFits'
  <2>1. GetLeafFits /\ CopiesFit /\ seen = nodes[Root].hash
    BY <1>1, <1>3 DEF QuietInv, RestFits
  <2>2. GetLeafFits'
    BY <1>1, <2>1 DEF GetLeafFits, Climbing, InRound
  <2>3. /\ Waiting' = Waiting \/ Waiting' = Waiting \cup calls
        /\ DoesPrefixOverlapRange(req.range, x) => Waiting' = Waiting \cup calls
    BY <1>1, NowWaiting
  <2>4. PICK P : copies \in Seq(CopyRecords(P))
    BY <2>1 DEF CopiesFit
  <2>5. /\ L \in Nat /\ DOMAIN copies = 1 .. L /\ Nil \notin DOMAIN copies
        /\ copies # <<>> /\ L \in DOMAIN copies /\ 1 \in DOMAIN copies
        /\ \A i \in DOMAIN copies : copies[i] \in CopyRecords(P)
    <3>1. copies # <<>>
      BY <1>1, <2>1 DEF CopiesFit
    <3>2. L > 0
      BY <2>4, <3>1
    <3> QED
      BY <2>4, <3>1, <3>2, CopyFields
  <2>6. /\ (\E Q : copies' \in Seq(CopyRecords(Q))) /\ DOMAIN copies' = DOMAIN copies
        /\ Len(copies') = L /\ copies' # <<>> /\ copies'[L].cumulative = x
        /\ \A i \in DOMAIN copies :
               /\ copies'[i].partial = copies[i].partial /\ copies'[i].hash = copies[i].hash
               /\ copies'[i].prefix = copies[i].prefix
               /\ copies'[i].left = copies[i].left /\ copies'[i].right = copies[i].right
               /\ i # L => copies'[i].cumulative = copies[i].cumulative
    BY <1>1, <2>4, <2>5, CumulativeRead
  <2>7. \A i \in DOMAIN copies, b \in Bit : ChildOf(copies', i, b) = ChildOf(copies, i, b)
    BY <2>6 DEF ChildOf
  <2>8. \A m, b : ChildOf(nodes', m, b) = ChildOf(nodes, m, b)
    BY <1>1 DEF ChildOf
  <2>9. /\ IsCopyOf(L, n) /\ (\A b \in Bit : ChildOf(copies, L, b) = Nil)
        /\ \A c \in Waiting : c.parent # L
        /\ x = nodes[n].key
    BY <1>1, <2>1 DEF CopiesFit
  <2>10. n \in DOMAIN nodes
    <3>1. pending # <<>> /\ (\E R : pending \in Seq(R))
          /\ \A i \in DOMAIN pending : pending[i].node \in DOMAIN nodes
      BY <1>1 DEF TrieInv, ReaderInv
    <3>2. 1 \in DOMAIN pending /\ Head(pending) = pending[1]
      BY <3>1
    <3> QED
      BY <3>1, <3>2
  <2>11. /\ \A c \in calls : /\ c.parent = L /\ c.bit \in Bit
                             /\ c.node = ChildOf(nodes, n, c.bit) /\ c.node \in DOMAIN nodes
         /\ \A b \in Bit : ChildOf(nodes, n, b) # Nil => \E c \in calls : c.parent = L /\ c.bit = b
    <3>1. \A b \in Bit : ChildOf(nodes, n, b) # Nil => ChildOf(nodes, n, b) \in DOMAIN nodes
      BY <2>10, ChildFound DEF TrieInv
    <3> HIDE DEF n, L
    <3>2. ASSUME NEW c \in calls
          PROVE  /\ c.parent = L /\ c.bit \in Bit
                 /\ c.node = ChildOf(nodes, n, c.bit) /\ c.node \in DOMAIN nodes
      <4>1. PICK b \in Bit : /\ ChildOf(nodes, n, b) # Nil
                             /\ c = [node |-> ChildOf(nodes, n, b), parent |-> L, bit |-> b]
        BY <3>2 DEF CallsFor
      <4> QED
        BY <3>1, <4>1
    <3>3. ASSUME NEW b \in Bit, ChildOf(nodes, n, b) # Nil
          PROVE  \E c \in calls : c.parent = L /\ c.bit = b
      <4> DEFINE c == [node |-> ChildOf(nodes, n, b), parent |-> L, bit |-> b]
      <4>1. c \in calls
        BY <3>3 DEF CallsFor
      <4>2. c.parent = L /\ c.bit = b
        OBVIOUS
      <4> QED
        BY <4>1, <4>2
    <3> QED
      BY <3>2, <3>3
  <2> HIDE DEF n, L, calls
  <2>12. ASSUME NEW i \in DOMAIN copies, NEW m \in DOMAIN nodes, IsCopyOf(i, m), i = L => m = n
         PROVE  IsCopyOf(i, m)'
    <3>1. /\ copies'[i].partial = nodes'[m].partial /\ copies'[i].hash = nodes'[m].hash
          /\ copies'[i].prefix = nodes'[m].key
      BY <1>1, <2>6, <2>12 DEF IsCopyOf
    <3>2. ASSUME NEW b \in Bit, ChildOf(copies', i, b) # Nil
          PROVE  /\ ChildOf(copies', i, b) \in DOMAIN copies' /\ ChildOf(nodes', m, b) # Nil
                 /\ copies'[ChildOf(copies', i, b)].hash = nodes'[ChildOf(nodes', m, b)].hash
                 /\ copies'[ChildOf(copies', i, b)].prefix = nodes'[ChildOf(nodes', m, b)].key
      <4>1. ChildOf(copies', i, b) = ChildOf(copies, i, b) /\ ChildOf(nodes', m, b) = ChildOf(nodes, m, b)
        BY <2>7, <2>8
      <4>2. /\ ChildOf(copies, i, b) \in DOMAIN copies /\ ChildOf(nodes, m, b) # Nil
            /\ copies[ChildOf(copies, i, b)].hash = nodes[ChildOf(nodes, m, b)].hash
            /\ copies[ChildOf(copies, i, b)].prefix = nodes[ChildOf(nodes, m, b)].key
        BY <2>12, <3>2, <4>1 DEF IsCopyOf
      <4> QED
        BY <1>1, <2>6, <4>1, <4>2
    <3>3. \A c \in Waiting : c.parent = i => c.node = ChildOf(nodes, m, c.bit)
      BY <2>12 DEF IsCopyOf
    <3>4. \A c \in Waiting' : c.parent = i => c.node = ChildOf(nodes', m, c.bit)
      BY <2>3, <2>8, <2>11, <2>12, <3>3
    <3>5. \A b \in Bit : ChildOf(copies', i, b) = ChildOf(copies, i, b)
                         /\ ChildOf(nodes', m, b) = ChildOf(nodes, m, b)
      BY <2>7, <2>8
    <3>6. NoneCopied(i) /\ (i = L => Waiting' = Waiting) => NoneCopied(i)'
      <4> SUFFICES ASSUME NoneCopied(i), i = L => Waiting' = Waiting PROVE NoneCopied(i)'
        OBVIOUS
      <4>1. \A c \in Waiting' : c.parent # i
        BY <2>3, <2>11 DEF NoneCopied
      <4> QED
        BY <3>5, <4>1 DEF NoneCopied, ChildOf
    <3>7. AllCopied(i, m) => AllCopied(i, m)'
      <4>1. Waiting \subseteq Waiting'
        BY <2>3
      <4> QED
        BY <3>5, <4>1 DEF AllCopied, ChildOf
    <3>8. i = L /\ Waiting' = Waiting \cup calls => AllCopied(i, m)'
      BY <2>8, <2>11, <2>12 DEF AllCopied, ChildOf
    <3>9. NoneCopied(i) \/ AllCopied(i, m)
      BY <2>12 DEF IsCopyOf
    <3>10. (NoneCopied(i) \/ AllCopied(i, m))'
      BY <2>3, <3>6, <3>7, <3>8, <3>9
    <3>11. ASSUME IsRead(i)'
           PROVE  /\ copies'[i].cumulative = nodes'[m].key
                  /\ DoesPrefixOverlapRange(req'.range, nodes'[m].key) => AllCopied(i, m)'
      <4>1. CASE i = L
        <5>1. copies'[i].cumulative = nodes'[m].key
          BY <1>1, <2>6, <2>9, <2>12, <4>1
        <5>2. nodes'[m].key = x /\ req'.range = req.range
          BY <1>1, <2>9, <2>12, <4>1
        <5>3. DoesPrefixOverlapRange(req.range, x) => AllCopied(i, m)'
          BY <2>3, <3>8, <4>1
        <5> QED
          BY <5>1, <5>2, <5>3
      <4>2. CASE i # L
        <5>1. IsRead(i)
          BY <1>1, <4>2 DEF IsRead, L
        <5> QED
          BY <1>1, <2>6, <2>12, <3>7, <4>2, <5>1 DEF IsCopyOf
      <4> QED
        BY <4>1, <4>2
    <3> QED
      BY <3>1, <3>2, <3>4, <3>10, <3>11 DEF IsCopyOf, ChildOf
  <2>13. ASSUME NEW i \in DOMAIN copies' PROVE \E m \in DOMAIN nodes' : IsCopyOf(i, m)'
    <3>1. i \in DOMAIN copies
      BY <2>6
    <3>2. CASE i = L
      <4>1. PICK m : m = n
        OBVIOUS
      <4>2. IsCopyOf(i, m) /\ m \in DOMAIN nodes
        BY <2>9, <2>10, <3>2, <4>1
      <4>3. IsCopyOf(i, m)'
        BY <2>12, <3>1, <4>1, <4>2
      <4> QED
        BY <1>1, <4>2, <4>3
    <3>3. CASE i # L
      <4>1. PICK m \in DOMAIN nodes : IsCopyOf(i, m)
        BY <2>1, <3>1 DEF CopiesFit
      <4>2. IsCopyOf(i, m)'
        BY <2>12, <3>1, <3>3, <4>1
      <4> QED
        BY <1>1, <4>2
    <3> QED
      BY <3>2, <3>3
  <2>14. \A c \in Waiting' : /\ c.node \in DOMAIN nodes'
                             /\ \/ c.parent = Nil /\ c.node = Root
                                \/ c.parent \in DOMAIN copies' /\ c.bit \in Bit
    <3>1. \A c \in Waiting : /\ c.node \in DOMAIN nodes
                             /\ \/ c.parent = Nil /\ c.node = Root
                                \/ c.parent \in DOMAIN copies /\ c.bit \in Bit
      BY <2>1 DEF CopiesFit
    <3> QED
      BY <1>1, <2>3, <2>5, <2>6, <2>11, <3>1
  <2>15. copies'[1].hash = nodes'[Root].hash /\ copies'[1].prefix = nodes'[Root].key
    BY <1>1, <2>1, <2>5, <2>6 DEF CopiesFit
  <2>16. CopiesFit'
    BY <1>1, <2>6, <2>13, <2>14, <2>15 DEF CopiesFit
  <2> QED
    BY <1>1, <2>1, <2>2, <2>16 DEF RestFits
<1> QED
  BY <1>1, <1>2, <1>3 DEF QuietInv, Undisturbed, UndisturbedIsRight

\* With all calls made every hash that the client computes is one that was
\* copied.
LEMMA HashesCheck ==
    ASSUME TreeInv, wpc = "idle", CopiesFit, rpc = "verify"
    PROVE  CheckHash
<1> SUFFICES ASSUME NEW i \in DOMAIN copies, ~ Childless(copies[i])
             PROVE  copies[i].hash = NodeHash(copies[i].partial, CopiedHash(copies[i].left),
                                              CopiedHash(copies[i].right), NoValue)
  BY DEF CheckHash
<1>1. Waiting = {}
  <2>1. pending = <<>>
    BY DEF CopiesFit
  <2> QED
    BY <2>1 DEF Waiting, Range
<1>2. PICK n \in DOMAIN nodes : IsCopyOf(i, n)
  BY DEF CopiesFit
<1>3. /\ copies[i].left = ChildOf(copies, i, 0) /\ copies[i].right = ChildOf(copies, i, 1)
      /\ nodes[n].left = ChildOf(nodes, n, 0) /\ nodes[n].right = ChildOf(nodes, n, 1)
  BY DEF ChildOf
<1>4. \E b \in Bit : ChildOf(copies, i, b) # Nil
  BY <1>3 DEF Childless, Bit
<1>5. ASSUME NEW b \in Bit
      PROVE  CopiedHash(ChildOf(copies, i, b)) = HashAt(nodes, ChildOf(nodes, n, b))
  <2>1. CASE ChildOf(copies, i, b) = Nil
    <3>1. ChildOf(nodes, n, b) = Nil
      BY <1>1, <1>2, <1>4, <2>1 DEF IsCopyOf, NoneCopied, AllCopied
    <3> QED
      BY <2>1, <3>1 DEF CopiedHash, HashAt
  <2>2. CASE ChildOf(copies, i, b) # Nil
    <3>1. /\ ChildOf(nodes, n, b) # Nil
          /\ copies[ChildOf(copies, i, b)].hash = nodes[ChildOf(nodes, n, b)].hash
      BY <1>2, <2>2 DEF IsCopyOf
    <3> QED
      BY <2>2, <3>1 DEF CopiedHash, HashAt
  <2> QED
    BY <2>1, <2>2
<1>6. nodes[n].value = NoValue
  <2>1. PICK b \in Bit : ChildOf(nodes, n, b) # Nil
    BY <1>2, <1>4 DEF IsCopyOf
  <2>2. ~ nodes[n].leaf
    BY <2>1 DEF TreeInv, ChildrenFit, ChildFits
  <2> QED
    BY <2>2 DEF TreeInv, NodesFit
<1>7. nodes[n].hash = HashOfNode(nodes, n)
  BY DEF TreeInv, HashesFit, IsStale, Moving
<1>8. copies[i].partial = nodes[n].partial /\ copies[i].hash = nodes[n].hash
  BY <1>2 DEF IsCopyOf
<1>9. /\ CopiedHash(copies[i].left) = HashAt(nodes, nodes[n].left)
      /\ CopiedHash(copies[i].right) = HashAt(nodes, nodes[n].right)
  BY <1>3, <1>5 DEF Bit
<1> QED
  BY <1>6, <1>7, <1>8, <1>9 DEF HashOfNode

LEMMA VerifyPrefixSetQuiet ==
    ASSUME TrieInv, QuietInv, VerifyPrefixSet, UNCHANGED treeVars
    PROVE  QuietInv'
<1>1. /\ nodes' = nodes /\ wpc' = wpc /\ appends' = appends /\ content' = content
      /\ rpc = "verify" /\ rpc' = "done" /\ req' = req /\ seen' = seen
      /\ copath' = copath /\ copies' = copies /\ rpc' \notin Climbing
      /\ answer'.status = IF CheckHash /\ copies[1].hash = seen THEN "verified" ELSE "rejected"
  BY DEF VerifyPrefixSet, Reply, treeVars, Climbing, InRound
<1>2. RequestFits' /\ req.kind = "set"
  BY <1>1 DEF QuietInv, RequestFits, Climbing, InRound
<1>3. ASSUME Undisturbed PROVE RestFits' /\ UndisturbedIsRight'
  <2>1. GetLeafFits /\ CopiesFit /\ seen = nodes[Root].hash /\ wpc = "idle"
    BY <1>1, <1>3 DEF QuietInv, RestFits, Undisturbed
  <2>2. GetLeafFits'
    BY <1>1, <2>1 DEF GetLeafFits, Climbing, InRound
  <2>3. CheckHash
    BY <1>1, <2>1, HashesCheck DEF TrieInv
  <2>4. copies[1].hash = seen
    BY <1>1, <2>1 DEF CopiesFit
  <2> QED
    BY <1>1, <1>2, <2>1, <2>2, <2>3, <2>4 DEF RestFits, UndisturbedIsRight
<1> QED
  BY <1>1, <1>2, <1>3 DEF QuietInv, Undisturbed, UndisturbedIsRight

LEMMA ForgetQuiet ==
    ASSUME TrieInv, QuietInv, Forget, UNCHANGED treeVars
    PROVE  QuietInv'
<1>1. /\ appends' = appends /\ rpc' = "idle" /\ req' = NoRequest /\ copath' = <<>> /\ copies' = <<>>
  BY DEF Forget, treeVars
<1>2. 0 <= appends
  BY KeysAssumption DEF TrieInv, TreeInv, JobTypeOK
<1> QED
  BY <1>1, <1>2 DEF QuietInv, RequestFits, Undisturbed, UndisturbedIsRight, NoRequest, Climbing, InRound

-----------------------------------------------------------------------------
(* What a request that is not disturbed gets *)

LEMMA QuietInitInv == Init => QuietInv
<1> SUFFICES ASSUME Init PROVE QuietInv
  OBVIOUS
<1>1. /\ appends = 0 /\ rpc = "idle" /\ req = NoRequest /\ copath = <<>> /\ copies = <<>>
  BY DEF Init
<1> QED
  BY <1>1 DEF QuietInv, RequestFits, Undisturbed, UndisturbedIsRight, NoRequest, Climbing, InRound

LEMMA QuietStutters ==
    ASSUME QuietInv, UNCHANGED vars
    PROVE  QuietInv'
<1>1. /\ nodes' = nodes /\ wpc' = wpc /\ appends' = appends /\ content' = content
      /\ rpc' = rpc /\ req' = req /\ seen' = seen /\ at' = at /\ bits' = bits
      /\ copath' = copath /\ copies' = copies /\ pending' = pending /\ answer' = answer
      /\ round' = round
  BY DEF vars, treeVars, readerVars
<1>2. RequestFits' /\ UndisturbedIsRight' /\ Undisturbed' = Undisturbed
  BY <1>1 DEF QuietInv, RequestFits, UndisturbedIsRight, Undisturbed
<1>3. GetLeafFits => GetLeafFits'
  <2>1. LeafNow' = LeafNow /\ RoundNow' = RoundNow
    BY <1>1 DEF LeafNow, RoundNow, CopathNode, SiblingOf, ChildOf, HashAt
  <2>2. RebuildRootHash(LeafNow, copath)' = RebuildRootHash(LeafNow, copath)
    BY <1>1, <2>1 DEF RebuildRootHash
  <2> QED
    BY <1>1, <2>1, <2>2 DEF GetLeafFits, ChildOf
<1>4. Waiting' = Waiting
  BY <1>1 DEF Waiting
<1>5. \A i, n : IsCopyOf(i, n) => IsCopyOf(i, n)'
  BY <1>1, <1>4 DEF IsCopyOf, IsRead, NoneCopied, AllCopied, ChildOf
<1>6. CopiesFit => CopiesFit'
  <2>1. CumulativeAbove(Head(pending))' = CumulativeAbove(Head(pending))
    BY <1>1 DEF CumulativeAbove
  <2> QED
    <3> SUFFICES ASSUME CopiesFit PROVE CopiesFit'
      OBVIOUS
    <3>1. \A i \in DOMAIN copies : \E n \in DOMAIN nodes : IsCopyOf(i, n)'
      BY <1>5 DEF CopiesFit
    <3>2. PICK l, o : l = Len(copies) /\ o = Head(pending).node
      OBVIOUS
    <3>4. IsCopyOf(l, o)' => IsCopyOf(Len(copies), Head(pending).node)'
      BY <1>1, <3>2 DEF IsCopyOf
    <3>3. \A i, b : ChildOf(copies, i, b)' = ChildOf(copies, i, b)
      BY <1>1 DEF ChildOf
    <3> QED
      BY <1>1, <1>4, <1>5, <2>1, <3>1, <3>2, <3>3, <3>4 DEF CopiesFit
<1> QED
  BY <1>1, <1>2, <1>3, <1>6 DEF QuietInv, RestFits

LEMMA QuietInvIsInductive == Spec => []QuietInv
<1>1. Init => QuietInv
  BY QuietInitInv
<1>2. TrieInv /\ QuietInv /\ [Next]_vars => QuietInv'
  <2> SUFFICES ASSUME TrieInv, QuietInv, [Next]_vars PROVE QuietInv'
    OBVIOUS
  <2>1. CASE WriterStep /\ UNCHANGED readerVars
    BY <2>1, WriterDisturbs DEF QuietInv, UndisturbedIsRight
  <2>2. CASE ReaderStep /\ UNCHANGED treeVars
    <3>1. ASSUME NEW k \in Keys, AskMembership(k) PROVE QuietInv'
      BY <2>2, <3>1, AskMembershipQuiet
    <3>2. ASSUME NEW rg \in SetRanges, AskSet(rg) PROVE QuietInv'
      BY <2>2, <3>2, AskSetQuiet
    <3> QED
      BY <2>2, <3>1, <3>2, DescendQuiet, MatchQuiet, ClimbQuiet, CopyNodeQuiet, ExtendQuiet,
         VerifyPrefixSetQuiet, ForgetQuiet
      DEF ReaderStep
  <2>3. CASE UNCHANGED vars
    BY <2>3, QuietStutters
  <2> QED
    BY <2>1, <2>2, <2>3 DEF Next
<1> QED
  BY <1>1, <1>2, TrieInvIsInductive, PTL DEF Spec

\* A client that asks between two calls of PrefixAppend, and whose answer is
\* complete before the next, gets the value last appended, or is told that
\* there is none, and each of its proofs verifies against the root hash.
THEOREM UndisturbedCorrect == Spec => []UndisturbedIsRight
<1>1. QuietInv => UndisturbedIsRight
  BY DEF QuietInv
<1> QED
  BY <1>1, QuietInvIsInductive, PTL

-----------------------------------------------------------------------------
(* What a hash stands for, level by level *)

NextLevel(S) ==
    UNION {{<<x[1].kids[i], x[2] \o x[1].kids[i].partial>> : i \in DOMAIN x[1].kids} : x \in S}

TopLevel(h) == {<<h, h.partial>>}

\* The first n levels: Levels is defined by recursion over all of them.
FirstLevels(h, n, f) ==
    f = [i \in 0 .. n |-> IF i = 0 THEN TopLevel(h) ELSE NextLevel(f[i - 1])]

LEMMA LevelIs ==
    ASSUME NEW h, NEW n \in Nat, NEW f, FirstLevels(h, n, f)
    PROVE  \A i \in 0 .. n : f[i] = IF i = 0 THEN TopLevel(h) ELSE NextLevel(f[i - 1])
BY Zenon DEF FirstLevels

LEMMA LevelsAgree ==
    ASSUME NEW h, NEW n \in Nat, NEW m \in Nat, NEW f, NEW g,
           FirstLevels(h, n, f), FirstLevels(h, m, g), NEW i \in Nat, i <= n, i <= m
    PROVE  f[i] = g[i]
<1>1. \A y \in 0 .. n : f[y] = IF y = 0 THEN TopLevel(h) ELSE NextLevel(f[y - 1])
  BY LevelIs
<1>2. \A y \in 0 .. m : g[y] = IF y = 0 THEN TopLevel(h) ELSE NextLevel(g[y - 1])
  BY LevelIs
<1> DEFINE D == {j \in Nat : j <= n /\ j <= m /\ f[j] # g[j]}
<1> SUFFICES ASSUME D # {} PROVE FALSE
  OBVIOUS
<1>3. D \subseteq Nat
  OBVIOUS
<1>4. Min(D) \in D /\ \A y \in D : Min(D) <= y
  BY <1>3, NatMin
<1> DEFINE j == Min(D)
<1>5. j \in Nat /\ j <= n /\ j <= m /\ f[j] # g[j] /\ \A y \in D : j <= y
  BY <1>4
<1> HIDE DEF j
<1>6. /\ f[j] = IF j = 0 THEN TopLevel(h) ELSE NextLevel(f[j - 1])
      /\ g[j] = IF j = 0 THEN TopLevel(h) ELSE NextLevel(g[j - 1])
  <2>1. j \in 0 .. n /\ j \in 0 .. m
    BY <1>5
  <2> QED
    BY <1>1, <1>2, <2>1
<1>7. j # 0
  BY <1>5, <1>6
<1>8. j - 1 \in Nat /\ j - 1 <= n /\ j - 1 <= m /\ j - 1 \notin D
  BY <1>5, <1>7
<1>9. f[j - 1] = g[j - 1]
  BY <1>8
<1> QED
  BY <1>5, <1>6, <1>7, <1>9

\* The levels exist: if not, take the first that does not.
LEMMA FirstLevelsExist ==
    ASSUME NEW h, NEW n \in Nat
    PROVE  \E f : FirstLevels(h, n, f)
<1> DEFINE D == {m \in Nat : \A f : ~ FirstLevels(h, m, f)}
<1> SUFFICES ASSUME D # {} PROVE FALSE
  OBVIOUS
<1>1. D \subseteq Nat
  OBVIOUS
<1>2. Min(D) \in D /\ \A y \in D : Min(D) <= y
  BY <1>1, NatMin
<1> DEFINE m == Min(D)
<1>3. m \in Nat /\ (\A f : ~ FirstLevels(h, m, f)) /\ \A y \in D : m <= y
  BY <1>2
<1> HIDE DEF m
<1>4. CASE m = 0
  <2> DEFINE f == [i \in 0 .. 0 |-> TopLevel(h)]
  <2>1. f = [i \in 0 .. m |-> IF i = 0 THEN TopLevel(h) ELSE NextLevel(f[i - 1])]
    BY <1>4
  <2> QED
    BY <1>3, <2>1 DEF FirstLevels
<1>5. CASE m # 0
  <2> DEFINE p == m - 1
  <2>1. p \in Nat /\ m = p + 1 /\ p \notin D
    BY <1>3, <1>5
  <2>2. PICK f : FirstLevels(h, p, f)
    BY <2>1
  <2> HIDE DEF p
  <2> DEFINE g == [i \in 0 .. m |-> IF i = m THEN NextLevel(f[p]) ELSE f[i]]
  <2>3. ASSUME NEW i \in 0 .. m
        PROVE  g[i] = IF i = 0 THEN TopLevel(h) ELSE NextLevel(g[i - 1])
    <3>1. CASE i = m
      <4>1. i # 0 /\ i - 1 = p /\ p \in 0 .. m /\ p # m
        BY <2>1, <3>1
      <4> QED
        BY <3>1, <4>1
    <3>2. CASE i # m
      <4>1. i \in 0 .. p /\ (i # 0 => i - 1 \in 0 .. m /\ i - 1 # m)
        BY <2>1, <2>3, <3>2
      <4>2. f[i] = IF i = 0 THEN TopLevel(h) ELSE NextLevel(f[i - 1])
        BY <2>1, <2>2, <4>1, LevelIs
      <4> QED
        BY <3>2, <4>1, <4>2
    <3> QED
      BY <3>1, <3>2
  <2>4. g = [i \in 0 .. m |-> IF i = 0 THEN TopLevel(h) ELSE NextLevel(g[i - 1])]
    BY <2>3
  <2> QED
    BY <1>3, <2>4 DEF FirstLevels
<1> QED
  BY <1>4, <1>5

\* Levels is what its definition says.
LEMMA LevelsAre ==
    ASSUME NEW h
    PROVE  /\ Levels(h)[0] = TopLevel(h)
           /\ \A n \in Nat : Levels(h)[n + 1] = NextLevel(Levels(h)[n])
<1> DEFINE c == CHOOSE f : f = [n \in Nat |-> IF n = 0 THEN TopLevel(h) ELSE NextLevel(f[n - 1])]
           at0(n) == CHOOSE f : FirstLevels(h, n, f)
           F == [n \in Nat |-> at0(n)[n]]
<1>1. Levels(h) = c
  BY DEF Levels, NextLevel, TopLevel
<1>2. \A n \in Nat : FirstLevels(h, n, at0(n))
  BY FirstLevelsExist
<1> HIDE DEF at0
<1>3. ASSUME NEW n \in Nat
      PROVE  F[n] = IF n = 0 THEN TopLevel(h) ELSE NextLevel(F[n - 1])
  <2>1. FirstLevels(h, n, at0(n)) /\ n \in 0 .. n
    BY <1>2
  <2>2. at0(n)[n] = IF n = 0 THEN TopLevel(h) ELSE NextLevel(at0(n)[n - 1])
    BY <2>1, LevelIs
  <2>3. ASSUME n # 0 PROVE at0(n)[n - 1] = at0(n - 1)[n - 1]
    <3>1. n - 1 \in Nat /\ n - 1 <= n /\ n - 1 <= n - 1
      BY <2>3
    <3>2. FirstLevels(h, n - 1, at0(n - 1))
      BY <1>2, <3>1
    <3> DEFINE p == n - 1
    <3> HIDE DEF p
    <3>3. at0(n)[p] = at0(p)[p]
      BY <2>1, <3>1, <3>2, LevelsAgree DEF p
    <3> QED
      BY <3>3 DEF p
  <2>4. n # 0 => n - 1 \in Nat
    OBVIOUS
  <2> QED
    BY <2>2, <2>3, <2>4
<1>4. F = [n \in Nat |-> IF n = 0 THEN TopLevel(h) ELSE NextLevel(F[n - 1])]
  BY <1>3
<1> HIDE DEF F
<1>5. c = [n \in Nat |-> IF n = 0 THEN TopLevel(h) ELSE NextLevel(c[n - 1])]
  BY <1>4
<1> HIDE DEF c
<1>6. \A n \in Nat : c[n] = IF n = 0 THEN TopLevel(h) ELSE NextLevel(c[n - 1])
  BY <1>5, Zenon
<1>7. \A n \in Nat : n + 1 \in Nat /\ n + 1 # 0 /\ n + 1 - 1 = n
  OBVIOUS
<1>8. c[0] = TopLevel(h)
  BY <1>6
<1>9. \A n \in Nat : c[n + 1] = NextLevel(c[n])
  BY <1>6, <1>7
<1> QED
  BY <1>1, <1>8, <1>9

-----------------------------------------------------------------------------
(* The root hash of a trie stands for its map *)

IsTrie(T, map) == IsHeap(T) /\ Root \in DOMAIN T /\ IsTrieOf(T, map)

LEMMA KidsExist ==
    ASSUME NEW l, NEW r
    PROVE  /\ l = NilHash /\ r = NilHash => Existing(l, r) = <<>>
           /\ l # NilHash /\ r = NilHash => Existing(l, r) = <<l>>
           /\ l = NilHash /\ r # NilHash => Existing(l, r) = <<r>>
           /\ l # NilHash /\ r # NilHash => Existing(l, r) = <<l, r>>
<1>1. <<>> \o <<>> = <<>> /\ <<l>> \o <<>> = <<l>> /\ <<>> \o <<r>> = <<r>> /\ <<l>> \o <<r>> = <<l, r>>
  <2> DEFINE Q == {l, r}
  <2>1. <<>> \in Seq(Q) /\ <<l>> \in Seq(Q) /\ <<r>> \in Seq(Q)
    OBVIOUS
  <2>2. <<>> \o <<>> = <<>>
    OBVIOUS
  <2>3. <<l>> \o <<>> = <<l>>
    BY <2>1, ConcatEmptySeq
  <2>4. <<>> \o <<r>> = <<r>>
    BY <2>1, ConcatEmptySeq
  <2>5. <<l>> \o <<r>> = <<l, r>>
    <3> DEFINE a == <<l>>
               b == <<r>>
               u == a \o b
    <3>1. a \in Seq(Q) /\ b \in Seq(Q) /\ Len(a) = 1 /\ Len(b) = 1 /\ a[1] = l /\ b[1] = r
      OBVIOUS
    <3> HIDE DEF a, b, Q
    <3>2. /\ u \in Seq(Q) /\ Len(u) = Len(a) + Len(b)
          /\ \A x \in 1 .. Len(a) + Len(b) : u[x] = IF x <= Len(a) THEN a[x] ELSE b[x - Len(a)]
      BY <3>1, ConcatProperties
    <3> HIDE DEF u
    <3>3. u \in Seq(Q) /\ Len(u) = 2 /\ u[1] = l /\ u[2] = r
      BY <3>1, <3>2
    <3>4. u = <<l, r>>
      BY <3>3
    <3> QED
      BY <3>4 DEF a, b, u
  <2> QED
    BY <2>2, <2>3, <2>4, <2>5
<1> QED
  BY <1>1 DEF Existing

\* A node of a trie below the root.
LEMMA TrieNode ==
    ASSUME NEW T, NEW map, IsTrie(T, map), NEW m \in DOMAIN T \ {Root}
    PROVE  /\ T[m].parent \in DOMAIN T /\ Len(T[m].partial) > 0
           /\ T[m].partial[1] \in Bit /\ ChildOf(T, T[m].parent, T[m].partial[1]) = m
           /\ T[m].key = T[T[m].parent].key \o T[m].partial
           /\ Len(T[m].key) = Len(T[T[m].parent].key) + Len(T[m].partial)
           /\ IsPrefix(T[T[m].parent].key, T[m].key)
           /\ T[m].key[Len(T[T[m].parent].key) + 1] = T[m].partial[1]
           /\ T[m].hash # NilHash
<1> DEFINE up == T[m].parent
           p == T[m].partial
           s == T[up].key
<1>1. up \in DOMAIN T /\ p # <<>> /\ ChildOf(T, up, Head(p)) = m /\ T[m].key = s \o p
  BY Zenon DEF IsTrie, IsTrieOf
<1>2. p \in Seq(Bit) /\ s \in Seq(Bit) /\ Len(p) \in Nat /\ Len(s) \in Nat
  BY <1>1, HeapFields DEF IsTrie
<1>3. Len(p) > 0 /\ Head(p) = p[1] /\ p[1] \in Bit
  BY <1>1, <1>2
<1>4. T[m].hash = HashOfNode(T, m)
  BY DEF IsTrie, IsTrieOf
<1>5. T[m].hash.partial = p
  BY <1>4 DEF HashOfNode, NodeHash
<1>6. T[m].hash # NilHash
  BY <1>1, <1>5 DEF NilHash
<1> HIDE DEF up, p, s
<1> DEFINE u == s \o p
<1>7. /\ u \in Seq(Bit) /\ Len(u) = Len(s) + Len(p)
      /\ \A x \in 1 .. Len(s) + Len(p) : u[x] = IF x <= Len(s) THEN s[x] ELSE p[x - Len(s)]
  BY <1>2, ConcatProperties
<1> HIDE DEF u
<1>8. IsPrefix(s, u)
  <2>0. \A x \in 1 .. Len(s) : x \in 1 .. Len(s) + Len(p) /\ x <= Len(s)
    BY <1>2
  <2>1. \A x \in 1 .. Len(s) : s[x] = u[x]
    BY <1>7, <2>0
  <2>2. Len(s) <= Len(u)
    BY <1>2, <1>7
  <2> QED
    BY <1>2, <1>7, <2>1, <2>2, PrefixIs
<1>9. u[Len(s) + 1] = p[1]
  <2>1. Len(s) + 1 \in 1 .. Len(s) + Len(p) /\ ~ (Len(s) + 1 <= Len(s)) /\ Len(s) + 1 - Len(s) = 1
    BY <1>2, <1>3
  <2> QED
    BY <1>7, <2>1
<1>10. /\ up \in DOMAIN T /\ Len(p) > 0 /\ p[1] \in Bit /\ ChildOf(T, up, p[1]) = m
       /\ T[m].key = s \o p /\ Len(T[m].key) = Len(s) + Len(p) /\ IsPrefix(s, T[m].key)
       /\ T[m].key[Len(s) + 1] = p[1]
  BY <1>1, <1>3, <1>7, <1>8, <1>9 DEF u
<1> QED
  BY <1>6, <1>10 DEF up, p, s

\* The hashes a node's hash is made of are those of its children.
LEMMA TrieKids ==
    ASSUME NEW T, NEW map, IsTrie(T, map), NEW m \in DOMAIN T
    PROVE  /\ T[m].hash.partial = T[m].partial /\ T[m].hash.value = T[m].value
           /\ T[m].hash.kids = Existing(HashAt(T, T[m].left), HashAt(T, T[m].right))
           /\ \A i \in DOMAIN T[m].hash.kids : \E b \in Bit, c \in DOMAIN T \ {Root} :
                  /\ c = ChildOf(T, m, b) /\ T[c].parent = m /\ T[c].partial[1] = b
                  /\ T[m].hash.kids[i] = T[c].hash
           /\ \A b \in Bit : ChildOf(T, m, b) # Nil =>
                  /\ ChildOf(T, m, b) \in DOMAIN T \ {Root}
                  /\ T[ChildOf(T, m, b)].parent = m /\ T[ChildOf(T, m, b)].partial[1] = b
                  /\ HashAt(T, ChildOf(T, m, b)) = T[ChildOf(T, m, b)].hash
                  /\ HashAt(T, ChildOf(T, m, b)) # NilHash
                  /\ \E i \in DOMAIN T[m].hash.kids : T[m].hash.kids[i] = T[ChildOf(T, m, b)].hash
<1> DEFINE l == HashAt(T, T[m].left)
           r == HashAt(T, T[m].right)
           k == T[m].hash.kids
<1>1. T[m].hash = HashOfNode(T, m)
  BY DEF IsTrie, IsTrieOf
<1>2. T[m].hash.partial = T[m].partial /\ T[m].hash.value = T[m].value /\ k = Existing(l, r)
  BY <1>1 DEF HashOfNode, NodeHash
<1>3. ASSUME NEW b \in Bit, NEW c, c = ChildOf(T, m, b), c # Nil
      PROVE  c \in DOMAIN T \ {Root} /\ T[c].parent = m /\ T[c].partial[1] = b /\ T[c].hash # NilHash
             /\ HashAt(T, c) = T[c].hash
  <2>1. c \in DOMAIN T \ {Root} /\ T[c].parent = m /\ Head(T[c].partial) = b
    BY <1>3 DEF IsTrie, IsTrieOf, Bit
  <2>2. T[c].partial \in Seq(Bit) /\ Len(T[c].partial) > 0
    BY <2>1, TrieNode, HeapFields DEF IsTrie
  <2>3. T[c].partial[1] = b
    BY <2>1, <2>2
  <2> QED
    BY <1>3, <2>1, <2>3, TrieNode DEF HashAt
<1>4. T[m].left = ChildOf(T, m, 0) /\ T[m].right = ChildOf(T, m, 1) /\ 0 \in Bit /\ 1 \in Bit
      /\ \A b \in Bit : b = 0 \/ b = 1
  BY DEF ChildOf, Bit
<1>5. (l # NilHash <=> T[m].left # Nil) /\ (r # NilHash <=> T[m].right # Nil)
  BY <1>3, <1>4 DEF HashAt
<1> HIDE DEF l, r
<1>6. ASSUME NEW i \in DOMAIN k
      PROVE  \E b \in Bit, c \in DOMAIN T \ {Root} :
                 c = ChildOf(T, m, b) /\ T[c].parent = m /\ T[c].partial[1] = b /\ k[i] = T[c].hash
  <2>1. \/ l # NilHash /\ k[i] = l
        \/ r # NilHash /\ k[i] = r
    <3> HIDE DEF k
    <3>1. \/ l = NilHash /\ r = NilHash /\ k = <<>>
          \/ l # NilHash /\ r = NilHash /\ k = <<l>>
          \/ l = NilHash /\ r # NilHash /\ k = <<r>>
          \/ l # NilHash /\ r # NilHash /\ k = <<l, r>>
      BY <1>2, KidsExist
    <3> QED
      BY <1>6, <3>1
  <2>2. CASE l # NilHash /\ k[i] = l
    BY <1>3, <1>4, <1>5, <2>2 DEF l
  <2>3. CASE r # NilHash /\ k[i] = r
    BY <1>3, <1>4, <1>5, <2>3 DEF r
  <2> QED
    BY <2>1, <2>2, <2>3
<1>7. ASSUME NEW b \in Bit, NEW c, c = ChildOf(T, m, b), c # Nil
      PROVE  \E i \in DOMAIN k : k[i] = T[c].hash
  <2>1. (l # NilHash => \E i \in DOMAIN k : k[i] = l) /\ (r # NilHash => \E i \in DOMAIN k : k[i] = r)
    <3> HIDE DEF k
    <3>1. \/ l = NilHash /\ r = NilHash /\ k = <<>>
          \/ l # NilHash /\ r = NilHash /\ k = <<l>>
          \/ l = NilHash /\ r # NilHash /\ k = <<r>>
          \/ l # NilHash /\ r # NilHash /\ k = <<l, r>>
      BY <1>2, KidsExist
    <3>2. CASE l = NilHash /\ r = NilHash
      BY <3>2
    <3>3. CASE l # NilHash /\ r = NilHash /\ k = <<l>>
      <4>1. 1 \in DOMAIN k /\ k[1] = l
        BY <3>3
      <4> QED
        BY <3>3, <4>1
    <3>4. CASE l = NilHash /\ r # NilHash /\ k = <<r>>
      <4>1. 1 \in DOMAIN k /\ k[1] = r
        BY <3>4
      <4> QED
        BY <3>4, <4>1
    <3>5. CASE l # NilHash /\ r # NilHash /\ k = <<l, r>>
      <4>1. 1 \in DOMAIN k /\ k[1] = l /\ 2 \in DOMAIN k /\ k[2] = r
        BY <3>5
      <4> QED
        BY <4>1
    <3> QED
      BY <3>1, <3>2, <3>3, <3>4, <3>5
  <2>2. T[c].hash # NilHash /\ HashAt(T, c) = T[c].hash
    BY <1>3, <1>7
  <2>3. CASE b = 0
    BY <1>4, <1>7, <2>1, <2>2, <2>3 DEF l
  <2>4. CASE b = 1
    BY <1>4, <1>7, <2>1, <2>2, <2>4 DEF r
  <2> QED
    BY <1>4, <2>3, <2>4
<1>8. \A b \in Bit : ChildOf(T, m, b) # Nil =>
          /\ ChildOf(T, m, b) \in DOMAIN T \ {Root}
          /\ T[ChildOf(T, m, b)].parent = m /\ T[ChildOf(T, m, b)].partial[1] = b
          /\ HashAt(T, ChildOf(T, m, b)) = T[ChildOf(T, m, b)].hash
          /\ HashAt(T, ChildOf(T, m, b)) # NilHash
          /\ \E i \in DOMAIN k : k[i] = T[ChildOf(T, m, b)].hash
  BY <1>3, <1>7
<1> QED
  BY <1>2, <1>6, <1>8, Zenon DEF l, r

\* What is at a level stands for a node.
LEMMA LevelOfTrie ==
    ASSUME NEW T, NEW map, IsTrie(T, map), NEW n \in Nat
    PROVE  \A x \in Levels(T[Root].hash)[n] : \E m \in DOMAIN T : x = <<T[m].hash, T[m].key>>
<1> DEFINE h == T[Root].hash
           L == Levels(h)
           D == {i \in Nat : \E x \in L[i] : \A m \in DOMAIN T : x # <<T[m].hash, T[m].key>>}
<1> SUFFICES ASSUME D # {} PROVE FALSE
  OBVIOUS
<1>1. D \subseteq Nat
  OBVIOUS
<1>2. Min(D) \in D /\ \A y \in D : Min(D) <= y
  BY <1>1, NatMin
<1> DEFINE i == Min(D)
<1>3. i \in Nat /\ i \in D /\ \A y \in D : i <= y
  BY <1>2
<1> HIDE DEF i
<1>4. PICK x \in L[i] : \A m \in DOMAIN T : x # <<T[m].hash, T[m].key>>
  BY <1>3
<1>5. L[0] = TopLevel(h) /\ \A y \in Nat : L[y + 1] = NextLevel(L[y])
  <2> HIDE DEF h
  <2> QED
    BY LevelsAre, Zenon
<1>6. Root \in DOMAIN T /\ T[Root].key = <<>> /\ T[Root].partial = <<>> /\ h.partial = T[Root].partial
  <2>1. Root \in DOMAIN T /\ T[Root].key = <<>> /\ T[Root].partial = <<>>
    BY Zenon DEF IsTrie, IsTrieOf
  <2> QED
    BY <2>1, TrieKids
<1> HIDE DEF h, L
<1>7. i # 0
  BY <1>4, <1>5, <1>6 DEF h, TopLevel
<1>8. i - 1 \in Nat /\ (i - 1) + 1 = i /\ i - 1 \notin D
  BY <1>3, <1>7
<1>9. x \in NextLevel(L[i - 1]) /\ \A y \in L[i - 1] : \E m \in DOMAIN T : y = <<T[m].hash, T[m].key>>
  BY <1>4, <1>5, <1>8
<1> HIDE DEF D
<1>10. PICK y \in L[i - 1] : x \in {<<y[1].kids[j], y[2] \o y[1].kids[j].partial>> : j \in DOMAIN y[1].kids}
  BY <1>9 DEF NextLevel
<1>11. PICK m \in DOMAIN T : y = <<T[m].hash, T[m].key>>
  BY <1>9, <1>10
<1>12. PICK j \in DOMAIN T[m].hash.kids : x = <<T[m].hash.kids[j], T[m].key \o T[m].hash.kids[j].partial>>
  BY <1>10, <1>11
<1>13. PICK b \in Bit, c \in DOMAIN T \ {Root} : T[c].parent = m /\ T[m].hash.kids[j] = T[c].hash
  BY <1>11, <1>12, TrieKids
<1>14. T[c].key = T[m].key \o T[c].partial /\ T[c].hash.partial = T[c].partial
  <2>1. T[c].key = T[m].key \o T[c].partial
    BY <1>13, TrieNode
  <2>2. T[c].hash.partial = T[c].partial
    BY <1>13, TrieKids
  <2> QED
    BY <2>1, <2>2
<1>15. x = <<T[c].hash, T[c].key>>
  BY <1>12, <1>13, <1>14
<1> QED
  BY <1>4, <1>13, <1>15

\* Each node is at a level, no deeper than its prefix is long.
LEMMA NodeHasLevel ==
    ASSUME NEW T, NEW map, IsTrie(T, map), NEW n \in DOMAIN T
    PROVE  \E i \in 0 .. Len(T[n].key) : <<T[n].hash, T[n].key>> \in Levels(T[Root].hash)[i]
<1> DEFINE h == T[Root].hash
           L == Levels(h)
           Missing(m) == \A i \in 0 .. Len(T[m].key) : <<T[m].hash, T[m].key>> \notin L[i]
           D == {Len(T[m].key) : m \in {j \in DOMAIN T : Missing(j)}}
<1> SUFFICES ASSUME Missing(n) PROVE FALSE
  OBVIOUS
<1>1. D \subseteq Nat /\ D # {}
  <2> HIDE DEF Missing
  <2>1. \A m \in DOMAIN T : Len(T[m].key) \in Nat
    BY HeapFields DEF IsTrie
  <2>2. Len(T[n].key) \in D
    OBVIOUS
  <2> QED
    BY <2>1, <2>2
<1>2. Min(D) \in D /\ \A y \in D : Min(D) <= y
  BY <1>1, NatMin
<1>3. PICK m \in DOMAIN T : Missing(m) /\ Len(T[m].key) = Min(D)
  BY <1>2
<1>4. \A j \in DOMAIN T : Missing(j) => Len(T[m].key) <= Len(T[j].key)
  BY <1>2, <1>3
<1> HIDE DEF D
<1>5. L[0] = TopLevel(h) /\ \A y \in Nat : L[y + 1] = NextLevel(L[y])
  <2> HIDE DEF h
  <2> QED
    BY LevelsAre, Zenon
<1>6. m # Root
  <2>1. T[Root].key = <<>> /\ T[Root].partial = <<>> /\ Root \in DOMAIN T
    BY Zenon DEF IsTrie, IsTrieOf
  <2>2. <<h, T[Root].key>> \in L[0]
    BY <1>5, <2>1, TrieKids DEF TopLevel
  <2>3. 0 \in 0 .. Len(T[Root].key)
    BY <2>1
  <2> HIDE DEF L
  <2> QED
    BY <1>3, <2>2, <2>3
<1> DEFINE up == T[m].parent
           a == Len(T[up].key)
           z == Len(T[m].key)
<1>7. /\ up \in DOMAIN T /\ Len(T[m].partial) > 0 /\ Len(T[m].partial) \in Nat
      /\ ChildOf(T, up, T[m].partial[1]) = m /\ T[m].partial[1] \in Bit
      /\ T[m].key = T[up].key \o T[m].partial
      /\ z = a + Len(T[m].partial) /\ a \in Nat /\ z \in Nat
  BY <1>6, TrieNode, HeapFields DEF IsTrie
<1> HIDE DEF up
<1>8. ~ Missing(up)
  <2> HIDE DEF Missing
  <2> DEFINE p == Len(T[m].partial)
  <2>0. p > 0 /\ p \in Nat /\ z = a + p /\ a \in Nat /\ z \in Nat
    BY <1>7
  <2>1. Missing(up) => z <= a
    BY <1>4, <1>7
  <2> HIDE DEF a, z, p
  <2> QED
    BY <2>0, <2>1
<1>9. PICK i \in 0 .. a : <<T[up].hash, T[up].key>> \in L[i]
  BY <1>8
<1>10. i \in Nat /\ i + 1 \in 0 .. z
  <2> DEFINE p == Len(T[m].partial)
  <2>0. p > 0 /\ p \in Nat /\ z = a + p /\ a \in Nat /\ z \in Nat
    BY <1>7
  <2> HIDE DEF a, z, p
  <2> QED
    BY <1>9, <2>0
<1>11. m # Nil
  BY HeapFields DEF IsTrie
<1>12. \E j \in DOMAIN T[up].hash.kids : T[up].hash.kids[j] = T[m].hash
  BY <1>7, <1>11, TrieKids
<1>13. PICK j \in DOMAIN T[up].hash.kids : T[up].hash.kids[j] = T[m].hash
  BY <1>12
<1>14. T[m].hash.partial = T[m].partial
  BY TrieKids
<1> DEFINE y == <<T[up].hash, T[up].key>>
<1>15. <<T[m].hash, T[m].key>> \in {<<y[1].kids[q], y[2] \o y[1].kids[q].partial>> : q \in DOMAIN y[1].kids}
  BY <1>7, <1>13, <1>14
<1> HIDE DEF y
<1>16. y \in L[i]
  BY <1>9 DEF y
<1> HIDE DEF L
<1>17. <<T[m].hash, T[m].key>> \in NextLevel(L[i])
  BY <1>15, <1>16 DEF NextLevel
<1>18. <<T[m].hash, T[m].key>> \in L[i + 1]
  BY <1>5, <1>10, <1>17
<1> QED
  BY <1>3, <1>10, <1>18

\* The pairs of a prefix and its value.
Pairs(map) == {<<k, map[k]>> : k \in {j \in Keys : map[j] # NoValue}}

LEMMA CommittedHas ==
    ASSUME NEW h, NEW n \in Nat, NEW k \in Keys, n <= Len(k), NEW x, <<x, k>> \in Levels(h)[n],
           x.value # NoValue
    PROVE  <<k, x.value>> \in Committed(h)
<1> DEFINE deepest == UNION {0 .. Len(j) : j \in Keys}
           L == Levels(h)
           y == <<x, k>>
<1>1. n \in deepest
  <2>1. Len(k) \in Nat
    BY KeysAssumption, LenProperties
  <2>2. n \in 0 .. Len(k)
    BY <2>1
  <2> QED
    BY <2>2
<1> HIDE DEF deepest, L
<1>2. y \in UNION {L[i] : i \in deepest}
  BY <1>1 DEF L
<1>3. y[1] = x /\ y[2] = k
  OBVIOUS
<1> HIDE DEF y
<1>4. <<y[2], y[1].value>> \in {<<z[2], z[1].value>> :
                                   z \in {w \in UNION {L[i] : i \in deepest} : w[1].value # NoValue}}
  BY <1>2, <1>3
<1> QED
  BY <1>3, <1>4 DEF Committed, deepest, L

LEMMA CommittedIsMap ==
    ASSUME NEW T, NEW map, IsTrie(T, map)
    PROVE  Committed(T[Root].hash) = Pairs(map)
<1> DEFINE h == T[Root].hash
           deepest == UNION {0 .. Len(j) : j \in Keys}
           L == Levels(h)
<1>1. \A m \in DOMAIN T : IF T[m].leaf THEN T[m].key \in Keys /\ T[m].value # NoValue /\ T[m].value = map[T[m].key]
                          ELSE T[m].value = NoValue
  BY Zenon DEF IsTrie, IsTrieOf
<1>2. \A k \in Keys : map[k] # NoValue => \E m \in DOMAIN T : T[m].leaf /\ T[m].key = k
  BY Zenon DEF IsTrie, IsTrieOf
<1>3. \A m \in DOMAIN T : T[m].hash.value = T[m].value
  BY TrieKids
<1>4. ASSUME NEW e \in Committed(h) PROVE e \in Pairs(map)
  <2>0. PICK x \in UNION {L[n] : n \in deepest} : x[1].value # NoValue /\ e = <<x[2], x[1].value>>
    BY <1>4 DEF Committed
  <2>1. PICK n \in deepest : x \in L[n]
    OBVIOUS
  <2>2. n \in Nat
    <3>1. PICK j \in Keys : n \in 0 .. Len(j)
      BY <2>1
    <3> QED
      BY <3>1
  <2>3. PICK m \in DOMAIN T : x = <<T[m].hash, T[m].key>>
    BY <2>1, <2>2, LevelOfTrie
  <2>4. x[1] = T[m].hash /\ x[2] = T[m].key
    BY <2>3
  <2>5. T[m].key \in Keys /\ T[m].value # NoValue /\ T[m].value = map[T[m].key]
    BY <1>1, <1>3, <2>0, <2>4
  <2> QED
    BY <1>3, <2>0, <2>4, <2>5 DEF Pairs
<1>5. ASSUME NEW e \in Pairs(map) PROVE e \in Committed(h)
  <2>1. PICK k \in Keys : map[k] # NoValue /\ e = <<k, map[k]>>
    BY <1>5 DEF Pairs
  <2>2. PICK m \in DOMAIN T : T[m].leaf /\ T[m].key = k
    BY <1>2, <2>1
  <2>3. T[m].hash.value = map[k]
    BY <1>1, <1>3, <2>2
  <2>4. PICK n \in 0 .. Len(k) : <<T[m].hash, k>> \in Levels(h)[n]
    BY <2>2, NodeHasLevel
  <2>5. n \in Nat /\ n <= Len(k)
    BY KeysAssumption, LenProperties
  <2> HIDE DEF h
  <2>6. <<k, T[m].hash.value>> \in Committed(h)
    BY <2>1, <2>3, <2>4, <2>5, CommittedHas
  <2> QED
    BY <2>1, <2>3, <2>6
<1> QED
  BY <1>4, <1>5

\* Two tries with the same root hash are tries of the same map: who has
\* checked a root hash has checked each value.
THEOREM HashTellsMap ==
    ASSUME NEW S, NEW T, NEW map \in [Keys -> Values \cup {NoValue}],
           NEW other \in [Keys -> Values \cup {NoValue}], IsTrie(S, map), IsTrie(T, other),
           S[Root].hash = T[Root].hash
    PROVE  map = other
<1>1. Pairs(map) = Pairs(other)
  BY CommittedIsMap
<1>2. ASSUME NEW k \in Keys PROVE map[k] = other[k]
  <2>1. map[k] # NoValue => <<k, map[k]>> \in Pairs(other)
    BY <1>1 DEF Pairs
  <2>2. other[k] # NoValue => <<k, other[k]>> \in Pairs(map)
    BY <1>1 DEF Pairs
  <2> QED
    BY <2>1, <2>2 DEF Pairs
<1> QED
  BY <1>2

\* Between calls of PrefixAppend the root hash stands for what was appended.
THEOREM HashStandsForContent ==
    Spec => [](wpc = "idle" => Committed(nodes[Root].hash) = Pairs(content))
<1>1. TrieInv => (wpc = "idle" => Committed(nodes[Root].hash) = Pairs(content))
  <2> SUFFICES ASSUME TrieInv, wpc = "idle" PROVE Committed(nodes[Root].hash) = Pairs(content)
    OBVIOUS
  <2>1. IsTrie(nodes, content)
    BY TrieFollows DEF StaysTrie, IsTrie, TrieInv, TreeInv, NodesFit
  <2> QED
    BY <2>1, CommittedIsMap
<1> QED
  BY <1>1, TrieInvIsInductive, PTL

-----------------------------------------------------------------------------
(* What else the writer keeps, for clients that climb while it runs *)

\* A hash covers the partial prefix of its node, but for a node that has
\* been cut and not rehashed yet.
HashesSpell ==
    \A n \in DOMAIN nodes :
        \/ nodes[n].hash = NilHash \/ nodes[n].hash.partial = nodes[n].partial
        \/ n = job.node /\ wpc \in {"setParent", "link", "rehash"}

\* The pointer to the parent leads to a node whose prefix is continued, and
\* whose prefix the partial one does not overlap.
ParentFits(n, up) ==
    /\ Below(up, n)
    /\ Len(nodes[n].partial) + Len(nodes[up].key) <= Len(nodes[n].key)

ParentsFit == \A n \in DOMAIN nodes \ {Root} : ParentFits(n, nodes[n].parent)

\* Nothing is ever appended on the right of the root.
KeysBegin == \A n \in DOMAIN nodes \ {Root} : nodes[n].key[1] = 0

\* The new parent of a split has no hash yet, and stands beside the node
\* that it is to be the parent of.
SplitFits ==
    /\ Moving => nodes[job.prev].hash = NilHash
    /\ wpc \in {"cut", "setParent"} => nodes[job.node].parent = nodes[job.prev].parent

ClimbInv == HashesSpell /\ ParentsFit /\ KeysBegin /\ SplitFits

LEMMA ClimbInitInv == Init => ClimbInv
<1> SUFFICES ASSUME Init PROVE ClimbInv
  OBVIOUS
<1>1. DOMAIN nodes = {Root} /\ nodes[Root].hash = NilHash /\ wpc = "idle"
  BY DEF Init, Interior, Root
<1> QED
  BY <1>1 DEF ClimbInv, HashesSpell, ParentsFit, KeysBegin, SplitFits, Moving

\* A step that adds no node and changes no pointer to a parent.
LEMMA ParentsStay ==
    ASSUME TreeInv, TreeInv', ParentsFit, KeysBegin, NodesStay, DOMAIN nodes' = DOMAIN nodes,
           SameParent(nodes', nodes)
    PROVE  ParentsFit' /\ KeysBegin'
<1>1. \A n \in DOMAIN nodes : /\ nodes'[n].key = nodes[n].key /\ nodes'[n].parent = nodes[n].parent
                              /\ Len(nodes'[n].partial) <= Len(nodes[n].partial)
  BY DEF NodesStay, SameParent
<1>2. \A n \in DOMAIN nodes : /\ Len(nodes'[n].partial) \in Nat /\ Len(nodes[n].partial) \in Nat
                              /\ Len(nodes[n].key) \in Nat
  <2>1. \A n \in DOMAIN nodes : Len(nodes[n].partial) \in Nat /\ Len(nodes[n].key) \in Nat
    BY TypesOfTree
  <2>2. IsHeap(nodes')
    BY DEF TreeInv, NodesFit
  <2>3. \A n \in DOMAIN nodes' : Len(nodes'[n].partial) \in Nat
    BY <2>2, HeapFields
  <2> QED
    BY <2>1, <2>3
<1>3. ASSUME NEW n \in DOMAIN nodes \ {Root} PROVE ParentFits(n, nodes[n].parent)'
  <2> DEFINE up == nodes[n].parent
             a == Len(nodes[n].partial)
             b == Len(nodes'[n].partial)
             c == Len(nodes[up].key)
             d == Len(nodes[n].key)
  <2>1. up \in DOMAIN nodes /\ ParentFits(n, up)
    BY DEF ParentsFit, TreeInv, NodesFit
  <2>2. a \in Nat /\ b \in Nat /\ c \in Nat /\ d \in Nat /\ b <= a /\ a + c <= d
    BY <1>1, <1>2, <2>1 DEF ParentFits
  <2>3. nodes'[up].key = nodes[up].key /\ nodes'[n].key = nodes[n].key /\ nodes'[n].parent = up
    BY <1>1, <2>1
  <2>4. b + c <= d
    <3> HIDE DEF a, b, c, d
    <3> QED
      BY <2>2
  <2> HIDE DEF up
  <2> QED
    BY <2>1, <2>3, <2>4 DEF ParentFits, Below
<1>4. KeysBegin'
  BY <1>1 DEF KeysBegin
<1> QED
  BY <1>3, <1>4 DEF ParentsFit

\* A pointer to a parent changes to the new parent of a split.
ParentsMove ==
    \A n \in DOMAIN nodes :
        \/ nodes'[n].parent = nodes[n].parent
        \/ Moving' /\ nodes'[n].parent = job'.prev

LEMMA RootIsThere == TreeInv => Root \in DOMAIN nodes
BY DEF TreeInv, NodesFit

\* A step that stores nothing.

LEMMA ClimbInvStays ==
    ASSUME TreeInv, TreeInv', ClimbInv, nodes' = nodes, NodesStay, ~ Moving', ~ Moving, wpc # "rehash"
    PROVE  ClimbInv'
<1>1. ParentsFit' /\ KeysBegin'
  BY ParentsStay DEF ClimbInv, SameParent
<1>2. HashesSpell' /\ SplitFits'
  BY DEF ClimbInv, HashesSpell, SplitFits, Moving
<1> QED
  BY <1>1, <1>2 DEF ClimbInv

LEMMA SetValueClimb ==
    ASSUME TreeInv, TreeInv', ClimbInv, NodesStay, SetValue
    PROVE  ClimbInv' /\ nodes'[Root].hash = nodes[Root].hash /\ ParentsMove
<1>1. /\ wpc = "replace" /\ wpc' = "update" /\ job' = job
      /\ nodes' = [nodes EXCEPT ![job.node].value = job.value]
  BY DEF SetValue
<1>2. IsHeap(nodes) /\ job.node \in DOMAIN nodes /\ job.value \in Values
  BY <1>1 DEF TreeInv, NodesFit, JobFits
<1>3. ValueStored(nodes', nodes, job.node, job.value)
  BY <1>1, <1>2, StoreValue, Zenon
<1>4. /\ DOMAIN nodes' = DOMAIN nodes /\ SameParent(nodes', nodes)
      /\ \A n \in DOMAIN nodes : nodes'[n].partial = nodes[n].partial /\ nodes'[n].hash = nodes[n].hash
  BY <1>3 DEF ValueStored, SamePartial, SameHash
<1>5. ParentsFit' /\ KeysBegin'
  BY <1>4, ParentsStay DEF ClimbInv
<1>6. HashesSpell' /\ SplitFits'
  BY <1>1, <1>4 DEF ClimbInv, HashesSpell, SplitFits, Moving
<1> QED
  BY <1>1, <1>4, RootIsThere, <1>5, <1>6 DEF ClimbInv, ParentsMove, SameParent

LEMMA CutPrefixClimb ==
    ASSUME TreeInv, TreeInv', ClimbInv, NodesStay, CutPrefix
    PROVE  ClimbInv' /\ nodes'[Root].hash = nodes[Root].hash /\ ParentsMove
<1> DEFINE e == job.node
           q == SubSeq(nodes[e].partial, job.j + 1, Len(nodes[e].partial))
<1>1. /\ wpc = "cut" /\ wpc' = "setParent" /\ job' = job /\ Moving
      /\ nodes' = [nodes EXCEPT ![e].partial = q]
  BY DEF CutPrefix, Moving
<1>2. IsHeap(nodes) /\ e \in DOMAIN nodes /\ job.prev \in DOMAIN nodes
  BY <1>1 DEF TreeInv, NodesFit, JobFits, BranchesOff, AtNode
<1>3. q \in Seq(Bit)
  <2>1. job.j \in 0 .. Len(nodes[e].partial)
    <3>1. /\ Len(nodes[e].partial) = Len(nodes[e].key) - job.i + job.j /\ job.i < Len(nodes[e].key)
      BY <1>1 DEF TreeInv, JobFits, BranchesOff
    <3>2. Len(nodes[e].partial) \in Nat /\ Len(nodes[e].key) \in Nat /\ job.i \in Nat /\ job.j \in Nat
      BY <1>2, TypesOfTree
    <3> QED
      BY <3>1, <3>2
  <2>2. nodes[e].partial \in Seq(Bit)
    BY <1>2, TypesOfTree
  <2> QED
    BY <2>1, <2>2, LastBits, Zenon
<1> HIDE DEF q
<1>4. PartialStored(nodes', nodes, e, q)
  BY <1>1, <1>2, <1>3, StorePartial, Zenon
<1>5. /\ DOMAIN nodes' = DOMAIN nodes /\ SameParent(nodes', nodes)
      /\ \A n \in DOMAIN nodes : nodes'[n].hash = nodes[n].hash /\ nodes'[n].parent = nodes[n].parent
      /\ \A n \in DOMAIN nodes : n # e => nodes'[n].partial = nodes[n].partial
  BY <1>4 DEF PartialStored, SameHash, SameParent
<1>6. ParentsFit' /\ KeysBegin'
  BY <1>5, ParentsStay DEF ClimbInv
<1>7. HashesSpell'
  BY <1>1, <1>5 DEF ClimbInv, HashesSpell
<1>8. SplitFits'
  BY <1>1, <1>2, <1>5 DEF ClimbInv, SplitFits
<1> QED
  BY <1>1, <1>5, RootIsThere, <1>6, <1>7, <1>8 DEF ClimbInv, ParentsMove, SameParent

LEMMA SetParentClimb ==
    ASSUME TreeInv, TreeInv', ClimbInv, NodesStay, SetParent
    PROVE  ClimbInv' /\ nodes'[Root].hash = nodes[Root].hash /\ ParentsMove
<1> DEFINE e == job.node
           p == job.prev
<1>1. /\ wpc = "setParent" /\ wpc' = "link" /\ job' = job /\ Moving /\ Moving'
      /\ nodes' = [nodes EXCEPT ![e].parent = p]
  BY DEF SetParent, Moving
<1>2. /\ IsHeap(nodes) /\ e \in DOMAIN nodes /\ p \in DOMAIN nodes /\ p \in Nat
      /\ Len(nodes[e].partial) = Len(nodes[e].key) - job.i /\ job.i < Len(nodes[e].key)
      /\ job.i = Len(nodes[p].key) /\ IsPrefix(nodes[p].key, nodes[e].key)
  BY <1>1, TypesOfTree DEF TreeInv, NodesFit, JobFits, BranchesOff, AtNode
<1>3. ParentStored(nodes', nodes, e, p)
  BY <1>1, <1>2, StoreParent, Zenon
<1>4. /\ DOMAIN nodes' = DOMAIN nodes
      /\ \A n \in DOMAIN nodes : /\ nodes'[n].hash = nodes[n].hash /\ nodes'[n].key = nodes[n].key
                                /\ nodes'[n].partial = nodes[n].partial
                                /\ nodes'[n].parent = IF n = e THEN p ELSE nodes[n].parent
  BY <1>3 DEF ParentStored, SameHash, SamePartial, SameKey
<1>5. ParentFits(e, p)
  <2> DEFINE a == Len(nodes[e].partial)
             d == Len(nodes[e].key)
  <2>1. a \in Nat /\ d \in Nat /\ job.i \in Nat /\ a = d - job.i
    BY <1>2, TypesOfTree
  <2>2. a + job.i <= d
    <3> HIDE DEF a, d
    <3> QED
      BY <2>1
  <2> QED
    BY <1>2, <2>2 DEF ParentFits, Below
<1>6. ASSUME NEW n \in DOMAIN nodes \ {Root} PROVE ParentFits(n, nodes[n].parent)'
  <2>1. CASE n = e
    BY <1>2, <1>4, <1>5, <2>1 DEF ParentFits, Below
  <2>2. CASE n # e
    <3>1. nodes[n].parent \in DOMAIN nodes /\ ParentFits(n, nodes[n].parent)
      BY DEF ClimbInv, ParentsFit, TreeInv, NodesFit
    <3> QED
      BY <1>4, <2>2, <3>1 DEF ParentFits, Below
  <2> QED
    BY <2>1, <2>2
<1>7. HashesSpell' /\ KeysBegin'
  BY <1>1, <1>4 DEF ClimbInv, HashesSpell, KeysBegin
<1>8. SplitFits'
  BY <1>1, <1>2, <1>4 DEF ClimbInv, SplitFits
<1>9. ParentsMove
  BY <1>1, <1>4 DEF ParentsMove
<1> QED
  BY <1>4, <1>6, <1>7, <1>8, <1>9, RootIsThere DEF ClimbInv, ParentsFit

LEMMA LinkClimb ==
    ASSUME TreeInv, TreeInv', ClimbInv, NodesStay, Link
    PROVE  ClimbInv' /\ nodes'[Root].hash = nodes[Root].hash /\ ParentsMove
<1>1. /\ wpc = "link" /\ wpc' = "rehash" /\ job' = job /\ Moving
      /\ nodes' = AddChild(nodes, job.prev, job.node)
  BY DEF Link, Moving
<1>2. /\ IsHeap(nodes) /\ job.node \in DOMAIN nodes /\ job.prev \in DOMAIN nodes
      /\ Len(nodes[job.node].partial) > 0
  BY <1>1 DEF TreeInv, NodesFit, JobFits, BranchesOff, AtNode
<1>3. ChildStored(nodes', nodes, job.prev, job.node)
  BY <1>1, <1>2, StoreChild, Zenon
<1>4. /\ DOMAIN nodes' = DOMAIN nodes /\ SameParent(nodes', nodes)
      /\ \A n \in DOMAIN nodes : nodes'[n].partial = nodes[n].partial /\ nodes'[n].hash = nodes[n].hash
  BY <1>3 DEF ChildStored, SamePartial, SameHash
<1>5. ParentsFit' /\ KeysBegin'
  BY <1>4, ParentsStay DEF ClimbInv
<1>6. HashesSpell' /\ SplitFits'
  BY <1>1, <1>4 DEF ClimbInv, HashesSpell, SplitFits, Moving
<1> QED
  BY <1>1, <1>4, RootIsThere, <1>5, <1>6 DEF ClimbInv, ParentsMove, SameParent

\* RehashNode and UpdateHash.
LEMMA StoreHashClimb ==
    ASSUME TreeInv, TreeInv', ClimbInv, NodesStay, job.node \in DOMAIN nodes,
           nodes' = [nodes EXCEPT ![job.node].hash = HashOfNode(nodes, job.node)],
           wpc \in {"rehash", "update"}, wpc' \in {"attach", "update", "idle"}
    PROVE  /\ ClimbInv' /\ ParentsMove
           /\ job.node # Root => nodes'[Root].hash = nodes[Root].hash
<1> DEFINE e == job.node
           x == HashOfNode(nodes, e)
<1>1. IsHeap(nodes) /\ x.partial = nodes[e].partial
  BY DEF TreeInv, NodesFit, HashOfNode, NodeHash
<1> HIDE DEF x
<1>2. HashStored(nodes', nodes, e, x)
  <2>1. nodes' = [nodes EXCEPT ![e].hash = x]
    BY DEF x
  <2> QED
    BY <1>1, <2>1, StoreHash, Zenon
<1>3. /\ DOMAIN nodes' = DOMAIN nodes /\ SameParent(nodes', nodes)
      /\ \A n \in DOMAIN nodes : nodes'[n].partial = nodes[n].partial
                                 /\ nodes'[n].hash = IF n = e THEN x ELSE nodes[n].hash
  BY <1>2 DEF HashStored, SamePartial
<1>4. ParentsFit' /\ KeysBegin'
  BY <1>3, ParentsStay DEF ClimbInv
<1>5. HashesSpell'
  BY <1>1, <1>3 DEF ClimbInv, HashesSpell
<1>6. SplitFits'
  BY DEF SplitFits, Moving
<1> QED
  BY <1>3, RootIsThere, <1>4, <1>5, <1>6 DEF ClimbInv, ParentsMove, SameParent

\* Where pointers lead to a node, they are those of its parent.
LEMMA LinkedFits ==
    ASSUME TreeInv', NEW n \in DOMAIN nodes' \ {Root}, ~ (Moving' /\ n = job'.node)
    PROVE  ParentFits(n, nodes[n].parent)'
<1>1. IsHeap(nodes')
  BY DEF TreeInv, NodesFit
<1>2. nodes'[n].parent \in DOMAIN nodes' /\ Len(nodes'[n].partial) > 0
  BY DEF TreeInv, NodesFit
<1>3. nodes'[n].partial \in Seq(Bit) /\ n # Nil
  BY <1>1, HeapFields
<1>4. nodes'[n].partial[1] \in Bit
  BY <1>2, <1>3
<1>5. ChildOf(nodes', nodes'[n].parent, nodes'[n].partial[1]) = n
  BY DEF TreeInv, EachIsAChild
<1>9. PICK up \in DOMAIN nodes', b \in Bit : up = nodes'[n].parent /\ ChildOf(nodes', up, b) = n
  BY <1>2, <1>4, <1>5
<1>6. ChildFits(up, b, n)'
  <2>1. ChildrenFit'
    BY DEF TreeInv
  <2>2. ChildOf(nodes', up, b) # Nil
    BY <1>3, <1>9
  <2>3. (ChildOf(nodes, up, b) # Nil => ChildFits(up, b, ChildOf(nodes, up, b)))'
    BY <2>1 DEF ChildrenFit
  <2> QED
    BY <1>9, <2>2, <2>3 DEF ChildFits
<1>7. /\ Len(nodes'[n].key) = Len(nodes'[up].key) + Len(nodes'[n].partial)
      /\ IsPrefix(nodes'[up].key, nodes'[n].key)
  BY <1>6 DEF ChildFits
<1>8. /\ Len(nodes'[up].key) < Len(nodes'[n].key)
      /\ Len(nodes'[n].partial) + Len(nodes'[up].key) <= Len(nodes'[n].key)
  <2> DEFINE a == Len(nodes'[n].partial)
             c == Len(nodes'[up].key)
             d == Len(nodes'[n].key)
  <2>1. a \in Nat /\ c \in Nat /\ d \in Nat /\ a > 0 /\ d = c + a
    BY <1>1, <1>2, <1>7, HeapFields
  <2> HIDE DEF a, c, d
  <2>2. c < d /\ a + c <= d
    BY <2>1
  <2> QED
    BY <2>2 DEF a, c, d
<1> QED
  BY <1>7, <1>8, <1>9 DEF ParentFits, Below

\* A node is added and linked.
LEMMA ExtendedClimb ==
    ASSUME TreeInv, TreeInv', ClimbInv, NodesStay, NEW p \in DOMAIN nodes, NEW r,
           Extended(nodes', nodes, p, r), r.hash = NilHash, r.parent = p, r.key[1] = 0,
           wpc \in {"attach", "split"}, Moving' => job'.node \in DOMAIN nodes
    PROVE  /\ HashesSpell' /\ ParentsFit' /\ KeysBegin'
           /\ nodes'[Len(nodes) + 1].hash = NilHash /\ nodes'[Len(nodes) + 1].parent = p
           /\ \A n \in DOMAIN nodes : /\ nodes'[n].parent = nodes[n].parent
                                     /\ nodes'[n].hash = nodes[n].hash
<1> DEFINE new == Len(nodes) + 1
<1>1. /\ DOMAIN nodes' = DOMAIN nodes \cup {new} /\ new \notin DOMAIN nodes
      /\ \A n \in DOMAIN nodes : /\ nodes'[n].key = nodes[n].key /\ nodes'[n].hash = nodes[n].hash
                                /\ nodes'[n].partial = nodes[n].partial
                                /\ nodes'[n].parent = nodes[n].parent
      /\ nodes'[new].hash = NilHash /\ nodes'[new].parent = p /\ nodes'[new].key = r.key
  BY DEF Extended, SameKey, SameHash, SamePartial, SameParent
<1> HIDE DEF new
<1>2. HashesSpell'
  BY <1>1 DEF ClimbInv, HashesSpell
<1>3. KeysBegin'
  BY <1>1 DEF ClimbInv, KeysBegin
<1>4. ASSUME NEW n \in DOMAIN nodes' \ {Root} PROVE ParentFits(n, nodes[n].parent)'
  <2>1. CASE n = new
    BY <1>1, <2>1, LinkedFits
  <2>2. CASE n # new
    <3>1. nodes[n].parent \in DOMAIN nodes /\ ParentFits(n, nodes[n].parent) /\ n \in DOMAIN nodes
      BY <1>1, <2>2 DEF ClimbInv, ParentsFit, TreeInv, NodesFit
    <3> QED
      BY <1>1, <3>1 DEF ParentFits, Below
  <2> QED
    BY <2>1, <2>2
<1> QED
  BY <1>1, <1>2, <1>3, <1>4 DEF ParentsFit, new

LEMMA AttachLeafClimb ==
    ASSUME TreeInv, TreeInv', ClimbInv, NodesStay, AttachLeaf
    PROVE  ClimbInv' /\ nodes'[Root].hash = nodes[Root].hash /\ ParentsMove
<1> DEFINE p == job.prev
           k == job.key
           q == SubSeq(k, job.i + 1, Len(k))
           r == Leaf(p, q, k, job.value)
<1>1. /\ wpc = "attach" /\ wpc' = "update"
      /\ nodes' = AddChild(Append(nodes, r), p, Len(nodes) + 1)
  BY DEF AttachLeaf
<1>2. /\ k \in Keys /\ job.value \in Values /\ p \in DOMAIN nodes /\ job.i < Len(k) /\ p \in Nat
      /\ IsHeap(nodes)
  BY <1>1, TypesOfTree DEF TreeInv, JobFits, AtNode, NodesFit
<1>3. q \in Seq(Bit) /\ Len(q) > 0
  <2>1. k \in Seq(Bit) /\ Len(k) \in Nat /\ job.i \in Nat /\ job.i \in 0 .. Len(k)
    BY <1>2, TypesOfTree
  <2>2. q \in Seq(Bit) /\ Len(q) = Len(k) - job.i
    BY <2>1, LastBits
  <2>3. job.i < Len(k)
    BY <1>2
  <2> HIDE DEF q, k
  <2> QED
    BY <2>1, <2>2, <2>3
<1>4. k[1] = 0
  BY <1>2, KeysAssumption
<1> HIDE DEF q, k, p
<1>5. /\ r \in NodeRecords({NilHash}) /\ r.hash = NilHash /\ r.parent = p /\ r.key = k
      /\ r.partial = q /\ r.left = Nil /\ r.right = Nil
  <2>1. k \in Seq(Bit)
    BY <1>2, TypesOfTree
  <2> QED
    BY <1>2, <1>3, <2>1 DEF Leaf, NodeRecords, Nil
<1> HIDE DEF r
<1>6. Extended(nodes', nodes, p, r)
  BY <1>1, <1>2, <1>3, <1>5, NewChild, Zenon
<1>7. /\ HashesSpell' /\ ParentsFit' /\ KeysBegin'
      /\ \A n \in DOMAIN nodes : /\ nodes'[n].parent = nodes[n].parent
                                /\ nodes'[n].hash = nodes[n].hash
  BY <1>1, <1>2, <1>4, <1>5, <1>6, ExtendedClimb DEF Moving
<1>8. SplitFits'
  BY <1>1 DEF SplitFits, Moving
<1> QED
  BY <1>1, RootIsThere, <1>7, <1>8 DEF ClimbInv, ParentsMove, SameParent

LEMMA InsertParentClimb ==
    ASSUME TreeInv, TreeInv', ClimbInv, NodesStay, InsertParent
    PROVE  ClimbInv' /\ nodes'[Root].hash = nodes[Root].hash /\ ParentsMove
<1> DEFINE p == job.prev
           e == job.node
           k == job.key
           u == SubSeq(nodes[e].partial, 1, job.j)
           w == SubSeq(k, 1, job.i)
           r == Interior(p, u, w)
           new == Len(nodes) + 1
<1>1. /\ wpc = "split" /\ wpc' = "cut" /\ Moving'
      /\ nodes' = AddChild(Append(nodes, r), p, new)
      /\ job' = [job EXCEPT !.prev = new]
  BY DEF InsertParent, Moving
<1>2. /\ k \in Keys /\ p \in DOMAIN nodes /\ e \in DOMAIN nodes /\ p \in Nat /\ IsHeap(nodes)
      /\ job.j \in 1 .. Len(nodes[e].partial) - 1 /\ job.i < Len(k)
      /\ job.i = Len(nodes[p].key) + job.j /\ e = ChildOf(nodes, p, k[Len(nodes[p].key) + 1])
  BY <1>1, TypesOfTree DEF TreeInv, NodesFit, JobFits
<1>3. /\ k \in Seq(Bit) /\ Len(k) \in Nat /\ job.i \in Nat /\ job.j \in Nat
      /\ nodes[e].partial \in Seq(Bit) /\ Len(nodes[e].partial) \in Nat /\ Len(nodes[p].key) \in Nat
      /\ e # Nil
  BY <1>2, TypesOfTree
<1>4. job.j > 0 /\ job.j \in 0 .. Len(nodes[e].partial) /\ job.i > 0 /\ job.i \in 0 .. Len(k)
      /\ Len(nodes[p].key) + 1 \in 1 .. Len(k)
  <2> DEFINE a == Len(nodes[e].partial)
             c == Len(nodes[p].key)
             l == Len(k)
  <2>1. a \in Nat /\ c \in Nat /\ l \in Nat /\ job.i \in Nat /\ job.j \in 1 .. a - 1 /\ job.i < l /\ job.i = c + job.j
    BY <1>2, <1>3
  <2> HIDE DEF a, c, l
  <2>2. job.j > 0 /\ job.j \in 0 .. a /\ job.i > 0 /\ job.i \in 0 .. l /\ c + 1 \in 1 .. l
    BY <2>1
  <2> QED
    BY <2>2 DEF a, c, l
<1>5. u \in Seq(Bit) /\ Len(u) = job.j
  BY <1>3, <1>4, FirstBits, Zenon
<1>6. w \in Seq(Bit) /\ w[1] = 0
  <2>1. w \in Seq(Bit) /\ \A x \in 1 .. job.i : w[x] = k[x]
    BY <1>3, <1>4, FirstBits, Zenon
  <2>2. 1 \in 1 .. job.i
    BY <1>3, <1>4
  <2>3. k[1] = 0
    BY <1>2, KeysAssumption
  <2> HIDE DEF w, k
  <2> QED
    BY <2>1, <2>2, <2>3
<1>7. nodes[e].parent = p
  <2>1. k[Len(nodes[p].key) + 1] \in Bit
    BY <1>3, <1>4, ElementOfSeq
  <2>2. ChildFits(p, k[Len(nodes[p].key) + 1], e)
    <3> HIDE DEF e, p, k
    <3> QED
      BY <1>2, <1>3, <2>1 DEF TreeInv, ChildrenFit
  <2> QED
    BY <2>2 DEF ChildFits
<1> HIDE DEF u, w
<1>8. /\ r \in NodeRecords({NilHash}) /\ r.hash = NilHash /\ r.parent = p /\ r.key = w
      /\ r.partial = u /\ r.left = Nil /\ r.right = Nil
  BY <1>2, <1>5, <1>6 DEF Interior, NodeRecords, Nil
<1> HIDE DEF r
<1>9. Len(r.partial) > 0 /\ r.key[1] = 0
  BY <1>4, <1>5, <1>6, <1>8
<1>10. Extended(nodes', nodes, p, r)
  BY <1>1, <1>2, <1>8, <1>9, NewChild, Zenon
<1>11. job'.node = e /\ job'.prev = new
  BY <1>1 DEF TreeInv, JobTypeOK
<1> HIDE DEF new, e, p
<1>12. /\ HashesSpell' /\ ParentsFit' /\ KeysBegin'
       /\ nodes'[new].hash = NilHash /\ nodes'[new].parent = p
       /\ \A n \in DOMAIN nodes : /\ nodes'[n].parent = nodes[n].parent
                                 /\ nodes'[n].hash = nodes[n].hash
  BY <1>1, <1>2, <1>8, <1>9, <1>10, <1>11, ExtendedClimb DEF new
<1>13. SplitFits'
  BY <1>1, <1>2, <1>7, <1>11, <1>12 DEF SplitFits
<1> QED
  BY <1>1, RootIsThere, <1>12, <1>13 DEF ClimbInv, ParentsMove, SameParent

LEMMA WriterClimb ==
    ASSUME TreeInv, TreeInv', NodesStay, ClimbInv, WriterStep
    PROVE  ClimbInv' /\ ParentsMove /\ (wpc' # "idle" => nodes'[Root].hash = nodes[Root].hash)
<1>1. ASSUME NEW k \in Keys, NEW v \in Values, PrefixAppend(k, v)
      PROVE  ClimbInv' /\ nodes' = nodes /\ ParentsMove
  BY <1>1, ClimbInvStays DEF PrefixAppend, Moving, ParentsMove
<1>2. CASE NextChild
  <2>1. nodes' = nodes /\ wpc = "descend" /\ ~ Moving /\ ~ Moving'
    BY <1>2 DEF NextChild, Moving
  <2> QED
    BY <2>1, ClimbInvStays DEF ParentsMove
<1>3. CASE RehashNode
  <2>1. /\ job.node \in DOMAIN nodes /\ job.node # Root /\ wpc = "rehash" /\ wpc' = "attach"
        /\ nodes' = [nodes EXCEPT ![job.node].hash = HashOfNode(nodes, job.node)]
    BY <1>3 DEF RehashNode, TreeInv, JobFits, BranchesOff
  <2> QED
    BY <2>1, StoreHashClimb
<1>4. CASE UpdateHash
  <2>1. /\ job.node \in DOMAIN nodes /\ wpc = "update" /\ wpc' \in {"update", "idle"}
        /\ job.node = Root => wpc' = "idle"
        /\ nodes' = [nodes EXCEPT ![job.node].hash = HashOfNode(nodes, job.node)]
    BY <1>4 DEF UpdateHash, TreeInv, JobFits
  <2> QED
    BY <2>1, StoreHashClimb
<1> QED
  BY <1>1, <1>2, <1>3, <1>4, AttachLeafClimb, SetValueClimb, InsertParentClimb, CutPrefixClimb,
     SetParentClimb, LinkClimb
  DEF WriterStep

LEMMA ClimbStutters ==
    ASSUME ClimbInv, UNCHANGED treeVars
    PROVE  ClimbInv'
<1>1. nodes' = nodes /\ wpc' = wpc /\ job' = job
  BY DEF treeVars
<1> QED
  BY <1>1 DEF ClimbInv, HashesSpell, ParentsFit, ParentFits, Below, KeysBegin, SplitFits, Moving

-----------------------------------------------------------------------------
(* The tree as it was when a root hash was stored *)

\* The nodes of a former tree are still there, and a split that is under
\* way is later.
Grown(T) ==
    /\ DOMAIN T \subseteq DOMAIN nodes
    /\ \A n \in DOMAIN T : T[n].key = nodes[n].key
    /\ Moving => job.prev \notin DOMAIN T

\* A tree between two calls that had this root hash.
IsSnapshot(T, h) ==
    /\ \E map \in [Keys -> Values \cup {NoValue}] : IsTrie(T, map)
    /\ T[Root].right = Nil /\ T[Root].hash = h
    /\ Grown(T)

RootStands == \E T : IsSnapshot(T, nodes[Root].hash)

LEMMA GrownStays ==
    ASSUME TreeInv, NodesStay, WriterStep, NEW T, Grown(T)
    PROVE  Grown(T)'
<1>1. DOMAIN T \subseteq DOMAIN nodes' /\ \A n \in DOMAIN T : T[n].key = nodes'[n].key
  BY DEF Grown, NodesStay
<1>2. CASE InsertParent
  <2>1. job'.prev = Len(nodes) + 1
    BY <1>2 DEF InsertParent, TreeInv, JobTypeOK
  <2>2. job'.prev \notin DOMAIN nodes
    BY <2>1, TypesOfTree
  <2> QED
    BY <1>1, <2>2 DEF Grown
<1>3. CASE CutPrefix \/ SetParent
  <2>1. Moving /\ job' = job
    BY <1>3 DEF CutPrefix, SetParent, Moving
  <2> QED
    BY <1>1, <2>1 DEF Grown
<1>4. CASE ~ (InsertParent \/ CutPrefix \/ SetParent)
  <2>1. ~ Moving'
    BY <1>4 DEF WriterStep, PrefixAppend, NextChild, AttachLeaf, SetValue, Link, RehashNode, UpdateHash, Moving
  <2> QED
    BY <1>1, <2>1 DEF Grown
<1> QED
  BY <1>2, <1>3, <1>4

LEMMA GrownStutters ==
    ASSUME UNCHANGED treeVars, NEW T, Grown(T)
    PROVE  Grown(T)'
<1>1. nodes' = nodes /\ wpc' = wpc /\ job' = job
  BY DEF treeVars
<1> QED
  BY <1>1 DEF Grown, Moving

LEMMA InitialRoot ==
    ASSUME Init, TreeInv, StaysTrie
    PROVE  RootStands
<1>1. IsTrie(nodes, content) /\ content \in [Keys -> Values \cup {NoValue}]
  BY DEF StaysTrie, IsTrie, TreeInv, NodesFit, JobTypeOK, Init
<1>2. nodes[Root].right = Nil /\ Grown(nodes)
  BY DEF Init, Interior, Root, Grown, Moving
<1> QED
  BY <1>1, <1>2 DEF RootStands, IsSnapshot

LEMMA RootStays ==
    ASSUME TreeInv, TreeInv', NodesStay, ClimbInv, ClimbInv', StaysTrie', WriterStep, RootStands
    PROVE  RootStands'
<1>1. CASE wpc' # "idle"
  <2>1. nodes'[Root].hash = nodes[Root].hash
    BY <1>1, WriterClimb
  <2>2. PICK T : IsSnapshot(T, nodes[Root].hash)
    BY DEF RootStands
  <2>3. Grown(T)'
    BY <2>2, GrownStays DEF IsSnapshot
  <2>4. IsSnapshot(T, nodes[Root].hash)'
    BY <2>1, <2>2, <2>3 DEF IsSnapshot
  <2> QED
    BY <2>4 DEF RootStands
<1>2. CASE wpc' = "idle"
  <2>1. PICK T : T = nodes'
    OBVIOUS
  <2>2. IsTrie(T, content') /\ content' \in [Keys -> Values \cup {NoValue}]
    BY <1>2, <2>1 DEF StaysTrie, IsTrie, TreeInv, NodesFit, JobTypeOK
  <2>3. T[Root].right = Nil
    <3> SUFFICES ASSUME T[Root].right # Nil PROVE FALSE
      OBVIOUS
    <3>1. ChildOf(T, Root, 1) # Nil /\ 1 \in Bit /\ Root \in DOMAIN T
      BY <2>2 DEF ChildOf, Bit, IsTrie
    <3>2. PICK c : c = ChildOf(T, Root, 1)
      OBVIOUS
    <3>3. ChildFits(Root, 1, c)'
      BY <2>1, <3>1, <3>2 DEF TreeInv, ChildrenFit
    <3>4. c \in DOMAIN T \ {Root} /\ T[c].key[Len(T[Root].key) + 1] = 1 /\ T[Root].key = <<>>
      BY <2>1, <3>3 DEF ChildFits, TreeInv, NodesFit
    <3>5. T[c].key[1] = 1
      BY <3>4
    <3> QED
      BY <2>1, <3>4, <3>5 DEF ClimbInv, KeysBegin
  <2>4. Grown(T)'
    BY <1>2, <2>1 DEF Grown, Moving
  <2>5. IsSnapshot(T, nodes[Root].hash)'
    BY <2>1, <2>2, <2>3, <2>4 DEF IsSnapshot
  <2> QED
    BY <2>5 DEF RootStands
<1> QED
  BY <1>1, <1>2

-----------------------------------------------------------------------------
(* Nodes and the sides they are on *)

\* The side of a node's parent on which the node is.
Side(x, up) == nodes[x].key[Len(nodes[up].key) + 1]

\* A pointer leads to a child on its side.
LEMMA ChildSide ==
    ASSUME TreeInv, NEW up \in DOMAIN nodes, NEW b \in Bit, NEW c, c = ChildOf(nodes, up, b), c # Nil
    PROVE  /\ c \in DOMAIN nodes \ {Root} /\ nodes[c].parent = up /\ Side(c, up) = b
           /\ nodes[c].partial[1] = b /\ Len(nodes[c].partial) > 0 /\ Below(up, c)
<1>1. ChildFits(up, b, c)
  BY DEF TreeInv, ChildrenFit
<1>2. /\ c \in DOMAIN nodes \ {Root} /\ nodes[c].parent = up /\ Side(c, up) = b
      /\ Len(nodes[c].key) = Len(nodes[up].key) + Len(nodes[c].partial)
      /\ IsPrefix(nodes[up].key, nodes[c].key)
  BY <1>1 DEF ChildFits, Side
<1> DEFINE a == Len(nodes[c].partial)
           l == Len(nodes[up].key)
           d == Len(nodes[c].key)
<1>3. a \in Nat /\ l \in Nat /\ d \in Nat /\ d = l + a /\ a > 0
  BY <1>2, TypesOfTree DEF TreeInv, NodesFit
<1>4. nodes[c].partial[1] = nodes[c].key[d - a + 1]
  <2>1. 1 \in 1 .. a
    <3> HIDE DEF a
    <3> QED
      BY <1>3
  <2> QED
    BY <1>2, <2>1 DEF TreeInv, NodesFit
<1> HIDE DEF a, l, d
<1>5. d - a + 1 = l + 1 /\ l < d
  BY <1>3
<1> QED
  BY <1>2, <1>3, <1>4, <1>5 DEF Below, Side, a, l, d

LEMMA LinkedSide ==
    ASSUME TreeInv, NEW x \in DOMAIN nodes \ {Root}, ~ (Moving /\ x = job.node)
    PROVE  LET up == nodes[x].parent
           IN  /\ up \in DOMAIN nodes /\ Side(x, up) \in Bit
               /\ ChildOf(nodes, up, Side(x, up)) = x
               /\ nodes[x].partial[1] = Side(x, up)
<1> DEFINE up == nodes[x].parent
           b == nodes[x].partial[1]
<1>1. up \in DOMAIN nodes /\ Len(nodes[x].partial) > 0 /\ nodes[x].partial \in Seq(Bit) /\ x # Nil
  BY TypesOfTree DEF TreeInv, NodesFit
<1>2. b \in Bit /\ ChildOf(nodes, up, b) = x
  BY <1>1 DEF TreeInv, EachIsAChild
<1> HIDE DEF up, b
<1>3. Side(x, up) = b
  BY <1>1, <1>2, ChildSide
<1> QED
  BY <1>1, <1>2, <1>3 DEF up, b

\* The node that is being split, before it has its new parent: in its place
\* there is the new parent.
LEMMA MovedSide ==
    ASSUME TreeInv, ClimbInv, Moving, NEW x, x = job.node, nodes[x].parent # job.prev
    PROVE  LET up == nodes[x].parent
           IN  /\ x \in DOMAIN nodes \ {Root} /\ up \in DOMAIN nodes /\ Side(x, up) \in Bit
               /\ job.prev \in DOMAIN nodes /\ ChildOf(nodes, up, Side(x, up)) = job.prev
               /\ IsPrefix(nodes[job.prev].key, nodes[x].key) /\ nodes[job.prev].hash = NilHash
<1> DEFINE up == nodes[x].parent
           p == job.prev
<1>1. /\ wpc \in {"cut", "setParent"} /\ nodes[p].parent = up
      /\ x \in DOMAIN nodes \ {Root} /\ p \in DOMAIN nodes \ {Root} /\ p # x
      /\ IsPrefix(nodes[p].key, nodes[x].key) /\ nodes[p].hash = NilHash
  BY DEF TreeInv, JobFits, BranchesOff, AtNode, ClimbInv, SplitFits, Moving
<1>2. up \in DOMAIN nodes /\ Side(p, up) \in Bit /\ ChildOf(nodes, up, Side(p, up)) = p
  BY <1>1, LinkedSide
<1>3. Side(x, up) = Side(p, up)
  <2>1. p # Nil /\ nodes[p].key \in Seq(Bit) /\ nodes[x].key \in Seq(Bit) /\ Len(nodes[p].key) \in Nat
        /\ Len(nodes[up].key) \in Nat
    BY <1>1, <1>2, TypesOfTree
  <2>2. Len(nodes[up].key) < Len(nodes[p].key)
    BY <1>2, <2>1, ChildSide DEF Below
  <2> HIDE DEF p, up
  <2>3. Len(nodes[up].key) + 1 \in 1 .. Len(nodes[p].key)
    BY <2>1, <2>2
  <2> QED
    BY <1>1, <2>1, <2>3, PrefixBits DEF Side
<1> QED
  BY <1>1, <1>2, <1>3

\* Nothing in T is between a node and its parent.
LEMMA NothingBetween ==
    ASSUME TreeInv, ClimbInv, NEW T, NEW map, IsTrie(T, map), Grown(T),
           NEW x \in DOMAIN nodes \ {Root}, NEW up, up = nodes[x].parent, up \in DOMAIN T,
           NEW c, c = ChildOf(T, up, Side(x, up)), c # Nil, Side(x, up) \in Bit
    PROVE  IsPrefix(nodes[x].key, T[c].key)
<1> DEFINE b == Side(x, up)
<1>1. c \in DOMAIN T \ {Root} /\ T[c].parent = up /\ T[c].partial[1] = b
  BY TrieKids
<1>2. /\ IsPrefix(T[up].key, T[c].key) /\ T[c].key[Len(T[up].key) + 1] = b
      /\ Len(T[c].key) = Len(T[up].key) + Len(T[c].partial) /\ Len(T[c].partial) > 0
  <2>1. PICK m : m = c
    OBVIOUS
  <2>2. /\ Len(T[m].partial) > 0 /\ Len(T[m].key) = Len(T[T[m].parent].key) + Len(T[m].partial)
        /\ IsPrefix(T[T[m].parent].key, T[m].key)
        /\ T[m].key[Len(T[T[m].parent].key) + 1] = T[m].partial[1]
    <3>1. m \in DOMAIN T \ {Root}
      BY <1>1, <2>1
    <3> HIDE DEF b
    <3> QED
      BY <3>1, TrieNode
  <2> HIDE DEF b
  <2> QED
    BY <1>1, <2>1, <2>2
<1>3. /\ c \in DOMAIN nodes /\ up \in DOMAIN nodes /\ T[c].key = nodes[c].key /\ T[up].key = nodes[up].key
      /\ Moving => c # job.prev /\ up # job.prev
  BY <1>1 DEF Grown
<1>4. Len(nodes[up].key) < Len(nodes[c].key)
  <2> DEFINE a == Len(T[c].partial)
             l == Len(nodes[up].key)
             d == Len(nodes[c].key)
  <2>1. a \in Nat /\ l \in Nat /\ d \in Nat /\ d = l + a /\ a > 0
    <3>1. T[c].partial \in Seq(Bit)
      BY <1>1, HeapFields DEF IsTrie
    <3> QED
      BY <1>2, <1>3, <3>1, TypesOfTree, LenProperties
  <2> HIDE DEF a, l, d
  <2>2. l < d
    BY <2>1
  <2> QED
    BY <2>2 DEF l, d
<1>5. Below(up, c) /\ nodes[c].key[Len(nodes[up].key) + 1] = b
  BY <1>2, <1>3, <1>4 DEF Below
<1>6. /\ ChildOf(nodes, up, b) # Nil
      /\ IsPrefix(nodes[ChildOf(nodes, up, b)].key, nodes[c].key)
  BY <1>3, <1>5 DEF TreeInv, Covers, NextOnWay
<1>7. CASE ~ (Moving /\ x = job.node)
  BY <1>3, <1>6, <1>7, LinkedSide
<1>8. CASE Moving /\ x = job.node
  <2> DEFINE p == job.prev
  <2>1. p \in DOMAIN nodes /\ IsPrefix(nodes[p].key, nodes[c].key)
    BY <1>3, <1>6, <1>8, MovedSide
  <2>2. Len(nodes[p].key) < Len(nodes[c].key)
    <3>1. /\ nodes[p].key \in Seq(Bit) /\ nodes[c].key \in Seq(Bit)
          /\ Len(nodes[p].key) \in Nat /\ Len(nodes[c].key) \in Nat
      BY <1>3, <2>1, TypesOfTree
    <3>2. nodes[p].key # nodes[c].key
      BY <1>3, <1>8, <2>1 DEF TreeInv, Distinct
    <3>3. Len(nodes[p].key) <= Len(nodes[c].key) /\ Len(nodes[p].key) # Len(nodes[c].key)
      BY <2>1, <3>1, <3>2, PrefixBits
    <3> HIDE DEF p
    <3> QED
      BY <3>1, <3>3
  <2>3. IsPrefix(nodes[NextOnWay(p, c)].key, nodes[c].key) /\ NextOnWay(p, c) = x
    BY <1>3, <1>8, <2>1, <2>2 DEF TreeInv, Covers, Below, NextOnWay
  <2> QED
    BY <1>3, <2>3
<1> QED
  BY <1>7, <1>8

-----------------------------------------------------------------------------
(* The root's hash stands for the tree between two appends *)

LEMMA SnapshotStutters ==
    ASSUME UNCHANGED treeVars, NEW T, NEW h, IsSnapshot(T, h)
    PROVE  IsSnapshot(T, h)'
BY GrownStutters DEF IsSnapshot

\* What a client relies on while the writer is at work.
SnapshotInv == ClimbInv /\ RootStands

LEMMA SnapshotInvIsInductive == Spec => []SnapshotInv
<1>1. Init => SnapshotInv
  BY TreeInitInv, ReaderInitInv, TrieFollows, ClimbInitInv, InitialRoot
  DEF SnapshotInv, TrieInv
<1>2. TrieInv /\ TrieInv' /\ SnapshotInv /\ [Next]_vars => SnapshotInv'
  <2> SUFFICES ASSUME TrieInv, TrieInv', SnapshotInv, [Next]_vars PROVE SnapshotInv'
    OBVIOUS
  <2>1. TreeInv /\ TreeInv' /\ ClimbInv /\ RootStands
    BY DEF TrieInv, SnapshotInv
  <2>2. CASE WriterStep /\ UNCHANGED readerVars
    <3>1. NodesStay
      BY <2>1, <2>2, WriterKeeps
    <3>2. ClimbInv' /\ ParentsMove
      BY <2>1, <2>2, <3>1, WriterClimb
    <3>3. StaysTrie'
      <4>1. TrieInv => StaysTrie
        BY TrieFollows
      <4> QED
        BY <4>1, TrieFollows, PTL
    <3>4. RootStands'
      BY <2>1, <2>2, <3>1, <3>2, <3>3, RootStays
    <3> QED
      BY <3>2, <3>4 DEF SnapshotInv
  <2>3. CASE UNCHANGED treeVars
    <3>1. ClimbInv'
      BY <2>1, <2>3, ClimbStutters
    <3>2. RootStands'
      <4>1. PICK T, h : h = nodes[Root].hash /\ IsSnapshot(T, h)
        BY <2>1 DEF RootStands
      <4>2. IsSnapshot(T, h)' /\ nodes' = nodes
        BY <2>3, <4>1, SnapshotStutters DEF treeVars
      <4>3. IsSnapshot(T, nodes[Root].hash)'
        BY <4>1, <4>2
      <4> QED
        BY <4>3 DEF RootStands
    <3> QED
      BY <3>1, <3>2 DEF SnapshotInv
  <2> QED
    BY <2>2, <2>3 DEF Next, vars
<1> QED
  BY <1>1, <1>2, TrieInvIsInductive, PTL DEF Spec

-----------------------------------------------------------------------------
(* The values of a field *)

\* A number, read bit by bit: FieldValue is defined by recursion.
Spelled(bit, n, h) == h = [i \in 0 .. n |-> IF i = 0 THEN 0 ELSE 2 * h[i - 1] + bit[i]]

LEMMA SpelledIs ==
    ASSUME NEW n \in Nat, NEW bit, NEW h, Spelled(bit, n, h), \A i \in 1 .. n : bit[i] \in Bit
    PROVE  h[0] = 0 /\ \A i \in 1 .. n : h[i - 1] \in Nat /\ h[i] \in Nat /\ h[i] = 2 * h[i - 1] + bit[i]
<1>1. \A i \in 0 .. n : h[i] = IF i = 0 THEN 0 ELSE 2 * h[i - 1] + bit[i]
  BY Zenon DEF Spelled
<1> DEFINE D == {i \in 0 .. n : h[i] \notin Nat}
<1>2. D = {}
  <2> SUFFICES ASSUME D # {} PROVE FALSE
    OBVIOUS
  <2>1. D \subseteq Nat
    OBVIOUS
  <2>2. Min(D) \in D /\ \A y \in D : Min(D) <= y
    BY <2>1, NatMin
  <2> DEFINE m == Min(D)
  <2>3. m \in 0 .. n /\ h[m] \notin Nat /\ \A y \in D : m <= y
    BY <2>2
  <2> HIDE DEF m
  <2>4. m # 0
    BY <1>1, <2>3
  <2>5. m - 1 \in 0 .. n /\ m - 1 \notin D
    BY <2>3, <2>4
  <2>6. h[m - 1] \in Nat /\ h[m] = 2 * h[m - 1] + bit[m] /\ bit[m] \in Bit
    BY <1>1, <2>3, <2>4, <2>5
  <2> QED
    BY <2>3, <2>6 DEF Bit
<1>3. \A i \in 0 .. n : h[i] \in Nat
  BY <1>2
<1> QED
  BY <1>1, <1>3

LEMMA SpellingExists ==
    ASSUME NEW n \in Nat, NEW bit
    PROVE  \E h : Spelled(bit, n, h)
<1> DEFINE D == {m \in Nat : \A h : ~ Spelled(bit, m, h)}
<1> SUFFICES ASSUME D # {} PROVE FALSE
  OBVIOUS
<1>1. D \subseteq Nat
  OBVIOUS
<1>2. Min(D) \in D /\ \A y \in D : Min(D) <= y
  BY <1>1, NatMin
<1> DEFINE m == Min(D)
<1>3. m \in Nat /\ (\A h : ~ Spelled(bit, m, h)) /\ \A y \in D : m <= y
  BY <1>2
<1> HIDE DEF m
<1>4. CASE m = 0
  <2> DEFINE g == [i \in 0 .. 0 |-> 0]
  <2>1. g = [i \in 0 .. m |-> IF i = 0 THEN 0 ELSE 2 * g[i - 1] + bit[i]]
    BY <1>4
  <2> QED
    BY <1>3, <2>1 DEF Spelled
<1>5. CASE m # 0
  <2>1. m - 1 \in Nat /\ m - 1 \notin D
    BY <1>3, <1>5
  <2>2. PICK h : Spelled(bit, m - 1, h)
    BY <2>1
  <2>3. /\ h = [i \in 0 .. m - 1 |-> IF i = 0 THEN 0 ELSE 2 * h[i - 1] + bit[i]]
        /\ \A i \in 0 .. m - 1 : h[i] = IF i = 0 THEN 0 ELSE 2 * h[i - 1] + bit[i]
    BY <2>2, Zenon DEF Spelled
  <2> DEFINE g == [i \in 0 .. m |-> IF i = m THEN 2 * h[m - 1] + bit[m] ELSE h[i]]
  <2>4. \A i \in 0 .. m : g[i] = IF i = 0 THEN 0 ELSE 2 * g[i - 1] + bit[i]
    BY <1>3, <1>5, <2>3
  <2>5. g = [i \in 0 .. m |-> g[i]]
    OBVIOUS
  <2> HIDE DEF g
  <2>6. g = [i \in 0 .. m |-> IF i = 0 THEN 0 ELSE 2 * g[i - 1] + bit[i]]
    BY <2>4, <2>5
  <2> QED
    BY <1>3, <2>6 DEF Spelled
<1> QED
  BY <1>4, <1>5

\* The bits of a field; the missing ones are filled up.
BitsOf(prefix, f, missing) ==
    [i \in 1 .. FieldBits |->
        IF (f - 1) * FieldBits + i <= Len(prefix) THEN prefix[(f - 1) * FieldBits + i] ELSE missing]

LEMMA FieldValueIs ==
    ASSUME NEW prefix, NEW f, NEW missing
    PROVE  \E h : Spelled(BitsOf(prefix, f, missing), FieldBits, h)
                  /\ FieldValue(prefix, f, missing) = h[FieldBits]
<1> DEFINE bit == BitsOf(prefix, f, missing)
           c == CHOOSE g : g = [i \in 0 .. FieldBits |-> IF i = 0 THEN 0 ELSE 2 * g[i - 1] + bit[i]]
<1>1. FieldBits \in Nat
  BY KeysAssumption
<1>2. \E h : Spelled(bit, FieldBits, h)
  BY <1>1, SpellingExists
<1>3. FieldValue(prefix, f, missing) = c[FieldBits]
  BY DEF FieldValue, BitsOf
<1> HIDE DEF bit
<1>4. c = [i \in 0 .. FieldBits |-> IF i = 0 THEN 0 ELSE 2 * c[i - 1] + bit[i]]
  BY <1>2 DEF Spelled
<1> HIDE DEF c
<1>5. Spelled(bit, FieldBits, c)
  BY <1>4 DEF Spelled
<1> QED
  BY <1>3, <1>5 DEF bit

\* With no smaller bit anywhere the value is no smaller.
LEMMA SpelledGrows ==
    ASSUME NEW n \in Nat, NEW low, NEW high, NEW g, NEW h, Spelled(low, n, g), Spelled(high, n, h),
           \A i \in 1 .. n : low[i] \in Bit /\ high[i] \in Bit /\ low[i] <= high[i]
    PROVE  g[n] \in Nat /\ h[n] \in Nat /\ g[n] <= h[n]
<1>1. /\ g[0] = 0 /\ \A i \in 1 .. n : g[i - 1] \in Nat /\ g[i] \in Nat /\ g[i] = 2 * g[i - 1] + low[i]
      /\ h[0] = 0 /\ \A i \in 1 .. n : h[i - 1] \in Nat /\ h[i] \in Nat /\ h[i] = 2 * h[i - 1] + high[i]
  BY SpelledIs
<1> DEFINE D == {i \in 0 .. n : ~ (g[i] <= h[i])}
<1>2. D = {}
  <2> SUFFICES ASSUME D # {} PROVE FALSE
    OBVIOUS
  <2>1. D \subseteq Nat
    OBVIOUS
  <2>2. Min(D) \in D /\ \A y \in D : Min(D) <= y
    BY <2>1, NatMin
  <2> DEFINE m == Min(D)
  <2>3. m \in 0 .. n /\ ~ (g[m] <= h[m]) /\ \A y \in D : m <= y
    BY <2>2
  <2> HIDE DEF m
  <2>4. m # 0
    BY <1>1, <2>3
  <2>5. m - 1 \in 0 .. n /\ m - 1 \notin D /\ m \in 1 .. n
    BY <2>3, <2>4
  <2>6. /\ g[m - 1] <= h[m - 1] /\ g[m - 1] \in Nat /\ h[m - 1] \in Nat
        /\ g[m] = 2 * g[m - 1] + low[m] /\ h[m] = 2 * h[m - 1] + high[m]
        /\ low[m] \in {0, 1} /\ high[m] \in {0, 1} /\ low[m] <= high[m]
    BY <1>1, <2>5 DEF Bit
  <2> QED
    BY <2>3, <2>6
<1>3. n \in 0 .. n
  OBVIOUS
<1>4. g[n] \in Nat /\ h[n] \in Nat
  <2>1. CASE n = 0
    BY <1>1, <2>1
  <2>2. CASE n # 0
    BY <1>1, <2>2
  <2> QED
    BY <2>1, <2>2
<1> QED
  BY <1>2, <1>3, <1>4


\* The fields of a range are those of a prefix that is appended.
LEMMA FieldsFit ==
    ASSUME NEW l \in Nat, NEW f \in 1 .. l
    PROVE  /\ (f - 1) * FieldBits \in Nat /\ f * FieldBits \in Nat /\ l * FieldBits \in Nat
           /\ f * FieldBits = (f - 1) * FieldBits + FieldBits
           /\ f * FieldBits <= l * FieldBits
           /\ f = l \/ f * FieldBits < l * FieldBits
<1>1. FieldBits \in Nat /\ FieldBits > 0
  BY KeysAssumption
<1> DEFINE F == FieldBits
<1>2. F \in Nat /\ F > 0
  BY <1>1
<1> HIDE DEF F
<1>3. f - 1 \in Nat /\ f \in Nat /\ l - f \in Nat
  OBVIOUS
<1>4. \A x \in Nat : x * F \in Nat
  BY <1>2
<1>5. f * F = (f - 1) * F + F
  BY <1>2, <1>3
<1>6. l * F = f * F + (l - f) * F
  BY <1>2, <1>3
<1>7. l # f => (l - f) * F > 0
  BY <1>2, <1>3
<1>8. (f - 1) * F \in Nat /\ f * F \in Nat /\ l * F \in Nat /\ (l - f) * F \in Nat
  BY <1>3, <1>4
<1> QED
  BY <1>5, <1>6, <1>7, <1>8 DEF F

\* A prefix leaves the value of a field open between the two ends that
\* DoesPrefixOverlapRange compares; one of full length leaves none open.
LEMMA FieldBounds ==
    ASSUME NEW k \in Seq(Bit), NEW p \in Seq(Bit), IsPrefix(p, k), NEW l \in Nat, NEW f \in 1 .. l,
           Len(k) = l * FieldBits
    PROVE  /\ FieldMin(p, f) \in Nat /\ FieldMin(k, f) \in Nat /\ FieldMax(p, f) \in Nat
           /\ FieldMin(p, f) <= FieldMin(k, f) /\ FieldMin(k, f) <= FieldMax(p, f)
           /\ FieldMax(k, f) = FieldMin(k, f)
<1> DEFINE F == FieldBits
           o == (f - 1) * F
<1>1. F \in Nat /\ o \in Nat /\ o + F <= Len(k)
  BY FieldsFit, KeysAssumption
<1> HIDE DEF o
<1>2. Len(k) \in Nat /\ Len(p) \in Nat /\ Len(p) <= Len(k) /\ \A x \in 1 .. Len(p) : p[x] = k[x] /\ p[x] \in Bit
  BY PrefixBits, ElementOfSeq, LenProperties
<1>3. \A x \in 1 .. Len(k) : k[x] \in Bit
  BY ElementOfSeq
<1> DEFINE low  == BitsOf(p, f, 0)
           high == BitsOf(p, f, 1)
           full == BitsOf(k, f, 0)
<1>4. \A i \in 1 .. F : /\ low[i] = IF o + i <= Len(p) THEN p[o + i] ELSE 0
                        /\ high[i] = IF o + i <= Len(p) THEN p[o + i] ELSE 1
                        /\ full[i] = IF o + i <= Len(k) THEN k[o + i] ELSE 0
  BY DEF BitsOf, o
<1>5. BitsOf(k, f, 1) = full
  <2>1. \A i \in 1 .. F : o + i <= Len(k)
    BY <1>1, <1>2
  <2> QED
    BY <2>1 DEF BitsOf, o
<1> HIDE DEF F
<1>6. \A i \in 1 .. F : o + i \in 1 .. Len(k) /\ (o + i <= Len(p) => o + i \in 1 .. Len(p))
  BY <1>1, <1>2
<1> HIDE DEF low, high, full
<1>7. \A i \in 1 .. F : /\ low[i] \in Bit /\ high[i] \in Bit /\ full[i] \in Bit
                        /\ low[i] <= full[i] /\ full[i] <= high[i]
  BY <1>2, <1>3, <1>4, <1>6 DEF Bit
<1>8. PICK h : Spelled(full, F, h) /\ FieldMin(k, f) = h[F]
  BY FieldValueIs DEF full, F, FieldMin
<1>9. PICK g : Spelled(low, F, g) /\ FieldMin(p, f) = g[F]
  BY FieldValueIs DEF low, F, FieldMin
<1>10. PICK j : Spelled(high, F, j) /\ FieldMax(p, f) = j[F]
  BY FieldValueIs DEF high, F, FieldMax
<1>11. PICK e : Spelled(full, F, e) /\ FieldMax(k, f) = e[F]
  BY <1>5, FieldValueIs DEF full, F, FieldMax
<1>12. g[F] \in Nat /\ h[F] \in Nat /\ g[F] <= h[F]
  BY <1>1, <1>7, <1>8, <1>9, SpelledGrows
<1>13. j[F] \in Nat /\ h[F] <= j[F]
  BY <1>1, <1>7, <1>8, <1>10, SpelledGrows
<1>14. \A i \in 1 .. F : full[i] \in Bit /\ full[i] <= full[i]
  BY <1>7 DEF Bit
<1>15. e[F] \in Nat /\ e[F] <= h[F] /\ h[F] <= e[F]
  BY <1>1, <1>8, <1>11, <1>14, SpelledGrows
<1> QED
  BY <1>8, <1>9, <1>10, <1>11, <1>12, <1>13, <1>15

\* No prefix of a key in the range is left out ...
LEMMA PrefixesOverlap ==
    ASSUME NEW rg \in SetRanges, NEW k \in Keys, InRange(k, rg), NEW p \in Seq(Bit), IsPrefix(p, k)
    PROVE  DoesPrefixOverlapRange(rg, p)
<1>1. k \in Seq(Bit)
  BY KeysAssumption DEF Bit
<1>2. Len(rg) \in Nat /\ DOMAIN rg = 1 .. Len(rg) /\ Len(k) = Len(rg) * FieldBits
      /\ \A f \in DOMAIN rg : rg[f][1] \in Nat /\ rg[f][2] \in Nat
  <2>1. rg \in Seq(Nat \X Nat) /\ Len(k) = Len(rg) * FieldBits
    BY RangesAssumption
  <2>2. Len(rg) \in Nat /\ DOMAIN rg = 1 .. Len(rg) /\ \A f \in DOMAIN rg : rg[f] \in Nat \X Nat
    BY <2>1, LenProperties, ElementOfSeq
  <2> QED
    BY <2>1, <2>2
<1> SUFFICES ASSUME NEW f \in DOMAIN rg
             PROVE  /\ rg[f][1] <= FieldMax(p, f) /\ FieldMin(p, f) < rg[f][2]
                    /\ rg[f][1] # rg[f][2]
  BY DEF DoesPrefixOverlapRange
<1>3. /\ FieldMin(p, f) \in Nat /\ FieldMin(k, f) \in Nat /\ FieldMax(p, f) \in Nat
      /\ FieldMin(p, f) <= FieldMin(k, f) /\ FieldMin(k, f) <= FieldMax(p, f)
  BY <1>1, <1>2, FieldBounds
<1>4. rg[f][1] <= FieldMin(k, f) /\ FieldMin(k, f) < rg[f][2]
  BY DEF InRange
<1> QED
  BY <1>2, <1>3, <1>4

\* ... and a prefix of full length that is not left out is in the range.
LEMMA OverlapOfKey ==
    ASSUME NEW rg \in SetRanges, NEW k \in Keys, DoesPrefixOverlapRange(rg, k)
    PROVE  InRange(k, rg)
<1>1. k \in Seq(Bit)
  BY KeysAssumption DEF Bit
<1>2. Len(rg) \in Nat /\ DOMAIN rg = 1 .. Len(rg) /\ Len(k) = Len(rg) * FieldBits
  <2>1. rg \in Seq(Nat \X Nat) /\ Len(k) = Len(rg) * FieldBits
    BY RangesAssumption
  <2> QED
    BY <2>1, LenProperties
<1> SUFFICES ASSUME NEW f \in DOMAIN rg
             PROVE  rg[f][1] <= FieldMin(k, f) /\ FieldMin(k, f) < rg[f][2]
  BY DEF InRange
<1>3. FieldMax(k, f) = FieldMin(k, f)
  BY <1>1, <1>2, FieldBounds, PrefixRefl
<1>4. Len(k) > (f - 1) * FieldBits
  <2> DEFINE a == (f - 1) * FieldBits
             b == f * FieldBits
             c == Len(rg) * FieldBits
  <2>0. f \in 1 .. Len(rg) /\ FieldBits \in Nat /\ FieldBits > 0
    BY <1>2, KeysAssumption
  <2>1. a \in Nat /\ b = a + FieldBits /\ c \in Nat /\ b <= c
    BY <1>2, <2>0, FieldsFit, Zenon
  <2> HIDE DEF a, b, c
  <2>2. c > a
    BY <2>0, <2>1
  <2> QED
    BY <1>2, <2>2 DEF a, c
<1> QED
  BY <1>3, <1>4 DEF DoesPrefixOverlapRange

-----------------------------------------------------------------------------
(* The copies of a set completeness proof, whatever PrefixAppend does *)

\* What a second read of a partial prefix may find: while a node is split
\* its partial prefix becomes shorter.
Shortened(p, q) == Len(q) <= Len(p) /\ (Len(q) = Len(p) => q = p)

LEMMA PartialsShrink ==
    ASSUME TreeInv, TreeInv', NodesStay, NEW n \in DOMAIN nodes
    PROVE  n \in DOMAIN nodes' /\ Shortened(nodes[n].partial, nodes'[n].partial)
<1> DEFINE p == nodes[n].partial
           q == nodes'[n].partial
           k == nodes[n].key
<1>1. n \in DOMAIN nodes' /\ nodes'[n].key = k /\ Len(q) <= Len(p)
  BY DEF NodesStay
<1>2. /\ p \in Seq(Bit) /\ \A x \in 1 .. Len(p) : p[x] = k[Len(k) - Len(p) + x]
      /\ q \in Seq(Bit) /\ \A x \in 1 .. Len(q) : q[x] = k[Len(k) - Len(q) + x]
  <2>1. IsHeap(nodes') /\ p \in Seq(Bit)
    BY TypesOfTree DEF TreeInv, NodesFit
  <2>2. q \in Seq(Bit)
    BY <1>1, <2>1, HeapFields
  <2>3. \A x \in 1 .. Len(p) : p[x] = k[Len(k) - Len(p) + x]
    BY DEF TreeInv, NodesFit
  <2>4. \A x \in 1 .. Len(q) : q[x] = nodes'[n].key[Len(nodes'[n].key) - Len(q) + x]
    BY <1>1 DEF TreeInv, NodesFit
  <2> QED
    BY <1>1, <2>1, <2>2, <2>3, <2>4
<1> HIDE DEF p, q, k
<1>3. Len(q) = Len(p) => q = p
  <2> SUFFICES ASSUME Len(q) = Len(p) PROVE q = p
    OBVIOUS
  <2>1. \A x \in 1 .. Len(p) : q[x] = p[x]
    BY <1>2
  <2> QED
    BY <1>2, <2>1, SeqEqual
<1> QED
  BY <1>1, <1>3 DEF Shortened, p, q

LEMMA ShortenedTrans ==
    ASSUME NEW p \in Seq(Bit), NEW q \in Seq(Bit), NEW r \in Seq(Bit), Shortened(p, q), Shortened(q, r)
    PROVE  Shortened(p, r)
<1>1. Len(p) \in Nat /\ Len(q) \in Nat /\ Len(r) \in Nat
  BY LenProperties
<1> QED
  BY <1>1 DEF Shortened

LEMMA ShortenedJoin ==
    ASSUME NEW p \in Seq(Bit), NEW q \in Seq(Bit), NEW s \in Seq(Bit), NEW t \in Seq(Bit),
           Shortened(p, q), Shortened(s, t)
    PROVE  Shortened(p \o s, q \o t)
<1>1. Len(p) \in Nat /\ Len(q) \in Nat /\ Len(s) \in Nat /\ Len(t) \in Nat
  BY LenProperties
<1>2. Len(p \o s) = Len(p) + Len(s) /\ Len(q \o t) = Len(q) + Len(t)
  BY ConcatProperties
<1>3. Len(q) <= Len(p) /\ Len(t) <= Len(s) /\ (Len(q) = Len(p) => q = p) /\ (Len(t) = Len(s) => t = s)
  BY DEF Shortened
<1>4. Len(q) + Len(t) <= Len(p) + Len(s)
  BY <1>1, <1>3
<1>5. Len(q) + Len(t) = Len(p) + Len(s) => Len(q) = Len(p) /\ Len(t) = Len(s)
  BY <1>1, <1>3
<1> QED
  BY <1>2, <1>3, <1>4, <1>5 DEF Shortened

\* No two calls are for the same side of the same copy.
OtherSlot(c, d) == c.parent # d.parent \/ c.bit # d.bit

SlotsDiffer(s) == \A i, j \in DOMAIN s : i < j => OtherSlot(s[i], s[j])

LEMMA TailDiffers ==
    ASSUME NEW R, NEW s \in Seq(R), s # <<>>, SlotsDiffer(s)
    PROVE  SlotsDiffer(Tail(s)) /\ \A c \in Range(Tail(s)) : OtherSlot(Head(s), c)
<1> DEFINE t == Tail(s)
<1>1. /\ Len(s) \in Nat /\ Len(s) > 0 /\ DOMAIN s = 1 .. Len(s) /\ Head(s) = s[1]
      /\ Len(t) = Len(s) - 1 /\ DOMAIN t = 1 .. Len(t)
      /\ \A i \in 1 .. Len(t) : t[i] = s[i + 1]
  OBVIOUS
<1> HIDE DEF t
<1>2. ASSUME NEW i \in DOMAIN t, NEW j \in DOMAIN t, i < j PROVE OtherSlot(t[i], t[j])
  <2>1. i + 1 \in DOMAIN s /\ j + 1 \in DOMAIN s /\ i + 1 < j + 1 /\ t[i] = s[i + 1] /\ t[j] = s[j + 1]
    BY <1>1, <1>2
  <2> QED
    BY <2>1 DEF SlotsDiffer
<1>3. ASSUME NEW c \in Range(t) PROVE OtherSlot(Head(s), c)
  <2>1. PICK i \in DOMAIN t : c = t[i]
    BY <1>3 DEF Range
  <2>2. 1 \in DOMAIN s /\ i + 1 \in DOMAIN s /\ 1 < i + 1 /\ c = s[i + 1]
    BY <1>1, <2>1
  <2> QED
    BY <1>1, <2>2 DEF SlotsDiffer
<1> QED
  BY <1>2, <1>3 DEF SlotsDiffer, t

LEMMA JoinDiffers ==
    ASSUME NEW R, NEW S, NEW s \in Seq(R), NEW t \in Seq(S), SlotsDiffer(s), SlotsDiffer(t),
           \A c \in Range(s), d \in Range(t) : OtherSlot(c, d)
    PROVE  SlotsDiffer(s \o t)
<1> DEFINE Q == R \cup S
           u == s \o t
<1>1. s \in Seq(Q) /\ t \in Seq(Q)
  BY SeqDef, LenProperties, ElementOfSeq
<1> HIDE DEF Q
<1>2. /\ u \in Seq(Q) /\ Len(u) = Len(s) + Len(t)
      /\ \A i \in 1 .. Len(s) + Len(t) : u[i] = IF i <= Len(s) THEN s[i] ELSE t[i - Len(s)]
  BY <1>1, ConcatProperties
<1>3. Len(s) \in Nat /\ Len(t) \in Nat /\ DOMAIN s = 1 .. Len(s) /\ DOMAIN t = 1 .. Len(t)
      /\ DOMAIN u = 1 .. Len(s) + Len(t)
  BY <1>1, <1>2, LenProperties
<1> HIDE DEF u
<1>4. ASSUME NEW i \in DOMAIN u, NEW j \in DOMAIN u, i < j PROVE OtherSlot(u[i], u[j])
  <2>1. CASE j <= Len(s)
    <3>1. i \in DOMAIN s /\ j \in DOMAIN s /\ u[i] = s[i] /\ u[j] = s[j]
      BY <1>2, <1>3, <1>4, <2>1
    <3> QED
      BY <1>4, <3>1 DEF SlotsDiffer
  <2>2. CASE ~ (j <= Len(s)) /\ i <= Len(s)
    <3>1. i \in DOMAIN s /\ j - Len(s) \in DOMAIN t /\ u[i] = s[i] /\ u[j] = t[j - Len(s)]
      BY <1>2, <1>3, <1>4, <2>2
    <3>2. u[i] \in Range(s) /\ u[j] \in Range(t)
      BY <3>1 DEF Range
    <3> QED
      BY <3>2
  <2>3. CASE ~ (i <= Len(s))
    <3>1. /\ i - Len(s) \in DOMAIN t /\ j - Len(s) \in DOMAIN t /\ i - Len(s) < j - Len(s)
          /\ u[i] = t[i - Len(s)] /\ u[j] = t[j - Len(s)]
      BY <1>2, <1>3, <1>4, <2>3
    <3> QED
      BY <3>1 DEF SlotsDiffer
  <2> QED
    BY <2>1, <2>2, <2>3
<1> QED
  BY <1>4 DEF SlotsDiffer, u

LEMMA ChildrenDiffer ==
    ASSUME NEW n, NEW copy
    PROVE  SlotsDiffer(Children(n, copy))
<1> DEFINE Rec(b) == [node |-> ChildOf(nodes, n, b), parent |-> copy, bit |-> b]
           Call(b) == IF ChildOf(nodes, n, b) = Nil THEN <<>> ELSE <<Rec(b)>>
<1>1. Children(n, copy) = Call(0) \o Call(1)
  BY DEF Children
<1>2. \A b \in Bit : Rec(b).bit = b
  OBVIOUS
<1> HIDE DEF Rec
<1>3. ASSUME NEW b \in Bit
      PROVE  Call(b) \in Seq({Rec(b)}) /\ SlotsDiffer(Call(b)) /\ \A c \in Range(Call(b)) : c.bit = b
  <2>1. CASE ChildOf(nodes, n, b) = Nil
    BY <2>1 DEF Range, SlotsDiffer
  <2>2. CASE ChildOf(nodes, n, b) # Nil
    <3>1. Call(b) = <<Rec(b)>>
      BY <2>2
    <3>2. <<Rec(b)>> \in Seq({Rec(b)}) /\ Range(<<Rec(b)>>) = {Rec(b)} /\ SlotsDiffer(<<Rec(b)>>)
      BY DEF Range, SlotsDiffer
    <3> QED
      BY <1>2, <3>1, <3>2
  <2> QED
    BY <2>1, <2>2
<1> HIDE DEF Call
<1>4. /\ Call(0) \in Seq({Rec(0)}) /\ Call(1) \in Seq({Rec(1)})
      /\ SlotsDiffer(Call(0)) /\ SlotsDiffer(Call(1))
      /\ \A c \in Range(Call(0)), d \in Range(Call(1)) : OtherSlot(c, d)
  BY <1>3 DEF Bit, OtherSlot
<1> QED
  BY <1>1, <1>4, JoinDiffers

IsLinked(i) ==
    \E up \in DOMAIN copies : /\ up < i /\ \E b \in Bit : ChildOf(copies, up, b) = i
                              /\ copies[i].prefix = copies[up].prefix \o copies[i].partial

\* Each copy but the first is linked to an earlier one, and the prefix that
\* the server has read in pieces is that of the client or a shorter one.
CopiesLinked ==
    /\ \E P : copies \in Seq(CopyRecords(P))
    /\ \A i \in DOMAIN copies :
           /\ copies[i].partial \in Seq(Bit) /\ copies[i].prefix \in Seq(Bit)
           /\ copies[i].cumulative \in Seq(Bit)
           /\ i = 1 \/ IsLinked(i)
           /\ IsRead(i) => Shortened(copies[i].prefix, copies[i].cumulative)
    /\ copies # <<>> => copies[1].prefix = copies[1].partial

\* The calls still to be made are for empty sides of copies, and no two for
\* the same one.
CallsFit ==
    /\ SlotsDiffer(pending)
    /\ copies = <<>> => pending = <<[node |-> Root, parent |-> Nil, bit |-> 0]>>
    /\ copies # <<>> => \A c \in Waiting : /\ IsRead(c.parent) /\ c.bit \in Bit
                                           /\ ChildOf(copies, c.parent, c.bit) = Nil
    /\ rpc = "extend" =>
           /\ copies # <<>>
           /\ copies[Len(copies)].prefix = PrefixAbove(Head(pending)) \o copies[Len(copies)].partial
           /\ Head(pending).parent = Nil \/ IsRead(Head(pending).parent)
           /\ \A b \in Bit : ChildOf(copies, Len(copies), b) = Nil
           /\ Shortened(copies[Len(copies)].partial, nodes[Head(pending).node].partial)
    /\ rpc = "verify" => copies # <<>>

\* The root hash that the client read is that of a trie.
SeenStands ==
    \E T : T[Root].hash = seen /\ \E map \in [Keys -> Values \cup {NoValue}] : IsTrie(T, map)

SetUnderWay == rpc \in {"set", "extend", "verify"}

CollectFits ==
    SetUnderWay => CopiesLinked /\ CallsFit /\ SeenStands /\ req.kind = "set" /\ req.range \in SetRanges

\* The node of the next call.
LEMMA NextCall ==
    ASSUME TrieInv, rpc \in {"set", "extend"}
    PROVE  /\ pending # <<>> /\ (\E R : pending \in Seq(R)) /\ Head(pending).node \in DOMAIN nodes
           /\ Range(pending) = {Head(pending)} \cup Range(Tail(pending))
<1>1. pending # <<>> /\ (\E R : pending \in Seq(R)) /\ \A i \in DOMAIN pending : pending[i].node \in DOMAIN nodes
  BY DEF TrieInv, ReaderInv
<1>2. 1 \in DOMAIN pending /\ Head(pending) = pending[1]
  BY <1>1
<1>3. Range(pending) = {Head(pending)} \cup Range(Tail(pending))
  BY <1>1, RangeOfTail
<1> QED
  BY <1>1, <1>2, <1>3

LEMMA WriterLetsCollect ==
    ASSUME TrieInv, TreeInv', NodesStay, CollectFits, UNCHANGED readerVars
    PROVE  CollectFits'
<1> SUFFICES ASSUME SetUnderWay' PROVE CopiesLinked' /\ CallsFit' /\ SeenStands'
                                       /\ req'.kind = "set" /\ req'.range \in SetRanges
  BY DEF CollectFits
<1>1. rpc' = rpc /\ req' = req /\ seen' = seen /\ copies' = copies /\ pending' = pending
  BY DEF readerVars
<1>2. SetUnderWay /\ CopiesLinked /\ CallsFit /\ SeenStands /\ req.kind = "set" /\ req.range \in SetRanges
  BY <1>1 DEF CollectFits, SetUnderWay
<1>3. \A i : IsRead(i)' <=> IsRead(i)
  BY <1>1 DEF IsRead
<1>4. \A m, b : ChildOf(copies, m, b)' = ChildOf(copies, m, b)
  BY <1>1 DEF ChildOf
<1>5. \A i : IsLinked(i)' <=> IsLinked(i)
  BY <1>1, <1>4 DEF IsLinked
<1>6. CopiesLinked'
  BY <1>1, <1>2, <1>3, <1>5 DEF CopiesLinked
<1>7. Waiting' = Waiting /\ \A c : PrefixAbove(c)' = PrefixAbove(c)
  BY <1>1 DEF Waiting, PrefixAbove
<1>8. rpc = "extend" => Shortened(copies[Len(copies)].partial, nodes'[Head(pending).node].partial)
  <2> SUFFICES ASSUME rpc = "extend"
               PROVE  Shortened(copies[Len(copies)].partial, nodes'[Head(pending).node].partial)
    OBVIOUS
  <2>1. PICK n \in DOMAIN nodes : n = Head(pending).node
    BY NextCall
  <2>2. n \in DOMAIN nodes' /\ Shortened(nodes[n].partial, nodes'[n].partial)
    BY PartialsShrink DEF TrieInv
  <2>3. nodes[n].partial \in Seq(Bit)
    BY TypesOfTree DEF TrieInv
  <2>4. nodes'[n].partial \in Seq(Bit)
    <3>1. IsHeap(nodes')
      BY DEF TreeInv, NodesFit
    <3> QED
      BY <2>2, <3>1, HeapFields
  <2>5. copies[Len(copies)].partial \in Seq(Bit)
    <3>1. copies # <<>> /\ \E P : copies \in Seq(CopyRecords(P))
      BY <1>2 DEF CopiesLinked, CallsFit
    <3>2. Len(copies) \in DOMAIN copies
      BY <3>1
    <3> QED
      BY <1>2, <3>2 DEF CopiesLinked
  <2>6. Shortened(copies[Len(copies)].partial, nodes[n].partial)
    BY <1>2, <2>1 DEF CallsFit
  <2> QED
    BY <2>1, <2>2, <2>3, <2>4, <2>5, <2>6, ShortenedTrans
<1>9. CallsFit'
  BY <1>1, <1>2, <1>3, <1>4, <1>7, <1>8 DEF CallsFit, SlotsDiffer, OtherSlot
<1>10. SeenStands'
  BY <1>1, <1>2 DEF SeenStands
<1> QED
  BY <1>1, <1>2, <1>6, <1>9, <1>10

LEMMA AskSetCollect ==
    ASSUME TrieInv, RequestFits, RootStands, NEW rg \in SetRanges, AskSet(rg), UNCHANGED treeVars
    PROVE  CollectFits'
<1> DEFINE call == [node |-> Root, parent |-> Nil, bit |-> 0]
<1>1. /\ nodes' = nodes /\ rpc = "idle" /\ rpc' = "set" /\ pending' = <<call>>
      /\ seen' = nodes[Root].hash /\ copies' = copies
      /\ req' = [NoRequest EXCEPT !.kind = "set", !.key = <<>>, !.range = rg,
                                  !.appends = appends, !.quiet = wpc = "idle"]
  BY DEF AskSet, Ask, treeVars
<1>2. req'.kind = "set" /\ req'.range = rg
  BY <1>1 DEF NoRequest
<1>3. copies' = <<>>
  BY <1>1 DEF RequestFits
<1>4. SeenStands'
  <2>1. PICK T : IsSnapshot(T, nodes[Root].hash)
    BY DEF RootStands
  <2> QED
    BY <1>1, <2>1 DEF IsSnapshot, SeenStands
<1>5. CopiesLinked'
  <2>1. <<>> \in Seq(CopyRecords({})) /\ DOMAIN <<>> = {}
    OBVIOUS
  <2> QED
    BY <1>3, <2>1 DEF CopiesLinked
<1>6. CallsFit'
  <2> HIDE DEF call
  <2>1. SlotsDiffer(<<call>>)
    BY DEF SlotsDiffer
  <2> QED
    BY <1>1, <1>3, <2>1 DEF CallsFit, call
<1> QED
  BY <1>2, <1>4, <1>5, <1>6 DEF CollectFits

LEMMA ShortenedRefl == \A p \in Seq(Bit) : Shortened(p, p)
<1> SUFFICES ASSUME NEW p \in Seq(Bit) PROVE Shortened(p, p)
  OBVIOUS
<1>1. Len(p) \in Nat
  BY LenProperties
<1> QED
  BY <1>1 DEF Shortened

\* What the server has added up for the copy a call is below.
LEMMA PrefixesAbove ==
    ASSUME CopiesLinked, NEW call, call.parent = Nil \/ IsRead(call.parent)
    PROVE  /\ PrefixAbove(call) \in Seq(Bit) /\ CumulativeAbove(call) \in Seq(Bit)
           /\ Shortened(PrefixAbove(call), CumulativeAbove(call))
<1>1. <<>> \in Seq(Bit) /\ Shortened(<<>>, <<>>)
  <2>1. <<>> \in Seq(Bit)
    OBVIOUS
  <2> QED
    BY <2>1, ShortenedRefl
<1>2. CASE call.parent = Nil
  BY <1>1, <1>2 DEF PrefixAbove, CumulativeAbove
<1>3. CASE call.parent # Nil
  <2>1. call.parent \in DOMAIN copies
    BY <1>3 DEF IsRead
  <2> QED
    BY <1>3, <2>1 DEF CopiesLinked, PrefixAbove, CumulativeAbove
<1> QED
  BY <1>2, <1>3

LEMMA CopyNodeCollect ==
    ASSUME TrieInv, CollectFits, CopyNode, UNCHANGED treeVars
    PROVE  CollectFits'
<1> DEFINE call == Head(pending)
           L == Len(copies) + 1
           n == call.node
           r == [partial |-> nodes[n].partial, hash |-> nodes[n].hash,
                 prefix |-> PrefixAbove(call) \o nodes[n].partial,
                 cumulative |-> <<>>, left |-> Nil, right |-> Nil]
<1>1. /\ nodes' = nodes /\ rpc = "set" /\ rpc' = "extend" /\ req' = req /\ seen' = seen
      /\ pending' = pending /\ copies' = Append(Linked(call, L), r)
  BY DEF CopyNode, treeVars
<1>2. CopiesLinked /\ CallsFit /\ SeenStands /\ req.kind = "set" /\ req.range \in SetRanges
  BY <1>1 DEF CollectFits, SetUnderWay
<1>3. pending # <<>> /\ n \in DOMAIN nodes /\ Waiting = {call} \cup Waiting' /\ Waiting' = Range(Tail(pending))
  BY <1>1, NextCall DEF Waiting
<1>4. PICK P : copies \in Seq(CopyRecords(P))
  BY <1>2 DEF CopiesLinked
<1>5. /\ Len(copies) \in Nat /\ DOMAIN copies = 1 .. Len(copies) /\ Nil \notin DOMAIN copies
      /\ L \notin DOMAIN copies /\ L # Nil /\ L \in 1 .. L /\ DOMAIN copies \subseteq 1 .. L
      /\ \A i \in 1 .. L : i \in DOMAIN copies \/ i = L
      /\ (copies = <<>> => L = 1) /\ (copies # <<>> => 1 \in DOMAIN copies)
  BY <1>4, CopyFields DEF Nil
<1>6. \A i : IsRead(i) <=> i \in DOMAIN copies
  BY <1>1 DEF IsRead
<1>7. /\ copies = <<>> => call.parent = Nil /\ Waiting' = {}
      /\ copies # <<>> => /\ call.parent \in DOMAIN copies /\ call.bit \in Bit
                          /\ ChildOf(copies, call.parent, call.bit) = Nil
  <2>1. CASE copies = <<>>
    <3> DEFINE c == [node |-> Root, parent |-> Nil, bit |-> 0]
    <3>1. pending = <<c>> /\ c.parent = Nil
      BY <1>2, <2>1 DEF CallsFit
    <3> HIDE DEF c
    <3>2. Head(pending) = c /\ Tail(pending) = <<>>
      BY <3>1
    <3> QED
      BY <1>3, <2>1, <3>1, <3>2 DEF Range
  <2>2. CASE copies # <<>>
    BY <1>2, <1>3, <1>6, <2>2 DEF CallsFit
  <2> QED
    BY <2>1, <2>2
<1>8. nodes[n].partial \in Seq(Bit)
  BY <1>3, TypesOfTree DEF TrieInv
<1>9. PrefixAbove(call) \in Seq(Bit)
  BY <1>2, <1>6, <1>7, PrefixesAbove
<1>10. r.prefix \in Seq(Bit)
  <2> DEFINE a == PrefixAbove(call)
             b == nodes[n].partial
  <2>1. a \in Seq(Bit) /\ b \in Seq(Bit)
    BY <1>8, <1>9
  <2> HIDE DEF a, b
  <2>2. a \o b \in Seq(Bit)
    BY <2>1, ConcatProperties
  <2> QED
    BY <2>2 DEF a, b
<1>11. CopyAdded(copies', call, r)
  <2> DEFINE Q == P \cup {nodes[n].partial, nodes[n].hash, PrefixAbove(call) \o nodes[n].partial, <<>>}
  <2>1. copies \in Seq(CopyRecords(Q))
    <3>1. CopyRecords(P) \subseteq CopyRecords(Q)
      BY DEF CopyRecords
    <3> HIDE DEF Q
    <3> QED
      BY <1>4, <3>1
  <2>2. r \in CopyRecords(Q)
    BY DEF CopyRecords, Nil
  <2> HIDE DEF Q, r, call
  <2>3. CopyAdded(Append(Linked(call, Len(copies) + 1), r), call, r)
    BY <1>7, <2>1, <2>2, AddCopy
  <2> QED
    BY <1>1, <2>3
<1>12. /\ r.partial = nodes[n].partial /\ r.prefix = PrefixAbove(call) \o nodes[n].partial
       /\ r.cumulative = <<>> /\ r.left = Nil /\ r.right = Nil
  OBVIOUS
<1> HIDE DEF r
<1>13. /\ (\E Q : copies' \in Seq(CopyRecords(Q))) /\ Len(copies') = L /\ DOMAIN copies' = 1 .. L
       /\ copies'[L] = r
       /\ \A i \in DOMAIN copies :
              /\ copies'[i].partial = copies[i].partial
              /\ copies'[i].prefix = copies[i].prefix /\ copies'[i].cumulative = copies[i].cumulative
              /\ \A b \in Bit : ChildOf(copies', i, b) = IF i = call.parent /\ b = call.bit THEN L
                                                         ELSE ChildOf(copies, i, b)
  BY <1>11, Zenon DEF CopyAdded
<1>14. \A i : IsRead(i)' <=> i \in DOMAIN copies
  BY <1>1, <1>5, <1>13 DEF IsRead
<1>15. PrefixAbove(call)' = PrefixAbove(call)
  BY <1>1, <1>5, <1>7, <1>13 DEF PrefixAbove
<1> HIDE DEF call, L, n
<1>16. ASSUME NEW i \in DOMAIN copies, IsLinked(i) PROVE IsLinked(i)'
  <2>1. PICK up \in DOMAIN copies, b \in Bit :
            up < i /\ ChildOf(copies, up, b) = i /\ copies[i].prefix = copies[up].prefix \o copies[i].partial
    BY <1>16 DEF IsLinked
  <2>2. i # Nil
    BY <1>5
  <2>3. ~ (up = call.parent /\ b = call.bit)
    BY <1>7, <2>1, <2>2
  <2>4. ChildOf(copies', up, b) = i
    BY <1>13, <2>1, <2>3
  <2>5. up \in DOMAIN copies'
    BY <1>5, <1>13
  <2> QED
    BY <1>13, <2>1, <2>4, <2>5 DEF IsLinked
<1>17. PICK l : l = L
  OBVIOUS
<1>18. l = 1 \/ IsLinked(l)'
  <2>1. CASE copies = <<>>
    BY <1>5, <1>17, <2>1
  <2>2. CASE copies # <<>>
    <3> DEFINE up == call.parent
               b == call.bit
    <3>1. up \in DOMAIN copies /\ b \in Bit /\ up # Nil
      BY <1>5, <1>7, <2>2
    <3>2. up < l /\ up \in DOMAIN copies'
      BY <1>5, <1>13, <1>17, <3>1 DEF L
    <3>3. ChildOf(copies', up, b) = l
      BY <1>13, <1>17, <3>1
    <3>4. copies'[l].prefix = copies'[up].prefix \o copies'[l].partial
      BY <1>12, <1>13, <1>17, <3>1 DEF PrefixAbove
    <3> QED
      BY <3>1, <3>2, <3>3, <3>4 DEF IsLinked
  <2> QED
    BY <2>1, <2>2
<1>19. CopiesLinked'
  <2>1. \A i \in DOMAIN copies :
            /\ copies'[i].partial \in Seq(Bit) /\ copies'[i].prefix \in Seq(Bit)
            /\ copies'[i].cumulative \in Seq(Bit)
            /\ i = 1 \/ IsLinked(i)'
            /\ Shortened(copies'[i].prefix, copies'[i].cumulative)
    BY <1>2, <1>6, <1>13, <1>16 DEF CopiesLinked
  <2>2. /\ copies'[l].partial \in Seq(Bit) /\ copies'[l].prefix \in Seq(Bit)
        /\ copies'[l].cumulative \in Seq(Bit) /\ ~ IsRead(l)'
    <3>1. <<>> \in Seq(Bit)
      OBVIOUS
    <3>2. ~ IsRead(l)'
      BY <1>5, <1>14, <1>17
    <3> QED
      BY <1>8, <1>10, <1>12, <1>13, <1>17, <3>1, <3>2
  <2>3. copies'[1].prefix = copies'[1].partial
    <3>1. CASE copies = <<>>
      <4>1. call.parent = Nil /\ L = 1
        BY <1>5, <1>7, <3>1
      <4>2. r.prefix = <<>> \o nodes[n].partial
        BY <1>12, <4>1 DEF PrefixAbove
      <4>3. <<>> \o nodes[n].partial = nodes[n].partial
        BY <1>8, ConcatEmptySeq
      <4> QED
        BY <1>12, <1>13, <4>1, <4>2, <4>3
    <3>2. CASE copies # <<>>
      BY <1>2, <1>5, <1>13, <3>2 DEF CopiesLinked
    <3> QED
      BY <3>1, <3>2
  <2>4. \A i \in DOMAIN copies' : i \in DOMAIN copies \/ i = l
    BY <1>5, <1>13, <1>17
  <2> QED
    BY <1>13, <1>18, <2>1, <2>2, <2>3, <2>4 DEF CopiesLinked
<1>20. CallsFit'
  <2>1. SlotsDiffer(pending) /\ \A c \in Waiting' : OtherSlot(call, c)
    <3>1. \E R : pending \in Seq(R)
      BY <1>1, NextCall
    <3> QED
      BY <1>2, <1>3, <3>1, TailDiffers DEF CallsFit, call
  <2>2. copies' # <<>>
    BY <1>5, <1>13
  <2>3. ASSUME NEW c \in Waiting'
        PROVE  IsRead(c.parent)' /\ c.bit \in Bit /\ ChildOf(copies', c.parent, c.bit) = Nil
    <3>1. c \in Waiting /\ copies # <<>>
      BY <1>3, <1>7
    <3>2. c.parent \in DOMAIN copies /\ c.bit \in Bit /\ ChildOf(copies, c.parent, c.bit) = Nil
      BY <1>2, <1>6, <3>1 DEF CallsFit
    <3>3. ~ (c.parent = call.parent /\ c.bit = call.bit)
      BY <2>1 DEF OtherSlot
    <3>4. ChildOf(copies', c.parent, c.bit) = Nil
      BY <1>13, <3>2, <3>3
    <3> QED
      BY <1>14, <3>2, <3>4
  <2>4. \A b \in Bit : ChildOf(copies', L, b) = Nil
    BY <1>12, <1>13 DEF ChildOf
  <2>5. /\ copies'[L].prefix = PrefixAbove(call)' \o copies'[L].partial
        /\ Shortened(copies'[L].partial, nodes'[n].partial)
    BY <1>1, <1>8, <1>12, <1>13, <1>15, ShortenedRefl
  <2>6. call.parent = Nil \/ IsRead(call.parent)'
    <3>1. call' = call
      BY <1>1 DEF call
    <3> QED
      BY <1>5, <1>7, <1>14, <3>1
  <2>7. Len(copies') = L /\ Head(pending') = call /\ call' = call /\ call.node = n
    BY <1>1, <1>13 DEF call, n
  <2> QED
    BY <1>1, <2>1, <2>2, <2>3, <2>4, <2>5, <2>6, <2>7 DEF CallsFit, SlotsDiffer, OtherSlot, call
<1>21. SeenStands' /\ req'.kind = "set" /\ req'.range \in SetRanges
  BY <1>1, <1>2 DEF SeenStands
<1> QED
  BY <1>19, <1>20, <1>21 DEF CollectFits

LEMMA ExtendCollect ==
    ASSUME TrieInv, CollectFits, ExtendSetCompletenessProof, UNCHANGED treeVars
    PROVE  CollectFits'
<1> DEFINE call == Head(pending)
           n == call.node
           L == Len(copies)
           x == CumulativeAbove(call) \o nodes[n].partial
           new == Children(n, L)
           t == Tail(pending)
<1>1. /\ nodes' = nodes /\ rpc = "extend" /\ rpc' \in {"verify", "set"} /\ req' = req /\ seen' = seen
      /\ copies' = [copies EXCEPT ![L].cumulative = x]
      /\ pending' = new \o t \/ pending' = t
  BY DEF ExtendSetCompletenessProof, treeVars
<1>2. CopiesLinked /\ CallsFit /\ SeenStands /\ req.kind = "set" /\ req.range \in SetRanges
  BY <1>1 DEF CollectFits, SetUnderWay
<1>3. /\ pending # <<>> /\ (\E R : pending \in Seq(R)) /\ n \in DOMAIN nodes
      /\ Waiting = Range(t)
  BY <1>1, NextCall DEF Waiting
<1>4. PICK P : copies \in Seq(CopyRecords(P))
  BY <1>2 DEF CopiesLinked
<1>5. /\ copies # <<>> /\ copies[L].prefix = PrefixAbove(call) \o copies[L].partial
      /\ call.parent = Nil \/ IsRead(call.parent)
      /\ \A b \in Bit : ChildOf(copies, L, b) = Nil
      /\ Shortened(copies[L].partial, nodes[n].partial)
      /\ \A c \in Waiting : /\ IsRead(c.parent) /\ c.bit \in Bit
                            /\ ChildOf(copies, c.parent, c.bit) = Nil
  BY <1>1, <1>2 DEF CallsFit
<1>6. L \in Nat /\ DOMAIN copies = 1 .. L /\ L \in DOMAIN copies /\ 1 \in DOMAIN copies
  <2>1. L > 0
    BY <1>4, <1>5
  <2> QED
    BY <1>4, <2>1, CopyFields
<1>7. /\ (\E Q : copies' \in Seq(CopyRecords(Q))) /\ DOMAIN copies' = DOMAIN copies
      /\ Len(copies') = L /\ copies' # <<>> /\ copies'[L].cumulative = x
      /\ \A i \in DOMAIN copies :
             /\ copies'[i].partial = copies[i].partial /\ copies'[i].prefix = copies[i].prefix
             /\ copies'[i].left = copies[i].left /\ copies'[i].right = copies[i].right
             /\ i # L => copies'[i].cumulative = copies[i].cumulative
  <2> HIDE DEF x
  <2> QED
    BY <1>1, <1>4, <1>5, CumulativeRead
<1>8. \A i \in DOMAIN copies, b \in Bit : ChildOf(copies', i, b) = ChildOf(copies, i, b)
  BY <1>7 DEF ChildOf
<1>9. (\A i : IsRead(i) <=> i \in DOMAIN copies /\ i # L) /\ \A i : IsRead(i)' <=> i \in DOMAIN copies
  BY <1>1, <1>7 DEF IsRead
<1>10. x \in Seq(Bit) /\ Shortened(copies[L].prefix, x)
  <2> DEFINE p == PrefixAbove(call)
             q == CumulativeAbove(call)
             u == copies[L].partial
             w == nodes[n].partial
  <2>1. p \in Seq(Bit) /\ q \in Seq(Bit) /\ Shortened(p, q)
    BY <1>2, <1>5, PrefixesAbove
  <2>2. u \in Seq(Bit) /\ w \in Seq(Bit)
    BY <1>2, <1>3, <1>6, TypesOfTree DEF CopiesLinked, TrieInv
  <2>3. copies[L].prefix = p \o u /\ x = q \o w /\ Shortened(u, w)
    BY <1>5
  <2> HIDE DEF p, q, u, w, x
  <2> QED
    BY <2>1, <2>2, <2>3, ShortenedJoin, ConcatProperties
<1> HIDE DEF call, n, x
<1>11. CopiesLinked'
  <2>1. ASSUME NEW i \in DOMAIN copies, IsLinked(i) PROVE IsLinked(i)'
    <3>1. PICK up \in DOMAIN copies :
              /\ up < i /\ \E b \in Bit : ChildOf(copies, up, b) = i
              /\ copies[i].prefix = copies[up].prefix \o copies[i].partial
      BY <2>1, Zenon DEF IsLinked
    <3>2. \E b \in Bit : ChildOf(copies', up, b) = i
      BY <1>8, <3>1
    <3>3. up \in DOMAIN copies' /\ copies'[i].prefix = copies'[up].prefix \o copies'[i].partial
      BY <1>7, <3>1
    <3>4. ChildOf(copies, up, 0)' = ChildOf(copies', up, 0) /\ ChildOf(copies, up, 1)' = ChildOf(copies', up, 1)
      BY DEF ChildOf
    <3> QED
      BY <3>1, <3>2, <3>3, <3>4 DEF IsLinked, Bit
  <2>2. ASSUME NEW i \in DOMAIN copies, i # L
        PROVE  /\ copies'[i].cumulative \in Seq(Bit)
               /\ Shortened(copies'[i].prefix, copies'[i].cumulative)
    BY <1>2, <1>7, <1>9, <2>2 DEF CopiesLinked
  <2>3. copies'[L].cumulative \in Seq(Bit) /\ Shortened(copies'[L].prefix, copies'[L].cumulative)
    BY <1>6, <1>7, <1>10
  <2>4. \A i \in DOMAIN copies :
            /\ copies'[i].partial \in Seq(Bit) /\ copies'[i].prefix \in Seq(Bit)
            /\ i = 1 \/ IsLinked(i)'
    BY <1>2, <1>7, <2>1 DEF CopiesLinked
  <2>5. copies'[1].prefix = copies'[1].partial
    BY <1>2, <1>5, <1>6, <1>7 DEF CopiesLinked
  <2> QED
    BY <1>7, <2>2, <2>3, <2>4, <2>5 DEF CopiesLinked
<1>12. SlotsDiffer(pending')
  <2>1. SlotsDiffer(t) /\ \E R : t \in Seq(R)
    BY <1>2, <1>3, TailDiffers DEF CallsFit
  <2>2. SlotsDiffer(new)
    BY ChildrenDiffer
  <2>3. (\E R : new \in Seq(R)) /\ Range(new) = CallsFor(n, L)
    BY ChildrenAre
  <2>4. \A c \in Range(new), d \in Range(t) : OtherSlot(c, d)
    <3>1. \A c \in CallsFor(n, L) : c.parent = L
      BY DEF CallsFor
    <3>2. \A d \in Range(t) : d.parent # L
      BY <1>3, <1>5, <1>9
    <3> QED
      BY <2>3, <3>1, <3>2 DEF OtherSlot
  <2> HIDE DEF new, t
  <2>5. SlotsDiffer(new \o t)
    BY <2>1, <2>2, <2>3, <2>4, JoinDiffers
  <2>6. pending' = new \o t \/ pending' = t
    BY <1>1
  <2> QED
    BY <2>1, <2>5, <2>6
<1>13. ASSUME NEW c \in Waiting'
       PROVE  IsRead(c.parent)' /\ c.bit \in Bit /\ ChildOf(copies', c.parent, c.bit) = Nil
  <2>1. Waiting' = Waiting \/ Waiting' = Waiting \cup CallsFor(Head(pending).node, Len(copies))
    BY NowWaiting
  <2>2. CASE c \in Waiting
    BY <1>5, <1>8, <1>9, <2>2
  <2>3. CASE c \in CallsFor(n, L)
    <3>1. c.parent = L /\ c.bit \in Bit
      BY <2>3 DEF CallsFor
    <3> QED
      BY <1>5, <1>6, <1>8, <1>9, <3>1
  <2> QED
    BY <2>1, <2>2, <2>3 DEF n, call
<1>14. CallsFit'
  <2>1. SlotsDiffer(pending)'
    BY <1>12 DEF SlotsDiffer, OtherSlot
  <2>2. \A c \in Waiting' : IsRead(c.parent)' /\ c.bit \in Bit /\ ChildOf(copies, c.parent, c.bit)' = Nil
    BY <1>13 DEF ChildOf
  <2> QED
    BY <1>1, <1>7, <2>1, <2>2, Zenon DEF CallsFit
<1>15. SeenStands' /\ req'.kind = "set" /\ req'.range \in SetRanges
  BY <1>1, <1>2 DEF SeenStands
<1> QED
  BY <1>11, <1>14, <1>15 DEF CollectFits

\* The hash of a copy is one of the trie that the client's root hash is of,
\* or no hash at the root, and its prefix is that of the node but for the
\* partial prefix, which is the copy's own.
Stands(T, i) ==
    \E a \in Seq(Bit) :
        /\ copies[i].prefix = a \o copies[i].partial
        /\ \/ \E m \in DOMAIN T : copies[i].hash = T[m].hash /\ T[m].key = a \o T[m].partial
           \/ copies[i].hash = NilHash /\ a = <<>>

\* A hash stands for what it is made of.
LEMMA HashTells ==
    ASSUME NEW p, NEW q, NEW l, NEW r, NEW k, NEW v, NEW w,
           [partial |-> p, kids |-> k, value |-> v] = NodeHash(q, l, r, w)
    PROVE  p = q /\ k = Existing(l, r) /\ v = w
BY DEF NodeHash

IsKid(h, kids) == \E j \in DOMAIN kids : kids[j] = h

LEMMA KidIs ==
    \A l, r, h : (h = l \/ h = r) /\ h # NilHash => IsKid(h, Existing(l, r))
<1> SUFFICES ASSUME NEW l, NEW r, NEW h, h = l \/ h = r, h # NilHash PROVE IsKid(h, Existing(l, r))
  OBVIOUS
<1> DEFINE k == Existing(l, r)
<1>1. \/ l # NilHash /\ r = NilHash /\ k = <<l>>
      \/ l = NilHash /\ r # NilHash /\ k = <<r>>
      \/ l # NilHash /\ r # NilHash /\ k = <<l, r>>
  BY KidsExist
<1> HIDE DEF k
<1>2. \E j \in DOMAIN k : k[j] = h
  <2>1. CASE l # NilHash /\ r = NilHash /\ k = <<l>>
    <3>1. 1 \in DOMAIN k /\ k[1] = l
      BY <2>1
    <3> QED
      BY <2>1, <3>1
  <2>2. CASE l = NilHash /\ r # NilHash /\ k = <<r>>
    <3>1. 1 \in DOMAIN k /\ k[1] = r
      BY <2>2
    <3> QED
      BY <2>2, <3>1
  <2>3. CASE l # NilHash /\ r # NilHash /\ k = <<l, r>>
    <3>1. 1 \in DOMAIN k /\ k[1] = l /\ 2 \in DOMAIN k /\ k[2] = r
      BY <2>3
    <3> QED
      BY <3>1
  <2> QED
    BY <1>1, <2>1, <2>2, <2>3
<1> QED
  BY <1>2 DEF k, IsKid

\* A node that is hashed with two children exists with both.
LEMMA TwoKids ==
    ASSUME NEW l, NEW r, NEW l1, NEW r1, l1 # NilHash, r1 # NilHash, Existing(l, r) = Existing(l1, r1)
    PROVE  l # NilHash /\ r # NilHash
<1> DEFINE k == Existing(l, r)
<1>1. k = <<l1, r1>>
  BY KidsExist
<1>2. \/ k = <<>> \/ k = <<l>> \/ k = <<r>>
      \/ l # NilHash /\ r # NilHash
  BY KidsExist
<1> HIDE DEF k
<1>3. Len(k) = 2
  BY <1>1
<1>4. k # <<>> /\ k # <<l>> /\ k # <<r>>
  BY <1>3
<1> QED
  BY <1>2, <1>4

\* What the hash of a copied parent says of its children's.
LEMMA CopyBelow ==
    ASSUME NEW T, NEW map, IsTrie(T, map), CopiesLinked, CheckHash,
           NEW up \in DOMAIN copies, NEW i \in DOMAIN copies, NEW b \in Bit, i # Nil,
           ChildOf(copies, up, b) = i, copies[i].prefix = copies[up].prefix \o copies[i].partial,
           Stands(T, up)
    PROVE  Stands(T, i)
<1> DEFINE l == CopiedHash(copies[up].left)
           r == CopiedHash(copies[up].right)
           h == copies[i].hash
           a == copies[up].prefix
<1>1. copies[up].hash = NodeHash(copies[up].partial, l, r, NoValue)
  <2>1. ~ Childless(copies[up])
    BY DEF Childless, ChildOf, Bit
  <2> QED
    BY <2>1 DEF CheckHash
<1>2. h = l \/ h = r
  BY DEF CopiedHash, ChildOf, Bit
<1>3. a \in Seq(Bit) /\ copies[up].partial \in Seq(Bit) /\ copies[i].partial \in Seq(Bit)
  BY DEF CopiesLinked
<1> HIDE DEF l, r, h
<1>6. h # NilHash => IsKid(h, Existing(l, r))
  BY <1>2, KidIs, Zenon
<1>4. PICK z \in Seq(Bit) :
          /\ copies[up].prefix = z \o copies[up].partial
          /\ \/ \E m \in DOMAIN T : copies[up].hash = T[m].hash /\ T[m].key = z \o T[m].partial
             \/ copies[up].hash = NilHash /\ z = <<>>
  BY Zenon DEF Stands
<1>5. (\E m \in DOMAIN T : h = T[m].hash /\ T[m].key = a \o T[m].partial) \/ (h = NilHash /\ a = <<>>)
  <2>1. CASE copies[up].hash = NilHash /\ z = <<>>
    <3>1. copies[up].partial = <<>> /\ Existing(l, r) = <<>>
      BY <1>1, <2>1 DEF NilHash, NodeHash
    <3>2. h = NilHash
      <4> SUFFICES ASSUME h # NilHash PROVE FALSE
        OBVIOUS
      <4>1. \E j \in DOMAIN Existing(l, r) : Existing(l, r)[j] = h
        BY <1>6 DEF IsKid
      <4> QED
        BY <3>1, <4>1
    <3>3. a = <<>> \o <<>> /\ <<>> \o <<>> = <<>>
      BY <1>4, <2>1, <3>1
    <3> QED
      BY <3>2, <3>3
  <2>2. ASSUME NEW m \in DOMAIN T, copies[up].hash = T[m].hash, T[m].key = z \o T[m].partial
        PROVE  <1>5
    <3>1. T[m].hash.partial = T[m].partial /\ T[m].hash.value = T[m].value
      BY TrieKids
    <3>2. /\ T[m].hash.partial = copies[up].partial /\ T[m].hash.value = NoValue
          /\ T[m].hash.kids = Existing(l, r)
      BY <1>1, <2>2 DEF NodeHash
    <3>3. T[m].key = a
      BY <1>4, <2>2, <3>1, <3>2
    <3>4. CASE h # NilHash
      <4>1. PICK j \in DOMAIN T[m].hash.kids : T[m].hash.kids[j] = h
        BY <1>6, <3>2, <3>4 DEF IsKid
      <4>2. PICK c \in DOMAIN T \ {Root} : T[c].parent = m /\ T[m].hash.kids[j] = T[c].hash
        BY TrieKids
      <4>3. T[c].key = T[m].key \o T[c].partial
        BY <4>2, TrieNode
      <4> QED
        BY <3>3, <4>1, <4>2, <4>3
    <3>5. CASE h = NilHash
      <4>1. m = Root
        <5> SUFFICES ASSUME m # Root PROVE FALSE
          OBVIOUS
        <5>1. ~ T[m].leaf
          <6>1. T[m].leaf => T[m].value # NoValue
            BY Zenon DEF IsTrie, IsTrieOf
          <6> QED
            BY <3>1, <3>2, <6>1
        <5>2. T[m].left # Nil /\ T[m].right # Nil
          BY <5>1, Zenon DEF IsTrie, IsTrieOf
        <5>3. ChildOf(T, m, 0) = T[m].left /\ ChildOf(T, m, 1) = T[m].right /\ 0 \in Bit /\ 1 \in Bit
          BY DEF ChildOf, Bit
        <5>4. HashAt(T, T[m].left) # NilHash /\ HashAt(T, T[m].right) # NilHash
          BY <5>2, <5>3, TrieKids
        <5>5. T[m].hash.kids = Existing(HashAt(T, T[m].left), HashAt(T, T[m].right))
          BY TrieKids
        <5> QED
          BY <1>2, <3>2, <3>5, <5>4, <5>5, TwoKids
      <4>2. T[Root].key = <<>>
        BY Zenon DEF IsTrie, IsTrieOf
      <4> QED
        BY <3>3, <3>5, <4>1, <4>2
    <3> QED
      BY <3>4, <3>5
  <2> QED
    BY <1>4, <2>1, <2>2
<1> QED
  BY <1>3, <1>5 DEF Stands, h

LEMMA CopiesStand ==
    ASSUME NEW T, NEW map, IsTrie(T, map), CopiesLinked, CheckHash, copies # <<>>,
           copies[1].hash = T[Root].hash
    PROVE  \A i \in DOMAIN copies : Stands(T, i)
<1>1. PICK P : copies \in Seq(CopyRecords(P))
  BY DEF CopiesLinked
<1>2. Len(copies) \in Nat /\ DOMAIN copies = 1 .. Len(copies) /\ Nil \notin DOMAIN copies
  BY <1>1, CopyFields
<1>3. 1 \in DOMAIN copies
  BY <1>1, <1>2
<1>4. Stands(T, 1)
  <2> DEFINE p == copies[1].partial
             q == T[Root].partial
  <2>1. copies[1].prefix = p /\ p \in Seq(Bit)
    BY <1>3 DEF CopiesLinked
  <2>2. Root \in DOMAIN T /\ T[Root].key = <<>> /\ q = <<>>
    BY Zenon DEF IsTrie, IsTrieOf
  <2>3. <<>> \in Seq(Bit) /\ <<>> \o <<>> = <<>>
    OBVIOUS
  <2>4. <<>> \o p = p
    BY <2>1, ConcatEmptySeq
  <2> QED
    BY <2>1, <2>2, <2>3, <2>4 DEF Stands
<1> DEFINE D == {i \in 1 .. Len(copies) : ~ Stands(T, i)}
<1> SUFFICES ASSUME D # {} PROVE FALSE
  BY <1>2
<1>5. D \subseteq Nat
  OBVIOUS
<1>6. PICK i \in D : \A j \in D : i <= j
  BY <1>5, NatMin
<1>7. i \in DOMAIN copies /\ ~ Stands(T, i) /\ i # 1 /\ i # Nil
  BY <1>2, <1>4, <1>6
<1>8. PICK up \in DOMAIN copies, b \in Bit :
          up < i /\ ChildOf(copies, up, b) = i /\ copies[i].prefix = copies[up].prefix \o copies[i].partial
  BY <1>7 DEF CopiesLinked, IsLinked
<1>9. Stands(T, up)
  BY <1>2, <1>6, <1>8
<1> QED
  BY <1>7, <1>8, <1>9, CopyBelow

\* What the client accepts of what it finds is committed and in the range.
LEMMA FoundIsCommitted ==
    ASSUME CollectFits, rpc = "verify", CheckHash, copies[1].hash = seen, seen # NilHash,
           NEW f \in FindValidNodes, f.cumulative \in Keys,
           f.hash = NodeHash(f.partial, NilHash, NilHash, f.hash.value)
    PROVE  <<f.cumulative, f.hash.value>> \in Committed(seen) /\ InRange(f.cumulative, req.range)
<1>1. CopiesLinked /\ CallsFit /\ SeenStands /\ req.range \in SetRanges
  BY DEF CollectFits, SetUnderWay
<1>2. PICK T, map : T[Root].hash = seen /\ IsTrie(T, map)
  BY <1>1 DEF SeenStands
<1>3. copies # <<>>
  BY <1>1 DEF CallsFit
<1>4. PICK i \in DOMAIN copies :
          /\ DoesPrefixOverlapRange(req.range, copies[i].prefix)
          /\ f.cumulative = copies[i].cumulative /\ f.partial = copies[i].partial
          /\ f.hash = copies[i].hash
  BY DEF FindValidNodes
<1>5. Stands(T, i)
  BY <1>1, <1>2, <1>3, CopiesStand
<1>6. PICK a \in Seq(Bit) :
          /\ copies[i].prefix = a \o copies[i].partial
          /\ \/ \E m \in DOMAIN T : copies[i].hash = T[m].hash /\ T[m].key = a \o T[m].partial
             \/ copies[i].hash = NilHash /\ a = <<>>
  BY <1>5, Zenon DEF Stands
<1>7. Shortened(copies[i].prefix, f.cumulative)
  BY <1>1, <1>4 DEF CopiesLinked, IsRead
<1>8. f.hash.partial = f.partial /\ f.hash.kids = <<>>
  <2>1. Existing(NilHash, NilHash) = <<>>
    BY KidsExist
  <2> QED
    BY <2>1 DEF NodeHash
<1>9. Len(f.cumulative) \in Nat /\ Len(f.cumulative) > 0
  BY KeysAssumption, LenProperties
<1>10. CASE copies[i].hash = NilHash /\ a = <<>>
  <2>1. copies[i].partial = <<>>
    BY <1>4, <1>8, <1>10 DEF NilHash
  <2>2. copies[i].prefix = <<>> \o <<>> /\ <<>> \o <<>> = <<>>
    BY <1>6, <1>10, <2>1
  <2>3. Len(f.cumulative) <= Len(<<>>) /\ Len(<<>>) = 0
    BY <1>7, <2>2 DEF Shortened
  <2> QED
    BY <1>9, <2>3
<1>11. ASSUME NEW m \in DOMAIN T, copies[i].hash = T[m].hash, T[m].key = a \o T[m].partial
       PROVE  <<f.cumulative, f.hash.value>> \in Committed(seen) /\ InRange(f.cumulative, req.range)
  <2>1. /\ T[m].hash.partial = T[m].partial /\ T[m].hash.value = T[m].value
        /\ T[m].hash.kids = <<>>
    BY <1>2, <1>4, <1>8, <1>11, TrieKids
  <2>2. \A b \in Bit : ChildOf(T, m, b) = Nil
    <3> SUFFICES ASSUME NEW b \in Bit, ChildOf(T, m, b) # Nil PROVE FALSE
      OBVIOUS
    <3>1. \E j \in DOMAIN T[m].hash.kids : T[m].hash.kids[j] = T[ChildOf(T, m, b)].hash
      BY <1>2, TrieKids
    <3> QED
      BY <2>1, <3>1
  <2>3. T[m].left = Nil /\ T[m].right = Nil
    BY <2>2 DEF ChildOf, Bit
  <2>4. T[m].leaf
    <3> SUFFICES ASSUME ~ T[m].leaf PROVE FALSE
      OBVIOUS
    <3>1. T[m].value = NoValue /\ (m # Root => T[m].left # Nil /\ T[m].right # Nil)
          /\ T[Root].partial = <<>>
      BY <1>2, Zenon DEF IsTrie, IsTrieOf
    <3>2. m = Root
      BY <2>3, <3>1
    <3>3. T[m].hash = HashOfNode(T, m)
      BY <1>2 DEF IsTrie, IsTrieOf
    <3>4. Existing(NilHash, NilHash) = <<>>
      BY KidsExist
    <3>5. T[m].hash = NilHash
      BY <2>3, <3>1, <3>2, <3>3, <3>4 DEF HashOfNode, HashAt, NodeHash, NilHash
    <3> QED
      BY <1>2, <3>2, <3>5
  <2>5. T[m].key \in Keys /\ T[m].value # NoValue /\ T[m].value = map[T[m].key]
    BY <1>2, <2>4, Zenon DEF IsTrie, IsTrieOf
  <2>6. copies[i].prefix = T[m].key
    BY <1>4, <1>6, <1>8, <1>11, <2>1
  <2>7. f.cumulative = T[m].key
    <3>1. Len(f.cumulative) = Len(T[m].key)
      BY <2>5, SameLength
    <3> QED
      BY <1>7, <2>6, <3>1 DEF Shortened
  <2>8. <<T[m].key, map[T[m].key]>> \in Pairs(map)
    BY <2>5 DEF Pairs
  <2>9. f.hash.value = map[T[m].key]
    BY <1>4, <1>11, <2>1, <2>5
  <2>10. Committed(seen) = Pairs(map)
    BY <1>2, CommittedIsMap
  <2>11. InRange(T[m].key, req.range)
    BY <1>1, <1>4, <2>5, <2>6, OverlapOfKey
  <2> QED
    BY <2>7, <2>8, <2>9, <2>10, <2>11
<1> QED
  BY <1>6, <1>10, <1>11

-----------------------------------------------------------------------------
(* The copies of a set completeness proof, if no PrefixAppend disturbs it *)

\* With all calls made a copy has the children of its node if that overlaps
\* the range.
LEMMA CopiesAtEnd ==
    ASSUME CopiesFit, rpc = "verify", NEW i \in DOMAIN copies, NEW n \in DOMAIN nodes, IsCopyOf(i, n)
    PROVE  /\ copies[i].cumulative = nodes[n].key
           /\ DoesPrefixOverlapRange(req.range, nodes[n].key) =>
                  \A b \in Bit : ChildOf(copies, i, b) = Nil <=> ChildOf(nodes, n, b) = Nil
<1>1. Waiting = {}
  <2>1. pending = <<>>
    BY DEF CopiesFit
  <2> QED
    BY <2>1 DEF Waiting, Range
<1>2. IsRead(i)
  BY DEF IsRead
<1>3. /\ copies[i].cumulative = nodes[n].key
      /\ DoesPrefixOverlapRange(req.range, nodes[n].key) => AllCopied(i, n)
      /\ \A b \in Bit : ChildOf(copies, i, b) # Nil => ChildOf(nodes, n, b) # Nil
  BY <1>2 DEF IsCopyOf
<1> QED
  BY <1>1, <1>3 DEF AllCopied

\* What the client finds are copies of leaves.
LEMMA FoundIsLeaf ==
    ASSUME TrieInv, wpc = "idle", CopiesFit, rpc = "verify", nodes[Root].hash # NilHash,
           NEW f \in FindValidNodes
    PROVE  f.cumulative \in Keys /\ f.hash = NodeHash(f.partial, NilHash, NilHash, f.hash.value)
<1>1. PICK i \in DOMAIN copies :
          /\ Childless(copies[i]) /\ DoesPrefixOverlapRange(req.range, copies[i].prefix)
          /\ f.cumulative = copies[i].cumulative /\ f.partial = copies[i].partial
          /\ f.hash = copies[i].hash
  BY DEF FindValidNodes
<1>2. PICK n \in DOMAIN nodes : IsCopyOf(i, n)
  BY DEF CopiesFit
<1>3. /\ copies[i].partial = nodes[n].partial /\ copies[i].hash = nodes[n].hash
      /\ copies[i].prefix = nodes[n].key
  BY <1>2 DEF IsCopyOf
<1>4. /\ copies[i].cumulative = nodes[n].key
      /\ \A b \in Bit : ChildOf(copies, i, b) = Nil <=> ChildOf(nodes, n, b) = Nil
  BY <1>1, <1>2, <1>3, CopiesAtEnd
<1>5. \A b \in Bit : ChildOf(nodes, n, b) = Nil
  BY <1>1, <1>4 DEF Childless, ChildOf
<1>6. nodes[n].left = Nil /\ nodes[n].right = Nil
  BY <1>5 DEF ChildOf, Bit
<1>7. nodes[n].leaf
  <2> SUFFICES ASSUME ~ nodes[n].leaf PROVE FALSE
    OBVIOUS
  <2>1. IsTrieOf(nodes, content)
    BY TrieFollows DEF StaysTrie
  <2>2. n = Root /\ nodes[n].value = NoValue /\ nodes[Root].partial = <<>>
    BY <1>6, <2>1, Zenon DEF IsTrieOf
  <2>3. nodes[n].hash = HashOfNode(nodes, n)
    BY <2>1, Zenon DEF IsTrieOf
  <2>4. Existing(NilHash, NilHash) = <<>>
    BY KidsExist
  <2>5. nodes[n].hash = NilHash
    BY <1>6, <2>2, <2>3, <2>4 DEF HashOfNode, HashAt, NodeHash, NilHash
  <2> QED
    BY <2>2, <2>5
<1>8. nodes[n].key \in Keys /\ LeafHash(nodes[n].partial, nodes[n].value) = nodes[n].hash
  BY <1>7, LeafAtRest DEF TrieInv, TreeInv, NodesFit
<1>9. /\ nodes[n].hash = NodeHash(nodes[n].partial, NilHash, NilHash, nodes[n].value)
      /\ nodes[n].hash.value = nodes[n].value
  BY <1>8 DEF LeafHash, NodeHash
<1> QED
  BY <1>1, <1>3, <1>4, <1>8, <1>9

\* The copies go on, from the root, to each leaf in the range.
LEMMA LeafIsCopied ==
    ASSUME TrieInv, wpc = "idle", CopiesFit, rpc = "verify", req.range \in SetRanges,
           NEW k \in Keys, content[k] # NoValue, InRange(k, req.range)
    PROVE  \E i \in DOMAIN copies, n \in DOMAIN nodes : IsCopyOf(i, n) /\ nodes[n].key = k
<1> DEFINE IsOnWay(i, n) == IsCopyOf(i, n) /\ IsPrefix(nodes[n].key, k)
           Rest(n) == Len(k) - Len(nodes[n].key)
           D == {x \in Nat : \E i \in DOMAIN copies, n \in DOMAIN nodes : IsOnWay(i, n) /\ x = Rest(n)}
<1>1. k \in Seq(Bit) /\ Len(k) \in Nat
  BY KeysAssumption, LenProperties DEF Bit
<1>2. ASSUME NEW n \in DOMAIN nodes
      PROVE  nodes[n].key \in Seq(Bit) /\ Len(nodes[n].key) \in Nat /\ Len(nodes[n].partial) \in Nat
  BY TypesOfTree, LenProperties DEF TrieInv
<1>3. ASSUME NEW n \in DOMAIN nodes, IsPrefix(nodes[n].key, k)
      PROVE  Rest(n) \in Nat
  <2>1. Len(nodes[n].key) <= Len(k)
    BY <1>1, <1>2, <1>3, PrefixBits
  <2> QED
    BY <1>1, <1>2, <2>1
<1>4. \E i \in DOMAIN copies, n \in DOMAIN nodes : IsOnWay(i, n)
  <2>1. 1 \in DOMAIN copies /\ copies[1].prefix = nodes[Root].key
    <3>1. copies # <<>> /\ \E P : copies \in Seq(CopyRecords(P))
      BY DEF CopiesFit
    <3> QED
      BY <3>1 DEF CopiesFit
  <2>2. PICK n \in DOMAIN nodes : IsCopyOf(1, n)
    BY <2>1 DEF CopiesFit
  <2>3. nodes[n].key = <<>>
    BY <2>1, <2>2 DEF IsCopyOf, TrieInv, TreeInv, NodesFit
  <2>4. IsPrefix(nodes[n].key, k)
    BY <1>1, <2>3, EmptyPrefix
  <2> QED
    BY <2>1, <2>2, <2>4
<1> HIDE DEF Rest
<1>5. D # {} /\ D \subseteq Nat
  BY <1>3, <1>4
<1>6. PICK d \in D : \A x \in D : d <= x
  BY <1>5, NatMin
<1>7. PICK i \in DOMAIN copies, n \in DOMAIN nodes : IsOnWay(i, n) /\ d = Rest(n)
  BY <1>6
<1>8. ~ (Len(nodes[n].key) < Len(k))
  <2> SUFFICES ASSUME Len(nodes[n].key) < Len(k) PROVE FALSE
    OBVIOUS
  <2> DEFINE b == k[Len(nodes[n].key) + 1]
             c == ChildOf(nodes, n, b)
             j == ChildOf(copies, i, b)
  <2>1. b \in Bit
    <3>1. Len(nodes[n].key) + 1 \in 1 .. Len(k)
      BY <1>1, <1>2
    <3> QED
      BY <1>1, <3>1, ElementOfSeq
  <2>2. c # Nil /\ IsPrefix(nodes[c].key, k)
    BY <1>7, WayToKey DEF TrieInv
  <2> HIDE DEF b
  <2>3. c \in DOMAIN nodes \ {Root} /\ Len(nodes[c].key) = Len(nodes[n].key) + Len(nodes[c].partial)
    <3>1. ChildrenFit
      BY DEF TrieInv, TreeInv
    <3>2. ChildFits(n, b, c)
      BY <2>1, <2>2, <3>1, Zenon DEF ChildrenFit
    <3> QED
      BY <3>2, Zenon DEF ChildFits
  <2>4. Len(nodes[c].partial) > 0
    BY <2>3 DEF TrieInv, TreeInv, NodesFit
  <2>5. DoesPrefixOverlapRange(req.range, nodes[n].key)
    BY <1>2, <1>7, PrefixesOverlap
  <2>6. j # Nil
    BY <1>7, <2>1, <2>2, <2>5, CopiesAtEnd
  <2>7. j \in DOMAIN copies /\ copies[j].prefix = nodes[c].key
    BY <1>7, <2>1, <2>6 DEF IsCopyOf
  <2> HIDE DEF j, c
  <2>8. PICK m \in DOMAIN nodes : IsCopyOf(j, m)
    BY <2>7 DEF CopiesFit
  <2>9. nodes[m].key = nodes[c].key
    BY <2>7, <2>8 DEF IsCopyOf
  <2>10. IsOnWay(j, m) /\ Rest(m) \in Nat
    BY <1>3, <2>2, <2>8, <2>9
  <2>11. d <= Rest(m)
    BY <1>6, <2>7, <2>10
  <2>12. Len(nodes[c].partial) \in Nat /\ Len(nodes[n].key) \in Nat
    BY <1>2, <2>3
  <2> DEFINE x == Len(nodes[n].key)
             y == Len(nodes[c].key)
             z == Len(nodes[c].partial)
             u == Len(k)
  <2>13. d = u - x /\ d <= u - y
    BY <1>7, <2>9, <2>11 DEF Rest
  <2>14. x \in Nat /\ z \in Nat /\ u \in Nat /\ z > 0 /\ y = x + z
    BY <1>1, <2>3, <2>4, <2>12
  <2> HIDE DEF x, y, z, u
  <2> QED
    BY <2>13, <2>14
<1>9. nodes[n].key = k
  <2>1. /\ Len(nodes[n].key) <= Len(k)
        /\ \A x \in 1 .. Len(nodes[n].key) : nodes[n].key[x] = k[x]
    BY <1>1, <1>2, <1>7, PrefixBits
  <2>2. Len(nodes[n].key) = Len(k)
    BY <1>1, <1>2, <1>8, <2>1
  <2> QED
    BY <1>1, <1>2, <2>1, <2>2, SeqEqual
<1> QED
  BY <1>7, <1>9

\* Nothing that is in the range is left out.
LEMMA AllAreFound ==
    ASSUME TrieInv, wpc = "idle", CopiesFit, rpc = "verify", req.range \in SetRanges,
           NEW k \in Keys, content[k] # NoValue, InRange(k, req.range)
    PROVE  \E f \in FindValidNodes : f.cumulative = k /\ f.hash.value = content[k]
<1>1. PICK i \in DOMAIN copies, n \in DOMAIN nodes : IsCopyOf(i, n) /\ nodes[n].key = k
  BY LeafIsCopied
<1>2. nodes[n].leaf
  <2>1. Len(k) \in Nat
    BY KeysAssumption, LenProperties
  <2>2. ~ nodes[n].leaf => Len(nodes[n].key) < Len(k)
    BY DEF TrieInv, TreeInv, NodesFit
  <2> QED
    BY <1>1, <2>1, <2>2
<1>3. nodes[n].value = content[k] /\ LeafHash(nodes[n].partial, nodes[n].value) = nodes[n].hash
  BY <1>1, <1>2, LeafAtRest DEF TrieInv
<1>4. nodes[n].hash.value = content[k]
  BY <1>3 DEF LeafHash, NodeHash
<1>5. \A b \in Bit : ChildOf(nodes, n, b) = Nil
  BY <1>2 DEF TrieInv, TreeInv, ChildrenFit, ChildFits
<1>6. DoesPrefixOverlapRange(req.range, k)
  <2>1. k \in Seq(Bit)
    BY KeysAssumption DEF Bit
  <2> QED
    BY <2>1, PrefixesOverlap, PrefixRefl
<1>7. /\ copies[i].cumulative = k
      /\ \A b \in Bit : ChildOf(copies, i, b) = Nil
  BY <1>1, <1>5, <1>6, CopiesAtEnd
<1>8. Childless(copies[i])
  BY <1>7 DEF Childless, ChildOf, Bit
<1>9. copies[i].prefix = k /\ copies[i].hash = nodes[n].hash
  BY <1>1 DEF IsCopyOf
<1> DEFINE f == [cumulative |-> copies[i].cumulative, partial |-> copies[i].partial, hash |-> copies[i].hash]
<1>10. f \in FindValidNodes
  BY <1>6, <1>8, <1>9 DEF FindValidNodes
<1>11. f.cumulative = k /\ f.hash.value = content[k]
  BY <1>4, <1>7, <1>9
<1> QED
  BY <1>10, <1>11

-----------------------------------------------------------------------------
(* What a set completeness proof is about *)

LEMMA SetVerified ==
    ASSUME TrieInv, QuietInv, CollectFits, VerifyPrefixSet, UNCHANGED treeVars
    PROVE  VerifiedSet'
<1>1. /\ nodes' = nodes /\ wpc' = wpc /\ appends' = appends /\ rpc = "verify" /\ req' = req /\ seen' = seen
      /\ answer' = [status |-> IF CheckHash /\ copies[1].hash = seen THEN "verified" ELSE "rejected",
                    found  |-> FindValidNodes]
  BY DEF VerifyPrefixSet, Reply, treeVars
<1>2. /\ answer'.status = "verified" => CheckHash /\ copies[1].hash = seen
      /\ answer'.found = FindValidNodes
  BY <1>1
<1> SUFFICES ASSUME CheckHash, copies[1].hash = seen, seen # NilHash
             PROVE  LET Entry(f) == <<f.cumulative, f.hash.value>>
                        Accepted == \A f \in FindValidNodes :
                                        /\ f.cumulative \in Keys
                                        /\ f.hash = NodeHash(f.partial, NilHash, NilHash, f.hash.value)
                        entries  == {Entry(f) : f \in FindValidNodes}
                        expected == {e \in Committed(seen) : InRange(e[1], req.range)}
                    IN  /\ Accepted => entries \subseteq expected
                        /\ Undisturbed => Accepted /\ entries = expected
  <2>1. Undisturbed' = Undisturbed
    BY <1>1 DEF Undisturbed
  <2> QED
    BY <1>1, <1>2, <2>1 DEF VerifiedSet
<1> DEFINE Entry(f) == <<f.cumulative, f.hash.value>>
           Accepted == \A f \in FindValidNodes :
                           /\ f.cumulative \in Keys
                           /\ f.hash = NodeHash(f.partial, NilHash, NilHash, f.hash.value)
           entries  == {Entry(f) : f \in FindValidNodes}
           expected == {e \in Committed(seen) : InRange(e[1], req.range)}
<1>3. Accepted => entries \subseteq expected
  <2> SUFFICES ASSUME Accepted, NEW f \in FindValidNodes PROVE Entry(f) \in expected
    OBVIOUS
  <2>1. /\ <<f.cumulative, f.hash.value>> \in Committed(seen)
        /\ InRange(f.cumulative, req.range)
    BY <1>1, FoundIsCommitted
  <2>2. Entry(f)[1] = f.cumulative
    OBVIOUS
  <2> QED
    BY <2>1, <2>2
<1>4. ASSUME Undisturbed PROVE Accepted /\ entries = expected
  <2>1. wpc = "idle" /\ CopiesFit /\ seen = nodes[Root].hash
    BY <1>1, <1>4 DEF QuietInv, RestFits, Undisturbed
  <2>2. Accepted
    BY <1>1, <2>1, FoundIsLeaf
  <2>3. ASSUME NEW e \in expected PROVE e \in entries
    <3>1. e \in Committed(seen) /\ InRange(e[1], req.range)
      BY <2>3
    <3>2. IsTrie(nodes, content)
      BY <2>1, TrieFollows DEF StaysTrie, IsTrie, TrieInv, TreeInv, NodesFit
    <3>3. e \in Pairs(content)
      BY <2>1, <3>1, <3>2, CommittedIsMap
    <3>4. PICK k \in Keys : content[k] # NoValue /\ e = <<k, content[k]>>
      BY <3>3 DEF Pairs
    <3>5. req.range \in SetRanges
      BY <1>1 DEF CollectFits, SetUnderWay
    <3>6. PICK f \in FindValidNodes : f.cumulative = k /\ f.hash.value = content[k]
      BY <1>1, <2>1, <3>1, <3>4, <3>5, AllAreFound
    <3>7. e = Entry(f)
      BY <3>4, <3>6
    <3> QED
      BY <3>7
  <2> HIDE DEF entries, expected, Accepted
  <2>4. expected \subseteq entries
    BY <2>3
  <2> QED
    BY <1>3, <2>2, <2>4
<1> QED
  BY <1>3, <1>4

SetInv == CollectFits /\ VerifiedSet

LEMMA SetInitInv == Init => SetInv
<1> SUFFICES ASSUME Init PROVE SetInv
  OBVIOUS
<1>1. rpc = "idle" /\ answer.status = "none"
  BY DEF Init
<1> QED
  BY <1>1 DEF SetInv, CollectFits, SetUnderWay, VerifiedSet

\* A verified answer to a set query is VerifyPrefixSet's, and it stays until
\* it is forgotten.
LEMMA NoOtherVerifies ==
    ASSUME TrieInv, RequestFits, ReaderStep, ~ VerifyPrefixSet
    PROVE  VerifiedSet'
<1> SUFFICES req'.kind # "set" \/ answer'.status # "verified"
  BY DEF VerifiedSet
<1>1. rpc # "done" => answer.status = "none"
  BY DEF TrieInv, ReaderInv
<1>2. rpc \in {"membership", "match"} \cup Climbing => req.kind = "membership"
  BY DEF RequestFits
<1>3. ASSUME NEW k \in Keys, AskMembership(k) PROVE answer'.status # "verified"
  BY <1>1, <1>3 DEF AskMembership, Ask
<1>4. ASSUME NEW rg \in SetRanges, AskSet(rg) PROVE answer'.status # "verified"
  BY <1>1, <1>4 DEF AskSet, Ask
<1>5. CASE Descend
  BY <1>2, <1>5 DEF Descend
<1>6. CASE Match
  <2>1. rpc = "match" /\ (req' = req \/ req' = [req EXCEPT !.leaf = at])
    BY <1>6 DEF Match
  <2>2. [req EXCEPT !.leaf = at].kind = req.kind
    BY DEF TrieInv, ReaderInv
  <2> QED
    BY <1>2, <2>1, <2>2
<1>7. CASE BuildCopath \/ ReadLeafPrefix \/ VerifyMembership
  BY <1>2, <1>7, ClimbingOnly
<1>8. CASE CopyNode
  BY <1>1, <1>8 DEF CopyNode
<1>9. CASE ExtendSetCompletenessProof
  BY <1>1, <1>9 DEF ExtendSetCompletenessProof
<1>10. CASE Forget
  BY <1>10 DEF Forget
<1> QED
  BY <1>3, <1>4, <1>5, <1>6, <1>7, <1>8, <1>9, <1>10 DEF ReaderStep

LEMMA ReaderCollects ==
    ASSUME TrieInv, RequestFits, RootStands, CollectFits, ReaderStep, UNCHANGED treeVars
    PROVE  CollectFits'
<1>1. ASSUME NEW k \in Keys, AskMembership(k) PROVE ~ SetUnderWay'
  BY <1>1 DEF AskMembership, Ask, SetUnderWay
<1>2. ASSUME NEW rg \in SetRanges, AskSet(rg) PROVE CollectFits'
  BY <1>2, AskSetCollect
<1>3. ASSUME Descend PROVE ~ SetUnderWay'
  BY <1>3 DEF Descend, Reply, SetUnderWay
<1>4. ASSUME Match PROVE ~ SetUnderWay'
  BY <1>4 DEF Match, Reply, SetUnderWay
<1>5. ASSUME BuildCopath \/ ReadLeafPrefix \/ VerifyMembership PROVE ~ SetUnderWay'
  BY <1>5, ClimbingOnly DEF Climbing, InRound, SetUnderWay
<1>6. ASSUME VerifyPrefixSet \/ Forget PROVE ~ SetUnderWay'
  BY <1>6 DEF VerifyPrefixSet, Reply, Forget, SetUnderWay
<1>7. ~ SetUnderWay' => CollectFits'
  BY DEF CollectFits
<1>8. (CopyNode => CollectFits') /\ (ExtendSetCompletenessProof => CollectFits')
  BY CopyNodeCollect, ExtendCollect
<1>9. (Descend \/ Match \/ BuildCopath \/ ReadLeafPrefix \/ VerifyMembership \/ VerifyPrefixSet \/ Forget)
          => ~ SetUnderWay'
  BY <1>3, <1>4, <1>5, <1>6
<1> QED
  BY <1>1, <1>2, <1>7, <1>8, <1>9 DEF ReaderStep

LEMMA SetInvIsInductive == Spec => []SetInv
<1>1. Init => SetInv
  BY SetInitInv
<1>2. TrieInv /\ TrieInv' /\ QuietInv /\ SnapshotInv /\ SetInv /\ [Next]_vars => SetInv'
  <2> SUFFICES ASSUME TrieInv, TrieInv', QuietInv, SnapshotInv, SetInv, [Next]_vars PROVE SetInv'
    OBVIOUS
  <2>1. /\ TreeInv /\ TreeInv' /\ RequestFits /\ RootStands
        /\ CollectFits /\ VerifiedSet
    BY DEF TrieInv, QuietInv, SnapshotInv, SetInv
  <2>2. CASE WriterStep /\ UNCHANGED readerVars
    <3>1. CollectFits'
      BY <2>1, <2>2, WriterKeeps, WriterLetsCollect
    <3>2. ~ Undisturbed' /\ req' = req /\ seen' = seen /\ answer' = answer
      BY <2>1, <2>2, WriterDisturbs DEF readerVars
    <3>3. VerifiedSet'
      BY <2>1, <3>2 DEF VerifiedSet
    <3> QED
      BY <3>1, <3>3 DEF SetInv
  <2>3. CASE ReaderStep /\ UNCHANGED treeVars
    <3>1. CollectFits'
      BY <2>1, <2>3, ReaderCollects
    <3>2. VerifiedSet'
      BY <2>1, <2>3, SetVerified, NoOtherVerifies
    <3> QED
      BY <3>1, <3>2 DEF SetInv
  <2>4. CASE UNCHANGED vars
    <3>1. UNCHANGED treeVars /\ UNCHANGED readerVars
      BY <2>4 DEF vars
    <3>2. CollectFits'
      BY <2>1, <3>1, TreeStutters, WriterLetsCollect
    <3>3. Undisturbed' = Undisturbed /\ req' = req /\ seen' = seen /\ answer' = answer
      BY <3>1 DEF treeVars, readerVars, Undisturbed
    <3>4. VerifiedSet'
      BY <2>1, <3>3 DEF VerifiedSet
    <3> QED
      BY <3>2, <3>4 DEF SetInv
  <2> QED
    BY <2>2, <2>3, <2>4 DEF Next
<1> QED
  BY <1>1, <1>2, TrieInvIsInductive, QuietInvIsInductive, SnapshotInvIsInductive, PTL DEF Spec

\* A set completeness proof that verifies against the root hash read before
\* lists what that hash commits to in the range and nothing else, as long as
\* the client accepts each entry, whatever PrefixAppend did while the nodes
\* were copied one by one; if no PrefixAppend was at work, none is missing.
THEOREM VerifiedSetCorrect == Spec => []VerifiedSet
<1>1. SetInv => VerifiedSet
  BY DEF SetInv
<1> QED
  BY <1>1, SetInvIsInductive, PTL

=============================================================================
