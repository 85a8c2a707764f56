-------------------------- MODULE TapClient_proofs --------------------------
(***************************************************************************)
(* Proofs about a client of the service: its answers are about the rows    *)
(* that the root hash it started from commits to; while the operator only  *)
(* adds rows, the system implements TransparentTable; and a query that no  *)
(* call of the operator disturbs is answered, and rightly.                 *)
(***************************************************************************)
EXTENDS TapClient, TapServer_proofs

\* Where a query stands and what it has collected so far.
Shape ==
    /\ cpc \in {"membership", "leaf"} => query.kind = "lookup"
    /\ cpc \in {"request", "scan", "sums", "cut"} => query.kind = "sum"
    /\ cpc # "done" => answer = NoAnswer
    /\ cpc \in {"idle", "membership", "leaf", "request"} => pairs = {}
    /\ cpc \in {"idle", "membership", "leaf", "request", "scan"} => parts = {}
    /\ cpc = "idle" => scanLen = 0 /\ scanAt = 0 /\ leaf = {}
    /\ answer.status = "found" => query.kind = "lookup"
    /\ answer.status = "notFound" => query.kind = "lookup"
    /\ answer.status \in {"sum", "noEntries"} => query.kind = "sum"

\* A membership proof that verified is about the leaf that was committed to.
LeafCommitted == cpc = "leaf" => leaf = snap[query.row.key] /\ leaf # {}

ClientInv == TypeOK /\ Shape /\ LeafCommitted /\ FoundIsCommitted

LEMMA QueryRow ==
    ASSUME ClientTypeOK, query.kind = "lookup"
    PROVE  query.row \in LookupRows /\ query.row.key \in Key
BY LookupAssumption DEF ClientTypeOK

LEMMA ClientInitInv == Init => ClientInv
<1> SUFFICES ASSUME Init PROVE ClientInv
  OBVIOUS
<1>1. ServerTypeOK
  BY ServerInitInv DEF Init, ServerInv
<1>2. ClientTypeOK
  BY BoundsAssumption DEF Init, ClientInit, ClientTypeOK, NoLeaves, NoAnswer
<1>3. Shape /\ LeafCommitted /\ FoundIsCommitted
  BY DEF Init, ClientInit, Shape, LeafCommitted, FoundIsCommitted, NoAnswer
<1> QED
  BY <1>1, <1>2, <1>3 DEF ClientInv, TypeOK

\* A verdict "valid" ties the leaf that was read to the root hash.
LEMMA ValidMembership ==
    ASSUME HashOfOthers, NEW k \in Key, TRUE \in MembershipVerdicts(k, snap)
    PROVE  leaves[k] = snap[k]
<1>1. CASE opPc \notin {"split", "rehash"}
  BY <1>1 DEF MembershipVerdicts, HashOfOthers, Stale
<1>2. CASE opPc \in {"split", "rehash"} /\ leaves = snap
  BY <1>2
<1>3. CASE opPc \in {"split", "rehash"} /\ k \notin Stale /\ rootHash = snap
  BY <1>3 DEF HashOfOthers
<1> QED
  BY <1>1, <1>2, <1>3 DEF MembershipVerdicts

\* The entries RequestPrefixes returns are well typed.
LEMMA EntryType ==
    ASSUME ServerTypeOK, NEW i \in Nat \ {0}, NEW rg, ~ EntryMissing(i, rg)
    PROVE  /\ EntryIn(i, rg) \in SUBSET [at : Nat, key : Key, root : SUBSET Rows]
           /\ \A p \in EntryIn(i, rg) : p.at = i /\ InRange(p.key, rg)
           /\ \A p, q \in EntryIn(i, rg) : p = q
           /\ IsFiniteSet(EntryIn(i, rg))
<1>1. CASE ~ InRange(prefixes[i], rg)
  BY <1>1, FS_EmptySet DEF EntryIn
<1>2. CASE InRange(prefixes[i], rg)
  <2>1. i \in 1 .. Len(prefixes) /\ i \in 1 .. Len(trees)
    BY <1>2, LenProperties DEF EntryMissing, ServerTypeOK
  <2>2. prefixes[i] \in Key /\ trees[i] \in SUBSET Rows
    BY <2>1, ElementOfSeq DEF ServerTypeOK
  <2> DEFINE e == [at |-> i, key |-> prefixes[i], root |-> trees[i]]
  <2>3. EntryIn(i, rg) = {e}
    BY <1>2 DEF EntryIn
  <2>4. e \in [at : Nat, key : Key, root : SUBSET Rows] /\ e.at = i /\ InRange(e.key, rg)
    BY <1>2, <2>2
  <2> HIDE DEF e
  <2> QED
    BY <2>3, <2>4, FS_Singleton
<1> QED
  BY <1>1, <1>2

LEMMA ClientStepInv ==
    ASSUME ClientInv, TreeInv, ClientNext, UNCHANGED serverVars
    PROVE  ClientInv'
<1>0. ServerTypeOK'
  BY DEF ClientInv, TypeOK, ServerTypeOK, serverVars
<1> USE DEF ClientInv, TypeOK, ClientTypeOK, Return1, Fail
<1>1. CASE AskLookup
  <2>1. PICK r \in LookupRows : Ask([kind |-> "lookup", row |-> r], "membership")
    BY <1>1 DEF AskLookup
  <2>2. ClientTypeOK'
    BY <2>1 DEF Ask, ServerTypeOK
  <2>3. Shape' /\ LeafCommitted' /\ FoundIsCommitted'
    BY <2>1 DEF Ask, Shape, LeafCommitted, FoundIsCommitted, NoAnswer
  <2> QED
    BY <1>0, <2>2, <2>3
<1>2. CASE AskSum
  <2>1. PICK rg \in SumRanges : Ask([kind |-> "sum", range |-> rg], "request")
    BY <1>2 DEF AskSum
  <2>2. ClientTypeOK'
    BY <2>1 DEF Ask, ServerTypeOK
  <2>3. Shape' /\ LeafCommitted' /\ FoundIsCommitted'
    BY <2>1 DEF Ask, Shape, LeafCommitted, FoundIsCommitted, NoAnswer
  <2> QED
    BY <1>0, <2>2, <2>3
<1>3. CASE LookupPrefix
  <2> DEFINE k == query.row.key
  <2>1. k \in Key
    BY <1>3, QueryRow DEF LookupPrefix, Shape
  <2>2. CASE cpc' = "done"
    <3>1. answer' \in [status : {"notFound", "rejected", "failed"}, rows : {{}}] /\ leaf' = leaf
      BY <1>3, <2>2 DEF LookupPrefix
    <3>2. ClientTypeOK'
      BY <1>3, <2>2, <3>1 DEF LookupPrefix
    <3>3. Shape' /\ LeafCommitted' /\ FoundIsCommitted'
      BY <1>3, <2>2, <3>1 DEF LookupPrefix, Shape, LeafCommitted, FoundIsCommitted
    <3> QED
      BY <1>0, <3>2, <3>3
  <2>3. CASE cpc' # "done"
    <3>1. /\ TRUE \in MembershipVerdicts(k, snap) /\ leaves[k] # {}
          /\ cpc' = "leaf" /\ leaf' = leaves[k] /\ answer' = answer
      BY <1>3, <2>3 DEF LookupPrefix, MembershipVerdicts
    <3>2. leaf' = snap[k]
      BY <2>1, <3>1, ValidMembership DEF TreeInv
    <3>3. ClientTypeOK'
      BY <1>3, <2>1, <3>1 DEF LookupPrefix, ServerTypeOK
    <3>4. Shape' /\ LeafCommitted' /\ FoundIsCommitted'
      BY <1>3, <3>1, <3>2 DEF LookupPrefix, Shape, LeafCommitted, FoundIsCommitted, NoAnswer
    <3> QED
      BY <1>0, <3>3, <3>4
  <2> QED
    BY <2>2, <2>3
<1>4. CASE LookupLeaf
  <2>1. RowsAt(query.row.key) \in SUBSET Rows
    BY RowsAtType DEF ServerTypeOK
  <2>2. ClientTypeOK'
    BY <1>4, <2>1 DEF LookupLeaf
  <2>3. Shape' /\ LeafCommitted' /\ FoundIsCommitted'
    BY <1>4 DEF LookupLeaf, Shape, LeafCommitted, FoundIsCommitted
  <2> QED
    BY <1>0, <2>2, <2>3
<1>5. CASE RequestPrefixes
  <2>1. ClientTypeOK'
    BY <1>5, LenProperties DEF RequestPrefixes, ServerTypeOK
  <2>2. Shape' /\ LeafCommitted' /\ FoundIsCommitted'
    BY <1>5 DEF RequestPrefixes, Shape, LeafCommitted, FoundIsCommitted, NoAnswer
  <2> QED
    BY <1>0, <2>1, <2>2
<1>6. CASE ScanPrefix
  <2>1. ClientTypeOK'
    <3>1. CASE EntryMissing(scanAt + 1, query.range)
      BY <1>6, <3>1 DEF ScanPrefix
    <3>2. CASE ~ EntryMissing(scanAt + 1, query.range)
      <4>1. scanAt + 1 \in Nat \ {0} /\ scanAt + 1 \in 0 .. scanLen
        BY <1>6 DEF ScanPrefix
      <4>2. EntryIn(scanAt + 1, query.range) \in SUBSET [at : Nat, key : Key, root : SUBSET Rows]
        BY <3>2, <4>1, EntryType
      <4> QED
        BY <1>6, <3>2, <4>1, <4>2 DEF ScanPrefix
    <3> QED
      BY <3>1, <3>2
  <2>2. Shape' /\ LeafCommitted' /\ FoundIsCommitted'
    BY <1>6 DEF ScanPrefix, Shape, LeafCommitted, FoundIsCommitted, NoAnswer
  <2> QED
    BY <1>0, <2>1, <2>2
<1>7. CASE VerifyPrefixSet
  <2>1. ClientTypeOK'
    BY <1>7 DEF VerifyPrefixSet
  <2>2. Shape' /\ LeafCommitted' /\ FoundIsCommitted'
    BY <1>7 DEF VerifyPrefixSet, Shape, LeafCommitted, FoundIsCommitted, NoAnswer
  <2> QED
    BY <1>0, <2>1, <2>2
<1>8. CASE SumPart
  <2>1. \A k : RowsAt(k) \in SUBSET Rows
    BY RowsAtType DEF ServerTypeOK
  <2>2. PICK p \in pairs :
          parts' = parts \cup {[at |-> p.at, root |-> p.root, rows |-> RowsAt(p.key)]}
    BY <1>8 DEF SumPart, Unread
  <2>3. ClientTypeOK'
    BY <1>8, <2>1, <2>2 DEF SumPart
  <2>4. Shape' /\ LeafCommitted' /\ FoundIsCommitted'
    BY <1>8 DEF SumPart, Shape, LeafCommitted, FoundIsCommitted, NoAnswer
  <2> QED
    BY <1>0, <2>3, <2>4
<1>9. CASE VerifySum
  <2>1. UNION {p.rows : p \in parts} \in SUBSET Rows
    OBVIOUS
  <2>2. ClientTypeOK'
    BY <1>9, <2>1 DEF VerifySum
  <2>3. Shape' /\ LeafCommitted' /\ FoundIsCommitted'
    BY <1>9 DEF VerifySum, Shape, LeafCommitted, FoundIsCommitted
  <2> QED
    BY <1>0, <2>2, <2>3
<1>10. CASE Forget
  <2>1. ClientTypeOK'
    BY <1>10, BoundsAssumption DEF Forget, NoLeaves, NoAnswer
  <2>2. Shape' /\ LeafCommitted' /\ FoundIsCommitted'
    BY <1>10 DEF Forget, Shape, LeafCommitted, FoundIsCommitted, NoAnswer
  <2> QED
    BY <1>0, <2>1, <2>2
<1>11. CASE SumPartOfNew
  <2>1. ClientTypeOK'
    <3>1. CASE cpc' = "done"
      BY <1>11, <3>1 DEF SumPartOfNew
    <3>2. CASE cpc' # "done"
      <4>1. PICK p \in pairs :
              parts' = parts \cup {[at |-> p.at, root |-> p.root, rows |-> {}]}
        BY <1>11, <3>2 DEF SumPartOfNew, Unread
      <4>2. [at |-> p.at, root |-> p.root, rows |-> {}] \in
              [at : Nat, root : SUBSET Rows, rows : SUBSET Rows]
        OBVIOUS
      <4>3. cpc' = cpc /\ answer' = answer
        BY <1>11, <3>2 DEF SumPartOfNew
      <4> QED
        BY <1>11, <4>1, <4>2, <4>3 DEF SumPartOfNew
    <3> QED
      BY <3>1, <3>2
  <2>2. Shape' /\ LeafCommitted' /\ FoundIsCommitted'
    BY <1>11 DEF SumPartOfNew, Shape, LeafCommitted, FoundIsCommitted, NoAnswer
  <2> QED
    BY <1>0, <2>1, <2>2
<1>12. CASE Panic
  <2>1. ClientTypeOK'
    BY <1>12 DEF Panic
  <2>2. Shape' /\ LeafCommitted' /\ FoundIsCommitted'
    BY <1>12 DEF Panic, Shape, LeafCommitted, FoundIsCommitted
  <2> QED
    BY <1>0, <2>1, <2>2
<1> QED
  BY <1>1, <1>2, <1>3, <1>4, <1>5, <1>6, <1>7, <1>8, <1>9, <1>10, <1>11, <1>12
     DEF ClientNext, QueryStep

\* Server steps do not touch the client.
LEMMA ClientFrame ==
    ASSUME ClientInv, ServerTypeOK', UNCHANGED clientVars
    PROVE  ClientInv'
BY DEF ClientInv, TypeOK, ClientTypeOK, Shape, LeafCommitted, FoundIsCommitted, clientVars

\* A crash of the server cuts a request; the query has no answer yet.
LEMMA CutOffInv ==
    ASSUME ClientInv, ServerTypeOK', CutOff
    PROVE  ClientInv'
<1>1. CASE UNCHANGED clientVars
  BY <1>1, ClientFrame
<1>2. CASE cpc \in {"scan", "sums"} /\ cpc' = "cut"
           /\ UNCHANGED <<query, snap, scanLen, scanAt, pairs, leaf, parts, answer, began>>
  BY <1>2 DEF ClientInv, TypeOK, ClientTypeOK, Shape, LeafCommitted, FoundIsCommitted
<1> QED
  BY <1>1, <1>2 DEF CutOff

LEMMA StepInv ==
    ASSUME ClientInv, TreeInv, [Next]_vars
    PROVE  ClientInv' /\ TreeInv'
<1>1. CASE ServerStep /\ UNCHANGED clientVars
  <2>1. TreeInv'
    BY <1>1, ServerStepInv DEF ServerNext
  <2> QED
    BY <1>1, <2>1, ClientFrame DEF TreeInv, ServerInv
<1>4. CASE Crash /\ CutOff
  <2>1. TreeInv'
    BY <1>4, ServerStepInv DEF ServerNext
  <2> QED
    BY <1>4, <2>1, CutOffInv DEF TreeInv, ServerInv
<1>2. CASE ClientNext /\ UNCHANGED serverVars
  BY <1>2, ClientStepInv, TreeStutterInv
<1>3. CASE UNCHANGED vars
  <2>1. TreeInv'
    BY <1>3, TreeStutterInv DEF vars
  <2> QED
    BY <1>3, <2>1, ClientFrame DEF vars, TreeInv, ServerInv
<1> QED
  BY <1>1, <1>2, <1>3, <1>4 DEF Next

LEMMA SpecInv == Spec => [](ClientInv /\ TreeInv)
<1>1. Init => ClientInv /\ TreeInv
  BY ClientInitInv, TreeInitInv DEF Init
<1>2. ClientInv /\ TreeInv /\ [Next]_vars => (ClientInv /\ TreeInv)'
  BY StepInv
<1> QED
  BY <1>1, <1>2, PTL DEF Spec

\* Type correctness of server and client together.
THEOREM TypeCorrect == Spec => []TypeOK
<1>1. ClientInv => TypeOK
  BY DEF ClientInv
<1> QED
  BY <1>1, SpecInv, PTL

\* A lookup that succeeds is about a row the root hash commits to, whatever
\* calls the operator makes meanwhile, reloads of the table and crashes of
\* the server included.
THEOREM FoundCommitted == Spec => []FoundIsCommitted
<1>1. ClientInv => FoundIsCommitted
  BY DEF ClientInv
<1> QED
  BY <1>1, SpecInv, PTL

-----------------------------------------------------------------------------
(* Sums.  From here on the table is not dropped: a reload can take rows of  *)
(* a committed prefix out of the table, and parts with count 0 are skipped. *)
(* Nor is a tree rebuilt, or a new server initialised, under a sum.         *)

\* What was ever committed is in the table.
InTable ==
    \A k \in Key : leaves[k] \cup rootHash[k] \cup snap[k] \subseteq RowsAt(k)

\* Between the stores of a restart, when wrong columns are read and rows may
\* be missed, no sum is taken: what a query began to verify then is the hash
\* of an empty tree, against which no proof is accepted.
NotBetween ==
    /\ stage = "new" => opPc \in {"idle", "insert"}
    /\ stage = "tree" => opPc \in {"resetPrefixes", "resetTrees"} /\ rootHash = NoLeaves
    /\ stage = "tree" /\ SumUnderWay => snap = NoLeaves
    /\ cpc = "sums" => snap # NoLeaves

\* The list that was verified is the list of the prefixes in the range with
\* the roots that the root hash commits to.
PairsCommitted ==
    /\ \A p \in pairs : p.root = snap[p.key] /\ p.root # {}
    /\ \A k \in Key : InRange(k, query.range) /\ snap[k] # {} =>
           \E p \in pairs : p.key = k

\* The pairs found so far: at most one for each position of the list.
PairsListed ==
    /\ IsFiniteSet(pairs)
    /\ \A p \in pairs : p.at <= scanAt
    /\ \A p, q \in pairs : p.at = q.at => p = q
    /\ cpc \in {"scan", "sums"} => \A p \in pairs : InRange(p.key, query.range)

\* The parts summed: each is a pair's, and the table still has its rows.
PartsRead ==
    cpc = "sums" =>
        /\ PairsCommitted
        /\ \A q \in parts : \E p \in pairs :
               p.at = q.at /\ p.root = q.root /\ p.root \subseteq q.rows

SumInv == PairsListed /\ PartsRead /\ SumIsCommitted

\* Until its proof is asked for, what the query has seen published stays in
\* the tree and in the list, in the part still to be visited or as a pair.
SnapListed ==
    stage # "new" =>
        /\ cpc \in {"request", "scan"} => \A k \in Key : snap[k] # {} => leaves[k] # {}
        /\ cpc = "scan" =>
               \A k \in Key : snap[k] # {} /\ InRange(k, query.range) =>
                   \E i \in 1 .. scanLen :
                       /\ i <= Len(prefixes) /\ prefixes[i] = k
                       /\ i <= scanAt => \E p \in pairs : p.key = k

LEMMA PairsFrame ==
    ASSUME PairsListed, pairs' = pairs, scanAt' = scanAt, query' = query,
           cpc' \in {"scan", "sums"} => cpc \in {"scan", "sums"}
    PROVE  PairsListed'
BY DEF PairsListed, InRange

LEMMA NoPairs ==
    ASSUME pairs' = {}
    PROVE  PairsListed'
<1>1. IsFiniteSet(pairs')
  BY FS_EmptySet
<1> QED
  BY <1>1 DEF PairsListed

\* Equal numbers of pairs and leaf nodes, and a pair for every node: then
\* every pair is that of a node.  (No second root can be listed for a
\* prefix, and no prefix that has no leaf.)
LEMMA CorrespondsBoth ==
    ASSUME NEW listed, IsFiniteSet(listed), NEW nodes, IsFiniteSet(nodes),
           \A n \in nodes : n = [key |-> n.key, root |-> n.root],
           Corresponds(listed, nodes)
    PROVE  \A p \in listed : [key |-> p.key, root |-> p.root] \in nodes
<1> DEFINE f == [p \in listed |-> [key |-> p.key, root |-> p.root]]
           img == {f[p] : p \in listed}
<1>1. f \in Surjection(listed, img)
  BY DEF Surjection
<1>2. IsFiniteSet(img) /\ Cardinality(img) <= Cardinality(listed)
  BY <1>1, FS_Surjection
<1>3. nodes \in SUBSET img
  BY DEF Corresponds
<1>4. Cardinality(nodes) <= Cardinality(img)
  BY <1>2, <1>3, FS_Subset
<1>5. Cardinality(img) = Cardinality(nodes)
  BY <1>2, <1>4, FS_CardinalityType DEF Corresponds
<1>6. nodes = img
  BY <1>2, <1>3, <1>5, FS_Subset
<1> QED
  BY <1>6

LEMMA LeavesInFinite == \A rg : IsFiniteSet(LeavesIn(rg))
<1> TAKE rg
<1> DEFINE D == {j \in Key : InRange(j, rg) /\ leaves[j] # {}}
           f == [k \in D |-> [key |-> k, root |-> leaves[k]]]
<1>1. IsFiniteSet(D)
  <2>1. IsFiniteSet(Key)
    BY DomainsAssumption, FS_Product DEF Key
  <2> QED
    BY <2>1, FS_Subset
<1>2. f \in Surjection(D, LeavesIn(rg))
  BY DEF Surjection, LeavesIn
<1> QED
  BY <1>1, <1>2, FS_Surjection

\* The verification of the prefix set establishes PairsCommitted: the proof
\* vouches for each pair, the list for there being a pair for each prefix.
LEMMA VerifiedPairs ==
    ASSUME ClientInv, TreeInv, SumInv, SnapListed, VerifyPrefixSet, cpc' = "sums"
    PROVE  PairsCommitted
<1>1. PICK nodes \in VerifiedSets(query.range, snap) : Corresponds(pairs, nodes)
  BY DEF VerifyPrefixSet, Return1, Fail
<1>2. /\ rootHash = snap /\ \A k \in Stale : ~ InRange(k, query.range)
      /\ nodes \subseteq LeavesIn(query.range)
  BY <1>1 DEF VerifiedSets
<1>3. \A k \in Key : InRange(k, query.range) => leaves[k] = snap[k]
  BY <1>2 DEF TreeInv, HashOfOthers
<1>4. IsFiniteSet(nodes) /\ \A n \in nodes : n = [key |-> n.key, root |-> n.root]
  <2>1. IsFiniteSet(nodes)
    BY <1>2, LeavesInFinite, FS_Subset
  <2>2. \A n \in LeavesIn(query.range) : n = [key |-> n.key, root |-> n.root]
    BY DEF LeavesIn
  <2> QED
    BY <1>2, <2>1, <2>2
<1>5. \A p \in pairs : [key |-> p.key, root |-> p.root] \in LeavesIn(query.range)
  BY <1>1, <1>2, <1>4, CorrespondsBoth DEF SumInv, PairsListed
<1>6. \A p \in pairs : p.root = snap[p.key] /\ p.root # {}
  BY <1>3, <1>5 DEF LeavesIn
<1>7. \A k \in Key : InRange(k, query.range) /\ snap[k] # {} => \E p \in pairs : p.key = k
  <2> SUFFICES ASSUME NEW k \in Key, InRange(k, query.range), snap[k] # {}
               PROVE  \E p \in pairs : p.key = k
    OBVIOUS
  <2>1. cpc = "scan" /\ stage # "new" /\ scanAt = scanLen
    BY DEF VerifyPrefixSet, Return1, Fail
  <2>2. PICK i \in 1 .. scanLen : i <= scanAt => \E p \in pairs : p.key = k
    BY <2>1 DEF SnapListed
  <2>3. i <= scanAt
    BY <2>1
  <2> QED
    BY <2>2, <2>3
<1> QED
  BY <1>6, <1>7 DEF PairsCommitted

\* Every pair has been read and no part is empty: the rows summed are the
\* rows committed to.
LEMMA SummedRows ==
    ASSUME ClientInv, SumInv, cpc = "sums", Unread = {},
           \A q \in {p \in parts : p.rows # {}} : q.rows = q.root
    PROVE  /\ UNION {q.rows : q \in parts} = SeenIn(query.range)
           /\ {p \in parts : p.rows # {}} = {} => SeenIn(query.range) = {}
<1>1. PairsCommitted
  BY DEF SumInv, PartsRead
<1>2. \A q \in parts : q.rows # {} /\ q.rows = q.root
  BY <1>1 DEF SumInv, PartsRead, PairsCommitted
<1>3. \A q \in parts : \E p \in pairs : q.rows = snap[p.key] /\ InRange(p.key, query.range) /\ p.key \in Key
  BY <1>1, <1>2 DEF SumInv, PartsRead, PairsListed, PairsCommitted, ClientInv, TypeOK, ClientTypeOK
<1>4. \A k \in Key : InRange(k, query.range) /\ snap[k] # {} => \E q \in parts : q.rows = snap[k]
  <2> TAKE k \in Key
  <2> HAVE InRange(k, query.range) /\ snap[k] # {}
  <2>1. PICK p \in pairs : p.key = k
    BY <1>1 DEF PairsCommitted
  <2>2. PICK q \in parts : q.at = p.at
    BY DEF Unread
  <2>3. PICK r \in pairs : r.at = q.at /\ r.root = q.root
    BY DEF SumInv, PartsRead
  <2>4. r = p
    BY <2>2, <2>3 DEF SumInv, PairsListed
  <2> QED
    BY <1>1, <1>2, <2>1, <2>3, <2>4 DEF PairsCommitted
<1>5. UNION {q.rows : q \in parts} \subseteq SeenIn(query.range)
  BY <1>3 DEF SeenIn
<1>6. SeenIn(query.range) \subseteq UNION {q.rows : q \in parts}
  BY <1>4 DEF SeenIn
<1> QED
  BY <1>2, <1>5, <1>6

LEMMA SumInitInv == Init => InTable /\ NotBetween /\ SumInv
<1> SUFFICES ASSUME Init PROVE InTable /\ NotBetween /\ SumInv
  OBVIOUS
<1>1. InTable /\ NotBetween
  BY DEF NotBetween, Init, ServerInit, ClientInit, InTable, NoLeaves
<1>2. SumInv
  BY FS_EmptySet DEF Init, ClientInit, SumInv, PairsListed, PartsRead, SumIsCommitted
<1> QED
  BY <1>1, <1>2

\* The table only grows, and new leaves are read from it.
LEMMA InTableStep ==
    ASSUME "InitializeSqlTable" \notin CallKinds, TreeInv, InTable, ServerNext,
           snap' = snap
    PROVE  InTable'
<1>1. db \subseteq db'
  BY DEF ServerNext, ServerStep, Crash, NewCall, OperatorStep, WorkerStep, AddToSqlTable,
         InitializeSqlTable, Issue, InsertBatch, AddToTree, InitializeTree,
         ResetPrefixes, ResetTrees, CollectTypes, Launch, Wait, Attach, Rehash,
         Split, Return, Fetch, Lock, ReadPrefixes, StorePrefixes, ReadTrees,
         StoreTrees, Unlock, tableVars
<1>2. \A k : RowsAt(k) \subseteq RowsAt(k)'
  BY <1>1 DEF RowsAt
<1>3. \/ UNCHANGED <<leaves, rootHash>>
      \/ leaves' = NoLeaves /\ rootHash' = NoLeaves
      \/ Rehash
      \/ Attach
  BY DEF ServerNext, ServerStep, Crash, NewCall, OperatorStep, WorkerStep, AddToSqlTable,
         InitializeSqlTable, InsertBatch, AddToTree, InitializeTree,
         ResetPrefixes, ResetTrees, CollectTypes, Launch, Wait, Split,
         Return, Fetch, Lock, ReadPrefixes, StorePrefixes, ReadTrees, StoreTrees,
         Unlock, treeVars
<1>4. \A k \in Key : snap'[k] \subseteq RowsAt(k)'
  BY <1>2 DEF InTable
<1>5. CASE UNCHANGED <<leaves, rootHash>>
  BY <1>2, <1>4, <1>5 DEF InTable
<1>6. CASE leaves' = NoLeaves /\ rootHash' = NoLeaves
  BY <1>4, <1>6 DEF InTable, NoLeaves
<1>7. CASE Rehash
  BY <1>2, <1>4, <1>7 DEF InTable, Rehash
<1>8. CASE Attach
  <2> DEFINE new == newLists[appended + 1]
  <2>1. new.key \in Key /\ new.root = RowsAt(new.key)
    <3>1. newLists \in Seq(Lists) /\ appended + 1 \in 1 .. Len(newLists)
      BY <1>8, LenProperties DEF Attach, TreeInv, ServerInv, ServerTypeOK
    <3>2. new \in Lists
      BY <3>1, ElementOfSeq
    <3> QED
      BY <3>1, <3>2 DEF TreeInv, Fresh, Lists
  <2>2. leaves' = [leaves EXCEPT ![new.key] = new.root] /\ rootHash' = rootHash
    BY <1>8 DEF Attach
  <2> QED
    <3> HIDE DEF new
    <3> QED
      BY <1>2, <1>4, <2>1, <2>2 DEF InTable, TreeInv, ServerInv, ServerTypeOK
<1> QED
  BY <1>3, <1>5, <1>6, <1>7, <1>8

LEMMA NotBetweenServer ==
    ASSUME NotBetween, ServerStep, InitializeTree => ~ SumUnderWay, UNCHANGED clientVars
    PROVE  NotBetween'
<1> USE DEF NotBetween, SumUnderWay, clientVars
<1>1. CASE InitializeTree
  BY <1>1 DEF InitializeTree, Issue
<1>2. CASE \E w \in Workers : WorkerStep(w)
  <2>1. opPc' = opPc /\ stage' = stage /\ rootHash' = rootHash
    BY <1>2 DEF WorkerStep, Fetch, Lock, ReadPrefixes, StorePrefixes, ReadTrees,
                StoreTrees, Unlock, treeVars, callVars
  <2> QED
    BY <2>1
<1>3. CASE AddToSqlTable \/ InitializeSqlTable \/ AddToTree \/ InsertBatch
  BY <1>3 DEF AddToSqlTable, InitializeSqlTable, AddToTree, Issue, InsertBatch, treeVars
<1>4. CASE ResetPrefixes \/ ResetTrees \/ CollectTypes \/ Launch \/ Wait
  BY <1>4 DEF ResetPrefixes, ResetTrees, CollectTypes, Launch, Wait, treeVars
<1>5. CASE Split \/ Attach \/ Rehash \/ Return
  BY <1>5 DEF Split, Attach, Rehash, Return, treeVars
<1> QED
  BY <1>1, <1>2, <1>3, <1>4, <1>5 DEF ServerStep, NewCall, OperatorStep

LEMMA NotBetweenClient ==
    ASSUME ClientInv, NotBetween, ClientNext, UNCHANGED serverVars
    PROVE  NotBetween'
<1> USE DEF NotBetween, SumUnderWay
<1>0. opPc' = opPc /\ stage' = stage /\ rootHash' = rootHash
  BY DEF serverVars
<1>1. CASE AskLookup \/ AskSum
  BY <1>0, <1>1 DEF AskLookup, AskSum, Ask
<1>2. CASE LookupPrefix \/ LookupLeaf
  <2>1. query.kind = "lookup" /\ query' = query /\ cpc' # "sums"
    BY <1>2 DEF LookupPrefix, LookupLeaf, Return1, Fail, ClientInv, Shape
  <2> QED
    BY <1>0, <2>1
<1>3. CASE \/ RequestPrefixes \/ ScanPrefix \/ SumPart
           \/ SumPartOfNew \/ VerifySum \/ Panic
  <2>1. /\ query' = query /\ snap' = snap /\ cpc # "done"
        /\ cpc' = "sums" => cpc = "sums"
    BY <1>3 DEF RequestPrefixes, ScanPrefix, SumPart, SumPartOfNew, VerifySum,
                Panic, Return1, Fail
  <2> QED
    BY <1>0, <2>1
<1>4. CASE VerifyPrefixSet
  BY <1>0, <1>4 DEF VerifyPrefixSet, Return1, Fail
<1>5. CASE Forget
  BY <1>0, <1>5 DEF Forget
<1> QED
  BY <1>1, <1>2, <1>3, <1>4, <1>5 DEF ClientNext, QueryStep

\* The lists visited so far grow by one entry.
LEMMA ScanStep ==
    ASSUME ClientInv, TreeInv, SumInv, ScanPrefix
    PROVE  SumInv'
<1> USE DEF ScanPrefix, Return1, Fail
<1>1. CASE EntryMissing(scanAt + 1, query.range)
  BY <1>1, PairsFrame DEF SumInv, PartsRead, SumIsCommitted
<1>2. CASE ~ EntryMissing(scanAt + 1, query.range)
  <2> DEFINE new == EntryIn(scanAt + 1, query.range)
  <2>1. scanAt \in Nat /\ scanAt + 1 \in Nat \ {0}
    BY DEF ClientInv, TypeOK, ClientTypeOK
  <2>2. /\ \A p \in new : p.at = scanAt + 1 /\ InRange(p.key, query.range)
        /\ \A p, q \in new : p = q
        /\ IsFiniteSet(new)
    BY <1>2, <2>1, EntryType DEF ClientInv, TypeOK
  <2> HIDE DEF new
  <2>3. /\ pairs' = pairs \cup new /\ scanAt' = scanAt + 1
        /\ cpc = "scan" /\ cpc' = "scan" /\ query' = query
    BY <1>2 DEF new
  <2>4. IsFiniteSet(pairs')
    BY <2>2, <2>3, FS_Union DEF SumInv, PairsListed
  <2>5. \A p \in pairs : p.at \in Nat /\ p.at <= scanAt
    BY DEF SumInv, PairsListed, ClientInv, TypeOK, ClientTypeOK
  <2>6. \A p \in pairs' : p.at <= scanAt'
    BY <2>1, <2>2, <2>3, <2>5
  <2>7. \A p, q \in pairs' : p.at = q.at => p = q
    BY <2>1, <2>2, <2>3, <2>5 DEF SumInv, PairsListed
  <2>8. \A p \in pairs' : InRange(p.key, query.range)
    BY <2>2, <2>3 DEF SumInv, PairsListed
  <2> QED
    BY <2>3, <2>4, <2>6, <2>7, <2>8
       DEF SumInv, PairsListed, PartsRead, SumIsCommitted, InRange
<1> QED
  BY <1>1, <1>2

LEMMA SumStep ==
    ASSUME ClientInv, TreeInv, InTable, NotBetween, SnapListed, SumInv, ClientNext,
           UNCHANGED serverVars
    PROVE  InTable' /\ SumInv'
<1>1. InTable'
  <2>1. snap' = snap \/ snap' = rootHash \/ snap' = NoLeaves
    BY DEF ClientNext, QueryStep, AskLookup, AskSum, Ask, LookupPrefix, LookupLeaf,
           RequestPrefixes, ScanPrefix, VerifyPrefixSet, SumPart, SumPartOfNew,
           VerifySum, Panic, Forget
  <2>2. /\ leaves' = leaves /\ rootHash' = rootHash
        /\ \A k : RowsAt(k)' = RowsAt(k)
    BY DEF serverVars, RowsAt
  <2>3. CASE snap' = snap
    BY <2>2, <2>3 DEF InTable
  <2>4. CASE snap' = rootHash
    BY <2>2, <2>4 DEF InTable
  <2>5. CASE snap' = NoLeaves
    BY <2>2, <2>5 DEF InTable, NoLeaves
  <2> QED
    BY <2>1, <2>3, <2>4, <2>5
<1> SUFFICES SumInv'
  BY <1>1
<1> USE DEF SumInv
<1>2. CASE AskLookup \/ AskSum
  <2>1. pairs' = {} /\ cpc' \in {"membership", "request"}
    BY <1>2 DEF AskLookup, AskSum, Ask, ClientInv, Shape
  <2> QED
    BY <2>1, NoPairs DEF PartsRead, SumIsCommitted
<1>3. CASE LookupPrefix \/ LookupLeaf
  <2>1. /\ pairs' = pairs /\ scanAt' = scanAt /\ query' = query
        /\ cpc' \in {"leaf", "done"} /\ query.kind = "lookup"
    BY <1>3 DEF LookupPrefix, LookupLeaf, Return1, Fail, ClientInv, Shape
  <2> QED
    BY <2>1, PairsFrame DEF PartsRead, SumIsCommitted
<1>4. CASE RequestPrefixes
  <2>1. pairs' = {} /\ cpc' = "scan"
    BY <1>4 DEF RequestPrefixes, ClientInv, Shape
  <2> QED
    BY <2>1, NoPairs DEF PartsRead, SumIsCommitted
<1>5. CASE ScanPrefix
  BY <1>5, ScanStep
<1>6. CASE VerifyPrefixSet
  <2>1. PairsListed'
    BY <1>6, PairsFrame DEF VerifyPrefixSet
  <2>2. CASE cpc' = "sums"
    <3>1. PairsCommitted
      BY <1>6, <2>2, VerifiedPairs
    <3>2. PairsCommitted' /\ parts' = {}
      BY <1>6, <3>1 DEF VerifyPrefixSet, PairsCommitted, InRange, ClientInv, Shape
    <3> QED
      BY <2>1, <2>2, <3>2 DEF PartsRead, SumIsCommitted
  <2>3. CASE cpc' # "sums"
    <3>1. cpc' = "done" /\ answer'.status \in {"rejected", "failed"}
      BY <1>6, <2>3 DEF VerifyPrefixSet, Return1, Fail
    <3> QED
      BY <2>1, <3>1 DEF PartsRead, SumIsCommitted
  <2> QED
    BY <2>2, <2>3
<1>7. CASE SumPart
  <2>1. PICK p \in pairs :
          parts' = parts \cup {[at |-> p.at, root |-> p.root, rows |-> RowsAt(p.key)]}
    BY <1>7 DEF SumPart, Unread
  <2>2. /\ PairsCommitted /\ cpc = "sums" /\ cpc' = cpc
        /\ pairs' = pairs /\ snap' = snap /\ query' = query /\ scanAt' = scanAt
    BY <1>7 DEF SumPart, PartsRead
  <2>3. p.root \subseteq RowsAt(p.key)
    BY <2>2 DEF PairsCommitted, InTable, ClientInv, TypeOK, ClientTypeOK
  <2>4. \A q \in parts' : \E r \in pairs' : r.at = q.at /\ r.root = q.root /\ r.root \subseteq q.rows
    BY <2>1, <2>2, <2>3 DEF PartsRead
  <2>5. PairsCommitted'
    BY <2>2 DEF PairsCommitted, InRange
  <2>6. PairsListed'
    BY <2>2, PairsFrame
  <2> QED
    BY <2>2, <2>4, <2>5, <2>6 DEF PartsRead, SumIsCommitted
<1>8. CASE VerifySum
  <2>1. PairsListed' /\ cpc' = "done" /\ query' = query /\ snap' = snap /\ query.kind = "sum"
    BY <1>8, PairsFrame DEF VerifySum, Return1, ClientInv, Shape
  <2>2. CASE answer'.status = "rejected"
    BY <2>1, <2>2 DEF PartsRead, SumIsCommitted
  <2>3. CASE answer'.status # "rejected"
    <3>1. \A q \in {p \in parts : p.rows # {}} : q.rows = q.root
      BY <1>8, <2>3 DEF VerifySum, Return1
    <3>2. /\ UNION {q.rows : q \in parts} = SeenIn(query.range)
          /\ {p \in parts : p.rows # {}} = {} => SeenIn(query.range) = {}
      BY <1>8, <3>1, SummedRows DEF VerifySum
    <3>3. SeenIn(query.range)' = SeenIn(query.range)
      BY <2>1 DEF SeenIn, InRange
    <3>4. \/ answer'.status = "sum" /\ answer'.rows = UNION {q.rows : q \in parts}
          \/ answer'.status = "noEntries" /\ {p \in parts : p.rows # {}} = {}
      BY <1>8, <2>3 DEF VerifySum, Return1
    <3>5. SumIsCommitted'
      <4> HIDE DEF SumInv
      <4> QED
        BY <3>2, <3>3, <3>4 DEF SumIsCommitted
    <3> QED
      BY <2>1, <3>5 DEF PartsRead
  <2> QED
    BY <2>2, <2>3
<1>9. CASE Forget
  BY <1>9, NoPairs DEF Forget, PartsRead, SumIsCommitted
<1>10. CASE SumPartOfNew \/ Panic
  <2>0. cpc = "sums" => stage # "tree"
    BY DEF NotBetween, SumUnderWay, ClientInv, Shape
  <2>1. /\ pairs' = pairs /\ scanAt' = scanAt /\ query' = query
        /\ cpc' = "done" /\ answer'.status = "failed"
    BY <1>10, <2>0 DEF SumPartOfNew, Panic, Return1, Fail
  <2> QED
    BY <2>1, PairsFrame DEF PartsRead, SumIsCommitted
<1> QED
  BY <1>2, <1>3, <1>4, <1>5, <1>6, <1>7, <1>8, <1>9, <1>10 DEF ClientNext, QueryStep

LEMMA SumFrame ==
    ASSUME SumInv, UNCHANGED clientVars
    PROVE  SumInv'
BY PairsFrame DEF SumInv, PartsRead, PairsCommitted, SumIsCommitted, SeenIn, InRange, clientVars

LEMMA SumCutOff ==
    ASSUME SumInv, CutOff
    PROVE  SumInv' /\ snap' = snap
<1>1. CASE UNCHANGED clientVars
  BY <1>1, SumFrame DEF clientVars
<1>2. CASE cpc' = "cut" /\ UNCHANGED <<query, snap, scanAt, pairs>>
  <2>1. PairsListed'
    BY <1>2, PairsFrame DEF SumInv
  <2> QED
    BY <1>2, <2>1 DEF SumInv, PartsRead, SumIsCommitted
<1> QED
  BY <1>1, <1>2 DEF CutOff

\* What is published grows: a leaf holds at least what the root hash does.
Grown == \A k \in Key : rootHash[k] \subseteq leaves[k]

LEMMA GrownStep ==
    ASSUME TreeInv, InTable, Grown, ServerNext
    PROVE  Grown'
<1>1. CASE UNCHANGED <<leaves, rootHash>>
  BY <1>1 DEF Grown
<1>2. CASE leaves' = rootHash'
  BY <1>2 DEF Grown
<1>3. CASE Attach
  <2> DEFINE new == newLists[appended + 1]
  <2>1. newLists \in Seq(Lists) /\ appended + 1 \in 1 .. Len(newLists)
    BY <1>3, LenProperties DEF Attach, TreeInv, ServerInv, ServerTypeOK
  <2>2. new \in Lists
    BY <2>1, ElementOfSeq
  <2>3. new.key \in Key /\ new.root = RowsAt(new.key)
    BY <2>1, <2>2 DEF TreeInv, Fresh, Lists
  <2>4. leaves' = [leaves EXCEPT ![new.key] = new.root] /\ rootHash' = rootHash
    BY <1>3 DEF Attach
  <2> HIDE DEF new
  <2> QED
    BY <2>3, <2>4 DEF Grown, InTable, TreeInv, ServerInv, ServerTypeOK
<1> QED
  BY <1>1, <1>2, <1>3
     DEF ServerNext, ServerStep, Crash, NewCall, OperatorStep, WorkerStep, AddToSqlTable,
         InitializeSqlTable, InsertBatch, AddToTree, InitializeTree,
         ResetPrefixes, ResetTrees, CollectTypes, Launch, Wait, Split, Rehash,
         Return, Fetch, Lock, ReadPrefixes, StorePrefixes, ReadTrees, StoreTrees,
         Unlock, treeVars

\* Leaves are replaced and added, and the lists only grow, until a tree is
\* rebuilt or the server crashes.
LEMMA LeavesStay ==
    ASSUME TreeInv, ListsInv, NoneEmpty, ServerStep, ~ InitializeTree,
           NEW k \in Key, leaves[k] # {}
    PROVE  leaves'[k] # {}
<1>1. CASE leaves' = leaves
  BY <1>1
<1>2. CASE Attach
  <2> DEFINE new == newLists[appended + 1]
  <2>1. /\ newLists \in Seq(Lists) /\ appended + 1 \in 1 .. Len(newLists)
        /\ leaves \in [Key -> SUBSET Rows]
    BY <1>2, LenProperties DEF Attach, TreeInv, ServerInv, ServerTypeOK
  <2>2. /\ trees[Older + (appended + 1)] = new.root
        /\ Older + (appended + 1) \in 1 .. Len(trees)
    BY <2>1, OlderType DEF TreeInv, ServerInv, ListsInv, NewAreLast
  <2>3. new.root # {}
    BY <2>2 DEF NoneEmpty
  <2>4. leaves' = [leaves EXCEPT ![new.key] = new.root]
    BY <1>2 DEF Attach
  <2> HIDE DEF new
  <2> QED
    BY <2>1, <2>3, <2>4
<1> QED
  BY <1>1, <1>2
     DEF ServerStep, NewCall, OperatorStep, WorkerStep, AddToSqlTable,
         InitializeSqlTable, InsertBatch, AddToTree, ResetPrefixes, ResetTrees,
         CollectTypes, Launch, Wait, Split, Rehash, Return, Fetch, Lock, ReadPrefixes,
         StorePrefixes, ReadTrees, StoreTrees, Unlock, treeVars

LEMMA ListStays ==
    ASSUME TreeInv, ListsInv, ServerStep, opPc # "resetPrefixes",
           NEW i \in Nat \ {0}, i <= Len(prefixes)
    PROVE  i <= Len(prefixes') /\ prefixes'[i] = prefixes[i]
<1>1. CASE prefixes' = prefixes
  BY <1>1
<1>2. ASSUME NEW w \in Workers, StorePrefixes(w)
      PROVE  i <= Len(prefixes') /\ prefixes'[i] = prefixes[i]
  <2>1. prefixes' = Append(prefixes, Head(todo[w]))
    BY <1>2 DEF StorePrefixes, ListsInv, ListsInHand
  <2>2. prefixes \in Seq(Key) /\ Head(todo[w]) \in Key
    <3>1. wpc[w] # "done" /\ todo[w] \in Seq(Key) /\ prefixes \in Seq(Key)
      BY <1>2 DEF StorePrefixes, TreeInv, ServerInv, ServerTypeOK
    <3>2. todo[w] # <<>>
      BY <3>1 DEF TreeInv, ServerInv, WorkersBusy
    <3> QED
      BY <3>1, <3>2, HeadTail
  <2>3. Len(prefixes) \in Nat /\ Len(prefixes') = Len(prefixes) + 1
        /\ \A j \in 1 .. Len(prefixes) : prefixes'[j] = prefixes[j]
    BY <2>1, <2>2, AppendProperties, LenProperties
  <2> QED
    BY <2>3
<1> QED
  BY <1>1, <1>2
     DEF ServerStep, NewCall, OperatorStep, WorkerStep, AddToSqlTable,
         InitializeSqlTable, InsertBatch, AddToTree, InitializeTree, ResetPrefixes,
         ResetTrees, CollectTypes, Launch, Wait, Split, Attach, Rehash, Return, Fetch,
         Lock, ReadPrefixes, ReadTrees, StoreTrees, Unlock, listVars

LEMMA SnapListedServer ==
    ASSUME ClientInv, TreeInv, ListsInv, NoneEmpty, NotBetween,
           SnapListed, ServerStep, InitializeTree => ~ SumUnderWay,
           UNCHANGED clientVars
    PROVE  SnapListed'
<1> USE DEF clientVars, InRange
<1>0. cpc \in {"request", "scan"} => ~ InitializeTree
  BY DEF SumUnderWay, ClientInv, Shape
<1>1. CASE cpc \notin {"request", "scan"}
  BY <1>1 DEF SnapListed
<1>2. CASE cpc \in {"request", "scan"} /\ stage # "new"
  <2>1. \A k \in Key : snap[k] # {} => leaves[k] # {}
    BY <1>2 DEF SnapListed
  <2>2. ~ InitializeTree
    BY <1>0, <1>2
  <2>3. \A k \in Key : snap'[k] # {} => leaves'[k] # {}
    BY <2>1, <2>2, LeavesStay
  <2>4. ASSUME cpc = "scan", NEW k \in Key, snap[k] # {}, InRange(k, query.range)
        PROVE  \E i \in 1 .. scanLen :
                   /\ i <= Len(prefixes') /\ prefixes'[i] = k
                   /\ i <= scanAt => \E p \in pairs : p.key = k
    <3>1. PICK i \in 1 .. scanLen :
                   /\ i <= Len(prefixes) /\ prefixes[i] = k
                   /\ i <= scanAt => \E p \in pairs : p.key = k
      BY <1>2, <2>4 DEF SnapListed
    <3>2. opPc # "resetPrefixes"
      BY <2>1, <2>4 DEF ListsInv, TreeOfLists, NoLeaves
    <3>3. i \in Nat \ {0}
      BY DEF ClientInv, TypeOK, ClientTypeOK
    <3> QED
      BY <3>1, <3>2, <3>3, ListStays
  <2> QED
    BY <2>3, <2>4 DEF SnapListed
<1>3. CASE cpc \in {"request", "scan"} /\ stage = "new"
  <2>1. stage' = "new"
    BY <1>0, <1>3 DEF NotBetween, ServerStep, NewCall, OperatorStep, WorkerStep, AddToSqlTable,
         InitializeSqlTable, InsertBatch, AddToTree, InitializeTree, ResetPrefixes,
         ResetTrees, CollectTypes, Launch, Wait, Split, Attach, Rehash, Return, Fetch,
         Lock, ReadPrefixes, StorePrefixes, ReadTrees, StoreTrees, Unlock, treeVars
  <2> QED
    BY <2>1 DEF SnapListed
<1> QED
  BY <1>1, <1>2, <1>3

LEMMA SnapListedClient ==
    ASSUME ClientInv, TreeInv, ListsInv, Grown, SnapListed, ClientNext, UNCHANGED serverVars
    PROVE  SnapListed'
<1> USE DEF serverVars, Return1, Fail
<1>1. CASE AskLookup \/ AskSum
  <2>1. cpc' \in {"membership", "request"} /\ snap' = rootHash
    BY <1>1 DEF AskLookup, AskSum, Ask
  <2> QED
    BY <2>1 DEF SnapListed, Grown
<1>2. CASE RequestPrefixes
  <2>1. cpc = "request" /\ cpc' = "scan" /\ snap' = snap /\ query' = query
        /\ scanLen' = Len(prefixes) /\ scanAt' = 0
    BY <1>2 DEF RequestPrefixes
  <2>2. ASSUME stage # "new", NEW k \in Key, snap[k] # {}
        PROVE  \E i \in 1 .. scanLen' : i <= Len(prefixes) /\ prefixes[i] = k /\ ~ i <= 0
    <3>1. leaves[k] # {}
      BY <2>1, <2>2 DEF SnapListed
    <3>2. PICK i \in DOMAIN prefixes \cap DOMAIN trees : prefixes[i] = k
      BY <3>1, InvImpliesListed DEF EveryLeafIsListed
    <3>3. i \in 1 .. Len(prefixes) /\ Len(prefixes) \in Nat
      BY LenProperties DEF TreeInv, ServerInv, ServerTypeOK
    <3> QED
      BY <2>1, <3>2, <3>3
  <2>3. stage # "new" => \A k \in Key : snap'[k] # {} => leaves'[k] # {}
    BY <2>1 DEF SnapListed
  <2> QED
    BY <2>1, <2>2, <2>3 DEF SnapListed
<1>3. CASE ScanPrefix
  <2>1. /\ cpc = "scan" /\ scanLen' = scanLen /\ snap' = snap /\ query' = query
        /\ scanAt \in Nat /\ scanLen \in Nat
    BY <1>3 DEF ScanPrefix, ClientInv, TypeOK, ClientTypeOK
  <2>2. CASE cpc' = "done"
    BY <2>2 DEF SnapListed
  <2>3. CASE cpc' # "done"
    <3>1. /\ cpc' = "scan" /\ scanAt' = scanAt + 1
          /\ pairs' = pairs \cup EntryIn(scanAt + 1, query.range)
      BY <1>3, <2>3 DEF ScanPrefix
    <3>2. ASSUME stage # "new", NEW k \in Key, snap[k] # {}, InRange(k, query.range)
          PROVE  \E i \in 1 .. scanLen : /\ i <= Len(prefixes) /\ prefixes[i] = k
                                         /\ i <= scanAt + 1 => \E p \in pairs' : p.key = k
      <4>1. PICK i \in 1 .. scanLen :
                     /\ i <= Len(prefixes) /\ prefixes[i] = k
                     /\ i <= scanAt => \E p \in pairs : p.key = k
        BY <2>1, <3>2 DEF SnapListed
      <4>2. CASE i <= scanAt
        BY <3>1, <4>1, <4>2
      <4>3. CASE i = scanAt + 1
        <5>1. [at |-> i, key |-> k, root |-> trees[i]] \in pairs'
          BY <3>1, <3>2, <4>1, <4>3 DEF EntryIn
        <5>2. [at |-> i, key |-> k, root |-> trees[i]].key = k
          OBVIOUS
        <5> QED
          BY <4>1, <5>1, <5>2
      <4>4. CASE i > scanAt + 1
        BY <2>1, <4>1, <4>4
      <4> QED
        BY <2>1, <4>2, <4>3, <4>4
    <3>3. stage # "new" => \A k \in Key : snap'[k] # {} => leaves'[k] # {}
      BY <2>1 DEF SnapListed
    <3> QED
      BY <2>1, <3>1, <3>2, <3>3 DEF SnapListed, InRange
  <2> QED
    BY <2>2, <2>3
<1>4. CASE cpc' \notin {"request", "scan"}
  BY <1>4 DEF SnapListed
<1> QED
  BY <1>1, <1>2, <1>3, <1>4
     DEF ClientNext, QueryStep, LookupPrefix, LookupLeaf, VerifyPrefixSet, SumPart,
         SumPartOfNew, VerifySum, Panic, Forget

SteadyInv ==
    /\ ClientInv /\ TreeInv /\ ListsInv /\ NoneEmpty
    /\ InTable /\ NotBetween /\ Grown /\ SnapListed /\ SumInv

LEMMA SumSpecInv ==
    ASSUME "InitializeSqlTable" \notin CallKinds
    PROVE  SteadySpec => []SteadyInv
<1>1. Init => SteadyInv
  <2> SUFFICES ASSUME Init PROVE SteadyInv
    OBVIOUS
  <2>1. ClientInv /\ TreeInv /\ ListsInv /\ InTable /\ NotBetween /\ SumInv
    BY ClientInitInv, TreeInitInv, ListsInitInv, SumInitInv DEF Init
  <2>2. Grown /\ SnapListed
    BY DEF Init, ServerInit, ClientInit, Grown, SnapListed
  <2>3. NoneEmpty
    BY EmptySeq DEF Init, ServerInit, NoneEmpty
  <2> QED
    BY <2>1, <2>2, <2>3 DEF SteadyInv
<1>2. SteadyInv /\ [SteadyNext]_vars => SteadyInv'
  <2> SUFFICES ASSUME SteadyInv, [SteadyNext]_vars PROVE SteadyInv'
    OBVIOUS
  <2> USE DEF SteadyInv
  <2>0. [Next]_vars
    BY DEF SteadyNext
  <2>1. ClientInv' /\ TreeInv'
    BY <2>0, StepInv
  <2>2. [ServerNext]_serverVars
    BY <2>0 DEF Next, vars, ServerNext
  <2>3. ListsInv' /\ NoneEmpty'
    BY <2>2, ServerStepListsInv, NoneEmptyStep
  <2>4. Grown'
    BY <2>2, GrownStep DEF Grown, serverVars
  <2>5. CASE ServerStep /\ UNCHANGED clientVars
    <3>1. InitializeTree => ~ SumUnderWay
      <4>1. CASE SteadyNext
        BY <4>1 DEF SteadyNext
      <4>2. CASE UNCHANGED vars
        BY <4>2 DEF InitializeTree, Issue, vars, serverVars
      <4> QED
        BY <4>1, <4>2
    <3>2. SnapListed' /\ NotBetween'
      BY <2>5, <3>1, SnapListedServer, NotBetweenServer
    <3> QED
      BY <2>1, <2>3, <2>4, <2>5, <3>2, InTableStep, SumFrame DEF ServerNext, clientVars
  <2>6. CASE Crash /\ CutOff
    <3>1. stage' = "new"
      BY <2>6 DEF Crash
    <3>2. SnapListed' /\ NotBetween'
      BY <2>6, <3>1 DEF SnapListed, NotBetween, Crash, CutOff, clientVars
    <3> QED
      BY <2>1, <2>3, <2>4, <2>6, <3>2, InTableStep, SumCutOff DEF ServerNext
  <2>7. CASE ClientNext /\ UNCHANGED serverVars
    <3>1. NotBetween'
      BY <2>7, NotBetweenClient
    <3> QED
      BY <2>1, <2>3, <2>4, <2>7, <3>1, SumStep, SnapListedClient
  <2>8. CASE UNCHANGED vars
    <3>1. UNCHANGED clientVars
      BY <2>8 DEF vars
    <3>2. InTable' /\ NotBetween'
      BY <2>8 DEF InTable, NotBetween, SumUnderWay, RowsAt, vars, serverVars, clientVars
    <3>3. SnapListed'
      BY <2>8 DEF SnapListed, InRange, vars, serverVars, clientVars
    <3> QED
      BY <2>1, <2>3, <2>4, <3>1, <3>2, <3>3, SumFrame
  <2> QED
    BY <2>0, <2>5, <2>6, <2>7, <2>8 DEF Next
<1> QED
  BY <1>1, <1>2, PTL DEF SteadySpec

\* While the operator reloads no table and calls InitializeTree, on this or
\* on the next process, under no sum, an accepted sum is taken over exactly
\* the rows the root hash commits to in the range, and "no entries" is said
\* only when there are none, whether AddToTree runs meanwhile or the server
\* crashes or not.
THEOREM SumCommitted ==
    ASSUME "InitializeSqlTable" \notin CallKinds
    PROVE  SteadySpec => []SumIsCommitted
<1>1. SteadyInv => SumIsCommitted
  BY DEF SteadyInv, SumInv
<1> QED
  BY <1>1, SumSpecInv, PTL

-----------------------------------------------------------------------------
(* Refinement: the system implements TransparentTable.                     *)

\* A crash may cut a request; the client's session stays as it was.
LEMMA SameSession ==
    ASSUME UNCHANGED clientVars \/ CutOff
    PROVE  Session' = Session
BY DEF Session, CutOff, clientVars

\* A step of the server publishes, retracts or changes nothing visible.
LEMMA ServerStepRefines ==
    ASSUME TreeInv, Grown, ServerNext, UNCHANGED clientVars \/ CutOff
    PROVE  [Table!TNext]_Table!tvars
<1>1. Session' = Session
  BY SameSession
<1>2. CASE rootHash' = rootHash
  BY <1>1, <1>2 DEF Table!tvars
<1>3. CASE Rehash
  <2>1. rootHash' \in [Key -> SUBSET Rows] /\ \A k \in Key : rootHash[k] \subseteq rootHash'[k]
    BY <1>3 DEF Rehash, Grown, TreeInv, ServerInv, ServerTypeOK
  <2> QED
    BY <1>1, <2>1 DEF Table!TNext, Table!Publish
<1>4. CASE InitializeTree \/ Crash
  BY <1>1, <1>4 DEF InitializeTree, Crash, NoLeaves, Table!TNext, Table!Retract
<1> QED
  BY <1>2, <1>3, <1>4
     DEF ServerNext, ServerStep, Crash, NewCall, OperatorStep, WorkerStep, AddToSqlTable,
         InitializeSqlTable, InsertBatch, AddToTree, Attach,
         ResetPrefixes, ResetTrees, CollectTypes, Launch, Wait, Split,
         Return, Fetch, Lock, ReadPrefixes, StorePrefixes, ReadTrees, StoreTrees,
         Unlock, treeVars

\* While a query is under way its session is open.
Open == [status |-> "open", query |-> query, seen |-> snap]

LEMMA SessionOpen ==
    ASSUME ClientTypeOK, cpc \notin {"idle", "done"}
    PROVE  Session = Open
BY DEF Session, Open, ClientTypeOK

LEMMA AnswerRefines ==
    ASSUME ClientTypeOK, cpc \notin {"idle", "done"},
           cpc' = "done", query' = query, snap' = snap, rootHash' = rootHash,
           answer' \in Table!RightAnswers(Open) \cup Table!Refusals
    PROVE  Table!TNext
<1>1. Session = Open
  BY SessionOpen
<1>2. Session' = [status |-> "answered", query |-> query, seen |-> snap, answer |-> answer']
  BY DEF Session
<1>3. Table!AnswerQuery
  BY <1>1, <1>2 DEF Table!AnswerQuery, Open
<1> QED
  BY <1>3 DEF Table!TNext

LEMMA AskRefines ==
    ASSUME cpc = "idle", cpc' \in {"membership", "request"}, query' \in Queries,
           snap' = rootHash, rootHash' = rootHash
    PROVE  Table!TNext
<1>1. Session = Table!NoSession
  BY DEF Session, Table!NoSession
<1>2. Session' = [status |-> "open", query |-> query', seen |-> rootHash]
  BY DEF Session
<1>3. Table!AskQuery
  BY <1>1, <1>2 DEF Table!AskQuery
<1> QED
  BY <1>3 DEF Table!TNext

\* The rows visible to a query.
LEMMA VisibleRows ==
    ASSUME ClientTypeOK
    PROVE  /\ query.kind = "lookup" => Table!Visible(Open) = snap[query.row.key]
           /\ query.kind = "sum" => Table!Visible(Open) = SeenIn(query.range)
BY DEF Table!Visible, Open, Scope, SeenIn

LEMMA RefusalRight ==
    \A st \in {"rejected", "failed"} : [status |-> st, rows |-> {}] \in Table!Refusals
BY DEF Table!Refusals

LEMMA ClientStepRefines ==
    ASSUME ClientInv, ClientInv', SumInv', ClientNext, UNCHANGED serverVars
    PROVE  [Table!TNext]_Table!tvars
<1>0. rootHash' = rootHash /\ ClientTypeOK /\ ClientTypeOK'
  BY DEF serverVars, ClientInv, TypeOK
<1>1. CASE AskLookup \/ AskSum
  <2>1. /\ cpc = "idle" /\ cpc' \in {"membership", "request"}
        /\ query' \in Queries /\ snap' = rootHash
    BY <1>1 DEF AskLookup, AskSum, Ask, Queries
  <2> QED
    BY <1>0, <2>1, AskRefines
<1>2. CASE cpc \notin {"idle", "done"} /\ cpc' \notin {"idle", "done"}
           /\ query' = query /\ snap' = snap
  <2>1. Session = Open
    BY <1>0, <1>2, SessionOpen
  <2>2. Session' = [status |-> "open", query |-> query, seen |-> snap]
    BY <1>2 DEF Session
  <2> QED
    BY <1>0, <2>1, <2>2 DEF Open, Table!tvars
<1>3. CASE Forget
  <2>1. Session = [status |-> "answered", query |-> query, seen |-> snap, answer |-> answer]
        /\ Session' = Table!NoSession
    BY <1>3 DEF Forget, Session, Table!NoSession
  <2> QED
    BY <1>0, <2>1 DEF Table!TNext, Table!ForgetQuery
<1>4. CASE QueryStep /\ cpc' = "done"
  <2>1. cpc \notin {"idle", "done"} /\ query' = query /\ snap' = snap
    BY <1>4 DEF QueryStep, LookupPrefix, LookupLeaf, RequestPrefixes, ScanPrefix,
                VerifyPrefixSet, SumPart, SumPartOfNew, VerifySum, Panic
  <2>2. answer' \in Table!RightAnswers(Open) \cup Table!Refusals
    <3>1. CASE answer' \in {[status |-> "rejected", rows |-> {}], [status |-> "failed", rows |-> {}]}
      BY <3>1, RefusalRight
    <3>2. CASE LookupPrefix \/ LookupLeaf
      <4>1. /\ query.kind = "lookup"
            /\ \/ answer'.status \in {"rejected", "failed"} /\ answer'.rows = {}
               \/ answer' = [status |-> "notFound", rows |-> {}]
               \/ answer' = [status |-> "found", rows |-> {query.row}]
        BY <1>4, <3>2 DEF LookupPrefix, LookupLeaf, Return1, Fail, ClientInv, Shape
      <4>2. answer'.status = "found" => query.row \in snap[query.row.key]
        BY <2>1 DEF ClientInv, FoundIsCommitted
      <4>3. Open.query = query /\ Table!Visible(Open) = snap[query.row.key]
        BY <1>0, <4>1, VisibleRows DEF Open
      <4>4. Table!RightAnswers(Open) =
              {[status |-> "found", rows |-> {r}] : r \in {query.row} \cap snap[query.row.key]}
                \cup {[status |-> "notFound", rows |-> {}]}
        BY <4>1, <4>3 DEF Table!RightAnswers
      <4>5. CASE answer' = [status |-> "notFound", rows |-> {}]
        BY <4>4, <4>5
      <4>6. CASE answer' = [status |-> "found", rows |-> {query.row}]
        BY <4>2, <4>4, <4>6
      <4> QED
        BY <1>4, <3>1, <3>2, <4>5, <4>6 DEF LookupPrefix, LookupLeaf, Return1, Fail
    <3>3. CASE VerifySum /\ answer'.status # "rejected"
      <4>1. /\ query.kind = "sum"
            /\ \/ /\ answer' = [status |-> "sum", rows |-> UNION {p.rows : p \in parts}]
                  /\ UNION {p.rows : p \in parts} # {}
               \/ answer' = [status |-> "noEntries", rows |-> {}]
        BY <3>3 DEF VerifySum, Return1, ClientInv, Shape
      <4>2. /\ answer'.status = "sum" => answer'.rows = SeenIn(query.range)
            /\ answer'.status = "noEntries" => SeenIn(query.range) = {}
        <5>1. SeenIn(query.range)' = SeenIn(query.range)
          BY <2>1 DEF SeenIn, InRange
        <5> QED
          BY <1>4, <2>1, <4>1, <5>1 DEF SumInv, SumIsCommitted
      <4>3. Open.query = query /\ Table!Visible(Open) = SeenIn(query.range)
        BY <1>0, <4>1, VisibleRows DEF Open
      <4>4. Table!RightAnswers(Open) =
              {[status |-> IF SeenIn(query.range) = {} THEN "noEntries" ELSE "sum",
                rows |-> SeenIn(query.range)]}
        BY <4>1, <4>3 DEF Table!RightAnswers
      <4> QED
        BY <4>1, <4>2, <4>4
    <3> QED
      BY <1>4, <3>1, <3>2, <3>3 DEF QueryStep, RequestPrefixes, ScanPrefix,
         VerifyPrefixSet, SumPart, SumPartOfNew, VerifySum, Panic, Return1, Fail
  <2> QED
    BY <1>0, <1>4, <2>1, <2>2, AnswerRefines
<1> QED
  BY <1>0, <1>1, <1>2, <1>3, <1>4
     DEF ClientNext, QueryStep, LookupPrefix, LookupLeaf, RequestPrefixes,
         ScanPrefix, VerifyPrefixSet, SumPart, SumPartOfNew, VerifySum, Panic,
         Return1, Fail

\* While the operator reloads no table and calls InitializeTree, on this or
\* on the next process, under no sum, the system, crashes included, implements
\* the abstract specification: every answer is a refusal, an unproved "not
\* found", or what the root hash read at the start says, and that hash is of
\* a table that grows or starts again from nothing.
THEOREM TransparentCorrect ==
    ASSUME "InitializeSqlTable" \notin CallKinds
    PROVE  SteadySpec => Transparent
<1>1. Init => Table!TInit
  BY DEF Init, ServerInit, ClientInit, NoLeaves, Session, Table!TInit, Table!NoSession
<1>2. SteadyInv /\ SteadyInv' /\ [SteadyNext]_vars => [Table!TNext]_Table!tvars
  <2> SUFFICES ASSUME SteadyInv, SteadyInv', [SteadyNext]_vars PROVE [Table!TNext]_Table!tvars
    OBVIOUS
  <2> USE DEF SteadyInv
  <2>1. CASE (ServerStep /\ UNCHANGED clientVars) \/ (Crash /\ CutOff)
    BY <2>1, ServerStepRefines DEF ServerNext
  <2>2. CASE ClientNext /\ UNCHANGED serverVars
    BY <2>2, ClientStepRefines
  <2>3. CASE UNCHANGED vars
    BY <2>3 DEF vars, serverVars, clientVars, Session, Table!tvars
  <2> QED
    BY <2>1, <2>2, <2>3 DEF SteadyNext, Next
<1>3. SteadySpec => []SteadyInv
  BY SumSpecInv
<1>4. SteadySpec => Table!TSpec
  BY <1>1, <1>2, <1>3, PTL DEF SteadySpec, Table!TSpec
<1> QED
  BY <1>4 DEF Transparent

-----------------------------------------------------------------------------
(* A query that no call of the operator disturbs is answered, and rightly *)

\* What the operator leaves behind between its calls: no split node, a tree
\* that is initialised in full or not at all.
StageInv ==
    /\ opPc # "split" => hidden = {}
    /\ stage = "tree" => opPc \in {"resetPrefixes", "resetTrees"}
    /\ stage = "new" => opPc \in {"idle", "insert"} /\ rootHash = NoLeaves

\* What the query remembers of its beginning: the number of calls tells
\* whether one was issued since.
BeganInv ==
    cpc # "idle" =>
        /\ began.calls <= calls
        /\ began.idle /\ began.calls = calls => opPc = "idle"

-----------------------------------------------------------------------------
(* The invariant of an undisturbed query *)

\* The entries in the range of the query among the first n of the lists.
EntriesTo(n) ==
    {[at |-> i, key |-> prefixes[i], root |-> trees[i]] :
        i \in {j \in 1 .. n : InRange(prefixes[j], query.range)}}

RightAnswer ==
    IF query.kind = "lookup"
    THEN answer.status = IF query.row \in db THEN "found" ELSE "notFound"
    ELSE LET rows == {r \in db : InRange(r.key, query.range)}
         IN  answer = [status |-> IF rows = {} THEN "noEntries" ELSE "sum",
                       rows |-> rows]

\* It has read the root hash that stands, and of the lists what it visited;
\* each part it read has the rows that the entry of the list is about.
QuietQuery ==
    cpc # "idle" /\ Undisturbed /\ Covered =>
        /\ snap = rootHash
        /\ cpc # "cut"
        /\ cpc \in {"scan", "sums"} =>
               scanLen = Len(prefixes) /\ pairs = EntriesTo(scanAt)
        /\ cpc = "sums" =>
               /\ scanAt = scanLen
               /\ \A q \in parts : \E p \in pairs :
                      p.at = q.at /\ p.root = q.root /\ q.rows = RowsAt(p.key)
        /\ cpc = "done" => RightAnswer

-----------------------------------------------------------------------------
(* The server under a query *)

\* A server step, seen by the query: the step of a system that holds one.
LEMMA ServerUnderQuery ==
    ASSUME [Next]_vars
    PROVE  [ServerNext]_serverVars
BY DEF Next, vars, ServerNext

LEMMA StageStep ==
    ASSUME TreeInv, StageInv, [ServerNext]_serverVars
    PROVE  StageInv'
<1> USE DEF StageInv
<1>1. CASE \E w \in Workers : WorkerStep(w)
  <2>1. /\ opPc' = opPc /\ hidden' = hidden /\ stage' = stage /\ rootHash' = rootHash
    BY <1>1 DEF WorkerStep, Fetch, Lock, ReadPrefixes, StorePrefixes, ReadTrees,
                StoreTrees, Unlock, treeVars, callVars
  <2> QED
    BY <2>1
<1>2. CASE NewCall \/ InsertBatch
  BY <1>2 DEF NewCall, AddToSqlTable, InitializeSqlTable, AddToTree, InitializeTree,
              Issue, InsertBatch, treeVars
<1>3. CASE ResetPrefixes \/ ResetTrees \/ CollectTypes \/ Launch \/ Wait
  BY <1>3 DEF ResetPrefixes, ResetTrees, CollectTypes, Launch, Wait, treeVars
<1>4. CASE Split \/ Attach \/ Rehash \/ Return
  BY <1>4 DEF Split, Attach, Rehash, Return, treeVars
<1>5. CASE Crash
  BY <1>5 DEF Crash
<1>6. CASE UNCHANGED serverVars
  BY <1>6 DEF serverVars
<1> QED
  BY <1>1, <1>2, <1>3, <1>4, <1>5, <1>6 DEF ServerNext, ServerStep, OperatorStep

\* What holds of the server under a query.
ServerSide == TreeInv /\ ListsInv /\ NoneEmpty /\ StageInv

LEMMA ServerSideInv == Spec => []ServerSide
<1>1. Init => ServerSide
  <2> SUFFICES ASSUME Init PROVE ServerSide
    OBVIOUS
  <2>1. TreeInv /\ ListsInv
    BY TreeInitInv, ListsInitInv DEF Init
  <2>2. NoneEmpty /\ StageInv
    BY EmptySeq DEF Init, ServerInit, NoneEmpty, StageInv
  <2> QED
    BY <2>1, <2>2 DEF ServerSide
<1>2. ServerSide /\ [Next]_vars => ServerSide'
  BY ServerUnderQuery, ServerStepInv, ServerStepListsInv, NoneEmptyStep, StageStep
     DEF ServerSide
<1> QED
  BY <1>1, <1>2, PTL DEF Spec

\* Between calls every node can be reached and the tree is whole.
LEMMA Settled ==
    ASSUME ServerSide, opPc = "idle"
    PROVE  /\ Stale = {} /\ hidden = {} /\ leaves = rootHash
           /\ rootHash # NoLeaves => stage = "ready"
<1>1. Stale = {} /\ hidden = {} /\ (rootHash # NoLeaves => stage = "ready")
  BY DEF ServerSide, StageInv, Stale, TreeInv, ServerInv, ServerTypeOK
<1>2. leaves = rootHash
  BY <1>1 DEF ServerSide, TreeInv, HashOfOthers, ServerInv, ServerTypeOK
<1> QED
  BY <1>1, <1>2

\* A step of the operator, or of a goroutine within its call, is part of a
\* call that is not over.
LEMMA WithinCall ==
    ASSUME TreeInv, OperatorStep \/ \E w \in Workers : WorkerStep(w)
    PROVE  opPc # "idle" /\ calls' = calls
BY DEF OperatorStep, InsertBatch, ResetPrefixes, ResetTrees, CollectTypes,
       Launch, Wait, Split, Attach, Rehash, Return, WorkerStep, Fetch, Lock,
       ReadPrefixes, StorePrefixes, ReadTrees, StoreTrees, Unlock,
       TreeInv, OnlyWithinCall, callVars

LEMMA CallCounted ==
    ASSUME NewCall \/ Crash
    PROVE  calls' = calls + 1
BY DEF NewCall, AddToSqlTable, InitializeSqlTable, AddToTree, InitializeTree, Issue, Crash

\* If nothing has disturbed the query after a step of the server, the step
\* changed nothing.
LEMMA QuietServer ==
    ASSUME TreeInv, ClientTypeOK, BeganInv, cpc # "idle",
           [ServerNext]_serverVars, began' = began, Undisturbed'
    PROVE  UNCHANGED serverVars
<1>0. /\ began.calls \in Int /\ calls \in Int
      /\ began.calls <= calls /\ began.idle /\ began.calls = calls'
  BY DEF TreeInv, ServerInv, ServerTypeOK, ClientTypeOK, BeganInv, Undisturbed
<1>1. CASE NewCall \/ Crash
  BY <1>0, <1>1, CallCounted
<1>2. CASE OperatorStep \/ \E w \in Workers : WorkerStep(w)
  BY <1>0, <1>2, WithinCall DEF BeganInv
<1> QED
  BY <1>1, <1>2 DEF ServerNext, ServerStep

LEMMA BeganStep ==
    ASSUME TreeInv, ClientTypeOK, BeganInv, [Next]_vars
    PROVE  BeganInv'
<1>0. calls \in Int /\ began.calls \in Int
  BY DEF TreeInv, ServerInv, ServerTypeOK, ClientTypeOK
<1>1. CASE ClientNext /\ UNCHANGED serverVars
  <2>1. calls' = calls /\ opPc' = opPc
    BY <1>1 DEF serverVars
  <2>2. CASE AskLookup \/ AskSum
    <3>1. began' = [calls |-> calls, idle |-> opPc = "idle"]
      BY <2>2 DEF AskLookup, AskSum, Ask
    <3>2. began'.calls = calls /\ (began'.idle <=> opPc = "idle")
      BY <3>1
    <3> QED
      BY <1>0, <2>1, <3>2 DEF BeganInv
  <2>3. CASE QueryStep
    <3>1. cpc # "idle" /\ began' = began
      BY <2>3 DEF QueryStep, LookupPrefix, LookupLeaf, RequestPrefixes, ScanPrefix,
                  VerifyPrefixSet, SumPart, SumPartOfNew, VerifySum, Panic
    <3> QED
      BY <2>1, <3>1 DEF BeganInv
  <2>4. CASE Forget
    BY <2>4 DEF Forget, BeganInv
  <2> QED
    BY <1>1, <2>2, <2>3, <2>4 DEF ClientNext
<1>2. ASSUME began' = began, cpc' # "idle" => cpc # "idle", [ServerNext]_serverVars
      PROVE  BeganInv'
  <2>1. CASE NewCall \/ Crash
    BY <1>0, <1>2, <2>1, CallCounted DEF BeganInv
  <2>2. CASE OperatorStep \/ \E w \in Workers : WorkerStep(w)
    BY <1>0, <1>2, <2>2, WithinCall DEF BeganInv
  <2>3. CASE UNCHANGED serverVars
    BY <1>2, <2>3 DEF BeganInv, serverVars
  <2> QED
    BY <1>2, <2>1, <2>2, <2>3 DEF ServerNext, ServerStep
<1> QED
  BY <1>1, <1>2, ServerUnderQuery DEF Next, vars, clientVars, CutOff

-----------------------------------------------------------------------------
(* The lists, when the table is covered and the operator idle *)

\* The entries are one for each prefix with rows, and each is up to date.
LEMMA CoveredEntries ==
    ASSUME ServerSide, opPc = "idle", Covered
    PROVE  /\ Len(prefixes) \in Nat /\ Len(trees) = Len(prefixes)
           /\ \A i \in 1 .. Len(prefixes) :
                  prefixes[i] \in Key /\ trees[i] = RowsAt(prefixes[i]) /\ trees[i] # {}
           /\ \A i, j \in 1 .. Len(prefixes) : prefixes[i] = prefixes[j] => i = j
           /\ \A k \in Key : RowsAt(k) # {} => \E i \in 1 .. Len(prefixes) : prefixes[i] = k
<1> USE DEF ServerSide
<1>1. /\ prefixes \in Seq(Key) /\ Len(prefixes) \in Nat
      /\ DOMAIN prefixes = 1 .. Len(prefixes)
  BY LenProperties DEF TreeInv, ServerInv, ServerTypeOK
<1>2. Len(trees) = Len(prefixes)
  BY InvImpliesAgreement DEF ListsAgreeWithTree
<1>3. \A i, j \in DOMAIN prefixes : prefixes[i] = prefixes[j] => i = j
  BY DEF Covered
<1>4. \A i \in 1 .. Len(prefixes) :
          prefixes[i] \in Key /\ trees[i] = RowsAt(prefixes[i]) /\ trees[i] # {}
  <2> TAKE i \in 1 .. Len(prefixes)
  <2>1. prefixes[i] \in Key /\ trees[i] # {} /\ trees[i] = rootHash[prefixes[i]]
    BY <1>3, OnceListed
  <2> QED
    BY <2>1 DEF Covered
<1>5. \A k \in Key : RowsAt(k) # {} => \E i \in 1 .. Len(prefixes) : prefixes[i] = k
  BY <1>1, Settled, InvImpliesListed DEF EveryLeafIsListed, Covered
<1> QED
  BY <1>1, <1>2, <1>3, <1>4, <1>5

\* No entry is missing, and the next one extends the list of pairs.
LEMMA NextEntry ==
    ASSUME ServerSide, opPc = "idle", Covered, NEW n \in Nat, n < Len(prefixes)
    PROVE  /\ ~ EntryMissing(n + 1, query.range)
           /\ EntriesTo(n + 1) = EntriesTo(n) \cup EntryIn(n + 1, query.range)
<1>1. Len(prefixes) \in Nat /\ Len(trees) = Len(prefixes)
  BY CoveredEntries
<1>2. ~ EntryMissing(n + 1, query.range)
  BY <1>1 DEF EntryMissing
<1> DEFINE I(m) == {j \in 1 .. m : InRange(prefixes[j], query.range)}
           e(i) == [at |-> i, key |-> prefixes[i], root |-> trees[i]]
<1>3. I(n + 1) = I(n) \cup (IF InRange(prefixes[n + 1], query.range) THEN {n + 1} ELSE {})
  <2>1. 1 .. n + 1 = (1 .. n) \cup {n + 1}
    OBVIOUS
  <2> QED
    BY <2>1
<1>4. \A m : EntriesTo(m) = {e(i) : i \in I(m)}
  BY DEF EntriesTo
<1>5. EntryIn(n + 1, query.range) = IF InRange(prefixes[n + 1], query.range) THEN {e(n + 1)} ELSE {}
  BY DEF EntryIn
<1> HIDE DEF I, e
<1>6. EntriesTo(n + 1) = EntriesTo(n) \cup EntryIn(n + 1, query.range)
  BY <1>3, <1>4, <1>5
<1> QED
  BY <1>2, <1>6

LEMMA NoEntries == EntriesTo(0) = {}
BY DEF EntriesTo

\* All entries in the range correspond to the leaves in it.
LEMMA AllCorrespond ==
    ASSUME ServerSide, opPc = "idle", Covered
    PROVE  Corresponds(EntriesTo(Len(prefixes)), LeavesIn(query.range))
<1> DEFINE n == Len(prefixes)
           I == {j \in 1 .. n : InRange(prefixes[j], query.range)}
           E == EntriesTo(n)
           L == LeavesIn(query.range)
           e(i) == [at |-> i, key |-> prefixes[i], root |-> trees[i]]
           l(i) == [key |-> prefixes[i], root |-> trees[i]]
<1>1. /\ n \in Nat
      /\ \A i \in 1 .. n : prefixes[i] \in Key /\ trees[i] = RowsAt(prefixes[i]) /\ trees[i] # {}
      /\ \A i, j \in 1 .. n : prefixes[i] = prefixes[j] => i = j
      /\ \A k \in Key : RowsAt(k) # {} => \E i \in 1 .. n : prefixes[i] = k
  BY CoveredEntries
<1>2. \A k \in Key : leaves[k] = RowsAt(k)
  BY Settled DEF Covered
<1>3. IsFiniteSet(I)
  <2>1. IsFiniteSet(1 .. n)
    <3> HIDE DEF n
    <3> QED
      BY <1>1, FS_Interval
  <2>2. I \in SUBSET (1 .. n)
    OBVIOUS
  <2> QED
    BY <2>1, <2>2, FS_Subset
<1>4. E = {e(i) : i \in I}
  BY DEF EntriesTo
<1>5. L = {l(i) : i \in I}
  <2>1. ASSUME NEW x \in L
        PROVE  \E i \in I : x = l(i)
    <3>1. PICK k \in Key : /\ InRange(k, query.range) /\ leaves[k] # {}
                           /\ x = [key |-> k, root |-> leaves[k]]
      BY DEF LeavesIn
    <3>2. PICK i \in 1 .. n : prefixes[i] = k
      BY <1>1, <1>2, <3>1
    <3> QED
      BY <1>1, <1>2, <3>1, <3>2
  <2>2. ASSUME NEW i \in I
        PROVE  l(i) \in L
    <3>1. prefixes[i] \in Key /\ InRange(prefixes[i], query.range)
          /\ leaves[prefixes[i]] # {} /\ trees[i] = leaves[prefixes[i]]
      BY <1>1, <1>2
    <3> QED
      BY <3>1 DEF LeavesIn
  <2> HIDE DEF L, l, I
  <2> QED
    BY <2>1, <2>2
<1>6. Cardinality(E) = Cardinality(I)
  <2> DEFINE f == [i \in I |-> e(i)]
  <2>1. f \in Bijection(I, E)
    <3>1. \A i, j \in I : e(i) = e(j) => i = j
      OBVIOUS
    <3> HIDE DEF I, E, e
    <3> QED
      BY <1>4, <3>1 DEF Bijection, Injection, Surjection, IsInjective
  <2>2. ExistsBijection(I, E)
    BY <2>1 DEF ExistsBijection
  <2> HIDE DEF I, E
  <2> QED
    BY <1>3, <2>2, FS_Bijection
<1>7. Cardinality(L) = Cardinality(I)
  <2> DEFINE f == [i \in I |-> l(i)]
  <2>1. f \in Bijection(I, L)
    <3>1. \A i, j \in I : l(i) = l(j) => i = j
      BY <1>1
    <3> HIDE DEF I, L, l
    <3> QED
      BY <1>5, <3>1 DEF Bijection, Injection, Surjection, IsInjective
  <2>2. ExistsBijection(I, L)
    BY <2>1 DEF ExistsBijection
  <2> HIDE DEF I, L
  <2> QED
    BY <1>3, <2>2, FS_Bijection
<1>8. \A x \in L : \E p \in E : p.key = x.key /\ p.root = x.root
  <2> TAKE x \in L
  <2>1. PICK i \in I : x = l(i)
    BY <1>5
  <2>2. e(i) \in E /\ e(i).key = l(i).key /\ e(i).root = l(i).root
    BY <1>4
  <2> QED
    BY <2>1, <2>2
<1> HIDE DEF E, L
<1>9. Corresponds(E, L)
  BY <1>6, <1>7, <1>8 DEF Corresponds
<1> QED
  BY <1>9 DEF E, L

\* The parts read add up to the rows of the table in the range.
LEMMA PartsAddUp ==
    ASSUME ServerSide, ClientTypeOK, opPc = "idle", Covered,
           pairs = EntriesTo(Len(prefixes)), Unread = {},
           \A q \in parts : \E p \in pairs :
               p.at = q.at /\ p.root = q.root /\ q.rows = RowsAt(p.key)
    PROVE  /\ \A q \in parts : q.rows = q.root /\ q.rows # {}
           /\ UNION {q.rows : q \in parts} = {r \in db : InRange(r.key, query.range)}
<1> DEFINE n == Len(prefixes)
           e(i) == [at |-> i, key |-> prefixes[i], root |-> trees[i]]
           rows == {r \in db : InRange(r.key, query.range)}
<1>1. /\ n \in Nat
      /\ \A i \in 1 .. n : prefixes[i] \in Key /\ trees[i] = RowsAt(prefixes[i]) /\ trees[i] # {}
      /\ \A k \in Key : RowsAt(k) # {} => \E i \in 1 .. n : prefixes[i] = k
  BY CoveredEntries
<1>2. pairs = {e(i) : i \in {j \in 1 .. n : InRange(prefixes[j], query.range)}}
  BY DEF EntriesTo
<1>3. \A p \in pairs : p.root = RowsAt(p.key) /\ p.root # {} /\ InRange(p.key, query.range)
  BY <1>1, <1>2
<1>4. \A p, q \in pairs : p.at = q.at => p = q
  BY <1>2
<1>5. \A q \in parts : q.rows = q.root /\ q.rows # {} /\ q.rows \subseteq rows
  <2> TAKE q \in parts
  <2>1. PICK p \in pairs : p.root = q.root /\ q.rows = RowsAt(p.key)
    OBVIOUS
  <2> QED
    BY <1>3, <2>1 DEF RowsAt
<1>6. ASSUME NEW r \in rows
      PROVE  \E q \in parts : r \in q.rows
  <2>1. r.key \in Key /\ r \in RowsAt(r.key)
    BY RowsAssumption DEF RowsAt, ServerSide, TreeInv, ServerInv, ServerTypeOK
  <2>2. PICK i \in 1 .. n : prefixes[i] = r.key
    BY <1>1, <2>1
  <2>3. e(i) \in pairs /\ e(i).key = r.key /\ e(i).at = i
    BY <1>2, <2>2
  <2>4. PICK q \in parts : q.at = i
    BY <2>3 DEF Unread
  <2>5. PICK p \in pairs : p.at = q.at /\ q.rows = RowsAt(p.key)
    OBVIOUS
  <2>6. p = e(i)
    BY <1>4, <2>3, <2>4, <2>5
  <2> QED
    BY <2>1, <2>3, <2>5, <2>6
<1>7. UNION {q.rows : q \in parts} = rows
  <2> HIDE DEF rows
  <2> QED
    BY <1>5, <1>6
<1> QED
  BY <1>5, <1>7

-----------------------------------------------------------------------------
(* QuietQuery is inductive. *)

\* The query's own steps; nothing happens to the server.
LEMMA QuietStep ==
    ASSUME ServerSide, ClientInv, QuietQuery, ClientNext, UNCHANGED serverVars
    PROVE  QuietQuery'
<1>0. ClientTypeOK /\ Shape
  BY DEF ClientInv, TypeOK
<1>1. /\ rootHash' = rootHash /\ prefixes' = prefixes /\ trees' = trees /\ db' = db
      /\ opPc' = opPc /\ calls' = calls /\ stage' = stage /\ Covered' = Covered
      /\ \A k : RowsAt(k)' = RowsAt(k)
  BY DEF serverVars, Covered, RowsAt
<1>2. CASE AskLookup \/ AskSum
  BY <1>1, <1>2 DEF AskLookup, AskSum, Ask, QuietQuery
<1>3. CASE Forget
  BY <1>3 DEF Forget, QuietQuery
<1> SUFFICES ASSUME QueryStep, Undisturbed', Covered'
             PROVE  QuietQuery'
  BY <1>2, <1>3 DEF ClientNext, QuietQuery
<1>4. /\ cpc # "idle" /\ query' = query /\ snap' = snap /\ began' = began
      /\ \A m : EntriesTo(m)' = EntriesTo(m)
  <2>1. cpc # "idle" /\ query' = query /\ snap' = snap /\ began' = began
    BY DEF QueryStep, LookupPrefix, LookupLeaf, RequestPrefixes, ScanPrefix,
           VerifyPrefixSet, SumPart, SumPartOfNew, VerifySum, Panic
  <2> QED
    BY <1>1, <2>1 DEF EntriesTo, InRange
<1>5. Undisturbed /\ Covered /\ opPc = "idle" /\ snap = rootHash /\ cpc # "cut"
  BY <1>1, <1>4 DEF Undisturbed, QuietQuery
<1>6. /\ stage = "ready" /\ leaves = rootHash /\ hidden = {} /\ Stale = {}
      /\ rootHash # NoLeaves /\ \A k \in Key : rootHash[k] = RowsAt(k)
  BY <1>5, Settled DEF Covered
<1>7. CASE LookupPrefix
  <2> DEFINE k == query.row.key
  <2>1. query.kind = "lookup" /\ k \in Key
    BY <1>0, <1>7, QueryRow DEF LookupPrefix, Shape
  <2>2. leaves[k] = RowsAt(k) /\ k \notin hidden
    BY <1>6, <2>1
  <2>3. MembershipVerdicts(k, snap) = {TRUE}
    BY <1>5 DEF MembershipVerdicts
  <2>4. CASE RowsAt(k) = {}
    <3>1. cpc' = "done" /\ answer' = [status |-> "notFound", rows |-> {}]
      BY <1>6, <1>7, <2>2, <2>4 DEF LookupPrefix, Return1
    <3>2. query.row \notin db
      BY <2>4 DEF RowsAt
    <3> QED
      BY <1>1, <1>4, <1>5, <2>1, <3>1, <3>2 DEF QuietQuery, RightAnswer
  <2>5. CASE RowsAt(k) # {}
    <3>1. cpc' = "leaf"
      BY <1>6, <1>7, <2>2, <2>3, <2>5 DEF LookupPrefix
    <3> QED
      BY <1>1, <1>4, <1>5, <3>1 DEF QuietQuery
  <2> QED
    BY <2>4, <2>5
<1>8. CASE LookupLeaf
  <2> DEFINE k == query.row.key
  <2>1. query.kind = "lookup" /\ k \in Key /\ cpc = "leaf"
    BY <1>0, <1>8, QueryRow DEF LookupLeaf, Shape
  <2>2. leaf = RowsAt(k) /\ leaf # {}
    BY <1>5, <1>6, <2>1 DEF ClientInv, LeafCommitted
  <2>3. query.row \in RowsAt(k) <=> query.row \in db
    BY DEF RowsAt
  <2>4. /\ cpc' = "done"
        /\ answer'.status = IF query.row \in db THEN "found" ELSE "notFound"
    BY <1>6, <1>8, <2>2, <2>3 DEF LookupLeaf, Return1, Fail
  <2> QED
    BY <1>1, <1>4, <1>5, <2>1, <2>4 DEF QuietQuery, RightAnswer
<1>9. CASE RequestPrefixes
  <2>1. /\ cpc' = "scan" /\ scanLen' = Len(prefixes) /\ scanAt' = 0 /\ pairs' = {}
    BY <1>0, <1>9 DEF RequestPrefixes, Shape
  <2> QED
    BY <1>1, <1>4, <1>5, <2>1, NoEntries DEF QuietQuery
<1>10. CASE ScanPrefix
  <2>1. /\ cpc = "scan" /\ scanAt \in Nat /\ scanAt < scanLen
        /\ scanLen = Len(prefixes) /\ pairs = EntriesTo(scanAt)
    BY <1>0, <1>5, <1>10 DEF ScanPrefix, QuietQuery, ClientTypeOK
  <2>2. /\ ~ EntryMissing(scanAt + 1, query.range)
        /\ EntriesTo(scanAt + 1) = EntriesTo(scanAt) \cup EntryIn(scanAt + 1, query.range)
    BY <1>5, <2>1, NextEntry
  <2>3. /\ cpc' = "scan" /\ scanLen' = scanLen /\ scanAt' = scanAt + 1
        /\ pairs' = EntriesTo(scanAt + 1)
    BY <1>10, <2>1, <2>2 DEF ScanPrefix
  <2> QED
    BY <1>1, <1>4, <1>5, <2>1, <2>3 DEF QuietQuery
<1>11. CASE VerifyPrefixSet
  <2>1. /\ cpc = "scan" /\ scanAt = scanLen /\ parts = {}
        /\ scanLen = Len(prefixes) /\ pairs = EntriesTo(scanAt)
    BY <1>0, <1>5, <1>11 DEF VerifyPrefixSet, QuietQuery, Shape
  <2>2. Corresponds(pairs, LeavesIn(query.range))
    BY <1>5, <2>1, AllCorrespond
  <2>3. VerifiedSets(query.range, snap) = {LeavesIn(query.range)} /\ ~ MayFail
    BY <1>5, <1>6 DEF VerifiedSets, MayFail, LeavesIn
  <2>4. /\ cpc' = "sums" /\ UNCHANGED <<scanLen, scanAt, pairs, parts>>
    BY <1>5, <1>6, <1>11, <2>2, <2>3 DEF VerifyPrefixSet
  <2> QED
    BY <1>1, <1>4, <1>5, <2>1, <2>4 DEF QuietQuery
<1>12. CASE SumPart
  <2>1. /\ cpc = "sums" /\ scanAt = scanLen
        /\ scanLen = Len(prefixes) /\ pairs = EntriesTo(scanAt)
        /\ \A q \in parts : \E p \in pairs :
               p.at = q.at /\ p.root = q.root /\ q.rows = RowsAt(p.key)
    BY <1>5, <1>12 DEF SumPart, QuietQuery
  <2>2. /\ cpc' = "sums" /\ UNCHANGED <<scanLen, scanAt, pairs>>
        /\ \E p \in pairs :
               parts' = parts \cup {[at |-> p.at, root |-> p.root, rows |-> RowsAt(p.key)]}
    BY <1>12 DEF SumPart, Unread
  <2>3. \A q \in parts' : \E p \in pairs :
            p.at = q.at /\ p.root = q.root /\ q.rows = RowsAt(p.key)
    BY <2>1, <2>2
  <2> QED
    BY <1>1, <1>4, <1>5, <2>1, <2>2, <2>3 DEF QuietQuery
<1>13. CASE VerifySum
  <2> DEFINE sum == UNION {q.rows : q \in parts}
             counted == {p \in parts : p.rows # {}}
             rows == {r \in db : InRange(r.key, query.range)}
  <2>1. query.kind = "sum" /\ cpc = "sums" /\ Unread = {}
    BY <1>0, <1>13 DEF VerifySum, Shape
  <2>2. /\ \A q \in parts : q.rows = q.root /\ q.rows # {}
        /\ sum = rows
    BY <1>0, <1>5, <2>1, PartsAddUp DEF QuietQuery
  <2>3. counted = {} <=> rows = {}
    <3> HIDE DEF rows
    <3> QED
      BY <2>2
  <2>4. /\ cpc' = "done"
        /\ answer' = [status |-> IF rows = {} THEN "noEntries" ELSE "sum", rows |-> rows]
    <3>1. \A p \in counted : p.rows = p.root
      BY <2>2
    <3>2. cpc' = "done"
      BY <1>13 DEF VerifySum, Return1
    <3>3. \/ counted = {} /\ answer' = [status |-> "noEntries", rows |-> {}]
          \/ counted # {} /\ answer' = [status |-> "sum", rows |-> sum]
      BY <1>13, <3>1 DEF VerifySum, Return1
    <3> HIDE DEF rows, counted, sum
    <3> QED
      BY <2>2, <2>3, <3>2, <3>3
  <2>5. rows' = rows
    BY <1>1, <1>4 DEF InRange
  <2>6. RightAnswer'
    <3> HIDE DEF sum, counted
    <3>1. answer' = [status |-> IF rows' = {} THEN "noEntries" ELSE "sum", rows |-> rows']
      BY <2>4, <2>5
    <3>2. query'.kind # "lookup"
      BY <1>4, <2>1
    <3> QED
      BY <3>1, <3>2 DEF RightAnswer
  <2> QED
    BY <1>1, <1>4, <1>5, <2>4, <2>6 DEF QuietQuery
<1>14. CASE SumPartOfNew \/ Panic
  BY <1>5, <1>6, <1>14 DEF SumPartOfNew, Panic
<1> QED
  BY <1>7, <1>8, <1>9, <1>10, <1>11, <1>12, <1>13, <1>14 DEF QueryStep

LEMMA QuietNext ==
    ASSUME ServerSide, ClientInv, BeganInv, QuietQuery, [Next]_vars
    PROVE  QuietQuery'
<1>1. CASE ClientNext /\ UNCHANGED serverVars
  BY <1>1, QuietStep
<1>2. CASE Crash /\ CutOff
  <2>1. calls' = calls + 1 /\ began' = began /\ (cpc' # "idle" => cpc # "idle")
    BY <1>2, CallCounted DEF CutOff, clientVars
  <2>2. calls \in Int /\ began.calls \in Int
    BY DEF ServerSide, TreeInv, ServerInv, ServerTypeOK, ClientInv, TypeOK, ClientTypeOK
  <2> QED
    BY <2>1, <2>2 DEF BeganInv, QuietQuery, Undisturbed
<1>3. CASE [ServerNext]_serverVars /\ UNCHANGED clientVars
  <2> SUFFICES ASSUME cpc # "idle", Undisturbed'
               PROVE  QuietQuery'
    BY <1>3 DEF QuietQuery, clientVars
  <2>1. UNCHANGED serverVars
    BY <1>3, QuietServer DEF ServerSide, ClientInv, TypeOK, clientVars
  <2> QED
    BY <1>3, <2>1 DEF QuietQuery, RightAnswer, Undisturbed, Covered, EntriesTo, RowsAt,
                      InRange, serverVars, clientVars
<1> QED
  BY <1>1, <1>2, <1>3 DEF Next, vars, ServerNext

\* A query that no call of the operator disturbs, on a table that is
\* committed in full with no prefix listed twice, is answered, and rightly:
\* a lookup says whether the row is in the table, a sum is over the rows of
\* the range, for every size of the table and whatever calls and crashes
\* went before the query.
THEOREM QuietAnswered == Spec => []UndisturbedIsAnswered
<1>1. Init => BeganInv /\ QuietQuery
  BY DEF Init, ClientInit, BeganInv, QuietQuery
<1>2. ServerSide /\ ClientInv /\ BeganInv /\ QuietQuery /\ [Next]_vars
          => BeganInv' /\ QuietQuery'
  BY BeganStep, QuietNext DEF ServerSide, ClientInv, TypeOK
<1>3. QuietQuery => UndisturbedIsAnswered
  BY DEF QuietQuery, RightAnswer, UndisturbedIsAnswered
<1> QED
  BY <1>1, <1>2, <1>3, ServerSideInv, SpecInv, PTL DEF Spec

=============================================================================
