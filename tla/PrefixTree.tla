---------------------------- MODULE PrefixTree -----------------------------
(***************************************************************************)
(* The prefix tree (trees/prefix_tree.go, trees/prefix_node.go): a binary  *)
(* trie with compressed paths, kept as nodes with pointers.  A writer runs *)
(* PrefixAppend store by store.  A client reads the root hash and has the  *)
(* server generate a membership proof, pointer by pointer, or a set        *)
(* completeness proof, node by node; the server takes no lock for either.  *)
(*                                                                         *)
(* A hash is what util.Hash is given: a partial prefix, then the hashes of *)
(* the children that exist, one after the other, or a value.  What a hash  *)
(* stands for, and the properties about that, are in PrefixTreeHashes.     *)
(***************************************************************************)
EXTENDS Integers, SequencesExt

CONSTANTS
    FieldBits,    \* bits of a field (8 * fieldSize)
    Keys,         \* bit prefixes that may be appended
    Values,       \* sum tree roots
    SetRanges,    \* valRange of set queries: a pair <<lo, hi>> per field
    MaxAppends    \* bound: number of calls of PrefixAppend

NoValue == "none"

\* All prefixes have the same number of whole fields.  The first bit is 0:
\* the columns hold signed integers and negative ones are not in any range.
ASSUME KeysAssumption ==
    /\ FieldBits \in Nat \ {0} /\ MaxAppends \in Nat
    /\ Keys \subseteq Seq({0, 1})
    /\ \A p, q \in Keys : Len(p) = Len(q)
    /\ \A p \in Keys : Len(p) > 0 /\ Len(p) % FieldBits = 0 /\ p[1] = 0
    /\ NoValue \notin Values

\* A query has one range for each field.
ASSUME RangesAssumption ==
    \A rg \in SetRanges :
        rg \in Seq(Nat \X Nat) /\ \A k \in Keys : Len(k) = Len(rg) * FieldBits

VARIABLES
    nodes,      \* the heap; nodes[Root] is tree.root
    wpc, job,   \* the running PrefixAppend and what it has found out
    appends,    \* calls of PrefixAppend so far
    content,    \* history: the value last appended for each prefix
    rpc, req,   \* the client's request
    seen,       \* the root hash it read first
    at, bits,   \* getLeaf: curr and i; buildCopathFromNode: curr
    round,      \* what a round of buildCopathFromNode has read so far
    copath,     \* CopathNodes so far
    copies,     \* the nodes of a set completeness proof so far
    pending,    \* the calls of ExtendSetCompletenessProof still to make
    answer      \* what it got, and whether that verified

treeVars   == <<nodes, wpc, job, appends, content>>
readerVars == <<rpc, req, seen, at, bits, round, copath, copies, pending, answer>>
vars == <<treeVars, readerVars>>

Root == 1
Nil  == 0

NilHash == [partial |-> <<>>, kids |-> <<>>, value |-> NoValue]

\* The hashes of the children that exist.
Existing(left, right) ==
    LET Opt(h) == IF h = NilHash THEN <<>> ELSE <<h>> IN  Opt(left) \o Opt(right)

NodeHash(partial, left, right, value) ==
    [partial |-> partial, kids |-> Existing(left, right), value |-> value]

\* The field key is history: the prefix that the node stands for.
Interior(parent, partial, key) ==
    [leaf |-> FALSE, parent |-> parent, left |-> Nil, right |-> Nil,
     partial |-> partial, hash |-> NilHash, value |-> NoValue, key |-> key]

Leaf(parent, partial, key, value) ==
    [leaf |-> TRUE, parent |-> parent, left |-> Nil, right |-> Nil,
     partial |-> partial, hash |-> NilHash, value |-> value, key |-> key]

\* getChild: the bit decides.
ChildOf(heap, n, bit) == IF bit = 0 THEN heap[n].left ELSE heap[n].right

\* addChild, as a change of the heap: the first bit of the child's partial
\* prefix decides.
AddChild(heap, n, child) ==
    IF Head(heap[child].partial) = 0
    THEN [heap EXCEPT ![n].left = child]
    ELSE [heap EXCEPT ![n].right = child]

\* getHash of a node or of none
HashAt(heap, n) == IF n = Nil THEN NilHash ELSE heap[n].hash

\* What updateHash stores.
HashOfNode(heap, n) ==
    NodeHash(heap[n].partial, HashAt(heap, heap[n].left), HashAt(heap, heap[n].right),
             heap[n].value)

\* Mutant of Agreement: one bit short.
AgreementOneShort(s, t) ==
    LET n == Min({i - 1 : i \in {j \in 1 .. Min({Len(s), Len(t)}) : s[j] # t[j]}} \cup {Len(s), Len(t)})
    IN  IF n = Len(t) THEN n ELSE n - 1

\* The number of leading bits two sequences share.
Agreement(s, t) ==
    Min({i - 1 : i \in {j \in 1 .. Min({Len(s), Len(t)}) : s[j] # t[j]}} \cup {Len(s), Len(t)})

NoJob == [key |-> <<>>, value |-> NoValue, prev |-> Nil, node |-> Nil, i |-> 0, j |-> 0]

NoRequest == [kind |-> "none", key |-> <<>>, range |-> <<>>, appends |-> 0,
              quiet |-> FALSE, leaf |-> Nil]

NoRound == [bit |-> 0, up |-> Nil, sibling |-> Nil, other |-> NilHash, isLeft |-> FALSE,
            partial |-> <<>>]

Init ==
    /\ nodes = <<Interior(Nil, <<>>, <<>>)>>
    /\ wpc = "idle" /\ job = NoJob /\ appends = 0
    /\ content = [k \in Keys |-> NoValue]
    /\ rpc = "idle" /\ req = NoRequest
    /\ seen = NilHash /\ at = Nil /\ bits = 0 /\ round = NoRound /\ copath = <<>>
    /\ copies = <<>> /\ pending = <<>>
    /\ answer = [status |-> "none"]

-----------------------------------------------------------------------------
(* PrefixAppend *)

PrefixAppend(key, value) ==
    /\ wpc = "idle" /\ appends < MaxAppends
    /\ job' = [NoJob EXCEPT !.key = key, !.value = value, !.node = Root]
    /\ wpc' = "descend"
    /\ appends' = appends + 1
    /\ content' = [content EXCEPT ![key] = value]
    /\ UNCHANGED nodes

\* One round of the descent: the next child, and how far its partial prefix
\* agrees with the key.  The descent reads only what the writer has written.
NextChild ==
    /\ wpc = "descend"
    /\ LET c == ChildOf(nodes, job.node, job.key[job.i + 1])
           m == IF c = Nil THEN 0
                ELSE Agreement(SubSeq(job.key, job.i + 1, Len(job.key)), nodes[c].partial)
       IN  /\ job' = [job EXCEPT !.prev = job.node, !.node = c, !.i = @ + m, !.j = m]
           /\ \/ c = Nil /\ wpc' = "attach"
              \/ c # Nil /\ m < Len(nodes[c].partial) /\ wpc' = "split"
              \/ /\ c # Nil /\ m = Len(nodes[c].partial)
                 /\ wpc' = IF job.i + m < Len(job.key) THEN "descend" ELSE "replace"
    /\ UNCHANGED <<nodes, appends, content>>

\* newPrefixLeafNode
AttachLeaf ==
    /\ wpc = "attach"
    /\ LET leaf == Len(nodes) + 1
           heap == Append(nodes, Leaf(job.prev, SubSeq(job.key, job.i + 1, Len(job.key)),
                                      job.key, job.value))
       IN  /\ nodes' = AddChild(heap, job.prev, leaf)
           /\ job' = [job EXCEPT !.node = leaf]
    /\ wpc' = "update"
    /\ UNCHANGED <<appends, content>>

SetValue ==
    /\ wpc = "replace"
    /\ nodes' = [nodes EXCEPT ![job.node].value = job.value]
    /\ wpc' = "update"
    /\ UNCHANGED <<job, appends, content>>

\* splitCompressedNode: the new parent takes the place of the node ...
InsertParent ==
    /\ wpc = "split"
    /\ LET new  == Len(nodes) + 1
           heap == Append(nodes, Interior(job.prev, SubSeq(nodes[job.node].partial, 1, job.j),
                                          SubSeq(job.key, 1, job.i)))
       IN  /\ nodes' = AddChild(heap, job.prev, new)
           /\ job' = [job EXCEPT !.prev = new]
    /\ wpc' = "cut"
    /\ UNCHANGED <<appends, content>>

\* ... the node keeps the rest of its partial prefix ...
CutPrefix ==
    /\ wpc = "cut"
    /\ nodes' = [nodes EXCEPT ![job.node].partial = SubSeq(@, job.j + 1, Len(@))]
    /\ wpc' = "setParent"
    /\ UNCHANGED <<job, appends, content>>

\* ... and is linked below the new parent.
SetParent ==
    /\ wpc = "setParent"
    /\ nodes' = [nodes EXCEPT ![job.node].parent = job.prev]
    /\ wpc' = "link"
    /\ UNCHANGED <<job, appends, content>>

Link ==
    /\ wpc = "link"
    /\ nodes' = AddChild(nodes, job.prev, job.node)
    /\ wpc' = "rehash"
    /\ UNCHANGED <<job, appends, content>>

\* Mutant of RehashNode: the hash still covers the old partial prefix.
RehashNodeForgotten ==
    /\ wpc = "rehash"
    /\ wpc' = "attach"
    /\ UNCHANGED <<nodes, job, appends, content>>

\* curr.updateHash of the node that was split
RehashNode ==
    /\ wpc = "rehash"
    /\ nodes' = [nodes EXCEPT ![job.node].hash = HashOfNode(nodes, job.node)]
    /\ wpc' = "attach"
    /\ UNCHANGED <<job, appends, content>>

\* Mutant of UpdateHash: the loop ends below the root's child.
UpdateHashTooFew ==
    /\ wpc = "update"
    /\ nodes' = [nodes EXCEPT ![job.node].hash = HashOfNode(nodes, job.node),
                              ![Root].hash = IF nodes[job.node].parent = Root
                                             THEN HashOfNode(nodes, Root) ELSE @]
    /\ IF nodes[job.node].parent = Root
       THEN wpc' = "idle" /\ job' = NoJob
       ELSE wpc' = "update" /\ job' = [job EXCEPT !.node = nodes[job.node].parent]
    /\ UNCHANGED <<appends, content>>

\* updateHashesFromLeaf, one node at a time
UpdateHash ==
    /\ wpc = "update"
    /\ nodes' = [nodes EXCEPT ![job.node].hash = HashOfNode(nodes, job.node)]
    /\ IF job.node = Root
       THEN wpc' = "idle" /\ job' = NoJob
       ELSE wpc' = "update" /\ job' = [job EXCEPT !.node = nodes[job.node].parent]
    /\ UNCHANGED <<appends, content>>

WriterStep ==
    \/ \E k \in Keys, v \in Values : PrefixAppend(k, v)
    \/ NextChild \/ AttachLeaf \/ SetValue \/ InsertParent \/ CutPrefix \/ SetParent
    \/ Link \/ RehashNode \/ UpdateHash

-----------------------------------------------------------------------------
(* DoesPrefixOverlapRange *)

\* The value of field f of a prefix whose missing bits are all 0, or all 1.
FieldValue(prefix, f, missing) ==
    LET bit == [i \in 1 .. FieldBits |->
                   IF (f - 1) * FieldBits + i <= Len(prefix) THEN prefix[(f - 1) * FieldBits + i]
                   ELSE missing]
        v[i \in 0 .. FieldBits] == IF i = 0 THEN 0 ELSE 2 * v[i - 1] + bit[i]
    IN  v[FieldBits]

FieldMin(prefix, f) == FieldValue(prefix, f, 0)
FieldMax(prefix, f) == FieldValue(prefix, f, 1)

\* Field by field up to the one in which the prefix ends; that one's range
\* must not be empty (the unsigned difference of its ends is not 0).
DoesPrefixOverlapRange(valRange, prefix) ==
    \A f \in DOMAIN valRange : f = 1 \/ Len(prefix) > (f - 1) * FieldBits =>
        /\ valRange[f][1] <= FieldMax(prefix, f)
        /\ FieldMin(prefix, f) < valRange[f][2]
        /\ Len(prefix) <= f * FieldBits => valRange[f][1] # valRange[f][2]

-----------------------------------------------------------------------------
(* The client's requests *)

\* The client reads the root hash first.
Ask(kind, key, range) ==
    /\ rpc = "idle"
    /\ req' = [NoRequest EXCEPT !.kind = kind, !.key = key, !.range = range,
                                !.appends = appends, !.quiet = wpc = "idle"]
    /\ seen' = nodes[Root].hash
    /\ rpc' = kind
    /\ UNCHANGED <<round, copath, copies, answer>>

AskMembership(key) ==
    /\ Ask("membership", key, <<>>)
    /\ at' = Root /\ bits' = 0
    /\ UNCHANGED pending

AskSet(range) ==
    /\ Ask("set", <<>>, range)
    /\ pending' = <<[node |-> Root, parent |-> Nil, bit |-> 0]>>
    /\ UNCHANGED <<at, bits>>

Reply(a) == rpc' = "done" /\ answer' = a

\* getLeaf, one child at a time ...
Descend ==
    /\ rpc = "membership"
    /\ LET c == ChildOf(nodes, at, req.key[bits + 1])
       IN  IF c = Nil THEN Reply([status |-> "notFound"]) /\ UNCHANGED at
           ELSE rpc' = "match" /\ at' = c /\ UNCHANGED answer
    /\ UNCHANGED <<req, seen, bits, round, copath, copies, pending>>

\* Mutant of Match: the bit that chose the child is counted twice.
MatchOneBitMore ==
    /\ rpc = "match"
    /\ LET n == Len(nodes[at].partial)
       IN  IF SubSeq(req.key, bits + 1, bits + n) # nodes[at].partial
           THEN Reply([status |-> "notFound"]) /\ UNCHANGED <<bits, req>>
           ELSE /\ bits' = bits + n + 1
                /\ IF bits' < Len(req.key) THEN rpc' = "membership" /\ UNCHANGED <<answer, req>>
                   ELSE rpc' = "climb" /\ req' = [req EXCEPT !.leaf = at] /\ UNCHANGED answer
    /\ UNCHANGED <<seen, at, round, copath, copies, pending>>

\* ... and the comparison with its partial prefix.  The panic of
\* GenerateMembershipProof: the path should end with a leaf.
Match ==
    /\ rpc = "match"
    /\ LET n == Len(nodes[at].partial)
       IN  IF SubSeq(req.key, bits + 1, bits + n) # nodes[at].partial
           THEN Reply([status |-> "notFound"]) /\ UNCHANGED <<bits, req>>
           ELSE /\ bits' = bits + n
                /\ IF bits + n < Len(req.key) THEN rpc' = "membership" /\ UNCHANGED <<answer, req>>
                   ELSE IF nodes[at].leaf
                   THEN rpc' = "climb" /\ req' = [req EXCEPT !.leaf = at] /\ UNCHANGED answer
                   ELSE Reply([status |-> "panic"]) /\ UNCHANGED req
    /\ UNCHANGED <<seen, at, round, copath, copies, pending>>

\* One round of RebuildRootHash.
Combine(h, node) ==
    IF node.isLeft THEN NodeHash(node.partial, h, node.other, NoValue)
    ELSE NodeHash(node.partial, node.other, h, NoValue)

RebuildRootHash(leafHash, path) ==
    LET h[i \in 0 .. Len(path)] == IF i = 0 THEN leafHash ELSE Combine(h[i - 1], path[i])
    IN  h[Len(path)]

LeafHash(partial, value) == NodeHash(partial, NilHash, NilHash, value)

\* One step of buildCopathFromNode within a round: what it has read so far.
Read(next, r) ==
    /\ rpc' = next /\ round' = r
    /\ UNCHANGED <<req, seen, at, bits, copath, copies, pending, answer>>

\* A round of buildCopathFromNode below the root.  Each call of getSibling,
\* first for the comparison with nil and then for the hash, looks at the
\* first bit of the node's partial prefix, ...
ReadBit ==
    /\ rpc \in {"climb", "again"} /\ at # Root
    /\ Read(IF rpc = "climb" THEN "parent" ELSE "parentAgain",
            [NoRound EXCEPT !.bit = Head(nodes[at].partial)])

\* ... then at its parent, as the rest of the round does twice more, ...
ReadParent ==
    \E step \in {<<"parent", "sibling">>, <<"parentAgain", "siblingAgain">>,
                <<"sideParent", "side">>, <<"prefixParent", "prefix">>} :
        /\ rpc = step[1]
        /\ Read(step[2], [round EXCEPT !.up = nodes[at].parent])

Sibling == ChildOf(nodes, round.up, 1 - round.bit)

\* Mutant of ReadSibling: not compared with nil.
ReadSiblingUnchecked ==
    /\ rpc = "sibling"
    /\ Read("again", NoRound)

\* ... and at the child on the other side.
ReadSibling ==
    /\ rpc = "sibling"
    /\ Read(IF Sibling = Nil THEN "sideParent" ELSE "again", NoRound)

\* If the second call finds none, getHash of nil panics.
ReadSiblingAgain ==
    /\ rpc = "siblingAgain"
    /\ IF Sibling = Nil
       THEN Reply([status |-> "nilSibling"]) /\ round' = NoRound
       ELSE /\ rpc' = "hash" /\ round' = [NoRound EXCEPT !.sibling = Sibling]
            /\ UNCHANGED answer
    /\ UNCHANGED <<req, seen, at, bits, copath, copies, pending>>

ReadHash ==
    /\ rpc = "hash"
    /\ Read("sideParent", [NoRound EXCEPT !.other = nodes[round.sibling].hash])

\* Mutant of ReadSide: the node's own side is not looked at.
ReadSideLeft ==
    /\ rpc = "side"
    /\ Read("prefixParent", [round EXCEPT !.up = Nil, !.isLeft = TRUE])

\* isLeft, by the right child of the parent
ReadSide ==
    /\ rpc = "side"
    /\ Read("prefixParent", [round EXCEPT !.up = Nil, !.isLeft = at # nodes[round.up].right])

ReadPrefix ==
    /\ rpc = "prefix"
    /\ copath' = Append(copath, [partial |-> nodes[round.up].partial, other |-> round.other,
                                 isLeft |-> round.isLeft])
    /\ rpc' = "up" /\ round' = NoRound
    /\ UNCHANGED <<req, seen, at, bits, copies, pending, answer>>

\* The parent is read once more, to go on from there.
Climb ==
    /\ rpc = "up"
    /\ at' = nodes[at].parent
    /\ rpc' = "climb"
    /\ UNCHANGED <<req, seen, bits, round, copath, copies, pending, answer>>

\* The root is the only node without a parent.  The proof gets the partial
\* prefix of the leaf, ...
ReadLeafPrefix ==
    /\ rpc = "climb" /\ at = Root
    /\ Read("value", [NoRound EXCEPT !.partial = nodes[req.leaf].partial])

\* Mutant of VerifyMembership: compared with the root hash of the moment.
VerifyMembershipLatest ==
    /\ rpc = "value"
    /\ LET value == nodes[req.leaf].value
       IN  Reply([status |-> IF RebuildRootHash(LeafHash(round.partial, value), copath)
                                   = nodes[Root].hash THEN "verified" ELSE "rejected",
                  value |-> value])
    /\ round' = NoRound
    /\ UNCHANGED <<req, seen, at, bits, copath, copies, pending>>

\* ... its value comes with it, and the client verifies.
VerifyMembership ==
    /\ rpc = "value"
    /\ LET value == nodes[req.leaf].value
       IN  Reply([status |-> IF RebuildRootHash(LeafHash(round.partial, value), copath) = seen
                            THEN "verified" ELSE "rejected",
                  value |-> value])
    /\ round' = NoRound
    /\ UNCHANGED <<req, seen, at, bits, copath, copies, pending>>

BuildCopath ==
    \/ ReadBit \/ ReadParent \/ ReadSibling \/ ReadSiblingAgain \/ ReadHash
    \/ ReadSide \/ ReadPrefix \/ Climb

-----------------------------------------------------------------------------
(* GenerateSetCompletenessProof: a copy of the tree as far as it overlaps   *)
(* the range.  In the copies, left and right are copies, prefix is what the *)
(* client adds up from the partial prefixes, and cumulative what the server *)
(* has read once more and sends along.                                      *)

PrefixAbove(next) == IF next.parent = Nil THEN <<>> ELSE copies[next.parent].prefix
CumulativeAbove(next) == IF next.parent = Nil THEN <<>> ELSE copies[next.parent].cumulative

\* SetLeftChild, SetRightChild
Linked(next, copy) ==
    IF next.parent = Nil THEN copies
    ELSE IF next.bit = 0 THEN [copies EXCEPT ![next.parent].left = copy]
    ELSE [copies EXCEPT ![next.parent].right = copy]

\* A node's partial prefix and hash are copied ...
CopyNode ==
    /\ rpc = "set"
    /\ LET next == Head(pending)
           node == nodes[next.node]
       IN  copies' = Append(Linked(next, Len(copies) + 1),
                            [partial |-> node.partial, hash |-> node.hash,
                             prefix |-> PrefixAbove(next) \o node.partial,
                             cumulative |-> <<>>, left |-> Nil, right |-> Nil])
    /\ rpc' = "extend"
    /\ UNCHANGED <<req, seen, at, bits, round, copath, pending, answer>>

\* The children of a node, to be copied below the copy.
Children(n, copy) ==
    LET Call(b) == IF ChildOf(nodes, n, b) = Nil THEN <<>>
                   ELSE <<[node |-> ChildOf(nodes, n, b), parent |-> copy, bit |-> b]>>
    IN  Call(0) \o Call(1)

\* ... then the partial prefix is read again, and the children are next if
\* it overlaps the range.
ExtendSetCompletenessProof ==
    /\ rpc = "extend"
    /\ LET next == Head(pending)
           cumulative == CumulativeAbove(next) \o nodes[next.node].partial
       IN  /\ copies' = [copies EXCEPT ![Len(copies)].cumulative = cumulative]
           /\ pending' = IF DoesPrefixOverlapRange(req.range, cumulative)
                         THEN Children(next.node, Len(copies)) \o Tail(pending)
                         ELSE Tail(pending)
    /\ rpc' = IF pending' = <<>> THEN "verify" ELSE "set"
    /\ UNCHANGED <<req, seen, at, bits, round, copath, answer>>

CopiedHash(copy) == IF copy = Nil THEN NilHash ELSE copies[copy].hash

Childless(copy) == copy.left = Nil /\ copy.right = Nil

\* CheckHash: every node that was copied with a child.
CheckHash ==
    \A i \in DOMAIN copies : ~ Childless(copies[i]) =>
        copies[i].hash = NodeHash(copies[i].partial, CopiedHash(copies[i].left),
                                  CopiedHash(copies[i].right), NoValue)

FindValidNodes ==
    {[cumulative |-> copies[i].cumulative, partial |-> copies[i].partial, hash |-> copies[i].hash] :
        i \in {c \in DOMAIN copies : /\ Childless(copies[c])
                                     /\ DoesPrefixOverlapRange(req.range, copies[c].prefix)}}

\* Mutant of VerifyPrefixSet: only the root hash is compared.
VerifyPrefixSetUnchecked ==
    /\ rpc = "verify"
    /\ Reply([status |-> IF copies[1].hash = seen THEN "verified" ELSE "rejected",
              found  |-> FindValidNodes])
    /\ UNCHANGED <<req, seen, at, bits, round, copath, copies, pending>>

\* verifyPrefixSetCompletenessProof up to the comparison with the list of
\* prefixes.
VerifyPrefixSet ==
    /\ rpc = "verify"
    /\ Reply([status |-> IF CheckHash /\ copies[1].hash = seen THEN "verified" ELSE "rejected",
              found  |-> FindValidNodes])
    /\ UNCHANGED <<req, seen, at, bits, round, copath, copies, pending>>

Forget ==
    /\ rpc = "done"
    /\ rpc' = "idle" /\ req' = NoRequest /\ seen' = NilHash
    /\ at' = Nil /\ bits' = 0 /\ round' = NoRound /\ copath' = <<>>
    /\ copies' = <<>> /\ pending' = <<>> /\ answer' = [status |-> "none"]

ReaderStep ==
    \/ \E k \in Keys : AskMembership(k)
    \/ \E rg \in SetRanges : AskSet(rg)
    \/ Descend \/ Match \/ BuildCopath \/ ReadLeafPrefix \/ VerifyMembership
    \/ CopyNode \/ ExtendSetCompletenessProof \/ VerifyPrefixSet
    \/ Forget

Next == \/ WriterStep /\ UNCHANGED readerVars
        \/ ReaderStep /\ UNCHANGED treeVars

Spec == Init /\ [][Next]_vars

\* The writer alone.
WriterSpec == Init /\ [][WriterStep /\ UNCHANGED readerVars]_vars

-----------------------------------------------------------------------------
(* Properties *)

TypeOK ==
    /\ \A n \in DOMAIN nodes :
           /\ nodes[n].parent \in DOMAIN nodes \cup {Nil}
           /\ nodes[n].left \in DOMAIN nodes \cup {Nil}
           /\ nodes[n].right \in DOMAIN nodes \cup {Nil}
           /\ nodes[n].value \in Values \cup {NoValue}
    /\ wpc \in {"idle", "descend", "attach", "replace", "split", "cut", "setParent", "link",
               "rehash", "update"}
    /\ appends \in 0 .. MaxAppends
    /\ content \in [Keys -> Values \cup {NoValue}]
    /\ rpc \in {"idle", "membership", "match", "climb", "parent", "sibling", "again",
               "parentAgain", "siblingAgain", "hash", "sideParent", "side", "prefixParent",
               "prefix", "up", "value", "set", "extend", "verify", "done"}
    /\ at \in DOMAIN nodes \cup {Nil}
    /\ round.up \in DOMAIN nodes \cup {Nil} /\ round.sibling \in DOMAIN nodes \cup {Nil}
    /\ \A p \in Keys : bits \in 0 .. Len(p)
    /\ \A i \in DOMAIN pending : pending[i].node \in DOMAIN nodes

\* The panics that PrefixAppend and the proof generators call for do not
\* happen: a node that is split has a longer partial prefix than it keeps,
\* only the root may lack a child, a value is set in a leaf, a path of full
\* length ends with a leaf, and the way up ends at the root.  A node that is
\* not there is another matter: SiblingIsThere.
NoPanic ==
    /\ wpc = "split" => job.j \in 1 .. Len(nodes[job.node].partial) - 1
    /\ wpc = "attach" => job.i < Len(job.key)
    /\ wpc = "replace" => nodes[job.node].leaf
    /\ wpc = "idle" => \A n \in DOMAIN nodes \ {Root} :
           nodes[n].leaf \/ (nodes[n].left # Nil /\ nodes[n].right # Nil)
    /\ \A n \in DOMAIN nodes : nodes[n].parent = Nil => n = Root
    /\ answer.status # "panic"

\* What the nil check asks for: GenerateMembershipProof takes no hash of a
\* node that is not there ("if curr.getSibling() != nil").
SiblingIsThere == answer.status # "nilSibling"

\* It does so only while the new parent of the node waits for its second
\* child, between the stores of a split.
NilOnlyInSplit ==
    [][answer'.status = "nilSibling" /\ answer' # answer =>
           wpc \in {"link", "rehash", "attach"} /\ round.up = job.prev]_vars

\* The tree is a compressed trie of a map: a child begins with the bit of
\* its side and stands for its parent's prefix and its own partial one, only
\* leaves have values and only the root fewer than two children, the leaves
\* are those of the map, and each hash is that of the node as it is.
IsTrieOf(heap, map) ==
    /\ heap[Root].key = <<>> /\ heap[Root].partial = <<>>
    /\ \A n \in DOMAIN heap \ {Root} :
           LET up == heap[n].parent
           IN  /\ up \in DOMAIN heap /\ heap[n].partial # <<>>
               /\ ChildOf(heap, up, Head(heap[n].partial)) = n
               /\ heap[n].key = heap[up].key \o heap[n].partial
    /\ \A n \in DOMAIN heap :
           IF heap[n].leaf
           THEN /\ heap[n].left = Nil /\ heap[n].right = Nil
                /\ heap[n].key \in Keys /\ heap[n].value # NoValue
                /\ heap[n].value = map[heap[n].key]
           ELSE /\ heap[n].value = NoValue
                /\ n # Root => heap[n].left # Nil /\ heap[n].right # Nil
    /\ \A n \in DOMAIN heap : \A b \in {0, 1} :
           ChildOf(heap, n, b) = Nil \/
               \E c \in DOMAIN heap \ {Root} : /\ c = ChildOf(heap, n, b) /\ heap[c].parent = n
                                              /\ Head(heap[c].partial) = b
    /\ \A k \in Keys : map[k] # NoValue => \E n \in DOMAIN heap : heap[n].leaf /\ heap[n].key = k
    /\ \A n \in DOMAIN heap : heap[n].hash = HashOfNode(heap, n)

\* Between calls of PrefixAppend the tree is the trie of what was appended,
\* after any splits, and no hash is left behind.
StaysTrie == wpc = "idle" => IsTrieOf(nodes, content)

\* No PrefixAppend was at work since the client read the root hash.
Undisturbed == req.quiet /\ wpc = "idle" /\ req.appends = appends

\* A request that no PrefixAppend disturbs gets the right answer.
UndisturbedIsRight ==
    rpc = "done" /\ Undisturbed =>
        IF req.kind = "set" THEN answer.status = "verified"
        ELSE answer = IF content[req.key] = NoValue THEN [status |-> "notFound"]
                      ELSE [status |-> "verified", value |-> content[req.key]]

\* The hashes n levels below a hash, and the prefixes they stand for.
Levels(h) ==
    LET level[n \in Nat] ==
            IF n = 0 THEN {<<h, h.partial>>}
            ELSE UNION {{<<x[1].kids[i], x[2] \o x[1].kids[i].partial>> : i \in DOMAIN x[1].kids} :
                            x \in level[n - 1]}
    IN  level

\* The prefixes and values a root hash stands for; a leaf is no deeper than
\* its prefix is long.
Committed(h) ==
    LET deepest == UNION {0 .. Len(k) : k \in Keys}
        leaves  == {x \in UNION {Levels(h)[n] : n \in deepest} : x[1].value # NoValue}
    IN  {<<x[2], x[1].value>> : x \in leaves}

\* A membership proof that verifies against the root hash read before is
\* about the value that hash commits to, whatever PrefixAppend did while
\* the proof was put together pointer by pointer.
VerifiedMembership ==
    req.kind = "membership" /\ answer.status = "verified" =>
        <<req.key, answer.value>> \in Committed(seen)

InRange(key, valRange) ==
    \A f \in DOMAIN valRange :
        valRange[f][1] <= FieldMin(key, f) /\ FieldMin(key, f) < valRange[f][2]

\* A set completeness proof that verifies against the root hash read before,
\* together with a list that the client accepts as matching its valid nodes:
\* each entry of the list is committed and in the range, with its value,
\* although the server reads a partial prefix twice and a node may be split
\* between the two.  If no PrefixAppend disturbed the request, none is left
\* out (DoesPrefixOverlapRange).  Otherwise one may be: CheckHash does not
\* compare the hash of a node without children, so if it was just being
\* split its prefix is wrong and may be outside the range.
VerifiedSet ==
    LET Entry(f) == <<f.cumulative, f.hash.value>>
        Accepted == \A f \in answer.found :
                        /\ f.cumulative \in Keys
                        /\ f.hash = NodeHash(f.partial, NilHash, NilHash, f.hash.value)
        entries  == {Entry(f) : f \in answer.found}
        expected == {e \in Committed(seen) : InRange(e[1], req.range)}
    IN  req.kind = "set" /\ answer.status = "verified" /\ seen # NilHash =>
            /\ Accepted => entries \subseteq expected
            /\ Undisturbed => Accepted /\ entries = expected

=============================================================================
