----------------------------- MODULE TapServer -----------------------------
(***************************************************************************)
(* The writer side of the data service (server/server.go): the SQL table,  *)
(* the three pieces of server memory that index it (the lists `prefixes'   *)
(* and `commitmentTrees' and the prefix tree), and the calls that change   *)
(* them.  One operator issues calls one after the other, as main.go does;  *)
(* within AddToTree up to MaxThreads goroutines work at once.  The server  *)
(* is a process of its own (cmd/dbsvc) that may end at any moment, with    *)
(* all its memory; the table survives.                                     *)
(*                                                                         *)
(* Data abstraction.  A row carries the prefix (time and type value) it is *)
(* filed under.  The root hash of a sum tree is injective in the rows it   *)
(* was built from, so it is modelled by that set of rows.  The hash of the *)
(* prefix tree root is injective in the leaves below it, so it is modelled *)
(* by the map from prefixes to sum tree roots (PrefixTree.tla shows that   *)
(* this map and the hash determine each other).  A prefix without a leaf   *)
(* maps to {}: no sum tree of the code is empty.                           *)
(***************************************************************************)
EXTENDS Integers, Sequences, FiniteSets

CONSTANTS
    Times,        \* values of the time column
    Types,        \* values of the (single) type column
    Rows,         \* rows that may be loaded, [uid, key, val, ...]
    FullRange,    \* the range InitializeTree passes to AddToTree
    Ranges,       \* the ranges other calls of AddToTree use
    MaxThreads,   \* MAX_THREADS
    CallKinds,    \* the calls the operator makes; "Crash", if the server may
                  \* end; "Restart", if InitializeTree is called on a new one
    MaxCalls      \* bound: calls and crashes after the first InitializeTree

Key == Times \X Types

ASSUME RowsAssumption ==
    /\ IsFiniteSet(Rows)
    /\ \A r \in Rows : r.key \in Key

ASSUME RangesAssumption ==
    \A rg \in Ranges \cup {FullRange} :
        rg.times \subseteq Times /\ rg.types \subseteq Types

ASSUME DomainsAssumption ==    \* the columns hold 32-bit integers
    IsFiniteSet(Times) /\ IsFiniteSet(Types)

ASSUME BoundsAssumption ==
    MaxThreads \in Nat \ {0} /\ MaxCalls \in Nat

Workers == 0 .. MaxThreads - 1
Nobody == MaxThreads    \* the mutex is free

VARIABLES
    db,           \* rows of the SQL table
    prefixes,     \* server.prefixes
    trees,        \* server.commitmentTrees
    leaves,       \* leaves of server.prefixTree
    rootHash,     \* server.prefixTree.root.hash: the leaves it stands for
    hidden,       \* leaves that cannot be reached while a node is split
    stage,        \* "new": server.prefixTree is nil; "tree": it is not, but
                  \* columnNames and the fields after it are not set yet; "ready"
    calls,        \* calls issued so far
    opPc,         \* where the operator's current call stands
    opRange,      \* valRange of the running AddToTree
    pending,      \* rows of the running insert that are not in the table yet
    uniqueTypes,  \* uniqueTypes of the running AddToTree
    newLists,     \* newPrefixes and newTrees of the running AddToTree
    appended,     \* number of elements of newLists whose append has begun
    mu,           \* mutex of the running AddToTree
    wpc, todo,    \* per goroutine: its place, the prefixes left to do,
    wroot,        \*   the root it built,
    wprefixes, wtrees  \* the slices it read under the mutex

tableVars == <<db, pending>>
listVars  == <<prefixes, trees>>
treeVars  == <<leaves, rootHash, hidden, stage>>
callVars  == <<calls, opPc, opRange, uniqueTypes, newLists, appended>>
workVars  == <<mu, wpc, todo, wroot, wprefixes, wtrees>>
serverVars == <<db, pending, prefixes, trees, leaves, rootHash, hidden, stage, calls,
                opPc, opRange, uniqueTypes, newLists, appended, mu, wpc, todo,
                wroot, wprefixes, wtrees>>

-----------------------------------------------------------------------------
NoLeaves == [k \in Key |-> {}]

InRange(k, rg) == k[1] \in rg.times /\ k[2] \in rg.types

\* getVals: the rows filed under a prefix.
RowsAt(k) == {r \in db : r.key = k}

\* addAllUniques: the distinct values of a column within a range.
UniqueTypesIn(rg) == {r.key[2] : r \in db} \cap rg.types
UniqueTimesIn(rg) == {r.key[1] : r \in db} \cap rg.times

\* The orders in which a set of prefixes can be listed: the code asks for
\* distinct values without an order.
OrdersOf(S) ==
    {s \in [1 .. Cardinality(S) -> S] : \A i, j \in DOMAIN s : s[i] = s[j] => i = j}

CeilDiv(a, b) == (a + b - 1) \div b
SmallerOf(a, b) == IF a < b THEN a ELSE b

\* Mutant of Chunk: the share is rounded down.
ChunkRoundedDown(s, w) ==
    LET l == Len(s) \div MaxThreads
    IN  SubSeq(s, w * l + 1, SmallerOf((w + 1) * l, Len(s)))

\* The prefixes goroutine w takes: elements w*l .. (w+1)*l - 1 of the list.
Chunk(s, w) ==
    LET l == CeilDiv(Len(s), MaxThreads)
    IN  SubSeq(s, w * l + 1, SmallerOf((w + 1) * l, Len(s)))

ServerInit ==
    /\ db \in SUBSET Rows
    /\ pending = {}
    /\ prefixes = <<>> /\ trees = <<>>
    /\ leaves = NoLeaves /\ rootHash = NoLeaves /\ hidden = {} /\ stage = "ready"
    /\ calls = 0
    /\ opPc = "types" /\ opRange = FullRange
    /\ uniqueTypes = {} /\ newLists = <<>> /\ appended = 0
    /\ mu = Nobody
    /\ wpc = [w \in Workers |-> "done"] /\ todo = [w \in Workers |-> <<>>]
    /\ wroot = [w \in Workers |-> {}] 
    /\ wprefixes = [w \in Workers |-> <<>>] /\ wtrees = [w \in Workers |-> <<>>]

-----------------------------------------------------------------------------
(* The operator issues a call. *)

Issue(kind, pc) ==
    /\ opPc = "idle" /\ calls < MaxCalls /\ kind \in CallKinds
    /\ calls' = calls + 1
    /\ opPc' = pc

\* Insert more rows into the table.
AddToSqlTable ==
    /\ Issue("AddToSqlTable", "insert")
    /\ \E S \in SUBSET (Rows \ db) \ {{}} : pending' = S
    /\ UNCHANGED <<db, listVars, treeVars, opRange, uniqueTypes, newLists,
                   appended, workVars>>

\* Drop the table, create it anew and insert rows.
InitializeSqlTable ==
    /\ Issue("InitializeSqlTable", "insert")
    /\ db' = {}
    /\ \E S \in (SUBSET Rows) \ {{}} : pending' = S
    /\ UNCHANGED <<listVars, treeVars, opRange, uniqueTypes, newLists,
                   appended, workVars>>

\* The inserting goroutines each issue statements of several rows.
InsertBatch ==
    /\ opPc = "insert"
    /\ \E S \in (SUBSET pending) \ {{}} :
           /\ db' = db \cup S
           /\ pending' = pending \ S
    /\ opPc' = IF pending' = {} THEN "idle" ELSE "insert"
    /\ UNCHANGED <<listVars, treeVars, calls, opRange, uniqueTypes, newLists,
                   appended, workVars>>

\* Add the prefixes of a range to the tree.
AddToTree ==
    /\ Issue("AddToTree", "types") /\ stage = "ready"
    /\ opRange' \in Ranges
    /\ UNCHANGED <<tableVars, listVars, treeVars, uniqueTypes, newLists,
                   appended, workVars>>

\* Mutant of InitializeTree: the old tree stays in place.
InitializeTreeInPlace ==
    /\ Issue("InitializeTree", "resetPrefixes")
    /\ opRange' = FullRange
    /\ UNCHANGED <<tableVars, listVars, treeVars, uniqueTypes, newLists, appended, workVars>>

\* Reset the tree, then the lists, then add the full range.
InitializeTree ==
    /\ Issue("InitializeTree", "resetPrefixes")
    /\ leaves' = NoLeaves /\ rootHash' = NoLeaves
    /\ opRange' = FullRange
    /\ stage = "new" => "Restart" \in CallKinds
    /\ stage' = IF stage = "new" THEN "tree" ELSE stage
    /\ UNCHANGED <<tableVars, listVars, hidden, uniqueTypes, newLists, appended, workVars>>

ResetPrefixes ==
    /\ opPc = "resetPrefixes"
    /\ prefixes' = <<>>
    /\ opPc' = "resetTrees"
    /\ UNCHANGED <<tableVars, trees, treeVars, calls, opRange, uniqueTypes,
                   newLists, appended, workVars>>

ResetTrees ==
    /\ opPc = "resetTrees"
    /\ trees' = <<>>
    /\ stage' = "ready"
    /\ opPc' = "types"
    /\ UNCHANGED <<tableVars, prefixes, leaves, rootHash, hidden, calls, opRange,
                   uniqueTypes, newLists, appended, workVars>>

-----------------------------------------------------------------------------
(* AddToTree: find the prefixes, then let the goroutines build sum trees. *)

CollectTypes ==
    /\ opPc = "types"
    /\ uniqueTypes' = UniqueTypesIn(opRange)
    /\ opPc' = "times"
    /\ UNCHANGED <<tableVars, listVars, treeVars, calls, opRange, newLists,
                   appended, workVars>>

\* uniqueTimes, isNotEmpty, determinePrefixes (the cross product) and the
\* launch of the goroutines.
Launch ==
    /\ opPc = "times"
    /\ \E sumTreeData \in OrdersOf(UniqueTimesIn(opRange) \X uniqueTypes) :
           /\ todo' = [w \in Workers |-> Chunk(sumTreeData, w)]
           /\ wpc' = [w \in Workers |-> IF todo'[w] = <<>> THEN "done" ELSE "fetch"]
    /\ opPc' = "build"
    /\ uniqueTypes' = {}
    /\ UNCHANGED <<tableVars, listVars, treeVars, calls, opRange, newLists,
                   appended, mu, wroot, wprefixes, wtrees>>

AfterThis(w) == IF Tail(todo[w]) = <<>> THEN "done" ELSE "fetch"

\* getVals and BuildMerkleCommitmentTree; a combination of values that no
\* row has gives a nil tree and is skipped.
Fetch(w) ==
    /\ wpc[w] = "fetch"
    /\ LET rows == RowsAt(Head(todo[w]))
       IN  IF rows = {}
           THEN /\ wpc' = [wpc EXCEPT ![w] = AfterThis(w)]
                /\ todo' = [todo EXCEPT ![w] = Tail(todo[w])]
                /\ UNCHANGED wroot
           ELSE /\ wpc' = [wpc EXCEPT ![w] = "lock"]
                /\ wroot' = [wroot EXCEPT ![w] = rows]
                /\ UNCHANGED todo
    /\ UNCHANGED <<tableVars, listVars, treeVars, callVars, mu, wprefixes, wtrees>>

\* Mutant of Lock: no mutual exclusion.
LockWithoutWaiting(w) ==
    /\ wpc[w] = "lock"
    /\ mu' = w
    /\ wpc' = [wpc EXCEPT ![w] = "readPrefixes"]
    /\ UNCHANGED <<tableVars, listVars, treeVars, callVars, todo, wroot, wprefixes, wtrees>>

Lock(w) ==
    /\ wpc[w] = "lock" /\ mu = Nobody
    /\ mu' = w
    /\ wpc' = [wpc EXCEPT ![w] = "readPrefixes"]
    /\ UNCHANGED <<tableVars, listVars, treeVars, callVars, todo, wroot, wprefixes, wtrees>>

\* append reads the slice, then stores the longer one.
ReadPrefixes(w) ==
    /\ wpc[w] = "readPrefixes"
    /\ wprefixes' = [wprefixes EXCEPT ![w] = prefixes]
    /\ wpc' = [wpc EXCEPT ![w] = "storePrefixes"]
    /\ UNCHANGED <<tableVars, listVars, treeVars, callVars, mu, todo, wroot, wtrees>>

StorePrefixes(w) ==
    /\ wpc[w] = "storePrefixes"
    /\ prefixes' = Append(wprefixes[w], Head(todo[w]))
    /\ wpc' = [wpc EXCEPT ![w] = "readTrees"]
    /\ wprefixes' = [wprefixes EXCEPT ![w] = <<>>]
    /\ UNCHANGED <<tableVars, trees, treeVars, callVars, mu, todo, wroot, wtrees>>

ReadTrees(w) ==
    /\ wpc[w] = "readTrees"
    /\ wtrees' = [wtrees EXCEPT ![w] = trees]
    /\ wpc' = [wpc EXCEPT ![w] = "storeTrees"]
    /\ UNCHANGED <<tableVars, listVars, treeVars, callVars, mu, todo, wroot, wprefixes>>

StoreTrees(w) ==
    /\ wpc[w] = "storeTrees"
    /\ trees' = Append(wtrees[w], wroot[w])
    /\ wpc' = [wpc EXCEPT ![w] = "unlock"]
    /\ wtrees' = [wtrees EXCEPT ![w] = <<>>]
    /\ UNCHANGED <<tableVars, prefixes, treeVars, callVars, mu, todo, wroot, wprefixes>>

\* Mutant of Unlock: the mutex is never released.
UnlockForgotten(w) ==
    /\ wpc[w] = "unlock"
    /\ newLists' = Append(newLists, [key |-> Head(todo[w]), root |-> wroot[w]])
    /\ wpc' = [wpc EXCEPT ![w] = AfterThis(w)]
    /\ todo' = [todo EXCEPT ![w] = Tail(todo[w])]
    /\ wroot' = [wroot EXCEPT ![w] = {}]
    /\ UNCHANGED <<tableVars, listVars, treeVars, calls, opPc, opRange,
                   uniqueTypes, appended, mu, wprefixes, wtrees>>

\* The appends to newPrefixes and newTrees, and the unlock.
Unlock(w) ==
    /\ wpc[w] = "unlock"
    /\ newLists' = Append(newLists, [key |-> Head(todo[w]), root |-> wroot[w]])
    /\ mu' = Nobody
    /\ wpc' = [wpc EXCEPT ![w] = AfterThis(w)]
    /\ todo' = [todo EXCEPT ![w] = Tail(todo[w])]
    /\ wroot' = [wroot EXCEPT ![w] = {}]
    /\ UNCHANGED <<tableVars, listVars, treeVars, calls, opPc, opRange,
                   uniqueTypes, appended, wprefixes, wtrees>>

-----------------------------------------------------------------------------
(* AddToTree, after wg.Wait: PrefixAppend for each new prefix.  A new leaf  *)
(* takes its place beside an existing node, which is split off first: until *)
(* it hangs below the new parent the leaves under it cannot be reached.     *)
(* Then the leaf is attached (or the value of an existing one replaced),    *)
(* and the hashes on the path are recomputed upwards, the root's last.      *)
(* PrefixTree.tla has these steps node by node.                             *)

\* Mutant of Wait: no wg.Wait.
WaitForNobody ==
    /\ opPc = "build"
    /\ opPc' = "attach"
    /\ UNCHANGED <<tableVars, listVars, treeVars, calls, opRange, uniqueTypes,
                   newLists, appended, workVars>>

Wait ==
    /\ opPc = "build"
    /\ \A w \in Workers : wpc[w] = "done"
    /\ opPc' = "attach"
    /\ UNCHANGED <<tableVars, listVars, treeVars, calls, opRange, uniqueTypes,
                   newLists, appended, workVars>>

\* The bits of the prefixes say which node is split; the first prefix of a
\* tree needs no split, and no other new one goes without (all values being
\* below 2^31, the right child of the root is never used).
Split ==
    /\ opPc = "attach" /\ appended < Len(newLists)
    /\ LET present == {k \in Key : leaves[k] # {}}
       IN  /\ newLists[appended + 1].key \notin present
           /\ hidden' \in (SUBSET present) \ {{}}
    /\ opPc' = "split"
    /\ UNCHANGED <<tableVars, listVars, leaves, rootHash, stage, calls, opRange,
                   uniqueTypes, newLists, appended, workVars>>

Attach ==
    /\ opPc \in {"attach", "split"} /\ appended < Len(newLists)
    /\ LET new == newLists[appended + 1]
       IN  /\ opPc = "attach" => leaves[new.key] # {} \/ leaves = NoLeaves
           /\ leaves' = [leaves EXCEPT ![new.key] = new.root]
    /\ hidden' = {}
    /\ appended' = appended + 1
    /\ opPc' = "rehash"
    /\ UNCHANGED <<tableVars, listVars, rootHash, stage, calls, opRange, uniqueTypes,
                   newLists, workVars>>

Rehash ==
    /\ opPc = "rehash"
    /\ rootHash' = leaves
    /\ opPc' = "attach"
    /\ UNCHANGED <<tableVars, listVars, leaves, hidden, stage, calls, opRange,
                   uniqueTypes, newLists, appended, workVars>>

\* Mutant of Return: the position in the list survives the call.
ReturnKeepingPosition ==
    /\ opPc = "attach" /\ appended = Len(newLists)
    /\ opPc' = "idle"
    /\ newLists' = <<>> /\ opRange' = FullRange
    /\ UNCHANGED <<tableVars, listVars, treeVars, calls, uniqueTypes, appended, workVars>>

Return ==
    /\ opPc = "attach" /\ appended = Len(newLists)
    /\ opPc' = "idle"
    /\ newLists' = <<>> /\ appended' = 0 /\ opRange' = FullRange
    /\ UNCHANGED <<tableVars, listVars, treeVars, calls, uniqueTypes, workVars>>

-----------------------------------------------------------------------------
(* The process ends: a failed INSERT and other errors panic in goroutines,  *)
(* which nothing recovers.  A new one has a Server that is all zero values. *)
(* An insertion stays unfinished: the rows of its batches so far are in the *)
(* table, the others are lost.                                              *)

NoWork ==
    /\ mu' = Nobody
    /\ wpc' = [w \in Workers |-> "done"] /\ todo' = [w \in Workers |-> <<>>]
    /\ wroot' = [w \in Workers |-> {}]
    /\ wprefixes' = [w \in Workers |-> <<>>] /\ wtrees' = [w \in Workers |-> <<>>]

Crash ==
    /\ "Crash" \in CallKinds /\ calls < MaxCalls
    /\ calls' = calls + 1
    /\ pending' = {}
    /\ prefixes' = <<>> /\ trees' = <<>>
    /\ leaves' = NoLeaves /\ rootHash' = NoLeaves /\ hidden' = {} /\ stage' = "new"
    /\ opPc' = "idle" /\ opRange' = FullRange
    /\ uniqueTypes' = {} /\ newLists' = <<>> /\ appended' = 0
    /\ NoWork
    /\ UNCHANGED db

-----------------------------------------------------------------------------
(* What the request handlers read.  A handler takes no lock. *)

\* RequestPrefixes, one iteration of its loop: entry i of the two lists.
\* Indexing past the end of a list panics.
EntryMissing(i, rg) ==
    \/ i > Len(prefixes)
    \/ InRange(prefixes[i], rg) /\ i > Len(trees)

EntryIn(i, rg) ==
    IF InRange(prefixes[i], rg)
    THEN {[at |-> i, key |-> prefixes[i], root |-> trees[i]]}
    ELSE {}

\* The prefix whose leaf is attached while hashes above it are out of date.
Stale == IF opPc = "rehash" THEN {newLists[appended].key} ELSE {}

\* GenerateMembershipProof for a prefix with a leaf, and RebuildRootHash:
\* whether the hash rebuilt from the proof can equal s.  During PrefixAppend
\* the copath may mix old and new hashes or lack one.
MembershipVerdicts(k, s) ==
    IF opPc \notin {"split", "rehash"} THEN {rootHash = s}
    ELSE {FALSE, leaves = s} \cup (IF k \in Stale THEN {} ELSE {rootHash = s})

LeavesIn(rg) ==
    {[key |-> k, root |-> leaves[k]] : k \in {j \in Key : InRange(j, rg) /\ leaves[j] # {}}}

\* GenerateSetCompletenessProof, CheckHash and the comparison of the root
\* hash with s: the valid leaf nodes, if the proof verifies.  A stale leaf in
\* the range leaves a wrong hash on a path the proof expands.  The hash of a
\* node that was copied without children is not compared: leaves that cannot
\* be reached while it is split may be missing.
VerifiedSets(rg, s) ==
    IF rootHash = s /\ \A k \in Stale : ~ InRange(k, rg)
    THEN {{n \in LeavesIn(rg) : n.key \notin hidden}}
    ELSE {}

\* During PrefixAppend a proof may also mix old and new nodes and fail.
MayFail == opPc \in {"split", "rehash"}

-----------------------------------------------------------------------------
NewCall == AddToSqlTable \/ InitializeSqlTable \/ AddToTree \/ InitializeTree

WorkerStep(w) ==
    \/ Fetch(w) \/ Lock(w) \/ ReadPrefixes(w) \/ StorePrefixes(w)
    \/ ReadTrees(w) \/ StoreTrees(w) \/ Unlock(w)

OperatorStep ==
    \/ InsertBatch \/ ResetPrefixes \/ ResetTrees \/ CollectTypes \/ Launch
    \/ Wait \/ Split \/ Attach \/ Rehash \/ Return

ServerStep == NewCall \/ OperatorStep \/ \E w \in Workers : WorkerStep(w)

ServerNext == ServerStep \/ Crash

ServerSpec == ServerInit /\ [][ServerNext]_serverVars

\* A call that was issued runs to its end, and so does each goroutine: the
\* Go scheduler runs every runnable goroutine.  No call need ever be issued.
ServerFairSpec ==
    /\ ServerSpec
    /\ WF_serverVars(OperatorStep)
    /\ \A w \in Workers : WF_serverVars(WorkerStep(w))

-----------------------------------------------------------------------------
(* Properties *)

\* When a call of AddToTree is about to return, every prefix of its range
\* that has rows has a leaf for exactly these rows, whichever goroutine
\* took it (the split of the work, the lists under the mutex, the appends).
AddedInFull ==
    opPc = "attach" /\ appended = Len(newLists) =>
        \A k \in Key : InRange(k, opRange) /\ RowsAt(k) # {} => leaves[k] = RowsAt(k)

\* The root listed last for a prefix, {} if there is none.
ListedLast(k) ==
    LET at == {i \in DOMAIN prefixes : prefixes[i] = k}
    IN  IF at = {} THEN {} ELSE trees[CHOOSE i \in at : \A j \in at : j <= i]

\* Between calls the lists and the tree agree: a tree rebuilt from the
\* lists, in their order, has the root hash of the server's tree.  The
\* lists are filled by goroutines in any order, the tree by the operator.
ListsAgreeWithTree ==
    opPc = "idle" =>
        /\ Len(prefixes) = Len(trees)
        /\ \A k \in Key : rootHash[k] = ListedLast(k)

\* A leaf of the tree is in the lists, with its root, at every moment: they
\* are filled before the tree and emptied after it.
EveryLeafIsListed ==
    \A k \in Key : leaves[k] # {} =>
        \E i \in DOMAIN prefixes \cap DOMAIN trees : prefixes[i] = k /\ trees[i] = leaves[k]

\* A row that is in the table when AddToTree starts on a range around it is
\* published in the root hash: the goroutines all get the mutex, wg.Wait
\* returns, and no append is left out; unless the server crashes, and then
\* the next InitializeTree publishes it.
InsertedIsPublished ==
    \A r \in Rows :
        (opPc = "types" /\ r \in db /\ InRange(r.key, opRange))
            ~> (r \in rootHash[r.key] \/ stage = "new")

\* Every call returns.
CallsReturn == opPc # "idle" ~> opPc = "idle"

(* Type correctness *)

Lists == [key : Key, root : SUBSET Rows]

ServerTypeOK ==
    /\ db \in SUBSET Rows /\ pending \in SUBSET Rows
    /\ prefixes \in Seq(Key) /\ trees \in Seq(SUBSET Rows)
    /\ leaves \in [Key -> SUBSET Rows] /\ rootHash \in [Key -> SUBSET Rows]
    /\ hidden \in SUBSET Key
    /\ stage \in {"new", "tree", "ready"}
    /\ calls \in 0 .. MaxCalls
    /\ opPc \in {"idle", "insert", "resetPrefixes", "resetTrees", "types",
                 "times", "build", "attach", "split", "rehash"}
    /\ opRange \in Ranges \cup {FullRange}
    /\ uniqueTypes \in SUBSET Types
    /\ newLists \in Seq(Lists) /\ appended \in 0 .. Len(newLists)
    /\ mu \in Workers \cup {Nobody}
    /\ wpc \in [Workers -> {"done", "fetch", "lock", "readPrefixes",
                            "storePrefixes", "readTrees", "storeTrees", "unlock"}]
    /\ todo \in [Workers -> Seq(Key)]
    /\ wroot \in [Workers -> SUBSET Rows]
    /\ wprefixes \in [Workers -> Seq(Key)] /\ wtrees \in [Workers -> Seq(SUBSET Rows)]

=============================================================================
