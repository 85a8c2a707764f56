-------------------------- MODULE TapServer_proofs --------------------------
(***************************************************************************)
(* Proofs about the writer side: type correctness; the lists that the      *)
(* goroutines of AddToTree fill under the mutex agree with the tree that   *)
(* the operator fills after them; a call adds every prefix of its range.   *)
(***************************************************************************)
EXTENDS TapServer, FiniteSetTheorems, SequenceTheorems, TLAPS

\* A goroutine that is not done has a prefix to work on.
WorkersBusy == \A w \in Workers : wpc[w] # "done" => todo[w] # <<>>

LEMMA CeilDivType ==
    ASSUME NEW a \in Nat, NEW b \in Nat \ {0}
    PROVE  CeilDiv(a, b) \in Nat
BY DEF CeilDiv

\* The share of a goroutine is made of prefixes of the list.
LEMMA ChunkType ==
    ASSUME NEW s \in Seq(Key), NEW w \in Workers
    PROVE  Chunk(s, w) \in Seq(Key)
<1> DEFINE l == CeilDiv(Len(s), MaxThreads)
           hi == SmallerOf((w + 1) * l, Len(s))
<1>1. Len(s) \in Nat /\ l \in Nat /\ w \in Nat
  BY CeilDivType, BoundsAssumption, LenProperties DEF Workers
<1>2. w * l \in Nat /\ (w + 1) * l \in Nat
  BY <1>1
<1>3. w * l + 1 \in Int /\ hi \in Int /\ hi <= Len(s) /\ w * l + 1 >= 1
  BY <1>1, <1>2 DEF SmallerOf
<1>4. \A i \in w * l + 1 .. hi : s[i] \in Key
  <2> HIDE DEF l, hi
  <2> TAKE i \in w * l + 1 .. hi
  <2>1. i \in 1 .. Len(s)
    BY <1>1, <1>2, <1>3
  <2> QED
    BY <2>1, ElementOfSeq
<1>5. SubSeq(s, w * l + 1, hi) \in Seq(Key)
  <2> HIDE DEF l, hi
  <2> QED
    BY <1>3, <1>4, SubSeqProperties
<1> QED
  BY <1>5 DEF Chunk

\* The list of prefixes determinePrefixes returns is a sequence of prefixes.
LEMMA OrdersType ==
    ASSUME NEW T \in SUBSET Times, NEW Y \in SUBSET Types,
           NEW s \in OrdersOf(T \X Y)
    PROVE  s \in Seq(Key)
<1>1. IsFiniteSet(T) /\ IsFiniteSet(Y)
  BY DomainsAssumption, FS_Subset
<1>2. Cardinality(T \X Y) \in Nat
  BY <1>1, FS_Product, FS_CardinalityType
<1>3. s \in [1 .. Cardinality(T \X Y) -> Key]
  BY DEF OrdersOf, Key
<1>4. \A n \in Nat : [1 .. n -> Key] \subseteq Seq(Key)
  BY SeqDef
<1> QED
  BY <1>2, <1>3, <1>4

LEMMA RowsAtType == \A k : RowsAt(k) \in SUBSET db
BY DEF RowsAt

\* The parts of the type invariant that several actions disturb.
ServerInv == ServerTypeOK /\ WorkersBusy

LEMMA ServerInitInv == ServerInit => ServerInv
<1> SUFFICES ASSUME ServerInit PROVE ServerInv
  OBVIOUS
<1>1. NoLeaves \in [Key -> SUBSET Rows]
  BY DEF NoLeaves
<1>2. Nobody \in Workers \cup {Nobody} /\ MaxCalls \in Nat
  BY BoundsAssumption
<1> QED
  BY <1>1, <1>2 DEF ServerInit, ServerInv, ServerTypeOK, WorkersBusy

LEMMA HeadTail ==
    ASSUME ServerInv, NEW w \in Workers, wpc[w] # "done"
    PROVE  /\ Head(todo[w]) \in Key
           /\ Tail(todo[w]) \in Seq(Key)
           /\ AfterThis(w) # "done" => Tail(todo[w]) # <<>>
<1>1. todo[w] \in Seq(Key) /\ todo[w] # <<>>
  BY DEF ServerInv, ServerTypeOK, WorkersBusy
<1> QED
  BY <1>1, HeadTailProperties DEF AfterThis

\* The operator's own steps.
LEMMA OperatorPreservesInv ==
    ASSUME ServerInv, NewCall \/ OperatorStep
    PROVE  ServerInv'
<1> USE DEF ServerInv, ServerTypeOK, tableVars, listVars, treeVars, callVars, workVars
<1>1. NoLeaves \in [Key -> SUBSET Rows] /\ MaxCalls \in Nat
  BY BoundsAssumption DEF NoLeaves
<1>2. CASE AddToSqlTable
  BY <1>1, <1>2 DEF AddToSqlTable, Issue, WorkersBusy
<1>3. CASE InitializeSqlTable
  BY <1>1, <1>3 DEF InitializeSqlTable, Issue, WorkersBusy
<1>4. CASE AddToTree
  BY <1>1, <1>4 DEF AddToTree, Issue, WorkersBusy
<1>5. CASE InitializeTree
  BY <1>1, <1>5 DEF InitializeTree, Issue, WorkersBusy
<1>6. CASE InsertBatch
  BY <1>6 DEF InsertBatch, WorkersBusy
<1>7. CASE ResetPrefixes
  BY <1>7 DEF ResetPrefixes, WorkersBusy
<1>8. CASE ResetTrees
  BY <1>8 DEF ResetTrees, WorkersBusy
<1>9. CASE CollectTypes
  <2>1. UniqueTypesIn(opRange) \in SUBSET Types
    BY RangesAssumption DEF UniqueTypesIn
  <2> QED
    BY <1>9, <2>1 DEF CollectTypes, WorkersBusy
<1>10. CASE Launch
  <2>1. UniqueTimesIn(opRange) \in SUBSET Times
    BY RangesAssumption DEF UniqueTimesIn
  <2>2. PICK s \in OrdersOf(UniqueTimesIn(opRange) \X uniqueTypes) :
          /\ todo' = [w \in Workers |-> Chunk(s, w)]
          /\ wpc' = [w \in Workers |-> IF todo'[w] = <<>> THEN "done" ELSE "fetch"]
    BY <1>10 DEF Launch
  <2>3. \A w \in Workers : Chunk(s, w) \in Seq(Key)
    BY <2>1, OrdersType, ChunkType
  <2>4. todo' \in [Workers -> Seq(Key)]
    BY <2>2, <2>3
  <2>5. WorkersBusy'
    BY <2>2 DEF WorkersBusy
  <2> QED
    BY <1>10, <2>2, <2>4, <2>5 DEF Launch
<1>11. CASE Wait
  BY <1>11 DEF Wait, WorkersBusy
<1>12. CASE Attach
  <2>1. newLists[appended + 1] \in Lists /\ appended + 1 \in 0 .. Len(newLists)
    BY <1>12, LenProperties, ElementOfSeq DEF Attach
  <2> QED
    BY <1>12, <2>1 DEF Attach, Lists, WorkersBusy
<1>13. CASE Rehash
  BY <1>13 DEF Rehash, WorkersBusy
<1>14. CASE Return
  <2>1. <<>> \in Seq(Lists) /\ Len(<<>>) = 0
    BY EmptySeq
  <2> QED
    BY <1>14, <2>1 DEF Return, WorkersBusy
<1>15. CASE Split
  BY <1>15 DEF Split, WorkersBusy
<1> QED
  BY <1>2, <1>3, <1>4, <1>5, <1>6, <1>7, <1>8, <1>9, <1>10, <1>11, <1>12,
     <1>13, <1>14, <1>15 DEF NewCall, OperatorStep

\* The steps of the goroutines.
LEMMA WorkerPreservesInv ==
    ASSUME ServerInv, NEW w \in Workers, WorkerStep(w)
    PROVE  ServerInv'
<1> USE DEF ServerInv, ServerTypeOK, tableVars, listVars, treeVars, callVars
<1>1. CASE Fetch(w)
  <2>1. Head(todo[w]) \in Key /\ Tail(todo[w]) \in Seq(Key)
        /\ (AfterThis(w) # "done" => Tail(todo[w]) # <<>>)
    BY <1>1, HeadTail DEF Fetch
  <2>2. RowsAt(Head(todo[w])) \in SUBSET Rows
    BY RowsAtType
  <2>3. AfterThis(w) \in {"fetch", "done"}
    BY DEF AfterThis
  <2> QED
    BY <1>1, <2>1, <2>2, <2>3 DEF Fetch, WorkersBusy
<1>2. CASE Lock(w)
  BY <1>2 DEF Lock, WorkersBusy
<1>3. CASE ReadPrefixes(w)
  BY <1>3 DEF ReadPrefixes, WorkersBusy
<1>4. CASE StorePrefixes(w)
  <2>1. Append(wprefixes[w], Head(todo[w])) \in Seq(Key) /\ <<>> \in Seq(Key)
    BY <1>4, HeadTail, AppendProperties DEF StorePrefixes
  <2> QED
    BY <1>4, <2>1 DEF StorePrefixes, WorkersBusy
<1>5. CASE ReadTrees(w)
  BY <1>5 DEF ReadTrees, WorkersBusy
<1>6. CASE StoreTrees(w)
  <2>1. Append(wtrees[w], wroot[w]) \in Seq(SUBSET Rows) /\ <<>> \in Seq(SUBSET Rows)
    BY AppendProperties
  <2> QED
    BY <1>6, <2>1 DEF StoreTrees, WorkersBusy
<1>7. CASE Unlock(w)
  <2>1. Head(todo[w]) \in Key /\ Tail(todo[w]) \in Seq(Key)
        /\ (AfterThis(w) # "done" => Tail(todo[w]) # <<>>)
    BY <1>7, HeadTail DEF Unlock
  <2>2. AfterThis(w) \in {"fetch", "done"}
    BY DEF AfterThis
  <2> DEFINE new == [key |-> Head(todo[w]), root |-> wroot[w]]
  <2>3. new \in Lists
    BY <2>1 DEF Lists
  <2>4. Append(newLists, new) \in Seq(Lists)
        /\ Len(Append(newLists, new)) = Len(newLists) + 1
    BY <2>3, AppendProperties
  <2>5. newLists' \in Seq(Lists) /\ appended' \in 0 .. Len(newLists')
    BY <1>7, <2>4, LenProperties DEF Unlock
  <2> QED
    BY <1>7, <2>1, <2>2, <2>5 DEF Unlock, WorkersBusy
<1> QED
  BY <1>1, <1>2, <1>3, <1>4, <1>5, <1>6, <1>7 DEF WorkerStep

\* A new server, with whatever the table holds.
LEMMA CrashPreservesInv ==
    ASSUME ServerInv, Crash
    PROVE  ServerInv'
<1>1. NoLeaves \in [Key -> SUBSET Rows]
  BY DEF NoLeaves
<1>2. Nobody \in Workers \cup {Nobody} /\ MaxCalls \in Nat
  BY BoundsAssumption
<1> QED
  BY <1>1, <1>2 DEF Crash, NoWork, ServerInv, ServerTypeOK, WorkersBusy

LEMMA ServerStutterInv ==
    ASSUME ServerInv, UNCHANGED serverVars
    PROVE  ServerInv'
BY DEF ServerInv, ServerTypeOK, WorkersBusy, serverVars

\* Type correctness of the server: whatever calls the operator issues, the
\* lists, the tree and the goroutines' variables keep their types; in
\* particular no goroutine takes the head of an empty list of work.
THEOREM ServerTypeCorrect == ServerSpec => []ServerTypeOK
<1>1. ServerInit => ServerInv
  BY ServerInitInv
<1>2. ServerInv /\ [ServerNext]_serverVars => ServerInv'
  BY OperatorPreservesInv, WorkerPreservesInv, CrashPreservesInv, ServerStutterInv
     DEF ServerNext, ServerStep
<1>3. ServerInv => ServerTypeOK
  BY DEF ServerInv
<1> QED
  BY <1>1, <1>2, <1>3, PTL DEF ServerSpec

-----------------------------------------------------------------------------
(* The inductive invariant about what the goroutines and the tree hold.    *)

\* Goroutines work, and new prefixes wait, only within a call of AddToTree.
OnlyWithinCall ==
    /\ \A w \in Workers : wpc[w] # "done" => opPc = "build"
    /\ opPc \notin {"build", "attach", "split", "rehash"} => newLists = <<>>

\* The table does not change under AddToTree: what a goroutine built, and
\* what waits to be appended, is still what the table holds.
Fresh ==
    /\ \A w \in Workers : wpc[w] \notin {"done", "fetch"} =>
           wroot[w] = RowsAt(Head(todo[w]))
    /\ \A i \in 1 .. Len(newLists) : newLists[i].root = RowsAt(newLists[i].key)

\* The root hash is out of date for one prefix at most.
HashOfOthers == \A k \in Key : k \notin Stale => rootHash[k] = leaves[k]

TreeInv == ServerInv /\ OnlyWithinCall /\ Fresh /\ HashOfOthers

LEMMA TreeInitInv == ServerInit => TreeInv
<1> SUFFICES ASSUME ServerInit PROVE TreeInv
  OBVIOUS
<1>1. ServerInv
  BY ServerInitInv
<1>2. OnlyWithinCall /\ HashOfOthers
  BY DEF ServerInit, OnlyWithinCall, HashOfOthers, Stale
<1>3. Fresh
  BY DEF ServerInit, Fresh
<1> QED
  BY <1>1, <1>2, <1>3 DEF TreeInv

\* Between calls, and until the goroutines start, nothing is under way.
LEMMA QuietSteps ==
    ASSUME TreeInv,
           opPc \notin {"build", "attach", "split", "rehash"},
           opPc' # "rehash",
           newLists' = newLists, wpc' = wpc,
           (leaves' = leaves /\ rootHash' = rootHash) \/ leaves' = rootHash'
    PROVE  OnlyWithinCall' /\ Fresh' /\ HashOfOthers'
<1>1. newLists = <<>> /\ \A w \in Workers : wpc[w] = "done"
  BY DEF TreeInv, OnlyWithinCall, ServerInv, ServerTypeOK
<1>2. OnlyWithinCall' /\ Fresh'
  BY <1>1 DEF OnlyWithinCall, Fresh
<1>3. HashOfOthers'
  BY DEF TreeInv, HashOfOthers, Stale
<1> QED
  BY <1>2, <1>3

LEMMA OperatorPreservesTreeInv ==
    ASSUME TreeInv, NewCall \/ OperatorStep
    PROVE  TreeInv'
<1>0. ServerInv'
  BY OperatorPreservesInv DEF TreeInv
<1> USE DEF tableVars, listVars, treeVars, callVars, workVars
<1>1. CASE NewCall
  <2>1. /\ opPc = "idle" /\ opPc' \in {"insert", "types", "resetPrefixes"}
        /\ newLists' = newLists /\ wpc' = wpc
        /\ (leaves' = leaves /\ rootHash' = rootHash) \/ leaves' = rootHash'
    BY <1>1 DEF NewCall, AddToSqlTable, InitializeSqlTable, AddToTree,
                InitializeTree, Issue
  <2> QED
    BY <1>0, <2>1, QuietSteps DEF TreeInv
<1>2. CASE InsertBatch \/ ResetPrefixes \/ ResetTrees \/ CollectTypes
  <2>1. /\ opPc \notin {"build", "attach", "split", "rehash"} /\ opPc' # "rehash"
        /\ newLists' = newLists /\ wpc' = wpc
        /\ leaves' = leaves /\ rootHash' = rootHash
    BY <1>2 DEF InsertBatch, ResetPrefixes, ResetTrees, CollectTypes
  <2> QED
    BY <1>0, <2>1, QuietSteps DEF TreeInv
<1>3. CASE Launch
  <2>1. newLists = <<>> /\ newLists' = <<>>
    BY <1>3 DEF Launch, TreeInv, OnlyWithinCall
  <2>2. \A w \in Workers : wpc'[w] \in {"done", "fetch"}
    BY <1>3 DEF Launch
  <2>3. OnlyWithinCall' /\ Fresh'
    BY <1>3, <2>1, <2>2 DEF Launch, OnlyWithinCall, Fresh
  <2>4. HashOfOthers'
    BY <1>3 DEF Launch, TreeInv, HashOfOthers, Stale
  <2> QED
    BY <1>0, <2>3, <2>4 DEF TreeInv
<1>4. CASE Wait
  <2>1. OnlyWithinCall' /\ HashOfOthers'
    BY <1>4 DEF Wait, TreeInv, OnlyWithinCall, HashOfOthers, Stale
  <2>2. Fresh'
    BY <1>4 DEF Wait, TreeInv, Fresh, RowsAt
  <2> QED
    BY <1>0, <2>1, <2>2 DEF TreeInv
<1>5. CASE Attach
  <2>1. OnlyWithinCall'
    BY <1>5 DEF Attach, TreeInv, OnlyWithinCall
  <2>2. Fresh'
    BY <1>5 DEF Attach, TreeInv, Fresh, RowsAt
  <2>3. HashOfOthers'
    <3> DEFINE new == newLists[appended + 1]
    <3>1. Stale = {} /\ Stale' = {new.key}
      BY <1>5 DEF Attach, Stale
    <3>2. \A k \in Key : k # new.key => leaves'[k] = leaves[k]
      BY <1>5 DEF Attach, TreeInv, ServerInv, ServerTypeOK
    <3> QED
      BY <1>5, <3>1, <3>2 DEF Attach, TreeInv, HashOfOthers
  <2> QED
    BY <1>0, <2>1, <2>2, <2>3 DEF TreeInv
<1>6. CASE Rehash
  <2>1. OnlyWithinCall' /\ HashOfOthers'
    BY <1>6 DEF Rehash, TreeInv, OnlyWithinCall, HashOfOthers
  <2>2. Fresh'
    BY <1>6 DEF Rehash, TreeInv, Fresh, RowsAt
  <2> QED
    BY <1>0, <2>1, <2>2 DEF TreeInv
<1>7. CASE Return
  <2>1. \A w \in Workers : wpc[w] = "done"
    BY <1>7 DEF Return, TreeInv, OnlyWithinCall, ServerInv, ServerTypeOK
  <2>2. OnlyWithinCall' /\ Fresh'
    BY <1>7, <2>1 DEF Return, OnlyWithinCall, Fresh
  <2>3. HashOfOthers'
    BY <1>7 DEF Return, TreeInv, HashOfOthers, Stale
  <2> QED
    BY <1>0, <2>2, <2>3 DEF TreeInv
<1>8. CASE Split
  <2>1. OnlyWithinCall' /\ HashOfOthers'
    BY <1>8 DEF Split, TreeInv, OnlyWithinCall, HashOfOthers, Stale
  <2>2. Fresh'
    BY <1>8 DEF Split, TreeInv, Fresh, RowsAt
  <2> QED
    BY <1>0, <2>1, <2>2 DEF TreeInv
<1> QED
  BY <1>1, <1>2, <1>3, <1>4, <1>5, <1>6, <1>7, <1>8 DEF OperatorStep

LEMMA WorkerPreservesTreeInv ==
    ASSUME TreeInv, NEW w \in Workers, WorkerStep(w)
    PROVE  TreeInv'
<1>0. ServerInv'
  BY WorkerPreservesInv DEF TreeInv
<1> USE DEF tableVars, listVars, treeVars, callVars
<1>1. /\ opPc = "build" /\ opPc' = "build" /\ db' = db
      /\ leaves' = leaves /\ rootHash' = rootHash
  BY DEF WorkerStep, Fetch, Lock, ReadPrefixes, StorePrefixes, ReadTrees,
         StoreTrees, Unlock, TreeInv, OnlyWithinCall
<1>2. OnlyWithinCall' /\ HashOfOthers'
  BY <1>1 DEF OnlyWithinCall, TreeInv, HashOfOthers, Stale
<1>3. \A k : RowsAt(k)' = RowsAt(k)
  BY <1>1 DEF RowsAt
<1>4. CASE Fetch(w)
  <2>1. newLists' = newLists
        /\ \A v \in Workers : v # w =>
               wpc'[v] = wpc[v] /\ todo'[v] = todo[v] /\ wroot'[v] = wroot[v]
    BY <1>4 DEF Fetch, TreeInv, ServerInv, ServerTypeOK
  <2>2. wpc'[w] \in {"done", "fetch"} \/ wroot'[w] = RowsAt(Head(todo'[w]))
    BY <1>4 DEF Fetch, TreeInv, ServerInv, ServerTypeOK, AfterThis
  <2>3. Fresh'
    BY <1>3, <2>1, <2>2 DEF TreeInv, Fresh
  <2> QED
    BY <1>0, <1>2, <2>3 DEF TreeInv
<1>5. CASE Lock(w) \/ ReadPrefixes(w) \/ StorePrefixes(w) \/ ReadTrees(w) \/ StoreTrees(w)
  <2>1. /\ newLists' = newLists /\ todo' = todo /\ wroot' = wroot
        /\ wpc[w] \notin {"done", "fetch"}
        /\ \A v \in Workers : v # w => wpc'[v] = wpc[v]
    BY <1>5 DEF Lock, ReadPrefixes, StorePrefixes, ReadTrees, StoreTrees,
                TreeInv, ServerInv, ServerTypeOK
  <2>2. Fresh'
    BY <1>3, <2>1 DEF TreeInv, Fresh
  <2> QED
    BY <1>0, <1>2, <2>2 DEF TreeInv
<1>6. CASE Unlock(w)
  <2> DEFINE new == [key |-> Head(todo[w]), root |-> wroot[w]]
  <2>1. new \in Lists /\ new.root = RowsAt(new.key)
    BY <1>6, HeadTail DEF Unlock, Lists, TreeInv, Fresh, ServerInv, ServerTypeOK
  <2>2. /\ newLists \in Seq(Lists)
        /\ newLists' = Append(newLists, new)
    BY <1>6 DEF Unlock, TreeInv, ServerInv, ServerTypeOK
  <2> HIDE DEF new
  <2>3. \A i \in 1 .. Len(newLists') : newLists'[i].root = RowsAt(newLists'[i].key)
    <3> TAKE i \in 1 .. Len(newLists')
    <3>1. Len(newLists') = Len(newLists) + 1 /\ Len(newLists) \in Nat
      BY <2>1, <2>2, AppendProperties, LenProperties
    <3>2. CASE i \in 1 .. Len(newLists)
      <4>1. newLists'[i] = newLists[i]
        BY <2>1, <2>2, <3>2, AppendProperties
      <4> QED
        BY <3>2, <4>1 DEF TreeInv, Fresh
    <3>3. CASE i = Len(newLists) + 1
      <4>1. newLists'[i] = new
        BY <2>1, <2>2, <3>3, AppendProperties
      <4> QED
        BY <2>1, <4>1
    <3> QED
      BY <3>1, <3>2, <3>3
  <2>4. \A v \in Workers : wpc'[v] \notin {"done", "fetch"} =>
            v # w /\ wpc[v] = wpc'[v] /\ todo'[v] = todo[v] /\ wroot'[v] = wroot[v]
    BY <1>6 DEF Unlock, TreeInv, ServerInv, ServerTypeOK, AfterThis
  <2>5. Fresh'
    BY <1>3, <2>3, <2>4 DEF TreeInv, Fresh
  <2> QED
    BY <1>0, <1>2, <2>5 DEF TreeInv
<1> QED
  BY <1>0, <1>2, <1>4, <1>5, <1>6 DEF WorkerStep, TreeInv

LEMMA CrashPreservesTreeInv ==
    ASSUME TreeInv, Crash
    PROVE  TreeInv'
<1>1. ServerInv'
  BY CrashPreservesInv DEF TreeInv
<1>2. OnlyWithinCall' /\ Fresh' /\ HashOfOthers'
  BY DEF Crash, NoWork, OnlyWithinCall, Fresh, HashOfOthers, Stale
<1> QED
  BY <1>1, <1>2 DEF TreeInv

LEMMA TreeStutterInv ==
    ASSUME TreeInv, UNCHANGED serverVars
    PROVE  TreeInv'
BY ServerStutterInv
   DEF TreeInv, OnlyWithinCall, Fresh, HashOfOthers, Stale, RowsAt, serverVars

LEMMA ServerStepInv ==
    ASSUME TreeInv, [ServerNext]_serverVars
    PROVE  TreeInv'
BY OperatorPreservesTreeInv, WorkerPreservesTreeInv, CrashPreservesTreeInv, TreeStutterInv
   DEF ServerNext, ServerStep

-----------------------------------------------------------------------------
(* The inductive invariant about the lists. *)

Critical == {"readPrefixes", "storePrefixes", "readTrees", "storeTrees", "unlock"}

\* One goroutine at a time is between Lock and Unlock.
Exclusive == \A w \in Workers : wpc[w] \in Critical <=> mu = w

\* A goroutine has stored a prefix and not yet its root.
HalfStored == \E w \in Workers : wpc[w] \in {"readTrees", "storeTrees"}

\* A goroutine has stored both and not yet added them to newLists.
Unnoted == \E w \in Workers : wpc[w] = "unlock"

\* What the goroutine that holds the mutex has read is what it overwrites,
\* and what it has stored is at the end of the lists.
ListsInHand ==
    /\ IF opPc = "resetTrees" THEN prefixes = <<>>
       ELSE Len(prefixes) = Len(trees) + (IF HalfStored THEN 1 ELSE 0)
    /\ \A w \in Workers :
           /\ wpc[w] = "storePrefixes" => wprefixes[w] = prefixes
           /\ wpc[w] = "storeTrees" => wtrees[w] = trees
           /\ wpc[w] \in {"readTrees", "storeTrees"} =>
                  prefixes[Len(prefixes)] = Head(todo[w])
           /\ wpc[w] = "unlock" =>
                  /\ Len(trees) > 0
                  /\ prefixes[Len(trees)] = Head(todo[w])
                  /\ trees[Len(trees)] = wroot[w]

\* The number of entries of the lists from before the call.
Older == Len(trees) - Len(newLists) - (IF Unnoted THEN 1 ELSE 0)

\* newLists are the entries of the lists since then, in their order.
NewAreLast ==
    /\ Older >= 0
    /\ \A i \in 1 .. Len(newLists) :
           /\ prefixes[Older + i] = newLists[i].key
           /\ trees[Older + i] = newLists[i].root

\* Among the first n entries of the lists, r is the root of the last one
\* for k, or there is none and r is {}.
IsLast(k, r, n) ==
    \/ /\ r = {}
       /\ \A j \in 1 .. n : prefixes[j] # k
    \/ \E i \in 1 .. n :
           /\ prefixes[i] = k /\ trees[i] = r
           /\ \A j \in i + 1 .. n : prefixes[j] # k

\* The tree is what appending the older entries and the appended ones makes.
TreeOfLists ==
    IF opPc \in {"resetPrefixes", "resetTrees"} THEN leaves = NoLeaves
    ELSE \A k \in Key : IsLast(k, leaves[k], Older + appended)

ListsInv == Exclusive /\ ListsInHand /\ NewAreLast /\ TreeOfLists

-----------------------------------------------------------------------------
(* The inductive invariant about what a call adds. *)

Adding == opPc \in {"build", "attach", "split", "rehash"}

\* The work of a goroutine that is done is done.
DoneIsEmpty == \A w \in Workers : wpc[w] = "done" => todo[w] = <<>>

InTodo(k) == \E w \in Workers : \E j \in 1 .. Len(todo[w]) : todo[w][j] = k
InNew(k)  == \E i \in 1 .. Len(newLists) : newLists[i].key = k

\* No prefix of the range with rows is forgotten.
TakenOrDone ==
    /\ opPc = "times" => uniqueTypes = UniqueTypesIn(opRange)
    /\ Adding => \A k \in Key :
           InRange(k, opRange) /\ RowsAt(k) # {} => InTodo(k) \/ InNew(k)

\* The appended ones have their leaves.
AppendedAreLeaves ==
    \A i \in 1 .. appended : leaves[newLists[i].key] = newLists[i].root

FullInv == DoneIsEmpty /\ TakenOrDone /\ AppendedAreLeaves

-----------------------------------------------------------------------------
(* Lemmas about the parts *)

LEMMA OlderType ==
    ASSUME ServerTypeOK
    PROVE  /\ Len(prefixes) \in Nat /\ Len(trees) \in Nat /\ Len(newLists) \in Nat
           /\ appended \in Nat /\ appended <= Len(newLists)
           /\ Older \in Int /\ Older + Len(newLists) <= Len(trees)
<1>1. Len(prefixes) \in Nat /\ Len(trees) \in Nat /\ Len(newLists) \in Nat
  BY LenProperties DEF ServerTypeOK
<1> QED
  BY <1>1 DEF ServerTypeOK, Older

\* Entries beyond the first n do not matter.
LEMMA IsLastFrame ==
    ASSUME NEW k, NEW r, NEW n \in Int, IsLast(k, r, n),
           \A j \in 1 .. n : prefixes'[j] = prefixes[j] /\ trees'[j] = trees[j]
    PROVE  IsLast(k, r, n)'
<1>1. CASE r = {} /\ \A j \in 1 .. n : prefixes[j] # k
  BY <1>1 DEF IsLast
<1>2. ASSUME NEW i \in 1 .. n, prefixes[i] = k, trees[i] = r,
             \A j \in i + 1 .. n : prefixes[j] # k
      PROVE  IsLast(k, r, n)'
  <2>1. \A j \in i + 1 .. n : j \in 1 .. n
    OBVIOUS
  <2> QED
    BY <1>2, <2>1 DEF IsLast
<1> QED
  BY <1>1, <1>2 DEF IsLast

\* The next entry is about a prefix of its own, and about no other.
LEMMA IsLastNext ==
    ASSUME NEW k, NEW r, NEW n \in Nat, IsLast(k, r, n)
    PROVE  IF prefixes[n + 1] = k THEN IsLast(k, trees[n + 1], n + 1)
           ELSE IsLast(k, r, n + 1)
<1>1. CASE prefixes[n + 1] = k
  <2>1. n + 1 \in 1 .. n + 1 /\ \A j \in n + 1 + 1 .. n + 1 : FALSE
    OBVIOUS
  <2> QED
    BY <1>1, <2>1 DEF IsLast
<1>2. CASE prefixes[n + 1] # k
  <2>1. CASE r = {} /\ \A j \in 1 .. n : prefixes[j] # k
    <3>1. \A j \in 1 .. n + 1 : j \in 1 .. n \/ j = n + 1
      OBVIOUS
    <3> QED
      BY <1>2, <2>1, <3>1 DEF IsLast
  <2>2. ASSUME NEW i \in 1 .. n, prefixes[i] = k, trees[i] = r,
               \A j \in i + 1 .. n : prefixes[j] # k
        PROVE  IsLast(k, r, n + 1)
    <3>1. /\ i \in 1 .. n + 1
          /\ \A j \in i + 1 .. n + 1 : j \in i + 1 .. n \/ j = n + 1
      OBVIOUS
    <3> QED
      BY <1>2, <2>2, <3>1 DEF IsLast
  <2> QED
    BY <1>2, <2>1, <2>2 DEF IsLast
<1> QED
  BY <1>1, <1>2

\* It is what the properties call the root listed last.
LEMMA IsLastListed ==
    ASSUME ServerTypeOK, NEW k \in Key, NEW r, IsLast(k, r, Len(prefixes))
    PROVE  ListedLast(k) = r
<1> DEFINE at == {i \in DOMAIN prefixes : prefixes[i] = k}
<1>1. DOMAIN prefixes = 1 .. Len(prefixes) /\ Len(prefixes) \in Nat
  BY LenProperties DEF ServerTypeOK
<1>2. CASE r = {} /\ \A j \in 1 .. Len(prefixes) : prefixes[j] # k
  BY <1>1, <1>2 DEF ListedLast
<1>3. ASSUME NEW i \in 1 .. Len(prefixes), prefixes[i] = k, trees[i] = r,
             \A j \in i + 1 .. Len(prefixes) : prefixes[j] # k
      PROVE  ListedLast(k) = r
  <2>1. i \in at /\ \A j \in at : j <= i
    BY <1>1, <1>3
  <2>2. \A h \in at : (\A j \in at : j <= h) => h = i
    BY <1>1, <2>1
  <2>3. (CHOOSE h \in at : \A j \in at : j <= h) = i
    <3> HIDE DEF at
    <3> QED
      BY <2>1, <2>2
  <2> QED
    BY <1>3, <2>1, <2>3 DEF ListedLast
<1> QED
  BY <1>2, <1>3 DEF IsLast

LEMMA NobodyIsFree == Nobody \notin Workers
BY BoundsAssumption DEF Nobody, Workers


-----------------------------------------------------------------------------
(* ListsInv is inductive. *)

\* With nobody at work the lists are whole.
LEMMA NobodyAtWork ==
    ASSUME ServerTypeOK, \A w \in Workers : wpc[w] \in {"done", "fetch"}
    PROVE  /\ ~HalfStored /\ ~Unnoted
           /\ Older = Len(trees) - Len(newLists)
<1>1. ~HalfStored /\ ~Unnoted
  BY DEF HalfStored, Unnoted
<1> QED
  BY <1>1, OlderType DEF Older

\* The goroutine that holds the mutex decides what the lists lack.
LEMMA HolderDecides ==
    ASSUME Exclusive, NEW w \in Workers, wpc[w] \in Critical
    PROVE  /\ mu = w
           /\ \A v \in Workers : v # w => wpc[v] \notin Critical
           /\ HalfStored <=> wpc[w] \in {"readTrees", "storeTrees"}
           /\ Unnoted <=> wpc[w] = "unlock"
<1>1. mu = w /\ \A v \in Workers : v # w => wpc[v] \notin Critical
  BY DEF Exclusive
<1>2. /\ HalfStored <=> wpc[w] \in {"readTrees", "storeTrees"}
      /\ Unnoted <=> wpc[w] = "unlock"
  BY <1>1 DEF HalfStored, Unnoted, Critical
<1> QED
  BY <1>1, <1>2

LEMMA ListsInitInv == ServerInit => ListsInv
<1> SUFFICES ASSUME ServerInit PROVE ListsInv
  OBVIOUS
<1>1. ServerTypeOK /\ \A w \in Workers : wpc[w] = "done"
  BY ServerInitInv DEF ServerInv, ServerInit
<1>2. Len(<<>>) = 0
  BY EmptySeq
<1>3. Exclusive
  BY <1>1, NobodyIsFree DEF ServerInit, Exclusive, Critical
<1>4. ListsInHand
  BY <1>1, <1>2, NobodyAtWork DEF ServerInit, ListsInHand
<1>5. Older = 0 /\ NewAreLast
  BY <1>1, <1>2, NobodyAtWork DEF ServerInit, NewAreLast
<1>6. TreeOfLists
  BY <1>5 DEF ServerInit, TreeOfLists, IsLast, NoLeaves
<1> QED
  BY <1>3, <1>4, <1>5, <1>6 DEF ListsInv

\* Steps that leave the lists and the tree alone.
LEMMA ListsFrame ==
    ASSUME ListsInv,
           UNCHANGED <<prefixes, trees, leaves, newLists, appended, workVars>>,
           \/ opPc' = opPc
           \/ /\ opPc \notin {"resetPrefixes", "resetTrees"}
              /\ opPc' \notin {"resetPrefixes", "resetTrees"}
    PROVE  ListsInv'
<1> USE DEF workVars
<1>1. Exclusive'
  BY DEF ListsInv, Exclusive
<1>2. (HalfStored' <=> HalfStored) /\ (Unnoted' <=> Unnoted) /\ Older' = Older
  BY DEF HalfStored, Unnoted, Older
<1>3. ListsInHand'
  BY <1>2 DEF ListsInv, ListsInHand
<1>4. NewAreLast'
  BY <1>2 DEF ListsInv, NewAreLast
<1>5. TreeOfLists'
  BY <1>2 DEF ListsInv, TreeOfLists, IsLast
<1> QED
  BY <1>1, <1>3, <1>4, <1>5 DEF ListsInv

\* InitializeTree, ResetPrefixes and ResetTrees: there is no tree.
LEMMA ResetsPreserveListsInv ==
    ASSUME TreeInv, TreeInv', ListsInv, InitializeTree \/ ResetPrefixes \/ ResetTrees
    PROVE  ListsInv'
<1> USE DEF tableVars, listVars, treeVars, callVars, workVars
<1>1. /\ newLists = <<>> /\ newLists' = newLists
      /\ appended = 0 /\ appended' = 0
      /\ \A w \in Workers : wpc[w] = "done" /\ wpc'[w] = "done"
      /\ mu' = mu
  <2>1. newLists = <<>> /\ \A w \in Workers : wpc[w] = "done"
    BY DEF InitializeTree, ResetPrefixes, ResetTrees, Issue, TreeInv, OnlyWithinCall
  <2>2. newLists' = newLists /\ appended' = appended /\ wpc' = wpc /\ mu' = mu
    BY DEF InitializeTree, ResetPrefixes, ResetTrees
  <2>3. appended = 0
    BY <2>1, EmptySeq, OlderType DEF TreeInv, ServerInv
  <2> QED
    BY <2>1, <2>2, <2>3
<1>2. Len(<<>>) = 0
  BY EmptySeq
<1>3. ServerTypeOK /\ ServerTypeOK'
  BY DEF TreeInv, ServerInv
<1>4. Exclusive'
  BY <1>1 DEF ListsInv, Exclusive
<1>5. ~HalfStored /\ ~Unnoted /\ ~HalfStored' /\ ~Unnoted'
  BY <1>1 DEF HalfStored, Unnoted
<1>6. Len(trees) \in Nat /\ Len(trees') \in Nat
  BY <1>3, LenProperties DEF ServerTypeOK
<1>7. NewAreLast' /\ Older' = Len(trees')
  BY <1>1, <1>2, <1>5, <1>6 DEF NewAreLast, Older
<1>8. CASE InitializeTree
  <2>1. ListsInHand'
    BY <1>1, <1>5, <1>8 DEF InitializeTree, Issue, ListsInv, ListsInHand
  <2>2. TreeOfLists'
    BY <1>8 DEF InitializeTree, Issue, TreeOfLists, NoLeaves
  <2> QED
    BY <1>4, <1>7, <2>1, <2>2 DEF ListsInv
<1>9. CASE ResetPrefixes
  <2>1. ListsInHand'
    BY <1>1, <1>9 DEF ResetPrefixes, ListsInHand
  <2>2. TreeOfLists'
    BY <1>9 DEF ResetPrefixes, ListsInv, TreeOfLists, NoLeaves
  <2> QED
    BY <1>4, <1>7, <2>1, <2>2 DEF ListsInv
<1>10. CASE ResetTrees
  <2>1. prefixes' = <<>> /\ trees' = <<>> /\ leaves' = NoLeaves
    BY <1>10 DEF ResetTrees, ListsInv, ListsInHand, TreeOfLists
  <2>2. ListsInHand'
    BY <1>1, <1>2, <1>5, <1>10, <2>1 DEF ResetTrees, ListsInHand
  <2>3. TreeOfLists'
    BY <1>1, <1>2, <1>7, <1>10, <2>1 DEF ResetTrees, TreeOfLists, IsLast, NoLeaves
  <2> QED
    BY <1>4, <1>7, <2>2, <2>3 DEF ListsInv
<1> QED
  BY <1>8, <1>9, <1>10

\* The launch puts nobody into the critical section.
LEMMA LaunchPreservesListsInv ==
    ASSUME TreeInv, TreeInv', ListsInv, Launch
    PROVE  ListsInv'
<1> USE DEF tableVars, listVars, treeVars
<1>1. /\ \A w \in Workers : wpc[w] = "done" /\ wpc'[w] \in {"done", "fetch"}
      /\ UNCHANGED <<prefixes, trees, leaves, newLists, appended, mu>>
      /\ opPc = "times" /\ opPc' = "build"
  BY DEF Launch, TreeInv, OnlyWithinCall
<1>2. Exclusive'
  BY <1>1 DEF ListsInv, Exclusive, Critical
<1>3. ~HalfStored /\ ~Unnoted /\ ~HalfStored' /\ ~Unnoted'
  BY <1>1 DEF HalfStored, Unnoted
<1>4. Older' = Older
  BY <1>1, <1>3 DEF Older
<1>5. ListsInHand'
  BY <1>1, <1>3 DEF ListsInv, ListsInHand
<1>6. NewAreLast' /\ TreeOfLists'
  BY <1>1, <1>4 DEF ListsInv, NewAreLast, TreeOfLists, IsLast
<1> QED
  BY <1>2, <1>5, <1>6 DEF ListsInv

\* The appended prefix is the next one of the lists.
LEMMA AttachPreservesListsInv ==
    ASSUME TreeInv, ListsInv, Attach
    PROVE  ListsInv'
<1> USE DEF tableVars, listVars
<1> DEFINE new == newLists[appended + 1]
           n == Older + appended
<1>1. /\ UNCHANGED <<prefixes, trees, newLists, workVars>>
      /\ opPc \in {"attach", "split"} /\ opPc' = "rehash" /\ appended < Len(newLists)
      /\ appended' = appended + 1
      /\ leaves' = [leaves EXCEPT ![new.key] = new.root]
  BY DEF Attach
<1>2. Exclusive' /\ Older' = Older /\ (HalfStored' <=> HalfStored)
  BY <1>1 DEF ListsInv, Exclusive, Older, Unnoted, HalfStored, workVars
<1>3. ListsInHand' /\ NewAreLast'
  BY <1>1, <1>2 DEF ListsInv, ListsInHand, NewAreLast, workVars
<1>4. n \in Nat /\ Older + (appended + 1) = n + 1 /\ appended + 1 \in 1 .. Len(newLists)
  <2>1. /\ appended \in Nat /\ Len(newLists) \in Nat /\ Older \in Int
        /\ appended < Len(newLists)
    BY <1>1, OlderType DEF TreeInv, ServerInv
  <2>2. Older >= 0
    BY DEF ListsInv, NewAreLast
  <2> QED
    BY <2>1, <2>2
<1>5. prefixes[n + 1] = new.key /\ trees[n + 1] = new.root
  BY <1>4 DEF ListsInv, NewAreLast
<1>6. ASSUME NEW k \in Key
      PROVE  IsLast(k, leaves'[k], n + 1)
  <2>1. IsLast(k, leaves[k], n)
    BY <1>1 DEF ListsInv, TreeOfLists
  <2>2. leaves'[k] = IF k = new.key THEN new.root ELSE leaves[k]
    BY <1>1 DEF TreeInv, ServerInv, ServerTypeOK
  <2> HIDE DEF n, new
  <2> QED
    BY <1>4, <1>5, <2>1, <2>2, IsLastNext
<1>7. TreeOfLists'
  <2>1. Older' + appended' = n + 1
    BY <1>1, <1>2, <1>4
  <2> HIDE DEF n
  <2> QED
    BY <1>1, <1>6, <2>1 DEF TreeOfLists, IsLast
<1> QED
  BY <1>2, <1>3, <1>7 DEF ListsInv

\* The new entries become older ones.
LEMMA ReturnPreservesListsInv ==
    ASSUME TreeInv, TreeInv', ListsInv, Return
    PROVE  ListsInv'
<1> USE DEF tableVars, listVars, treeVars, workVars
<1>1. /\ UNCHANGED <<prefixes, trees, leaves, workVars>>
      /\ opPc = "attach" /\ opPc' = "idle" /\ appended = Len(newLists)
      /\ appended' = 0 /\ newLists' = <<>>
  BY DEF Return
<1>2. \A w \in Workers : wpc[w] = "done" /\ wpc'[w] = "done"
  BY <1>1 DEF TreeInv, OnlyWithinCall
<1>3. ServerTypeOK /\ ServerTypeOK' /\ Len(<<>>) = 0
  BY EmptySeq DEF TreeInv, ServerInv
<1>4. Older' = Older + appended /\ Older' = Len(trees) /\ Len(trees) \in Nat
  <2>1. ~Unnoted /\ ~Unnoted'
    BY <1>2 DEF Unnoted
  <2> QED
    BY <1>1, <1>3, <2>1, OlderType DEF Older
<1>5. Exclusive' /\ (HalfStored' <=> HalfStored)
  BY <1>1 DEF ListsInv, Exclusive, HalfStored
<1>6. ListsInHand'
  BY <1>1, <1>5 DEF ListsInv, ListsInHand
<1>7. NewAreLast'
  BY <1>1, <1>3, <1>4 DEF NewAreLast
<1>8. TreeOfLists'
  BY <1>1, <1>4 DEF ListsInv, TreeOfLists, IsLast
<1> QED
  BY <1>5, <1>6, <1>7, <1>8 DEF ListsInv

LEMMA OperatorPreservesListsInv ==
    ASSUME TreeInv, TreeInv', ListsInv, NewCall \/ OperatorStep
    PROVE  ListsInv'
<1>1. CASE AddToSqlTable \/ InitializeSqlTable \/ AddToTree \/ InsertBatch
           \/ CollectTypes \/ Wait \/ Split \/ Rehash
  <2>1. UNCHANGED <<prefixes, trees, leaves, newLists, appended, workVars>>
    BY <1>1 DEF AddToSqlTable, InitializeSqlTable, AddToTree, InsertBatch,
                CollectTypes, Wait, Split, Rehash, listVars, treeVars
  <2>2. opPc \notin {"resetPrefixes", "resetTrees"}
        /\ opPc' \notin {"resetPrefixes", "resetTrees"}
    BY <1>1 DEF AddToSqlTable, InitializeSqlTable, AddToTree, InsertBatch,
                CollectTypes, Wait, Split, Rehash, Issue
  <2> QED
    BY <2>1, <2>2, ListsFrame
<1> QED
  BY <1>1, ResetsPreserveListsInv, LaunchPreservesListsInv, AttachPreservesListsInv,
     ReturnPreservesListsInv DEF NewCall, OperatorStep


\* Steps of a goroutine that store nothing into the lists.
LEMMA GoroutineFrame ==
    ASSUME ListsInv,
           UNCHANGED <<prefixes, trees, leaves, newLists, appended, opPc>>,
           Exclusive',
           HalfStored' <=> HalfStored, Unnoted' <=> Unnoted,
           \A w \in Workers :
               \/ wpc'[w] \in {"done", "fetch", "lock", "readPrefixes"}
               \/ /\ wpc'[w] = wpc[w] /\ todo'[w] = todo[w] /\ wroot'[w] = wroot[w]
                  /\ wprefixes'[w] = wprefixes[w] /\ wtrees'[w] = wtrees[w]
               \/ wpc'[w] = "storePrefixes" /\ wprefixes'[w] = prefixes
               \/ /\ wpc[w] = "readTrees" /\ wpc'[w] = "storeTrees"
                  /\ todo'[w] = todo[w] /\ wtrees'[w] = trees
    PROVE  ListsInv'
<1>1. Older' = Older
  BY DEF Older
<1>2. ListsInHand'
  BY DEF ListsInv, ListsInHand
<1>3. NewAreLast' /\ TreeOfLists'
  BY <1>1 DEF ListsInv, NewAreLast, TreeOfLists, IsLast
<1> QED
  BY <1>2, <1>3 DEF ListsInv

LEMMA ReadingPreservesListsInv ==
    ASSUME ServerTypeOK, ListsInv, NEW w \in Workers, opPc' = opPc,
           Fetch(w) \/ Lock(w) \/ ReadPrefixes(w) \/ ReadTrees(w)
    PROVE  ListsInv'
<1> USE DEF tableVars, listVars, treeVars, callVars
<1>1. UNCHANGED <<prefixes, trees, leaves, newLists, appended>>
  BY DEF Fetch, Lock, ReadPrefixes, ReadTrees
<1>2. \A v \in Workers : v # w =>
          /\ wpc'[v] = wpc[v] /\ todo'[v] = todo[v] /\ wroot'[v] = wroot[v]
          /\ wprefixes'[v] = wprefixes[v] /\ wtrees'[v] = wtrees[v]
  BY DEF Fetch, Lock, ReadPrefixes, ReadTrees, ServerTypeOK
<1>3. CASE Fetch(w)
  <2>1. wpc[w] = "fetch" /\ wpc'[w] \in {"done", "fetch", "lock"} /\ mu' = mu
    BY <1>3 DEF Fetch, AfterThis, ServerTypeOK
  <2>2. Exclusive'
    BY <1>2, <2>1 DEF ListsInv, Exclusive, Critical
  <2>3. (HalfStored' <=> HalfStored) /\ (Unnoted' <=> Unnoted)
    BY <1>2, <2>1 DEF HalfStored, Unnoted
  <2> QED
    BY <1>1, <1>2, <2>1, <2>2, <2>3, GoroutineFrame
<1>4. CASE Lock(w)
  <2>1. wpc[w] = "lock" /\ wpc'[w] = "readPrefixes" /\ mu = Nobody /\ mu' = w
    BY <1>4 DEF Lock, ServerTypeOK
  <2>2. Exclusive'
    BY <1>2, <2>1, NobodyIsFree DEF ListsInv, Exclusive, Critical
  <2>3. (HalfStored' <=> HalfStored) /\ (Unnoted' <=> Unnoted)
    BY <1>2, <2>1 DEF HalfStored, Unnoted
  <2> QED
    BY <1>1, <1>2, <2>1, <2>2, <2>3, GoroutineFrame
<1>5. CASE ReadPrefixes(w)
  <2>1. /\ wpc[w] = "readPrefixes" /\ wpc'[w] = "storePrefixes" /\ mu' = mu
        /\ wprefixes'[w] = prefixes
    BY <1>5 DEF ReadPrefixes, ServerTypeOK
  <2>2. Exclusive'
    BY <1>2, <2>1 DEF ListsInv, Exclusive, Critical
  <2>3. (HalfStored' <=> HalfStored) /\ (Unnoted' <=> Unnoted)
    BY <1>2, <2>1 DEF HalfStored, Unnoted
  <2> QED
    BY <1>1, <1>2, <2>1, <2>2, <2>3, GoroutineFrame
<1>6. CASE ReadTrees(w)
  <2>1. /\ wpc[w] = "readTrees" /\ wpc'[w] = "storeTrees" /\ mu' = mu
        /\ wtrees'[w] = trees /\ todo'[w] = todo[w]
    BY <1>6 DEF ReadTrees, ServerTypeOK
  <2>2. Exclusive'
    BY <1>2, <2>1 DEF ListsInv, Exclusive, Critical
  <2>3. (HalfStored' <=> HalfStored) /\ (Unnoted' <=> Unnoted)
    BY <1>2, <2>1 DEF HalfStored, Unnoted
  <2> QED
    BY <1>1, <1>2, <2>1, <2>2, <2>3, GoroutineFrame
<1> QED
  BY <1>3, <1>4, <1>5, <1>6

LEMMA StorePrefixesPreservesListsInv ==
    ASSUME ServerInv, ListsInv, NEW w \in Workers, StorePrefixes(w), opPc = "build"
    PROVE  ListsInv'
<1> USE DEF tableVars, listVars, treeVars, callVars
<1> DEFINE key == Head(todo[w])
<1>0. ServerTypeOK
  BY DEF ServerInv
<1>1. /\ wpc[w] = "storePrefixes" /\ wpc'[w] = "readTrees" /\ mu' = mu /\ opPc' = opPc
      /\ UNCHANGED <<trees, leaves, newLists, appended, todo, wroot, wtrees>>
      /\ \A v \in Workers : v # w => wpc'[v] = wpc[v] /\ wprefixes'[v] = wprefixes[v]
  BY <1>0 DEF StorePrefixes, ServerTypeOK
<1>2. /\ mu = w /\ ~HalfStored /\ ~Unnoted
      /\ \A v \in Workers : v # w => wpc[v] \notin Critical
  BY <1>1, HolderDecides DEF ListsInv, Critical
<1>3. Exclusive' /\ HalfStored' /\ ~Unnoted'
  BY <1>1, <1>2 DEF ListsInv, Exclusive, HalfStored, Unnoted, Critical
<1>4. /\ prefixes \in Seq(Key) /\ key \in Key
      /\ prefixes' = Append(prefixes, key) /\ Len(prefixes) = Len(trees)
  BY <1>0, <1>1, <1>2, HeadTail DEF ListsInv, ListsInHand, StorePrefixes, ServerTypeOK
<1>5. /\ Len(prefixes) \in Nat /\ Len(prefixes') = Len(prefixes) + 1
      /\ prefixes'[Len(prefixes) + 1] = key
      /\ \A i \in 1 .. Len(prefixes) : prefixes'[i] = prefixes[i]
  <2> HIDE DEF key
  <2> QED
    BY <1>4, AppendProperties, LenProperties
<1>6. Older' = Older /\ Older \in Int /\ Older >= 0
      /\ Len(newLists) \in Nat /\ appended \in Nat /\ appended <= Len(newLists)
      /\ Older + Len(newLists) <= Len(prefixes)
  <2>1. Older' = Older
    BY <1>1, <1>2, <1>3 DEF Older
  <2>2. Older >= 0
    BY DEF ListsInv, NewAreLast
  <2> QED
    BY <1>0, <1>4, <2>1, <2>2, OlderType
<1>7. ListsInHand'
  <2>1. Len(prefixes') = Len(trees') + 1
    BY <1>1, <1>4, <1>5
  <2>2. \A v \in Workers : v # w => wpc'[v] \notin Critical
    BY <1>1, <1>2
  <2>3. prefixes'[Len(prefixes')] = Head(todo'[w])
    BY <1>1, <1>5
  <2> QED
    BY <1>1, <1>3, <2>1, <2>2, <2>3 DEF ListsInHand, Critical
<1>8. NewAreLast'
  <2>1. \A i \in 1 .. Len(newLists) : Older + i \in 1 .. Len(prefixes)
    BY <1>5, <1>6
  <2> QED
    BY <1>1, <1>5, <1>6, <2>1 DEF ListsInv, NewAreLast
<1>9. TreeOfLists'
  <2>1. \A j \in 1 .. Older + appended : j \in 1 .. Len(prefixes)
    BY <1>5, <1>6
  <2>2. \A k \in Key : IsLast(k, leaves[k], Older + appended)
    BY <1>1 DEF ListsInv, TreeOfLists
  <2>3. \A k \in Key : IsLast(k, leaves[k], Older + appended)'
    BY <1>1, <1>5, <1>6, <2>1, <2>2, SMTT(30) DEF IsLast
  <2> QED
    BY <1>1, <2>3 DEF TreeOfLists
<1> QED
  BY <1>3, <1>7, <1>8, <1>9 DEF ListsInv


LEMMA StoreTreesPreservesListsInv ==
    ASSUME ServerInv, ListsInv, NEW w \in Workers, StoreTrees(w), opPc = "build"
    PROVE  ListsInv'
<1> USE DEF tableVars, listVars, treeVars, callVars
<1> DEFINE root == wroot[w]
<1>0. ServerTypeOK
  BY DEF ServerInv
<1>1. /\ wpc[w] = "storeTrees" /\ wpc'[w] = "unlock" /\ mu' = mu /\ opPc' = opPc
      /\ UNCHANGED <<prefixes, leaves, newLists, appended, todo, wroot, wprefixes>>
      /\ \A v \in Workers : v # w => wpc'[v] = wpc[v] /\ wtrees'[v] = wtrees[v]
  BY <1>0 DEF StoreTrees, ServerTypeOK
<1>2. /\ mu = w /\ HalfStored /\ ~Unnoted
      /\ \A v \in Workers : v # w => wpc[v] \notin Critical
  BY <1>1, HolderDecides DEF ListsInv, Critical
<1>3. Exclusive' /\ ~HalfStored' /\ Unnoted'
  BY <1>1, <1>2 DEF ListsInv, Exclusive, HalfStored, Unnoted, Critical
<1>4. /\ trees \in Seq(SUBSET Rows) /\ root \in SUBSET Rows
      /\ trees' = Append(trees, root) /\ Len(prefixes) = Len(trees) + 1
      /\ prefixes[Len(prefixes)] = Head(todo[w])
  BY <1>0, <1>1, <1>2 DEF ListsInv, ListsInHand, StoreTrees, ServerTypeOK
<1>5. /\ Len(trees) \in Nat /\ Len(trees') = Len(trees) + 1
      /\ trees'[Len(trees) + 1] = root
      /\ \A i \in 1 .. Len(trees) : trees'[i] = trees[i]
  <2> HIDE DEF root
  <2> QED
    BY <1>4, AppendProperties, LenProperties
<1>6. Older' = Older /\ Older \in Int /\ Older >= 0
      /\ Len(newLists) \in Nat /\ appended \in Nat /\ appended <= Len(newLists)
      /\ Older + Len(newLists) <= Len(trees)
  <2>1. Older' = Len(trees) + 1 - Len(newLists) - 1 /\ Older = Len(trees) - Len(newLists) - 0
    BY <1>1, <1>2, <1>3, <1>5 DEF Older
  <2>2. Older >= 0
    BY DEF ListsInv, NewAreLast
  <2> QED
    BY <1>0, <1>5, <2>1, <2>2, OlderType
<1>7. ListsInHand'
  <2>1. Len(prefixes') = Len(trees')
    BY <1>1, <1>4, <1>5
  <2>2. \A v \in Workers : v # w => wpc'[v] \notin Critical
    BY <1>1, <1>2
  <2>3. /\ Len(trees') > 0
        /\ prefixes'[Len(trees')] = Head(todo'[w])
        /\ trees'[Len(trees')] = wroot'[w]
    BY <1>1, <1>4, <1>5
  <2>4. Len(trees') + 0 = Len(trees')
    BY <1>5
  <2> QED
    BY <1>1, <1>3, <2>1, <2>2, <2>3, <2>4 DEF ListsInHand, Critical
<1>8. NewAreLast'
  <2>1. \A i \in 1 .. Len(newLists) : Older + i \in 1 .. Len(trees)
    BY <1>5, <1>6
  <2> QED
    BY <1>1, <1>5, <1>6, <2>1 DEF ListsInv, NewAreLast
<1>9. TreeOfLists'
  <2>1. \A j \in 1 .. Older + appended : j \in 1 .. Len(trees)
    BY <1>5, <1>6
  <2>2. \A k \in Key : IsLast(k, leaves[k], Older + appended)
    BY <1>1 DEF ListsInv, TreeOfLists
  <2>3. \A k \in Key : IsLast(k, leaves[k], Older + appended)'
    BY <1>1, <1>5, <1>6, <2>1, <2>2 DEF IsLast
  <2> QED
    BY <1>1, <2>3 DEF TreeOfLists
<1> QED
  BY <1>3, <1>7, <1>8, <1>9 DEF ListsInv

LEMMA UnlockPreservesListsInv ==
    ASSUME ServerInv, ListsInv, NEW w \in Workers, Unlock(w), opPc = "build"
    PROVE  ListsInv'
<1> USE DEF tableVars, listVars, treeVars
<1> DEFINE new == [key |-> Head(todo[w]), root |-> wroot[w]]
<1>0. ServerTypeOK
  BY DEF ServerInv
<1>1. /\ wpc[w] = "unlock" /\ wpc'[w] \in {"done", "fetch"}
      /\ mu' = Nobody /\ opPc' = opPc
      /\ UNCHANGED <<prefixes, trees, leaves, appended, wprefixes, wtrees>>
      /\ newLists' = Append(newLists, new)
      /\ \A v \in Workers : v # w => wpc'[v] = wpc[v]
  BY <1>0 DEF Unlock, AfterThis, ServerTypeOK
<1>2. /\ mu = w /\ ~HalfStored /\ Unnoted
      /\ \A v \in Workers : v # w => wpc[v] \notin Critical
  BY <1>1, HolderDecides DEF ListsInv, Critical
<1>3. \A v \in Workers : wpc'[v] \notin Critical
  BY <1>1, <1>2 DEF Critical
<1>4. Exclusive' /\ ~HalfStored' /\ ~Unnoted'
  BY <1>1, <1>3, NobodyIsFree DEF Exclusive, HalfStored, Unnoted, Critical
<1>5. new \in Lists /\ newLists \in Seq(Lists)
  BY <1>0, <1>1, HeadTail DEF Lists, ServerTypeOK
<1>6. /\ Len(newLists) \in Nat /\ Len(newLists') = Len(newLists) + 1
      /\ newLists'[Len(newLists) + 1] = new
      /\ \A i \in 1 .. Len(newLists) : newLists'[i] = newLists[i]
  <2> HIDE DEF new
  <2> QED
    BY <1>1, <1>5, AppendProperties, LenProperties
<1>7. /\ Len(trees) \in Nat /\ Older' = Older /\ Older \in Int /\ Older >= 0
      /\ Older + (Len(newLists) + 1) = Len(trees)
  <2>1. Older' = Len(trees) - (Len(newLists) + 1) - 0 /\ Older = Len(trees) - Len(newLists) - 1
    BY <1>1, <1>2, <1>4, <1>6 DEF Older
  <2>2. Older >= 0
    BY DEF ListsInv, NewAreLast
  <2> QED
    BY <1>0, <1>6, <2>1, <2>2, OlderType
<1>8. ListsInHand'
  BY <1>1, <1>2, <1>3, <1>4 DEF ListsInv, ListsInHand, Critical
<1>9. NewAreLast'
  <2>1. prefixes[Len(trees)] = new.key /\ trees[Len(trees)] = new.root
    BY <1>1 DEF ListsInv, ListsInHand
  <2>2. ASSUME NEW i \in 1 .. Len(newLists')
        PROVE  prefixes[Older + i] = newLists'[i].key /\ trees[Older + i] = newLists'[i].root
    <3> HIDE DEF new
    <3>1. CASE i \in 1 .. Len(newLists)
      BY <1>6, <3>1 DEF ListsInv, NewAreLast
    <3>2. CASE i = Len(newLists) + 1
      BY <1>6, <1>7, <2>1, <3>2
    <3> QED
      BY <1>6, <3>1, <3>2
  <2> QED
    BY <1>1, <1>7, <2>2 DEF NewAreLast
<1>10. TreeOfLists'
  BY <1>1, <1>7 DEF ListsInv, TreeOfLists, IsLast
<1> QED
  BY <1>4, <1>8, <1>9, <1>10 DEF ListsInv

LEMMA ServerStepListsInv ==
    ASSUME TreeInv, ListsInv, [ServerNext]_serverVars
    PROVE  ListsInv'
<1>0. ServerInv /\ ServerTypeOK /\ TreeInv'
  BY ServerStepInv DEF TreeInv, ServerInv
<1>1. CASE NewCall \/ OperatorStep
  BY <1>0, <1>1, OperatorPreservesListsInv
<1>2. ASSUME NEW w \in Workers, WorkerStep(w)
      PROVE  ListsInv'
  <2>1. opPc = "build" /\ opPc' = opPc
    BY <1>2 DEF WorkerStep, Fetch, Lock, ReadPrefixes, StorePrefixes, ReadTrees,
                StoreTrees, Unlock, TreeInv, OnlyWithinCall, callVars
  <2> QED
    BY <1>0, <1>2, <2>1, ReadingPreservesListsInv, StorePrefixesPreservesListsInv,
       StoreTreesPreservesListsInv, UnlockPreservesListsInv DEF WorkerStep
<1>3. CASE Crash
  <2>1. /\ \A w \in Workers : wpc'[w] = "done"
        /\ prefixes' = <<>> /\ trees' = <<>> /\ newLists' = <<>>
        /\ leaves' = NoLeaves /\ mu' = Nobody /\ appended' = 0 /\ opPc' = "idle"
    BY <1>3 DEF Crash, NoWork
  <2>2. Len(<<>>) = 0
    BY EmptySeq
  <2>3. ~HalfStored' /\ ~Unnoted' /\ Exclusive'
    BY <2>1, NobodyIsFree DEF HalfStored, Unnoted, Exclusive, Critical
  <2>4. Older' = 0
    <3>1. Len(trees') = 0 /\ Len(newLists') = 0
      BY <2>1, <2>2
    <3>2. Older' = 0 - 0 - 0
      BY <2>3, <3>1 DEF Older
    <3> QED
      BY <3>2
  <2>5. ListsInHand'
    BY <2>1, <2>2, <2>3 DEF ListsInHand
  <2>6. NewAreLast' /\ TreeOfLists'
    BY <2>1, <2>2, <2>4 DEF NewAreLast, TreeOfLists, IsLast, NoLeaves
  <2> QED
    BY <2>3, <2>5, <2>6 DEF ListsInv
<1>4. CASE UNCHANGED serverVars
  BY <1>4, ListsFrame DEF serverVars, workVars
<1> QED
  BY <1>1, <1>2, <1>3, <1>4 DEF ServerNext, ServerStep

-----------------------------------------------------------------------------
(* What the properties say follows. *)

LEMMA ListsServerInv == ServerSpec => [](TreeInv /\ ListsInv)
<1>1. ServerInit => TreeInv /\ ListsInv
  BY TreeInitInv, ListsInitInv
<1>2. TreeInv /\ ListsInv /\ [ServerNext]_serverVars => TreeInv' /\ ListsInv'
  BY ServerStepInv, ServerStepListsInv
<1> QED
  BY <1>1, <1>2, PTL DEF ServerSpec

LEMMA InvImpliesListed ==
    ASSUME TreeInv, ListsInv
    PROVE  EveryLeafIsListed
<1> SUFFICES ASSUME NEW k \in Key, leaves[k] # {}
             PROVE  \E i \in DOMAIN prefixes \cap DOMAIN trees :
                        prefixes[i] = k /\ trees[i] = leaves[k]
  BY DEF EveryLeafIsListed
<1>1. opPc # "resetTrees" /\ IsLast(k, leaves[k], Older + appended)
  BY DEF ListsInv, TreeOfLists, NoLeaves
<1>2. PICK i \in 1 .. Older + appended : prefixes[i] = k /\ trees[i] = leaves[k]
  BY <1>1 DEF IsLast
<1>3. /\ Len(trees) \in Nat /\ Older \in Int /\ appended \in Nat
      /\ Older + appended <= Len(trees)
      /\ DOMAIN trees = 1 .. Len(trees) /\ DOMAIN prefixes = 1 .. Len(prefixes)
  BY OlderType, LenProperties DEF TreeInv, ServerInv, ServerTypeOK
<1>4. Len(prefixes) \in Nat /\ Len(prefixes) >= Len(trees)
  <2>1. Len(prefixes) = Len(trees) + 0 \/ Len(prefixes) = Len(trees) + 1
    BY <1>1 DEF ListsInv, ListsInHand
  <2>2. Len(trees) \in Nat
    BY <1>3
  <2> QED
    BY <2>1, <2>2
<1>5. i \in DOMAIN prefixes \cap DOMAIN trees
  BY <1>3, <1>4
<1> QED
  BY <1>2, <1>5

LEMMA InvImpliesAgreement ==
    ASSUME TreeInv, ListsInv
    PROVE  ListsAgreeWithTree
<1> SUFFICES ASSUME opPc = "idle"
             PROVE  /\ Len(prefixes) = Len(trees)
                    /\ \A k \in Key : rootHash[k] = ListedLast(k)
  BY DEF ListsAgreeWithTree
<1>1. newLists = <<>> /\ \A w \in Workers : wpc[w] = "done"
  BY DEF TreeInv, OnlyWithinCall
<1>2. ServerTypeOK /\ Len(newLists) = 0
  BY <1>1, EmptySeq DEF TreeInv, ServerInv
<1>3. /\ Len(prefixes) \in Nat /\ Len(trees) \in Nat /\ appended = 0
      /\ Len(prefixes) = Len(trees) /\ Older + appended = Len(prefixes)
  BY <1>1, <1>2, OlderType, NobodyAtWork DEF ListsInv, ListsInHand
<1>4. ASSUME NEW k \in Key
      PROVE  rootHash[k] = ListedLast(k)
  <2>1. rootHash[k] = leaves[k]
    BY DEF TreeInv, HashOfOthers, Stale
  <2>2. IsLast(k, leaves[k], Len(prefixes))
    BY <1>3 DEF ListsInv, TreeOfLists
  <2> QED
    BY <1>2, <2>1, <2>2, IsLastListed
<1> QED
  BY <1>3, <1>4

\* A leaf is in the lists at every moment, whatever order the goroutines
\* filled them in: AddToTree fills them before the tree, InitializeTree
\* empties them after it.
THEOREM EveryLeafListed == ServerSpec => []EveryLeafIsListed
BY ListsServerInv, InvImpliesListed, PTL

\* Between calls the lists and the tree agree: the last entry for a prefix,
\* whichever goroutine wrote it, has the root its leaf has.
THEOREM ListsAgree == ServerSpec => []ListsAgreeWithTree
BY ListsServerInv, InvImpliesAgreement, PTL


-----------------------------------------------------------------------------
(* No empty tree is listed. *)

\* A combination of values that no row has is not listed.
NoneEmpty ==
    /\ \A i \in 1 .. Len(trees) : trees[i] # {}
    /\ \A w \in Workers : wpc[w] \notin {"done", "fetch"} => wroot[w] # {}

LEMMA NoneEmptyStep ==
    ASSUME TreeInv, ListsInv, NoneEmpty, [ServerNext]_serverVars
    PROVE  NoneEmpty'
<1> USE DEF tableVars, listVars, treeVars, callVars, workVars
<1>0. ServerTypeOK
  BY DEF TreeInv, ServerInv
<1>1. CASE Crash
  BY <1>1, EmptySeq DEF Crash, NoWork, NoneEmpty
<1>2. CASE NewCall \/ InsertBatch \/ ResetPrefixes \/ CollectTypes \/ Wait \/ Split
           \/ Attach \/ Rehash \/ Return \/ UNCHANGED serverVars
  <2>1. trees' = trees /\ wpc' = wpc /\ wroot' = wroot
    BY <1>2 DEF NewCall, AddToSqlTable, InitializeSqlTable, AddToTree, InitializeTree,
                InsertBatch, ResetPrefixes, CollectTypes, Wait, Split, Attach, Rehash,
                Return, serverVars
  <2> QED
    BY <2>1 DEF NoneEmpty
<1>3. CASE ResetTrees
  BY <1>3, EmptySeq DEF ResetTrees, NoneEmpty
<1>4. CASE Launch
  BY <1>4 DEF Launch, NoneEmpty
<1>5. ASSUME NEW w \in Workers, StoreTrees(w)
      PROVE  NoneEmpty'
  <2>1. /\ wpc[w] = "storeTrees" /\ wroot' = wroot /\ wtrees[w] = trees
        /\ trees' = Append(trees, wroot[w])
        /\ \A v \in Workers : v # w => wpc'[v] = wpc[v]
    BY <1>0, <1>5 DEF StoreTrees, ListsInv, ListsInHand, ServerTypeOK
  <2>2. trees \in Seq(SUBSET Rows) /\ wroot[w] \in SUBSET Rows /\ wroot[w] # {}
    BY <1>0, <2>1 DEF NoneEmpty, ServerTypeOK
  <2>3. /\ Len(trees') = Len(trees) + 1 /\ Len(trees) \in Nat
        /\ trees'[Len(trees) + 1] = wroot[w]
        /\ \A i \in 1 .. Len(trees) : trees'[i] = trees[i]
    BY <2>1, <2>2, AppendProperties, LenProperties
  <2>4. \A i \in 1 .. Len(trees') : i \in 1 .. Len(trees) \/ i = Len(trees) + 1
    BY <2>3
  <2> QED
    BY <2>1, <2>2, <2>3, <2>4 DEF NoneEmpty
<1>6. ASSUME NEW w \in Workers, WorkerStep(w), ~ StoreTrees(w)
      PROVE  NoneEmpty'
  <2>1. /\ trees' = trees
        /\ \A v \in Workers : v # w => wpc'[v] = wpc[v] /\ wroot'[v] = wroot[v]
    BY <1>0, <1>6 DEF WorkerStep, Fetch, Lock, ReadPrefixes, StorePrefixes, ReadTrees,
                      Unlock, ServerTypeOK
  <2>2. wpc'[w] \notin {"done", "fetch"} => wroot'[w] # {}
    <3>1. CASE Fetch(w)
      BY <1>0, <3>1 DEF Fetch, AfterThis, ServerTypeOK
    <3>2. CASE Unlock(w)
      BY <1>0, <3>2 DEF Unlock, AfterThis, ServerTypeOK
    <3>3. CASE Lock(w) \/ ReadPrefixes(w) \/ StorePrefixes(w) \/ ReadTrees(w)
      BY <1>0, <3>3 DEF Lock, ReadPrefixes, StorePrefixes, ReadTrees, NoneEmpty,
                        ServerTypeOK
    <3> QED
      BY <1>6, <3>1, <3>2, <3>3 DEF WorkerStep
  <2> QED
    BY <2>1, <2>2 DEF NoneEmpty
<1> QED
  BY <1>1, <1>2, <1>3, <1>4, <1>5, <1>6 DEF ServerNext, ServerStep, OperatorStep

\* A prefix that is listed once is listed with the root of its leaf.
LEMMA OnceListed ==
    ASSUME TreeInv, ListsInv, NoneEmpty, opPc = "idle",
           \A i, j \in DOMAIN prefixes : prefixes[i] = prefixes[j] => i = j,
           NEW i \in 1 .. Len(prefixes)
    PROVE  /\ prefixes[i] \in Key /\ trees[i] # {}
           /\ trees[i] = rootHash[prefixes[i]]
<1>1. /\ Len(prefixes) = Len(trees) /\ \A k \in Key : rootHash[k] = ListedLast(k)
      /\ prefixes \in Seq(Key)
  BY InvImpliesAgreement DEF ListsAgreeWithTree, TreeInv, ServerInv, ServerTypeOK
<1>2. Len(prefixes) \in Nat /\ DOMAIN prefixes = 1 .. Len(prefixes)
  BY <1>1, LenProperties
<1> DEFINE k == prefixes[i]
           at == {j \in DOMAIN prefixes : prefixes[j] = k}
<1>3. k \in Key /\ trees[i] # {}
  BY <1>1, <1>2, ElementOfSeq DEF NoneEmpty
<1>4. at = {i}
  BY <1>2
<1>5. ListedLast(k) = trees[i]
  <2>1. (CHOOSE h \in at : \A j \in at : j <= h) = i
    <3> HIDE DEF at
    <3> QED
      BY <1>2, <1>4
  <2> QED
    BY <1>4, <2>1 DEF ListedLast
<1> QED
  BY <1>1, <1>3, <1>5


-----------------------------------------------------------------------------
(* Every prefix of the range gets a goroutine. *)

\* An order lists every member of its set.
LEMMA OrderListsAll ==
    ASSUME NEW S, IsFiniteSet(S), NEW s \in OrdersOf(S), NEW x \in S
    PROVE  \E i \in 1 .. Cardinality(S) : s[i] = x
<1> DEFINE D == 1 .. Cardinality(S)
<1>1. Cardinality(S) \in Nat
  BY FS_CardinalityType
<1>2. IsFiniteSet(D) /\ Cardinality(D) = Cardinality(S)
  BY <1>1, FS_Interval
<1>3. s \in Injection(D, S)
  BY DEF OrdersOf, Injection, IsInjective
<1>4. s \in Surjection(D, S)
  <2> HIDE DEF D
  <2> QED
    BY <1>2, <1>3, FS_Injection
<1> QED
  BY <1>4 DEF Surjection

LEMMA ShareBounds ==
    ASSUME NEW n \in Nat \ {0}, NEW i \in 1 .. n
    PROVE  \E w \in Workers :
               LET l == CeilDiv(n, MaxThreads)
               IN  l \in Nat /\ w * l + 1 <= i /\ i <= (w + 1) * l
<1> DEFINE l == CeilDiv(n, MaxThreads)
           w == (i - 1) \div l
<1>1. l \in Nat /\ n <= l * MaxThreads /\ l # 0 /\ MaxThreads \in Nat \ {0}
  <2> DEFINE q == (n + MaxThreads - 1) \div MaxThreads
  <2>1. n + MaxThreads - 1 \in Nat /\ MaxThreads \in Nat \ {0}
    BY BoundsAssumption
  <2>2. q \in Nat /\ n + MaxThreads - 1 < MaxThreads * q + MaxThreads
    <3> DEFINE a == n + MaxThreads - 1
    <3> HIDE DEF a
    <3>1. a \in Nat
      BY <2>1 DEF a
    <3>2. a \div MaxThreads \in Nat /\ a < MaxThreads * (a \div MaxThreads) + MaxThreads
      BY <2>1, <3>1
    <3> QED
      BY <3>2 DEF a
  <2>3. l = q
    BY DEF CeilDiv
  <2> HIDE DEF q, l
  <2>4. n <= q * MaxThreads
    BY <2>1, <2>2
  <2>5. q # 0
    BY <2>1, <2>4
  <2> QED
    BY <2>1, <2>2, <2>3, <2>4, <2>5
<1> HIDE DEF l
<1>2. w \in Nat /\ l * w <= i - 1 /\ i - 1 < l * w + l
  <2> DEFINE a == i - 1
  <2>1. a \in Nat
    OBVIOUS
  <2> HIDE DEF a
  <2>2. a \div l \in Nat /\ l * (a \div l) <= a /\ a < l * (a \div l) + l
    BY <1>1, <2>1
  <2> QED
    BY <2>2 DEF a
<1> HIDE DEF w
<1>3. w < MaxThreads
  <2>1. ASSUME MaxThreads <= w PROVE FALSE
    <3>1. l * MaxThreads <= l * w
      BY <1>1, <1>2, <2>1
    <3>2. l * MaxThreads \in Nat /\ l * w \in Nat
      BY <1>1, <1>2
    <3> QED
      BY <1>1, <1>2, <3>1, <3>2
  <2> QED
    BY <1>1, <1>2, <2>1
<1>4. w * l + 1 <= i /\ i <= (w + 1) * l
  BY <1>1, <1>2
<1>5. w \in Workers
  BY <1>1, <1>2, <1>3 DEF Workers
<1> QED
  BY <1>1, <1>4, <1>5 DEF l

\* The shares of the goroutines leave no prefix out.
LEMMA ChunksCover ==
    ASSUME NEW s \in Seq(Key), NEW i \in 1 .. Len(s)
    PROVE  \E w \in Workers : \E j \in 1 .. Len(Chunk(s, w)) : Chunk(s, w)[j] = s[i]
<1> DEFINE l == CeilDiv(Len(s), MaxThreads)
<1>1. Len(s) \in Nat \ {0}
  BY LenProperties
<1>2. PICK w \in Workers : l \in Nat /\ w * l + 1 <= i /\ i <= (w + 1) * l
  BY <1>1, ShareBounds
<1> DEFINE lo == w * l + 1
           hi == SmallerOf((w + 1) * l, Len(s))
<1>3. w \in Nat
  BY BoundsAssumption DEF Workers
<1> HIDE DEF l
<1>4. w * l \in Nat /\ (w + 1) * l \in Nat
  BY <1>2, <1>3
<1>5. lo \in Int /\ hi \in Int /\ lo >= 1 /\ hi <= Len(s) /\ lo <= i /\ i <= hi
  BY <1>1, <1>2, <1>4 DEF SmallerOf
<1>6. Chunk(s, w) = SubSeq(s, lo, hi)
  BY DEF Chunk, l
<1> HIDE DEF lo, hi
<1>7. \A h \in lo .. hi : s[h] \in Key
  <2> TAKE h \in lo .. hi
  <2>1. h \in 1 .. Len(s)
    BY <1>1, <1>5
  <2> QED
    BY <2>1, ElementOfSeq
<1>8. /\ Len(SubSeq(s, lo, hi)) = hi - lo + 1
      /\ \A h \in 1 .. hi - lo + 1 : SubSeq(s, lo, hi)[h] = s[lo + h - 1]
  BY <1>5, <1>7, SubSeqProperties
<1> DEFINE j == i - lo + 1
<1>9. j \in 1 .. hi - lo + 1 /\ lo + j - 1 = i
  BY <1>1, <1>5
<1> HIDE DEF j
<1> QED
  BY <1>6, <1>8, <1>9


-----------------------------------------------------------------------------
(* FullInv is inductive. *)

LEMMA FullInitInv == ServerInit => FullInv
<1> SUFFICES ASSUME ServerInit PROVE FullInv
  OBVIOUS
<1>1. DoneIsEmpty /\ TakenOrDone
  BY DEF ServerInit, DoneIsEmpty, TakenOrDone, Adding
<1>2. AppendedAreLeaves
  BY DEF ServerInit, AppendedAreLeaves
<1> QED
  BY <1>1, <1>2 DEF FullInv

\* Steps outside AddToTree, and those within that change no list of work.
LEMMA FullFrame ==
    ASSUME FullInv, UNCHANGED <<todo, wpc, newLists, appended>>,
           opPc' # "times",
           Adding' => Adding /\ db' = db /\ opRange' = opRange,
           \A i \in 1 .. appended : leaves'[newLists[i].key] = newLists[i].root
    PROVE  FullInv'
<1>1. DoneIsEmpty' /\ AppendedAreLeaves'
  BY DEF FullInv, DoneIsEmpty, AppendedAreLeaves
<1>2. TakenOrDone'
  BY DEF FullInv, TakenOrDone, InTodo, InNew, RowsAt
<1> QED
  BY <1>1, <1>2 DEF FullInv

LEMMA LaunchPreservesFullInv ==
    ASSUME TreeInv, TreeInv', FullInv, Launch
    PROVE  FullInv'
<1> USE DEF tableVars, listVars, treeVars
<1>1. /\ opPc = "times" /\ opPc' = "build" /\ db' = db /\ opRange' = opRange
      /\ UNCHANGED <<leaves, newLists, appended>>
      /\ newLists = <<>>
  BY DEF Launch, TreeInv, OnlyWithinCall
<1>2. ServerTypeOK
  BY DEF TreeInv, ServerInv
<1> DEFINE S == UniqueTimesIn(opRange) \X uniqueTypes
<1>3. PICK s \in OrdersOf(S) :
          /\ todo' = [w \in Workers |-> Chunk(s, w)]
          /\ wpc' = [w \in Workers |-> IF todo'[w] = <<>> THEN "done" ELSE "fetch"]
  BY DEF Launch
<1>4. UniqueTimesIn(opRange) \in SUBSET Times /\ uniqueTypes \in SUBSET Types
  BY <1>2, RangesAssumption DEF UniqueTimesIn, ServerTypeOK
<1>5. s \in Seq(Key) /\ IsFiniteSet(S) /\ Len(s) = Cardinality(S)
  <2>1. s \in Seq(Key)
    BY <1>4, OrdersType
  <2>2. IsFiniteSet(S)
    BY <1>4, DomainsAssumption, FS_Subset, FS_Product
  <2>3. Cardinality(S) \in Nat /\ DOMAIN s = 1 .. Cardinality(S)
    <3> HIDE DEF S
    <3> QED
      BY <2>2, FS_CardinalityType DEF OrdersOf
  <2>4. Len(s) = Cardinality(S)
    <3> HIDE DEF S
    <3> QED
      BY <2>1, <2>3, LenProperties
  <2> QED
    BY <2>1, <2>2, <2>4
<1>6. DoneIsEmpty'
  BY <1>3 DEF DoneIsEmpty
<1>7. ASSUME NEW k \in Key, InRange(k, opRange), RowsAt(k) # {}
      PROVE  InTodo(k)'
  <2>1. k \in S
    <3>1. PICK r \in db : r.key = k
      BY <1>7 DEF RowsAt
    <3>2. k[1] \in UniqueTimesIn(opRange) /\ k[2] \in uniqueTypes
      BY <1>1, <1>7, <3>1 DEF InRange, UniqueTimesIn, UniqueTypesIn, FullInv, TakenOrDone
    <3> QED
      BY <3>2 DEF Key
  <2> HIDE DEF S
  <2>2. PICK i \in 1 .. Len(s) : s[i] = k
    BY <1>3, <1>5, <2>1, OrderListsAll
  <2>3. PICK w \in Workers : \E j \in 1 .. Len(Chunk(s, w)) : Chunk(s, w)[j] = k
    BY <1>5, <2>2, ChunksCover
  <2>4. todo'[w] = Chunk(s, w)
    BY <1>3
  <2> QED
    BY <2>3, <2>4 DEF InTodo
<1>8. TakenOrDone'
  BY <1>1, <1>7 DEF TakenOrDone, RowsAt
<1>9. AppendedAreLeaves'
  BY <1>1 DEF FullInv, AppendedAreLeaves
<1> QED
  BY <1>6, <1>8, <1>9 DEF FullInv

LEMMA AttachPreservesFullInv ==
    ASSUME TreeInv, FullInv, Attach
    PROVE  FullInv'
<1> USE DEF tableVars, listVars
<1> DEFINE new == newLists[appended + 1]
<1>1. /\ UNCHANGED <<todo, wpc, newLists, db, opRange>>
      /\ opPc \in {"attach", "split"} /\ opPc' = "rehash"
      /\ appended < Len(newLists) /\ appended' = appended + 1
      /\ leaves' = [leaves EXCEPT ![new.key] = new.root]
  BY DEF Attach, workVars
<1>2. ServerTypeOK /\ appended \in Nat /\ Len(newLists) \in Nat
  BY OlderType DEF TreeInv, ServerInv
<1>3. DoneIsEmpty'
  BY <1>1 DEF FullInv, DoneIsEmpty
<1>4. TakenOrDone'
  BY <1>1 DEF FullInv, TakenOrDone, Adding, InTodo, InNew, RowsAt
<1>5. AppendedAreLeaves'
  <2> SUFFICES ASSUME NEW i \in 1 .. appended + 1
               PROVE  leaves'[newLists[i].key] = newLists[i].root
    BY <1>1 DEF AppendedAreLeaves
  <2>1. i \in 1 .. Len(newLists) /\ appended + 1 \in 1 .. Len(newLists)
    BY <1>1, <1>2
  <2>2. newLists[i] \in Lists /\ new \in Lists
    BY <1>2, <2>1, ElementOfSeq DEF ServerTypeOK
  <2>3. leaves'[newLists[i].key] =
            IF newLists[i].key = new.key THEN new.root ELSE leaves[newLists[i].key]
    BY <1>1, <1>2, <2>2 DEF ServerTypeOK, Lists
  <2>4. CASE newLists[i].key = new.key
    <3>1. newLists[i].root = RowsAt(newLists[i].key) /\ new.root = RowsAt(new.key)
      BY <2>1 DEF TreeInv, Fresh
    <3> QED
      BY <2>3, <2>4, <3>1
  <2>5. CASE newLists[i].key # new.key
    <3>1. i \in 1 .. appended
      BY <1>2, <2>5
    <3> QED
      BY <2>3, <2>5, <3>1 DEF FullInv, AppendedAreLeaves
  <2> QED
    BY <2>4, <2>5
<1> QED
  BY <1>3, <1>4, <1>5 DEF FullInv

LEMMA OperatorPreservesFullInv ==
    ASSUME TreeInv, TreeInv', FullInv, NewCall \/ OperatorStep
    PROVE  FullInv'
<1> USE DEF tableVars, listVars, treeVars, workVars
<1>1. CASE AddToSqlTable \/ InitializeSqlTable \/ AddToTree \/ InitializeTree
           \/ InsertBatch \/ ResetPrefixes \/ ResetTrees
  <2>1. /\ UNCHANGED <<todo, wpc, newLists, appended>>
        /\ opPc \notin {"build", "attach", "split", "rehash"}
        /\ opPc' \notin {"times", "build", "attach", "split", "rehash"}
    BY <1>1 DEF AddToSqlTable, InitializeSqlTable, AddToTree, InitializeTree,
                InsertBatch, ResetPrefixes, ResetTrees, Issue
  <2>2. newLists = <<>>
    BY <2>1 DEF TreeInv, OnlyWithinCall
  <2>3. appended = 0
    BY <2>2, EmptySeq, OlderType DEF TreeInv, ServerInv
  <2> QED
    BY <2>1, <2>3, FullFrame DEF Adding
<1>2. CASE CollectTypes
  <2>1. DoneIsEmpty' /\ AppendedAreLeaves'
    BY <1>2 DEF CollectTypes, FullInv, DoneIsEmpty, AppendedAreLeaves
  <2>2. TakenOrDone'
    BY <1>2 DEF CollectTypes, TakenOrDone, Adding, UniqueTypesIn
  <2> QED
    BY <2>1, <2>2 DEF FullInv
<1>3. CASE Wait \/ Split \/ Rehash
  <2>1. /\ UNCHANGED <<todo, wpc, newLists, appended, leaves, db, opRange>>
        /\ opPc \in {"build", "attach", "split", "rehash"} /\ opPc' # "times"
    BY <1>3 DEF Wait, Split, Rehash
  <2> QED
    BY <2>1, FullFrame DEF Adding, FullInv, AppendedAreLeaves
<1>4. CASE Return
  <2>1. /\ UNCHANGED <<todo, wpc>> /\ opPc' = "idle"
        /\ newLists' = <<>> /\ appended' = 0
    BY <1>4 DEF Return
  <2> QED
    BY <2>1 DEF FullInv, DoneIsEmpty, TakenOrDone, Adding, AppendedAreLeaves
<1> QED
  BY <1>1, <1>2, <1>3, <1>4, LaunchPreservesFullInv, AttachPreservesFullInv
     DEF NewCall, OperatorStep


\* Work that is dropped from a list of work is its first prefix.
LEMMA TailKeepsOthers ==
    ASSUME ServerInv, NEW w \in Workers, wpc[w] # "done",
           todo' = [todo EXCEPT ![w] = Tail(todo[w])],
           NEW k \in Key, k # Head(todo[w]), InTodo(k)
    PROVE  InTodo(k)'
<1>1. ServerTypeOK
  BY DEF ServerInv
<1>2. PICK v \in Workers : \E j \in 1 .. Len(todo[v]) : todo[v][j] = k
  BY DEF InTodo
<1>3. PICK j \in 1 .. Len(todo[v]) : todo[v][j] = k
  BY <1>2
<1>4. todo'[v] = IF v = w THEN Tail(todo[w]) ELSE todo[v]
  BY <1>1 DEF ServerTypeOK
<1>5. CASE v = w
  <2>1. todo[w] \in Seq(Key) /\ todo[w] # <<>>
    BY <1>1 DEF ServerInv, WorkersBusy, ServerTypeOK
  <2> DEFINE s == todo[w]
  <2> HIDE DEF s
  <2>2. /\ Head(s) = s[1] /\ Len(Tail(s)) = Len(s) - 1 /\ Len(s) \in Nat
        /\ \A i \in 1 .. Len(Tail(s)) : Tail(s)[i] = s[i + 1]
    BY <2>1, HeadTailProperties, LenProperties DEF s
  <2>3. j # 1 /\ j \in 1 .. Len(s) /\ s[j] = k
    BY <1>3, <1>5, <2>2 DEF s
  <2>4. j - 1 \in 1 .. Len(Tail(s)) /\ Tail(s)[j - 1] = s[(j - 1) + 1] /\ (j - 1) + 1 = j
    BY <2>2, <2>3
  <2> QED
    BY <1>4, <1>5, <2>3, <2>4 DEF InTodo, s
<1>6. CASE v # w
  BY <1>3, <1>4, <1>6 DEF InTodo
<1> QED
  BY <1>5, <1>6

LEMMA WorkerPreservesFullInv ==
    ASSUME TreeInv, FullInv, NEW w \in Workers, WorkerStep(w)
    PROVE  FullInv'
<1> USE DEF tableVars, listVars, treeVars, callVars
<1>0. ServerInv /\ ServerTypeOK
  BY DEF TreeInv, ServerInv
<1>1. opPc = "build" /\ opPc' = "build" /\ db' = db /\ opRange' = opRange
      /\ leaves' = leaves /\ appended' = appended /\ wpc[w] # "done"
  BY DEF WorkerStep, Fetch, Lock, ReadPrefixes, StorePrefixes, ReadTrees,
         StoreTrees, Unlock, TreeInv, OnlyWithinCall
<1>2. (\A k : RowsAt(k)' = RowsAt(k)) /\ (Adding <=> TRUE)
  BY <1>1 DEF RowsAt, Adding
<1>3. CASE Lock(w) \/ ReadPrefixes(w) \/ StorePrefixes(w) \/ ReadTrees(w) \/ StoreTrees(w)
           \/ (Fetch(w) /\ RowsAt(Head(todo[w])) # {})
  <2>1. newLists' = newLists /\ todo' = todo
        /\ \A v \in Workers : wpc'[v] = "done" => wpc[v] = "done"
    BY <1>0, <1>3 DEF Lock, ReadPrefixes, StorePrefixes, ReadTrees, StoreTrees, Fetch,
                      ServerTypeOK
  <2>2. DoneIsEmpty' /\ AppendedAreLeaves'
    BY <1>1, <2>1 DEF FullInv, DoneIsEmpty, AppendedAreLeaves
  <2>3. TakenOrDone'
    BY <1>1, <1>2, <2>1 DEF FullInv, TakenOrDone, InTodo, InNew
  <2> QED
    BY <2>2, <2>3 DEF FullInv
<1>4. ASSUME todo' = [todo EXCEPT ![w] = Tail(todo[w])],
             wpc' = [wpc EXCEPT ![w] = AfterThis(w)]
      PROVE  DoneIsEmpty'
  <2>1. \A v \in Workers : v # w => wpc'[v] = wpc[v] /\ todo'[v] = todo[v]
    BY <1>0, <1>4 DEF ServerTypeOK
  <2>2. wpc'[w] = AfterThis(w) /\ todo'[w] = Tail(todo[w])
    BY <1>0, <1>4 DEF ServerTypeOK
  <2>3. wpc'[w] = "done" => todo'[w] = <<>>
    BY <2>2 DEF AfterThis
  <2> QED
    BY <2>1, <2>3 DEF FullInv, DoneIsEmpty
<1>5. CASE Fetch(w) /\ RowsAt(Head(todo[w])) = {}
  <2>1. /\ newLists' = newLists /\ todo' = [todo EXCEPT ![w] = Tail(todo[w])]
        /\ wpc' = [wpc EXCEPT ![w] = AfterThis(w)]
    BY <1>5 DEF Fetch
  <2>2. AppendedAreLeaves'
    BY <1>1, <2>1 DEF FullInv, AppendedAreLeaves
  <2>3. ASSUME NEW k \in Key, InRange(k, opRange), RowsAt(k) # {}
        PROVE  InTodo(k)' \/ InNew(k)'
    <3>1. k # Head(todo[w])
      BY <1>5, <2>3
    <3>2. InTodo(k) \/ InNew(k)
      BY <1>1, <2>3 DEF FullInv, TakenOrDone, Adding
    <3> QED
      BY <1>0, <1>1, <2>1, <3>1, <3>2, TailKeepsOthers DEF InNew
  <2>4. TakenOrDone'
    BY <1>1, <1>2, <2>3 DEF TakenOrDone
  <2> QED
    BY <1>4, <2>1, <2>2, <2>4 DEF FullInv
<1>6. CASE Unlock(w)
  <2> DEFINE new == [key |-> Head(todo[w]), root |-> wroot[w]]
  <2>1. /\ newLists' = Append(newLists, new) /\ todo' = [todo EXCEPT ![w] = Tail(todo[w])]
        /\ wpc' = [wpc EXCEPT ![w] = AfterThis(w)]
    BY <1>6 DEF Unlock
  <2>2. new \in Lists /\ newLists \in Seq(Lists) /\ new.key = Head(todo[w])
    BY <1>0, <1>1, HeadTail DEF Lists, ServerTypeOK
  <2> HIDE DEF new
  <2>3. /\ Len(newLists) \in Nat /\ Len(newLists') = Len(newLists) + 1
        /\ newLists'[Len(newLists) + 1] = new
        /\ \A i \in 1 .. Len(newLists) : newLists'[i] = newLists[i]
    BY <2>1, <2>2, AppendProperties, LenProperties
  <2>4. AppendedAreLeaves'
    <3>1. appended \in Nat /\ appended <= Len(newLists)
      BY <1>0, OlderType
    <3>2. \A i \in 1 .. appended : i \in 1 .. Len(newLists)
      BY <2>3, <3>1
    <3> QED
      BY <1>1, <2>3, <3>2 DEF FullInv, AppendedAreLeaves
  <2>5. ASSUME NEW k \in Key, InRange(k, opRange), RowsAt(k) # {}
        PROVE  InTodo(k)' \/ InNew(k)'
    <3>1. CASE k = Head(todo[w])
      <4>1. Len(newLists) + 1 \in 1 .. Len(newLists')
        BY <2>3
      <4> QED
        BY <2>2, <2>3, <3>1, <4>1 DEF InNew
    <3>2. CASE k # Head(todo[w])
      <4>1. InTodo(k) \/ InNew(k)
        BY <1>1, <2>5 DEF FullInv, TakenOrDone, Adding
      <4>2. InTodo(k) => InTodo(k)'
        BY <1>0, <1>1, <2>1, <3>2, TailKeepsOthers
      <4>3. \A i \in 1 .. Len(newLists) : i \in 1 .. Len(newLists')
        BY <2>3
      <4>4. InNew(k) => InNew(k)'
        BY <2>3, <4>3 DEF InNew
      <4> QED
        BY <4>1, <4>2, <4>4
    <3> QED
      BY <3>1, <3>2
  <2>6. TakenOrDone'
    BY <1>1, <1>2, <2>5 DEF TakenOrDone
  <2> QED
    BY <1>4, <2>1, <2>4, <2>6 DEF FullInv
<1> QED
  BY <1>3, <1>5, <1>6 DEF WorkerStep

LEMMA ServerStepFullInv ==
    ASSUME TreeInv, FullInv, [ServerNext]_serverVars
    PROVE  FullInv'
<1>1. CASE NewCall \/ OperatorStep
  BY <1>1, ServerStepInv, OperatorPreservesFullInv
<1>2. CASE \E w \in Workers : WorkerStep(w)
  BY <1>2, WorkerPreservesFullInv
<1>3. CASE Crash
  BY <1>3 DEF Crash, NoWork, FullInv, DoneIsEmpty, TakenOrDone, Adding, AppendedAreLeaves
<1>4. CASE UNCHANGED serverVars
  <2>1. DoneIsEmpty' /\ AppendedAreLeaves'
    BY <1>4 DEF serverVars, FullInv, DoneIsEmpty, AppendedAreLeaves
  <2>2. TakenOrDone'
    BY <1>4 DEF serverVars, FullInv, TakenOrDone, Adding, InTodo, InNew, RowsAt,
                UniqueTypesIn
  <2> QED
    BY <2>1, <2>2 DEF FullInv
<1> QED
  BY <1>1, <1>2, <1>3, <1>4 DEF ServerNext, ServerStep

LEMMA InvImpliesFull ==
    ASSUME TreeInv, FullInv
    PROVE  AddedInFull
<1> SUFFICES ASSUME opPc = "attach", appended = Len(newLists),
                    NEW k \in Key, InRange(k, opRange), RowsAt(k) # {}
             PROVE  leaves[k] = RowsAt(k)
  BY DEF AddedInFull
<1>1. \A w \in Workers : todo[w] = <<>>
  BY DEF TreeInv, OnlyWithinCall, FullInv, DoneIsEmpty
<1>2. ~InTodo(k)
  BY <1>1, EmptySeq DEF InTodo
<1>3. PICK i \in 1 .. Len(newLists) : newLists[i].key = k
  BY <1>2 DEF FullInv, TakenOrDone, Adding, InNew
<1>4. leaves[k] = newLists[i].root
  BY <1>3 DEF FullInv, AppendedAreLeaves
<1>5. newLists[i].root = RowsAt(k)
  BY <1>3 DEF TreeInv, Fresh
<1> QED
  BY <1>4, <1>5

\* No prefix gets lost between the SQL query and the tree: when AddToTree
\* is about to return, each prefix of its range that has rows has a leaf
\* for exactly these, whatever order the query listed them in and however
\* the goroutines' steps interleaved.
THEOREM AddedFull == ServerSpec => []AddedInFull
<1>1. ServerInit => TreeInv /\ FullInv
  BY TreeInitInv, FullInitInv
<1>2. TreeInv /\ FullInv /\ [ServerNext]_serverVars => TreeInv' /\ FullInv'
  BY ServerStepInv, ServerStepFullInv
<1>3. TreeInv /\ FullInv => AddedInFull
  BY InvImpliesFull
<1> QED
  BY <1>1, <1>2, <1>3, PTL DEF ServerSpec

=============================================================================
