-------------------------- MODULE TapAuditor_proofs --------------------------
(***************************************************************************)
(* Proofs about the audits: one that nothing disturbs succeeds, and one of *)
(* the sum trees that succeeds vouches for the rows, disturbed or not.     *)
(***************************************************************************)
EXTENDS TapAuditor, TapServer_proofs

-----------------------------------------------------------------------------
(* Type correctness *)

LEMMA EntryType ==
    ASSUME ServerTypeOK, NEW i \in Nat \ {0}, NEW rg, ~ EntryMissing(i, rg)
    PROVE  EntryIn(i, rg) \in SUBSET [at : Nat, key : Key, root : SUBSET Rows]
<1>1. CASE ~InRange(prefixes[i], rg)
  BY <1>1 DEF EntryIn
<1>2. CASE InRange(prefixes[i], rg)
  <2>1. i \in 1 .. Len(prefixes) /\ i \in 1 .. Len(trees)
    BY <1>2, LenProperties DEF EntryMissing, ServerTypeOK
  <2>2. prefixes[i] \in Key /\ trees[i] \in SUBSET Rows
    BY <2>1, ElementOfSeq DEF ServerTypeOK
  <2> QED
    BY <1>2, <2>2 DEF EntryIn
<1> QED
  BY <1>1, <1>2

LEMMA AuditInitType == AInit => AuditTypeOK
<1> SUFFICES ASSUME AInit PROVE AuditTypeOK
  OBVIOUS
<1>1. NoLeaves \in [Key -> SUBSET Rows] /\ 0 \in 0 .. MaxCalls
  BY BoundsAssumption DEF NoLeaves
<1> QED
  BY <1>1 DEF AInit, AuditInit, AuditTypeOK

LEMMA AuditStepType ==
    ASSUME ServerTypeOK, AuditTypeOK, AuditNext
    PROVE  AuditTypeOK'
<1> USE DEF AuditTypeOK
<1>1. NoLeaves \in [Key -> SUBSET Rows] /\ 0 \in 0 .. MaxCalls
  BY BoundsAssumption DEF NoLeaves
<1>2. CASE CheckPrefixTree \/ CheckAllCommitTrees
  <2>1. since' \in [calls : 0 .. MaxCalls, idle : BOOLEAN]
    <3>1. (opPc = "idle") \in BOOLEAN /\ calls \in 0 .. MaxCalls
      BY DEF ServerTypeOK
    <3>2. since' = [calls |-> calls, idle |-> opPc = "idle"]
      BY <1>2 DEF CheckPrefixTree, CheckAllCommitTrees, Begin
    <3> QED
      BY <3>1, <3>2, Zenon
  <2>2. root' \in [Key -> SUBSET Rows]
    BY <1>2 DEF CheckPrefixTree, CheckAllCommitTrees, ServerTypeOK
  <2> QED
    BY <1>2, <2>1, <2>2 DEF CheckPrefixTree, CheckAllCommitTrees, Begin
<1>3. CASE RequestList
  BY <1>3, LenProperties DEF RequestList, ServerTypeOK
<1>4. CASE ReceiveList
  <2>1. CASE stage = "new" \/ \E i \in 1 .. listLen : EntryMissing(i, FullRange)
    BY <1>4, <2>1 DEF ReceiveList
  <2>2. CASE ~(stage = "new" \/ \E i \in 1 .. listLen : EntryMissing(i, FullRange))
    <3>1. \A i \in 1 .. listLen :
              EntryIn(i, FullRange) \in SUBSET [at : Nat, key : Key, root : SUBSET Rows]
      <4> TAKE i \in 1 .. listLen
      <4>1. i \in Nat \ {0}
        OBVIOUS
      <4> QED
        BY <2>2, <4>1, EntryType
    <3>2. Entries \in SUBSET [at : Nat, key : Key, root : SUBSET Rows]
      <4> DEFINE E == [at : Nat, key : Key, root : SUBSET Rows]
      <4> HIDE DEF E
      <4>1. \A i \in 1 .. listLen : EntryIn(i, FullRange) \in SUBSET E
        BY <3>1 DEF E
      <4>2. Entries \in SUBSET E
        BY <4>1 DEF Entries
      <4> QED
        BY <4>2 DEF E
    <3> QED
      BY <1>4, <2>2, <3>2 DEF ReceiveList
  <2> QED
    BY <2>1, <2>2
<1>5. CASE CompareRoot \/ AllChecked
  BY <1>5 DEF CompareRoot, AllChecked
<1>6. CASE CheckCommitTree
  BY <1>6 DEF CheckCommitTree
<1>7. CASE CheckCommitTreeOfNew
  BY <1>7 DEF CheckCommitTreeOfNew
<1>8. CASE ForgetAudit
  BY <1>1, <1>8 DEF ForgetAudit
<1> QED
  BY <1>2, <1>3, <1>4, <1>5, <1>6, <1>7, <1>8 DEF AuditNext, AuditStep

LEMMA AuditNextType ==
    ASSUME ServerTypeOK, AuditTypeOK, [ANext]_avars
    PROVE  AuditTypeOK'
<1>1. CASE AuditNext
  BY <1>1, AuditStepType
<1>2. CASE CutAudit
  BY <1>2 DEF CutAudit, AuditTypeOK, auditVars
<1>3. CASE UNCHANGED auditVars
  BY <1>3 DEF AuditTypeOK, auditVars
<1> QED
  BY <1>1, <1>2, <1>3 DEF ANext, avars

-----------------------------------------------------------------------------
(* The server under an audit *)

\* A server step, seen by the audit: the step of a system that holds one.
LEMMA ServerUnderAudit ==
    ASSUME [ANext]_avars
    PROVE  [ServerNext]_serverVars
BY DEF ANext, avars, ServerNext

LEMMA AuditedServerInv == ASpec => [](TreeInv /\ ListsInv)
<1>1. AInit => TreeInv /\ ListsInv
  BY TreeInitInv, ListsInitInv DEF AInit
<1>2. TreeInv /\ ListsInv /\ [ANext]_avars => TreeInv' /\ ListsInv'
  BY ServerUnderAudit, ServerStepInv, ServerStepListsInv
<1> QED
  BY <1>1, <1>2, PTL DEF ASpec

LEMMA AuditTypeInv == ASpec => []AuditTypeOK
<1>1. AInit => AuditTypeOK
  BY AuditInitType
<1>2. TreeInv /\ AuditTypeOK /\ [ANext]_avars => AuditTypeOK'
  BY AuditNextType DEF TreeInv, ServerInv
<1> QED
  BY <1>1, <1>2, AuditedServerInv, PTL DEF ASpec

\* What the audit remembers of its beginning: the number of calls tells
\* whether one was issued since.
SinceInv ==
    apc # "idle" =>
        /\ since.calls <= calls
        /\ since.idle /\ since.calls = calls => opPc = "idle"

\* If nothing has been disturbed after a step of the server, the step
\* changed nothing.
LEMMA QuietServer ==
    ASSUME TreeInv, AuditTypeOK, SinceInv, apc # "idle",
           [ServerNext]_serverVars, since' = since, QuietSince'
    PROVE  UNCHANGED serverVars
<1>0. /\ ServerTypeOK /\ since.calls \in Int /\ calls \in Int
      /\ since.calls <= calls /\ since.idle /\ since.calls = calls'
  BY DEF TreeInv, ServerInv, AuditTypeOK, ServerTypeOK, SinceInv, QuietSince
<1>1. CASE Crash
  BY <1>0, <1>1 DEF Crash
<1>2. CASE NewCall
  <2>1. calls' = calls + 1
    BY <1>2 DEF NewCall, AddToSqlTable, InitializeSqlTable, AddToTree, InitializeTree, Issue
  <2> QED
    BY <1>0, <2>1
<1>3. CASE OperatorStep \/ \E w \in Workers : WorkerStep(w)
  <2>1. opPc # "idle" /\ calls' = calls
    BY <1>3 DEF OperatorStep, InsertBatch, ResetPrefixes, ResetTrees, CollectTypes,
                Launch, Wait, Split, Attach, Rehash, Return, WorkerStep, Fetch, Lock,
                ReadPrefixes, StorePrefixes, ReadTrees, StoreTrees, Unlock,
                TreeInv, OnlyWithinCall, callVars
  <2>2. opPc = "idle"
    BY <1>0, <2>1 DEF SinceInv
  <2> QED
    BY <2>1, <2>2
<1> QED
  BY <1>1, <1>2, <1>3 DEF ServerNext, ServerStep

LEMMA SinceStep ==
    ASSUME TreeInv, AuditTypeOK, SinceInv, [ANext]_avars
    PROVE  SinceInv'
<1>0. ServerTypeOK /\ calls \in Int /\ since.calls \in Int
  BY DEF TreeInv, ServerInv, ServerTypeOK, AuditTypeOK
<1>1. CASE AuditNext /\ UNCHANGED serverVars
  <2>1. CASE CheckPrefixTree \/ CheckAllCommitTrees
    <3>1. since' = [calls |-> calls, idle |-> opPc = "idle"]
      BY <2>1 DEF CheckPrefixTree, CheckAllCommitTrees, Begin
    <3>2. since'.calls = calls /\ (since'.idle <=> opPc = "idle")
      BY <3>1
    <3>3. calls' = calls /\ opPc' = opPc
      BY <1>1 DEF serverVars
    <3> QED
      BY <1>0, <3>2, <3>3 DEF SinceInv
  <2>2. CASE AuditStep
    BY <1>1, <2>2 DEF SinceInv, serverVars, AuditStep, RequestList, ReceiveList,
        CompareRoot, CheckCommitTree, CheckCommitTreeOfNew, AllChecked
  <2>3. CASE ForgetAudit
    BY <2>3 DEF SinceInv, ForgetAudit
  <2> QED
    BY <1>1, <2>1, <2>2, <2>3 DEF AuditNext
<1>2. CASE Crash /\ CutAudit
  <2>1. since' = since /\ calls' = calls + 1 /\ (apc' # "idle" => apc # "idle")
    BY <1>2 DEF Crash, CutAudit, auditVars
  <2> QED
    BY <1>0, <2>1 DEF SinceInv
<1>3. CASE ServerStep /\ UNCHANGED auditVars
  <2>1. apc' = apc /\ since' = since
    BY <1>3 DEF auditVars
  <2>2. CASE NewCall
    <3>1. calls' = calls + 1
      BY <2>2 DEF NewCall, AddToSqlTable, InitializeSqlTable, AddToTree, InitializeTree, Issue
    <3> QED
      BY <1>0, <2>1, <3>1 DEF SinceInv
  <2>3. CASE OperatorStep \/ \E w \in Workers : WorkerStep(w)
    <3>1. opPc # "idle" /\ calls' = calls
      BY <2>3 DEF OperatorStep, InsertBatch, ResetPrefixes, ResetTrees, CollectTypes,
                  Launch, Wait, Split, Attach, Rehash, Return, WorkerStep, Fetch, Lock,
                  ReadPrefixes, StorePrefixes, ReadTrees, StoreTrees, Unlock,
                  TreeInv, OnlyWithinCall, callVars
    <3> QED
      BY <2>1, <3>1 DEF SinceInv
  <2> QED
    BY <1>3, <2>2, <2>3 DEF ServerStep
<1>4. CASE UNCHANGED avars
  BY <1>4 DEF avars, serverVars, auditVars, SinceInv
<1> QED
  BY <1>1, <1>2, <1>3, <1>4 DEF ANext


-----------------------------------------------------------------------------
(* An audit that nothing disturbs *)

AllEntries == {[at |-> i, key |-> prefixes[i], root |-> trees[i]] : i \in 1 .. Len(prefixes)}

\* Each listed root is that of a sum tree of the rows in the table.
Accurate == \A p \in AllEntries : p.root = RowsAt(p.key)

\* The range proofs of each listed tree can be made.
AllProvable == \A p \in AllEntries : Provable(RowsAt(p.key))

\* It holds what the server holds, and has found nothing wrong.
QuietAudit ==
    apc # "idle" /\ QuietSince =>
        /\ apc = "scan" => listLen = Len(prefixes)
        /\ apc = "check" => listed = AllEntries
        /\ check = "CheckPrefixTree" =>
               /\ root = rootHash
               /\ apc = "done" => verdict = "valid"
        /\ check = "CheckAllCommitTrees" /\ Accurate /\ AllProvable =>
               /\ valids
               /\ apc = "done" => verdict = "valid"

\* What an audit starts with.
StartsValid == apc \in {"idle", "request", "scan"} => valids

\* Every prefix the audits ask for is listed; the auditor and InitializeTree
\* use the same range.
LEMMA QuietEntries ==
    ASSUME TreeInv, ListsInv, \A k \in Key : InRange(k, FullRange),
           opPc = "idle", listLen = Len(prefixes)
    PROVE  /\ Entries = AllEntries
           /\ ~ \E i \in 1 .. listLen : EntryMissing(i, FullRange)
<1>1. Len(prefixes) = Len(trees) /\ Len(prefixes) \in Nat
  BY InvImpliesAgreement, LenProperties
     DEF ListsAgreeWithTree, TreeInv, ServerInv, ServerTypeOK
<1>2. \A i \in 1 .. Len(prefixes) : InRange(prefixes[i], FullRange)
  BY ElementOfSeq DEF TreeInv, ServerInv, ServerTypeOK
<1>3. \A i \in 1 .. Len(prefixes) :
          EntryIn(i, FullRange) = {[at |-> i, key |-> prefixes[i], root |-> trees[i]]}
  BY <1>2 DEF EntryIn
<1>4. Entries = AllEntries
  <2>1. Entries \subseteq AllEntries
    BY <1>3 DEF Entries, AllEntries
  <2>2. AllEntries \subseteq Entries
    BY <1>3 DEF Entries, AllEntries
  <2> QED
    BY <2>1, <2>2
<1>5. \A i \in 1 .. listLen : ~ EntryMissing(i, FullRange)
  BY <1>1 DEF EntryMissing
<1> QED
  BY <1>4, <1>5

\* The tree rebuilt from all entries is the one the root hash stands for.
LEMMA QuietRebuilt ==
    ASSUME TreeInv, ListsInv, opPc = "idle", listed = AllEntries
    PROVE  Rebuilt = rootHash
<1> DEFINE n == Len(prefixes)
           last(k) == {q \in listed : q.key = k /\ \A o \in listed : o.key = k => o.at <= q.at}
<1>1. /\ newLists = <<>> /\ \A w \in Workers : wpc[w] = "done"
      /\ ServerTypeOK
  BY DEF TreeInv, OnlyWithinCall, ServerInv
<1>2. n \in Nat /\ n = Len(trees) /\ appended = 0 /\ Len(newLists) = 0
  BY <1>1, EmptySeq, LenProperties, InvImpliesAgreement, OlderType DEF ListsAgreeWithTree
<1>3. Older + appended = n
  BY <1>1, <1>2, NobodyAtWork
<1>4. ASSUME NEW k \in Key
      PROVE  UNION {p.root : p \in last(k)} = rootHash[k]
  <2>1. rootHash[k] = leaves[k]
    BY DEF TreeInv, HashOfOthers, Stale
  <2>2. IsLast(k, leaves[k], n)
    <3>1. IsLast(k, leaves[k], Older + appended)
      BY DEF ListsInv, TreeOfLists
    <3> QED
      BY <1>3, <3>1
  <2>3. CASE leaves[k] = {} /\ \A j \in 1 .. n : prefixes[j] # k
    <3>1. \A q \in listed : q.key # k
      BY <2>3 DEF AllEntries
    <3>2. last(k) = {}
      BY <3>1
    <3> QED
      BY <2>1, <2>3, <3>2
  <2>4. ASSUME NEW i \in 1 .. n, prefixes[i] = k, trees[i] = leaves[k],
               \A j \in i + 1 .. n : prefixes[j] # k
        PROVE  UNION {p.root : p \in last(k)} = rootHash[k]
    <3> DEFINE e == [at |-> i, key |-> prefixes[i], root |-> trees[i]]
    <3>1. e \in listed
      BY DEF AllEntries
    <3>2. \A o \in listed : o.key = k => o.at <= i
      <4> SUFFICES ASSUME NEW j \in 1 .. n, prefixes[j] = k PROVE j <= i
        BY DEF AllEntries
      <4> QED
        BY <1>2, <2>4
    <3>3. \A q \in listed : q.key = k /\ i <= q.at => q = e
      <4> SUFFICES ASSUME NEW j \in 1 .. n, prefixes[j] = k, i <= j PROVE j = i
        BY DEF AllEntries
      <4> QED
        BY <1>2, <2>4
    <3>4. last(k) = {e}
      <4>1. e \in last(k)
        BY <2>4, <3>1, <3>2
      <4>2. \A q \in last(k) : q = e
        <5> TAKE q \in last(k)
        <5>1. q \in listed /\ q.key = k /\ e.at <= q.at
          BY <2>4, <3>1
        <5> QED
          BY <3>3, <5>1
      <4> HIDE DEF last, e
      <4> QED
        BY <4>1, <4>2
    <3>5. {p.root : p \in last(k)} = {leaves[k]}
      <4> HIDE DEF last
      <4> QED
        BY <2>4, <3>4
    <3> QED
      BY <2>1, <3>5
  <2> QED
    BY <2>2, <2>3, <2>4 DEF IsLast
<1>5. Rebuilt = [k \in Key |-> rootHash[k]]
  <2> HIDE DEF last
  <2>1. Rebuilt = [k \in Key |-> UNION {p.root : p \in last(k)}]
    BY DEF Rebuilt, last
  <2> QED
    BY <1>4, <2>1
<1> QED
  BY <1>1, <1>5 DEF ServerTypeOK


\* CheckRangeProofs finds nothing wrong with rows whose neighbours have
\* different seeds and are less than BP_MAX apart.
LEMMA ProvablePasses ==
    ASSUME NEW S \in SUBSET Rows, Provable(S), NEW s \in SortedRows(S)
    PROVE  CheckRangeProofs(s) = "valid"
<1>1. IsFiniteSet(S) /\ \A r \in S : r.val \in Nat
  BY RowsAssumption, ValuesAssumption, FS_Subset
<1>2. Cardinality(S) \in Nat
  BY <1>1, FS_CardinalityType
<1>3. /\ s \in OrdersOf(S) /\ DOMAIN s = 1 .. Cardinality(S)
      /\ \A n \in DOMAIN s : s[n] \in S
      /\ \A i, j \in DOMAIN s : s[i] = s[j] => i = j
      /\ \A i, j \in DOMAIN s : i < j => s[i].val <= s[j].val
  BY DEF SortedRows, OrdersOf
<1>4. Len(s) = Cardinality(S)
  BY <1>2, <1>3 DEF OrdersOf
<1>5. ASSUME NEW n \in Steps(s)
      PROVE  s[n].seed # s[n + 1].seed /\ s[n + 1].val - s[n].val < BPMax
  <2>1. n \in Int /\ n \in DOMAIN s /\ n + 1 \in DOMAIN s
    BY <1>2, <1>3, <1>4 DEF Steps
  <2>2. s[n] \in S /\ s[n + 1] \in S /\ s[n] # s[n + 1] /\ s[n].val <= s[n + 1].val
    BY <1>3, <2>1
  <2>3. ASSUME NEW c \in S
        PROVE  c.val <= s[n].val \/ s[n + 1].val <= c.val
    <3>1. PICK m \in DOMAIN s : s[m] = c
      BY <1>1, <1>3, OrderListsAll
    <3>2. m \in Int
      BY <1>2, <1>3
    <3>3. CASE m < n
      BY <1>3, <2>1, <3>1, <3>3
    <3>4. CASE m > n + 1
      BY <1>3, <2>1, <3>1, <3>4
    <3>5. CASE m = n
      BY <1>1, <3>1, <3>5
    <3>6. CASE m = n + 1
      BY <1>1, <3>1, <3>6
    <3> QED
      BY <2>1, <3>2, <3>3, <3>4, <3>5, <3>6
  <2> QED
    BY <2>2, <2>3 DEF Provable, Neighbours
<1>6. {n \in Steps(s) : s[n + 1].val - s[n].val >= BPMax} = {}
  <2> SUFFICES ASSUME NEW n \in Steps(s), s[n + 1].val - s[n].val >= BPMax
               PROVE  FALSE
    OBVIOUS
  <2>1. s[n].val \in Nat /\ s[n + 1].val \in Nat
    BY <1>1, <1>2, <1>3, <1>4 DEF Steps
  <2> QED
    BY <1>5, <2>1, ValuesAssumption
<1> QED
  BY <1>5, <1>6 DEF CheckRangeProofs

\* The audit's own steps.
LEMMA QuietAuditStep ==
    ASSUME TreeInv, ListsInv, AuditTypeOK, StartsValid, QuietAudit,
           \A k \in Key : InRange(k, FullRange),
           AuditNext, UNCHANGED serverVars
    PROVE  QuietAudit' /\ StartsValid'
<1>1. /\ prefixes' = prefixes /\ trees' = trees /\ rootHash' = rootHash /\ db' = db
      /\ opPc' = opPc /\ stage' = stage /\ calls' = calls
  BY DEF serverVars
<1>2. AllEntries' = AllEntries /\ Accurate' = Accurate /\ AllProvable' = AllProvable
  BY <1>1 DEF AllEntries, Accurate, AllProvable, RowsAt
<1>3. CASE CheckPrefixTree
  BY <1>3 DEF CheckPrefixTree, Begin, QuietAudit, StartsValid, serverVars
<1>4. CASE CheckAllCommitTrees
  BY <1>4 DEF CheckAllCommitTrees, Begin, QuietAudit, StartsValid
<1>5. CASE RequestList
  BY <1>1, <1>2, <1>5 DEF RequestList, QuietAudit, StartsValid, QuietSince
<1>6. CASE ReceiveList
  <2>1. /\ StartsValid'
        /\ UNCHANGED <<check, root, valids, since>> /\ apc = "scan" /\ apc' # "scan"
    BY <1>6 DEF ReceiveList, StartsValid
  <2>2. ASSUME QuietSince'
        PROVE  QuietAudit'
    <3>1. QuietSince /\ opPc = "idle" /\ stage = "ready" /\ listLen = Len(prefixes)
      BY <1>1, <2>1, <2>2 DEF QuietSince, QuietAudit
    <3>2. /\ Entries = AllEntries
          /\ ~ \E i \in 1 .. listLen : EntryMissing(i, FullRange)
      BY <3>1, QuietEntries
    <3>3. apc' = "check" /\ listed' = AllEntries
      BY <1>6, <3>1, <3>2 DEF ReceiveList
    <3>4. check = "CheckPrefixTree" => root = rootHash
      BY <2>1, <3>1 DEF QuietAudit
    <3>5. valids
      BY <2>1 DEF StartsValid
    <3> QED
      BY <1>1, <1>2, <2>1, <3>3, <3>4, <3>5 DEF QuietAudit
  <2> QED
    BY <2>1, <2>2 DEF QuietAudit
<1>7. CASE CompareRoot
  <2>1. /\ StartsValid' /\ check = "CheckPrefixTree" /\ apc = "check" /\ apc' = "done"
        /\ UNCHANGED <<check, root, listed, since>>
        /\ verdict' = (IF Rebuilt = root THEN "valid" ELSE "invalid")
    BY <1>7 DEF CompareRoot, StartsValid
  <2>2. ASSUME QuietSince'
        PROVE  QuietAudit'
    <3>1. QuietSince /\ opPc = "idle" /\ listed = AllEntries /\ root = rootHash
      BY <1>1, <2>1, <2>2 DEF QuietSince, QuietAudit
    <3>2. Rebuilt = root
      BY <3>1, QuietRebuilt
    <3> QED
      BY <1>1, <2>1, <3>1, <3>2 DEF QuietAudit
  <2> QED
    BY <2>1, <2>2 DEF QuietAudit
<1>8. CASE CheckCommitTree
  <2> DEFINE Checked(p, s) ==
                \/ CheckRangeProofs(s) = "panic"
                \/ /\ CheckRangeProofs(s) # "panic"
                   /\ valids' = (valids /\ TreeValid(p, s))
                   /\ UNCHANGED <<apc, verdict>>
  <2>0. PICK p \in unchecked : \E s \in SortedRows(RowsAt(p.key)) : Checked(p, s)
    BY <1>8 DEF CheckCommitTree
  <2>1. PICK s \in SortedRows(RowsAt(p.key)) : Checked(p, s)
    BY <2>0
  <2>2. /\ check = "CheckAllCommitTrees" /\ apc = "check" /\ apc' \in {"check", "done"}
        /\ UNCHANGED <<check, root, listed, since>>
    BY <1>8 DEF CheckCommitTree
  <2>3. StartsValid'
    BY <2>2 DEF StartsValid
  <2>4. ASSUME QuietSince'
        PROVE  QuietAudit'
    <3>1. QuietSince /\ listed = AllEntries
      BY <1>1, <2>2, <2>4 DEF QuietSince, QuietAudit
    <3>2. p \in AllEntries
      BY <3>1 DEF AuditTypeOK
    <3>3. ASSUME Accurate, AllProvable
          PROVE  valids' /\ apc' = apc
      <4>1. RowsAt(p.key) = p.root /\ valids
        BY <2>2, <3>1, <3>2, <3>3 DEF QuietAudit, Accurate
      <4>2. RowsAt(p.key) \in SUBSET Rows
        BY RowsAtType DEF TreeInv, ServerInv, ServerTypeOK
      <4>3. CheckRangeProofs(s) = "valid"
        BY <3>2, <3>3, <4>2, ProvablePasses DEF AllProvable
      <4> QED
        BY <2>1, <4>1, <4>3 DEF TreeValid
    <3> QED
      BY <1>1, <1>2, <2>2, <3>1, <3>3 DEF QuietAudit
  <2> QED
    BY <2>2, <2>3, <2>4 DEF QuietAudit
<1>9. CASE CheckCommitTreeOfNew
  <2>1. apc = "check" /\ apc' \in {"check", "done"} /\ stage # "ready"
    BY <1>9 DEF CheckCommitTreeOfNew
  <2> QED
    BY <1>1, <2>1 DEF QuietAudit, QuietSince, StartsValid
<1>10. CASE AllChecked
  <2>1. /\ StartsValid' /\ check = "CheckAllCommitTrees" /\ apc = "check" /\ apc' = "done"
        /\ UNCHANGED <<check, root, listed, since, valids>>
        /\ verdict' = (IF valids THEN "valid" ELSE "invalid")
    BY <1>10 DEF AllChecked, StartsValid
  <2>2. QuietSince' => QuietSince
    BY <1>1, <2>1 DEF QuietSince
  <2> QED
    BY <1>2, <2>1, <2>2 DEF QuietAudit
<1>11. CASE ForgetAudit
  BY <1>11 DEF ForgetAudit, QuietAudit, StartsValid
<1> QED
  BY <1>3, <1>4, <1>5, <1>6, <1>7, <1>8, <1>9, <1>10, <1>11 DEF AuditNext, AuditStep

LEMMA QuietAuditNext ==
    ASSUME TreeInv, ListsInv, AuditTypeOK, SinceInv, StartsValid, QuietAudit,
           \A k \in Key : InRange(k, FullRange),
           [ANext]_avars
    PROVE  QuietAudit' /\ StartsValid'
<1>1. CASE AuditNext /\ UNCHANGED serverVars
  BY <1>1, QuietAuditStep
<1>2. CASE Crash /\ CutAudit
  <2>1. ~QuietSince' \/ apc' = "idle"
    <3>1. calls' = calls + 1 /\ since' = since /\ (apc' # "idle" => apc # "idle")
      BY <1>2 DEF Crash, CutAudit, auditVars
    <3>2. since.calls \in Int /\ calls \in Int
      BY DEF TreeInv, ServerInv, ServerTypeOK, AuditTypeOK
    <3> QED
      BY <3>1, <3>2 DEF SinceInv, QuietSince
  <2>2. StartsValid'
    BY <1>2 DEF CutAudit, auditVars, StartsValid
  <2> QED
    BY <2>1, <2>2 DEF QuietAudit
<1>3. CASE (ServerStep \/ UNCHANGED serverVars) /\ UNCHANGED auditVars
  <2>1. StartsValid' /\ apc' = apc /\ since' = since
    BY <1>3 DEF auditVars, StartsValid
  <2>2. ASSUME apc # "idle", QuietSince'
        PROVE  QuietAudit'
    <3>1. UNCHANGED serverVars
      BY <1>3, <2>1, <2>2, QuietServer DEF ServerNext
    <3>2. /\ QuietSince' = QuietSince
          /\ AllEntries' = AllEntries /\ Accurate' = Accurate /\ AllProvable' = AllProvable
      BY <1>3, <3>1 DEF serverVars, auditVars, QuietSince, AllEntries, Accurate, AllProvable,
                        RowsAt
    <3> QED
      BY <1>3, <2>2, <3>1, <3>2 DEF serverVars, auditVars, QuietAudit
  <2> QED
    BY <2>1, <2>2 DEF QuietAudit
<1> QED
  BY <1>1, <1>2, <1>3 DEF ANext, avars

LEMMA QuietAuditInv ==
    ASSUME \A k \in Key : InRange(k, FullRange)
    PROVE  ASpec => []QuietAudit
<1> DEFINE Inv == SinceInv /\ StartsValid /\ QuietAudit
<1>1. AInit => Inv
  BY DEF AInit, AuditInit, SinceInv, StartsValid, QuietAudit
<1>2. TreeInv /\ ListsInv /\ AuditTypeOK /\ Inv /\ [ANext]_avars => Inv'
  BY SinceStep, QuietAuditNext
<1>3. Inv => QuietAudit
  OBVIOUS
<1> QED
  BY <1>1, <1>2, <1>3, AuditedServerInv, AuditTypeInv, PTL DEF ASpec

-----------------------------------------------------------------------------
(* The theorems *)

\* Type correctness of the audits: an auditor never indexes past the lists
\* it received, whatever the server does meanwhile.
THEOREM AuditTypeCorrect == ASpec => []AuditTypeOK
BY AuditTypeInv

\* If the range that the auditor and InitializeTree share leaves no row out,
\* CheckPrefixTree succeeds whenever no call of the operator disturbs it:
\* the tree that it appends from the lists, in their order, has the hash of
\* the tree that the operator's calls, with whatever overlapping ranges,
\* have grown.
THEOREM QuietTreeAudit ==
    ASSUME \A k \in Key : InRange(k, FullRange)
    PROVE  ASpec => []QuietTreeAuditPasses
<1>1. QuietAudit => QuietTreeAuditPasses
  BY DEF QuietAudit, QuietTreeAuditPasses
<1> QED
  BY <1>1, QuietAuditInv, PTL


-----------------------------------------------------------------------------
(* The audit of the sum trees *)

LEMMA NoneEmptyInv == ASpec => []NoneEmpty
<1>1. AInit => NoneEmpty
  BY EmptySeq DEF AInit, ServerInit, NoneEmpty
<1>2. TreeInv /\ ListsInv /\ NoneEmpty /\ [ANext]_avars => NoneEmpty'
  BY ServerUnderAudit, NoneEmptyStep
<1> QED
  BY <1>1, <1>2, AuditedServerInv, PTL DEF ASpec

\* If no prefix is listed twice and each leaf is up to date, so is each entry
\* of the lists.
LEMMA OnceMeansAccurate ==
    ASSUME TreeInv, ListsInv, NoneEmpty, opPc = "idle",
           \A i, j \in DOMAIN prefixes : prefixes[i] = prefixes[j] => i = j,
           \A k \in Key : rootHash[k] \in {{}, RowsAt(k)}
    PROVE  Accurate
<1> SUFFICES ASSUME NEW i \in 1 .. Len(prefixes)
             PROVE  trees[i] = RowsAt(prefixes[i])
  BY DEF Accurate, AllEntries
<1>1. prefixes[i] \in Key /\ trees[i] = rootHash[prefixes[i]] /\ trees[i] # {}
  BY OnceListed
<1> QED
  BY <1>1

\* CheckAllCommitTrees succeeds whenever no call of the operator disturbs
\* it, no prefix was listed twice, no row was added to a prefix after its
\* sum tree was built, and rows of a listed prefix whose values follow each
\* other have different seeds and are less than BP_MAX apart.
THEOREM QuietSumTreeAudit ==
    ASSUME \A k \in Key : InRange(k, FullRange)
    PROVE  ASpec => []QuietSumTreeAuditPasses
<1>1. TreeInv /\ ListsInv /\ NoneEmpty /\ QuietAudit => QuietSumTreeAuditPasses
  <2> SUFFICES ASSUME TreeInv, ListsInv, NoneEmpty, QuietAudit,
                      apc = "done", check = "CheckAllCommitTrees", QuietSince,
                      \A i, j \in DOMAIN prefixes : prefixes[i] = prefixes[j] => i = j,
                      \A k \in Key : rootHash[k] \in {{}, RowsAt(k)},
                      \A i \in DOMAIN prefixes : Provable(RowsAt(prefixes[i]))
               PROVE  verdict = "valid"
    BY DEF QuietSumTreeAuditPasses
  <2>1. Accurate
    BY OnceMeansAccurate DEF QuietSince
  <2>2. AllProvable
    <3>1. DOMAIN prefixes = 1 .. Len(prefixes)
      BY LenProperties DEF TreeInv, ServerInv, ServerTypeOK
    <3> QED
      BY <3>1 DEF AllProvable, AllEntries
  <2> QED
    BY <2>1, <2>2 DEF QuietAudit
<1> QED
  BY <1>1, AuditedServerInv, NoneEmptyInv, QuietAuditInv, PTL

-----------------------------------------------------------------------------
(* What a successful audit of the sum trees vouches for *)

\* Of what was checked and not found wrong.
Gapless(S) ==
    \E s \in SortedRows(S) : \A n \in Steps(s) : s[n + 1].val - s[n].val < BPMax

Vouched(p) ==
    /\ p.root \subseteq RowsAt(p.key)
    /\ Gapless(p.root)
    /\ QuietSince => p.root = RowsAt(p.key)

CheckedInTable ==
    check = "CheckAllCommitTrees" =>
        /\ apc = "check" /\ valids => \A p \in listed \ unchecked : Vouched(p)
        /\ apc = "done" /\ verdict = "valid" => \A p \in listed : Vouched(p)

\* The table grows, and it does so only within calls.
LEMMA VouchedStep ==
    ASSUME TreeInv, AuditTypeOK, SinceInv, apc # "idle",
           "InitializeSqlTable" \notin CallKinds,
           [ServerNext]_serverVars, since' = since,
           NEW p, Vouched(p)
    PROVE  Vouched(p)'
<1>1. db \subseteq db'
  BY DEF ServerNext, ServerStep, NewCall, OperatorStep, WorkerStep, AddToSqlTable,
         InitializeSqlTable, AddToTree, InitializeTree, Issue, InsertBatch,
         ResetPrefixes, ResetTrees, CollectTypes, Launch, Wait, Split, Attach, Rehash,
         Return, Fetch, Lock, ReadPrefixes, StorePrefixes, ReadTrees, StoreTrees,
         Unlock, Crash, tableVars, serverVars
<1>2. RowsAt(p.key) \subseteq RowsAt(p.key)'
  BY <1>1 DEF RowsAt
<1>3. ASSUME QuietSince'
      PROVE  p.root = RowsAt(p.key)'
  <2>1. UNCHANGED serverVars
    BY <1>3, QuietServer
  <2> QED
    BY <1>3, <2>1 DEF serverVars, QuietSince, RowsAt, Vouched
<1> QED
  BY <1>2, <1>3 DEF Vouched

\* Rows whose range proofs verify have no gap of BP_MAX between them.
LEMMA ValidMeansGapless ==
    ASSUME NEW S \in SUBSET Rows, NEW s \in SortedRows(S), CheckRangeProofs(s) = "valid"
    PROVE  Gapless(S)
<1>1. {n \in Steps(s) : s[n + 1].val - s[n].val >= BPMax} = {}
  BY DEF CheckRangeProofs
<1>2. ASSUME NEW n \in Steps(s)
      PROVE  s[n + 1].val - s[n].val < BPMax
  <2>1. Cardinality(S) \in Nat
    BY RowsAssumption, FS_Subset, FS_CardinalityType
  <2>2. Len(s) = Cardinality(S) /\ \A m \in 1 .. Cardinality(S) : s[m] \in S
    BY <2>1 DEF SortedRows, OrdersOf
  <2>3. s[n].val \in Nat /\ s[n + 1].val \in Nat
    BY <2>1, <2>2, ValuesAssumption DEF Steps
  <2> QED
    BY <1>1, <2>3, ValuesAssumption
<1> QED
  BY <1>2 DEF Gapless

LEMMA CheckedStep ==
    ASSUME TreeInv, AuditTypeOK, SinceInv, CheckedInTable,
           "InitializeSqlTable" \notin CallKinds, [ANext]_avars
    PROVE  CheckedInTable'
<1>1. CASE AuditNext /\ UNCHANGED serverVars
  <2>1. ASSUME since' = since, NEW p
        PROVE  Vouched(p)' <=> Vouched(p)
    BY <1>1, <2>1 DEF Vouched, QuietSince, RowsAt, serverVars
  <2>2. CASE CheckPrefixTree \/ CheckAllCommitTrees \/ RequestList \/ ForgetAudit
    BY <2>2 DEF CheckPrefixTree, CheckAllCommitTrees, Begin, RequestList, ForgetAudit,
                CheckedInTable
  <2>3. CASE ReceiveList
    <3>1. (apc' = "check" => listed' = unchecked') /\ (apc' = "done" => verdict' = "failed")
          /\ apc' \in {"check", "done"}
      BY <2>3 DEF ReceiveList
    <3> QED
      BY <3>1 DEF CheckedInTable
  <2>4. CASE CompareRoot
    BY <2>4 DEF CompareRoot, CheckedInTable
  <2>5. CASE CheckCommitTree
    <3> DEFINE Checked(q, s) ==
                  \/ apc' = "done" /\ verdict' = "failed"
                  \/ /\ unchecked' = unchecked \ {q}
                     /\ valids' = (valids /\ TreeValid(q, s))
                     /\ UNCHANGED <<apc, verdict>>
    <3>0. PICK q \in unchecked : \E s \in SortedRows(RowsAt(q.key)) : Checked(q, s)
      BY <2>5 DEF CheckCommitTree
    <3>1. PICK s \in SortedRows(RowsAt(q.key)) : Checked(q, s)
      BY <3>0
    <3>2. /\ apc = "check" /\ check = "CheckAllCommitTrees"
          /\ UNCHANGED <<check, listed, since>>
      BY <2>5 DEF CheckCommitTree
    <3>3. CASE apc' = "done" /\ verdict' = "failed"
      BY <3>2, <3>3 DEF CheckedInTable
    <3>4. CASE /\ unchecked' = unchecked \ {q}
               /\ valids' = (valids /\ TreeValid(q, s))
               /\ UNCHANGED <<apc, verdict>>
      <4>1. ASSUME valids', NEW p \in listed \ unchecked'
            PROVE  Vouched(p)'
        <5>1. CASE p = q
          <6>1. RowsAt(q.key) = q.root /\ CheckRangeProofs(s) = "valid"
            BY <3>4, <4>1 DEF TreeValid
          <6>2. Gapless(q.root)
            <7>1. RowsAt(q.key) \in SUBSET Rows
              BY RowsAtType DEF TreeInv, ServerInv, ServerTypeOK
            <7> QED
              BY <6>1, <7>1, ValidMeansGapless
          <6>3. Vouched(p)
            BY <5>1, <6>1, <6>2 DEF Vouched
          <6> QED
            BY <2>1, <3>2, <6>3
        <5>2. CASE p # q
          <6>1. Vouched(p)
            BY <3>2, <3>4, <4>1, <5>2 DEF CheckedInTable
          <6> QED
            BY <2>1, <3>2, <6>1
        <5> QED
          BY <5>1, <5>2
      <4> QED
        BY <3>2, <3>4, <4>1 DEF CheckedInTable
    <3> QED
      BY <3>1, <3>3, <3>4
  <2>6. CASE CheckCommitTreeOfNew
    BY <2>6 DEF CheckCommitTreeOfNew, CheckedInTable
  <2>7. CASE AllChecked
    <3>1. /\ apc = "check" /\ check = "CheckAllCommitTrees" /\ unchecked = {}
          /\ apc' = "done" /\ UNCHANGED <<check, listed, since>>
          /\ verdict' = (IF valids THEN "valid" ELSE "invalid")
      BY <2>7 DEF AllChecked
    <3>2. valids => \A p \in listed : Vouched(p)
      BY <3>1 DEF CheckedInTable
    <3> QED
      BY <2>1, <3>1, <3>2 DEF CheckedInTable
  <2> QED
    BY <1>1, <2>2, <2>3, <2>4, <2>5, <2>6, <2>7 DEF AuditNext, AuditStep
<1>2. CASE UNCHANGED auditVars
  <2>1. ASSUME apc # "idle", NEW p, Vouched(p)
        PROVE  Vouched(p)'
    BY <1>2, <2>1, ServerUnderAudit, VouchedStep DEF auditVars
  <2> QED
    BY <1>2, <2>1 DEF auditVars, CheckedInTable
<1>3. CASE Crash /\ CutAudit /\ ~ UNCHANGED auditVars
  BY <1>3 DEF CutAudit, CheckedInTable
<1> QED
  BY <1>1, <1>2, <1>3 DEF ANext, avars

\* A successful audit of the sum trees vouches for the rows, whatever calls
\* ran during it and however the goroutines that check the trees were
\* interleaved with them, as long as no call drops the table: each listed
\* root was built from rows that the table holds under its prefix, without a
\* gap of BP_MAX between their values, and from all the rows there if nothing
\* disturbed the audit.
THEOREM ValidAuditVouches ==
    ASSUME "InitializeSqlTable" \notin CallKinds
    PROVE  ASpec => []ValidMeansInTable
<1> DEFINE Inv == SinceInv /\ CheckedInTable
<1>1. AInit => Inv
  BY DEF AInit, AuditInit, SinceInv, CheckedInTable
<1>2. TreeInv /\ AuditTypeOK /\ Inv /\ [ANext]_avars => Inv'
  BY SinceStep, CheckedStep
<1>3. Inv => ValidMeansInTable
  BY DEF CheckedInTable, ValidMeansInTable, Vouched, Gapless
<1> QED
  BY <1>1, <1>2, <1>3, AuditedServerInv, AuditTypeInv, PTL DEF ASpec

=============================================================================
