----------------------------- MODULE TapAuditor -----------------------------
(***************************************************************************)
(* An auditor (auditor/auditor.go) of the server of TapServer.             *)
(* CheckPrefixTree reads the root hash, requests the lists of prefixes and *)
(* sum tree roots and rebuilds the prefix tree from them.                  *)
(* CheckAllCommitTrees requests the lists and then, with a goroutine per   *)
(* prefix, the commitments from which it rebuilds each sum tree.  A        *)
(* request that fails, as the server crashes, makes the auditor panic.     *)
(***************************************************************************)
EXTENDS TapServer

CONSTANT BPMax    \* BP_MAX

ASSUME ValuesAssumption ==
    BPMax \in Nat \ {0} /\ \A r \in Rows : r.val \in Nat

VARIABLES
    apc,       \* where the audit stands
    check,     \* "CheckPrefixTree" or "CheckAllCommitTrees"
    root,      \* the root hash CheckPrefixTree read
    listLen,   \* n of RequestPrefixes
    listed,    \* prefixes and commitmentTreeRoots received, with positions
    unchecked, \* elements of listed whose sum tree is not checked yet
    valids,    \* no sum tree checked so far was wrong
    verdict,   \* the result
    since      \* history: calls issued when the audit began, and whether
               \* the operator was idle

auditVars == <<apc, check, root, listLen, listed, unchecked, valids, verdict, since>>
avars == <<serverVars, auditVars>>

AuditInit ==
    /\ apc = "idle" /\ check = "none" /\ root = NoLeaves
    /\ listLen = 0 /\ listed = {} /\ unchecked = {} /\ valids = TRUE
    /\ verdict = "none"
    /\ since = [calls |-> 0, idle |-> FALSE]

Begin(name) ==
    /\ apc = "idle"
    /\ check' = name
    /\ apc' = "request"
    /\ since' = [calls |-> calls, idle |-> opPc = "idle"]
    /\ UNCHANGED <<listLen, listed, unchecked, valids, verdict>>

CheckPrefixTree == Begin("CheckPrefixTree") /\ stage # "new" /\ root' = rootHash
CheckAllCommitTrees == Begin("CheckAllCommitTrees") /\ UNCHANGED root

RequestList ==
    /\ apc = "request"
    /\ listLen' = Len(prefixes)
    /\ apc' = "scan"
    /\ UNCHANGED <<check, root, listed, unchecked, valids, verdict, since>>

Entries == UNION {EntryIn(i, FullRange) : i \in 1 .. listLen}

\* Mutant of ReceiveList: the goroutines are launched over the list as it is
\* now, not as it was when its length was taken.
ReceiveListAnew ==
    /\ apc = "scan"
    /\ IF stage = "new" \/ \E i \in DOMAIN prefixes : EntryMissing(i, FullRange)
       THEN apc' = "done" /\ verdict' = "failed" /\ UNCHANGED <<listed, unchecked>>
       ELSE /\ listed' = Entries
            /\ unchecked' = UNION {EntryIn(i, FullRange) : i \in DOMAIN prefixes}
            /\ apc' = "check"
            /\ UNCHANGED verdict
    /\ UNCHANGED <<check, root, listLen, valids, since>>

\* The handler returns the lists, or panics.
ReceiveList ==
    /\ apc = "scan"
    /\ IF stage = "new" \/ \E i \in 1 .. listLen : EntryMissing(i, FullRange)
       THEN apc' = "done" /\ verdict' = "failed" /\ UNCHANGED <<listed, unchecked>>
       ELSE /\ listed' = Entries /\ unchecked' = Entries
            /\ apc' = "check"
            /\ UNCHANGED verdict
    /\ UNCHANGED <<check, root, listLen, valids, since>>

\* Mutant of Rebuilt: a prefix that has a leaf is not appended again.
RebuiltFromFirst ==
    [k \in Key |->
        UNION {p.root : p \in {q \in listed : q.key = k /\
                                  \A o \in listed : o.key = k => q.at <= o.at}}]

\* The tree PrefixAppend builds from the pairs in their order.
Rebuilt ==
    [k \in Key |->
        UNION {p.root : p \in {q \in listed : q.key = k /\
                                  \A o \in listed : o.key = k => o.at <= q.at}}]

CompareRoot ==
    /\ apc = "check" /\ check = "CheckPrefixTree"
    /\ apc' = "done" /\ verdict' = IF Rebuilt = root THEN "valid" ELSE "invalid"
    /\ UNCHANGED <<check, root, listLen, listed, unchecked, valids, since>>

\* getVals: the rows of a prefix in the order of their values.
SortedRows(S) ==
    {s \in OrdersOf(S) : \A i, j \in DOMAIN s : i < j => s[i].val <= s[j].val}

Steps(s) == 1 .. Len(s) - 1

\* CheckRangeProofs goes through the proofs that the server makes for each
\* two neighbours.  RangeProof.tla shows what comes of one of them: it fails
\* for a step of BP_MAX or more, and one for equal seeds makes the auditor
\* panic.
CheckRangeProofs(s) ==
    LET wide == {n \in Steps(s) : s[n + 1].val - s[n].val >= BPMax}
    IN  IF \E n \in Steps(s) : s[n].seed = s[n + 1].seed /\ \A m \in wide : n <= m
        THEN "panic"
        ELSE IF wide # {} THEN "invalid" ELSE "valid"

\* Mutant of TreeValid: the result of CheckRangeProofs is not used.
TreeValidByRootHash(p, s) == RowsAt(p.key) = p.root

\* rootHashValid && rangeProofsValid, for the rows in the order s
TreeValid(p, s) == RowsAt(p.key) = p.root /\ CheckRangeProofs(s) = "valid"

\* CheckCommitTree: rebuild one sum tree from the commitments to the rows of
\* the table, and check that they are in order.
CheckCommitTree ==
    /\ apc = "check" /\ check = "CheckAllCommitTrees" /\ stage = "ready"
    /\ \E p \in unchecked : \E s \in SortedRows(RowsAt(p.key)) :
           \/ /\ CheckRangeProofs(s) = "panic"
              /\ apc' = "done" /\ verdict' = "failed"
              /\ UNCHANGED <<unchecked, valids>>
           \/ /\ CheckRangeProofs(s) # "panic"
              /\ unchecked' = unchecked \ {p}
              /\ valids' = (valids /\ TreeValid(p, s))
              /\ UNCHANGED <<apc, verdict>>
    /\ UNCHANGED <<check, root, listLen, listed, since>>

\* A new server knows no columns and panics; between the stores of
\* InitializeTree it may read wrong ones.
CheckCommitTreeOfNew ==
    /\ apc = "check" /\ check = "CheckAllCommitTrees" /\ unchecked # {}
    /\ \/ stage # "ready" /\ apc' = "done" /\ verdict' = "failed" /\ UNCHANGED <<unchecked, valids>>
       \/ /\ stage = "tree"
          /\ \E p \in unchecked : unchecked' = unchecked \ {p}
          /\ valids' = FALSE
          /\ UNCHANGED <<apc, verdict>>
    /\ UNCHANGED <<check, root, listLen, listed, since>>

AllChecked ==
    /\ apc = "check" /\ check = "CheckAllCommitTrees" /\ unchecked = {}
    /\ apc' = "done" /\ verdict' = IF valids THEN "valid" ELSE "invalid"
    /\ UNCHANGED <<check, root, listLen, listed, unchecked, valids, since>>

ForgetAudit ==
    /\ apc = "done"
    /\ apc' = "idle" /\ check' = "none" /\ root' = NoLeaves
    /\ listLen' = 0 /\ listed' = {} /\ unchecked' = {} /\ valids' = TRUE
    /\ verdict' = "none"
    /\ since' = [calls |-> 0, idle |-> FALSE]

\* A crash of the server cuts the request that it is handling.
CutAudit ==
    IF apc = "scan"
    THEN /\ apc' = "done" /\ verdict' = "failed"
         /\ UNCHANGED <<check, root, listLen, listed, unchecked, valids, since>>
    ELSE UNCHANGED auditVars

AuditStep ==
    \/ RequestList \/ ReceiveList \/ CompareRoot
    \/ CheckCommitTree \/ CheckCommitTreeOfNew \/ AllChecked

AuditNext == CheckPrefixTree \/ CheckAllCommitTrees \/ AuditStep \/ ForgetAudit

AInit == ServerInit /\ AuditInit
ANext == \/ ServerStep /\ UNCHANGED auditVars
         \/ Crash /\ CutAudit
         \/ AuditNext /\ UNCHANGED serverVars

ASpec == AInit /\ [][ANext]_avars

-----------------------------------------------------------------------------
(* Properties *)

\* Nothing happened during the audit, and there is a tree to be audited.
QuietSince == since.idle /\ opPc = "idle" /\ since.calls = calls /\ stage = "ready"

\* An audit of the prefix tree that no call of the operator disturbs
\* succeeds, also after calls of AddToTree whose ranges overlap.
QuietTreeAuditPasses ==
    apc = "done" /\ check = "CheckPrefixTree" /\ QuietSince => verdict = "valid"

\* Two rows of a set that can follow each other in the order of the values.
Neighbours(a, b, S) ==
    a # b /\ a.val <= b.val /\ \A c \in S : c.val <= a.val \/ b.val <= c.val

\* Neighbours have different seeds and are less than BP_MAX apart.
Provable(S) ==
    \A a, b \in S : Neighbours(a, b, S) => a.seed # b.seed /\ b.val - a.val < BPMax

\* An undisturbed audit of the sum trees succeeds if no prefix was listed
\* twice, no row was added to a committed prefix, and the rows of every
\* listed prefix have the seeds and the steps the range proofs ask for.
QuietSumTreeAuditPasses ==
    apc = "done" /\ check = "CheckAllCommitTrees" /\ QuietSince
        /\ (\A i, j \in DOMAIN prefixes : prefixes[i] = prefixes[j] => i = j)
        /\ (\A k \in Key : rootHash[k] \in {{}, RowsAt(k)})
        /\ (\A i \in DOMAIN prefixes : Provable(RowsAt(prefixes[i])))
    => verdict = "valid"

\* A successful audit of the sum trees, of a table that only grows, vouches
\* for the rows: what every listed root was built from is what the table
\* holds under its prefix, without a gap of BP_MAX between its values, and
\* all the table holds there if no call disturbed the audit.
ValidMeansInTable ==
    apc = "done" /\ check = "CheckAllCommitTrees" /\ verdict = "valid" =>
        \A p \in listed :
            /\ p.root \subseteq RowsAt(p.key)
            /\ \E s \in SortedRows(p.root) :
                   \A n \in Steps(s) : s[n + 1].val - s[n].val < BPMax
            /\ QuietSince => p.root = RowsAt(p.key)

AuditTypeOK ==
    /\ apc \in {"idle", "request", "scan", "check", "done"}
    /\ check \in {"none", "CheckPrefixTree", "CheckAllCommitTrees"}
    /\ root \in [Key -> SUBSET Rows]
    /\ listLen \in Nat
    /\ listed \in SUBSET [at : Nat, key : Key, root : SUBSET Rows]
    /\ unchecked \subseteq listed
    /\ valids \in BOOLEAN
    /\ verdict \in {"none", "valid", "invalid", "failed"}
    /\ since \in [calls : 0 .. MaxCalls, idle : BOOLEAN]

=============================================================================
