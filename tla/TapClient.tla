----------------------------- MODULE TapClient -----------------------------
(***************************************************************************)
(* A client (client/client.go) that queries the server of TapServer while  *)
(* the operator's calls run: LookupQuery, and requestAndVerifySumAndCount, *)
(* on which SumQuery, CountQuery and AvgQuery rest.  A query first reads   *)
(* the root hash of the prefix tree and then makes two requests; nothing   *)
(* keeps the three reads together.  Queries change nothing in the server,  *)
(* so one client stands for any number of them.  The client is a process   *)
(* of its own and outlives a crash of the server; a request that fails     *)
(* makes it panic.                                                         *)
(***************************************************************************)
EXTENDS TapServer

CONSTANTS
    LookupRows,   \* rows the client looks up
    SumRanges     \* ranges it asks sums and counts of

ASSUME LookupAssumption == \A r \in LookupRows : r.key \in Key

VARIABLES
    cpc,       \* where the query stands
    query,     \* what is asked
    snap,      \* the root hash read at the start: the leaves it stands for
    scanLen,   \* n of RequestPrefixes
    scanAt,    \* entries it has visited
    pairs,     \* the prefixes and tree roots it found, with their positions
    leaf,      \* leafValue of the membership proof
    parts,     \* answers of RequestSumAndCounts, one per element of pairs
    answer,    \* what the query returned
    began      \* history: calls issued when the query began, and whether
               \* the operator was idle

clientVars == <<cpc, query, snap, scanLen, scanAt, pairs, leaf, parts, answer, began>>
vars == <<serverVars, clientVars>>

NoAnswer == [status |-> "none", rows |-> {}]
Return1(st, rows) == cpc' = "done" /\ answer' = [status |-> st, rows |-> rows]

ClientInit ==
    /\ cpc = "idle" /\ query = [kind |-> "none"]
    /\ snap = NoLeaves
    /\ scanLen = 0 /\ scanAt = 0 /\ pairs = {} /\ leaf = {} /\ parts = {}
    /\ answer = NoAnswer
    /\ began = [calls |-> 0, idle |-> FALSE]

\* A query whose first request fails is left out.
Ask(q, pc) ==
    /\ cpc = "idle" /\ stage # "new"
    /\ query' = q
    /\ snap' = rootHash
    /\ cpc' = pc
    /\ began' = [calls |-> calls, idle |-> opPc = "idle"]
    /\ UNCHANGED <<scanLen, scanAt, pairs, leaf, parts, answer>>

Fail == Return1("failed", {})

-----------------------------------------------------------------------------
(* LookupQuery *)

AskLookup == \E r \in LookupRows : Ask([kind |-> "lookup", row |-> r], "membership")

\* The prefix membership proof.  Without a proof the query says "not found".
LookupPrefix ==
    /\ cpc = "membership"
    /\ LET k == query.row.key
       IN  IF stage = "new" THEN Fail /\ UNCHANGED leaf
           ELSE IF leaves[k] = {} \/ k \in hidden
           THEN Return1("notFound", {}) /\ UNCHANGED leaf
           ELSE \E valid \in MembershipVerdicts(k, snap) :
                    IF valid
                    THEN cpc' = "leaf" /\ leaf' = leaves[k] /\ UNCHANGED answer
                    ELSE Return1("rejected", {}) /\ UNCHANGED leaf
    /\ UNCHANGED <<query, snap, scanLen, scanAt, pairs, parts, began>>

\* Mutant of LookupLeaf: the sum tree root is not compared with the leaf.
LookupLeafUnverified ==
    /\ cpc = "leaf" /\ stage = "ready"
    /\ LET rows == RowsAt(query.row.key)
       IN  \/ rows = {} /\ Fail
           \/ rows # {} /\ query.row \notin rows /\ Return1("notFound", {})
           \/ query.row \in rows /\ Return1("found", {query.row})
    /\ UNCHANGED <<query, snap, scanLen, scanAt, pairs, leaf, parts, began>>

\* The sum tree is rebuilt from the table; an empty one has no root to
\* search and the handler panics.  So it does without the names of the
\* columns; with some of the fields after them unset it reads wrong columns.
LookupLeaf ==
    /\ cpc = "leaf"
    /\ LET rows == RowsAt(query.row.key)
       IN  \/ stage # "ready" /\ Fail
           \/ stage = "tree" /\ \E st \in {"notFound", "rejected"} : Return1(st, {})
           \/ stage = "ready" /\ rows = {} /\ Fail
           \/ stage = "ready" /\ rows # {} /\ query.row \notin rows /\ Return1("notFound", {})
           \/ stage = "ready" /\ query.row \in rows /\ rows = leaf /\ Return1("found", {query.row})
           \/ stage = "ready" /\ query.row \in rows /\ rows # leaf /\ Return1("rejected", {})
    /\ UNCHANGED <<query, snap, scanLen, scanAt, pairs, leaf, parts, began>>

-----------------------------------------------------------------------------
(* requestAndVerifySumAndCount *)

AskSum == \E rg \in SumRanges : Ask([kind |-> "sum", range |-> rg], "request")

\* Mutant of RequestPrefixes: the loop stops one entry early.
RequestPrefixesButLast ==
    /\ cpc = "request"
    /\ scanLen' = (IF prefixes = <<>> THEN 0 ELSE Len(prefixes) - 1) /\ scanAt' = 0
    /\ cpc' = "scan"
    /\ UNCHANGED <<query, snap, pairs, leaf, parts, answer, began>>

RequestPrefixes ==
    /\ cpc = "request"
    /\ scanLen' = Len(prefixes) /\ scanAt' = 0
    /\ cpc' = "scan"
    /\ UNCHANGED <<query, snap, pairs, leaf, parts, answer, began>>

\* Mutant of ScanPrefix: the loop runs one entry too far.
ScanPrefixTooFar ==
    /\ cpc = "scan" /\ scanAt <= scanLen
    /\ IF EntryMissing(scanAt + 1, query.range)
       THEN Fail /\ UNCHANGED <<scanAt, pairs>>
       ELSE /\ pairs' = pairs \cup EntryIn(scanAt + 1, query.range)
            /\ scanAt' = scanAt + 1
            /\ UNCHANGED <<cpc, answer>>
    /\ UNCHANGED <<query, snap, scanLen, leaf, parts, began>>

ScanPrefix ==
    /\ cpc = "scan" /\ scanAt < scanLen
    /\ IF EntryMissing(scanAt + 1, query.range)
       THEN Fail /\ UNCHANGED <<scanAt, pairs>>
       ELSE /\ pairs' = pairs \cup EntryIn(scanAt + 1, query.range)
            /\ scanAt' = scanAt + 1
            /\ UNCHANGED <<cpc, answer>>
    /\ UNCHANGED <<query, snap, scanLen, leaf, parts, began>>

\* Mutant of Corresponds: the numbers are not compared.
CorrespondsOneWay(listed, nodes) ==
    \A n \in nodes : \E p \in listed : p.key = n.key /\ p.root = n.root

\* The one-to-one correspondence between the leaf nodes of the proof and the
\* listed pairs.  The root of an empty tree counts as a leaf node.
Corresponds(listed, nodes) ==
    /\ Cardinality(listed) = Cardinality(nodes)
    /\ \A n \in nodes : \E p \in listed : p.key = n.key /\ p.root = n.root

\* Without a tree the handler panics when it comes to the proof.
VerifyPrefixSet ==
    /\ cpc = "scan" /\ scanAt = scanLen
    /\ LET accepted == /\ stage # "new" /\ snap # NoLeaves
                       /\ \E nodes \in VerifiedSets(query.range, snap) : Corresponds(pairs, nodes)
       IN  \/ stage = "new" /\ Fail
           \/ accepted /\ cpc' = "sums" /\ UNCHANGED answer
           \/ stage # "new" /\ (~ accepted \/ MayFail) /\ Return1("rejected", {})
    /\ UNCHANGED <<query, snap, scanLen, scanAt, pairs, leaf, parts, began>>

\* RequestSumAndCounts asks the table for the prefixes one after the other.
Unread == {p \in pairs : \A q \in parts : q.at # p.at}

SumPart ==
    /\ cpc = "sums" /\ stage = "ready"
    /\ \E p \in Unread :
           /\ \A q \in Unread : p.at <= q.at
           /\ parts' = parts \cup {[at |-> p.at, root |-> p.root, rows |-> RowsAt(p.key)]}
    /\ UNCHANGED <<cpc, query, snap, scanLen, scanAt, pairs, leaf, answer, began>>

\* On a new server the handler panics; between the stores of InitializeTree
\* it may read wrong columns, and with them no rows, or such as will be
\* rejected.
SumPartOfNew ==
    /\ cpc = "sums" /\ stage # "ready" /\ Unread # {}
    /\ \/ Fail /\ UNCHANGED parts
       \/ stage = "tree" /\ Return1("rejected", {}) /\ UNCHANGED parts
       \/ /\ stage = "tree"
          /\ \E p \in Unread :
                 /\ \A q \in Unread : p.at <= q.at
                 /\ parts' = parts \cup {[at |-> p.at, root |-> p.root, rows |-> {}]}
          /\ UNCHANGED <<cpc, answer>>
    /\ UNCHANGED <<query, snap, scanLen, scanAt, pairs, leaf, began>>

\* Mutant of VerifySum: the roots of the parts are not verified.
VerifySumUnchecked ==
    /\ cpc = "sums" /\ Unread = {}
    /\ LET rows == UNION {p.rows : p \in parts}
       IN  Return1(IF rows = {} THEN "noEntries" ELSE "sum", rows)
    /\ UNCHANGED <<query, snap, scanLen, scanAt, pairs, leaf, parts, began>>

\* A part with count 0 is passed over; if all are, no entries were found.
VerifySum ==
    /\ cpc = "sums" /\ Unread = {}
    /\ LET counted == {p \in parts : p.rows # {}}
           rows    == UNION {p.rows : p \in parts}
       IN  \/ /\ \E p \in counted : p.rows # p.root
              /\ Return1("rejected", {})
           \/ /\ \A p \in counted : p.rows = p.root
              /\ counted = {}
              /\ Return1("noEntries", {})
           \/ /\ \A p \in counted : p.rows = p.root
              /\ counted # {}
              /\ Return1("sum", rows)
    /\ UNCHANGED <<query, snap, scanLen, scanAt, pairs, leaf, parts, began>>

Forget ==
    /\ cpc = "done"
    /\ cpc' = "idle" /\ query' = [kind |-> "none"] /\ snap' = NoLeaves
    /\ scanLen' = 0 /\ scanAt' = 0 /\ pairs' = {} /\ leaf' = {} /\ parts' = {}
    /\ answer' = NoAnswer
    /\ began' = [calls |-> 0, idle |-> FALSE]

\* A crash of the server cuts the request that it is handling, and the
\* client panics when it learns of it.
CutOff ==
    IF cpc = "scan" \/ (cpc = "sums" /\ parts # {})
    THEN /\ cpc' = "cut"
         /\ UNCHANGED <<query, snap, scanLen, scanAt, pairs, leaf, parts, answer, began>>
    ELSE UNCHANGED clientVars

Panic ==
    /\ cpc = "cut"
    /\ Fail
    /\ UNCHANGED <<query, snap, scanLen, scanAt, pairs, leaf, parts, began>>

-----------------------------------------------------------------------------
QueryStep ==
    \/ LookupPrefix \/ LookupLeaf \/ RequestPrefixes \/ ScanPrefix
    \/ VerifyPrefixSet \/ SumPart \/ SumPartOfNew \/ VerifySum \/ Panic

ClientNext == AskLookup \/ AskSum \/ QueryStep \/ Forget

Init == ServerInit /\ ClientInit
Next == \/ ServerStep /\ UNCHANGED clientVars
        \/ Crash /\ CutOff
        \/ ClientNext /\ UNCHANGED serverVars

Spec == Init /\ [][Next]_vars

\* No InitializeTree is called, on this or on a restarted server, while a
\* sum is under way.
SumUnderWay == query.kind = "sum" /\ cpc # "done"
SteadyNext == Next /\ (InitializeTree => ~ SumUnderWay)
SteadySpec == Init /\ [][SteadyNext]_vars

-----------------------------------------------------------------------------
(* Properties *)

\* The rows the root hash seen by the query stands for, within its scope.
SeenIn(rg) == UNION {snap[k] : k \in {j \in Key : InRange(j, rg)}}

\* A sum that a client accepts is taken over exactly the rows that the root
\* hash it started from commits to, and "no entries" is said only when it
\* commits to none, however the operator's inserts and tree updates fall
\* between the three reads (requestAndVerifySumAndCount).  A proof that a
\* split made incomplete does not help: the list still has the prefix.
SumIsCommitted ==
    cpc = "done" /\ query.kind = "sum" =>
        /\ answer.status = "sum" => answer.rows = SeenIn(query.range)
        /\ answer.status = "noEntries" => SeenIn(query.range) = {}

\* A lookup that succeeds is about a row that the root hash commits to.
FoundIsCommitted ==
    answer.status = "found" => query.row \in snap[query.row.key]

\* A lookup that reports "not found" is about a row that the root hash does
\* not commit to: what a user of the service would take it to say, although
\* LookupQuery asks for no proof of it.
NotFoundIsUncommitted ==
    answer.status = "notFound" => query.row \notin snap[query.row.key]

\* The operator did nothing while the query ran.
Undisturbed == began.idle /\ opPc = "idle" /\ began.calls = calls

\* Every row of the table is committed and no prefix was listed twice.
Covered ==
    /\ rootHash # NoLeaves
    /\ \A k \in Key : rootHash[k] = RowsAt(k)
    /\ \A i, j \in DOMAIN prefixes : prefixes[i] = prefixes[j] => i = j

\* An undisturbed query on a table that is committed in full, by calls of
\* AddToTree with ranges that do not overlap, is answered, and rightly.
UndisturbedIsAnswered ==
    cpc = "done" /\ Undisturbed /\ Covered =>
        IF query.kind = "lookup"
        THEN answer.status = IF query.row \in db THEN "found" ELSE "notFound"
        ELSE LET rows == {r \in db : InRange(r.key, query.range)}
             IN  answer = [status |-> IF rows = {} THEN "noEntries" ELSE "sum",
                           rows |-> rows]

-----------------------------------------------------------------------------
(* The abstract specification this module implements. *)

Queries == [kind : {"lookup"}, row : LookupRows] \cup [kind : {"sum"}, range : SumRanges]

Scope(q) == IF q.kind = "lookup" THEN {q.row.key} ELSE {k \in Key : InRange(k, q.range)}

Session ==
    CASE cpc = "idle" -> [status |-> "none"]
      [] cpc = "done" -> [status |-> "answered", query |-> query, seen |-> snap,
                          answer |-> answer]
      [] OTHER        -> [status |-> "open", query |-> query, seen |-> snap]

Table == INSTANCE TransparentTable WITH published <- rootHash, session <- Session

\* While the operator reloads no table and InitializeTree is called, on this
\* or on the next process, under no sum, each step of the system is a step of the
\* transparent table or changes nothing in it: the table is published at the
\* instant the hash of the prefix tree root is recomputed, and retracted when
\* the tree is rebuilt or the server crashes.
Transparent == Table!TSpec

ClientTypeOK ==
    /\ cpc \in {"idle", "membership", "leaf", "request", "scan", "sums", "cut", "done"}
    /\ query \in [kind : {"none"}]
          \cup [kind : {"lookup"}, row : LookupRows]
          \cup [kind : {"sum"}, range : SumRanges]
    /\ snap \in [Key -> SUBSET Rows]
    /\ scanLen \in Nat /\ scanAt \in 0 .. scanLen
    /\ pairs \in SUBSET [at : Nat, key : Key, root : SUBSET Rows]
    /\ leaf \in SUBSET Rows
    /\ parts \in SUBSET [at : Nat, root : SUBSET Rows, rows : SUBSET Rows]
    /\ answer \in [status : {"none", "found", "notFound", "rejected", "failed",
                             "sum", "noEntries"}, rows : SUBSET Rows]
    /\ began \in [calls : 0 .. MaxCalls, idle : BOOLEAN]

TypeOK == ServerTypeOK /\ ClientTypeOK

=============================================================================
