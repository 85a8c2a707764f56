# Verification of TAP, a transparent data service

This directory holds TLA+ models of the Go program in this repository, the TLC
configurations that check them on small instances, and theorems that TLAPS
checks for every value of the constants. `PROJECT.json` maps every definition to
the source lines it models and lists runs, mutants, hazards, findings and
theorems.

## 1. The system

TAP answers queries about a SQL table in a way a client can verify. An operator
loads rows into the table and builds a two-layer tree over them: one *sum tree*
per prefix (a time and one value for each type column) whose leaves commit to
the rows of that prefix, and above them a *prefix tree*, whose root hash stands
for the whole table. Clients verify answers against the root hash; auditors
check that the tree is well-formed.

| Component | State | Operations |
|---|---|---|
| SQL table (MySQL, no primary key) | rows | `AddToSqlTable`, `InitializeSqlTable` (drop, create, insert), inserted in batches by up to 100 goroutines, no transaction |
| Server, writer side (`server.go`) | `prefixTree`, `prefixes`, `commitmentTrees` | `InitializeTree`, `AddToTree`: collects unique values, computes prefixes, goroutines build sum trees and append to the two lists under a mutex, then all are appended to the prefix tree |
| Server, query side (`server.go`) | none; reads the above, and the table once more | root hash, membership proofs, `RequestPrefixes` (list and set completeness proof), sums, minima, maxima, quantiles, commitments with range proofs |
| Prefix tree (`prefix_tree.go`) | nodes with partial prefixes, parent pointers, hashes | `PrefixAppend`, proofs, their verification |
| Sum tree (`commit_tree.go`) | nodes with sums of commitments, built anew for each request | building, membership proof, root reconstruction |
| Client (`client.go`) | one query at a time | look-up, sum, count, average, minimum, maximum, quantile, with verification |
| Auditor (`auditor.go`) | prefix tree rebuilt from the list | `CheckPrefixTree`, `CheckAllCommitTrees`, `CheckRangeProofs` |
| Cryptography (`crypto/`) | none | secp256k1, Bulletproofs, range proofs for any interval |
| Network (`network/`, `cmd/dbsvc`) | none | the server is a process of its own; HTTP handlers call its methods, one goroutine per request, no locks; a client panics when a request fails |
| Table factory, experiments, Merkle^2 baseline | | not part of the service |

**How they interact.** The operator (`main.go`) issues calls one after the
other: load the table, `InitializeTree`, then per epoch `AddToSqlTable` and
`AddToTree` with the range of the new times. Requests of clients and auditors
run concurrently with these calls on goroutines of their own. The server has no
lock except the mutex inside one `AddToTree` call, keeps no snapshot, and takes
the data of sum trees from the SQL table at the time of the request. A client
query is several requests: root hash, then list and proof, then data. Errors
are not handled: a failed statement or an index out of range panics, in a handler
it costs the request, in a goroutine that the handler started it ends the
process. Tree, lists and column names live in memory only, the table survives.

**What is hard.** Interleavings of the stores of a writer with the reads of a
handler inside one data structure; the three reads of one query at three points
in time; two lists that must stay aligned; divisions of work among goroutines;
the independence of the root hash from the order in which goroutines deliver;
reloads in the middle of a query; an end of the process in the middle of
anything, and the restart; loads that are repeated; arithmetic at boundaries. The list, with
lines, is under `hazards` in `PROJECT.json`.

**What makes the components correct.** Server: every prefix in the range of a
call gets into lists and tree exactly once, the lists match the tree between
calls, calls return. Prefix tree: the root hash is a function of the set of
leaves; whatever proof verifies against a root hash says what that root
commits to, even if the tree changed while it was made; undisturbed proofs
verify. Client: an accepted answer is the answer about the rows committed to by
the root hash it read first; an undisturbed query is answered. Auditor: passing
means the tree is right; an undisturbed audit of a right tree passes.

## 2. Modules

| Module | Models | Runs |
|---|---|---|
| `TransparentTable` | abstract: the promise to a client | property `Transparent` of `TapClient` |
| `TapServer` | table, writer side of the server, goroutines, lists, prefix tree as a map | `server` |
| `TapClient` | look-up and sum queries as sequences of requests, composed with `TapServer` | `client`, `client_lookup`, `client_reload_sum` |
| `TapAuditor` | audits, composed with `TapServer` | `auditor` |
| `PrefixMap` | abstract: the prefix tree as `TapServer` has it | property `ActsAsMap` of `PrefixTree` |
| `PrefixTree` | the tree node by node, store by store, and the proofs about it, read by read | `prefix_tree`, `nil_sibling` |
| `PrefixTreeHashes` | what the root hash of a map is by the definition of a compressed trie, and `PrefixTree` seen as a `PrefixMap` | `prefix_tree_writer` |
| `SumTree` | the sum tree and its proofs, as operators | (used by `OrderQueries`) |
| `OrderQueries` | sums, minima, maxima and quantiles over sum trees, with their verification | `orders`, `third_quartile` |
| `RangeProof` | abstract: audits over ideal range proofs; commitments modulo the group order | property `ImplementsRangeProof` of `Bulletproofs` |
| `Bulletproofs` | the same audits and the client's leaf proofs with Bulletproofs and inner-product arguments in full | `range_proof` |
| `DeterminePrefixes` | prefixes as Go slices | (composed in `Loading`) |
| `Division` | the shares and statements into which work is divided, as operators | (used by `Loading`) |
| `Loading` | a file's way through the table into the sum trees, composed of the two above | `loading` |
| `..._proofs` | theorems about the module of that name | |

`TapClient` and `TapAuditor` EXTEND `TapServer`; their next-state relations are
the server's or one of their own steps. The other modules look inside what
these treat as one step: `PrefixTree` justifies how `TapServer` has the prefix
tree, `Loading` its insertions in arbitrary batches and its list of prefixes,
`Bulletproofs` the ideal proofs of `RangeProof`, and `OrderQueries` takes over
where `TapClient` has verified the list of prefixes.

### State and actions

**TapServer.** `db` is the set of SQL rows; rows have a user, a key (time and
type: one type column) and a value. `prefixes` and `trees` are the two slices,
with the reads and stores of `append` as separate steps. The tree is a map from
prefixes to root hashes; a root hash of a sum tree is the set of rows it was
built from. `calls`, `opPc`, `opRange` are the operator; `todo`, `wpc`,
`wroot`, ... the goroutines. `DROP` and `CREATE TABLE` are one step, insertions
come in arbitrary batches. `Split` and `Attach` stand for the time in which a
node of the prefix tree is being split, `Rehash` for the recomputation of the
hashes; a proof made in between may or may not verify, as `PrefixTree` shows.
`Crash` is the end of the process, possible at any moment: lists, tree, the
running call with its goroutines and the rest of its rows are gone, the rows
inserted so far remain. `stage` tells what a new process has: nothing (`new`), a
tree but not yet the names of the columns (`tree`, between the stores of
`InitializeTree`), or all (`ready`).

**TapClient.** One query at a time: `query` is what is asked, `snap` the root hash it
read first, `answer` how it ended. `Ask...` reads the root hash, `LookupPrefix` and `LookupLeaf`
are the two requests of a look-up, `RequestPrefixes`, `ScanPrefix` (one entry of
the list per step, as the loop of the handler reads it) and `VerifyPrefixSet`
the list and its proof, `SumPart` the read of one prefix, `VerifySum` the end.
As queries change nothing, one client is enough. The client outlives the server:
its query may begin on one process and go on with the next. A crash cuts the
request that is being handled (`CutOff`, `Panic`), a new server panics or reads
wrong columns (`SumPartOfNew`), and a failed request makes the client panic
(`Fail`).

**TapAuditor.** `CheckPrefixTree` reads the root and the list, rebuilds the tree and
compares; `CheckAllCommitTrees` reads the list and checks the sum tree of each
entry against the table. `CheckCommitTree` is both halves of the code's verdict,
`rootHashValid && rangeProofsValid`: the rows of the table, in one of their orders
by value, must have the listed root, and the range proof for each two neighbours
must verify, which it does for a step below BP_MAX; a proof for two neighbours with
equal seeds makes the auditor panic (`CheckRangeProofs`, what comes of one proof
being the subject of `RangeProof`). An audit is cut off by a crash as a query is.

**PrefixTree.** Nodes are records in a heap; a writer performs the stores of
`PrefixAppend`, `splitCompressedNode`, `addChild` and `updateHashesFromLeaf` one
at a time; the descent, which reads only what the writer has written, takes one
round per step (`NextChild`). A reader makes one proof at a time. `Descend` and
`Match` are the rounds of `getLeaf`. `buildCopathFromNode` is taken read by read,
with what a round has read so far in `round`: `getSibling` reads the first bit of the
node (`ReadBit`), its parent (`ReadParent`) and the child on the other side, once to
see whether it is nil (`ReadSibling`) and, if not, all over again for its hash
(`ReadSiblingAgain`, where nil is a panic, and `ReadHash`); then the parent is read
twice more, for the side (`ReadSide`) and for its partial prefix (`ReadPrefix`), and
a last time to go on from there (`Climb`). `ReadLeafPrefix` and `VerifyMembership` read
the leaf. `CopyNode` and `ExtendSetCompletenessProof` copy one node of a set completeness
proof in two steps, because the code reads the partial prefix once for the copy
and once more for the comparison with the range. Hashes are terms, so equal
hashes mean equal contents; `Committed` is what a root hash stands for, read
off the hash level by level.

**OrderQueries.** The client holds the verified roots of the table `committed`.
`Read` is `getVals` for the next prefix; `Verify` the rest of the request and
the verification. Trees, copaths, reconstructed roots and counts are computed as
the code computes them, on small tables.

Rows may be inserted that are there already, as a file can be loaded twice.

**RangeProof.** A commitment is a value and a seed modulo the order; a
Bulletproof for [0, 2^N) verifies exactly if the value is in that range.
Commitments are added by `Plus`, which is the code's `Add`: it turns two equal points,
or a right one at infinity, into infinity. The client and the auditor add a
commitment with seed `DUMMY` on both sides of a comparison, and these sums are in
the model.

**Bulletproofs.** A point is the list of its exponents over independent
generators, so that equations between points are equations between vectors modulo
the order. `Prove` and `VerifyBulletProof`, and the recursion of the
inner-product argument with its folding of generators, follow the code equation
by equation, with its two ways to add points (`Add` loses equal points,
`Multiply` does not). The random numbers are any: all goroutines of the server
share and reseed one generator. `Check` also overwrites the point `P` of a proof,
as the code's `Verify` does.

**DeterminePrefixes.** `arrays` is the heap of byte arrays, `stack` the recursive
calls. Capacities grow as Go's `append` lets them grow for these sizes (4, 8, 16
bytes).

**Loading.** `InsertBatch(k)` is the next INSERT statement of goroutine `k`, with
the lines that the code's arithmetic gives it; `InsertFails` a statement that
fails, which ends the process. A row of `table` remembers the statement that
inserted it, so that a line inserted twice shows. `AddToTree` collects the values
of each column, the steps of `DeterminePrefixes` combine them, and `BuildShare`
files the rows of a goroutine's share of the result.

## 3. What the runs show

| Run | Result |
|---|---|
| `server` | all call kinds, crashes and restarts, three calls: each prefix in the range is added in full, the lists agree with the tree between calls, every leaf is listed; under fairness calls return and what they add is published, or the process has ended |
| `client` | while rows and epochs are added, the server ends and is initialised anew, and the tree is rebuilt, also under look-ups but not under sums (`SteadySpec`), server and client implement `TransparentTable`; accepted sums and found rows are what the root hash commits to; undisturbed queries are answered |
| `auditor` | also across crashes and restarts: a quiet audit passes, of the sum trees if their neighbours have different seeds and steps below BP_MAX; what an audit calls valid is in the table, without a gap of BP_MAX |
| `prefix_tree` | proofs made during appends: none of the panics that the code calls for, and a nil sibling (see `nil_sibling`) only while the node's new parent waits for its second child; between appends the tree is the trie of what was appended; a value that verifies is the one committed to, the entries of a set that verifies are committed, and are all of the range if nothing disturbed the request; undisturbed means verified and right |
| `prefix_tree_writer` | the root hash after up to five appends of any keys in any order is that of the map they make; each store is a step of `PrefixMap` |
| `range_proof` | the equations hold exactly for values in range, whatever was drawn, so the audit is that of `RangeProof` and passes exactly for ordered leaves with steps below BP_MAX; a client accepts the proof for a leaf exactly for the intervals it is in |
| `orders` | all query kinds while rows are inserted and the table is dropped, refilled or replaced, also with rows that are there twice and with values of BP_MAX: accepted answers over non-empty prefixes are right; undisturbed queries about ordinary tables are accepted |
| `loading` | whichever statements fail and however the goroutines interleave: no line is inserted twice, a load that returned has inserted all, prefixes spell their entries, and each row with a time and types in the ranges is filed in exactly one sum tree, under its own prefix, any other in none; with up to two type columns |

### Findings (runs that expect a violation)

| Run | What the code does |
|---|---|
| `client_lookup` | a look-up that falls into the split of a node says, without an error, that a committed row does not exist |
| `client_reload_sum` | a sum during a reload leaves out prefixes without rows although the verified root says they have some |
| `nil_sibling` | a membership proof panics at a nil pointer (`prefix_tree.go:485`): `buildCopathFromNode` sees a sibling, the node is split and hung under a new parent, and the second call of `getSibling` finds no other child there |
| `third_quartile` | quantiles above the median are rejected (`client.go:737`), although `client_test.go:277` asks for one |

Other divergences met while modelling, which no run is about; the models do what
the code does, on inputs that avoid them or to properties they do not disturb:

* `server.go:394` appends to a prefix that shares its array. From the third type
  column on there is room in it, and the prefixes of one time and two types all end
  with the last value of the third column, although `typeFieldsIdxs` may name any
  number of columns. With `<<<<0>>, <<0>>, <<0>>, <<0, 1>>>>` among the `Schemas` of
  `DeterminePrefixes` TLC refutes `PrefixesSpellTheirEntries`; the tables of the
  repository have at most two, as those of `loading`.
* `client.go:705-711` counts a tree without a leaf up to the quantile as one leaf
  (a missing proof arrives as an empty one, never as nil). The total is a
  threshold of the client's checks and no part of the answer that
  `AnswersAreRight` is about.
* `commit_tree.go:181` finds the side of a node by its hash, and `p256.go:104`
  adds equal points to infinity. If one row is in the table twice (it has no
  key), queries may be rejected: `UndisturbedIsAccepted` of `orders` is about
  tables without such rows, `AnswersAreRight` about all.
* `common_functions.go:121` leaves the first commitment out of the hash. With
  `N_MOMENTS = 1` (`server.go:28` allows it) TLC refutes both properties of
  `orders`; the run has three moments, as the code.
* `client.go:491` proves a minimum for `[min, BP_MAX)`, so a value of `BP_MAX`
  itself cannot be one.
* `server.go:185` limits the size of a statement by a division that gives a number
  of statements instead. The comment of line 181, "with a maximum of 100 entries
  per batch", is wrong as soon as a goroutine has more than 100^2 lines: theorem
  `LimitExceeded`.
* `server.go:503` and the callers of `AddToTree` give the types the range
  `[0, MaxInt32)`, which `main.go:80` explains as "and all other entries". The rows
  with a type of `MaxInt32` are in no tree; experiment 2b (`main.go:571`) has a
  table whose first district is that (`table_factory.go:57`). `EveryRowIsFiled`
  states it both ways, over a file with such rows.
* A proof for two leaves with equal seeds has a point without coordinates, at
  which the auditor panics (`server.go:580`); a leaf whose seed is `DUMMY` may be
  refused by the client (`client.go:347`, theorem `LeafProofRefused`). `RangeProof` and
  `TapAuditor` have the panic as a verdict; `LeafProofsAgree` and
  `LeafProofComplete` except that seed, `QuietSumTreeAuditPasses` equal ones.
* A step of BP_MAX or more between two rows of a prefix makes the audit of a right
  sum tree invalid (`auditor.go:147`). `QuietSumTreeAuditPasses` excepts it, and
  `ValidMeansInTable` says what its absence tells.
* `CheckHash` (`prefix_tree.go:286-307`) does not compare the hash of a copied node
  without children. A set completeness proof that falls into a split, after
  `splitCompressedNode` has cut the node's partial prefix, may verify although it
  leaves out the leaves below that node; therefore `VerifiedSet` promises that
  nothing is left out only of undisturbed requests. The client still rejects, as
  long as the list of prefixes has what the proof lacks. During
  `InitializeTree` it has not: with `Spec` in place of `SteadySpec` TLC refutes
  `SumIsCommitted` of `client`, by an accepted sum, or "no entries", that leaves
  out prefixes.
* Between the stores of `InitializeTree` on a restarted server the column names
  may be set and the indices into them not yet; a sum that began before the crash
  may then read no rows and is accepted without them, for the reason of
  `client_reload_sum`. `SteadySpec` excludes this too.
* `HashBP` (`bulletproofs/util.go:73`) computes its second digest from the buffer
  of the first, so both challenges are equal; `bip.go:260` overwrites the
  parameters of a proof, so that it verifies only once. Both are modelled and
  disturb no caller.

### Bounds, and why they are enough

Two times and two types (one type in `client`, so that three calls fit) give a
query range with a prefix inside and one outside, and two prefixes that share a
first field, the case in which a node of the prefix tree is split. Two rows in
one prefix distinguish a stale sum tree from a current one. In `auditor` three rows
share a prefix; some of them are BP_MAX apart, some have equal seeds, and an
insertion can put a row between two that were. A crash counts as a
call (`MaxCalls`): two or three let a call, or a crash and a restart, come before,
during and after a query. Two or three goroutines give every order on the lists,
and shares of unequal size. In `PrefixTree` three keys give a split at the root, below the root
and none; five keys (writer only) give deeper trees and chains of splits. `OrderQueries` has
over twenty tables of one to five rows in two prefixes, with equal values in a prefix
and two rows that differ only in their commitments, so that trees have complete,
incomplete and single-leaf shapes; seeds are powers of two so that no two sums
are equal by accident. Two changes put a drop and a refill, or an insertion and a
replacement, between any two reads. In `loading` three goroutines and files of 0,
3, 4, 8 and 13 lines give empty shares, statements cut at the end of a share and
of the file, and, as the longest file needs statements larger than the maximum of
2, the other branch of the limit; one file has types at and below `MaxInt32`; two loads (`MaxLoads`) a repeated one and one
into a filled table. `range_proof` has ranges of 4 bits, so two rounds of folding,
in a group of order 1009, in which none of the verifier's equations holds by
accident for the values, seeds and hashes of the run. Every bound is a constant of a `.cfg`.

`CHECK_DEADLOCK FALSE` stands only where the system may stop: when the operator
issues no more calls and nobody queries (`server`, `prefix_tree_writer`,
`loading`), when the server has ended for good (`client`) or an audit has ended
(`range_proof`).

### Fairness

`server` assumes weak fairness of the steps of a call
that was issued and of each goroutine: the Go scheduler runs every runnable
goroutine, and `sync.Mutex` does not starve a waiting one. Nothing obliges the
operator to issue a call, or the server to crash. No other run assumes fairness; the other properties are
about safety.

## 4. What is proved

Each theorem holds for every value of the constants that the ASSUMEs of the
modules allow, under the hypotheses named with it.

### The core

* `TapServer_proofs`, without hypotheses: `ServerTypeCorrect` — the type invariant
  for any times, types, rows, ranges, numbers of goroutines and calls, which
  includes that a goroutine at work has something to do; `EveryLeafListed`
  (`EveryLeafIsListed`), `ListsAgree` (`ListsAgreeWithTree`), `AddedFull`
  (`AddedInFull`). What holds between calls says nothing of a call at work, so
  `ListsInv` says how far it is: a goroutine is in the critical section exactly if
  it has the mutex (`Exclusive`), what it has read is what it overwrites and what
  it has stored is last in the lists (`ListsInHand`), the entries of `newLists`, which the operator
  appends to the tree, are the last of both lists (`NewAreLast`), and the tree has the last root listed for each
  prefix among the older entries and those appended so far (`TreeOfLists`). `FullInv` adds
  that a goroutine ends with nothing to do (`DoneIsEmpty`), that each prefix in the range that has
  rows is with a goroutine or in `newLists` (`TakenOrDone`), and that the appended
  ones are leaves (`AppendedAreLeaves`).
* `TapClient_proofs`: `TypeCorrect`; `FoundCommitted` — a successful look-up is
  about a committed row, whatever the operator does and whenever the server
  crashes or restarts; `SumCommitted` — an accepted sum covers exactly the
  committed rows of its range, if no table is reloaded (`CallKinds` without
  `InitializeSqlTable`; crashes and restarts are allowed) and `InitializeTree` is not
  called under a sum, neither on this nor on a new server (`SteadySpec`);
  `TransparentCorrect` — under the same assumptions the composition implements
  `TransparentTable`. A set completeness proof that verifies in the middle of a
  split may leave out the prefixes below the node that is split, but these are
  still in the list the client compares it with (`SnapListed`), so it rejects. The inductive invariant says that while a query runs, what it has verified so
  far is a part of the root it read first, that every published root is a set of
  rows still in the table (which is where reloads are excluded), that rows
  read for an entry with the committed root are those rows, and that no sum is
  read between the stores of a restart (`NotBetween`: with the names of the columns
  set and their indices not yet, `getVals` may find no rows, and a sum without them
  is accepted as during a reload; but a sum that began then has read the hash of an
  empty tree, and no list is verified against that).
  `QuietAnswered` — `UndisturbedIsAnswered` without
  hypotheses — needs all the server's invariants, and what a client has at
  each of its steps while nothing else happens (`QuietQuery`): the entries it has
  seen are those of the list up to its position, and each part of the sum has the
  rows of its entry. `StageInv` says that a process without names of columns has
  published no leaf, `BeganInv` that the number of calls tells whether one was
  issued since the query began.
* `TapAuditor_proofs`: `AuditTypeCorrect`; `QuietTreeAudit` and `QuietSumTreeAudit`
  — undisturbed audits pass, those of the sum trees if no prefix was listed twice, no
  row came after its tree and `Provable` holds of the rows (different seeds and steps
  below BP_MAX between neighbours), and if the range that `InitializeTree`
  (`server.go:502-505`) and the auditor share, `FullRange`, leaves out no key (the
  code's is `[0, MaxInt32)` for every column); `ValidAuditVouches` — what an audit has called valid is in
  the table, without a gap of BP_MAX between the values, if no table is reloaded (`CallKinds` without `InitializeSqlTable`;
  crashes and restarts are allowed).

* `PrefixTree_proofs` and `PrefixTreeHashes_proofs`, without hypotheses: `TypeCorrect`, `NoPanicCorrect`
  (the panics that the code calls for; the nil pointer of `nil_sibling` is none of them),
  `StaysTrieCorrect`, `UndisturbedCorrect`, `HashTellsMap`, `HashStandsForContent`,
  `HashCanonicalCorrect`, `ActsAsMapCorrect` and `VerifiedSetCorrect`, for keys of any
  length, any number of appends and any interleaving of a client's reads, as the
  module has them, with the writer's stores. The argument is below.

### The prefix tree

The invariant of the writer, `TreeInv`, is about every moment of
`splitCompressedNode`, not only those between calls. Each node has as history
the prefix it stands for (`key`). `ChildrenFit` says that a child continues the prefix of
its parent, `EachIsAChild` that every node is one, except the node that is being
split while no pointer leads to it, `OthersAreFull` that only the root and the new parent
may lack a child, `Distinct` that no two nodes stand for the same prefix.
`Covers` is what makes a descent right: whatever continues a node's prefix is found through
its child on that side, or, while the new parent of a split has no children yet,
through the node that will be its child. `JobFits` says what the writer has found
out, `HashesFit` which hashes wait for `updateHash`, `ContentFits` that the
leaves are those of the map but for the key at work. `ReaderInv` is what a
client that stands at a node relies on, and `NodesStay` why the writer does not
disturb it: nodes stay, stand for the same prefix, and their partial prefixes get no longer.
`TypeCorrect`, `NoPanicCorrect` and `StaysTrieCorrect` follow.

`QuietInv` says how far a request is while no append has run since it began: how
much of the key is matched, that the copath hashes up to the node the climb is
at, and that the copies of a set proof are those of the nodes, linked as these
are. It gives `UndisturbedCorrect`.

What a root hash stands for, `Committed`, is read off its levels. `CommittedIsMap`
says that of a trie it is the map, so two tries with equal root hashes hold the
same values (`HashTellsMap`), and between calls the root hash commits to what was
appended (`HashStandsForContent`).

`HashCanonicalCorrect` is the converse: the order of the appends does not show in the
root hash. `RootHashOf` gives the hash of a map without a tree, from the whole keys up,
one bit at a time: a place (`Spots`) is a prefix and how much of it the node above
stands for, and only where both sides have something is there a node. At every place
between a node of the tree and the one above, this is the hash stored in the node
(`HashBelow`), by a least counterexample over the bits that are left: what the map has
under a node's prefix is found below the node (`BeginsUnderChild`) and something is
(`LeafBelow`), so that both sides begin at the node itself (`HashAtNode`, `HashAtLeaf`) and
only one before (`HashInside`).

`ActsAsMapCorrect` is the refinement: under the mapping of `PrefixTreeHashes` every
store of `PrefixAppend` is a step of `PrefixMap` or a stutter, also while clients read.
`Unreachable` is defined by the walk of `getLeaf`, round by round; while a node is being split
it is exactly the leaves under that node (`HiddenAreCut`), which are some
(`SomeAreCut`), and otherwise there is none (`NoneHidden`). One direction shows that
the walk, from wherever it stands, goes on to the leaf (`OnwardToLeaf`), the other that
it never enters what is cut off (`OnwardStands`). The root hash is stored by the last
`updateHash` only (`WriterClimb`), and it then stands for all the leaves
(`HashAtRest`); until the leaf is stored it stands for the leaves as well (`RootMapFits`).

What a root hash read before stands for while the tree changes is needed for proofs
that are put together meanwhile: it is the hash of some former tree `T` (`RootStands`,
`IsSnapshot`). `ClimbInv` adds that a hash covers the partial prefix of its node,
except in the middle of a split (`HashesSpell`), that a partial prefix does not
overlap the prefix of the parent that the pointer leads to (`ParentsFit`), and that the
new parent of a split has no hash yet.

`VerifiedSetCorrect` is about copies that form a tree, each made
in two steps: the server reads a node for the copy, and later its partial prefix
once more for the comparison with the range. `CollectFits` says
that every copy but the first is linked to an earlier one (`CopiesLinked`), that the prefix
the server has pieced together is the client's or, where a split came between
the two reads, a shorter one (`Shortened`), that the calls still to be made are
for sides of copies that are empty, no two for the same (`CallsFit`), and that the
root hash is of some trie `T` (`SeenStands`). If the client's comparison passes, every copy
has a hash of `T`, or of a node whose prefix it completes (`Stands`): the root's
copy does, and a copy that does hands it on to its children, as `CheckHash` has compared
its hash, which is made of theirs; the least copy that does not is the contradiction. An entry that
the client accepts is then a leaf of `T`: the hash of a leaf tells its partial
prefix and value, so the prefix is as long as it must be, and the short one is
excluded (`FoundIsCommitted`). That nothing is missing needs the quiet invariant:
`IsCopyOf` with the prefixes and children of each copy, so that
from the root the copies go on to every leaf in the range (`LeafIsCopied`), again by
a least counterexample, now of the bits that are left. Both need what
`DoesPrefixOverlapRange` computes: it is true of every prefix of a key
in the range (`PrefixesOverlap`), and of a whole key exactly if that is in the range
(`OverlapOfKey`), by the monotony of the value of a field in the bits not yet read.

### The rest

* `RangeProof_proofs`: `LeafProofSound` and `LeafProofComplete` — a leaf's range
  proof verifies for a value in the interval, and only then, for every order,
  range, interval and seed but `DUMMY`; `LeafProofRefused` — with that seed the proof of
  twice the lower end is refused, as `Add` is given the same point twice; `AuditSound` — a passed audit has shown the leaves to be in
  order; `AuditComplete` — a rejected one had leaves out of order or too far apart.
  The invariant says that the lists of the audit are those of the tree
  and that everything before the current position is in order; `CheckSound` is
  the step: a difference that wraps around the order is too large for the first
  range.
* `DeterminePrefixes_proofs`: `PrefixesSpelled` — with at most two type columns
  every prefix spells its entry, which is a statement about who shares an array.
  `ArraysInv` says that every prefix in use spells its values and that its array is full whenever it
  is appended to, so that `append` copies; with a third type column it is not.
  `CombinationsComplete` — for any number of columns with distinct values
  each combination is returned once: `EntriesInv` says which combinations the
  loops have passed (`Past`).
* `Loading_proofs`: `NoLineTwice` and `EveryLineOnce` — the arithmetic of the
  division: the statements of a load are disjoint and cover the file, for every
  number of lines and goroutines and every limit; `LimitExceeded` — the limit is
  none; `LoadedOnce` — `LSpec => []LinesAreInsertedOnce`. What is to be shown says
  little of a load that is still running, so the inductive invariant `LoadInv`
  adds that every row of the table came by a statement of its load that has the
  row's line, and that the lines of each goroutine's statements so far are in
  the table. `RowsAreFiled` (`EveryRowIsFiled`) and `LoadedPrefixesSpelled`, for files with at most
  two type columns, put the two modules together: the columns have the values
  of the table's rows (`ColumnsInv`), each combination of them is one entry
  (`CombinationsComplete`'s invariant), the shares cover the entries without
  overlap, and a goroutine files the rows of its entries under prefixes that
  spell them (`FiledInv`).

Assumptions: the ASSUMEs of the modules (finite sets of times, types and rows;
at least one goroutine and one row per statement; keys of one length in whole fields, and in
a query one range for each field, as `server.go` and `client.go` make them; 2 * BP_MAX at most 2^N, and 2^N and the values below half
the order of the group).

### What is only model-checked, and why

* Liveness (`CallsReturn`, `InsertedIsPublished`): fairness is beyond the prover.
* `VerifiedMembership` and `NilOnlyInSplit` of `PrefixTree`: the copath is put together
  from reads of different moments, some of parents that are no longer the node's.
* The properties of `OrderQueries` and `Bulletproofs` with its refinement of
  `RangeProof`: sum trees and inner-product arguments are computed by recursion.

What recursive *functions* compute (`RebuildRootHash`, `Levels`, `FieldValue`, `TrieHash`, `Walk`) is proved without
induction, by a least counterexample (`NatMin`).

## 5. Abstractions, and what is not modelled

* Hash functions and commitments are injective; proofs cannot be forged. The
  server is the program in this repository. Whether an adversarial server could
  cheat is a question for cryptographic analysis.
* Data races are modelled at the granularity of single stores and, in `PrefixTree`,
  of single reads of the fields of nodes; torn reads of slices and interfaces are
  not. Still one step are: a node's copy in a set completeness proof (partial prefix,
  hash and value are compared with the copied hash afterwards, `CheckHash`); the
  comparison of the loop of `buildCopathFromNode` (line 482), whose parent is nil only
  for the root, which stays the root; in `getLeaf` the reads of one child's pointer,
  and of its partial prefix. In `TapServer` the handlers read the lists entry by entry
  and the tree as a map.
* One type column in `TapServer`; values below 2^31, so the right child of the
  prefix tree's root stays empty and `CheckHash` (`prefix_tree.go:300`) never
  meets an interior node with a right child only.
* Quantile positions are exact; floating-point rounding for other than powers
  of two is not modelled. Higher moments that overflow are never used.
* `sort.Slice` is stable for the short slices considered.
* One operator: two concurrent `AddToTree` calls are not modelled, as no caller
  makes them.
* In `TapServer` a batch of an insertion is any set of the rows that are left, more
  than `Loading` shows to happen. A statement is atomic, as in InnoDB. An operator
  repeats a failed load by `InitializeSqlTable`, as `main.go` begins every run.
* A crash keeps what the database has acknowledged; the database does not crash.
* Floating-point quotients of the division are exact below 2^53 for the small
  numbers in question.
* Not modelled: file parsing, JSON formats, HTTP transport, timestamps and
  bandwidth accounting, `GenerateNonMembershipProof` (never called), the table
  factory, the experiments and the Merkle^2 baseline.
* The curve arithmetic and the hash to a point are assumed: generators are
  independent, addition is that of a cyclic group except where the code's `Add`
  is not.

## 6. Plan

1. (done) `TapServer`, `TapClient`, `TransparentTable`, `TapAuditor`: the core.
2. (done) `PrefixTree` with `PrefixMap`: what the core assumes about the tree.
3. (done) `RangeProof`, `SumTree`, `OrderQueries`, `DeterminePrefixes`.
4. (done) `Bulletproofs` below `RangeProof`; crashes and restarts in the core;
   `Division` and `Loading` with the theorem that a load is complete.
5. (done) The lists of `TapServer`, undisturbed queries and audits, prefixes, the
   filing of rows: theorems.
6. (done) `PrefixTree`: recursive functions instead of recursive operators; the
   invariants of the writer and of the requests.
7. (done) Verified set completeness proofs: `VerifiedSetCorrect`.
8. (done) `HashCanonicalCorrect` and `ActsAsMapCorrect`, with the hash of a map and the walk
   of `getLeaf` as recursive functions.
9. (done) `buildCopathFromNode` read by read; range proofs in the audits of `TapAuditor`;
   restarts and rebuilt trees under look-ups.
10. Next proofs: `VerifiedMembership` for copaths of single reads; `OrderQueries`, once the
   sums of `SumTree` are functions.
11. Possible models: JSON round trips of proofs (`serialize.go`); the experiments'
   epochs with a monitoring client.
