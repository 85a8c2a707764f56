------------------------------- MODULE Loading -------------------------------
(***************************************************************************)
(* The way of the lines of a file into the prefix tree (server/server.go): *)
(* LoadTable's lines are inserted by goroutines in statements of several   *)
(* lines (AddToGivenSqlTable), AddToTree collects the values of the        *)
(* columns that it finds in the table, determinePrefixes combines them     *)
(* (DeterminePrefixes.tla) and goroutines build a sum tree for each        *)
(* combination.  TapServer has the same calls for one type column, with    *)
(* arbitrary statements and every step of the goroutines; here the numbers *)
(* are those of the code, and a goroutine of AddToTree is one step.        *)
(*                                                                         *)
(* A row of the table remembers which statement of which load inserted it, *)
(* so that two copies of a line are two rows.                              *)
(***************************************************************************)
EXTENDS DeterminePrefixes, Division

CONSTANTS
    Files,        \* the files: the number of columns and the lines; a line is
                  \* the list of its values, that of the time first
    TimeRanges,   \* the ranges of times, [lo, hi), that AddToTree is given
    MaxLoads      \* bound: the number of loads

ASSUME FilesAssumption ==
    \A f \in Files :
        /\ f.columns \in Nat \ {0}
        /\ f.lines \in Seq(Seq(Nat))
        /\ \A i \in DOMAIN f.lines : Len(f.lines[i]) = f.columns

VARIABLES
    lpc,         \* where the operator's call stands
    files,       \* the files loaded since the table was created
    table,       \* the rows of the table
    nextBatch,   \* c of each inserting goroutine
    loads,       \* number of loads so far
    range,       \* valRange[0] of the running AddToTree
    built,       \* the goroutines of AddToTree that are done
    filed        \* the sum trees built: their place in result, their rows

loadVars == <<files, table, nextBatch, loads>>
buildVars == <<range, built, filed>>
lvars == <<vars, lpc, loadVars, buildVars>>

Line(x) == files[x.load].lines[x.line]

LInit ==
    /\ uniques = <<>> /\ arrays = <<>> /\ stack = <<>> /\ result = <<>>
    /\ lpc = "failed"
    /\ files = <<>> /\ table = {} /\ nextBatch = [k \in Workers |-> 0] /\ loads = 0
    /\ range = <<0, 0>> /\ built = {} /\ filed = {}

-----------------------------------------------------------------------------
(* InitializeSqlTable and AddToSqlTable *)

StartLoad ==
    /\ loads < MaxLoads /\ loads' = loads + 1
    /\ nextBatch' = [k \in Workers |-> 0]
    /\ lpc' = "insert"

\* The table is dropped and created anew.  A server that is new, as the
\* first one is, begins with this.
InitializeSqlTable ==
    /\ lpc \in {"idle", "failed"}
    /\ \E f \in Files : StartLoad /\ files' = <<f>>
    /\ table' = {}
    /\ UNCHANGED <<vars, buildVars>>

\* The lines must fit the columns of the table.
AddToSqlTable ==
    /\ lpc = "idle"
    /\ \E f \in Files :
           f.columns = files[1].columns /\ StartLoad /\ files' = Append(files, f)
    /\ UNCHANGED <<vars, table, buildVars>>

Lines == Len(Last(files).lines)

\* Statement c of goroutine k; without lines none is issued.
InsertBatch(k) ==
    /\ lpc = "insert" /\ nextBatch[k] < BatchesPerThread(Lines)
    /\ table' = table \cup {[load |-> Len(files), line |-> i + 1,
                             by |-> <<k, nextBatch[k]>>] :
                                i \in Batch(Lines, k, nextBatch[k])}
    /\ nextBatch' = [nextBatch EXCEPT ![k] = @ + 1]
    /\ UNCHANGED <<vars, lpc, files, loads, buildVars>>

\* A statement that fails makes its goroutine panic, which ends the process.
InsertFails ==
    /\ lpc = "insert"
    /\ \E k \in Workers : nextBatch[k] < BatchesPerThread(Lines)
    /\ lpc' = "failed"
    /\ UNCHANGED <<vars, loadVars, buildVars>>

\* wg.Wait
Loaded ==
    /\ lpc = "insert"
    /\ \A k \in Workers : nextBatch[k] >= BatchesPerThread(Lines)
    /\ lpc' = "idle"
    /\ UNCHANGED <<vars, loadVars, buildVars>>

-----------------------------------------------------------------------------
(* AddToTree *)

MaxInt32 == 2147483647

\* The range of each column: every caller gives the types this one.
RangeOf(c, rg) == IF c = 1 THEN rg[1] .. rg[2] - 1 ELSE 0 .. MaxInt32 - 1

\* addAllUniques: the values of a column in the table, in any order.
ValuesOf(c, rg) == {Line(x)[c] : x \in table} \cap RangeOf(c, rg)

\* With a column that has no value nothing is built.
AddToTree ==
    /\ lpc = "idle"
    /\ \E rg \in TimeRanges :
           LET columns == 1 .. files[1].columns
               orders  == [c \in columns |-> SetToSeqs(ValuesOf(c, rg))]
           IN  /\ \A c \in columns : ValuesOf(c, rg) # {}
               /\ uniques' \in {u \in [columns -> UNION Range(orders)] :
                                    \A c \in columns : u[c] \in orders[c]}
               /\ range' = rg
    /\ arrays' = <<>> /\ stack' = <<Call(Slice(0, 0), <<>>)>> /\ result' = <<>>
    /\ built' = {} /\ filed' = {}
    /\ lpc' = "prefixes"
    /\ UNCHANGED loadVars

DeterminePrefixes1 ==
    /\ lpc = "prefixes" /\ Next
    /\ UNCHANGED <<lpc, loadVars, buildVars>>

Launch ==
    /\ lpc = "prefixes" /\ stack = <<>>
    /\ lpc' = "build"
    /\ UNCHANGED <<vars, loadVars, buildVars>>

\* getVals of an entry; one that has no rows gets no tree.
RowsOf(n) == {x \in table : Line(x) = result[n].vals}

BuildShare(k) ==
    /\ lpc = "build" /\ k \notin built
    /\ built' = built \cup {k}
    /\ filed' = filed \cup
           {[at |-> n + 1, rows |-> RowsOf(n + 1)] :
               n \in {m \in Share(Len(result), k) : RowsOf(m + 1) # {}}}
    /\ UNCHANGED <<vars, lpc, loadVars, range>>

Built ==
    /\ lpc = "build" /\ built = Workers
    /\ lpc' = "built"
    /\ UNCHANGED <<vars, loadVars, buildVars>>

Forget ==
    /\ lpc = "built"
    /\ lpc' = "idle"
    /\ uniques' = <<>> /\ arrays' = <<>> /\ result' = <<>>
    /\ range' = <<0, 0>> /\ built' = {} /\ filed' = {}
    /\ UNCHANGED <<stack, loadVars>>

LNext ==
    \/ InitializeSqlTable \/ AddToSqlTable
    \/ \E k \in Workers : InsertBatch(k)
    \/ InsertFails \/ Loaded
    \/ AddToTree \/ DeterminePrefixes1 \/ Launch
    \/ \E k \in Workers : BuildShare(k)
    \/ Built \/ Forget

LSpec == LInit /\ [][LNext]_lvars

-----------------------------------------------------------------------------
(* Properties *)

\* Whatever the goroutines' order and whichever statements fail: no line is
\* ever in the table twice, and when a load has returned each line of its
\* file is there (the division into shares and statements, wg.Wait, and the
\* drop before a load is repeated).
LinesAreInsertedOnce ==
    /\ \A x, y \in table : x.load = y.load /\ x.line = y.line => x = y
    /\ \A l \in DOMAIN files : \A i \in DOMAIN files[l].lines :
           l < Len(files) \/ lpc \notin {"insert", "failed"} =>
               \E x \in table : x.load = l /\ x.line = i

\* When AddToTree has built its sum trees, every row of the table whose time
\* and types are in the ranges is in exactly one of them, and the prefix of
\* that one spells the time and the types of the row.  The rows that have the
\* largest value of a column, as InitializeTree's ranges are half-open, are in
\* none, even if every other row is in one.
EveryRowIsFiled ==
    lpc = "built" =>
        \A x \in table :
            LET holding == {e \in filed : x \in e.rows}
            IN  IF /\ Line(x)[1] \in range[1] .. range[2] - 1
                   /\ \A c \in 2 .. Len(Line(x)) : Line(x)[c] < MaxInt32
                THEN /\ Cardinality(holding) = 1
                     /\ \A e \in holding : Contents(result[e.at].prefix) = Line(x)
                ELSE holding = {}

=============================================================================
