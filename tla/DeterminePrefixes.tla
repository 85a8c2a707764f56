-------------------------- MODULE DeterminePrefixes ----------------------------
(***************************************************************************)
(* The prefixes of AddToTree (determinePrefixes, server.go), which are Go  *)
(* slices: a pointer to an array that other slices may share, and a        *)
(* length.  append writes into the array if it has room, and copies the    *)
(* slice to a larger one if it has not.                                    *)
(*                                                                         *)
(* Arrays are numbered in the order of their allocation and never freed.   *)
(* Sizes are in words of four bytes, the width of a column.                *)
(***************************************************************************)
EXTENDS Integers, Sequences, SequencesExt

CONSTANT Schemas     \* the unique values of each column, that of the time first

\* AddToTree does not use the result if a column has no value in its range.
ASSUME SchemasAssumption ==
    Schemas \subseteq Seq(Seq(Nat) \ {<<>>}) \ {<<>>}

VARIABLES
    uniques,     \* one of the schemas
    arrays,      \* the contents of each array up to its capacity
    stack,       \* the active calls, the outermost one first
    result       \* the entries found so far

vars == <<uniques, arrays, stack, result>>

-----------------------------------------------------------------------------
(* Slices *)

Slice(array, len) == [array |-> array, len |-> len]
Contents(s)       == SubSeq(arrays[s.array], 1, s.len)

\* append(s, x): the new slice, and the arrays afterwards.
Append1(s, x) ==
    IF s.len < Len(arrays[s.array])
    THEN [slice  |-> Slice(s.array, s.len + 1),
          arrays |-> [arrays EXCEPT ![s.array][s.len + 1] = x]]
    ELSE [slice  |-> Slice(Len(arrays) + 1, s.len + 1),
          arrays |-> Append(arrays, [n \in 1 .. 2 * s.len |->
                         IF n <= s.len THEN arrays[s.array][n]
                         ELSE IF n = s.len + 1 THEN x ELSE 0])]

-----------------------------------------------------------------------------
(* A call has a prefix, the values that should be in it, and the number of  *)
(* values of the next column that it has gone through.                      *)

Call(prefix, vals) == [prefix |-> prefix, vals |-> vals, i |-> 0]

Top == Last(stack)

\* The column that the innermost call is to append.
Column == Len(stack)

Init ==
    /\ uniques \in Schemas
    /\ arrays = <<>>
    /\ stack = <<Call(Slice(0, 0), <<>>)>>
    /\ result = <<>>

Advance == [stack EXCEPT ![Len(stack)].i = @ + 1]

\* The outermost call makes a new array for each time.
NextTime ==
    /\ Len(stack) = 1 /\ Top.i < Len(uniques[1])
    /\ LET time == uniques[1][Top.i + 1]
       IN  /\ arrays' = Append(arrays, <<time>>)
           /\ stack' = Append(Advance, Call(Slice(Len(arrays) + 1, 1), <<time>>))
    /\ UNCHANGED <<uniques, result>>

\* Mutant of NextType: the prefix of the call is replaced by the longer one.
NextTypeInPlace ==
    /\ 1 < Len(stack) /\ Column <= Len(uniques) /\ Top.i < Len(uniques[Column])
    /\ LET val == uniques[Column][Top.i + 1]
           new == Append1(Top.prefix, val)
       IN  /\ arrays' = new.arrays
           /\ stack' = Append([Advance EXCEPT ![Len(stack)].prefix = new.slice],
                              Call(new.slice, Append(Top.vals, val)))
    /\ UNCHANGED <<uniques, result>>

\* The other calls append the next value of their column.
NextType ==
    /\ 1 < Len(stack) /\ Column <= Len(uniques) /\ Top.i < Len(uniques[Column])
    /\ LET val == uniques[Column][Top.i + 1]
           new == Append1(Top.prefix, val)
       IN  /\ arrays' = new.arrays
           /\ stack' = Append(Advance, Call(new.slice, Append(Top.vals, val)))
    /\ UNCHANGED <<uniques, result>>

\* The innermost call adds an entry.  The values are copied, the prefix is not.
AddEntry ==
    /\ Column > Len(uniques)
    /\ result' = Append(result, [prefix |-> Top.prefix, vals |-> Top.vals])
    /\ stack' = Front(stack)
    /\ UNCHANGED <<uniques, arrays>>

\* A call has gone through its column.
Return ==
    /\ stack # <<>> /\ Column <= Len(uniques) /\ Top.i = Len(uniques[Column])
    /\ stack' = Front(stack)
    /\ UNCHANGED <<uniques, arrays, result>>

Next == NextTime \/ NextType \/ AddEntry \/ Return

Spec == Init /\ [][Next]_vars

-----------------------------------------------------------------------------
(* Properties *)

\* The prefix of every entry spells the time and the type values that the
\* entry is about, and goes on to do so while later entries are made.
PrefixesSpellTheirEntries ==
    \A n \in DOMAIN result : Contents(result[n].prefix) = result[n].vals

=============================================================================
