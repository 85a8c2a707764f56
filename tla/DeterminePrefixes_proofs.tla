---------------------- MODULE DeterminePrefixes_proofs ----------------------
(***************************************************************************)
(* Proofs about determinePrefixes: with up to two type columns no append   *)
(* writes into an array that another prefix shares, and each combination   *)
(* of values is listed exactly once.                                       *)
(***************************************************************************)
EXTENDS DeterminePrefixes, SequenceTheorems, TLAPS

Slices  == [array : Nat, len : Nat]
CallsOf == [prefix : Slices, vals : Seq(Nat), i : Nat]
Entries == [prefix : Slices, vals : Seq(Nat)]

PrefixTypes ==
    /\ uniques \in Seq(Seq(Nat)) /\ arrays \in Seq(Seq(Nat))
    /\ stack \in Seq(CallsOf) /\ result \in Seq(Entries)
    /\ stack # <<>> => uniques # <<>>
    /\ Len(stack) <= Len(uniques) + 1

-----------------------------------------------------------------------------
(* The inductive invariant about the arrays *)

WithinCapacity(s) ==
    s.array \in 1 .. Len(arrays) /\ s.len <= Len(arrays[s.array])

\* A call has a value of each column below its own, its prefix a word for
\* each, and no slice exceeds its array.
SlicesInv ==
    /\ \A d \in 1 .. Len(stack) : Len(stack[d].vals) = d - 1
    /\ \A d \in 2 .. Len(stack) :
           WithinCapacity(stack[d].prefix) /\ stack[d].prefix.len = d - 1
    /\ \A n \in 1 .. Len(result) : WithinCapacity(result[n].prefix)

\* The prefix of a call or an entry spells its values.
Spelled(e) == Contents(e.prefix) = e.vals

\* An array is full when the calls append to it: the third column is the
\* last one that finds it so, as append doubles the size.
ArraysInv ==
    /\ \A d \in 2 .. Len(stack) :
           /\ Spelled(stack[d])
           /\ d <= 3 => Len(arrays[stack[d].prefix.array]) = d - 1
    /\ \A n \in 1 .. Len(result) : Spelled(result[n])

-----------------------------------------------------------------------------
(* The inductive invariant about the combinations *)

\* A value of each column, by its place.
Places ==
    {J \in [DOMAIN uniques -> Nat] :
        \A c \in DOMAIN uniques : J[c] \in 1 .. Len(uniques[c])}

Combination(J) == [c \in DOMAIN uniques |-> uniques[c][J[c]]]

\* Each call has the values that the calls below it stand at.
PathInv ==
    \A d \in 1 .. Len(stack) :
        /\ d \in DOMAIN uniques => stack[d].i <= Len(uniques[d])
        /\ \A c \in 1 .. d - 1 :
               stack[c].i >= 1 /\ stack[d].vals[c] = uniques[c][stack[c].i]

\* The calls have gone past these places: lexicographically, they come
\* before the ones on the stack, or the innermost call has dealt with them.
Past(J) ==
    \/ stack = <<>>
    \/ \E d \in 1 .. Len(stack) \cap DOMAIN uniques :
           /\ \A c \in 1 .. d - 1 : J[c] = stack[c].i
           /\ J[d] < stack[d].i \/ (d = Len(stack) /\ J[d] = stack[d].i)

\* The entries are those of the places gone past, one for each.
EntriesInv ==
    /\ \A n \in 1 .. Len(result) :
           \E J \in Places : Past(J) /\ result[n].vals = Combination(J)
    /\ \A J \in Places : Past(J) =>
           \E n \in 1 .. Len(result) : result[n].vals = Combination(J)
    /\ \A m, n \in 1 .. Len(result) : result[m].vals = result[n].vals => m = n

\* The values of a column are distinct.
Distinct ==
    \A c \in DOMAIN uniques : \A i, j \in 1 .. Len(uniques[c]) :
        uniques[c][i] = uniques[c][j] => i = j

-----------------------------------------------------------------------------
(* The stack of calls *)

LEMMA Pushed ==
    ASSUME PrefixTypes, stack # <<>>, NEW new \in CallsOf,
           stack' = Append(Advance, new)
    PROVE  /\ Len(stack) \in Nat \ {0}
           /\ stack' \in Seq(CallsOf) /\ Len(stack') = Len(stack) + 1
           /\ \A d \in 1 .. Len(stack) - 1 : stack'[d] = stack[d]
           /\ stack'[Len(stack)] = [Top EXCEPT !.i = @ + 1]
           /\ stack'[Len(stack) + 1] = new
<1> DEFINE n == Len(stack)
           top == [stack[n] EXCEPT !.i = @ + 1]
<1>1. stack \in Seq(CallsOf) /\ n \in Nat \ {0}
  BY EmptySeq DEF PrefixTypes
<1>2. stack[n] \in CallsOf
  BY <1>1, ElementOfSeq
<1>3. top \in CallsOf
  BY <1>2 DEF CallsOf
<1>4. Advance = [stack EXCEPT ![n] = top]
  BY <1>1, <1>2 DEF Advance, CallsOf
<1> HIDE DEF top
<1>5. /\ Advance \in Seq(CallsOf) /\ Len(Advance) = n
      /\ \A d \in 1 .. n : Advance[d] = IF d = n THEN top ELSE stack[d]
  BY <1>1, <1>3, <1>4, ExceptSeq
<1>6. /\ stack' \in Seq(CallsOf) /\ Len(stack') = n + 1
      /\ \A d \in 1 .. n : stack'[d] = Advance[d]
      /\ stack'[n + 1] = new
  BY <1>5, AppendProperties
<1>7. \A d \in 1 .. n - 1 : stack'[d] = stack[d]
  <2> HIDE DEF n
  <2> QED
    BY <1>1, <1>5, <1>6
<1>8. stack'[n] = top
  <2> HIDE DEF n
  <2> QED
    BY <1>1, <1>5, <1>6
<1> QED
  BY <1>1, <1>6, <1>7, <1>8 DEF top, Top, Last

LEMMA FrontProperties ==
    ASSUME NEW S, NEW s \in Seq(S), s # <<>>
    PROVE  /\ Len(s) \in Nat \ {0}
           /\ Front(s) \in Seq(S) /\ Len(Front(s)) = Len(s) - 1
           /\ \A d \in 1 .. Len(s) - 1 : Front(s)[d] = s[d]
<1> DEFINE m == Len(s) - 1
<1>0. Len(s) \in Nat \ {0}
  BY EmptySeq
<1>1. m \in Nat /\ Len(s) = m + 1
  BY <1>0
<1>2. \A d \in 1 .. m : s[d] \in S
  BY <1>1, ElementOfSeq
<1>3. Front(s) = SubSeq(s, 1, m)
  BY DEF Front
<1> HIDE DEF m
<1>4. /\ Front(s) \in Seq(S)
      /\ Len(Front(s)) = IF 1 <= m THEN m - 1 + 1 ELSE 0
      /\ \A d \in 1 .. m - 1 + 1 : Front(s)[d] = s[1 + d - 1]
  BY <1>1, <1>2, <1>3, SubSeqProperties
<1>5. Len(Front(s)) = m
  BY <1>1, <1>4
<1>6. \A d \in 1 .. m : Front(s)[d] = s[d]
  <2> TAKE d \in 1 .. m
  <2>1. d \in 1 .. m - 1 + 1 /\ 1 + d - 1 = d
    BY <1>1
  <2> QED
    BY <1>4, <2>1
<1> QED
  BY <1>0, <1>4, <1>5, <1>6 DEF m

LEMMA Popped ==
    ASSUME PrefixTypes, stack # <<>>, stack' = Front(stack)
    PROVE  /\ Len(stack) \in Nat \ {0}
           /\ stack' \in Seq(CallsOf) /\ Len(stack') = Len(stack) - 1
           /\ \A d \in 1 .. Len(stack) - 1 : stack'[d] = stack[d]
BY FrontProperties DEF PrefixTypes

\* The innermost call.
LEMMA TopType ==
    ASSUME PrefixTypes, stack # <<>>
    PROVE  /\ Len(stack) \in Nat \ {0} /\ Top = stack[Len(stack)]
           /\ Top \in CallsOf
           /\ uniques # <<>> /\ Len(uniques) \in Nat \ {0}
           /\ DOMAIN uniques = 1 .. Len(uniques)
<1>1. Len(stack) \in Nat \ {0} /\ Len(uniques) \in Nat \ {0}
  BY EmptySeq DEF PrefixTypes
<1> QED
  BY <1>1, ElementOfSeq, LenProperties DEF Top, Last, PrefixTypes

\* The value that a call is to append.
LEMMA NextValue ==
    ASSUME PrefixTypes, stack # <<>>, Column <= Len(uniques), Top.i < Len(uniques[Column])
    PROVE  uniques[Column][Top.i + 1] \in Nat
<1>1. Column \in 1 .. Len(uniques) /\ Top.i \in Nat
  BY TopType DEF Column, CallsOf
<1>2. uniques[Column] \in Seq(Nat)
  BY <1>1, ElementOfSeq DEF PrefixTypes
<1>3. Top.i + 1 \in 1 .. Len(uniques[Column])
  BY <1>1, <1>2, LenProperties
<1> QED
  BY <1>2, <1>3, ElementOfSeq

-----------------------------------------------------------------------------
(* Types and slices *)

\* What append does to the arrays keeps their sizes.
LEMMA Append1Type ==
    ASSUME PrefixTypes, NEW s \in Slices, WithinCapacity(s), s.len >= 1, NEW x \in Nat
    PROVE  /\ Append1(s, x).slice \in Slices
           /\ Append1(s, x).slice.len = s.len + 1
           /\ Append1(s, x).arrays \in Seq(Seq(Nat))
           /\ Len(Append1(s, x).arrays) >= Len(arrays)
           /\ \A n \in 1 .. Len(arrays) : Len(Append1(s, x).arrays[n]) = Len(arrays[n])
           /\ Append1(s, x).slice.array \in 1 .. Len(Append1(s, x).arrays)
           /\ s.len + 1 <= Len(Append1(s, x).arrays[Append1(s, x).slice.array])
<1> DEFINE old == arrays[s.array]
<1>1. /\ arrays \in Seq(Seq(Nat)) /\ Len(arrays) \in Nat
      /\ s.array \in 1 .. Len(arrays) /\ s.len \in Nat \ {0}
      /\ old \in Seq(Nat) /\ Len(old) \in Nat /\ s.len <= Len(old)
  BY LenProperties, ElementOfSeq DEF PrefixTypes, Slices, WithinCapacity
<1>2. CASE s.len < Len(old)
  <2> DEFINE a == [old EXCEPT ![s.len + 1] = x]
  <2>1. s.len + 1 \in 1 .. Len(old)
    BY <1>1, <1>2
  <2>2. a \in Seq(Nat) /\ Len(a) = Len(old)
    BY <1>1, <2>1, ExceptSeq
  <2>3. /\ Append1(s, x).slice = Slice(s.array, s.len + 1)
        /\ Append1(s, x).arrays = [arrays EXCEPT ![s.array] = a]
    BY <1>1, <1>2 DEF Append1
  <2> HIDE DEF a
  <2>4. /\ Append1(s, x).arrays \in Seq(Seq(Nat)) /\ Len(Append1(s, x).arrays) = Len(arrays)
        /\ \A n \in 1 .. Len(arrays) :
               Append1(s, x).arrays[n] = IF n = s.array THEN a ELSE arrays[n]
    BY <1>1, <2>2, <2>3, ExceptSeq, SMTT(30)
  <2> QED
    BY <1>1, <2>1, <2>2, <2>3, <2>4 DEF Slice, Slices
<1>3. CASE ~ (s.len < Len(old))
  <2> DEFINE m == 2 * s.len
             a == [n \in 1 .. m |->
                      IF n <= s.len THEN old[n] ELSE IF n = s.len + 1 THEN x ELSE 0]
  <2>1. m \in Nat /\ s.len + 1 <= m
    BY <1>1
  <2>2. /\ Append1(s, x).slice = Slice(Len(arrays) + 1, s.len + 1)
        /\ Append1(s, x).arrays = Append(arrays, a)
    BY <1>3 DEF Append1
  <2> HIDE DEF m
  <2>3. \A n \in 1 .. s.len : old[n] \in Nat
    BY <1>1, ElementOfSeq
  <2>4. a \in Seq(Nat) /\ Len(a) = m
    <3>1. \A n \in 1 .. m : a[n] \in Nat
      BY <1>1, <2>3
    <3>2. a \in [1 .. m -> Nat]
      BY <3>1
    <3> HIDE DEF a
    <3>3. a \in Seq(Nat)
      BY <2>1, <3>2, SeqDef
    <3> QED
      BY <2>1, <3>2, <3>3, LenProperties
  <2> HIDE DEF a
  <2>5. /\ Append1(s, x).arrays \in Seq(Seq(Nat)) /\ Len(Append1(s, x).arrays) = Len(arrays) + 1
        /\ \A n \in 1 .. Len(arrays) : Append1(s, x).arrays[n] = arrays[n]
        /\ Append1(s, x).arrays[Len(arrays) + 1] = a
    BY <1>1, <2>2, <2>4, AppendProperties
  <2>6. /\ Append1(s, x).slice.array = Len(arrays) + 1
        /\ Append1(s, x).slice.len = s.len + 1
        /\ Append1(s, x).slice \in Slices
    BY <1>1, <2>2 DEF Slice, Slices
  <2>7. Append1(s, x).slice.array \in 1 .. Len(Append1(s, x).arrays)
    BY <1>1, <2>5, <2>6
  <2>8. s.len + 1 <= Len(Append1(s, x).arrays[Append1(s, x).slice.array])
    BY <2>1, <2>4, <2>5, <2>6
  <2>9. \A n \in 1 .. Len(arrays) : Len(Append1(s, x).arrays[n]) = Len(arrays[n])
    BY <2>5
  <2>10. Len(Append1(s, x).arrays) >= Len(arrays)
    BY <1>1, <2>5
  <2> QED
    BY <2>5, <2>6, <2>7, <2>8, <2>9, <2>10
<1> QED
  BY <1>2, <1>3



\* A call that goes on to the next value makes a longer prefix for it.
LEMMA Deeper ==
    ASSUME PrefixTypes, SlicesInv, NextTime \/ NextType
    PROVE  LET n == Len(stack)
           IN  /\ n \in 1 .. Len(uniques) /\ Top = stack[n] /\ Top \in CallsOf
               /\ Top.i < Len(uniques[n])
               /\ stack' \in Seq(CallsOf) /\ Len(stack') = n + 1
               /\ \A d \in 1 .. n - 1 : stack'[d] = stack[d]
               /\ stack'[n] = [Top EXCEPT !.i = @ + 1]
               /\ stack'[n + 1].i = 0
               /\ stack'[n + 1].vals = Append(Top.vals, uniques[n][Top.i + 1])
               /\ stack'[n + 1].prefix.len = n
               /\ stack'[n + 1].prefix.array \in 1 .. Len(arrays')
               /\ n <= Len(arrays'[stack'[n + 1].prefix.array])
               /\ uniques[n][Top.i + 1] \in Nat
               /\ \/ /\ n = 1 /\ arrays' = Append(arrays, <<uniques[n][Top.i + 1]>>)
                     /\ stack'[n + 1].prefix.array = Len(arrays) + 1
                  \/ /\ n > 1 /\ arrays' = Append1(Top.prefix, uniques[n][Top.i + 1]).arrays
                     /\ stack'[n + 1].prefix = Append1(Top.prefix, uniques[n][Top.i + 1]).slice
               /\ arrays' \in Seq(Seq(Nat)) /\ Len(arrays') >= Len(arrays)
               /\ \A m \in 1 .. Len(arrays) : Len(arrays'[m]) = Len(arrays[m])
               /\ uniques' = uniques /\ result' = result
<1> DEFINE n == Len(stack)
           x == uniques[n][Top.i + 1]
<1>1. CASE NextTime
  <2> DEFINE s == Slice(Len(arrays) + 1, 1)
  <2>1. n = 1 /\ Top.i < Len(uniques[1]) /\ stack # <<>>
    <3>1. n = 1 /\ Top.i < Len(uniques[1])
      BY <1>1 DEF NextTime
    <3>2. stack \in Seq(CallsOf) /\ Len(stack) # 0
      BY <3>1 DEF PrefixTypes
    <3> QED
      BY <3>1, <3>2, EmptySeq
  <2>2. /\ Len(stack) \in Nat \ {0} /\ Top = stack[n] /\ Top \in CallsOf
        /\ n \in 1 .. Len(uniques) /\ x \in Nat
    BY <2>1, TopType, NextValue DEF Column
  <2>3. Append(Top.vals, x) = <<x>>
    <3>1. Top.vals \in Seq(Nat) /\ Len(Top.vals) = 0
      BY <2>1, <2>2 DEF SlicesInv, CallsOf
    <3>2. Top.vals = <<>>
      BY <3>1, EmptySeq
    <3> QED
      BY <3>2
  <2>4. /\ arrays' = Append(arrays, <<x>>) /\ uniques' = uniques /\ result' = result
        /\ stack' = Append(Advance, Call(s, <<x>>))
    BY <1>1, <2>1 DEF NextTime
  <2>5. arrays \in Seq(Seq(Nat)) /\ <<x>> \in Seq(Nat) /\ Len(<<x>>) = 1
    BY <2>2 DEF PrefixTypes
  <2>6. /\ arrays' \in Seq(Seq(Nat)) /\ Len(arrays') = Len(arrays) + 1
        /\ \A m \in 1 .. Len(arrays) : arrays'[m] = arrays[m]
        /\ arrays'[Len(arrays) + 1] = <<x>>
    BY <2>4, <2>5, AppendProperties
  <2>7. s \in Slices /\ s.len = 1 /\ s.array = Len(arrays) + 1
    BY <2>5, LenProperties DEF Slice, Slices
  <2>8. Call(s, <<x>>) \in CallsOf
    BY <2>5, <2>7 DEF Call, CallsOf
  <2> HIDE DEF s
  <2>9. /\ stack' \in Seq(CallsOf) /\ Len(stack') = n + 1
        /\ \A d \in 1 .. n - 1 : stack'[d] = stack[d]
        /\ stack'[n] = [Top EXCEPT !.i = @ + 1]
        /\ stack'[n + 1] = Call(s, <<x>>)
    BY <2>1, <2>4, <2>8, Pushed
  <2>10. /\ stack'[n + 1].i = 0 /\ stack'[n + 1].vals = <<x>>
         /\ stack'[n + 1].prefix = s
    BY <2>9 DEF Call
  <2>11. /\ Len(arrays') >= Len(arrays) /\ Len(arrays) + 1 \in 1 .. Len(arrays')
         /\ \A m \in 1 .. Len(arrays) : Len(arrays'[m]) = Len(arrays[m])
    BY <2>5, <2>6, LenProperties
  <2> HIDE DEF x
  <2>12. n <= Len(arrays'[s.array])
    <3>1. Len(arrays'[s.array]) = 1
      BY <2>5, <2>6, <2>7
    <3> QED
      BY <2>1, <3>1
  <2>13. /\ stack'[n + 1].prefix.len = n
         /\ stack'[n + 1].prefix.array \in 1 .. Len(arrays')
         /\ n <= Len(arrays'[stack'[n + 1].prefix.array])
    BY <2>1, <2>7, <2>10, <2>11, <2>12
  <2>14. stack'[n + 1].prefix.array = Len(arrays) + 1
    BY <2>7, <2>10
  <2> QED
    BY <2>1, <2>2, <2>3, <2>4, <2>6, <2>9, <2>10, <2>11, <2>13, <2>14 DEF x
<1>2. CASE NextType
  <2> DEFINE s == Top.prefix
             new == Append1(s, x)
  <2>1. n > 1 /\ n <= Len(uniques) /\ Top.i < Len(uniques[n]) /\ stack # <<>>
    BY <1>2, EmptySeq DEF NextType, Column
  <2>2. /\ Len(stack) \in Nat \ {0} /\ Top = stack[n] /\ Top \in CallsOf
        /\ n \in 1 .. Len(uniques) /\ x \in Nat
    BY <2>1, TopType, NextValue DEF Column
  <2>3. s \in Slices /\ WithinCapacity(s) /\ s.len = n - 1
    BY <2>1, <2>2 DEF SlicesInv, CallsOf
  <2>4. /\ arrays' = new.arrays /\ uniques' = uniques /\ result' = result
        /\ stack' = Append(Advance, Call(new.slice, Append(Top.vals, x)))
    BY <1>2 DEF NextType, Column
  <2>5. /\ new.slice \in Slices /\ new.slice.len = n
        /\ new.arrays \in Seq(Seq(Nat)) /\ Len(new.arrays) >= Len(arrays)
        /\ \A m \in 1 .. Len(arrays) : Len(new.arrays[m]) = Len(arrays[m])
        /\ new.slice.array \in 1 .. Len(new.arrays)
        /\ n <= Len(new.arrays[new.slice.array])
    <3>1. s.len >= 1 /\ s.len + 1 = n
      BY <2>1, <2>2, <2>3
    <3> HIDE DEF n, x, s
    <3> QED
      BY <2>2, <2>3, <3>1, Append1Type
  <2> HIDE DEF new
  <2>6. Call(new.slice, Append(Top.vals, x)) \in CallsOf
    BY <2>2, <2>5, AppendProperties DEF Call, CallsOf
  <2>7. /\ stack' \in Seq(CallsOf) /\ Len(stack') = n + 1
        /\ \A d \in 1 .. n - 1 : stack'[d] = stack[d]
        /\ stack'[n] = [Top EXCEPT !.i = @ + 1]
        /\ stack'[n + 1] = Call(new.slice, Append(Top.vals, x))
    BY <2>1, <2>4, <2>6, Pushed
  <2>8. /\ stack'[n + 1].i = 0 /\ stack'[n + 1].vals = Append(Top.vals, x)
        /\ stack'[n + 1].prefix = new.slice
    BY <2>7 DEF Call
  <2> QED
    BY <2>1, <2>2, <2>4, <2>5, <2>7, <2>8 DEF new
<1> QED
  BY <1>1, <1>2

\* The innermost call adds its entry.
LEMMA Added ==
    ASSUME PrefixTypes, SlicesInv, AddEntry
    PROVE  LET n == Len(stack)
           IN  /\ n = Len(uniques) + 1 /\ Len(uniques) \in Nat \ {0}
               /\ Top = stack[n] /\ Top \in CallsOf
               /\ stack' \in Seq(CallsOf) /\ Len(stack') = n - 1
               /\ \A d \in 1 .. n - 1 : stack'[d] = stack[d]
               /\ result' \in Seq(Entries) /\ Len(result') = Len(result) + 1
               /\ \A m \in 1 .. Len(result) : result'[m] = result[m]
               /\ result'[Len(result) + 1].prefix = Top.prefix
               /\ result'[Len(result) + 1].vals = Top.vals
               /\ uniques' = uniques /\ arrays' = arrays
<1> DEFINE new == [prefix |-> Top.prefix, vals |-> Top.vals]
<1>1. Len(stack) > Len(uniques) /\ stack # <<>>
  BY LenProperties, EmptySeq DEF AddEntry, Column, PrefixTypes
<1>2. /\ Len(stack) \in Nat \ {0} /\ Top = stack[Len(stack)] /\ Top \in CallsOf
      /\ Len(uniques) \in Nat \ {0}
  BY <1>1, TopType
<1>3. Len(stack) = Len(uniques) + 1
  BY <1>1, <1>2 DEF PrefixTypes
<1>4. /\ stack' \in Seq(CallsOf) /\ Len(stack') = Len(stack) - 1
      /\ \A d \in 1 .. Len(stack) - 1 : stack'[d] = stack[d]
  BY <1>1, Popped DEF AddEntry
<1>5. new \in Entries
  BY <1>2 DEF Entries, CallsOf
<1>6. result' = Append(result, new) /\ uniques' = uniques /\ arrays' = arrays
  BY DEF AddEntry
<1> HIDE DEF new
<1>7. /\ result' \in Seq(Entries) /\ Len(result') = Len(result) + 1
      /\ \A m \in 1 .. Len(result) : result'[m] = result[m]
      /\ result'[Len(result) + 1] = new
  BY <1>5, <1>6, AppendProperties DEF PrefixTypes
<1> QED
  BY <1>2, <1>3, <1>4, <1>6, <1>7 DEF new

\* A call returns.
LEMMA Returned ==
    ASSUME PrefixTypes, Return
    PROVE  LET n == Len(stack)
           IN  /\ n \in 1 .. Len(uniques) /\ Top = stack[n] /\ Top \in CallsOf
               /\ Top.i = Len(uniques[n])
               /\ stack' \in Seq(CallsOf) /\ Len(stack') = n - 1
               /\ \A d \in 1 .. n - 1 : stack'[d] = stack[d]
               /\ uniques' = uniques /\ arrays' = arrays /\ result' = result
<1>1. stack # <<>> /\ Len(stack) <= Len(uniques) /\ Top.i = Len(uniques[Len(stack)])
  BY DEF Return, Column
<1>2. /\ Len(stack) \in Nat \ {0} /\ Top = stack[Len(stack)] /\ Top \in CallsOf
      /\ Len(uniques) \in Nat \ {0}
  BY <1>1, TopType
<1>3. /\ stack' \in Seq(CallsOf) /\ Len(stack') = Len(stack) - 1
      /\ \A d \in 1 .. Len(stack) - 1 : stack'[d] = stack[d]
  BY <1>1, Popped DEF Return
<1> QED
  BY <1>1, <1>2, <1>3 DEF Return


\* The types and the slices, with any number of columns.
LEMMA StepTypes ==
    ASSUME PrefixTypes, SlicesInv, [Next]_vars
    PROVE  PrefixTypes' /\ SlicesInv'
<1>1. CASE NextTime \/ NextType
  <2> DEFINE n == Len(stack)
             new == stack'[n + 1]
  <2>1. /\ n \in 1 .. Len(uniques) /\ Top = stack[n] /\ Top \in CallsOf
        /\ stack' \in Seq(CallsOf) /\ Len(stack') = n + 1
        /\ \A d \in 1 .. n - 1 : stack'[d] = stack[d]
        /\ stack'[n] = [Top EXCEPT !.i = @ + 1]
    BY <1>1, Deeper
  <2>2. /\ new.vals = Append(Top.vals, uniques[n][Top.i + 1])
        /\ new.prefix.len = n
        /\ new.prefix.array \in 1 .. Len(arrays')
        /\ n <= Len(arrays'[new.prefix.array])
    BY <1>1, Deeper
  <2>3. /\ arrays' \in Seq(Seq(Nat)) /\ Len(arrays') >= Len(arrays)
        /\ \A m \in 1 .. Len(arrays) : Len(arrays'[m]) = Len(arrays[m])
        /\ uniques' = uniques /\ result' = result
    BY <1>1, Deeper
  <2>4. n \in Nat \ {0} /\ Len(uniques) \in Nat
    BY <2>1, LenProperties DEF PrefixTypes
  <2>5. Len(arrays) \in Nat /\ Len(arrays') \in Nat
    BY <2>3, LenProperties DEF PrefixTypes
  <2>6. /\ \A d \in 1 .. n : Len(stack[d].vals) = d - 1
        /\ \A d \in 2 .. n : WithinCapacity(stack[d].prefix) /\ stack[d].prefix.len = d - 1
    BY DEF SlicesInv
  <2>7. PrefixTypes'
    BY <2>1, <2>3, <2>4 DEF PrefixTypes
  <2> HIDE DEF n, new
  <2>8. \A d \in 1 .. n : stack'[d].prefix = stack[d].prefix /\ stack'[d].vals = stack[d].vals
    <3>1. \A d \in 1 .. n : d = n \/ d \in 1 .. n - 1
      BY <2>4
    <3> QED
      BY <2>1, <3>1 DEF CallsOf
  <2>9. \A d \in 1 .. n + 1 : d = n + 1 \/ d \in 1 .. n
    BY <2>4
  <2>10. \A d \in 1 .. n + 1 : Len(stack'[d].vals) = d - 1
    <3>1. Len(new.vals) = n
      <4>1. Top.vals \in Seq(Nat) /\ Len(Top.vals) = n - 1
        BY <2>1, <2>4, <2>6 DEF CallsOf
      <4> QED
        BY <2>2, <2>4, <4>1
    <3> TAKE d \in 1 .. n + 1
    <3>2. CASE d = n + 1
      BY <2>4, <3>1, <3>2 DEF new
    <3>3. CASE d \in 1 .. n
      BY <2>6, <2>8, <3>3
    <3> QED
      BY <2>9, <3>2, <3>3
  <2>11. \A s : WithinCapacity(s) => WithinCapacity(s)'
    <3> TAKE s
    <3> HAVE WithinCapacity(s)
    <3>1. s.array \in 1 .. Len(arrays) /\ s.len <= Len(arrays[s.array])
      BY DEF WithinCapacity
    <3>2. s.array \in 1 .. Len(arrays')
      BY <2>3, <2>5, <3>1
    <3>3. Len(arrays'[s.array]) = Len(arrays[s.array])
      BY <2>3, <3>1
    <3> QED
      BY <3>1, <3>2, <3>3 DEF WithinCapacity
  <2>12. \A d \in 2 .. n + 1 : /\ WithinCapacity(stack[d].prefix)'
                               /\ stack'[d].prefix.len = d - 1
    <3> TAKE d \in 2 .. n + 1
    <3>1. CASE d = n + 1
      BY <2>2, <2>4, <3>1 DEF new, WithinCapacity
    <3>2. CASE d # n + 1
      <4>1. d \in 2 .. n /\ d \in 1 .. n
        BY <2>4, <3>2
      <4>2. WithinCapacity(stack[d].prefix) /\ stack[d].prefix.len = d - 1
        BY <2>6, <4>1
      <4>3. stack'[d].prefix = stack[d].prefix
        BY <2>8, <4>1
      <4> QED
        BY <2>11, <4>2, <4>3 DEF WithinCapacity
    <3> QED
      BY <3>1, <3>2
  <2>13. \A m \in 1 .. Len(result) : WithinCapacity(result[m].prefix)'
    BY <2>3, <2>11 DEF SlicesInv, WithinCapacity
  <2>14. SlicesInv'
    BY <2>1, <2>3, <2>10, <2>12, <2>13 DEF SlicesInv
  <2> QED
    BY <2>7, <2>14
<1>2. CASE AddEntry
  <2> DEFINE n == Len(stack)
             k == Len(result)
  <2>1. /\ n = Len(uniques) + 1 /\ Len(uniques) \in Nat \ {0}
        /\ Top = stack[n] /\ Top \in CallsOf
        /\ stack' \in Seq(CallsOf) /\ Len(stack') = n - 1
        /\ \A d \in 1 .. n - 1 : stack'[d] = stack[d]
        /\ result' \in Seq(Entries) /\ Len(result') = k + 1
        /\ \A m \in 1 .. k : result'[m] = result[m]
        /\ result'[k + 1].prefix = Top.prefix
        /\ uniques' = uniques /\ arrays' = arrays
    BY <1>2, Added
  <2>2. k \in Nat
    BY LenProperties DEF PrefixTypes
  <2> HIDE DEF k
  <2>3. PrefixTypes'
    <3>1. uniques # <<>>
      BY <2>1
    <3> QED
      BY <2>1, <3>1 DEF PrefixTypes
  <2>4. WithinCapacity(Top.prefix)
    BY <2>1 DEF SlicesInv
  <2>5. \A m \in 1 .. k + 1 : WithinCapacity(result'[m].prefix)
    <3>1. \A m \in 1 .. k + 1 : m = k + 1 \/ m \in 1 .. k
      BY <2>2
    <3> QED
      BY <2>1, <2>4, <3>1 DEF SlicesInv, k
  <2>6. \A d \in 1 .. n - 1 : d \in 1 .. n
    BY <2>1
  <2>7. SlicesInv'
    <3>1. \A d \in 1 .. Len(stack') : Len(stack'[d].vals) = d - 1
      BY <2>1, <2>6 DEF SlicesInv
    <3>2. \A d \in 2 .. Len(stack') :
              WithinCapacity(stack'[d].prefix) /\ stack'[d].prefix.len = d - 1
      BY <2>1 DEF SlicesInv
    <3>3. \A s : WithinCapacity(s)' <=> WithinCapacity(s)
      BY <2>1 DEF WithinCapacity
    <3> QED
      BY <2>1, <2>5, <3>1, <3>2, <3>3 DEF SlicesInv, WithinCapacity
  <2> QED
    BY <2>3, <2>7
<1>3. CASE Return
  <2> DEFINE n == Len(stack)
  <2>1. /\ n \in 1 .. Len(uniques)
        /\ stack' \in Seq(CallsOf) /\ Len(stack') = n - 1
        /\ \A d \in 1 .. n - 1 : stack'[d] = stack[d]
        /\ uniques' = uniques /\ arrays' = arrays /\ result' = result
    BY <1>3, Returned
  <2>2. Len(uniques) \in Nat /\ n \in Nat \ {0}
    BY <2>1, LenProperties DEF PrefixTypes
  <2>3. PrefixTypes'
    <3>1. uniques # <<>>
      BY <2>1, <2>2
    <3> QED
      BY <2>1, <2>2, <3>1 DEF PrefixTypes
  <2>4. \A d \in 1 .. n - 1 : d \in 1 .. n
    BY <2>2
  <2>5. SlicesInv'
    BY <2>1, <2>4, SMTT(30) DEF SlicesInv, WithinCapacity
  <2> QED
    BY <2>3, <2>5
<1>4. CASE UNCHANGED vars
  BY <1>4 DEF PrefixTypes, SlicesInv, WithinCapacity, vars
<1> QED
  BY <1>1, <1>2, <1>3, <1>4 DEF Next


-----------------------------------------------------------------------------
(* Combinations *)

\* The columns and the calls.
LEMMA Positions ==
    ASSUME PrefixTypes
    PROVE  /\ Len(uniques) \in Nat /\ DOMAIN uniques = 1 .. Len(uniques)
           /\ \A c \in 1 .. Len(uniques) : Len(uniques[c]) \in Nat
           /\ Len(stack) \in Nat
           /\ \A d \in 1 .. Len(stack) :
                  stack[d] \in CallsOf /\ stack[d].i \in Nat /\ stack[d].vals \in Seq(Nat)
<1>1. \A c \in 1 .. Len(uniques) : uniques[c] \in Seq(Nat)
  BY ElementOfSeq DEF PrefixTypes
<1>2. \A d \in 1 .. Len(stack) : stack[d] \in CallsOf
  BY ElementOfSeq DEF PrefixTypes
<1> QED
  BY <1>1, <1>2, LenProperties DEF PrefixTypes, CallsOf

LEMMA StepPath ==
    ASSUME PrefixTypes, SlicesInv, PathInv, [Next]_vars
    PROVE  PathInv'
<1>1. CASE NextTime \/ NextType
  <2> DEFINE n == Len(stack)
             new == stack'[n + 1]
             x == uniques[n][Top.i + 1]
  <2>1. /\ n \in 1 .. Len(uniques) /\ Top = stack[n] /\ Top \in CallsOf
        /\ Top.i < Len(uniques[n]) /\ uniques' = uniques
    BY <1>1, Deeper
  <2>2. /\ stack' \in Seq(CallsOf) /\ Len(stack') = n + 1
        /\ \A d \in 1 .. n - 1 : stack'[d] = stack[d]
        /\ stack'[n] = [Top EXCEPT !.i = @ + 1]
        /\ new.i = 0 /\ new.vals = Append(Top.vals, x)
    BY <1>1, Deeper
  <2>3. /\ Len(uniques) \in Nat /\ DOMAIN uniques = 1 .. Len(uniques)
        /\ \A c \in 1 .. Len(uniques) : Len(uniques[c]) \in Nat
        /\ n \in Nat \ {0}
    BY <2>1, Positions
  <2>4. /\ \A d \in 1 .. n : Len(stack[d].vals) = d - 1
        /\ \A d \in 1 .. n : d \in DOMAIN uniques => stack[d].i <= Len(uniques[d])
        /\ \A d \in 1 .. n : \A c \in 1 .. d - 1 :
               stack[c].i >= 1 /\ stack[d].vals[c] = uniques[c][stack[c].i]
    BY DEF SlicesInv, PathInv
  <2>5. Top.vals \in Seq(Nat)
    BY <2>1 DEF CallsOf
  <2>6. /\ Len(Top.vals) = n - 1
        /\ \A c \in 1 .. n - 1 : stack[c].i >= 1 /\ Top.vals[c] = uniques[c][stack[c].i]
    <3> HIDE DEF n
    <3>1. n \in 1 .. n
      BY <2>3
    <3> QED
      BY <2>1, <2>4, <3>1
  <2>7. /\ Len(new.vals) = n /\ new.vals[n] = x
        /\ \A c \in 1 .. n - 1 : new.vals[c] = Top.vals[c]
    <3> HIDE DEF n, x, new
    <3>1. new.vals = Append(Top.vals, x) /\ Top.vals \in Seq(Nat) /\ n = Len(Top.vals) + 1
      BY <2>2, <2>3, <2>5, <2>6 DEF new
    <3> QED
      BY <3>1
  <2>8. stack'[n].i = Top.i + 1 /\ stack'[n].vals = Top.vals /\ Top.i \in Nat
    BY <2>1, <2>2 DEF CallsOf
  <2> HIDE DEF n, x, new
  <2>9. \A c \in 1 .. n : stack'[c].i >= 1 /\ new.vals[c] = uniques[c][stack'[c].i]
    <3>1. \A c \in 1 .. n : c = n \/ c \in 1 .. n - 1
      BY <2>3
    <3>2. stack'[n].i >= 1 /\ new.vals[n] = uniques[n][stack'[n].i]
      BY <2>7, <2>8 DEF x
    <3> QED
      BY <2>2, <2>6, <2>7, <3>1, <3>2, ZenonT(30)
  <2>10. \A d \in 1 .. n + 1 : d = n + 1 \/ d = n \/ d \in 1 .. n - 1
    BY <2>3
  <2>11. ASSUME NEW d \in 1 .. n + 1
         PROVE  /\ d \in DOMAIN uniques => stack'[d].i <= Len(uniques[d])
                /\ \A c \in 1 .. d - 1 :
                       stack'[c].i >= 1 /\ stack'[d].vals[c] = uniques[c][stack'[c].i]
    <3>1. CASE d = n + 1
      <4>1. 1 .. d - 1 = 1 .. n /\ stack'[d] = new
        BY <2>3, <3>1 DEF new
      <4>2. d \in DOMAIN uniques => stack'[d].i <= Len(uniques[d])
        BY <2>2, <2>3, <4>1
      <4> QED
        BY <2>9, <4>1, <4>2
    <3>2. CASE d = n
      <4>1. stack'[d].i = Top.i + 1 /\ stack'[d].vals = Top.vals
        BY <2>8, <3>2
      <4>2. d \in DOMAIN uniques => stack'[d].i <= Len(uniques[d])
        BY <2>1, <2>3, <2>8, <3>2, <4>1
      <4>3. \A c \in 1 .. d - 1 : stack'[c] = stack[c]
        BY <2>2, <3>2
      <4>4. \A c \in 1 .. d - 1 : stack[c].i >= 1 /\ Top.vals[c] = uniques[c][stack[c].i]
        BY <2>6, <3>2
      <4> QED
        BY <4>1, <4>2, <4>3, <4>4
    <3>3. CASE d \in 1 .. n - 1
      <4>1. d \in 1 .. n /\ \A c \in 1 .. d - 1 : c \in 1 .. n - 1
        BY <2>3, <3>3
      <4>2. stack'[d] = stack[d] /\ \A c \in 1 .. d - 1 : stack'[c] = stack[c]
        BY <2>2, <3>3, <4>1
      <4> QED
        BY <2>4, <4>1, <4>2
    <3> QED
      BY <2>10, <3>1, <3>2, <3>3
  <2> QED
    BY <2>1, <2>2, <2>11 DEF PathInv
<1>2. CASE AddEntry \/ Return
  <2>1. /\ Len(stack) \in Nat \ {0} /\ Len(stack') = Len(stack) - 1
        /\ \A d \in 1 .. Len(stack) - 1 : stack'[d] = stack[d]
        /\ uniques' = uniques
    <3>1. CASE AddEntry
      BY <3>1, Added, SMTT(30)
    <3>2. CASE Return
      BY <3>2, Returned, Positions, SMTT(30)
    <3> QED
      BY <1>2, <3>1, <3>2
  <2>2. \A d \in 1 .. Len(stack') : /\ d \in 1 .. Len(stack) /\ d \in 1 .. Len(stack) - 1
                                    /\ \A c \in 1 .. d - 1 : c \in 1 .. Len(stack) - 1
    BY <2>1
  <2> QED
    BY <2>1, <2>2, ZenonT(30) DEF PathInv
<1>3. CASE UNCHANGED vars
  BY <1>3 DEF PathInv, vars
<1> QED
  BY <1>1, <1>2, <1>3 DEF Next


\* A call that goes on deals with no place, as it has yet to go through the
\* columns above.
LEMMA PastDeeper ==
    ASSUME PrefixTypes, SlicesInv, NextTime \/ NextType, NEW J \in Places
    PROVE  Past(J)' <=> Past(J)
<1> DEFINE n == Len(stack)
           Before(d) == (\A c \in 1 .. d - 1 : J[c] = stack[c].i) /\ J[d] < stack[d].i
           Equal(d) == (\A c \in 1 .. d - 1 : J[c] = stack[c].i) /\ J[d] = stack[d].i
           N == Len(uniques)
<1>1. /\ n \in 1 .. N /\ Top = stack[n] /\ Top \in CallsOf /\ uniques' = uniques
      /\ stack' \in Seq(CallsOf) /\ Len(stack') = n + 1
      /\ \A d \in 1 .. n - 1 : stack'[d] = stack[d]
      /\ stack'[n] = [Top EXCEPT !.i = @ + 1] /\ stack'[n + 1].i = 0
  BY Deeper
<1>2. N \in Nat /\ DOMAIN uniques = 1 .. N /\ n \in Nat \ {0} /\ Top.i \in Nat
  BY <1>1, Positions
<1>3. \A c \in 1 .. N : J[c] \in Nat \ {0}
  BY <1>2 DEF Places
<1>4. stack # <<>> /\ stack' # <<>>
  BY <1>1, <1>2
<1>5. stack'[n].i = Top.i + 1
  BY <1>1 DEF CallsOf
<1>6. Past(J) <=> Equal(n) \/ \E d \in 1 .. n : Before(d)
  <2>1. 1 .. n \cap DOMAIN uniques = 1 .. n
    BY <1>1, <1>2
  <2>2. n \in 1 .. n
    BY <1>2
  <2> QED
    BY <1>4, <2>1, <2>2 DEF Past
<1>7. Past(J)' <=> \E d \in 1 .. n : (\A c \in 1 .. d - 1 : J[c] = stack'[c].i) /\ J[d] < stack'[d].i
  <2> HIDE DEF n
  <2>1. \A d \in (1 .. n + 1) \cap (1 .. N) : d \in 1 .. n \/ (d = n + 1 /\ J[d] # 0 /\ ~(J[d] < 0))
    BY <1>2, <1>3
  <2>2. \A d \in 1 .. n : d \in (1 .. n + 1) \cap (1 .. N) /\ d # n + 1
    BY <1>1, <1>2
  <2> QED
    BY <1>1, <1>2, <1>4, <2>1, <2>2, SMTT(30) DEF Past
<1>8. \A d \in 1 .. n - 1 : d \in 1 .. n /\ d < n /\ \A c \in 1 .. d - 1 : c \in 1 .. n - 1
  BY <1>2
<1> HIDE DEF n
<1>9. \A d \in 1 .. n - 1 :
          (\A c \in 1 .. d - 1 : J[c] = stack'[c].i) /\ J[d] < stack'[d].i <=> Before(d)
  BY <1>1, <1>8
<1>10. (\A c \in 1 .. n - 1 : J[c] = stack'[c].i) /\ J[n] < stack'[n].i <=> Equal(n) \/ Before(n)
  <2>1. J[n] \in Nat /\ stack[n].i \in Nat /\ stack'[n].i = stack[n].i + 1
    BY <1>1, <1>2, <1>3, <1>5
  <2>2. J[n] < stack'[n].i <=> J[n] = stack[n].i \/ J[n] < stack[n].i
    BY <2>1
  <2> QED
    BY <1>1, <2>2
<1>11. \A d : d \in 1 .. n <=> d = n \/ d \in 1 .. n - 1
  BY <1>2
<1> HIDE DEF Before, Equal
<1> QED
  BY <1>6, <1>7, <1>9, <1>10, <1>11


\* A call that has gone through its column leaves the place of the call below
\* it behind.
LEMMA PastReturned ==
    ASSUME PrefixTypes, PathInv, Return, NEW J \in Places
    PROVE  Past(J)' <=> Past(J)
<1> DEFINE n == Len(stack)
           N == Len(uniques)
           Same(d) == \A c \in 1 .. d - 1 : J[c] = stack[c].i
<1>1. /\ n \in 1 .. N /\ Top = stack[n] /\ Top \in CallsOf /\ uniques' = uniques
      /\ Top.i = Len(uniques[n])
      /\ stack' \in Seq(CallsOf) /\ Len(stack') = n - 1
      /\ \A d \in 1 .. n - 1 : stack'[d] = stack[d]
  BY Returned
<1>2. N \in Nat /\ DOMAIN uniques = 1 .. N /\ n \in Nat \ {0} /\ stack # <<>>
  BY <1>1, Positions
<1>3. \A c \in 1 .. N : J[c] \in 1 .. Len(uniques[c]) /\ Len(uniques[c]) \in Nat
  BY <1>2, Positions DEF Places
<1>4. \A d \in 1 .. n : stack[d].i \in Nat
  BY Positions
<1>5. stack' = <<>> <=> n = 1
  BY <1>1, <1>2, EmptySeq
<1>6. J[n] < stack[n].i \/ J[n] = stack[n].i
  BY <1>1, <1>3, <1>4
<1>7. Past(J) <=> \/ Same(n)
                  \/ \E d \in 1 .. n - 1 : Same(d) /\ J[d] < stack[d].i
  <2>1. Past(J) <=> \E d \in 1 .. n : Same(d) /\ (J[d] < stack[d].i \/ (d = n /\ J[d] = stack[d].i))
    <3>1. 1 .. n \cap DOMAIN uniques = 1 .. n
      BY <1>1, <1>2
    <3> QED
      BY <1>2, <3>1 DEF Past
  <2> HIDE DEF n, Same
  <2>2. \A d : d \in 1 .. n <=> d = n \/ d \in 1 .. n - 1
    BY <1>2
  <2>3. \A d \in 1 .. n - 1 : d # n
    BY <1>2
  <2> QED
    BY <1>6, <2>1, <2>2, <2>3
<1>8. CASE n = 1
  <2>1. Same(n) /\ stack' = <<>>
    BY <1>5, <1>8
  <2> HIDE DEF n, Same
  <2> QED
    BY <1>7, <2>1 DEF Past
<1>9. CASE n # 1
  <2> DEFINE m == n - 1
  <2>1. /\ m \in Nat \ {0} /\ n = m + 1 /\ m \in 1 .. N
    BY <1>1, <1>2, <1>9
  <2>2. Past(J)' <=> \E d \in 1 .. m : /\ \A c \in 1 .. d - 1 : J[c] = stack'[c].i
                                       /\ J[d] < stack'[d].i \/ (d = m /\ J[d] = stack'[d].i)
    <3>1. 1 .. m \cap DOMAIN uniques = 1 .. m
      BY <1>2, <2>1
    <3> QED
      BY <1>1, <1>5, <1>9, <3>1 DEF Past
  <2> HIDE DEF n
  <2>3. \A d \in 1 .. m : /\ (\A c \in 1 .. d - 1 : J[c] = stack'[c].i) <=> Same(d)
                          /\ stack'[d].i = stack[d].i
    <3>1. \A d \in 1 .. m : \A c \in 1 .. d - 1 : c \in 1 .. m
      BY <2>1
    <3> QED
      BY <1>1, <3>1
  <2>4. Same(n) <=> Same(m) /\ J[m] = stack[m].i
    <3>1. \A c : c \in 1 .. n - 1 <=> c = m \/ c \in 1 .. m - 1
      BY <2>1
    <3> QED
      BY <3>1
  <2>5. m \in 1 .. m
    BY <2>1
  <2> HIDE DEF Same
  <2>6. Past(J)' <=> \E d \in 1 .. m : Same(d) /\ (J[d] < stack[d].i \/ (d = m /\ J[d] = stack[d].i))
    BY <2>2, <2>3
  <2>7. Past(J)' <=> \/ Same(m) /\ J[m] = stack[m].i
                     \/ \E d \in 1 .. m : Same(d) /\ J[d] < stack[d].i
    BY <2>5, <2>6
  <2> QED
    BY <1>7, <2>4, <2>7
<1> QED
  BY <1>8, <1>9

\* The place that the calls stand at.
Here == [c \in DOMAIN uniques |-> stack[c].i]

\* The innermost call deals with the place that the calls stand at.
LEMMA PastAdded ==
    ASSUME PrefixTypes, SlicesInv, PathInv, AddEntry
    PROVE  /\ Here \in Places /\ ~ Past(Here) /\ Combination(Here) = Top.vals
           /\ \A J \in Places : Past(J)' <=> Past(J) \/ J = Here
<1> DEFINE N == Len(uniques)
           Same(J, d) == \A c \in 1 .. d - 1 : J[c] = stack[c].i
<1>1. /\ Len(stack) = N + 1 /\ N \in Nat \ {0} /\ Top = stack[N + 1] /\ Top \in CallsOf
      /\ Len(stack') = N /\ \A d \in 1 .. N : stack'[d] = stack[d]
      /\ uniques' = uniques /\ stack' \in Seq(CallsOf)
  BY Added
<1>2. /\ DOMAIN uniques = 1 .. N
      /\ \A c \in 1 .. N : stack[c].i \in Nat /\ Len(uniques[c]) \in Nat
      /\ stack # <<>> /\ stack' # <<>>
  BY <1>1, Positions
<1>3. /\ \A c \in 1 .. N : /\ stack[c].i >= 1 /\ stack[c].i <= Len(uniques[c])
                           /\ Top.vals[c] = uniques[c][stack[c].i]
      /\ Len(Top.vals) = N /\ Top.vals \in Seq(Nat)
  <2>1. N + 1 \in 1 .. Len(stack) /\ \A c \in 1 .. N : c \in 1 .. Len(stack) /\ c \in 1 .. (N + 1) - 1
    BY <1>1
  <2>2. Len(Top.vals) = (N + 1) - 1 /\ (N + 1) - 1 = N
    BY <1>1, <2>1 DEF SlicesInv
  <2> HIDE DEF N
  <2> QED
    BY <1>1, <1>2, <2>1, <2>2 DEF PathInv, CallsOf
<1>4. Here \in Places
  BY <1>2, <1>3, SMTT(30) DEF Here, Places
<1>5. Combination(Here) = Top.vals
  <2>1. Combination(Here) = [c \in 1 .. N |-> uniques[c][stack[c].i]]
    BY <1>2 DEF Combination, Here
  <2>2. Top.vals = [c \in 1 .. N |-> Top.vals[c]]
    BY <1>3
  <2> QED
    BY <1>3, <2>1, <2>2
<1>6. \A J : Past(J) <=> \E d \in 1 .. N : Same(J, d) /\ J[d] < stack[d].i
  <2>1. \A d : d \in 1 .. (N + 1) \cap 1 .. N <=> d \in 1 .. N
    BY <1>1
  <2>2. \A d \in 1 .. N : d # N + 1
    BY <1>1
  <2> QED
    BY <1>1, <1>2, <2>1, <2>2 DEF Past
<1>7. \A J : Past(J)' <=> \E d \in 1 .. N :
                  Same(J, d) /\ (J[d] < stack[d].i \/ (d = N /\ J[d] = stack[d].i))
  <2>1. \A d \in 1 .. N : \A c \in 1 .. d - 1 : c \in 1 .. N
    BY <1>1
  <2>2. 1 .. N \cap DOMAIN uniques = 1 .. N
    BY <1>2
  <2> QED
    BY <1>1, <1>2, <2>1, <2>2 DEF Past
<1>8. ~ Past(Here)
  BY <1>2, <1>6 DEF Here
<1>9. ASSUME NEW J \in Places
      PROVE  (Same(J, N) /\ J[N] = stack[N].i) <=> J = Here
  <2>1. \A c : c \in 1 .. N <=> c = N \/ c \in 1 .. N - 1
    BY <1>1
  <2>2. J = [c \in 1 .. N |-> J[c]] /\ Here = [c \in 1 .. N |-> stack[c].i]
    BY <1>2 DEF Places, Here
  <2>3. J = Here <=> \A c \in 1 .. N : J[c] = stack[c].i
    BY <2>2
  <2> QED
    BY <2>1, <2>3
<1>10. N \in 1 .. N
  BY <1>1
<1>11. ASSUME NEW J \in Places
       PROVE  Past(J)' <=> Past(J) \/ J = Here
  <2> HIDE DEF N, Same
  <2>1. Past(J)' <=> (Same(J, N) /\ J[N] = stack[N].i) \/ \E d \in 1 .. N : Same(J, d) /\ J[d] < stack[d].i
    BY <1>7, <1>10
  <2> QED
    BY <1>6, <1>9, <2>1
<1> QED
  BY <1>4, <1>5, <1>8, <1>11


\* Two places with the same values are the same.
LEMMA CombinationOnce ==
    ASSUME PrefixTypes, Distinct, NEW I \in Places, NEW J \in Places,
           Combination(I) = Combination(J)
    PROVE  I = J
<1>1. \A c \in DOMAIN uniques : /\ I[c] \in 1 .. Len(uniques[c]) /\ J[c] \in 1 .. Len(uniques[c])
                                /\ uniques[c][I[c]] = uniques[c][J[c]]
  BY DEF Places, Combination
<1>2. \A c \in DOMAIN uniques : I[c] = J[c]
  BY <1>1 DEF Distinct
<1> QED
  BY <1>2 DEF Places

LEMMA StepEntries ==
    ASSUME PrefixTypes, SlicesInv, PathInv, Distinct, EntriesInv, [Next]_vars
    PROVE  EntriesInv' /\ Distinct'
<1> DEFINE k == Len(result)
<1>0. k \in Nat
  BY LenProperties DEF PrefixTypes
<1>1. uniques' = uniques
  BY DEF Next, NextTime, NextType, AddEntry, Return, vars
<1>2. Places' = Places /\ Distinct' /\ \A J : Combination(J)' = Combination(J)
  BY <1>1 DEF Places, Distinct, Combination
<1>3. CASE AddEntry
  <2>1. /\ Here \in Places /\ ~ Past(Here) /\ Combination(Here) = Top.vals
        /\ \A J \in Places : Past(J)' <=> Past(J) \/ J = Here
    BY <1>3, PastAdded
  <2>2. /\ Len(result') = k + 1 /\ result'[k + 1].vals = Top.vals
        /\ \A m \in 1 .. k : result'[m] = result[m]
    BY <1>3, Added
  <2>3. /\ \A n \in 1 .. k : \E J \in Places : Past(J) /\ result[n].vals = Combination(J)
        /\ \A J \in Places : Past(J) => \E n \in 1 .. k : result[n].vals = Combination(J)
        /\ \A m, n \in 1 .. k : result[m].vals = result[n].vals => m = n
    BY DEF EntriesInv
  <2> HIDE DEF k
  <2>4. \A n \in 1 .. k + 1 : n = k + 1 \/ n \in 1 .. k
    BY <1>0
  <2>5. k + 1 \in 1 .. k + 1 /\ \A n \in 1 .. k : n \in 1 .. k + 1
    BY <1>0
  <2>6. \A n \in 1 .. k + 1 : \E J \in Places : Past(J)' /\ result'[n].vals = Combination(J)
    BY <2>1, <2>2, <2>3, <2>4
  <2>7. \A J \in Places : Past(J)' => \E n \in 1 .. k + 1 : result'[n].vals = Combination(J)
    BY <2>1, <2>2, <2>3, <2>5
  <2>8. \A n \in 1 .. k : result[n].vals # Top.vals
    <3> SUFFICES ASSUME NEW n \in 1 .. k, result[n].vals = Top.vals
                 PROVE  FALSE
      OBVIOUS
    <3>1. PICK J \in Places : Past(J) /\ result[n].vals = Combination(J)
      BY <2>3
    <3>2. J = Here
      BY <2>1, <3>1, CombinationOnce
    <3> QED
      BY <2>1, <3>1, <3>2
  <2>9. ASSUME NEW m \in 1 .. k + 1, NEW n \in 1 .. k + 1,
               result'[m].vals = result'[n].vals
        PROVE  m = n
    BY <2>2, <2>3, <2>4, <2>8, <2>9
  <2> QED
    BY <1>2, <2>2, <2>6, <2>7, <2>9 DEF EntriesInv
<1>4. ASSUME ~ AddEntry
      PROVE  result' = result /\ \A J \in Places : Past(J)' <=> Past(J)
  <2>1. CASE NextTime \/ NextType
    BY <2>1, PastDeeper DEF NextTime, NextType
  <2>2. CASE Return
    BY <2>2, PastReturned DEF Return
  <2>3. CASE UNCHANGED vars
    BY <2>3 DEF Past, vars
  <2> QED
    BY <1>4, <2>1, <2>2, <2>3 DEF Next
<1>5. CASE ~ AddEntry
  BY <1>2, <1>4, <1>5 DEF EntriesInv
<1> QED
  BY <1>2, <1>3, <1>5

-----------------------------------------------------------------------------
(* The slices of up to three columns *)

\* A call that finds the array of its prefix full copies it.
LEMMA FullCopies ==
    ASSUME NEW s \in Slices, arrays \in Seq(Seq(Nat)), NEW x \in Nat,
           s.array \in 1 .. Len(arrays), s.len \in Nat \ {0}, Len(arrays[s.array]) = s.len
    PROVE  LET new == Append1(s, x)
           IN  /\ new.slice = Slice(Len(arrays) + 1, s.len + 1)
               /\ \A n \in 1 .. Len(arrays) : new.arrays[n] = arrays[n]
               /\ Len(new.arrays[Len(arrays) + 1]) = 2 * s.len
               /\ SubSeq(new.arrays[Len(arrays) + 1], 1, s.len + 1) = Append(arrays[s.array], x)
<1> DEFINE old == arrays[s.array]
           m == 2 * s.len
           a == [n \in 1 .. m |->
                    IF n <= s.len THEN old[n] ELSE IF n = s.len + 1 THEN x ELSE 0]
<1>1. /\ m \in Nat /\ s.len + 1 <= m /\ s.len + 1 \in Nat /\ old \in Seq(Nat)
      /\ Len(old) = s.len
  BY ElementOfSeq, SMTT(30)
<1>2. /\ Append1(s, x).slice = Slice(Len(arrays) + 1, s.len + 1)
      /\ Append1(s, x).arrays = Append(arrays, a)
  BY DEF Append1
<1> HIDE DEF m, old
<1>3. /\ \A n \in 1 .. m : a[n] \in Nat
      /\ \A n \in 1 .. s.len : a[n] = old[n]
      /\ a[s.len + 1] = x
  <2>1. \A n \in 1 .. s.len : old[n] \in Nat
    BY <1>1, ElementOfSeq
  <2> QED
    BY <1>1, <2>1
<1>4. a \in [1 .. m -> Nat]
  BY <1>3
<1> HIDE DEF a
<1>5. a \in Seq(Nat) /\ Len(a) = m
  BY <1>1, <1>4, SeqDef, LenProperties
<1>6. /\ \A n \in 1 .. Len(arrays) : Append1(s, x).arrays[n] = arrays[n]
      /\ Append1(s, x).arrays[Len(arrays) + 1] = a
  BY <1>2, <1>5, AppendProperties
<1>7. SubSeq(a, 1, s.len + 1) = Append(old, x)
  <2> DEFINE j == s.len + 1
             u == SubSeq(a, 1, j)
             v == Append(old, x)
  <2>1. \A n \in 1 .. j : a[n] \in Nat /\ 1 + n - 1 = n
    BY <1>1, <1>3
  <2>2. j \in Nat /\ j - 1 + 1 = j /\ 1 <= j
    BY <1>1
  <2>3. v \in Seq(Nat) /\ Len(v) = j /\ v[j] = x /\ \A n \in 1 .. s.len : v[n] = old[n]
    BY <1>1, AppendProperties
  <2>4. \A n \in 1 .. j : n = j \/ n \in 1 .. s.len
    BY <1>1
  <2> HIDE DEF j, v
  <2>5. u \in Seq(Nat) /\ Len(u) = j /\ \A n \in 1 .. j : u[n] = a[n]
    BY <2>1, <2>2, SubSeqProperties
  <2> HIDE DEF u
  <2>6. \A n \in 1 .. j : u[n] = v[n]
    BY <1>3, <2>3, <2>4, <2>5 DEF j
  <2> QED
    BY <2>3, <2>5, <2>6, SeqEqual DEF u, v, j
<1> QED
  BY <1>2, <1>5, <1>6, <1>7 DEF m, old


\* With up to three columns each prefix that a call makes has an array of its
\* own.
LEMMA OwnArray ==
    ASSUME PrefixTypes, SlicesInv, ArraysInv, Len(uniques) <= 3, NextTime \/ NextType
    PROVE  LET n == Len(stack)
               own == arrays'[Len(arrays) + 1]
           IN  /\ \A m \in 1 .. Len(arrays) : arrays'[m] = arrays[m]
               /\ stack'[n + 1].prefix.array = Len(arrays) + 1
               /\ n <= 2 => Len(own) = n
               /\ SubSeq(own, 1, n) = stack'[n + 1].vals
<1> DEFINE n == Len(stack)
           x == uniques[n][Top.i + 1]
           s == Top.prefix
<1>1. /\ n \in 1 .. Len(uniques) /\ Top = stack[n] /\ Top \in CallsOf /\ x \in Nat
      /\ stack'[n + 1].vals = Append(Top.vals, x)
      /\ \/ /\ n = 1 /\ arrays' = Append(arrays, <<x>>)
            /\ stack'[n + 1].prefix.array = Len(arrays) + 1
         \/ /\ n > 1 /\ arrays' = Append1(s, x).arrays
            /\ stack'[n + 1].prefix = Append1(s, x).slice
  BY Deeper
<1>2. /\ arrays \in Seq(Seq(Nat)) /\ Len(arrays) \in Nat /\ Len(uniques) \in Nat
      /\ n \in {1, 2, 3} /\ Top.vals \in Seq(Nat) /\ s \in Slices
  <2>1. arrays \in Seq(Seq(Nat)) /\ uniques \in Seq(Seq(Nat))
    BY DEF PrefixTypes
  <2>2. Len(arrays) \in Nat /\ Len(uniques) \in Nat
    BY <2>1, LenProperties
  <2>3. Top.vals \in Seq(Nat) /\ s \in Slices
    BY <1>1 DEF CallsOf
  <2>4. n \in 1 .. Len(uniques)
    BY <1>1
  <2> HIDE DEF n
  <2>5. n \in {1, 2, 3}
    BY <2>2, <2>4
  <2> QED
    BY <2>1, <2>2, <2>3, <2>5
<1>3. Len(Top.vals) = n - 1
  BY <1>1, <1>2 DEF SlicesInv
<1>4. CASE n = 1
  <2>1. Append(Top.vals, x) = <<x>>
    <3>1. Top.vals = <<>>
      BY <1>2, <1>3, <1>4, EmptySeq
    <3> QED
      BY <3>1
  <2>2. <<x>> \in Seq(Nat) /\ Len(<<x>>) = 1
    BY <1>1
  <2>3. arrays' = Append(arrays, <<x>>) /\ stack'[n + 1].prefix.array = Len(arrays) + 1
    BY <1>1, <1>4
  <2> HIDE DEF x
  <2>4. /\ \A m \in 1 .. Len(arrays) : arrays'[m] = arrays[m]
        /\ arrays'[Len(arrays) + 1] = <<x>>
    BY <1>2, <2>2, <2>3, AppendProperties
  <2>5. SubSeq(<<x>>, 1, 1) = <<x>>
    <3> DEFINE u == <<x>>
    <3>1. u \in Seq(Nat) /\ Len(u) = 1
      BY <2>2
    <3> HIDE DEF u
    <3>2. SubSeq(u, 1, 1) = u
      BY <3>1
    <3> QED
      BY <3>2 DEF u
  <2>6. SubSeq(arrays'[Len(arrays) + 1], 1, n) = stack'[n + 1].vals
    BY <1>1, <1>4, <2>1, <2>4, <2>5
  <2> QED
    BY <1>4, <2>2, <2>3, <2>4, <2>6
<1>5. CASE n # 1
  <2>0. n \in {2, 3} /\ n \in 2 .. n /\ n \in 2 .. Len(stack) /\ n <= 3
    <3>1. n = Len(stack)
      OBVIOUS
    <3>2. n \in Nat
      BY <1>2
    <3> HIDE DEF n
    <3> QED
      BY <1>2, <1>5, <3>1, <3>2
  <2>1. /\ s.array \in 1 .. Len(arrays) /\ s.len = n - 1
        /\ Len(arrays[s.array]) = n - 1 /\ Contents(s) = Top.vals
    <3>1. WithinCapacity(stack[n].prefix) /\ stack[n].prefix.len = n - 1
      BY <2>0 DEF SlicesInv
    <3>2. Spelled(stack[n]) /\ Len(arrays[stack[n].prefix.array]) = n - 1
      BY <2>0 DEF ArraysInv
    <3> HIDE DEF n
    <3> QED
      BY <1>1, <3>1, <3>2 DEF WithinCapacity, Spelled
  <2>2. arrays[s.array] \in Seq(Nat) /\ s.len \in Nat \ {0} /\ s.len + 1 = n
    <3> HIDE DEF n, s
    <3>1. arrays[s.array] \in Seq(Nat)
      BY <1>2, <2>1, ElementOfSeq
    <3>2. s.len \in Nat \ {0} /\ s.len + 1 = n
      BY <2>0, <2>1
    <3> QED
      BY <3>1, <3>2
  <2>3. arrays[s.array] = Top.vals
    <3>1. SubSeq(arrays[s.array], 1, Len(arrays[s.array])) = arrays[s.array]
      BY <2>2
    <3> QED
      BY <2>1, <3>1 DEF Contents
  <2>4. arrays' = Append1(s, x).arrays /\ stack'[n + 1].prefix = Append1(s, x).slice
    BY <1>1, <1>5
  <2>5. Len(arrays[s.array]) = s.len
    BY <2>1
  <2> HIDE DEF s, x, n
  <2>6. /\ Append1(s, x).slice = Slice(Len(arrays) + 1, s.len + 1)
        /\ \A m \in 1 .. Len(arrays) : Append1(s, x).arrays[m] = arrays[m]
        /\ Len(Append1(s, x).arrays[Len(arrays) + 1]) = 2 * s.len
        /\ SubSeq(Append1(s, x).arrays[Len(arrays) + 1], 1, s.len + 1) = Append(arrays[s.array], x)
    BY <1>1, <1>2, <2>1, <2>2, <2>5, FullCopies
  <2>7. stack'[n + 1].prefix.array = Len(arrays) + 1
    BY <2>4, <2>6 DEF Slice
  <2>8. n <= 2 => 2 * s.len = n
    BY <2>0, <2>2
  <2>9. SubSeq(arrays'[Len(arrays) + 1], 1, n) = stack'[n + 1].vals
    BY <1>1, <2>2, <2>3, <2>4, <2>6
  <2> QED
    BY <2>4, <2>6, <2>7, <2>8, <2>9 DEF n
<1> QED
  BY <1>4, <1>5

LEMMA StepArrays ==
    ASSUME PrefixTypes, SlicesInv, ArraysInv, Len(uniques) <= 3, [Next]_vars
    PROVE  ArraysInv'
<1>1. CASE NextTime \/ NextType
  <2> DEFINE n == Len(stack)
             new == stack'[n + 1]
  <2>1. /\ n \in 1 .. Len(uniques) /\ Top = stack[n] /\ Top \in CallsOf
        /\ stack' \in Seq(CallsOf) /\ Len(stack') = n + 1
        /\ \A d \in 1 .. n - 1 : stack'[d] = stack[d]
        /\ stack'[n] = [Top EXCEPT !.i = @ + 1]
        /\ new.prefix.len = n /\ result' = result
    BY <1>1, Deeper
  <2>2. /\ \A m \in 1 .. Len(arrays) : arrays'[m] = arrays[m]
        /\ new.prefix.array = Len(arrays) + 1
        /\ n <= 2 => Len(arrays'[Len(arrays) + 1]) = n
        /\ SubSeq(arrays'[Len(arrays) + 1], 1, n) = new.vals
    BY <1>1, OwnArray
  <2>3. n \in Nat \ {0}
    BY <2>1, LenProperties DEF PrefixTypes
  <2>4. /\ \A d \in 2 .. n : stack[d].prefix.array \in 1 .. Len(arrays)
        /\ \A m \in 1 .. Len(result) : result[m].prefix.array \in 1 .. Len(arrays)
    BY DEF SlicesInv, WithinCapacity
  <2>5. /\ \A d \in 2 .. n : /\ Spelled(stack[d])
                             /\ d <= 3 => Len(arrays[stack[d].prefix.array]) = d - 1
        /\ \A m \in 1 .. Len(result) : Spelled(result[m])
    BY DEF ArraysInv
  <2> HIDE DEF n, new
  <2>6. \A d \in 2 .. n : stack'[d].prefix = stack[d].prefix /\ stack'[d].vals = stack[d].vals
    <3>1. \A d \in 2 .. n : d = n \/ d \in 1 .. n - 1
      BY <2>3
    <3> QED
      BY <2>1, <3>1, ZenonT(30) DEF CallsOf
  <2>7. \A e : e.prefix.array \in 1 .. Len(arrays) /\ Spelled(e) => Spelled(e)'
    BY <2>2 DEF Spelled, Contents
  <2>8. ASSUME NEW d \in 2 .. n + 1
        PROVE  /\ SubSeq(arrays'[stack'[d].prefix.array], 1, stack'[d].prefix.len) = stack'[d].vals
               /\ d <= 3 => Len(arrays'[stack'[d].prefix.array]) = d - 1
    <3>1. CASE d = n + 1
      <4>1. stack'[d] = new /\ d - 1 = n /\ (d <= 3 => n <= 2)
        BY <2>3, <3>1 DEF new
      <4> QED
        BY <2>1, <2>2, <4>1
    <3>2. CASE d # n + 1
      <4>1. d \in 2 .. n
        BY <2>3, <3>2
      <4>2. /\ stack[d].prefix.array \in 1 .. Len(arrays)
            /\ SubSeq(arrays[stack[d].prefix.array], 1, stack[d].prefix.len) = stack[d].vals
            /\ d <= 3 => Len(arrays[stack[d].prefix.array]) = d - 1
        BY <2>4, <2>5, <4>1 DEF Spelled, Contents
      <4>3. stack'[d].prefix = stack[d].prefix /\ stack'[d].vals = stack[d].vals
        BY <2>6, <4>1
      <4> QED
        BY <2>2, <4>2, <4>3
    <3> QED
      BY <3>1, <3>2
  <2>9. \A m \in 1 .. Len(result') : Spelled(result[m])'
    BY <2>1, <2>4, <2>5, <2>7 DEF Spelled, Contents
  <2> QED
    BY <2>1, <2>8, <2>9 DEF ArraysInv, Spelled, Contents
<1>2. CASE AddEntry
  <2> DEFINE n == Len(stack)
             k == Len(result)
  <2>1. /\ n = Len(uniques) + 1 /\ Len(uniques) \in Nat \ {0}
        /\ Top = stack[n] /\ Len(stack') = n - 1
        /\ \A d \in 1 .. n - 1 : stack'[d] = stack[d]
        /\ Len(result') = k + 1 /\ \A m \in 1 .. k : result'[m] = result[m]
        /\ result'[k + 1].prefix = Top.prefix /\ result'[k + 1].vals = Top.vals
        /\ arrays' = arrays
    BY <1>2, Added
  <2>2. k \in Nat
    BY LenProperties DEF PrefixTypes
  <2>3. /\ \A d \in 2 .. n : /\ Spelled(stack[d])
                             /\ d <= 3 => Len(arrays[stack[d].prefix.array]) = d - 1
        /\ \A m \in 1 .. k : Spelled(result[m])
    BY DEF ArraysInv
  <2> HIDE DEF k, n
  <2>4. \A m \in 1 .. k + 1 : m = k + 1 \/ m \in 1 .. k
    BY <2>2
  <2>5. \A d \in 2 .. n - 1 : d \in 1 .. n - 1 /\ d \in 2 .. n
    BY <2>1
  <2>6. n \in 2 .. n
    BY <2>1
  <2>7. \A d \in 2 .. n - 1 : /\ SubSeq(arrays'[stack'[d].prefix.array], 1, stack'[d].prefix.len) = stack'[d].vals
                              /\ d <= 3 => Len(arrays'[stack'[d].prefix.array]) = d - 1
    BY <2>1, <2>3, <2>5 DEF Spelled, Contents
  <2>8. \A m \in 1 .. k + 1 :
            SubSeq(arrays'[result'[m].prefix.array], 1, result'[m].prefix.len) = result'[m].vals
    BY <2>1, <2>3, <2>4, <2>6, ZenonT(30) DEF Spelled, Contents
  <2> QED
    BY <2>1, <2>7, <2>8 DEF ArraysInv, Spelled, Contents
<1>3. CASE Return
  <2>1. /\ Len(stack) \in Nat \ {0} /\ Len(stack') = Len(stack) - 1
        /\ \A d \in 1 .. Len(stack) - 1 : stack'[d] = stack[d]
        /\ arrays' = arrays /\ result' = result
    BY <1>3, Returned, Positions
  <2>2. \A d \in 2 .. Len(stack') : d \in 2 .. Len(stack) /\ d \in 1 .. Len(stack) - 1
    BY <2>1
  <2> QED
    BY <2>1, <2>2 DEF ArraysInv, Spelled, Contents
<1>4. CASE UNCHANGED vars
  BY <1>4 DEF ArraysInv, Spelled, Contents, vars
<1> QED
  BY <1>1, <1>2, <1>3, <1>4 DEF Next


\* The outermost call, as it begins.
Begun ==
    /\ uniques \in Seq(Seq(Nat)) /\ uniques # <<>>
    /\ arrays = <<>> /\ result = <<>> /\ stack = <<Call(Slice(0, 0), <<>>)>>

LEMMA FirstCall ==
    Begun => PrefixTypes /\ SlicesInv /\ ArraysInv /\ PathInv /\ EntriesInv
<1> SUFFICES ASSUME Begun
             PROVE  PrefixTypes /\ SlicesInv /\ ArraysInv /\ PathInv /\ EntriesInv
  OBVIOUS
<1> USE DEF Begun
<1> DEFINE first == Call(Slice(0, 0), <<>>)
<1>1. first \in CallsOf /\ first.i = 0 /\ first.vals = <<>>
  <2>1. Slice(0, 0) \in Slices /\ <<>> \in Seq(Nat)
    BY DEF Slice, Slices
  <2> QED
    BY <2>1 DEF Call, CallsOf
<1>2. Len(uniques) \in Nat \ {0} /\ DOMAIN uniques = 1 .. Len(uniques)
  BY EmptySeq, LenProperties
<1>3. stack \in Seq(CallsOf) /\ Len(stack) = 1 /\ stack[1] = first
  <2>1. stack = <<first>>
    OBVIOUS
  <2> HIDE DEF first
  <2> QED
    BY <1>1, <2>1
<1> HIDE DEF first
<1>4. arrays \in Seq(Seq(Nat)) /\ result \in Seq(Entries) /\ Len(result) = 0
  OBVIOUS
<1>5. PrefixTypes
  BY <1>2, <1>3, <1>4 DEF PrefixTypes
<1>6. SlicesInv /\ ArraysInv
  <2>1. \A d \in 1 .. Len(stack) : Len(stack[d].vals) = d - 1
    BY <1>1, <1>3
  <2> QED
    BY <1>3, <1>4, <2>1 DEF SlicesInv, ArraysInv
<1>7. \A c \in 1 .. Len(uniques) : Len(uniques[c]) \in Nat
  BY <1>5, Positions
<1>8. PathInv
  BY <1>1, <1>2, <1>3, <1>7 DEF PathInv
<1>9. \A J \in Places : ~ Past(J)
  <2> TAKE J \in Places
  <2>1. 1 .. Len(stack) \cap DOMAIN uniques = {1} /\ stack[1].i = 0 /\ stack # <<>>
    BY <1>1, <1>2, <1>3
  <2>2. J[1] \in Nat \ {0}
    BY <1>2, <1>7, SMTT(30) DEF Places
  <2> QED
    BY <2>1, <2>2 DEF Past
<1>10. EntriesInv
  BY <1>4, <1>9 DEF EntriesInv
<1> QED
  BY <1>5, <1>6, <1>8, <1>10

\* A column has values, and there are columns.
LEMMA SchemaTypes ==
    ASSUME NEW u \in Schemas
    PROVE  u \in Seq(Seq(Nat)) /\ u # <<>>
<1>1. u \in Seq(Seq(Nat) \ {<<>>}) /\ u # <<>>
  BY SchemasAssumption
<1>2. Len(u) \in Nat /\ u \in [1 .. Len(u) -> Seq(Nat) \ {<<>>}]
  BY <1>1, LenProperties
<1>3. u \in [1 .. Len(u) -> Seq(Nat)]
  BY <1>2
<1> QED
  BY <1>1, <1>2, <1>3, SeqDef

LEMMA InitPrefixes ==
    ASSUME Init
    PROVE  PrefixTypes /\ SlicesInv /\ ArraysInv /\ PathInv /\ EntriesInv
<1>1. uniques \in Schemas
  BY DEF Init
<1>2. uniques \in Seq(Seq(Nat)) /\ uniques # <<>>
  BY <1>1, SchemaTypes
<1> QED
  BY <1>2, FirstCall DEF Init, Begun

\* With up to two type columns the prefix of every entry spells the values
\* that the entry is about, although the calls share arrays (determinePrefixes):
\* three are the least number of type columns with which it fails.
THEOREM PrefixesSpelled ==
    ASSUME \A u \in Schemas : Len(u) <= 3
    PROVE  Spec => []PrefixesSpellTheirEntries
<1> DEFINE Inv == PrefixTypes /\ SlicesInv /\ ArraysInv /\ uniques \in Schemas
<1>1. Init => Inv
  BY InitPrefixes DEF Init
<1>2. Inv /\ [Next]_vars => Inv'
  <2> SUFFICES ASSUME Inv, [Next]_vars
               PROVE  Inv'
    OBVIOUS
  <2>1. Len(uniques) <= 3
    OBVIOUS
  <2>2. uniques' = uniques
    BY DEF Next, NextTime, NextType, AddEntry, Return, vars
  <2> QED
    BY <2>1, <2>2, StepTypes, StepArrays
<1>3. Inv => PrefixesSpellTheirEntries
  <2> SUFFICES ASSUME PrefixTypes, ArraysInv
               PROVE  PrefixesSpellTheirEntries
    OBVIOUS
  <2>1. DOMAIN result = 1 .. Len(result)
    BY LenProperties DEF PrefixTypes
  <2> QED
    BY <2>1 DEF ArraysInv, Spelled, PrefixesSpellTheirEntries
<1> QED
  BY <1>1, <1>2, <1>3, PTL DEF Spec

\* When the outermost call has returned there is exactly one entry for each
\* combination of a value of every column, whatever the number of columns.
EachCombinationOnce ==
    stack = <<>> =>
        /\ \A n \in 1 .. Len(result) : \E J \in Places : result[n].vals = Combination(J)
        /\ \A J \in Places : \E n \in 1 .. Len(result) : result[n].vals = Combination(J)
        /\ \A m, n \in 1 .. Len(result) : result[m].vals = result[n].vals => m = n

\* determinePrefixes combines the values of the columns completely and without
\* repetition, so that no two goroutines of AddToTree build the same tree.
THEOREM CombinationsComplete ==
    ASSUME \A u \in Schemas : \A c \in DOMAIN u : \A i, j \in 1 .. Len(u[c]) :
               u[c][i] = u[c][j] => i = j
    PROVE  Spec => []EachCombinationOnce
<1> DEFINE Inv == PrefixTypes /\ SlicesInv /\ PathInv /\ Distinct /\ EntriesInv
<1>1. Init => Inv
  BY InitPrefixes DEF Init, Distinct
<1>2. Inv /\ [Next]_vars => Inv'
  BY StepTypes, StepPath, StepEntries
<1>3. Inv => EachCombinationOnce
  BY DEF EntriesInv, EachCombinationOnce, Past
<1> QED
  BY <1>1, <1>2, <1>3, PTL DEF Spec

=============================================================================
