--------------------------- MODULE TraceFormatProofs ---------------------------
(***************************************************************************)
(* Theorems about TraceFormat, for any recorded traces and however much of *)
(* the file is there: a whole file is loaded as the trace that was         *)
(* recorded, and what a truncated one holds as it was.                     *)
(***************************************************************************)
EXTENDS TraceFormat, FiniteSetTheorems, SequenceTheorems, WellFoundedInduction, TLAPS

--------------------------------------------------------------------------------
(* Sequences, and sequences of sequences in a row.                           *)

\* A set of naturals has a least one.
LEMMA LeastNatural ==
  ASSUME NEW T \in SUBSET Nat, T # {}
  PROVE  \E n \in T : \A m \in T : n <= m
<1> DEFINE R == OpToRel(<, Nat)
<1>1. IsWellFoundedOn(R, Nat)
  BY NatLessThanWellFounded
<1>2. \A x, y \in Nat : x < y => <<x, y>> \in R
  BY DEF OpToRel
<1> HIDE DEF R
<1>3. PICK n \in T : \A m \in T : ~(<<m, n>> \in R)
  BY <1>1, WFMin
<1>4. ASSUME NEW m \in T PROVE n <= m
  <2>1. m \in Nat /\ n \in Nat /\ ~(m < n)
    BY <1>2, <1>3
  <2> QED
    BY <2>1
<1> QED
  BY <1>4

\* A list is a sequence over any set that has its elements.
LEMMA ListIsSeq ==
  ASSUME NEW s, IsSequence(s), NEW S, \A i \in 1..Len(s) : s[i] \in S
  PROVE  s \in Seq(S) /\ Len(s) \in Nat /\ DOMAIN s = 1..Len(s)
<1>1. Len(s) \in Nat /\ s = [i \in 1..Len(s) |-> s[i]]
  BY DEF IsSequence
<1>2. s \in [1..Len(s) -> S]
  BY <1>1
<1> QED
  BY <1>1, <1>2

LEMMA SeqIsList ==
  ASSUME NEW S, NEW s \in Seq(S)
  PROVE  IsSequence(s) /\ Len(s) \in Nat /\ DOMAIN s = 1..Len(s)
  BY DEF IsSequence

\* A function on 1..n is a list of n elements.
LEMMA FunctionIsList ==
  ASSUME NEW n \in Nat, NEW f, DOMAIN f = 1..n, f = [i \in 1..n |-> f[i]]
  PROVE  IsSequence(f) /\ Len(f) = n
<1> DEFINE S == {f[i] : i \in 1..n}
<1>1. f \in [1..n -> S]
  OBVIOUS
<1>2. f \in Seq(S)
  BY <1>1
<1>3. Len(f) = n
  BY <1>2
<1> QED
  BY <1>2, <1>3, SeqIsList

\* Equal lists.
LEMMA SameList ==
  ASSUME NEW s, NEW t, IsSequence(s), IsSequence(t), Len(s) = Len(t),
         \A i \in 1..Len(s) : s[i] = t[i]
  PROVE  s = t
  BY DEF IsSequence

LEMMA ConcatLists ==
  ASSUME NEW s, NEW t, IsSequence(s), IsSequence(t)
  PROVE  /\ IsSequence(s \o t) /\ Len(s \o t) = Len(s) + Len(t)
         /\ \A i \in 1..Len(s) : (s \o t)[i] = s[i]
         /\ \A i \in 1..Len(t) : (s \o t)[Len(s) + i] = t[i]
<1> DEFINE S == {s[i] : i \in 1..Len(s)} \union {t[i] : i \in 1..Len(t)}
<1>1. s \in Seq(S) /\ Len(s) \in Nat
  BY ListIsSeq
<1>2. t \in Seq(S) /\ Len(t) \in Nat
  BY ListIsSeq
<1> HIDE DEF S
<1>3. /\ s \o t \in Seq(S) /\ Len(s \o t) = Len(s) + Len(t)
      /\ \A i \in 1..Len(s) + Len(t) : (s \o t)[i] = IF i <= Len(s) THEN s[i] ELSE t[i - Len(s)]
  BY <1>1, <1>2, ConcatProperties
<1>4. IsSequence(s \o t)
  BY <1>3, SeqIsList
<1>5. \A i \in 1..Len(s) : (s \o t)[i] = s[i]
  BY <1>1, <1>2, <1>3
<1>6. ASSUME NEW i \in 1..Len(t) PROVE (s \o t)[Len(s) + i] = t[i]
  <2>1. Len(s) + i \in 1..Len(s) + Len(t) /\ ~(Len(s) + i <= Len(s)) /\ (Len(s) + i) - Len(s) = i
    BY <1>1, <1>2
  <2> QED
    BY <1>3, <2>1
<1> QED
  BY <1>3, <1>4, <1>5, <1>6

\* The list u is s, followed by t.
Follows(u, s, t) ==
  /\ IsSequence(u) /\ Len(u) = Len(s) + Len(t)
  /\ \A i \in 1..Len(s) : u[i] = s[i]
  /\ \A i \in 1..Len(t) : u[Len(s) + i] = t[i]

LEMMA ConcatFollows ==
  ASSUME NEW s, NEW t, IsSequence(s), IsSequence(t)
  PROVE  Follows(s \o t, s, t) /\ Len(s) \in Nat /\ Len(t) \in Nat
<1>1. IsSequence(s \o t)
  BY ConcatLists
<1>2. Len(s \o t) = Len(s) + Len(t)
  BY ConcatLists, SMT
<1>3. \A i \in 1..Len(s) : (s \o t)[i] = s[i]
  BY ConcatLists, Zenon
<1>4. \A i \in 1..Len(t) : (s \o t)[Len(s) + i] = t[i]
  BY ConcatLists, SMT
<1>5. Len(s) \in Nat /\ Len(t) \in Nat
  BY DEF IsSequence
<1> QED
  BY <1>1, <1>2, <1>3, <1>4, <1>5, Zenon DEF Follows

\* The first elements of a list.
LEMMA FirstOfList ==
  ASSUME NEW s, IsSequence(s), NEW n \in 0..Len(s)
  PROVE  /\ IsSequence(SubSeq(s, 1, n)) /\ Len(SubSeq(s, 1, n)) = n
         /\ DOMAIN SubSeq(s, 1, n) = 1..n
         /\ \A i \in 1..n : SubSeq(s, 1, n)[i] = s[i]
         /\ SubSeq(s, 1, Len(s)) = s
<1> DEFINE S == {s[i] : i \in 1..Len(s)}
<1>1. s \in Seq(S) /\ Len(s) \in Nat
  BY ListIsSeq
<1>2. \A i \in 1..n : s[i] \in S
  BY <1>1
<1>3. \A i \in 1..Len(s) : s[i] \in S
  BY <1>1
<1> HIDE DEF S
<1>4. ASSUME NEW m \in 0..Len(s)
      PROVE  /\ SubSeq(s, 1, m) \in Seq(S) /\ Len(SubSeq(s, 1, m)) = m
             /\ \A i \in 1..m : SubSeq(s, 1, m)[i] = s[i]
  <2>1. m \in Int /\ m \in Nat /\ \A i \in 1..m : s[i] \in S
    BY <1>1, <1>3
  <2>2. /\ SubSeq(s, 1, m) \in Seq(S)
        /\ Len(SubSeq(s, 1, m)) = IF 1 <= m THEN m - 1 + 1 ELSE 0
        /\ \A i \in 1..m - 1 + 1 : SubSeq(s, 1, m)[i] = s[1 + i - 1]
    BY <2>1, SubSeqProperties
  <2>3. m - 1 + 1 = m /\ \A i \in 1..m : 1 + i - 1 = i
    BY <2>1
  <2> QED
    BY <2>1, <2>2, <2>3
<1>5. IsSequence(SubSeq(s, 1, n)) /\ DOMAIN SubSeq(s, 1, n) = 1..n
  BY <1>4, SeqIsList
<1>6. SubSeq(s, 1, Len(s)) = s
  <2>1. Len(s) \in 0..Len(s)
    BY <1>1
  <2>2. IsSequence(SubSeq(s, 1, Len(s)))
    BY <1>4, <2>1, SeqIsList
  <2> QED
    BY <1>4, <2>1, <2>2, SameList
<1> QED
  BY <1>4, <1>5, <1>6

LEMMA AppendedList ==
  ASSUME NEW s, IsSequence(s), NEW x
  PROVE  /\ IsSequence(Append(s, x)) /\ Len(Append(s, x)) = Len(s) + 1
         /\ Append(s, x)[Len(s) + 1] = x
         /\ \A i \in 1..Len(s) : Append(s, x)[i] = s[i]
<1> DEFINE S == {s[i] : i \in 1..Len(s)} \union {x}
<1>1. s \in Seq(S) /\ x \in S
  BY ListIsSeq
<1> HIDE DEF S
<1>2. /\ Append(s, x) \in Seq(S) /\ Len(Append(s, x)) = Len(s) + 1
      /\ \A i \in 1..Len(s) : Append(s, x)[i] = s[i]
      /\ Append(s, x)[Len(s) + 1] = x
  BY <1>1, AppendProperties
<1> QED
  BY <1>2, SeqIsList

\* The next element makes the next beginning of a list.
LEMMA NextOfList ==
  ASSUME NEW s, IsSequence(s), NEW n \in 0..Len(s) - 1
  PROVE  SubSeq(s, 1, n + 1) = Append(SubSeq(s, 1, n), s[n + 1])
<1>1. Len(s) \in Nat /\ n \in 0..Len(s) /\ n + 1 \in 0..Len(s) /\ n \in Nat
  BY DEF IsSequence
<1>2. /\ IsSequence(SubSeq(s, 1, n)) /\ Len(SubSeq(s, 1, n)) = n
      /\ \A i \in 1..n : SubSeq(s, 1, n)[i] = s[i]
  BY <1>1, FirstOfList
<1>3. /\ IsSequence(SubSeq(s, 1, n + 1)) /\ Len(SubSeq(s, 1, n + 1)) = n + 1
      /\ \A i \in 1..n + 1 : SubSeq(s, 1, n + 1)[i] = s[i]
  BY <1>1, FirstOfList
<1> DEFINE t == Append(SubSeq(s, 1, n), s[n + 1])
<1>4. /\ IsSequence(t) /\ Len(t) = n + 1 /\ t[n + 1] = s[n + 1]
      /\ \A i \in 1..n : t[i] = SubSeq(s, 1, n)[i]
  BY <1>2, AppendedList
<1> HIDE DEF t
<1>5. \A i \in 1..n + 1 : t[i] = s[i]
  <2>1. \A i \in 1..n + 1 : i = n + 1 \/ i \in 1..n
    BY <1>1
  <2> QED
    BY <1>2, <1>4, <2>1
<1>6. SubSeq(s, 1, n + 1) = t
  BY <1>3, <1>4, <1>5, SameList
<1> QED
  BY <1>6 DEF t

--------------------------------------------------------------------------------
(* FlattenSeq.                                                               *)

\* A list of lists.
AreLists(seqs) == IsSequence(seqs) /\ \A i \in 1..Len(seqs) : IsSequence(seqs[i])

\* The i-th element of g is the first i lists in a row.
InARow(g, seqs, n) ==
  g = [i \in 1..n |-> IF i = 1 THEN seqs[i] ELSE g[i - 1] \o seqs[i]]

\* There is such a function.
LEMMA RowsExist ==
  ASSUME NEW seqs, NEW n \in Nat
  PROVE  \E g : InARow(g, seqs, n)
<1> DEFINE Without == {k \in Nat : ~\E g : InARow(g, seqs, k)}
<1> SUFFICES ASSUME Without # {} PROVE FALSE
  OBVIOUS
<1>1. PICK k \in Without : \A m \in Without : k <= m
  BY LeastNatural
<1>2. CASE k = 0
  <2> DEFINE g == [i \in 1..0 |-> seqs]
  <2>1. InARow(g, seqs, 0)
    BY DEF InARow
  <2> QED
    BY <1>1, <1>2, <2>1
<1>3. CASE k # 0
  <2>1. k - 1 \in Nat /\ k - 1 \notin Without
    BY <1>1, <1>3
  <2>2. PICK g : InARow(g, seqs, k - 1)
    BY <2>1
  <2> DEFINE h == [i \in 1..k |-> IF i = k THEN (IF k = 1 THEN seqs[k] ELSE g[k - 1] \o seqs[k])
                                  ELSE g[i]]
  <2>3. \A i \in 1..k - 1 : g[i] = IF i = 1 THEN seqs[i] ELSE g[i - 1] \o seqs[i]
    BY <2>2 DEF InARow
  <2>4. ASSUME NEW i \in 1..k PROVE h[i] = IF i = 1 THEN seqs[i] ELSE h[i - 1] \o seqs[i]
    <3>1. CASE i = k
      <4>1. k # 1 => h[k - 1] = g[k - 1]
        BY <2>1
      <4> QED
        BY <3>1, <4>1
    <3>2. CASE i # k
      <4>1. i \in 1..k - 1 /\ h[i] = g[i]
        BY <2>1, <3>2
      <4>2. i # 1 => i - 1 \in 1..k /\ i - 1 # k /\ h[i - 1] = g[i - 1]
        BY <2>1, <3>2
      <4> QED
        BY <2>3, <4>1, <4>2
    <3> QED
      BY <3>1, <3>2
  <2>5. h = [i \in 1..k |-> h[i]]
    OBVIOUS
  <2> HIDE DEF h
  <2>6. InARow(h, seqs, k)
    BY <2>4, <2>5 DEF InARow
  <2> QED
    BY <1>1, <2>6
<1> QED
  BY <1>2, <1>3

LEMMA RowValues ==
  ASSUME NEW g, NEW seqs, NEW n \in Nat, InARow(g, seqs, n)
  PROVE  /\ DOMAIN g = 1..n
         /\ \A i \in 1..n : g[i] = IF i = 1 THEN seqs[i] ELSE g[i - 1] \o seqs[i]
  BY DEF InARow

\* The recursive function of FlattenSeq is it.
LEMMA FlattenIsARow ==
  ASSUME NEW seqs, Len(seqs) \in Nat \ {0}
  PROVE  \E g : InARow(g, seqs, Len(seqs)) /\ FlattenSeq(seqs) = g[Len(seqs)]
<1> DEFINE n == Len(seqs)
           f == CHOOSE g : g = [i \in 1..n |-> IF i = 1 THEN seqs[i] ELSE g[i - 1] \o seqs[i]]
<1>1. \E g : InARow(g, seqs, n)
  BY RowsExist
<1>2. InARow(f, seqs, n)
  BY <1>1 DEF InARow
<1>3. FlattenSeq(seqs) = f[n]
  BY DEF FlattenSeq
<1> QED
  BY <1>2, <1>3

\* Of two lists of lists that begin alike, the rows begin alike.
LEMMA RowsBeginAlike ==
  ASSUME NEW g, NEW seqs, NEW n \in Nat, InARow(g, seqs, n),
         NEW h, NEW others, NEW m \in Nat, InARow(h, others, m),
         m <= n, \A i \in 1..m : others[i] = seqs[i]
  PROVE  \A i \in 1..m : h[i] = g[i]
<1> DEFINE Unlike == {i \in 1..m : h[i] # g[i]}
<1> SUFFICES ASSUME Unlike # {} PROVE FALSE
  OBVIOUS
<1>1. Unlike \in SUBSET Nat
  OBVIOUS
<1>2. PICK i \in Unlike : \A j \in Unlike : i <= j
  BY <1>1, LeastNatural
<1>3. i \in 1..m /\ i \in 1..n /\ h[i] # g[i]
  BY <1>2
<1>4. others[i] = seqs[i]
  BY <1>3
<1>5. /\ g[i] = IF i = 1 THEN seqs[i] ELSE g[i - 1] \o seqs[i]
      /\ h[i] = IF i = 1 THEN others[i] ELSE h[i - 1] \o others[i]
  BY <1>3, RowValues
<1>6. i # 1
  BY <1>3, <1>4, <1>5
<1>7. i - 1 \in 1..m /\ ~(i <= i - 1)
  BY <1>3, <1>6
<1>8. h[i - 1] = g[i - 1]
  BY <1>2, <1>7
<1> QED
  BY <1>3, <1>4, <1>5, <1>6, <1>8

\* The first k lists in a row.
Row(seqs, k) == FlattenSeq(SubSeq(seqs, 1, k))

LEMMA RowStep ==
  ASSUME NEW seqs, IsSequence(seqs), NEW k \in 1..Len(seqs)
  PROVE  Row(seqs, k) = IF k = 1 THEN seqs[k] ELSE Row(seqs, k - 1) \o seqs[k]
<1>1. Len(seqs) \in Nat /\ k \in 0..Len(seqs) /\ k - 1 \in 0..Len(seqs) /\ k \in Nat /\ k - 1 \in Nat
  BY DEF IsSequence
<1>2. PICK s : s = SubSeq(seqs, 1, k)
  OBVIOUS
<1>3. Len(s) = k /\ \A i \in 1..k : s[i] = seqs[i]
  BY <1>1, <1>2, FirstOfList
<1>4. PICK g : InARow(g, s, k) /\ FlattenSeq(s) = g[k]
  <2>1. Len(s) \in Nat \ {0}
    BY <1>3
  <2> QED
    BY <1>3, <2>1, FlattenIsARow
<1>5. g[k] = IF k = 1 THEN s[k] ELSE g[k - 1] \o s[k]
  BY <1>1, <1>4, RowValues
<1>6. CASE k = 1
  BY <1>2, <1>3, <1>4, <1>5, <1>6 DEF Row
<1>7. CASE k # 1
  <2>1. PICK t : t = SubSeq(seqs, 1, k - 1)
    OBVIOUS
  <2>2. Len(t) = k - 1 /\ \A i \in 1..k - 1 : t[i] = seqs[i]
    BY <1>1, <2>1, FirstOfList
  <2>3. PICK h : InARow(h, t, k - 1) /\ FlattenSeq(t) = h[k - 1]
    <3>1. Len(t) \in Nat \ {0}
      BY <1>1, <1>7, <2>2
    <3> QED
      BY <2>2, <3>1, FlattenIsARow
  <2>4. k - 1 <= k /\ \A i \in 1..k - 1 : t[i] = s[i]
    BY <1>1, <1>3, <2>2
  <2>5. \A i \in 1..k - 1 : h[i] = g[i]
    BY <1>1, <1>4, <2>3, <2>4, RowsBeginAlike
  <2>6. k - 1 \in 1..k - 1 /\ k \in 1..k
    BY <1>1, <1>7
  <2> QED
    BY <1>2, <1>3, <1>4, <1>5, <1>7, <2>1, <2>3, <2>5, <2>6 DEF Row
<1> QED
  BY <1>6, <1>7

LEMMA EmptyRow ==
  ASSUME NEW seqs, IsSequence(seqs)
  PROVE  IsSequence(Row(seqs, 0)) /\ Len(Row(seqs, 0)) = 0
<1>1. 0 \in 0..Len(seqs)
  BY DEF IsSequence
<1>2. PICK s : s = SubSeq(seqs, 1, 0)
  OBVIOUS
<1>3. IsSequence(s) /\ Len(s) = 0
  BY <1>1, <1>2, FirstOfList
<1>4. FlattenSeq(s) = s
  BY <1>3 DEF FlattenSeq
<1> QED
  BY <1>2, <1>3, <1>4 DEF Row

\* The next list follows the row of those before it.
LEMMA NextInRow ==
  ASSUME NEW seqs, AreLists(seqs), NEW k \in 1..Len(seqs), IsSequence(Row(seqs, k - 1))
  PROVE  /\ IsSequence(Row(seqs, k))
         /\ Len(Row(seqs, k)) = Len(Row(seqs, k - 1)) + Len(seqs[k])
         /\ \A i \in 1..Len(Row(seqs, k - 1)) : Row(seqs, k)[i] = Row(seqs, k - 1)[i]
         /\ \A i \in 1..Len(seqs[k]) : Row(seqs, k)[Len(Row(seqs, k - 1)) + i] = seqs[k][i]
<1>1. IsSequence(seqs) /\ IsSequence(seqs[k])
  BY DEF AreLists
<1>2. Row(seqs, k) = IF k = 1 THEN seqs[k] ELSE Row(seqs, k - 1) \o seqs[k]
  BY <1>1, RowStep
<1>3. PICK r, t, u : r = Row(seqs, k - 1) /\ t = seqs[k] /\ u = Row(seqs, k)
  OBVIOUS
<1>4. IsSequence(r) /\ IsSequence(t) /\ Len(t) \in Nat
  BY <1>1, <1>3 DEF IsSequence
<1>5. CASE k # 1
  <2>1. u = r \o t
    BY <1>2, <1>3, <1>5
  <2> QED
    BY <1>3, <1>4, <2>1, ConcatLists
<1>6. CASE k = 1
  <2>1. Len(r) = 0
    BY <1>1, <1>3, <1>6, EmptyRow
  <2>2. u = t
    BY <1>2, <1>3, <1>6
  <2>3. /\ IsSequence(u) /\ Len(u) = Len(r) + Len(t)
        /\ \A i \in 1..Len(r) : u[i] = r[i]
        /\ \A i \in 1..Len(t) : u[Len(r) + i] = t[i]
    BY <1>4, <2>1, <2>2
  <2> QED
    BY <1>3, <2>3
<1> QED
  BY <1>5, <1>6

\* A row of lists is a list,
LEMMA RowIsList ==
  ASSUME NEW seqs, AreLists(seqs)
  PROVE  \A k \in 0..Len(seqs) : IsSequence(Row(seqs, k))
<1> DEFINE Bad == {k \in 0..Len(seqs) : ~IsSequence(Row(seqs, k))}
<1> SUFFICES ASSUME Bad # {} PROVE FALSE
  OBVIOUS
<1>1. IsSequence(seqs) /\ Len(seqs) \in Nat
  BY DEF AreLists, IsSequence
<1>2. PICK k \in Bad : \A m \in Bad : k <= m
  <2>1. Bad \in SUBSET Nat
    BY <1>1
  <2> QED
    BY <2>1, LeastNatural
<1>3. k # 0
  BY <1>1, <1>2, EmptyRow
<1>4. k \in 1..Len(seqs) /\ k - 1 \in 0..Len(seqs) /\ ~(k <= k - 1)
  BY <1>1, <1>2, <1>3
<1>5. IsSequence(Row(seqs, k - 1))
  BY <1>2, <1>4
<1> QED
  BY <1>2, <1>4, <1>5, NextInRow

\* and begins with the row of its first lists.
LEMMA RowGrows ==
  ASSUME NEW seqs, AreLists(seqs), NEW j \in 0..Len(seqs), NEW k \in j..Len(seqs)
  PROVE  /\ Len(Row(seqs, j)) \in Nat /\ Len(Row(seqs, k)) \in Nat
         /\ Len(Row(seqs, j)) <= Len(Row(seqs, k))
         /\ \A i \in 1..Len(Row(seqs, j)) : Row(seqs, k)[i] = Row(seqs, j)[i]
<1> DEFINE L(m) == Len(Row(seqs, m))
           Begins(m) == L(j) <= L(m) /\ \A i \in 1..L(j) : Row(seqs, m)[i] = Row(seqs, j)[i]
           Bad == {m \in j..Len(seqs) : ~Begins(m)}
<1>1. Len(seqs) \in Nat /\ j \in Nat
  BY DEF AreLists, IsSequence
<1>2. \A m \in 0..Len(seqs) : L(m) \in Nat
  BY RowIsList DEF IsSequence
<1>3. ASSUME Bad # {} PROVE FALSE
  <2>1. PICK m \in Bad : \A q \in Bad : m <= q
    <3>1. Bad \in SUBSET Nat
      BY <1>1
    <3> QED
      BY <1>3, <3>1, LeastNatural
  <2>2. m # j
    <3>1. L(j) \in Nat
      BY <1>2
    <3> QED
      BY <2>1, <3>1
  <2>3. m \in 1..Len(seqs) /\ m - 1 \in j..Len(seqs) /\ m - 1 \in 0..Len(seqs) /\ ~(m <= m - 1)
    BY <1>1, <2>1, <2>2
  <2>4. Begins(m - 1)
    BY <2>1, <2>3
  <2>5. /\ L(m) = L(m - 1) + Len(seqs[m])
        /\ \A i \in 1..L(m - 1) : Row(seqs, m)[i] = Row(seqs, m - 1)[i]
    <3>1. IsSequence(Row(seqs, m - 1))
      BY <2>3, RowIsList
    <3> QED
      BY <2>3, <3>1, NextInRow
  <2>6. L(j) \in Nat /\ L(m) \in Nat /\ L(m - 1) \in Nat /\ Len(seqs[m]) \in Nat
    BY <1>2, <2>3 DEF AreLists, IsSequence
  <2> HIDE DEF L
  <2>7. L(j) <= L(m) /\ \A i \in 1..L(j) : i \in 1..L(m - 1)
    BY <2>4, <2>5, <2>6
  <2>8. \A i \in 1..L(j) : Row(seqs, m)[i] = Row(seqs, j)[i]
    BY <2>4, <2>5, <2>7
  <2>9. Begins(m)
    BY <2>7, <2>8
  <2> QED
    BY <2>1, <2>9
<1>4. Begins(k)
  BY <1>3
<1>5. k \in 0..Len(seqs)
  BY <1>1
<1> QED
  BY <1>2, <1>4, <1>5

\* The k-th list stands in the whole row after those before it.
LEMMA InRow ==
  ASSUME NEW seqs, AreLists(seqs), NEW k \in 1..Len(seqs)
  PROVE  /\ Row(seqs, Len(seqs)) = FlattenSeq(seqs)
         /\ Len(Row(seqs, k - 1)) \in Nat
         /\ Len(Row(seqs, k)) = Len(Row(seqs, k - 1)) + Len(seqs[k])
         /\ Len(Row(seqs, k)) <= Len(FlattenSeq(seqs))
         /\ \A i \in 1..Len(seqs[k]) : FlattenSeq(seqs)[Len(Row(seqs, k - 1)) + i] = seqs[k][i]
<1> DEFINE n == Len(seqs)
           L(m) == Len(Row(seqs, m))
<1>1. IsSequence(seqs) /\ n \in Nat /\ Len(seqs[k]) \in Nat
  BY DEF AreLists, IsSequence
<1>2. k - 1 \in 0..n /\ k \in 0..n /\ n \in k..n /\ k \in k - 1..n /\ n \in 0..n
  BY <1>1
<1>3. Row(seqs, n) = FlattenSeq(seqs)
  BY <1>1, <1>2, FirstOfList DEF Row
<1>4. /\ L(k) = L(k - 1) + Len(seqs[k])
      /\ \A i \in 1..Len(seqs[k]) : Row(seqs, k)[L(k - 1) + i] = seqs[k][i]
  <2>1. IsSequence(Row(seqs, k - 1))
    BY <1>2, RowIsList
  <2> QED
    BY <2>1, NextInRow
<1>5. /\ L(k) \in Nat /\ L(k) <= L(n)
      /\ \A i \in 1..L(k) : Row(seqs, n)[i] = Row(seqs, k)[i]
  BY <1>2, RowGrows
<1>6. L(k - 1) \in Nat
  BY <1>2, RowIsList DEF IsSequence
<1> HIDE DEF L
<1>7. \A i \in 1..Len(seqs[k]) : L(k - 1) + i \in 1..L(k)
  BY <1>1, <1>4, <1>5, <1>6
<1>8. \A i \in 1..Len(seqs[k]) : Row(seqs, n)[L(k - 1) + i] = seqs[k][i]
  BY <1>4, <1>5, <1>7
<1> QED
  BY <1>3, <1>4, <1>5, <1>6, <1>8 DEF L

--------------------------------------------------------------------------------
(* The fields of a parameter, of a call and of a trace, and their places.    *)

ParamKinds ==
  {"VALUE", "OPTIONAL_OBJECT_CREATION", "VALUE_OUT_BY_REF", "OBJECT_USE", "PROPERTIES",
   "CALLBACK", "CALLBACK_DATA", "ARRAY", "PROGRAM_SOURCE", "STRING",
   "MAP_POINTER_CREATION", "MAP_POINTER_USE"}

\* A parameter of a class, with its members.
IsWritten(p) == p.ptype \in ParamKinds /\ IsLaidOut(p)

WritesOf(p) == LayoutOf(p.ptype, p.ttype).writes

\* The types of its members and of the elements of its list, and their numbers.
HeadTypes(p)  == WritesOf(p).head
ItemType(p)   == WritesOf(p).item
HeadLength(p) == Len(HeadTypes(p))
ItemCount(p)  == Len(p.items)

\* Every constructor reads what its class's serialize writes.
LEMMA LayoutsAgree ==
  ASSUME NEW ptype \in ParamKinds, NEW T
  PROVE  LET layout == LayoutOf(ptype, T) IN
         /\ layout.reads = layout.writes
         /\ IsSequence(layout.writes.head) /\ Len(layout.writes.head) \in Nat
         /\ DOMAIN layout.writes.head = 1..Len(layout.writes.head)
<1>1. ASSUME NEW w, NEW t PROVE IsSequence(<<>>) /\ IsSequence(<<w>>) /\ IsSequence(<<w, t>>)
  BY DEF IsSequence
<1> DEFINE layout == LayoutOf(ptype, T)
<1>2. /\ layout.reads = layout.writes
      /\ layout.writes.head \in {<<>>, <<T>>, <<"bool">>, <<"uint64_t">>, <<"bool", "string">>,
                                <<"ocl_callback", "bool">>}
  BY DEF ParamKinds, LayoutOf, ValueLayout, CreationLayout, OutByRefLayout,
       ObjectUseLayout, PropertiesLayout, CallbackLayout, CallbackDataLayout, ArrayLayout,
       ProgramSourceLayout, StringLayout, MapPointerCreationLayout, MapPointerUseLayout,
       Members, List
<1> HIDE DEF layout
<1>3. IsSequence(layout.writes.head)
  BY <1>1, <1>2
<1>4. Len(layout.writes.head) \in Nat /\ DOMAIN layout.writes.head = 1..Len(layout.writes.head)
  BY <1>3 DEF IsSequence
<1> QED
  BY <1>2, <1>3, <1>4 DEF layout

LEMMA FieldsOfParam ==
  ASSUME NEW p, IsWritten(p)
  PROVE  /\ IsSequence(ParamFields(p)) /\ HeadLength(p) \in Nat /\ ItemCount(p) \in Nat
         /\ Len(ParamFields(p)) =
              IF ItemType(p) = NoItems THEN 2 + HeadLength(p) ELSE 3 + HeadLength(p) + ItemCount(p)
         /\ ParamFields(p)[1] = Field("CallParamType", p.ptype)
         /\ ParamFields(p)[2] = Field("CallParamTemplateType", p.ttype)
         /\ \A i \in 1..HeadLength(p) :
              ParamFields(p)[2 + i] = Field(HeadTypes(p)[i], p.head[i])
         /\ ItemType(p) # NoItems =>
              /\ ParamFields(p)[3 + HeadLength(p)] = Field("uint32_t", ItemCount(p))
              /\ \A i \in 1..ItemCount(p) :
                   ParamFields(p)[3 + HeadLength(p) + i] = Field(ItemType(p), p.items[i])
<1> DEFINE layout == WritesOf(p)
           h == HeadLength(p)
           m == ItemCount(p)
           tag == <<Field("CallParamType", p.ptype), Field("CallParamTemplateType", p.ttype)>>
           head == Fields(layout.head, p.head)
           count == <<Field("uint32_t", m)>>
           items == [i \in DOMAIN p.items |-> Field(layout.item, p.items[i])]
<1>1. /\ h \in Nat /\ m \in Nat /\ Len(p.head) = h /\ DOMAIN p.head = 1..h
      /\ DOMAIN p.items = 1..m
      /\ IsSequence(p.items) /\ IsSequence(p.head)
  BY LayoutsAgree
  DEF IsWritten, IsLaidOut, WritesOf, IsSequence, HeadLength, HeadTypes, ItemCount
<1>2. /\ IsSequence(head) /\ Len(head) = h
      /\ \A i \in 1..h : head[i] = Field(layout.head[i], p.head[i])
  <2>1. DOMAIN head = 1..h /\ head = [i \in 1..h |-> head[i]]
    BY <1>1 DEF Fields
  <2>2. \A i \in 1..h : head[i] = Field(layout.head[i], p.head[i])
    BY <1>1 DEF Fields
  <2> HIDE DEF head, h
  <2> QED
    BY <1>1, <2>1, <2>2, FunctionIsList
<1>3. IsSequence(items) /\ Len(items) = m /\ \A i \in 1..m : items[i] = Field(layout.item, p.items[i])
  <2>1. DOMAIN items = 1..m /\ items = [i \in 1..m |-> items[i]]
    BY <1>1
  <2>2. \A i \in 1..m : items[i] = Field(layout.item, p.items[i])
    BY <1>1
  <2> HIDE DEF items, m
  <2> QED
    BY <1>1, <2>1, <2>2, FunctionIsList
<1>4. IsSequence(tag) /\ Len(tag) = 2 /\ IsSequence(count) /\ Len(count) = 1 /\ IsSequence(<<>>)
  BY DEF IsSequence
<1>5. ParamFields(p) = tag \o head \o (IF layout.item = NoItems THEN <<>> ELSE count \o items)
  BY DEF ParamFields, WritesOf, ItemCount
<1>6. tag[1] = Field("CallParamType", p.ptype) /\ tag[2] = Field("CallParamTemplateType", p.ttype)
      /\ count[1] = Field("uint32_t", m)
  OBVIOUS
<1> HIDE DEF tag, head, count, items, h, m, layout
<1>7. PICK a : a = tag \o head
  OBVIOUS
<1>8. /\ IsSequence(a) /\ Len(a) = 2 + h
      /\ \A i \in 1..2 : a[i] = tag[i]
      /\ \A i \in 1..h : a[2 + i] = head[i]
  <2>1. Follows(a, tag, head)
    BY <1>2, <1>4, <1>7, ConcatFollows
  <2> QED
    BY <1>2, <1>4, <2>1 DEF Follows
<1>9. PICK b : b = count \o items
  OBVIOUS
<1>10. /\ IsSequence(b) /\ Len(b) = 1 + m /\ b[1] = count[1]
       /\ \A i \in 1..m : b[1 + i] = items[i]
  <2>1. Follows(b, count, items)
    BY <1>3, <1>4, <1>9, ConcatFollows
  <2>2. 1 \in 1..1
    OBVIOUS
  <2> QED
    BY <1>3, <1>4, <2>1, <2>2 DEF Follows
<1>11. a[1] = tag[1] /\ a[2] = tag[2]
  BY <1>8
<1>12. CASE layout.item = NoItems
  <2>1. ParamFields(p) = a \o <<>>
    BY <1>5, <1>7, <1>12
  <2>2. PICK f : f = a \o <<>>
    OBVIOUS
  <2>3. IsSequence(f) /\ Len(f) = Len(a) + 0 /\ \A i \in 1..Len(a) : f[i] = a[i]
    <3>1. Follows(f, a, <<>>)
      BY <1>4, <1>8, <2>2, ConcatFollows
    <3> QED
      BY <3>1 DEF Follows
  <2>4. 1 \in 1..Len(a) /\ 2 \in 1..Len(a) /\ \A i \in 1..h : 2 + i \in 1..Len(a)
    BY <1>1, <1>8
  <2>5. Len(f) = 2 + h
    BY <1>1, <1>8, <2>3
  <2> QED
    BY <1>1, <1>2, <1>6, <1>8, <1>11, <1>12, <2>1, <2>2, <2>3, <2>4, <2>5
    DEF h, m, layout, HeadTypes, ItemType
<1>13. CASE layout.item # NoItems
  <2>1. ParamFields(p) = a \o b
    BY <1>5, <1>7, <1>9, <1>13
  <2>2. PICK f : f = a \o b
    OBVIOUS
  <2>3. /\ IsSequence(f) /\ Len(f) = Len(a) + Len(b)
        /\ \A i \in 1..Len(a) : f[i] = a[i]
        /\ \A i \in 1..Len(b) : f[Len(a) + i] = b[i]
    <3>1. Follows(f, a, b)
      BY <1>8, <1>10, <2>2, ConcatFollows
    <3> QED
      BY <3>1 DEF Follows
  <2>4. 1 \in 1..Len(a) /\ 2 \in 1..Len(a) /\ \A i \in 1..h : 2 + i \in 1..Len(a)
    BY <1>1, <1>8
  <2>5. /\ Len(f) = 3 + h + m /\ f[3 + h] = b[1]
    <3>1. 1 \in 1..Len(b) /\ Len(a) + 1 = 3 + h
      BY <1>1, <1>8, <1>10
    <3> QED
      BY <1>1, <1>8, <1>10, <2>3, <3>1
  <2>6. \A i \in 1..m : f[3 + h + i] = b[1 + i]
    <3>1. \A i \in 1..m : 1 + i \in 1..Len(b) /\ Len(a) + (1 + i) = 3 + h + i
      BY <1>1, <1>8, <1>10
    <3> QED
      BY <2>3, <3>1
  <2>7. f[1] = tag[1] /\ f[2] = tag[2] /\ f[3 + h] = count[1]
    BY <1>10, <1>11, <2>3, <2>4, <2>5
  <2>8. \A i \in 1..h : f[2 + i] = Field(layout.head[i], p.head[i])
    BY <1>2, <1>8, <2>3, <2>4
  <2>9. \A i \in 1..m : f[3 + h + i] = Field(layout.item, p.items[i])
    BY <1>3, <1>10, <2>6
  <2>10. f = ParamFields(p)
    BY <2>1, <2>2
  <2> QED
    BY <1>1, <1>6, <1>13, <2>3, <2>5, <2>7, <2>8, <2>9, <2>10
    DEF h, m, layout, HeadTypes, ItemType
<1> QED
  BY <1>12, <1>13

--------------------------------------------------------------------------------
(* The slots of the entry points: the factory constructs what they record,   *)
(* but for the formats of clGetSupportedImageFormats.                        *)

\* The classes without a template type.
Untyped == {"CALLBACK", "CALLBACK_DATA", "PROGRAM_SOURCE", "STRING",
            "MAP_POINTER_CREATION", "MAP_POINTER_USE"}

IsKnown(slot) ==
  /\ slot.ptype \in ParamKinds \union {"KERNEL_ARG"}
  /\ slot.ptype \in Untyped => slot.ttype = "NONE"
  /\ slot.ptype = "ARRAY" => slot.ttype # NoItems

IsLoaded(slot) ==
  /\ IsKnown(slot)
  /\ slot.ptype # "KERNEL_ARG" => IsConstructed(slot.ptype, slot.ttype)

AreLoaded(slots) == IsSequence(slots) /\ \A i \in 1..Len(slots) : IsLoaded(slots[i])

LoadsAll(handler) == AreLoaded(handler.params) /\ IsLoaded(handler.ret)

LEMMA SlotsAreLoaded ==
  /\ \A T \in {"INTPTR_T", "CL_INT", "CL_UINT", "CL_LONG", "CL_ULONG"} : IsLoaded(Value(T))
  /\ \A T \in ObjectTypes :
       IsLoaded(Use(T)) /\ IsLoaded(Uses(T)) /\ IsLoaded(Creation(T)) /\ IsLoaded(Creations(T))
  /\ \A T \in {"VOID", "CL_INT", "CL_UINT", "CL_ULONG"} : IsLoaded(OutByRef(T))
  /\ \A T \in {"CL_ULONG", "CHAR", "CL_IMAGE_FORMAT", "CL_IMAGE_DESC"} : IsLoaded(Array(T))
  /\ IsLoaded(ContextProperties) /\ IsLoaded(QueueProperties)
  /\ IsLoaded(Callback) /\ IsLoaded(CallbackData)
  /\ IsLoaded(ProgramSource) /\ IsLoaded(String) /\ IsLoaded(KernelArg) /\ IsLoaded(ErrCode)
  /\ IsLoaded(MapPointerUse) /\ IsLoaded(MapPointerCreation)
  BY
  DEF IsLoaded, IsKnown, Untyped, NoItems, ParamKinds, IsConstructed, Value, Use, Uses,
     Creation, Creations, OutByRef,
       Array, ContextProperties, QueueProperties, Callback, CallbackData, ProgramSource, String, KernelArg, ErrCode,
       MapPointerUse, MapPointerCreation, Slot

LEMMA OneSlotLoads ==
  ASSUME NEW slot, IsLoaded(slot)
  PROVE  AreLoaded(<<slot>>)
  BY DEF AreLoaded, IsSequence

LEMMA ConcatLoads ==
  ASSUME NEW s, NEW t, AreLoaded(s), AreLoaded(t)
  PROVE  AreLoaded(s \o t)
<1>1. PICK u : u = s \o t
  OBVIOUS
<1>2. Follows(u, s, t) /\ Len(s) \in Nat /\ Len(t) \in Nat
  BY <1>1, ConcatFollows DEF AreLoaded
<1>3. ASSUME NEW i \in 1..Len(u) PROVE IsLoaded(u[i])
  <2>1. CASE i \in 1..Len(s)
    BY <1>2, <2>1 DEF AreLoaded, Follows
  <2>2. CASE i \notin 1..Len(s)
    <3>1. i - Len(s) \in 1..Len(t) /\ Len(s) + (i - Len(s)) = i
      BY <1>2, <2>2 DEF Follows
    <3> QED
      BY <1>2, <3>1 DEF AreLoaded, Follows
  <2> QED
    BY <2>1, <2>2
<1> QED
  BY <1>1, <1>2, <1>3 DEF AreLoaded, Follows

LEMMA InfoQueryLoads ==
  ASSUME NEW s, AreLoaded(s)
  PROVE LoadsAll(InfoQuery(s))
<1> DEFINE t == <<Value("CL_UINT"), Value("CL_ULONG"), OutByRef("VOID"), OutByRef("CL_ULONG")>>
<1>1. AreLoaded(t)
  BY SlotsAreLoaded DEF AreLoaded, IsSequence
<1> HIDE DEF t
<1>2. AreLoaded(s \o t)
  BY <1>1, ConcatLoads
<1>3. LoadsAll(Handler(s \o t, Value("CL_INT")))
  BY <1>2, SlotsAreLoaded DEF LoadsAll, Handler
<1> QED
  BY <1>3 DEF InfoQuery, t


LEMMA OneObjectLoads == \A T \in ObjectTypes : LoadsAll(OneObject(T))
<1> TAKE T \in ObjectTypes
<1>1. AreLoaded(<<Use(T)>>) /\ IsLoaded(Value("CL_INT"))
  BY SlotsAreLoaded, OneSlotLoads
<1> QED
  BY <1>1 DEF OneObject, Handler, LoadsAll

LEMMA EnqueueLoads ==
  ASSUME NEW s, NEW t, AreLoaded(s), AreLoaded(t)
  PROVE  LoadsAll(Enqueue(s, t)) /\ LoadsAll(MadeBlocking(Enqueue(s, t)))
<1>1. AreLoaded(WaitListAndEvent)
  BY SlotsAreLoaded DEF WaitListAndEvent, AreLoaded, IsSequence, ObjectTypes
<1>2. AreLoaded(s \o t \o WaitListAndEvent)
  BY <1>1, ConcatLoads
<1> QED
  BY <1>2, SlotsAreLoaded DEF Enqueue, MadeBlocking, Handler, LoadsAll

LEMMA QueriesLoad ==
  /\ LoadsAll(clGetPlatformInfo) /\ LoadsAll(clGetDeviceInfo) /\ LoadsAll(clGetContextInfo)
  /\ LoadsAll(clGetProgramInfo) /\ LoadsAll(clGetProgramBuildInfo)
  /\ LoadsAll(clGetKernelArgInfo) /\ LoadsAll(clGetKernelInfo)
  /\ LoadsAll(clGetKernelWorkGroupInfo) /\ LoadsAll(clGetImageInfo)
  /\ LoadsAll(clGetMemObjectInfo) /\ LoadsAll(clGetCommandQueueInfo)
  /\ LoadsAll(clGetEventInfo) /\ LoadsAll(clGetEventProfilingInfo)
<1>1. \A T \in ObjectTypes : AreLoaded(<<Use(T)>>)
  BY SlotsAreLoaded, OneSlotLoads
<1>2. /\ AreLoaded(<<Use("CL_PROGRAM"), Use("CL_DEVICE_ID")>>)
      /\ AreLoaded(<<Use("CL_KERNEL"), Value("CL_UINT")>>)
      /\ AreLoaded(<<Use("CL_KERNEL"), Use("CL_DEVICE_ID")>>)
  BY SlotsAreLoaded DEF AreLoaded, IsSequence, ObjectTypes
<1>3. \A T \in ObjectTypes : LoadsAll(InfoQuery(<<Use(T)>>))
  BY <1>1, InfoQueryLoads
<1>4. /\ LoadsAll(InfoQuery(<<Use("CL_PROGRAM"), Use("CL_DEVICE_ID")>>))
      /\ LoadsAll(InfoQuery(<<Use("CL_KERNEL"), Value("CL_UINT")>>))
      /\ LoadsAll(InfoQuery(<<Use("CL_KERNEL"), Use("CL_DEVICE_ID")>>))
  BY <1>2, InfoQueryLoads
<1> QED
  BY <1>3, <1>4 DEF ObjectTypes, clGetPlatformInfo, clGetDeviceInfo, clGetContextInfo,
     clGetProgramInfo, clGetProgramBuildInfo, clGetKernelArgInfo, clGetKernelInfo,
     clGetKernelWorkGroupInfo, clGetImageInfo, clGetMemObjectInfo, clGetCommandQueueInfo,
     clGetEventInfo, clGetEventProfilingInfo

LEMMA ReferencesLoad ==
  /\ LoadsAll(clRetainDevice) /\ LoadsAll(clReleaseDevice) /\ LoadsAll(clRetainContext)
  /\ LoadsAll(clReleaseContext) /\ LoadsAll(clRetainProgram) /\ LoadsAll(clReleaseProgram)
  /\ LoadsAll(clRetainKernel) /\ LoadsAll(clReleaseKernel) /\ LoadsAll(clRetainMemObject)
  /\ LoadsAll(clReleaseMemObject) /\ LoadsAll(clRetainCommandQueue)
  /\ LoadsAll(clReleaseCommandQueue) /\ LoadsAll(clFlush) /\ LoadsAll(clFinish)
  /\ LoadsAll(clRetainEvent) /\ LoadsAll(clReleaseEvent) /\ LoadsAll(clUnloadPlatformCompiler)
  BY OneObjectLoads DEF ObjectTypes, clRetainDevice, clReleaseDevice, clRetainContext,
     clReleaseContext, clRetainProgram, clReleaseProgram, clRetainKernel, clReleaseKernel,
     clRetainMemObject, clReleaseMemObject, clRetainCommandQueue, clReleaseCommandQueue,
     clFlush, clFinish, clRetainEvent, clReleaseEvent, clUnloadPlatformCompiler

LEMMA CommandsLoad ==
  /\ LoadsAll(clEnqueueNDRangeKernel) /\ LoadsAll(clEnqueueTask) /\ LoadsAll(clEnqueueWriteImage)
  /\ LoadsAll(clEnqueueReadImage) /\ LoadsAll(clEnqueueWriteBuffer) /\ LoadsAll(clEnqueueReadBuffer)
  /\ LoadsAll(clEnqueueMapBuffer) /\ LoadsAll(clEnqueueUnmapMemObject)
<1>1. AreLoaded(QueueAnd("CL_KERNEL")) /\ AreLoaded(QueueAnd("CL_MEM"))
  BY SlotsAreLoaded DEF QueueAnd, AreLoaded, IsSequence, ObjectTypes
<1>2. AreLoaded(<<>>) /\ AreLoaded(<<MapPointerUse>>) /\ AreLoaded(<<ErrCode>>)
  BY SlotsAreLoaded DEF AreLoaded, IsSequence
<1>3. AreLoaded(WaitListAndEvent)
  BY SlotsAreLoaded DEF WaitListAndEvent, AreLoaded, IsSequence, ObjectTypes
<1> DEFINE sizes == <<Value("CL_UINT"), Array("CL_ULONG"), Array("CL_ULONG"), Array("CL_ULONG")>>
           image == <<Value("CL_UINT"), Array("CL_ULONG"), Array("CL_ULONG"),
                      Value("CL_ULONG"), Value("CL_ULONG"), Array("CHAR")>>
           buffer == <<Value("CL_UINT"), Value("CL_ULONG"), Value("CL_ULONG"), Array("CHAR")>>
           mapped == <<Value("CL_UINT"), Value("CL_ULONG"), Value("CL_ULONG"), Value("CL_ULONG")>>
<1>4. AreLoaded(sizes) /\ AreLoaded(buffer) /\ AreLoaded(mapped)
  BY SlotsAreLoaded DEF AreLoaded, IsSequence
<1>5. AreLoaded(image)
  BY SlotsAreLoaded DEF AreLoaded, IsSequence
<1> HIDE DEF sizes, image, buffer, mapped
<1>6. LoadsAll(clEnqueueNDRangeKernel) /\ LoadsAll(clEnqueueTask)
  BY <1>1, <1>2, <1>4, EnqueueLoads DEF clEnqueueNDRangeKernel, clEnqueueTask, sizes
<1>7. LoadsAll(ImageTransfer)
  <2>1. LoadsAll(MadeBlocking(Enqueue(QueueAnd("CL_MEM"), image)))
    BY <1>1, <1>5, EnqueueLoads
  <2>2. ImageTransfer = [MadeBlocking(Enqueue(QueueAnd("CL_MEM"), image)) EXCEPT !.rejects = TRUE]
    BY DEF ImageTransfer, image
  <2> QED
    BY <2>1, <2>2 DEF LoadsAll, MadeBlocking, Enqueue, Handler
<1>8. LoadsAll(BufferTransfer)
  BY <1>1, <1>4, EnqueueLoads DEF BufferTransfer, buffer
<1>9. LoadsAll(clEnqueueMapBuffer)
  <2> DEFINE slots == QueueAnd("CL_MEM") \o mapped \o WaitListAndEvent \o <<ErrCode>>
  <2>1. AreLoaded(slots)
    BY <1>1, <1>2, <1>3, <1>4, ConcatLoads
  <2>2. clEnqueueMapBuffer = MadeBlocking(Handler(slots, MapPointerCreation))
    BY DEF clEnqueueMapBuffer, mapped
  <2> HIDE DEF slots
  <2> QED
    BY <2>1, <2>2, SlotsAreLoaded DEF LoadsAll, MadeBlocking, Handler
<1>10. LoadsAll(clEnqueueUnmapMemObject)
  <2>1. LoadsAll(Enqueue(QueueAnd("CL_MEM"), <<MapPointerUse>>))
    BY <1>1, <1>2, EnqueueLoads
  <2> QED
    BY <2>1 DEF clEnqueueUnmapMemObject, LoadsAll, Enqueue, Handler
<1> QED
  BY <1>6, <1>7, <1>8, <1>9, <1>10
  DEF clEnqueueWriteImage, clEnqueueReadImage, clEnqueueWriteBuffer, clEnqueueReadBuffer

LEMMA ObjectCallsLoad ==
  /\ LoadsAll(clGetPlatformIDs) /\ LoadsAll(clGetDeviceIDs)
  /\ LoadsAll(clCreateContext) /\ LoadsAll(clCreateContextFromType)
  /\ LoadsAll(clCreateCommandQueue) /\ LoadsAll(clCreateCommandQueueWithProperties)
  /\ LoadsAll(clCreateUserEvent) /\ LoadsAll(clSetUserEventStatus)
  /\ LoadsAll(clUnloadCompiler)
  BY SlotsAreLoaded
  DEF clGetPlatformIDs, clGetDeviceIDs, clCreateContext,
      clCreateContextFromType, clCreateCommandQueue,
      clCreateCommandQueueWithProperties, clCreateUserEvent, clSetUserEventStatus,
      clUnloadCompiler, LoadsAll, AreLoaded, Handler, IsSequence, ObjectTypes

LEMMA ProgramCallsLoad ==
  /\ LoadsAll(clCreateProgramWithSource)
  /\ LoadsAll(clCreateProgramWithBuiltInKernels) /\ LoadsAll(clCreateProgramWithIL)
  /\ LoadsAll(clBuildProgram) /\ LoadsAll(clLinkProgram)
  BY SlotsAreLoaded
  DEF clCreateProgramWithSource,
      clCreateProgramWithBuiltInKernels, clCreateProgramWithIL, clBuildProgram,
      clLinkProgram, LoadsAll, AreLoaded, Handler, IsSequence, ObjectTypes

LEMMA KernelAndMemoryCallsLoad ==
  /\ LoadsAll(clCreateKernel) /\ LoadsAll(clCreateKernelsInProgram)
  /\ LoadsAll(clSetKernelArg) /\ LoadsAll(clGetKernelSubGroupInfo)
  /\ LoadsAll(clCreateBuffer) /\ LoadsAll(clCreateImage)
  /\ LoadsAll(clSetMemObjectDestructorCallback)
  BY SlotsAreLoaded
  DEF clCreateKernel, clCreateKernelsInProgram, clSetKernelArg,
      clGetKernelSubGroupInfo, clCreateBuffer, clCreateImage,
      clSetMemObjectDestructorCallback, LoadsAll, AreLoaded, Handler, IsSequence,
      ObjectTypes

\* The formats that the factory does not know, and the call that is not recorded.
LEMMA OtherCalls ==
  /\ \A i \in 1..Len(clGetSupportedImageFormats.params) :
       IsKnown(clGetSupportedImageFormats.params[i])
  /\ IsKnown(clGetSupportedImageFormats.ret)
  /\ ~clWaitForEvents.recorded
  BY DEF clGetSupportedImageFormats, clWaitForEvents, Handler, IsKnown, ParamKinds, Untyped,
       Slot, Use, Value, OutByRef

LEMMA LoadedIsKnown ==
  ASSUME NEW handler, LoadsAll(handler)
  PROVE  IsKnown(handler.ret) /\ \A i \in 1..Len(handler.params) : IsKnown(handler.params[i])
  BY DEF LoadsAll, AreLoaded, IsLoaded, IsKnown

LEMMA TableIsLoaded ==
  ASSUME NEW cmd \in DOMAIN EntryPoint, EntryPoint[cmd].recorded
  PROVE  /\ cmd # "clGetSupportedImageFormats" => LoadsAll(EntryPoint[cmd])
         /\ IsKnown(EntryPoint[cmd].ret)
         /\ \A i \in 1..Len(EntryPoint[cmd].params) : IsKnown(EntryPoint[cmd].params[i])
<1>1. cmd # "clGetSupportedImageFormats" => LoadsAll(EntryPoint[cmd])
  BY QueriesLoad, ReferencesLoad, CommandsLoad, ObjectCallsLoad, ProgramCallsLoad,
     KernelAndMemoryCallsLoad, OtherCalls
  DEF EntryPoint
<1>2. CASE cmd = "clGetSupportedImageFormats"
  <2>1. EntryPoint[cmd] = clGetSupportedImageFormats
    BY <1>2 DEF EntryPoint
  <2> QED
    BY <1>2, <2>1, OtherCalls
<1>3. CASE cmd # "clGetSupportedImageFormats"
  BY <1>1, <1>3, LoadedIsKnown
<1> QED
  BY <1>1, <1>2, <1>3

\* What a slot records is of a class that is written, and that the factory
\* constructs where it constructs the slot's.
LEMMA FilledIsWritten ==
  ASSUME NEW slot, NEW p, IsKnown(slot), Fills(slot, p)
  PROVE  IsWritten(p) /\ (IsLoaded(slot) => IsConstructed(p.ptype, p.ttype))
  BY DEF IsKnown, IsWritten, IsLoaded, Fills, ParamKinds, IsConstructed

LEMMA RecordedIsWritten ==
  ASSUME NEW c, IsRecordedCall(c)
  PROVE  /\ IsWritten(c.ret)
         /\ IsSequence(c.params) /\ Len(c.params) \in Nat /\ DOMAIN c.params = 1..Len(c.params)
         /\ \A i \in 1..Len(c.params) : IsWritten(c.params[i])
         /\ c.id # "clGetSupportedImageFormats" =>
              /\ IsConstructed(c.ret.ptype, c.ret.ttype)
              /\ \A i \in 1..Len(c.params) :
                   IsConstructed(c.params[i].ptype, c.params[i].ttype)
<1> DEFINE h == EntryPoint[c.id]
<1>1. /\ c.id # "clGetSupportedImageFormats" => LoadsAll(h)
      /\ IsKnown(h.ret) /\ \A i \in 1..Len(h.params) : IsKnown(h.params[i])
  BY TableIsLoaded DEF IsRecordedCall
<1>2. /\ IsSequence(c.params) /\ Len(c.params) \in Nat /\ DOMAIN c.params = 1..Len(c.params)
      /\ Len(c.params) = Len(h.params)
      /\ Fills(h.ret, c.ret) /\ \A i \in 1..Len(c.params) : Fills(h.params[i], c.params[i])
  BY DEF IsRecordedCall, IsSequence
<1> HIDE DEF h
<1>3. IsWritten(c.ret) /\ (LoadsAll(h) => IsConstructed(c.ret.ptype, c.ret.ttype))
  BY <1>1, <1>2, FilledIsWritten DEF LoadsAll
<1>4. ASSUME NEW i \in 1..Len(c.params)
      PROVE  /\ IsWritten(c.params[i])
             /\ LoadsAll(h) => IsConstructed(c.params[i].ptype, c.params[i].ttype)
  <2>1. IsKnown(h.params[i]) /\ Fills(h.params[i], c.params[i])
    BY <1>1, <1>2
  <2>2. LoadsAll(h) => IsLoaded(h.params[i])
    BY <1>2 DEF LoadsAll, AreLoaded
  <2> QED
    BY <2>1, <2>2, FilledIsWritten
<1> QED
  BY <1>1, <1>2, <1>3, <1>4

--------------------------------------------------------------------------------
(* What the handlers record is as the format assumes it.                     *)

\* The lists that are recorded of a shape, and the members that are not lists.
LEMMA DataIsList ==
  ASSUME NEW shape \in Nat \union {NullShape}
  PROVE  IsSequence(Data(shape))
<1>1. PICK n \in Nat : 1..shape = 1..n
  <2>1. CASE shape \in Nat
    BY <2>1
  <2>2. CASE shape = NullShape
    <3>1. 1..shape = 1..0
      BY <2>2 DEF NullShape
    <3> QED
      BY <3>1
  <2> QED
    BY <2>1, <2>2
<1>2. DOMAIN Data(shape) = 1..n /\ Data(shape) = [i \in 1..n |-> Data(shape)[i]]
  BY <1>1 DEF Data
<1> QED
  BY <1>2, FunctionIsList

LEMMA ShortLists ==
  /\ IsSequence(<<>>) /\ Len(<<>>) = 0
  /\ \A w : IsSequence(<<w>>) /\ Len(<<w>>) = 1
  /\ \A w, t : IsSequence(<<w, t>>) /\ Len(<<w, t>>) = 2
  BY DEF IsSequence

\* What a slot records of what the application passes.
Records(slot, p) ==
  \E T, list : \E shape \in Nat \union {NullShape} :
    IsSequence(list) /\ p = RecordedParam(slot, T, shape, list)

LEMMA RecordsFills ==
  ASSUME NEW slot, IsKnown(slot), NEW p, Records(slot, p)
  PROVE  Fills(slot, p)
<1>1. PICK T, list : \E shape \in Nat \union {NullShape} :
        IsSequence(list) /\ p = RecordedParam(slot, T, shape, list)
  BY DEF Records
<1>2. PICK shape \in Nat \union {NullShape} :
        IsSequence(list) /\ p = RecordedParam(slot, T, shape, list)
  BY <1>1
<1>3. PICK data : data = Data(shape) /\ IsSequence(data)
  BY DataIsList
<1>4. ASSUME NEW kind \in ParamKinds, NEW ttype, NEW head, NEW items,
             p = CallParam(kind, ttype, head, items),
             IsSequence(head), Len(head) = Len(LayoutOf(kind, ttype).writes.head),
             IsSequence(items), LayoutOf(kind, ttype).writes.item = NoItems => items = <<>>
      PROVE  IsLaidOut(p) /\ p.ptype = kind /\ p.ttype = ttype
  <2>1. p.ptype = kind /\ p.ttype = ttype /\ p.head = head /\ p.items = items
    BY <1>4 DEF CallParam
  <2> QED
    BY <1>4, <2>1 DEF IsLaidOut
<1>5. CASE slot.ptype = "VALUE"
  <2>1. p = CallParam("VALUE", slot.ttype, <<0>>, <<>>)
    BY <1>2, <1>5 DEF RecordedParam, ValueParam
  <2>2. LayoutOf("VALUE", slot.ttype).writes.head = <<slot.ttype>>
    BY DEF LayoutOf, ValueLayout, Members
  <2> QED
    BY <1>4, <1>5, <2>1, <2>2, ShortLists DEF ParamKinds, Fills
<1>6. CASE slot.ptype = "VALUE_OUT_BY_REF"
  <2>1. p = CallParam("VALUE_OUT_BY_REF", slot.ttype, <<shape = NullShape>>, data)
    BY <1>2, <1>3, <1>6 DEF RecordedParam, OutByRefParam
  <2>2. /\ LayoutOf("VALUE_OUT_BY_REF", slot.ttype).writes.head = <<"bool">>
        /\ LayoutOf("VALUE_OUT_BY_REF", slot.ttype).writes.item # NoItems
    BY DEF LayoutOf, OutByRefLayout, List, NoItems
  <2> QED
    BY <1>3, <1>4, <1>6, <2>1, <2>2, ShortLists DEF ParamKinds, Fills
<1>7. ASSUME NEW T2, T2 # NoItems, p = ArrayParam(T2, shape, list)
      PROVE  IsLaidOut(p) /\ p.ptype = "ARRAY" /\ p.ttype = T2
  <2>1. p = CallParam("ARRAY", T2, <<shape = NullShape>>, list)
    BY <1>7 DEF ArrayParam
  <2>2. LayoutOf("ARRAY", T2).writes.head = <<"bool">>
    BY DEF LayoutOf, ArrayLayout, List
  <2>3. LayoutOf("ARRAY", T2).writes.item # NoItems
    BY <1>7 DEF LayoutOf, ArrayLayout, List
  <2> QED
    BY <1>2, <1>4, <2>1, <2>2, <2>3, ShortLists DEF ParamKinds
<1>8. CASE slot.ptype = "ARRAY"
  <2>1. p = ArrayParam(slot.ttype, shape, list) /\ slot.ttype # NoItems
    BY <1>2, <1>8 DEF RecordedParam, IsKnown
  <2> QED
    BY <1>7, <1>8, <2>1 DEF Fills
<1>9. CASE slot.ptype = "PROPERTIES"
  <2>1. p = CallParam("PROPERTIES", "CL_LONG", <<shape # NullShape>>, list)
    BY <1>2, <1>9 DEF RecordedParam, PropertiesParam
  <2>2. /\ LayoutOf("PROPERTIES", "CL_LONG").writes.head = <<"bool">>
        /\ LayoutOf("PROPERTIES", "CL_LONG").writes.item # NoItems
    BY DEF LayoutOf, PropertiesLayout, List, NoItems
  <2> QED
    BY <1>2, <1>4, <1>9, <2>1, <2>2, ShortLists DEF ParamKinds, Fills
<1>10. CASE slot.ptype = "CALLBACK"
  <2>1. p = CallParam("CALLBACK", "NONE", <<0, shape # NullShape>>, <<>>) /\ slot.ttype = "NONE"
    BY <1>2, <1>10 DEF RecordedParam, CallbackParam, IsKnown, Untyped
  <2>2. LayoutOf("CALLBACK", "NONE").writes.head = <<"ocl_callback", "bool">>
    BY DEF LayoutOf, CallbackLayout, Members
  <2> QED
    BY <1>4, <1>10, <2>1, <2>2, ShortLists DEF ParamKinds, Fills
<1>11. CASE slot.ptype = "CALLBACK_DATA"
  <2>1. p = CallParam("CALLBACK_DATA", "NONE", <<shape # NullShape>>, <<>>) /\ slot.ttype = "NONE"
    BY <1>2, <1>11 DEF RecordedParam, CallbackDataParam, IsKnown, Untyped
  <2>2. LayoutOf("CALLBACK_DATA", "NONE").writes.head = <<"bool">>
    BY DEF LayoutOf, CallbackDataLayout, Members
  <2> QED
    BY <1>4, <1>11, <2>1, <2>2, ShortLists DEF ParamKinds, Fills
<1>12. CASE slot.ptype = "PROGRAM_SOURCE"
  <2>1. p = CallParam("PROGRAM_SOURCE", "NONE", <<>>, list) /\ slot.ttype = "NONE"
    BY <1>2, <1>12 DEF RecordedParam, ProgramSourceParam, IsKnown, Untyped
  <2>2. /\ LayoutOf("PROGRAM_SOURCE", "NONE").writes.head = <<>>
        /\ LayoutOf("PROGRAM_SOURCE", "NONE").writes.item # NoItems
    BY DEF LayoutOf, ProgramSourceLayout, List, NoItems
  <2> QED
    BY <1>2, <1>4, <1>12, <2>1, <2>2, ShortLists DEF ParamKinds, Fills
<1>13. CASE slot.ptype = "STRING"
  <2>1. PICK text : p = CallParam("STRING", "NONE", <<shape # NullShape, text>>, <<>>)
    BY <1>2, <1>13 DEF RecordedParam, StringParam
  <2>2. slot.ttype = "NONE" /\ LayoutOf("STRING", "NONE").writes.head = <<"bool", "string">>
    BY <1>13 DEF LayoutOf, StringLayout, Members, IsKnown, Untyped
  <2> QED
    BY <1>4, <1>13, <2>1, <2>2, ShortLists DEF ParamKinds, Fills
<1>14. CASE slot.ptype = "OPTIONAL_OBJECT_CREATION"
  <2>1. p = CallParam("OPTIONAL_OBJECT_CREATION", slot.ttype, <<shape # NullShape>>, list)
    BY <1>2, <1>14 DEF RecordedParam, CreationParam
  <2>2. /\ LayoutOf("OPTIONAL_OBJECT_CREATION", slot.ttype).writes.head = <<"bool">>
        /\ LayoutOf("OPTIONAL_OBJECT_CREATION", slot.ttype).writes.item # NoItems
    BY DEF LayoutOf, CreationLayout, List, NoItems
  <2> QED
    BY <1>2, <1>4, <1>14, <2>1, <2>2, ShortLists DEF ParamKinds, Fills
<1>15. ASSUME NEW T2, NEW multiple, p = ObjectUseParam(T2, multiple, list)
       PROVE  IsLaidOut(p) /\ p.ptype = "OBJECT_USE" /\ p.ttype = T2
  <2>1. p = CallParam("OBJECT_USE", T2, <<multiple>>, list)
    BY <1>15 DEF ObjectUseParam
  <2>2. /\ LayoutOf("OBJECT_USE", T2).writes.head = <<"bool">>
        /\ LayoutOf("OBJECT_USE", T2).writes.item # NoItems
    BY DEF LayoutOf, ObjectUseLayout, List, NoItems
  <2> QED
    BY <1>2, <1>4, <2>1, <2>2, ShortLists DEF ParamKinds
<1>16. CASE slot.ptype = "OBJECT_USE"
  <2>1. p = ObjectUseParam(slot.ttype, slot.multiple, list)
    BY <1>2, <1>16 DEF RecordedParam
  <2> QED
    BY <1>15, <1>16, <2>1 DEF Fills
<1>17. CASE slot.ptype = "KERNEL_ARG"
  <2>1. p = KernelArgParam(T, shape, list)
    BY <1>2, <1>17 DEF RecordedParam
  <2>2. CASE T \in ObjectTypes
    <3>1. p = ObjectUseParam(T, TRUE, list)
      BY <2>1, <2>2 DEF KernelArgParam
    <3> QED
      BY <1>15, <1>17, <2>2, <3>1 DEF Fills
  <2>3. CASE T \notin ObjectTypes
    <3>1. p = ArrayParam("CHAR", shape, list) /\ "CHAR" # NoItems
      BY <2>1, <2>3 DEF KernelArgParam, NoItems
    <3> QED
      BY <1>7, <1>17, <3>1 DEF Fills
  <2> QED
    BY <2>2, <2>3
<1>18. CASE slot.ptype = "MAP_POINTER_CREATION"
  <2>1. PICK id : p = CallParam("MAP_POINTER_CREATION", "NONE", <<id>>, <<>>)
    BY <1>2, <1>18 DEF RecordedParam, MapPointerCreationParam
  <2>2. slot.ttype = "NONE" /\ LayoutOf("MAP_POINTER_CREATION", "NONE").writes.head = <<"uint64_t">>
    BY <1>18 DEF LayoutOf, MapPointerCreationLayout, Members, IsKnown, Untyped
  <2> QED
    BY <1>4, <1>18, <2>1, <2>2, ShortLists DEF ParamKinds, Fills
<1>19. CASE slot.ptype = "MAP_POINTER_USE"
  <2>1. PICK id : p = CallParam("MAP_POINTER_USE", "NONE", <<id>>, <<>>)
    BY <1>2, <1>19 DEF RecordedParam, MapPointerUseParam
  <2>2. slot.ttype = "NONE" /\ LayoutOf("MAP_POINTER_USE", "NONE").writes.head = <<"uint64_t">>
    BY <1>19 DEF LayoutOf, MapPointerUseLayout, Members, IsKnown, Untyped
  <2> QED
    BY <1>4, <1>19, <2>1, <2>2, ShortLists DEF ParamKinds, Fills
<1> QED
  BY <1>5, <1>6, <1>8, <1>9, <1>10, <1>11, <1>12, <1>13, <1>14, <1>16, <1>17, <1>18, <1>19
  DEF IsKnown, ParamKinds

\* The record_* functions of a handler make a call that is as the format assumes the
\* calls of a trace to be: a parameter for each slot, of its class and laid out as the
\* class writes it, whatever the application passes.
THEOREM HandlersRecordCalls ==
  ASSUME NEW c, c = CallOf(c.id, c.ret, c.params),
         c.id \in DOMAIN EntryPoint, EntryPoint[c.id].recorded,
         Records(EntryPoint[c.id].ret, c.ret),
         IsSequence(c.params), Len(c.params) = Len(EntryPoint[c.id].params),
         \A i \in DOMAIN c.params : Records(EntryPoint[c.id].params[i], c.params[i])
  PROVE  IsRecordedCall(c)
<1>1. PICK slots : slots = EntryPoint[c.id].params
  OBVIOUS
<1>2. IsKnown(EntryPoint[c.id].ret) /\ \A i \in 1..Len(slots) : IsKnown(slots[i])
  BY <1>1, TableIsLoaded
<1>3. Fills(EntryPoint[c.id].ret, c.ret)
  BY <1>2, RecordsFills
<1>4. ASSUME NEW i \in DOMAIN c.params PROVE Fills(slots[i], c.params[i])
  <2>1. i \in 1..Len(slots)
    BY <1>1 DEF IsSequence
  <2>2. IsKnown(slots[i]) /\ Records(slots[i], c.params[i])
    BY <1>1, <1>2, <2>1
  <2> QED
    BY <2>2, RecordsFills
<1> QED
  BY <1>1, <1>3, <1>4 DEF IsRecordedCall

--------------------------------------------------------------------------------
(* What the file holds, and what is read of it.                              *)

\* The file holds these fields after its first X, as far as it goes.
Holds(X, fields) == \A i \in 1..Len(fields) : X + i <= Len(file) => file[X + i] = fields[i]

\* The place of the stream after the first X fields of what was written.
Reached(X) == IF X <= Len(file) THEN X + 1 ELSE Len(file) + 1

LEMMA HoldsParts ==
  ASSUME NEW X \in Nat, NEW u, NEW s, NEW t, IsSequence(file),
         Follows(u, s, t), Len(s) \in Nat, Len(t) \in Nat, Holds(X, u)
  PROVE  Holds(X, s) /\ Holds(X + Len(s), t)
<1>1. Len(file) \in Nat
  BY DEF IsSequence
<1>2. \A i \in 1..Len(s) : i \in 1..Len(u)
  BY DEF Follows
<1>3. \A i \in 1..Len(t) : Len(s) + i \in 1..Len(u) /\ X + (Len(s) + i) = X + Len(s) + i
  BY DEF Follows
<1>4. Holds(X, s)
  BY <1>2 DEF Holds, Follows
<1>5. ASSUME NEW i \in 1..Len(t), X + Len(s) + i <= Len(file)
      PROVE  file[X + Len(s) + i] = t[i]
  <2>1. file[X + (Len(s) + i)] = u[Len(s) + i]
    BY <1>3, <1>5 DEF Holds
  <2> QED
    BY <1>3, <2>1 DEF Follows
<1> QED
  BY <1>4, <1>5 DEF Holds

\* Of lists in a row, it holds each in its place.
LEMMA HoldsRow ==
  ASSUME NEW X \in Nat, NEW seqs, AreLists(seqs), Holds(X, FlattenSeq(seqs)),
         NEW k \in 1..Len(seqs)
  PROVE  Holds(X + Len(Row(seqs, k - 1)), seqs[k])
<1> DEFINE before == Len(Row(seqs, k - 1))
<1>1. /\ before \in Nat
      /\ Len(Row(seqs, k)) = before + Len(seqs[k])
      /\ Len(Row(seqs, k)) <= Len(FlattenSeq(seqs))
      /\ \A i \in 1..Len(seqs[k]) : FlattenSeq(seqs)[before + i] = seqs[k][i]
  BY InRow
<1>2. Len(seqs[k]) \in Nat /\ Len(FlattenSeq(seqs)) \in Nat
  <2>1. Len(seqs) \in 0..Len(seqs) /\ IsSequence(seqs[k])
    BY DEF AreLists, IsSequence
  <2>2. IsSequence(FlattenSeq(seqs))
    BY <2>1, RowIsList, InRow
  <2> QED
    BY <2>1, <2>2 DEF IsSequence
<1> HIDE DEF before
<1>3. ASSUME NEW i \in 1..Len(seqs[k])
      PROVE  before + i \in 1..Len(FlattenSeq(seqs)) /\ X + (before + i) = X + before + i
  BY <1>1, <1>2
<1>4. Holds(X + before, seqs[k])
  BY <1>1, <1>3 DEF Holds
<1> QED
  BY <1>4 DEF before

\* Reads of the types that the file has there.
LEMMA ReadTypes ==
  ASSUME NEW X \in Nat, IsSequence(file), NEW types, IsSequence(types),
         \A i \in 1..Len(types) : X + i <= Len(file) => file[X + i].type = types[i]
  PROVE  /\ After(Reached(X), types) = Reached(X + Len(types))
         /\ InStep(Reached(X), types, Len(types)) <=> (Len(types) = 0 \/ X + Len(types) <= Len(file))
         /\ X + Len(types) <= Len(file) =>
              Read(Reached(X), types) = [i \in 1..Len(types) |-> file[X + i].val]
<1>1. Len(file) \in Nat /\ Len(types) \in Nat /\ DOMAIN types = 1..Len(types)
  BY DEF IsSequence
<1>2. CASE X <= Len(file)
  <2>1. Reached(X) = X + 1 /\ \A i \in 1..Len(types) : X + 1 + i - 1 = X + i
    BY <1>1, <1>2 DEF Reached
  <2>2. ASSUME NEW n \in 0..Len(types)
        PROVE  InStep(Reached(X), types, n) <=> (n = 0 \/ X + n <= Len(file))
    <3>1. ASSUME n # 0, X + n <= Len(file) PROVE InStep(Reached(X), types, n)
      BY <1>1, <2>1, <3>1 DEF InStep
    <3>2. ASSUME n # 0, ~(X + n <= Len(file)) PROVE ~InStep(Reached(X), types, n)
      <4>1. n \in 1..n /\ X + 1 + n - 1 = X + n
        BY <1>1, <3>2
      <4> QED
        BY <2>1, <3>2, <4>1 DEF InStep
    <3>3. n = 0 => InStep(Reached(X), types, n)
      BY DEF InStep
    <3> QED
      BY <3>1, <3>2, <3>3
  <2>3. After(Reached(X), types) = Reached(X + Len(types))
    <3>1. Len(types) \in 0..Len(types)
      BY <1>1
    <3> QED
      BY <1>1, <1>2, <2>1, <2>2, <3>1 DEF After, Reached
  <2>4. ASSUME X + Len(types) <= Len(file)
        PROVE  Read(Reached(X), types) = [i \in 1..Len(types) |-> file[X + i].val]
    <3>1. ASSUME NEW i \in 1..Len(types)
          PROVE  InStep(Reached(X), types, i) /\ file[Reached(X) + i - 1].val = file[X + i].val
      BY <1>1, <2>1, <2>2, <2>4
    <3> QED
      BY <1>1, <3>1 DEF Read
  <2>5. Len(types) \in 0..Len(types)
    BY <1>1
  <2> QED
    BY <2>2, <2>3, <2>4, <2>5
<1>3. CASE ~(X <= Len(file))
  <2>1. Reached(X) = Len(file) + 1 /\ Reached(X + Len(types)) = Len(file) + 1
        /\ ~(X + Len(types) <= Len(file))
    BY <1>1, <1>3 DEF Reached
  <2>2. Len(types) # 0 => ~InStep(Reached(X), types, Len(types))
    <3>1. ASSUME Len(types) # 0 PROVE 1 \in 1..Len(types) /\ ~(Len(file) + 1 + 1 - 1 <= Len(file))
      BY <1>1, <3>1
    <3> QED
      BY <2>1, <3>1 DEF InStep
  <2>3. Len(types) = 0 => InStep(Reached(X), types, Len(types))
    BY DEF InStep
  <2>4. After(Reached(X), types) = Len(file) + 1
    BY <1>1, <2>1, <2>2, <2>3 DEF After
  <2> QED
    BY <2>1, <2>2, <2>3, <2>4
<1> QED
  BY <1>2, <1>3

\* One read.
LEMMA ReadOne ==
  ASSUME NEW X \in Nat, IsSequence(file), NEW type, NEW val, Holds(X, <<Field(type, val)>>)
  PROVE  /\ After(Reached(X), <<type>>) = Reached(X + 1)
         /\ X + 1 <= Len(file) => Read(Reached(X), <<type>>)[1] = val
<1>1. IsSequence(<<type>>) /\ Len(<<type>>) = 1
  BY DEF IsSequence
<1>2. X + 1 <= Len(file) => file[X + 1] = Field(type, val)
  <2>1. 1 \in 1..Len(<<Field(type, val)>>) /\ <<Field(type, val)>>[1] = Field(type, val)
    OBVIOUS
  <2> QED
    BY <2>1 DEF Holds
<1>3. ASSUME NEW i \in 1..Len(<<type>>), X + i <= Len(file)
      PROVE  file[X + i].type = <<type>>[i]
  BY <1>1, <1>2, <1>3 DEF Field
<1>4. After(Reached(X), <<type>>) = Reached(X + 1)
  BY <1>1, <1>3, ReadTypes
<1>5. X + 1 <= Len(file) => Read(Reached(X), <<type>>) = [i \in 1..1 |-> file[X + i].val]
  BY <1>1, <1>3, ReadTypes
<1> QED
  BY <1>2, <1>4, <1>5 DEF Field

\* At the end of the file nothing is read.
LEMMA ReadNothing ==
  ASSUME NEW types, IsSequence(types), IsSequence(file)
  PROVE  /\ After(Len(file) + 1, types) = Len(file) + 1
         /\ \A n \in 1..Len(types) : ~InStep(Len(file) + 1, types, n)
<1>1. Len(file) \in Nat /\ Len(types) \in Nat
  BY DEF IsSequence
<1>2. ASSUME NEW n \in 1..Len(types) PROVE ~InStep(Len(file) + 1, types, n)
  <2>1. 1 \in 1..n /\ ~(Len(file) + 1 + 1 - 1 <= Len(file))
    BY <1>1
  <2> QED
    BY <2>1 DEF InStep
<1>3. After(Len(file) + 1, types) = Len(file) + 1
  <2>1. CASE Len(types) = 0
    BY <1>1, <2>1 DEF After
  <2>2. CASE Len(types) # 0
    <3>1. Len(types) \in 1..Len(types)
      BY <1>1, <2>2
    <3> QED
      BY <1>2, <3>1 DEF After
  <2> QED
    BY <2>1, <2>2
<1> QED
  BY <1>2, <1>3

\* The types of the fields of a parameter, and the place of each part.
LEMMA ReadTag ==
  ASSUME NEW X \in Nat, IsSequence(file), NEW p, IsWritten(p), Holds(X, ParamFields(p))
  PROVE  /\ TagIsRead(Reached(X)) <=> X + 2 <= Len(file)
         /\ X + 2 <= Len(file) =>
              /\ Tag(Reached(X))[1] = p.ptype /\ Tag(Reached(X))[2] = p.ttype
              /\ Reached(X) + 2 = Reached(X + 2)
<1> DEFINE fields == ParamFields(p)
<1>1. /\ fields[1] = Field("CallParamType", p.ptype)
      /\ fields[2] = Field("CallParamTemplateType", p.ttype)
      /\ 1 \in 1..Len(fields) /\ 2 \in 1..Len(fields)
  <2>1. /\ fields[1] = Field("CallParamType", p.ptype)
        /\ fields[2] = Field("CallParamTemplateType", p.ttype)
        /\ HeadLength(p) \in Nat /\ ItemCount(p) \in Nat
        /\ \/ Len(fields) = 2 + HeadLength(p)
           \/ Len(fields) = 3 + HeadLength(p) + ItemCount(p)
    BY FieldsOfParam
  <2> HIDE DEF fields
  <2> QED
    BY <2>1
<1>2. Len(file) \in Nat
  BY DEF IsSequence
<1>3. /\ X + 1 <= Len(file) => file[X + 1] = fields[1]
      /\ X + 2 <= Len(file) => file[X + 2] = fields[2]
  BY <1>1 DEF Holds
<1> HIDE DEF fields
<1>4. IsSequence(TagTypes) /\ Len(TagTypes) = 2
      /\ TagTypes[1] = "CallParamType" /\ TagTypes[2] = "CallParamTemplateType"
  BY DEF TagTypes, IsSequence
<1>5. ASSUME NEW i \in 1..Len(TagTypes), X + i <= Len(file)
      PROVE  file[X + i].type = TagTypes[i]
  <2>1. i = 1 \/ i = 2
    BY <1>4
  <2> QED
    BY <1>1, <1>3, <1>4, <1>5, <2>1 DEF Field
<1>6. /\ InStep(Reached(X), TagTypes, Len(TagTypes)) <=> (Len(TagTypes) = 0 \/ X + Len(TagTypes) <= Len(file))
      /\ X + Len(TagTypes) <= Len(file) =>
           Read(Reached(X), TagTypes) = [i \in 1..Len(TagTypes) |-> file[X + i].val]
  BY <1>4, <1>5, ReadTypes
<1>7. TagIsRead(Reached(X)) <=> X + 2 <= Len(file)
  BY <1>4, <1>6 DEF TagIsRead
<1>8. ASSUME X + 2 <= Len(file)
      PROVE  /\ Tag(Reached(X))[1] = p.ptype /\ Tag(Reached(X))[2] = p.ttype
             /\ Reached(X) + 2 = Reached(X + 2)
  <2>1. Tag(Reached(X)) = [i \in 1..2 |-> file[X + i].val]
    BY <1>4, <1>6, <1>8 DEF Tag
  <2>2. X + 1 <= Len(file) /\ X <= Len(file)
    BY <1>2, <1>8
  <2> QED
    BY <1>1, <1>2, <1>3, <1>8, <2>1, <2>2 DEF Field, Reached
<1> QED
  BY <1>7, <1>8

LEMMA ReadHead ==
  ASSUME NEW X \in Nat, IsSequence(file), NEW p, IsWritten(p), Holds(X, ParamFields(p)),
         NEW h, h = HeadLength(p)
  PROVE  /\ h \in Nat /\ After(Reached(X + 2), HeadTypes(p)) = Reached(X + 2 + h)
         /\ X + 2 + h <= Len(file) => Read(Reached(X + 2), HeadTypes(p)) = p.head
<1> DEFINE fields == ParamFields(p)
           types == HeadTypes(p)
<1>1. /\ h \in Nat /\ 2 + h <= Len(fields) /\ Len(fields) \in Nat
      /\ \A i \in 1..h : fields[2 + i] = Field(types[i], p.head[i])
  <2>1. /\ h \in Nat /\ ItemCount(p) \in Nat
        /\ \/ Len(fields) = 2 + h
           \/ Len(fields) = 3 + h + ItemCount(p)
        /\ \A i \in 1..h : fields[2 + i] = Field(types[i], p.head[i])
    BY FieldsOfParam
  <2> HIDE DEF fields, types
  <2> QED
    BY <2>1
<1>2. IsSequence(types) /\ Len(types) = h /\ p.head = [i \in 1..h |-> p.head[i]]
  BY LayoutsAgree DEF IsWritten, IsLaidOut, WritesOf, IsSequence, HeadLength, HeadTypes
<1>3. Len(file) \in Nat
  BY DEF IsSequence
<1>4. ASSUME NEW i \in 1..h, X + 2 + i <= Len(file)
      PROVE  file[X + 2 + i].type = types[i] /\ file[X + 2 + i].val = p.head[i]
  <2> HIDE DEF fields, types
  <2>1. 2 + i \in 1..Len(fields) /\ X + (2 + i) = X + 2 + i
    BY <1>1
  <2>2. file[X + (2 + i)] = fields[2 + i]
    BY <1>4, <2>1 DEF Holds, fields
  <2>3. file[X + 2 + i] = Field(types[i], p.head[i])
    BY <1>1, <2>1, <2>2
  <2> QED
    BY <2>3 DEF Field
<1> HIDE DEF fields, types
<1>5. X + 2 \in Nat /\ \A i \in 1..Len(types) : X + 2 + i <= Len(file) => file[X + 2 + i].type = types[i]
  BY <1>2, <1>4
<1>6. /\ After(Reached(X + 2), types) = Reached(X + 2 + Len(types))
      /\ X + 2 + Len(types) <= Len(file) =>
           Read(Reached(X + 2), types) = [i \in 1..Len(types) |-> file[X + 2 + i].val]
  BY <1>2, <1>5, ReadTypes
<1>7. ASSUME X + 2 + h <= Len(file) PROVE Read(Reached(X + 2), types) = p.head
  <2>1. \A i \in 1..h : file[X + 2 + i].val = p.head[i]
    BY <1>1, <1>3, <1>4, <1>7
  <2> QED
    BY <1>2, <1>6, <1>7, <2>1
<1> QED
  BY <1>1, <1>2, <1>6, <1>7 DEF types

\* The number of elements, and the elements.
LEMMA ReadItems ==
  ASSUME NEW X \in Nat, IsSequence(file), NEW p, IsWritten(p), Holds(X, ParamFields(p)),
         ItemType(p) # NoItems, MaxGarbage \in Nat, Garbage \notin Nat,
         NEW Y \in Nat, Y = X + 2 + HeadLength(p),
         NEW n \in Counts(Read(Reached(Y), <<"uint32_t">>)[1]),
         NEW types, types = [i \in 1..n |-> ItemType(p)],
         NEW at, at = After(Reached(Y), <<"uint32_t">>)
  PROVE  /\ After(at, types) = Reached(Y + 1 + ItemCount(p))
         /\ Y + 1 + ItemCount(p) <= Len(file) => Read(at, types) = p.items
<1> DEFINE fields == ParamFields(p)
           h == HeadLength(p)
           m == ItemCount(p)
           type == ItemType(p)
<1>1. /\ h \in Nat /\ m \in Nat /\ Len(fields) = 3 + h + m
      /\ fields[3 + h] = Field("uint32_t", m)
      /\ \A i \in 1..m : fields[3 + h + i] = Field(type, p.items[i])
  BY FieldsOfParam
<1>2. Len(file) \in Nat
  BY DEF IsSequence
<1>3. p.items = [i \in 1..m |-> p.items[i]]
  BY DEF IsWritten, IsLaidOut, IsSequence, ItemCount
<1> HIDE DEF fields, h, m, type
<1>4. Y + 1 <= Len(file) => file[Y + 1] = Field("uint32_t", m)
  <2>1. 3 + h \in 1..Len(fields) /\ X + (3 + h) = Y + 1
    BY <1>1 DEF h
  <2> QED
    BY <1>1, <2>1 DEF Holds, fields
<1>5. ASSUME NEW i \in 1..m, Y + 1 + i <= Len(file)
      PROVE  file[Y + 1 + i].type = type /\ file[Y + 1 + i].val = p.items[i]
  <2>1. 3 + h + i \in 1..Len(fields) /\ X + (3 + h + i) = Y + 1 + i
    BY <1>1 DEF h
  <2>2. file[Y + 1 + i] = Field(type, p.items[i])
    BY <1>1, <1>5, <2>1 DEF Holds, fields
  <2> QED
    BY <2>2 DEF Field
<1>6. Holds(Y, <<Field("uint32_t", m)>>)
  <2>1. Len(<<Field("uint32_t", m)>>) = 1 /\ <<Field("uint32_t", m)>>[1] = Field("uint32_t", m)
    OBVIOUS
  <2> QED
    BY <1>4, <2>1 DEF Holds
<1>7. at = Reached(Y + 1) /\ (Y + 1 <= Len(file) => Read(Reached(Y), <<"uint32_t">>)[1] = m)
  BY <1>6, ReadOne
<1>8. CASE Y + 1 <= Len(file)
  <2>1. n = m
    BY <1>1, <1>7, <1>8 DEF Counts
  <2>2. IsSequence(types) /\ Len(types) = m /\ \A i \in 1..m : types[i] = type
    <3>1. DOMAIN types = 1..m /\ types = [i \in 1..m |-> types[i]] /\ \A i \in 1..m : types[i] = type
      BY <2>1 DEF type
    <3> QED
      BY <1>1, <3>1, FunctionIsList
  <2>3. \A i \in 1..Len(types) : Y + 1 + i <= Len(file) => file[Y + 1 + i].type = types[i]
    BY <1>5, <2>2
  <2>4. /\ After(Reached(Y + 1), types) = Reached(Y + 1 + m)
        /\ Y + 1 + m <= Len(file) =>
             Read(Reached(Y + 1), types) = [i \in 1..m |-> file[Y + 1 + i].val]
    <3>1. Y + 1 \in Nat
      OBVIOUS
    <3> QED
      BY <2>2, <2>3, <3>1, ReadTypes
  <2>5. ASSUME Y + 1 + m <= Len(file) PROVE Read(at, types) = p.items
    <3>1. ASSUME NEW i \in 1..m PROVE file[Y + 1 + i].val = p.items[i]
      <4>1. Y + 1 + i <= Len(file)
        BY <1>1, <1>2, <2>5
      <4> QED
        BY <1>5, <4>1
    <3> QED
      BY <1>3, <1>7, <2>4, <2>5, <3>1
  <2> QED
    BY <1>7, <2>4, <2>5 DEF m
<1>9. CASE ~(Y + 1 <= Len(file))
  <2>1. at = Len(file) + 1 /\ Reached(Y + 1 + m) = Len(file) + 1 /\ ~(Y + 1 + m <= Len(file))
    BY <1>1, <1>2, <1>7, <1>9 DEF Reached
  <2>2. Read(Reached(Y), <<"uint32_t">>)[1] = Garbage
    <3>1. ~InStep(Reached(Y), <<"uint32_t">>, 1)
      <4>1. 1 \in 1..1 /\ ~(Reached(Y) + 1 - 1 <= Len(file))
        BY <1>2, <1>9 DEF Reached
      <4> QED
        BY <4>1 DEF InStep
    <3> QED
      BY <3>1 DEF Read
  <2>3. n \in Nat
    BY <2>2 DEF Counts
  <2>4. IsSequence(types)
    <3>1. DOMAIN types = 1..n /\ types = [i \in 1..n |-> types[i]]
      OBVIOUS
    <3> QED
      BY <2>3, <3>1, FunctionIsList
  <2> QED
    BY <2>1, <2>4, ReadNothing DEF m
<1> QED
  BY <1>8, <1>9

\* A parameter that the file holds: it is constructed as it was recorded, as far as
\* it is there, and the stream moves over it; where the factory aborts, it has no
\* class for it, or the file ends.
LEMMA ReadParam ==
  ASSUME NEW X \in Nat, IsSequence(file), NEW p, IsWritten(p), Holds(X, ParamFields(p)),
         MaxGarbage \in Nat, Garbage \notin Nat
  PROVE  /\ Len(ParamFields(p)) \in Nat /\ Len(ParamFields(p)) >= 2
         /\ \A r \in Constructed(Reached(X)) :
              /\ r.next = Reached(X + Len(ParamFields(p)))
              /\ LoadedParam(r.param)
              /\ X + Len(ParamFields(p)) <= Len(file) => r.param = p
         /\ X + 2 <= Len(file) /\ MayAbort(Reached(X)) => ~IsConstructed(p.ptype, p.ttype)
<1> DEFINE at == Reached(X)
           h == HeadLength(p)
           m == ItemCount(p)
           size == Len(ParamFields(p))
<1>1. /\ h \in Nat /\ m \in Nat
      /\ size = IF ItemType(p) = NoItems THEN 2 + h ELSE 3 + h + m
  BY FieldsOfParam
<1>2. Len(file) \in Nat
  BY DEF IsSequence
<1>3. /\ TagIsRead(at) <=> X + 2 <= Len(file)
      /\ X + 2 <= Len(file) =>
           Tag(at)[1] = p.ptype /\ Tag(at)[2] = p.ttype /\ at + 2 = Reached(X + 2)
  BY ReadTag
<1>4. /\ LayoutOf(p.ptype, p.ttype).reads.head = HeadTypes(p)
      /\ LayoutOf(p.ptype, p.ttype).reads.item = ItemType(p)
  BY LayoutsAgree DEF IsWritten, WritesOf, HeadTypes, ItemType
<1>5. p = CallParam(p.ptype, p.ttype, p.head, p.items) /\ (ItemType(p) = NoItems => p.items = <<>>)
  BY DEF IsWritten, IsLaidOut, WritesOf, ItemType
<1>6. /\ After(Reached(X + 2), HeadTypes(p)) = Reached(X + 2 + h)
      /\ X + 2 + h <= Len(file) => Read(Reached(X + 2), HeadTypes(p)) = p.head
  BY ReadHead
<1>7. MayAbort(at) /\ X + 2 <= Len(file) => ~IsConstructed(p.ptype, p.ttype)
  BY <1>3 DEF MayAbort
<1>8. size \in Nat /\ size >= 2
  <2> HIDE DEF size, h, m
  <2> QED
    BY <1>1
<1>9. ASSUME NEW r \in Constructed(at)
      PROVE  /\ r.next = Reached(X + size) /\ LoadedParam(r.param)
             /\ X + size <= Len(file) => r.param = p
  <2>1. CASE ~(X + 2 <= Len(file))
    <3>1. r = [param |-> Garbage, next |-> Len(file) + 1]
      BY <1>3, <2>1 DEF Constructed
    <3>2. ~(X + size <= Len(file)) /\ Reached(X + size) = Len(file) + 1
      <4> HIDE DEF size
      <4> QED
        BY <1>2, <1>8, <2>1 DEF Reached
    <3> QED
      BY <3>1, <3>2 DEF LoadedParam
  <2>2. CASE X + 2 <= Len(file)
    <3> DEFINE head == Read(Reached(X + 2), HeadTypes(p))
               counted == Reached(X + 2 + h)
               count == Read(counted, <<"uint32_t">>)[1]
               items == After(counted, <<"uint32_t">>)
               types(n) == [i \in 1..n |-> ItemType(p)]
               result(n) == [param |-> CallParam(p.ptype, p.ttype, head, Read(items, types(n))),
                             next |-> After(items, types(n))]
    <3>1. /\ IsConstructed(p.ptype, p.ttype)
          /\ ItemType(p) = NoItems =>
               r = [param |-> CallParam(p.ptype, p.ttype, head, <<>>), next |-> counted]
          /\ ItemType(p) # NoItems => \E n \in Counts(count) : r = result(n)
      BY <1>3, <1>4, <1>6, <2>2 DEF Constructed
    <3>2. CASE ItemType(p) = NoItems
      <4>1. r.next = Reached(X + size)
        <5>1. X + 2 + h = X + size
          <6> HIDE DEF h, size, m
          <6> QED
            BY <1>1, <3>2
        <5> QED
          BY <3>1, <3>2, <5>1
      <4>2. X + size <= Len(file) => r.param = p
        <5>1. X + 2 + h = X + size
          <6> HIDE DEF h, size, m
          <6> QED
            BY <1>1, <3>2
        <5> QED
          BY <1>5, <1>6, <3>1, <3>2, <5>1
      <4> QED
        BY <3>1, <3>2, <4>1, <4>2 DEF LoadedParam, CallParam
    <3>3. CASE ItemType(p) # NoItems
      <4>1. PICK n \in Counts(count) : r = result(n)
        BY <3>1, <3>3
      <4>2. PICK Y \in Nat : Y = X + 2 + h
        <5> HIDE DEF h
        <5> QED
          BY <1>1
      <4>3. /\ After(items, types(n)) = Reached(Y + 1 + m)
            /\ Y + 1 + m <= Len(file) => Read(items, types(n)) = p.items
        BY <3>3, <4>1, <4>2, ReadItems
      <4>4. Y + 1 + m = X + size /\ (X + size <= Len(file) => X + 2 + h <= Len(file))
        <5> HIDE DEF h, size, m
        <5> QED
          BY <1>1, <1>2, <3>3, <4>2
      <4> QED
        BY <1>5, <1>6, <3>1, <4>1, <4>3, <4>4 DEF LoadedParam, CallParam
    <3> QED
      BY <3>2, <3>3
  <2> QED
    BY <2>1, <2>2
<1> QED
  BY <1>7, <1>8, <1>9

\* At the end of the file.
LEMMA ReadNoParam ==
  ASSUME IsSequence(file)
  PROVE  \A r \in Constructed(Len(file) + 1) : r.param = Garbage /\ r.next = Len(file) + 1
<1>1. IsSequence(TagTypes) /\ 2 \in 1..Len(TagTypes)
  BY DEF TagTypes, IsSequence
<1>2. ~TagIsRead(Len(file) + 1)
  BY <1>1, ReadNothing DEF TagIsRead
<1> QED
  BY <1>2 DEF Constructed

--------------------------------------------------------------------------------
(* The places of the parts of a call, and of the calls of a trace.           *)

\* The fields of each parameter, and of each call.
PartsOf(c) == [i \in DOMAIN c.params |-> ParamFields(c.params[i])]
CallParts(trace) == [k \in DOMAIN trace.calls |-> CallFields(trace.calls[k])]

\* How many parameters a call has, and how many fields there are of it: up to the number
\* of its parameters, up to its j-th parameter and in all.
ParamCount(c) == Len(c.params)
HeadSize(c) == 2 + Len(ParamFields(c.ret))
ParamEnd(c, j) == HeadSize(c) + Len(Row(PartsOf(c), j))
CallSize(c) == Len(CallFields(c))

\* How many fields of a trace there are up to its k-th call.
CallEnd(trace, k) == 2 + Len(Row(CallParts(trace), k))

LEMMA PartsAreLists ==
  ASSUME NEW c, IsRecordedCall(c)
  PROVE  /\ AreLists(PartsOf(c)) /\ Len(PartsOf(c)) = ParamCount(c) /\ ParamCount(c) \in Nat
         /\ \A j \in 1..ParamCount(c) : PartsOf(c)[j] = ParamFields(c.params[j])
<1>1. /\ ParamCount(c) \in Nat /\ DOMAIN c.params = 1..ParamCount(c)
      /\ \A i \in 1..ParamCount(c) : IsSequence(ParamFields(c.params[i]))
  BY RecordedIsWritten, FieldsOfParam DEF ParamCount
<1>2. /\ DOMAIN PartsOf(c) = 1..ParamCount(c)
      /\ PartsOf(c) = [i \in 1..ParamCount(c) |-> PartsOf(c)[i]]
      /\ \A j \in 1..ParamCount(c) : PartsOf(c)[j] = ParamFields(c.params[j])
  BY <1>1 DEF PartsOf
<1>3. IsSequence(PartsOf(c)) /\ Len(PartsOf(c)) = ParamCount(c)
  BY <1>1, <1>2, FunctionIsList
<1> QED
  BY <1>1, <1>2, <1>3 DEF AreLists

\* The fields of a call: its entry point and return value and the number of its
\* parameters, and then its parameters in a row.
LEMMA FieldsOfCall ==
  ASSUME NEW c, IsRecordedCall(c)
  PROVE  \E head, row :
           /\ Follows(CallFields(c), head, row) /\ row = FlattenSeq(PartsOf(c))
           /\ Len(head) = HeadSize(c) /\ Len(row) \in Nat
           /\ HeadSize(c) \in Nat /\ Len(ParamFields(c.ret)) + 2 = HeadSize(c)
           /\ Len(ParamFields(c.ret)) \in Nat
           /\ \E first :
                /\ Follows(head, first, <<Field("uint32_t", Len(c.params))>>)
                /\ Len(first) + 1 = HeadSize(c) /\ Len(first) \in Nat
                /\ Follows(first, <<Field("uint32_t", c.id)>>, ParamFields(c.ret))
<1> DEFINE id == <<Field("uint32_t", c.id)>>
           count == <<Field("uint32_t", Len(c.params))>>
<1>1. PICK ret : ret = ParamFields(c.ret)
  OBVIOUS
<1>2. PICK row : row = FlattenSeq(PartsOf(c))
  OBVIOUS
<1>3. IsSequence(id) /\ IsSequence(count) /\ Len(id) = 1 /\ Len(count) = 1
  BY DEF IsSequence
<1> HIDE DEF id, count
<1>4. IsSequence(ret) /\ Len(ret) \in Nat /\ HeadSize(c) = 2 + Len(ret)
  BY <1>1, RecordedIsWritten, FieldsOfParam DEF HeadSize, IsSequence
<1>5. IsSequence(row) /\ Len(row) \in Nat
  <2>1. AreLists(PartsOf(c)) /\ IsSequence(PartsOf(c)) /\ Len(PartsOf(c)) \in 0..Len(PartsOf(c))
    BY PartsAreLists DEF AreLists
  <2>2. IsSequence(Row(PartsOf(c), Len(PartsOf(c))))
    BY <2>1, RowIsList
  <2>3. Row(PartsOf(c), Len(PartsOf(c))) = row
    BY <1>2, <2>1, FirstOfList DEF Row
  <2> QED
    BY <2>2, <2>3 DEF IsSequence
<1>6. PICK first : first = id \o ret
  OBVIOUS
<1>7. Follows(first, id, ret)
  BY <1>3, <1>4, <1>6, ConcatFollows
<1>8. IsSequence(first) /\ Len(first) = 1 + Len(ret) /\ Len(first) \in Nat
  BY <1>3, <1>4, <1>7 DEF Follows
<1>9. PICK head : head = first \o count
  OBVIOUS
<1>10. Follows(head, first, count)
  BY <1>3, <1>8, <1>9, ConcatFollows
<1>11. IsSequence(head) /\ Len(head) = HeadSize(c) /\ HeadSize(c) \in Nat
       /\ Len(first) + 1 = HeadSize(c)
  BY <1>3, <1>4, <1>8, <1>10 DEF Follows
<1>12. CallFields(c) = head \o row
  BY <1>1, <1>2, <1>6, <1>9 DEF CallFields, PartsOf, id, count
<1>13. Follows(CallFields(c), head, row)
  BY <1>5, <1>11, <1>12, ConcatFollows
<1>14. /\ Follows(head, first, count) /\ Len(first) + 1 = HeadSize(c) /\ Len(first) \in Nat
       /\ Follows(first, id, ret)
  BY <1>7, <1>8, <1>10, <1>11
<1>15. Len(ret) + 2 = HeadSize(c) /\ Len(head) = HeadSize(c) /\ HeadSize(c) \in Nat
  BY <1>4, <1>11
<1> QED
  BY <1>1, <1>2, <1>4, <1>5, <1>13, <1>14, <1>15 DEF id, count

LEMMA CallPlaces ==
  ASSUME NEW c, IsRecordedCall(c), NEW n, n = ParamCount(c)
  PROVE  /\ n \in Nat /\ HeadSize(c) \in Nat /\ CallSize(c) \in Nat
         /\ HeadSize(c) >= 4
         /\ ParamEnd(c, 0) = HeadSize(c) /\ ParamEnd(c, n) = CallSize(c)
         /\ \A j \in 0..n : ParamEnd(c, j) \in HeadSize(c)..CallSize(c)
         /\ \A j \in 1..n : ParamEnd(c, j) = ParamEnd(c, j - 1) + Len(ParamFields(c.params[j]))
<1>1. PICK seqs : seqs = PartsOf(c)
  OBVIOUS
<1>2. AreLists(seqs) /\ Len(seqs) = n /\ n \in Nat /\ IsSequence(seqs)
      /\ \A j \in 1..n : seqs[j] = ParamFields(c.params[j])
  BY <1>1, PartsAreLists DEF AreLists
<1>3. PICK head, row :
        /\ Follows(CallFields(c), head, row) /\ row = FlattenSeq(seqs)
        /\ Len(head) = HeadSize(c) /\ Len(row) \in Nat /\ HeadSize(c) \in Nat
  BY <1>1, FieldsOfCall
<1>4. CallSize(c) = HeadSize(c) + Len(row)
  BY <1>3 DEF CallSize, Follows
<1>5. \A j \in 0..n : Len(Row(seqs, j)) \in Nat /\ Len(Row(seqs, j)) <= Len(Row(seqs, n))
  <2>1. \A j \in 0..n : n \in j..Len(seqs)
    BY <1>2
  <2> QED
    BY <1>2, <2>1, RowGrows
<1>6. Len(Row(seqs, 0)) = 0
  BY <1>2, EmptyRow
<1>7. Row(seqs, n) = row
  <2>1. n \in 0..Len(seqs)
    BY <1>2
  <2> QED
    BY <1>2, <1>3, <2>1, FirstOfList DEF Row
<1>8. \A j \in 1..n : Len(Row(seqs, j)) = Len(Row(seqs, j - 1)) + Len(seqs[j])
  BY <1>2, InRow
<1>9. HeadSize(c) >= 4
  <2>1. PICK ret : ret = c.ret
    OBVIOUS
  <2>2. Len(ParamFields(ret)) \in Nat /\ Len(ParamFields(ret)) >= 2
    <3>1. IsWritten(ret)
      BY <2>1, RecordedIsWritten
    <3>2. /\ HeadLength(ret) \in Nat /\ ItemCount(ret) \in Nat
          /\ \/ Len(ParamFields(ret)) = 2 + HeadLength(ret)
             \/ Len(ParamFields(ret)) = 3 + HeadLength(ret) + ItemCount(ret)
      BY <3>1, FieldsOfParam
    <3> QED
      BY <3>2
  <2>3. HeadSize(c) = 2 + Len(ParamFields(ret))
    BY <2>1 DEF HeadSize
  <2> QED
    BY <2>2, <2>3
<1>10. \A j \in 0..n : ParamEnd(c, j) = HeadSize(c) + Len(Row(seqs, j))
  BY <1>1 DEF ParamEnd
<1>11. ParamEnd(c, 0) = HeadSize(c) /\ ParamEnd(c, n) = CallSize(c)
  <2>1. 0 \in 0..n /\ n \in 0..n
    BY <1>2
  <2> QED
    BY <1>3, <1>4, <1>6, <1>7, <1>10, <2>1
<1>12. \A j \in 0..n : ParamEnd(c, j) \in HeadSize(c)..CallSize(c)
  BY <1>3, <1>4, <1>5, <1>7, <1>10
<1>13. ASSUME NEW j \in 1..n
       PROVE  ParamEnd(c, j) = ParamEnd(c, j - 1) + Len(ParamFields(c.params[j]))
  <2>1. j \in 0..n /\ j - 1 \in 0..n
    BY <1>2
  <2>2. Len(Row(seqs, j - 1)) \in Nat /\ Len(seqs[j]) \in Nat
    BY <1>2, <1>5, <2>1 DEF AreLists, IsSequence
  <2>3. Len(Row(seqs, j)) = Len(Row(seqs, j - 1)) + Len(seqs[j])
    BY <1>8
  <2>4. /\ ParamEnd(c, j) = HeadSize(c) + Len(Row(seqs, j))
        /\ ParamEnd(c, j - 1) = HeadSize(c) + Len(Row(seqs, j - 1))
    BY <1>10, <2>1
  <2>5. PICK before, here : before = Len(Row(seqs, j - 1)) /\ here = Len(seqs[j])
    OBVIOUS
  <2>6. before \in Nat /\ here \in Nat /\ HeadSize(c) \in Nat
    BY <1>3, <2>2, <2>5
  <2>7. HeadSize(c) + (before + here) = HeadSize(c) + before + here
    BY <2>6
  <2>8. /\ ParamEnd(c, j) = HeadSize(c) + (before + here)
        /\ ParamEnd(c, j - 1) = HeadSize(c) + before
        /\ here = Len(ParamFields(c.params[j]))
    BY <1>2, <2>3, <2>4, <2>5
  <2> QED
    BY <2>7, <2>8
<1>14. CallSize(c) \in Nat
  BY <1>3, <1>4
<1> QED
  BY <1>2, <1>3, <1>9, <1>11, <1>12, <1>13, <1>14

LEMMA HoldsCall ==
  ASSUME NEW X \in Nat, IsSequence(file), NEW c, IsRecordedCall(c), Holds(X, CallFields(c))
  PROVE  /\ Holds(X, <<Field("uint32_t", c.id)>>)
         /\ Holds(X + 1, ParamFields(c.ret))
         /\ X + 1 + Len(ParamFields(c.ret)) + 1 = X + HeadSize(c)
         /\ Holds(X + 1 + Len(ParamFields(c.ret)), <<Field("uint32_t", Len(c.params))>>)
         /\ \A j \in 1..ParamCount(c) : Holds(X + ParamEnd(c, j - 1), ParamFields(c.params[j]))
<1> DEFINE id == <<Field("uint32_t", c.id)>>
           count == <<Field("uint32_t", Len(c.params))>>
<1>1. Len(id) = 1 /\ Len(count) = 1
  OBVIOUS
<1> HIDE DEF id, count
<1>2. PICK ret : ret = ParamFields(c.ret)
  OBVIOUS
<1>3. PICK head, row :
        /\ Follows(CallFields(c), head, row) /\ row = FlattenSeq(PartsOf(c))
        /\ Len(head) = HeadSize(c) /\ Len(row) \in Nat
        /\ HeadSize(c) \in Nat /\ Len(ret) + 2 = HeadSize(c) /\ Len(ret) \in Nat
        /\ \E first : /\ Follows(head, first, count)
                      /\ Len(first) + 1 = HeadSize(c) /\ Len(first) \in Nat
                      /\ Follows(first, id, ret)
  BY <1>2, FieldsOfCall DEF id, count
<1>4. PICK first : /\ Follows(head, first, count)
                   /\ Len(first) + 1 = HeadSize(c) /\ Len(first) \in Nat
                   /\ Follows(first, id, ret)
  BY <1>3
<1>5. Holds(X, head) /\ Holds(X + HeadSize(c), row)
  BY <1>3, HoldsParts
<1>6. Holds(X, first) /\ Holds(X + Len(first), count)
  BY <1>1, <1>4, <1>5, HoldsParts
<1>7. Holds(X, id) /\ Holds(X + 1, ret)
  <2>1. Len(id) \in Nat /\ Len(ret) \in Nat /\ Follows(first, id, ret) /\ Holds(X, first)
    BY <1>1, <1>3, <1>4, <1>6
  <2>2. Holds(X, id) /\ Holds(X + Len(id), ret)
    BY <2>1, HoldsParts
  <2> QED
    BY <1>1, <2>2
<1>8. X + Len(first) = X + 1 + Len(ret) /\ X + 1 + Len(ret) + 1 = X + HeadSize(c)
  BY <1>3, <1>4
<1>9. ASSUME NEW j \in 1..ParamCount(c)
      PROVE  Holds(X + ParamEnd(c, j - 1), ParamFields(c.params[j]))
  <2>1. AreLists(PartsOf(c)) /\ j \in 1..Len(PartsOf(c)) /\ PartsOf(c)[j] = ParamFields(c.params[j])
    BY PartsAreLists
  <2>2. X + HeadSize(c) \in Nat
    BY <1>3
  <2>3. Holds(X + HeadSize(c) + Len(Row(PartsOf(c), j - 1)), PartsOf(c)[j])
    BY <1>3, <1>5, <2>1, <2>2, HoldsRow
  <2>4. Len(Row(PartsOf(c), j - 1)) \in Nat
    BY <2>1, InRow
  <2>5. X + HeadSize(c) + Len(Row(PartsOf(c), j - 1)) = X + ParamEnd(c, j - 1)
    BY <1>3, <2>4 DEF ParamEnd
  <2> QED
    BY <2>1, <2>3, <2>5
<1>10. Holds(X + 1 + Len(ret), count)
  BY <1>6, <1>8
<1> QED
  BY <1>2, <1>7, <1>8, <1>9, <1>10 DEF id, count

CallCount(trace) == Len(trace.calls)

LEMMA CallPartsAreLists ==
  ASSUME NEW trace, IsRecorded(trace)
  PROVE  /\ AreLists(CallParts(trace)) /\ Len(CallParts(trace)) = CallCount(trace)
         /\ CallCount(trace) \in Nat /\ IsSequence(trace.calls)
         /\ \A k \in 1..CallCount(trace) :
              IsRecordedCall(trace.calls[k]) /\ CallParts(trace)[k] = CallFields(trace.calls[k])
<1>1. /\ CallCount(trace) \in Nat /\ DOMAIN trace.calls = 1..CallCount(trace)
      /\ IsSequence(trace.calls)
      /\ \A k \in 1..CallCount(trace) : IsRecordedCall(trace.calls[k])
  BY DEF IsRecorded, IsSequence, CallCount
<1>2. \A k \in 1..CallCount(trace) : IsSequence(CallFields(trace.calls[k]))
  BY <1>1, FieldsOfCall DEF Follows
<1>3. /\ DOMAIN CallParts(trace) = 1..CallCount(trace)
      /\ CallParts(trace) = [k \in 1..CallCount(trace) |-> CallParts(trace)[k]]
      /\ \A k \in 1..CallCount(trace) : CallParts(trace)[k] = CallFields(trace.calls[k])
  BY <1>1 DEF CallParts
<1>4. IsSequence(CallParts(trace)) /\ Len(CallParts(trace)) = CallCount(trace)
  BY <1>1, <1>3, FunctionIsList
<1> QED
  BY <1>1, <1>2, <1>3, <1>4 DEF AreLists

\* The fields of the header.
HeaderFields(trace) ==
  <<Field("uint32_t", trace.flags), Field("uint32_t", Len(trace.calls))>>

LEMMA FieldsOfTrace ==
  ASSUME NEW trace, IsRecorded(trace)
  PROVE  \E row :
           /\ Follows(TraceFields(trace), HeaderFields(trace), row)
           /\ row = FlattenSeq(CallParts(trace)) /\ Len(row) \in Nat
           /\ row = Row(CallParts(trace), CallCount(trace))
           /\ IsSequence(HeaderFields(trace)) /\ Len(HeaderFields(trace)) = 2
<1>1. PICK seqs, n : seqs = CallParts(trace) /\ n = CallCount(trace)
  OBVIOUS
<1>2. AreLists(seqs) /\ IsSequence(seqs) /\ Len(seqs) = n /\ n \in Nat /\ n \in 0..n
  BY <1>1, CallPartsAreLists DEF AreLists
<1>3. PICK row : row = FlattenSeq(seqs)
  OBVIOUS
<1>4. Row(seqs, n) = row
  BY <1>2, <1>3, FirstOfList DEF Row
<1>5. IsSequence(row) /\ Len(row) \in Nat
  <2>1. IsSequence(Row(seqs, n))
    BY <1>2, RowIsList
  <2> QED
    BY <1>4, <2>1 DEF IsSequence
<1>6. IsSequence(HeaderFields(trace)) /\ Len(HeaderFields(trace)) = 2
  BY DEF HeaderFields, IsSequence
<1>7. TraceFields(trace) = HeaderFields(trace) \o row
  BY <1>1, <1>3 DEF TraceFields, HeaderFields, CallParts
<1>8. Follows(TraceFields(trace), HeaderFields(trace), row)
  BY <1>5, <1>6, <1>7, ConcatFollows
<1> QED
  BY <1>1, <1>3, <1>4, <1>5, <1>6, <1>8

LEMMA TracePlaces ==
  ASSUME NEW trace, IsRecorded(trace), NEW n, n = CallCount(trace),
         NEW size, size = Len(TraceFields(trace))
  PROVE  /\ n \in Nat /\ size \in Nat /\ IsSequence(TraceFields(trace))
         /\ CallEnd(trace, 0) = 2 /\ CallEnd(trace, n) = size
         /\ \A k \in 0..n : CallEnd(trace, k) \in 2..size
         /\ \A k \in 1..n : CallEnd(trace, k) = CallEnd(trace, k - 1) + CallSize(trace.calls[k])
<1>1. PICK seqs : seqs = CallParts(trace)
  OBVIOUS
<1>2. AreLists(seqs) /\ IsSequence(seqs) /\ Len(seqs) = n /\ n \in Nat
      /\ \A k \in 1..n : seqs[k] = CallFields(trace.calls[k])
  BY <1>1, CallPartsAreLists DEF AreLists
<1>3. PICK row : /\ Follows(TraceFields(trace), HeaderFields(trace), row)
                 /\ row = Row(seqs, n) /\ Len(row) \in Nat /\ Len(HeaderFields(trace)) = 2
  BY <1>1, FieldsOfTrace
<1>4. size = 2 + Len(row) /\ size \in Nat /\ IsSequence(TraceFields(trace))
  BY <1>3 DEF Follows
<1>5. \A k \in 0..n : Len(Row(seqs, k)) \in Nat /\ Len(Row(seqs, k)) <= Len(Row(seqs, n))
  <2>1. \A k \in 0..n : n \in k..Len(seqs)
    BY <1>2
  <2> QED
    BY <1>2, <2>1, RowGrows
<1>6. Len(Row(seqs, 0)) = 0
  BY <1>2, EmptyRow
<1>7. \A k \in 0..n : CallEnd(trace, k) = 2 + Len(Row(seqs, k))
  BY <1>1 DEF CallEnd
<1>8. CallEnd(trace, 0) = 2 /\ CallEnd(trace, n) = size
  <2>1. 0 \in 0..n /\ n \in 0..n
    BY <1>2
  <2> QED
    BY <1>3, <1>4, <1>6, <1>7, <2>1
<1>9. \A k \in 0..n : CallEnd(trace, k) \in 2..size
  BY <1>3, <1>4, <1>5, <1>7
<1>10. ASSUME NEW k \in 1..n
       PROVE  CallEnd(trace, k) = CallEnd(trace, k - 1) + CallSize(trace.calls[k])
  <2>1. k \in 0..n /\ k - 1 \in 0..n
    BY <1>2
  <2>2. PICK before, here : before = Len(Row(seqs, k - 1)) /\ here = Len(seqs[k])
    OBVIOUS
  <2>3. before \in Nat /\ here \in Nat /\ Len(Row(seqs, k)) = before + here
    BY <1>2, <1>5, <2>1, <2>2, InRow DEF AreLists, IsSequence
  <2>4. 2 + (before + here) = 2 + before + here
    BY <2>3
  <2>5. /\ CallEnd(trace, k) = 2 + (before + here)
        /\ CallEnd(trace, k - 1) = 2 + before
        /\ here = CallSize(trace.calls[k])
    BY <1>2, <1>7, <2>1, <2>2, <2>3 DEF CallSize
  <2> QED
    BY <2>4, <2>5
<1> QED
  BY <1>2, <1>4, <1>8, <1>9, <1>10

\* The size that the properties name.
LEMMA SizeIsCallEnd ==
  ASSUME IsRecorded(recorded), NEW k \in 0..CallCount(recorded)
  PROVE  SizeOf(k) = CallEnd(recorded, k)
<1>1. PICK calls, seqs, n : calls = recorded.calls /\ seqs = CallParts(recorded)
                            /\ n = CallCount(recorded)
  OBVIOUS
<1>2. /\ IsSequence(calls) /\ Len(calls) = n /\ n \in Nat /\ k \in 0..n
      /\ IsSequence(seqs) /\ Len(seqs) = n
      /\ \A i \in 1..n : seqs[i] = CallFields(calls[i])
  BY <1>1, CallPartsAreLists DEF AreLists, CallCount
<1>3. PICK first : first = SubSeq(calls, 1, k)
  OBVIOUS
<1>4. IsSequence(first) /\ Len(first) = k /\ DOMAIN first = 1..k /\ \A i \in 1..k : first[i] = calls[i]
  BY <1>2, <1>3, FirstOfList
<1>5. PICK trace : trace = [recorded EXCEPT !.calls = SubSeq(@, 1, k)]
  OBVIOUS
<1>6. trace.calls = first /\ trace.flags = recorded.flags
  BY <1>1, <1>3, <1>5 DEF IsRecorded, TraceOf
<1>7. CallParts(trace) = SubSeq(seqs, 1, k)
  <2>1. /\ DOMAIN CallParts(trace) = 1..k
        /\ CallParts(trace) = [i \in 1..k |-> CallParts(trace)[i]]
        /\ \A i \in 1..k : CallParts(trace)[i] = CallFields(first[i])
    BY <1>4, <1>6 DEF CallParts
  <2>2. IsSequence(CallParts(trace)) /\ Len(CallParts(trace)) = k
    BY <1>2, <2>1, FunctionIsList
  <2>3. /\ IsSequence(SubSeq(seqs, 1, k)) /\ Len(SubSeq(seqs, 1, k)) = k
        /\ \A i \in 1..k : SubSeq(seqs, 1, k)[i] = seqs[i]
    BY <1>2, FirstOfList
  <2>4. \A i \in 1..k : CallParts(trace)[i] = seqs[i]
    BY <1>2, <1>4, <2>1
  <2> QED
    BY <2>2, <2>3, <2>4, SameList
<1>8. PICK row : row = Row(seqs, k)
  OBVIOUS
<1>9. TraceFields(trace) = HeaderFields(trace) \o row
  BY <1>7, <1>8 DEF TraceFields, HeaderFields, CallParts, Row
<1>10. IsSequence(row) /\ Len(row) \in Nat
  <2>1. AreLists(seqs) /\ k \in 0..Len(seqs)
    BY <1>1, <1>2, CallPartsAreLists
  <2> QED
    BY <1>8, <2>1, RowIsList DEF IsSequence
<1>11. IsSequence(HeaderFields(trace)) /\ Len(HeaderFields(trace)) = 2
  BY DEF HeaderFields, IsSequence
<1>12. Len(TraceFields(trace)) = 2 + Len(row)
  <2>1. Follows(TraceFields(trace), HeaderFields(trace), row)
    BY <1>9, <1>10, <1>11, ConcatFollows
  <2> QED
    BY <1>11, <2>1 DEF Follows
<1> QED
  BY <1>1, <1>5, <1>8, <1>12 DEF SizeOf, CallEnd

\* The file is the beginning of what was written.
IsBeginning(trace) ==
  /\ IsSequence(file) /\ Len(file) <= Len(TraceFields(trace))
  /\ \A i \in 1..Len(file) : file[i] = TraceFields(trace)[i]

LEMMA HoldsTrace ==
  ASSUME NEW trace, IsRecorded(trace), IsBeginning(trace)
  PROVE  /\ Holds(0, HeaderFields(trace))
         /\ \A k \in 1..CallCount(trace) : Holds(CallEnd(trace, k - 1), CallFields(trace.calls[k]))
<1>1. PICK row :
        /\ Follows(TraceFields(trace), HeaderFields(trace), row)
        /\ row = FlattenSeq(CallParts(trace)) /\ Len(row) \in Nat
        /\ Len(HeaderFields(trace)) = 2
  BY FieldsOfTrace
<1>2. Holds(0, TraceFields(trace))
  <2>1. Len(file) \in Nat
    BY DEF IsBeginning, IsSequence
  <2> QED
    BY <2>1 DEF Holds, IsBeginning
<1>3. Holds(0, HeaderFields(trace)) /\ Holds(0 + Len(HeaderFields(trace)), row)
  <2>1. Len(HeaderFields(trace)) \in Nat /\ IsSequence(file)
    BY <1>1 DEF IsBeginning
  <2> QED
    BY <1>1, <1>2, <2>1, HoldsParts
<1>4. Holds(2, row)
  BY <1>1, <1>3
<1>5. ASSUME NEW k \in 1..CallCount(trace)
      PROVE  Holds(CallEnd(trace, k - 1), CallFields(trace.calls[k]))
  <2>1. /\ AreLists(CallParts(trace)) /\ k \in 1..Len(CallParts(trace))
        /\ CallParts(trace)[k] = CallFields(trace.calls[k])
    BY CallPartsAreLists
  <2>2. Holds(2 + Len(Row(CallParts(trace), k - 1)), CallParts(trace)[k])
    BY <1>1, <1>4, <2>1, HoldsRow
  <2> QED
    BY <2>1, <2>2 DEF CallEnd
<1> QED
  BY <1>3, <1>5

--------------------------------------------------------------------------------
(* The invariant.                                                            *)

\* The call that is being read, and how many fields there are before it.
Current == recorded.calls[Len(m_calls) + 1]
Before == CallEnd(recorded, Len(m_calls))

\* The file has the header, and that call up to its parameters.
HeaderIsThere == Len(file) >= 2
HeadIsThere ==
  /\ HeaderIsThere /\ Len(m_calls) < CallCount(recorded)
  /\ Before + HeadSize(Current) <= Len(file)

\* A call of what the factory constructs, and one that is being read.
IsLoadedCall(c) ==
  /\ c = CallOf(c.id, c.ret, c.params)
  /\ IsSequence(c.params) /\ LoadedParam(c.ret)
  /\ \A i \in 1..Len(c.params) : LoadedParam(c.params[i])

IsBeingRead(d) ==
  /\ d = [of |-> d.of, num_params |-> d.num_params]
  /\ IsLoadedCall(d.of) /\ d.num_params \in Nat /\ Len(d.of.params) <= d.num_params

LoadInv ==
  /\ status \in {"recording", "missing", "saved", "loading", "loaded", "aborted"}
  /\ recorded \in Traces /\ pos \in 1..Len(file) + 1
  /\ num_calls \in Nat /\ IsSequence(m_calls) /\ Len(m_calls) <= num_calls
  /\ \A k \in 1..Len(m_calls) : IsLoadedCall(m_calls[k])
  /\ \A d \in call : call = {d} /\ IsBeingRead(d) /\ Len(m_calls) < num_calls

\* The file is a beginning of what was written; nothing is read before it is loaded.
FileInv ==
  /\ IsBeginning(recorded)
  /\ status \in {"recording", "missing"} => file = <<>>
  /\ status \in {"recording", "missing", "saved"} =>
       pos = 1 /\ num_calls = 0 /\ m_calls = <<>> /\ call = {}
  /\ status = "loaded" => call = {} /\ Len(m_calls) = num_calls

\* The stream is at the next part to read, or at the end of the file before it.
PlaceInv ==
  status = "loading" =>
    /\ call = {} => pos = IF HeaderIsThere THEN Reached(Before) ELSE Len(file) + 1
    /\ \A d \in call :
         pos = IF HeadIsThere THEN Reached(Before + ParamEnd(Current, Len(d.of.params)))
               ELSE Len(file) + 1

\* What was in the file was read as it was recorded.
IsRead(d) ==
  /\ d.num_params = ParamCount(Current)
  /\ d.of.id = Current.id /\ d.of.ret = Current.ret
  /\ \A i \in 1..Len(d.of.params) :
       Before + ParamEnd(Current, i) <= Len(file) => d.of.params[i] = Current.params[i]

ContentInv ==
  status \in {"loading", "loaded", "aborted"} /\ HeaderIsThere =>
    /\ m_flags = recorded.flags /\ num_calls = CallCount(recorded)
    /\ \A k \in 1..Len(m_calls) :
         CallEnd(recorded, k) <= Len(file) => m_calls[k] = recorded.calls[k]
    /\ \A d \in call : HeadIsThere => IsRead(d)

\* Of a whole file the factory constructs all but those formats.
AbortInv ==
  status = "aborted" /\ file = TraceFields(recorded) =>
    \E k \in 1..CallCount(recorded) : recorded.calls[k].id = "clGetSupportedImageFormats"

FormatInv == LoadInv /\ FileInv /\ PlaceInv /\ ContentInv /\ AbortInv

--------------------------------------------------------------------------------
(* What the steps read.                                                      *)

LEMMA FileIsWritten ==
  ASSUME LoadInv, FileInv
  PROVE  /\ IsRecorded(recorded) /\ IsBeginning(recorded)
         /\ IsSequence(file) /\ Len(file) \in Nat
         /\ IsSequence(m_calls) /\ Len(m_calls) \in Nat
         /\ MaxGarbage \in Nat /\ Garbage \notin Nat
         /\ \A k \in 1..CallCount(recorded) : IsRecordedCall(recorded.calls[k])
<1>1. /\ IsRecorded(recorded) /\ IsBeginning(recorded) /\ IsSequence(m_calls)
      /\ MaxGarbage \in Nat /\ Garbage \notin Nat
  BY FormatAssumption DEF LoadInv, FileInv
<1>2. \A k \in 1..CallCount(recorded) : IsRecordedCall(recorded.calls[k])
  BY <1>1, CallPartsAreLists
<1> QED
  BY <1>1, <1>2 DEF IsBeginning, IsSequence

\* Past the end of what is there, the stream is at its end.
LEMMA ReachedEnd ==
  ASSUME NEW X \in Nat, Len(file) \in Nat
  PROVE  /\ Len(file) <= X => Reached(X) = Len(file) + 1
         /\ Reached(X) \in 1..Len(file) + 1
  BY DEF Reached

\* A number that is not there.
LEMMA ReadNoNumber ==
  ASSUME IsSequence(file), NEW type
  PROVE  /\ Read(Len(file) + 1, <<type>>)[1] = Garbage
         /\ After(Len(file) + 1, <<type>>) = Len(file) + 1
<1>1. IsSequence(<<type>>) /\ 1 \in 1..Len(<<type>>) /\ DOMAIN <<type>> = 1..1
  BY DEF IsSequence
<1>2. /\ After(Len(file) + 1, <<type>>) = Len(file) + 1
      /\ ~InStep(Len(file) + 1, <<type>>, 1)
  BY <1>1, ReadNothing
<1> QED
  BY <1>1, <1>2 DEF Read

LEMMA ReadHeader ==
  ASSUME IsRecorded(recorded), IsBeginning(recorded),
         NEW header, header = <<"uint32_t", "uint32_t">>
  PROVE  /\ After(1, header) = Reached(2)
         /\ Len(file) >= 2 =>
              Read(1, header)[1] = recorded.flags /\ Read(1, header)[2] = CallCount(recorded)
         /\ ~(Len(file) >= 2) => Read(1, header)[2] = Garbage
<1>1. IsSequence(file) /\ Len(file) \in Nat /\ Reached(0) = 1
  BY DEF IsBeginning, IsSequence, Reached
<1>2. Holds(0, HeaderFields(recorded))
  BY HoldsTrace
<1>3. IsSequence(header) /\ Len(header) = 2 /\ header[1] = "uint32_t" /\ header[2] = "uint32_t"
  BY DEF IsSequence
<1>4. /\ Len(HeaderFields(recorded)) = 2
      /\ HeaderFields(recorded)[1] = Field("uint32_t", recorded.flags)
      /\ HeaderFields(recorded)[2] = Field("uint32_t", CallCount(recorded))
  BY DEF HeaderFields, CallCount
<1>5. /\ 1 <= Len(file) => file[1] = Field("uint32_t", recorded.flags)
      /\ 2 <= Len(file) => file[2] = Field("uint32_t", CallCount(recorded))
  BY <1>1, <1>2, <1>4 DEF Holds
<1>6. /\ 1 <= Len(file) => file[1].type = "uint32_t" /\ file[1].val = recorded.flags
      /\ 2 <= Len(file) => file[2].type = "uint32_t" /\ file[2].val = CallCount(recorded)
  BY <1>5 DEF Field
<1>7. ASSUME NEW i \in 1..Len(header), 0 + i <= Len(file)
      PROVE  file[0 + i].type = header[i]
  <2>1. i = 1 \/ i = 2
    BY <1>3
  <2> QED
    BY <1>3, <1>6, <1>7, <2>1
<1>8. /\ After(Reached(0), header) = Reached(0 + 2)
      /\ 0 + 2 <= Len(file) => Read(Reached(0), header) = [i \in 1..2 |-> file[0 + i].val]
      /\ InStep(Reached(0), header, 2) <=> (2 = 0 \/ 0 + 2 <= Len(file))
  <2>1. /\ After(Reached(0), header) = Reached(0 + Len(header))
        /\ 0 + Len(header) <= Len(file) =>
             Read(Reached(0), header) = [i \in 1..Len(header) |-> file[0 + i].val]
        /\ InStep(Reached(0), header, Len(header)) <=>
             (Len(header) = 0 \/ 0 + Len(header) <= Len(file))
    BY <1>1, <1>3, <1>7, ReadTypes
  <2> QED
    BY <1>3, <2>1
<1>9. After(1, header) = Reached(2)
  BY <1>1, <1>8
<1>10. ASSUME Len(file) >= 2
       PROVE  Read(1, header)[1] = recorded.flags /\ Read(1, header)[2] = CallCount(recorded)
  BY <1>1, <1>6, <1>8, <1>10
<1>11. ASSUME ~(Len(file) >= 2) PROVE Read(1, header)[2] = Garbage
  <2>1. ~InStep(1, header, 2) /\ 2 \in DOMAIN header
    BY <1>1, <1>8, <1>11
  <2> QED
    BY <2>1 DEF Read
<1> QED
  BY <1>9, <1>10, <1>11

\* The head of a call that the file holds.
LEMMA ReadCall ==
  ASSUME NEW X \in Nat, IsSequence(file), NEW c, IsRecordedCall(c), Holds(X, CallFields(c)),
         MaxGarbage \in Nat, Garbage \notin Nat,
         NEW ret \in Constructed(After(Reached(X), <<"uint32_t">>)),
         NEW n \in Counts(Read(ret.next, <<"uint32_t">>)[1])
  PROVE  /\ After(ret.next, <<"uint32_t">>) = Reached(X + HeadSize(c))
         /\ LoadedParam(ret.param) /\ n \in Nat
         /\ X + HeadSize(c) <= Len(file) =>
              /\ Read(Reached(X), <<"uint32_t">>)[1] = c.id
              /\ ret.param = c.ret /\ n = ParamCount(c)
<1>1. PICK p, count, size :
        p = c.ret /\ count = ParamCount(c) /\ size = Len(ParamFields(p))
  OBVIOUS
<1>2. IsWritten(p) /\ size \in Nat /\ Len(file) \in Nat /\ count \in Nat
  <2>1. IsWritten(p)
    BY <1>1, RecordedIsWritten
  <2>2. IsSequence(ParamFields(p))
    BY <2>1, FieldsOfParam
  <2>3. count \in Nat
    BY <1>1, CallPlaces
  <2> QED
    BY <1>1, <2>1, <2>2, <2>3 DEF IsSequence
<1>3. /\ Holds(X, <<Field("uint32_t", c.id)>>)
      /\ Holds(X + 1, ParamFields(p))
      /\ X + 1 + size + 1 = X + HeadSize(c)
      /\ Holds(X + 1 + size, <<Field("uint32_t", count)>>)
  BY <1>1, HoldsCall DEF ParamCount
<1>4. X + 1 \in Nat /\ X + 1 + size \in Nat
  BY <1>2
<1>5. /\ After(Reached(X), <<"uint32_t">>) = Reached(X + 1)
      /\ X + 1 <= Len(file) => Read(Reached(X), <<"uint32_t">>)[1] = c.id
  BY <1>3, ReadOne
<1>6. /\ ret.next = Reached(X + 1 + size) /\ LoadedParam(ret.param)
      /\ X + 1 + size <= Len(file) => ret.param = p
  BY <1>1, <1>2, <1>3, <1>4, <1>5, ReadParam
<1>7. /\ After(ret.next, <<"uint32_t">>) = Reached(X + 1 + size + 1)
      /\ X + 1 + size + 1 <= Len(file) => Read(ret.next, <<"uint32_t">>)[1] = count
  BY <1>3, <1>4, <1>6, ReadOne
<1>8. CASE X + 1 + size + 1 <= Len(file)
  <2>1. n = count
    BY <1>2, <1>7, <1>8 DEF Counts
  <2>2. X + 1 <= Len(file) /\ X + 1 + size <= Len(file)
    BY <1>2, <1>8
  <2> QED
    BY <1>1, <1>2, <1>3, <1>5, <1>6, <1>7, <2>1, <2>2
<1>9. CASE ~(X + 1 + size + 1 <= Len(file))
  <2>1. ret.next = Len(file) + 1
    <3>1. Len(file) <= X + 1 + size
      BY <1>2, <1>9
    <3> QED
      BY <1>2, <1>4, <1>6, <3>1, ReachedEnd
  <2>2. n \in Nat
    <3>1. Read(ret.next, <<"uint32_t">>)[1] = Garbage
      BY <2>1, ReadNoNumber
    <3> QED
      BY <3>1 DEF Counts
  <2> QED
    BY <1>3, <1>6, <1>7, <1>9, <2>2
<1> QED
  BY <1>8, <1>9

\* One at the end of the file.
LEMMA ReadNoCall ==
  ASSUME IsSequence(file), MaxGarbage \in Nat,
         NEW ret \in Constructed(After(Len(file) + 1, <<"uint32_t">>)),
         NEW n \in Counts(Read(ret.next, <<"uint32_t">>)[1])
  PROVE  /\ After(ret.next, <<"uint32_t">>) = Len(file) + 1
         /\ LoadedParam(ret.param) /\ n \in Nat
<1>1. ret.param = Garbage /\ ret.next = Len(file) + 1
  BY ReadNoNumber, ReadNoParam
<1>2. Read(ret.next, <<"uint32_t">>)[1] = Garbage /\ After(ret.next, <<"uint32_t">>) = Len(file) + 1
  BY <1>1, ReadNoNumber
<1> QED
  BY <1>1, <1>2 DEF Counts, LoadedParam

\* The j-th parameter of a call that the file holds.
LEMMA ReadParamOf ==
  ASSUME NEW X \in Nat, IsSequence(file), NEW c, IsRecordedCall(c), Holds(X, CallFields(c)),
         MaxGarbage \in Nat, Garbage \notin Nat, NEW j \in 1..ParamCount(c)
  PROVE  /\ \A r \in Constructed(Reached(X + ParamEnd(c, j - 1))) :
              /\ r.next = Reached(X + ParamEnd(c, j)) /\ LoadedParam(r.param)
              /\ X + ParamEnd(c, j) <= Len(file) => r.param = c.params[j]
         /\ X + ParamEnd(c, j) <= Len(file) /\ MayAbort(Reached(X + ParamEnd(c, j - 1))) =>
              ~IsConstructed(c.params[j].ptype, c.params[j].ttype)
<1>1. PICK p, size, begin :
        p = c.params[j] /\ size = Len(ParamFields(p)) /\ begin = ParamEnd(c, j - 1)
  OBVIOUS
<1>2. Len(file) \in Nat /\ begin \in Nat /\ ParamEnd(c, j) = begin + size
  <2>1. ParamCount(c) \in Nat
    BY CallPlaces
  <2>2. j - 1 \in 0..ParamCount(c)
    BY <2>1
  <2>3. /\ HeadSize(c) \in Nat /\ CallSize(c) \in Nat
        /\ ParamEnd(c, j - 1) \in HeadSize(c)..CallSize(c)
        /\ ParamEnd(c, j) = ParamEnd(c, j - 1) + Len(ParamFields(c.params[j]))
    BY <2>2, CallPlaces
  <2>4. begin \in Nat
    BY <1>1, <2>3
  <2> QED
    BY <1>1, <2>3, <2>4 DEF IsSequence
<1>3. IsWritten(p)
  BY <1>1, RecordedIsWritten DEF ParamCount
<1>4. Holds(X + begin, ParamFields(p)) /\ X + begin \in Nat
  <2>1. \A i \in 1..ParamCount(c) : Holds(X + ParamEnd(c, i - 1), ParamFields(c.params[i]))
    BY HoldsCall
  <2> QED
    BY <1>1, <1>2, <2>1
<1>5. /\ size \in Nat /\ size >= 2
      /\ \A r \in Constructed(Reached(X + begin)) :
           /\ r.next = Reached(X + begin + size) /\ LoadedParam(r.param)
           /\ X + begin + size <= Len(file) => r.param = p
      /\ X + begin + 2 <= Len(file) /\ MayAbort(Reached(X + begin)) =>
           ~IsConstructed(p.ptype, p.ttype)
  BY <1>1, <1>3, <1>4, ReadParam
<1>6. X + begin + size = X + ParamEnd(c, j)
  BY <1>2, <1>5
<1>7. X + ParamEnd(c, j) <= Len(file) => X + begin + 2 <= Len(file)
  BY <1>2, <1>5
<1> QED
  BY <1>1, <1>5, <1>6, <1>7

--------------------------------------------------------------------------------
(* The steps keep the invariant.                                             *)

LEMMA CurrentCall ==
  ASSUME LoadInv, FileInv, Len(m_calls) < CallCount(recorded)
  PROVE  /\ IsRecordedCall(Current) /\ Holds(Before, CallFields(Current))
         /\ Before \in Nat /\ Before >= 2
         /\ CallEnd(recorded, Len(m_calls) + 1) = Before + CallSize(Current)
         /\ CallEnd(recorded, Len(m_calls) + 1) <= Len(TraceFields(recorded))
         /\ Len(TraceFields(recorded)) \in Nat
         /\ HeadSize(Current) \in Nat /\ CallSize(Current) \in Nat /\ HeadSize(Current) >= 4
         /\ HeadSize(Current) <= CallSize(Current)
<1>1. PICK n, k : n = CallCount(recorded) /\ k = Len(m_calls) + 1
  OBVIOUS
<1>2. Len(m_calls) \in Nat /\ n \in Nat
  BY <1>1, FileIsWritten, CallPartsAreLists
<1>3. k \in 1..n /\ k - 1 = Len(m_calls) /\ k \in 0..n /\ k - 1 \in 0..n
  BY <1>1, <1>2
<1>4. IsRecordedCall(Current)
  BY <1>1, <1>3, FileIsWritten DEF Current
<1>5. Holds(Before, CallFields(Current))
  BY <1>1, <1>3, FileIsWritten, HoldsTrace DEF Before, Current
<1>6. PICK size : size = Len(TraceFields(recorded))
  OBVIOUS
<1>7. /\ size \in Nat /\ Before \in 2..size
      /\ CallEnd(recorded, k) \in 2..size
      /\ CallEnd(recorded, k) = Before + CallSize(Current)
  BY <1>1, <1>3, <1>6, FileIsWritten, TracePlaces DEF Before, Current
<1>8. PICK c, count : c = Current /\ count = ParamCount(c)
  OBVIOUS
<1>9. /\ count \in Nat /\ HeadSize(c) \in Nat /\ CallSize(c) \in Nat /\ HeadSize(c) >= 4
      /\ \A j \in 0..count : ParamEnd(c, j) \in HeadSize(c)..CallSize(c)
  BY <1>4, <1>8, CallPlaces
<1>10. HeadSize(c) <= CallSize(c)
  <2>1. 0 \in 0..count
    BY <1>9
  <2> QED
    BY <1>9, <2>1
<1> QED
  BY <1>1, <1>4, <1>5, <1>6, <1>7, <1>8, <1>9, <1>10

LEMMA InitInv == Init => FormatInv
<1> SUFFICES ASSUME Init PROVE FormatInv
  OBVIOUS
<1>1. IsSequence(<<>>) /\ Len(<<>>) = 0
  BY DEF IsSequence
<1>2. IsRecorded(recorded)
  BY FormatAssumption DEF Init
<1>3. Len(TraceFields(recorded)) \in Nat
  BY <1>2, TracePlaces
<1>4. LoadInv
  BY <1>1 DEF Init, LoadInv
<1>5. FileInv
  BY <1>1, <1>3 DEF Init, FileInv, IsBeginning
<1>6. PlaceInv /\ ContentInv /\ AbortInv
  BY DEF Init, PlaceInv, ContentInv, AbortInv
<1> QED
  BY <1>4, <1>5, <1>6 DEF FormatInv

\* Steps before anything is read.
LEMMA SaveInv == FormatInv /\ Save => FormatInv'
<1> SUFFICES ASSUME FormatInv, Save PROVE FormatInv'
  OBVIOUS
<1>1. LoadInv /\ FileInv
  BY DEF FormatInv
<1>2. PICK fields, size : fields = TraceFields(recorded) /\ size = Len(fields)
  OBVIOUS
<1>3. IsSequence(fields) /\ size \in Nat
  BY <1>1, <1>2, FileIsWritten, TracePlaces
<1>4. PICK n \in 0..size : file' = SubSeq(fields, 1, n)
  BY <1>2 DEF Save
<1>5. IsSequence(file') /\ Len(file') = n /\ \A i \in 1..n : file'[i] = fields[i]
  BY <1>2, <1>3, <1>4, FirstOfList
<1>6. LoadInv'
  <2>1. 1 \in 1..Len(file') + 1
    BY <1>3, <1>5
  <2>2. pos = 1
    BY <1>1 DEF FileInv, Save
  <2> QED
    BY <1>1, <2>1, <2>2 DEF LoadInv, Save, IsBeingRead, IsLoadedCall, LoadedParam
<1>7. FileInv'
  <2>1. IsBeginning(recorded)'
    BY <1>2, <1>3, <1>5 DEF IsBeginning, Save
  <2> QED
    BY <1>1, <2>1 DEF FileInv, Save
<1>8. PlaceInv' /\ ContentInv' /\ AbortInv'
  BY DEF Save, PlaceInv, ContentInv, AbortInv
<1> QED
  BY <1>6, <1>7, <1>8 DEF FormatInv

LEMMA NoFileInv == FormatInv /\ (NoFile \/ LoadMissing) => FormatInv'
<1> SUFFICES ASSUME FormatInv, NoFile \/ LoadMissing PROVE FormatInv'
  OBVIOUS
<1>1. LoadInv /\ FileInv /\ UNCHANGED <<recorded, file, pos, m_flags, num_calls, m_calls, call>>
      /\ status \in {"recording", "missing"} /\ status' \in {"missing", "loaded"}
  BY DEF FormatInv, NoFile, LoadMissing
<1>2. LoadInv'
  BY <1>1 DEF LoadInv, IsBeingRead, IsLoadedCall, LoadedParam
<1>3. file = <<>> /\ call = {} /\ m_calls = <<>> /\ num_calls = 0
  BY <1>1 DEF FileInv
<1>4. FileInv'
  BY <1>1, <1>3 DEF FileInv, IsBeginning
<1>5. PlaceInv' /\ ContentInv' /\ AbortInv'
  BY <1>1, <1>3 DEF PlaceInv, ContentInv, AbortInv, HeaderIsThere
<1> QED
  BY <1>2, <1>4, <1>5 DEF FormatInv

LEMMA LoadHeaderInv == FormatInv /\ LoadHeader => FormatInv'
<1> SUFFICES ASSUME FormatInv, LoadHeader PROVE FormatInv'
  OBVIOUS
<1>1. /\ LoadInv /\ FileInv
      /\ status = "saved" /\ status' = "loading" /\ pos = 1
      /\ UNCHANGED <<recorded, file, m_calls, call>>
      /\ m_calls = <<>> /\ call = {}
  BY DEF FormatInv, FileInv, LoadHeader
<1>2. PICK header : header = <<"uint32_t", "uint32_t">>
  OBVIOUS
<1>3. /\ m_flags' = Read(1, header)[1] /\ num_calls' \in Counts(Read(1, header)[2])
      /\ pos' = After(1, header)
  BY <1>1, <1>2 DEF LoadHeader
<1>4. /\ After(1, header) = Reached(2)
      /\ Len(file) >= 2 =>
           Read(1, header)[1] = recorded.flags /\ Read(1, header)[2] = CallCount(recorded)
      /\ ~(Len(file) >= 2) => Read(1, header)[2] = Garbage
  BY <1>1, <1>2, FileIsWritten, ReadHeader
<1>5. /\ Len(file) \in Nat /\ MaxGarbage \in Nat /\ Garbage \notin Nat
      /\ CallCount(recorded) \in Nat /\ CallEnd(recorded, 0) = 2
  BY <1>1, FileIsWritten, CallPartsAreLists, TracePlaces
<1>6. num_calls' \in Nat /\ (Len(file) >= 2 => num_calls' = CallCount(recorded))
  BY <1>3, <1>4, <1>5 DEF Counts
<1>7. pos' = Reached(2) /\ pos' \in 1..Len(file) + 1 /\ (~(Len(file) >= 2) => pos' = Len(file) + 1)
  BY <1>3, <1>4, <1>5 DEF Reached
<1>8. Len(<<>>) = 0
  OBVIOUS
<1>9. LoadInv'
  BY <1>1, <1>6, <1>7, <1>8 DEF LoadInv
<1>10. FileInv'
  BY <1>1 DEF FileInv, IsBeginning
<1>11. PlaceInv'
  <2>1. call' = {} /\ (HeaderIsThere' <=> Len(file) >= 2) /\ Before' = 2
    BY <1>1, <1>5, <1>8 DEF HeaderIsThere, Before
  <2>2. Reached(2)' = Reached(2)
    BY <1>1 DEF Reached
  <2> QED
    BY <1>1, <1>7, <2>1, <2>2 DEF PlaceInv, Reached
<1>12. ContentInv'
  BY <1>1, <1>3, <1>4, <1>6, <1>8 DEF ContentInv, HeaderIsThere
<1>13. AbortInv'
  BY <1>1 DEF AbortInv
<1> QED
  BY <1>9, <1>10, <1>11, <1>12, <1>13 DEF FormatInv

LEMMA LoadCallInv == FormatInv /\ LoadCall => FormatInv'
<1> SUFFICES ASSUME FormatInv, LoadCall PROVE FormatInv'
  OBVIOUS
<1>1. /\ LoadInv /\ FileInv /\ PlaceInv /\ ContentInv
      /\ status = "loading" /\ call = {} /\ Len(m_calls) < num_calls
      /\ UNCHANGED <<status, recorded, file, m_flags, num_calls, m_calls>>
  BY DEF FormatInv, LoadCall, MoreCalls
<1>2. PICK ret \in Constructed(After(pos, <<"uint32_t">>)) :
         \E n \in Counts(Read(ret.next, <<"uint32_t">>)[1]) :
           /\ call' = {[of |-> CallOf(Read(pos, <<"uint32_t">>)[1], ret.param, <<>>),
                        num_params |-> n]}
           /\ pos' = After(ret.next, <<"uint32_t">>)
  BY DEF LoadCall
<1>3. PICK n \in Counts(Read(ret.next, <<"uint32_t">>)[1]) :
        /\ call' = {[of |-> CallOf(Read(pos, <<"uint32_t">>)[1], ret.param, <<>>),
                     num_params |-> n]}
        /\ pos' = After(ret.next, <<"uint32_t">>)
  BY <1>2
<1>4. PICK id, d : id = Read(pos, <<"uint32_t">>)[1]
                   /\ d = [of |-> CallOf(id, ret.param, <<>>), num_params |-> n]
  OBVIOUS
<1>5. /\ call' = {d} /\ d.num_params = n /\ d.of = CallOf(id, ret.param, <<>>)
      /\ d.of.id = id /\ d.of.ret = ret.param /\ d.of.params = <<>>
      /\ d = [of |-> d.of, num_params |-> d.num_params]
  BY <1>3, <1>4 DEF CallOf
<1>6. /\ IsRecorded(recorded) /\ IsSequence(file) /\ Len(file) \in Nat
      /\ MaxGarbage \in Nat /\ Garbage \notin Nat
  BY <1>1, FileIsWritten
<1>7. /\ LoadedParam(ret.param) /\ n \in Nat /\ pos' \in 1..Len(file) + 1
      /\ ~HeadIsThere => pos' = Len(file) + 1
      /\ HeadIsThere =>
           /\ pos' = Reached(Before + HeadSize(Current))
           /\ id = Current.id /\ ret.param = Current.ret /\ n = ParamCount(Current)
  <2>1. CASE HeaderIsThere
    <3>1. Len(m_calls) < CallCount(recorded) /\ pos = Reached(Before)
      BY <1>1, <2>1 DEF PlaceInv, ContentInv
    <3>2. PICK c, X : c = Current /\ X = Before
      OBVIOUS
    <3>3. IsRecordedCall(c) /\ Holds(X, CallFields(c)) /\ X \in Nat /\ HeadSize(c) \in Nat
      BY <1>1, <3>1, <3>2, CurrentCall
    <3>4. /\ pos' = Reached(X + HeadSize(c))
          /\ LoadedParam(ret.param) /\ n \in Nat
          /\ X + HeadSize(c) <= Len(file) =>
               id = c.id /\ ret.param = c.ret /\ n = ParamCount(c)
      BY <1>3, <1>4, <1>6, <3>1, <3>2, <3>3, ReadCall
    <3>5. HeadIsThere <=> X + HeadSize(c) <= Len(file)
      BY <2>1, <3>1, <3>2 DEF HeadIsThere
    <3>6. /\ X + HeadSize(c) \in Nat /\ Reached(X + HeadSize(c)) \in 1..Len(file) + 1
          /\ ~HeadIsThere => Reached(X + HeadSize(c)) = Len(file) + 1
      <4>1. PICK Y : Y = X + HeadSize(c)
        OBVIOUS
      <4>2. Y \in Nat
        BY <3>3, <4>1
      <4>3. ~HeadIsThere => Len(file) <= Y
        BY <1>6, <3>5, <4>1, <4>2
      <4> QED
        BY <1>6, <4>1, <4>2, <4>3, ReachedEnd
    <3> QED
      BY <3>2, <3>4, <3>5, <3>6
  <2>2. CASE ~HeaderIsThere
    <3>1. pos = Len(file) + 1
      BY <1>1, <2>2 DEF PlaceInv
    <3>2. pos' = Len(file) + 1 /\ LoadedParam(ret.param) /\ n \in Nat
      BY <1>3, <1>6, <3>1, ReadNoCall
    <3> QED
      BY <1>6, <2>2, <3>2 DEF HeadIsThere
  <2> QED
    BY <2>1, <2>2
<1>8. Len(<<>>) = 0 /\ IsSequence(<<>>)
  BY DEF IsSequence
<1>9. LoadInv'
  <2>1. IsBeingRead(d)
    BY <1>5, <1>7, <1>8 DEF IsBeingRead, IsLoadedCall
  <2>2. IsBeingRead(d)'
    BY <2>1 DEF IsBeingRead, IsLoadedCall, LoadedParam
  <2> QED
    BY <1>1, <1>5, <1>7, <2>2 DEF LoadInv, IsLoadedCall, LoadedParam
<1>10. FileInv'
  BY <1>1 DEF FileInv, IsBeginning
<1>11. Current' = Current /\ Before' = Before /\ (HeadIsThere' <=> HeadIsThere)
       /\ (HeaderIsThere' <=> HeaderIsThere)
  BY <1>1 DEF Current, Before, HeadIsThere, HeaderIsThere
<1>12. PlaceInv'
  <2>1. call' # {} /\ \A e \in call' : Len(e.of.params) = 0
    BY <1>5, <1>8
  <2>2. HeadIsThere => ParamEnd(Current, 0) = HeadSize(Current)
    BY <1>1, CurrentCall, CallPlaces DEF HeadIsThere
  <2>3. PICK Y : Y = Before + HeadSize(Current)
    OBVIOUS
  <2>4. Reached(Y)' = Reached(Y)
    BY <1>1 DEF Reached
  <2> QED
    BY <1>1, <1>7, <1>11, <2>1, <2>2, <2>3, <2>4 DEF PlaceInv
<1>13. ContentInv'
  <2>1. HeadIsThere => IsRead(d)'
    BY <1>5, <1>7, <1>8, <1>11 DEF IsRead
  <2> QED
    BY <1>1, <1>5, <1>11, <2>1 DEF ContentInv
<1>14. AbortInv'
  BY <1>1 DEF AbortInv
<1> QED
  BY <1>9, <1>10, <1>12, <1>13, <1>14 DEF FormatInv

LEMMA LoadParamInv == FormatInv /\ LoadParam => FormatInv'
<1> SUFFICES ASSUME FormatInv, LoadParam PROVE FormatInv'
  OBVIOUS
<1>1. /\ LoadInv /\ FileInv /\ PlaceInv /\ ContentInv
      /\ status = "loading"
      /\ UNCHANGED <<status, recorded, file, m_flags, num_calls, m_calls>>
  BY DEF FormatInv, LoadParam
<1>2. PICK d \in call, p \in Constructed(pos) :
        /\ Len(d.of.params) < d.num_params
        /\ call' = {[d EXCEPT !.of.params = Append(@, p.param)]}
        /\ pos' = p.next
  BY DEF LoadParam
<1>3. /\ call = {d} /\ Len(m_calls) < num_calls
      /\ d = [of |-> d.of, num_params |-> d.num_params]
      /\ d.of = CallOf(d.of.id, d.of.ret, d.of.params)
      /\ IsSequence(d.of.params) /\ LoadedParam(d.of.ret)
      /\ \A i \in 1..Len(d.of.params) : LoadedParam(d.of.params[i])
      /\ d.num_params \in Nat
  BY <1>1, <1>2 DEF LoadInv, IsBeingRead, IsLoadedCall
<1>4. PICK e, params, more, j, n :
        /\ e = [d EXCEPT !.of.params = Append(@, p.param)]
        /\ params = d.of.params /\ more = Append(params, p.param)
        /\ j = Len(params) + 1 /\ n = d.num_params
  OBVIOUS
<1>5. /\ call' = {e} /\ e.num_params = n
      /\ e.of = CallOf(d.of.id, d.of.ret, more)
      /\ e.of.id = d.of.id /\ e.of.ret = d.of.ret /\ e.of.params = more
      /\ e = [of |-> e.of, num_params |-> e.num_params]
  BY <1>2, <1>3, <1>4 DEF CallOf
<1>6. /\ IsSequence(params) /\ Len(params) \in Nat /\ n \in Nat
      /\ j \in Nat /\ j - 1 = Len(params) /\ j \in 1..n
  <2>1. IsSequence(params) /\ Len(params) \in Nat
    BY <1>3, <1>4 DEF IsSequence
  <2>2. n \in Nat /\ Len(params) < n
    BY <1>2, <1>3, <1>4
  <2> QED
    BY <1>4, <2>1, <2>2
<1>7. /\ IsSequence(more) /\ Len(more) = j /\ more[j] = p.param
      /\ \A i \in 1..j - 1 : more[i] = params[i]
  BY <1>4, <1>6, AppendedList
<1>8. /\ IsRecorded(recorded) /\ IsSequence(file) /\ Len(file) \in Nat
      /\ MaxGarbage \in Nat /\ Garbage \notin Nat
  BY <1>1, FileIsWritten
<1>9. HeadIsThere =>
        /\ IsRecordedCall(Current) /\ Holds(Before, CallFields(Current)) /\ Before \in Nat
        /\ n = ParamCount(Current) /\ pos = Reached(Before + ParamEnd(Current, j - 1))
        /\ \A i \in 1..j - 1 :
             Before + ParamEnd(Current, i) <= Len(file) => params[i] = Current.params[i]
        /\ d.of.id = Current.id /\ d.of.ret = Current.ret
  <2> SUFFICES ASSUME HeadIsThere
               PROVE  /\ IsRecordedCall(Current) /\ Holds(Before, CallFields(Current))
                      /\ Before \in Nat /\ IsRead(d)
                      /\ pos = Reached(Before + ParamEnd(Current, Len(d.of.params)))
    BY <1>4, <1>6 DEF IsRead
  <2>1. HeaderIsThere /\ Len(m_calls) < CallCount(recorded)
    BY DEF HeadIsThere
  <2>2. IsRead(d)
    BY <1>1, <1>2, <2>1 DEF ContentInv
  <2>3. pos = Reached(Before + ParamEnd(Current, Len(d.of.params)))
    BY <1>1, <1>2 DEF PlaceInv
  <2> QED
    BY <1>1, <2>1, <2>2, <2>3, CurrentCall
<1>10. /\ LoadedParam(p.param) /\ pos' \in 1..Len(file) + 1
       /\ ~HeadIsThere => pos' = Len(file) + 1
       /\ HeadIsThere =>
            /\ pos' = Reached(Before + ParamEnd(Current, j))
            /\ Before + ParamEnd(Current, j) <= Len(file) => p.param = Current.params[j]
  <2>1. CASE HeadIsThere
    <3>1. PICK c, X : c = Current /\ X = Before
      OBVIOUS
    <3>2. /\ IsRecordedCall(c) /\ Holds(X, CallFields(c)) /\ X \in Nat /\ j \in 1..ParamCount(c)
          /\ p \in Constructed(Reached(X + ParamEnd(c, j - 1)))
      BY <1>6, <1>9, <2>1, <3>1
    <3>3. /\ p.next = Reached(X + ParamEnd(c, j)) /\ LoadedParam(p.param)
          /\ X + ParamEnd(c, j) <= Len(file) => p.param = c.params[j]
      BY <1>8, <3>2, ReadParamOf
    <3>4. Reached(X + ParamEnd(c, j)) \in 1..Len(file) + 1
      <4>1. PICK m, Y : m = ParamCount(c) /\ Y = X + ParamEnd(c, j)
        OBVIOUS
      <4>2. /\ m \in Nat /\ HeadSize(c) \in Nat /\ CallSize(c) \in Nat
            /\ \A i \in 0..m : ParamEnd(c, i) \in HeadSize(c)..CallSize(c)
        BY <3>2, <4>1, CallPlaces
      <4>3. j \in 0..m
        BY <3>2, <4>1, <4>2
      <4>4. Y \in Nat
        BY <3>2, <4>1, <4>2, <4>3
      <4> QED
        BY <1>8, <4>1, <4>4, ReachedEnd
    <3> QED
      BY <1>2, <2>1, <3>1, <3>3, <3>4
  <2>2. CASE ~HeadIsThere
    <3>1. pos = Len(file) + 1
      BY <1>1, <1>2, <2>2 DEF PlaceInv
    <3>2. p.param = Garbage /\ p.next = Len(file) + 1
      BY <1>8, <3>1, ReadNoParam
    <3> QED
      BY <1>2, <1>8, <2>2, <3>2 DEF LoadedParam
  <2> QED
    BY <2>1, <2>2
<1>11. LoadInv'
  <2>1. ASSUME NEW i \in 1..Len(more) PROVE LoadedParam(more[i])
    <3>1. i = j \/ i \in 1..j - 1
      BY <1>6, <1>7
    <3> QED
      BY <1>3, <1>4, <1>6, <1>7, <1>10, <3>1
  <2>2. IsBeingRead(e)
    <3>1. Len(more) <= n
      BY <1>6, <1>7
    <3> QED
      BY <1>3, <1>5, <1>6, <1>7, <2>1, <3>1 DEF IsBeingRead, IsLoadedCall
  <2>3. IsBeingRead(e)'
    BY <2>2 DEF IsBeingRead, IsLoadedCall, LoadedParam
  <2> QED
    BY <1>1, <1>3, <1>5, <1>10, <2>3 DEF LoadInv, IsLoadedCall, LoadedParam
<1>12. FileInv'
  BY <1>1 DEF FileInv, IsBeginning
<1>13. Current' = Current /\ Before' = Before /\ (HeadIsThere' <=> HeadIsThere)
       /\ (HeaderIsThere' <=> HeaderIsThere)
  BY <1>1 DEF Current, Before, HeadIsThere, HeaderIsThere
<1>14. PlaceInv'
  <2>1. call' # {} /\ \A f \in call' : Len(f.of.params) = j
    BY <1>5, <1>7
  <2>2. PICK Y : Y = Before + ParamEnd(Current, j)
    OBVIOUS
  <2>3. Reached(Y)' = Reached(Y)
    BY <1>1 DEF Reached
  <2> QED
    BY <1>1, <1>10, <1>13, <2>1, <2>2, <2>3 DEF PlaceInv
<1>15. ContentInv'
  <2>1. ASSUME HeadIsThere PROVE IsRead(e)'
    <3>1. ASSUME NEW i \in 1..j, Before + ParamEnd(Current, i) <= Len(file)
          PROVE  more[i] = Current.params[i]
      <4>1. i = j \/ i \in 1..j - 1
        BY <1>6
      <4> QED
        BY <1>7, <1>9, <1>10, <2>1, <3>1, <4>1
    <3> QED
      BY <1>1, <1>5, <1>7, <1>9, <1>13, <2>1, <3>1 DEF IsRead
  <2> QED
    BY <1>1, <1>5, <1>13, <2>1 DEF ContentInv
<1>16. AbortInv'
  BY <1>1 DEF AbortInv
<1> QED
  BY <1>11, <1>12, <1>14, <1>15, <1>16 DEF FormatInv

LEMMA FinishCallInv == FormatInv /\ FinishCall => FormatInv'
<1> SUFFICES ASSUME FormatInv, FinishCall PROVE FormatInv'
  OBVIOUS
<1>1. /\ LoadInv /\ FileInv /\ PlaceInv /\ ContentInv
      /\ status = "loading" /\ call' = {}
      /\ UNCHANGED <<status, recorded, file, pos, m_flags, num_calls>>
  BY DEF FormatInv, FinishCall
<1>2. PICK d \in call : Len(d.of.params) = d.num_params /\ m_calls' = Append(m_calls, d.of)
  BY DEF FinishCall
<1>3. PICK k, c, X : k = Len(m_calls) + 1 /\ c = Current /\ X = Before
  OBVIOUS
<1>4. /\ call = {d} /\ Len(m_calls) < num_calls /\ IsLoadedCall(d.of) /\ num_calls \in Nat
      /\ d.of = CallOf(d.of.id, d.of.ret, d.of.params) /\ IsSequence(d.of.params)
      /\ \A i \in 1..Len(m_calls) : IsLoadedCall(m_calls[i])
  BY <1>1, <1>2 DEF LoadInv, IsBeingRead, IsLoadedCall
<1>5. /\ IsRecorded(recorded) /\ IsSequence(file) /\ Len(file) \in Nat
      /\ IsSequence(m_calls) /\ Len(m_calls) \in Nat
  BY <1>1, FileIsWritten
<1>6. /\ IsSequence(m_calls') /\ Len(m_calls') = k /\ m_calls'[k] = d.of
      /\ \A i \in 1..k - 1 : m_calls'[i] = m_calls[i]
      /\ k \in Nat /\ k - 1 = Len(m_calls)
  <2>1. k \in Nat /\ k - 1 = Len(m_calls)
    BY <1>3, <1>5
  <2> QED
    BY <1>2, <1>3, <1>5, <2>1, AppendedList
<1>7. LoadInv'
  <2>1. ASSUME NEW i \in 1..k PROVE IsLoadedCall(m_calls'[i])
    <3>1. i = k \/ i \in 1..k - 1
      BY <1>6
    <3> QED
      BY <1>4, <1>6, <3>1
  <2>2. \A i \in 1..Len(m_calls') : IsLoadedCall(m_calls[i])'
    BY <1>6, <2>1 DEF IsLoadedCall, LoadedParam
  <2>3. Len(m_calls') <= num_calls
    BY <1>4, <1>5, <1>6
  <2> QED
    BY <1>1, <1>6, <2>2, <2>3 DEF LoadInv
<1>8. FileInv'
  BY <1>1 DEF FileInv, IsBeginning
<1>9. HeaderIsThere' <=> HeaderIsThere
  BY <1>1 DEF HeaderIsThere
<1>10. HeaderIsThere =>
         /\ Len(m_calls) < CallCount(recorded) /\ IsRecordedCall(c) /\ X \in Nat
         /\ CallEnd(recorded, k) = X + CallSize(c)
         /\ HeadSize(c) \in Nat /\ CallSize(c) \in Nat /\ HeadSize(c) <= CallSize(c)
         /\ HeadIsThere <=> X + HeadSize(c) <= Len(file)
  <2> SUFFICES ASSUME HeaderIsThere
               PROVE  /\ Len(m_calls) < CallCount(recorded) /\ IsRecordedCall(c) /\ X \in Nat
                      /\ CallEnd(recorded, k) = X + CallSize(c)
                      /\ HeadSize(c) \in Nat /\ CallSize(c) \in Nat /\ HeadSize(c) <= CallSize(c)
                      /\ HeadIsThere <=> X + HeadSize(c) <= Len(file)
    OBVIOUS
  <2>1. Len(m_calls) < CallCount(recorded)
    BY <1>1, <1>4 DEF ContentInv
  <2> QED
    BY <1>1, <1>3, <2>1, CurrentCall DEF HeadIsThere
<1>11. ASSUME HeaderIsThere PROVE pos = Reached(X + CallSize(c))
  <2>1. CASE HeadIsThere
    <3>1. pos = Reached(X + ParamEnd(c, Len(d.of.params))) /\ Len(d.of.params) = ParamCount(c)
      BY <1>1, <1>2, <1>3, <1>11, <2>1 DEF PlaceInv, ContentInv, IsRead
    <3>2. ParamEnd(c, ParamCount(c)) = CallSize(c)
      BY <1>10, <1>11, CallPlaces
    <3> QED
      BY <3>1, <3>2
  <2>2. CASE ~HeadIsThere
    <3>1. pos = Len(file) + 1
      BY <1>1, <1>2, <2>2 DEF PlaceInv
    <3>2. PICK Y : Y = X + CallSize(c)
      OBVIOUS
    <3>3. Y \in Nat /\ Len(file) <= Y
      BY <1>5, <1>10, <1>11, <2>2, <3>2
    <3> QED
      BY <1>5, <3>1, <3>2, <3>3, ReachedEnd
  <2> QED
    BY <2>1, <2>2
<1>12. PlaceInv'
  <2>1. Before' = CallEnd(recorded, k)
    BY <1>1, <1>6 DEF Before
  <2>2. HeaderIsThere => Reached(CallEnd(recorded, k))' = Reached(CallEnd(recorded, k))
    BY <1>1 DEF Reached
  <2>3. ~HeaderIsThere => pos = Len(file) + 1
    BY <1>1, <1>2 DEF PlaceInv, HeadIsThere
  <2>4. PICK Y : Y = CallEnd(recorded, k)
    OBVIOUS
  <2>5. Reached(Y)' = Reached(Y)
    BY <1>1 DEF Reached
  <2> QED
    BY <1>1, <1>9, <1>10, <1>11, <2>1, <2>3, <2>4, <2>5 DEF PlaceInv
<1>13. ASSUME HeaderIsThere, CallEnd(recorded, k) <= Len(file) PROVE d.of = recorded.calls[k]
  <2>1. c = recorded.calls[k]
    BY <1>3 DEF Current
  <2>2. HeadIsThere
    BY <1>5, <1>10, <1>13
  <2>3. IsRead(d)
    BY <1>1, <1>2, <1>13, <2>2 DEF ContentInv
  <2>4. PICK m : m = ParamCount(c)
    OBVIOUS
  <2>5. /\ d.of.id = c.id /\ d.of.ret = c.ret /\ Len(d.of.params) = m
        /\ \A i \in 1..m : X + ParamEnd(c, i) <= Len(file) => d.of.params[i] = c.params[i]
    BY <1>2, <1>3, <2>3, <2>4 DEF IsRead
  <2>6. m \in Nat /\ \A i \in 0..m : ParamEnd(c, i) \in HeadSize(c)..CallSize(c)
    BY <1>10, <1>13, <2>4, CallPlaces
  <2>7. ASSUME NEW i \in 1..m PROVE d.of.params[i] = c.params[i]
    <3>1. i \in 0..m
      BY <2>6
    <3>2. X + ParamEnd(c, i) <= Len(file)
      BY <1>5, <1>10, <1>13, <2>6, <3>1
    <3> QED
      BY <2>5, <3>2
  <2>8. IsSequence(c.params) /\ Len(c.params) = m /\ c = CallOf(c.id, c.ret, c.params)
    BY <1>10, <1>13, <2>4 DEF IsRecordedCall, ParamCount
  <2>9. d.of.params = c.params
    BY <1>4, <2>5, <2>7, <2>8, SameList
  <2> QED
    BY <1>4, <2>1, <2>5, <2>8, <2>9
<1>14. ContentInv'
  <2>1. ASSUME HeaderIsThere, NEW i \in 1..k, CallEnd(recorded, i) <= Len(file)
        PROVE  m_calls'[i] = recorded.calls[i]
    <3>1. i = k \/ i \in 1..k - 1
      BY <1>6
    <3>2. CASE i = k
      BY <1>6, <1>13, <2>1, <3>2
    <3>3. CASE i \in 1..k - 1
      BY <1>1, <1>6, <2>1, <3>3 DEF ContentInv
    <3> QED
      BY <3>1, <3>2, <3>3
  <2>2. HeaderIsThere => m_flags = recorded.flags /\ num_calls = CallCount(recorded)
    BY <1>1 DEF ContentInv
  <2> QED
    BY <1>1, <1>6, <1>9, <2>1, <2>2 DEF ContentInv
<1>15. AbortInv'
  BY <1>1 DEF AbortInv
<1> QED
  BY <1>7, <1>8, <1>12, <1>14, <1>15 DEF FormatInv

LEMMA AbortLoadInv == FormatInv /\ AbortLoad => FormatInv'
<1> SUFFICES ASSUME FormatInv, AbortLoad PROVE FormatInv'
  OBVIOUS
<1>1. /\ LoadInv /\ FileInv /\ PlaceInv /\ ContentInv
      /\ status = "loading" /\ status' = "aborted"
      /\ UNCHANGED <<recorded, file, pos, m_flags, num_calls, m_calls, call>>
  BY DEF FormatInv, AbortLoad
<1>2. LoadInv'
  BY <1>1 DEF LoadInv, IsBeingRead, IsLoadedCall, LoadedParam
<1>3. FileInv'
  BY <1>1 DEF FileInv, IsBeginning
<1>4. PlaceInv'
  BY <1>1 DEF PlaceInv
<1>5. ContentInv'
  BY <1>1 DEF ContentInv, HeaderIsThere, HeadIsThere, IsRead, Current, Before
<1>6. ASSUME file = TraceFields(recorded)
      PROVE  \E k \in 1..CallCount(recorded) : recorded.calls[k].id = "clGetSupportedImageFormats"
  <2>1. /\ IsRecorded(recorded) /\ IsSequence(file) /\ Len(file) \in Nat
        /\ MaxGarbage \in Nat /\ Garbage \notin Nat /\ Len(m_calls) \in Nat
        /\ CallCount(recorded) \in Nat
    BY <1>1, FileIsWritten, CallPartsAreLists
  <2>2. HeaderIsThere
    <3>1. PICK size : size = Len(TraceFields(recorded))
      OBVIOUS
    <3>2. CallEnd(recorded, 0) \in 2..size /\ size \in Nat
      <4>1. 0 \in 0..CallCount(recorded)
        BY <2>1
      <4> QED
        BY <2>1, <3>1, <4>1, TracePlaces
    <3> QED
      BY <1>6, <3>1, <3>2 DEF HeaderIsThere
  <2>3. Len(m_calls) < CallCount(recorded)
    <3>1. Len(m_calls) < num_calls
      BY <1>1 DEF AbortLoad, MoreCalls, LoadInv
    <3> QED
      BY <1>1, <2>2, <3>1 DEF ContentInv
  <2>4. PICK c, X : c = Current /\ X = Before
    OBVIOUS
  <2>5. /\ IsRecordedCall(c) /\ Holds(X, CallFields(c)) /\ X \in Nat
        /\ HeadSize(c) \in Nat /\ CallSize(c) \in Nat /\ HeadSize(c) <= CallSize(c)
        /\ X + CallSize(c) <= Len(file)
    BY <1>1, <1>6, <2>3, <2>4, CurrentCall
  <2>6. HeadIsThere
    BY <2>1, <2>2, <2>3, <2>4, <2>5 DEF HeadIsThere
  <2>7. CASE call = {} /\ MayAbort(After(pos, <<"uint32_t">>))
    <3>1. pos = Reached(X)
      BY <1>1, <2>2, <2>4, <2>7 DEF PlaceInv
    <3>2. PICK p, size : p = c.ret /\ size = Len(ParamFields(p))
      OBVIOUS
    <3>3. /\ Holds(X, <<Field("uint32_t", c.id)>>) /\ Holds(X + 1, ParamFields(p))
          /\ X + 1 + size + 1 = X + HeadSize(c) /\ IsWritten(p)
      BY <2>1, <2>5, <3>2, HoldsCall, RecordedIsWritten
    <3>4. After(pos, <<"uint32_t">>) = Reached(X + 1)
      BY <2>1, <2>5, <3>1, <3>3, ReadOne
    <3>5. /\ size \in Nat /\ size >= 2
          /\ X + 1 + 2 <= Len(file) /\ MayAbort(Reached(X + 1)) => ~IsConstructed(p.ptype, p.ttype)
      <4>1. X + 1 \in Nat
        BY <2>5
      <4> QED
        BY <2>1, <3>2, <3>3, <4>1, ReadParam
    <3>6. X + 1 + 2 <= Len(file)
      BY <2>1, <2>5, <3>3, <3>5
    <3>7. ~IsConstructed(p.ptype, p.ttype)
      BY <2>7, <3>4, <3>5, <3>6
    <3>8. c.id = "clGetSupportedImageFormats"
      BY <2>5, <3>2, <3>7, RecordedIsWritten
    <3>9. Len(m_calls) + 1 \in 1..CallCount(recorded)
      BY <2>1, <2>3
    <3> QED
      BY <2>4, <3>8, <3>9 DEF Current
  <2>8. CASE \E d \in call : Len(d.of.params) < d.num_params /\ MayAbort(pos)
    <3>1. PICK d \in call : Len(d.of.params) < d.num_params /\ MayAbort(pos)
      BY <2>8
    <3>2. PICK j, m : j = Len(d.of.params) + 1 /\ m = ParamCount(c)
      OBVIOUS
    <3>3. d.num_params = m /\ pos = Reached(X + ParamEnd(c, Len(d.of.params)))
      BY <1>1, <2>2, <2>4, <2>6, <3>1, <3>2 DEF ContentInv, PlaceInv, IsRead
    <3>4. m \in Nat /\ \A i \in 0..m : ParamEnd(c, i) \in HeadSize(c)..CallSize(c)
      BY <2>5, <3>2, CallPlaces
    <3>5. Len(d.of.params) \in Nat
      BY <1>1 DEF LoadInv, IsBeingRead, IsLoadedCall, IsSequence
    <3>6. j \in 1..m /\ j \in 0..m /\ j - 1 = Len(d.of.params)
      BY <3>1, <3>2, <3>3, <3>4, <3>5
    <3>7. X + ParamEnd(c, j) <= Len(file)
      BY <2>1, <2>5, <3>4, <3>6
    <3>8. ~IsConstructed(c.params[j].ptype, c.params[j].ttype)
      <4>1. MayAbort(Reached(X + ParamEnd(c, j - 1))) /\ j \in 1..ParamCount(c)
        BY <3>1, <3>2, <3>3, <3>6
      <4> QED
        BY <2>1, <2>5, <3>7, <4>1, ReadParamOf
    <3>9. c.id = "clGetSupportedImageFormats"
      BY <2>5, <3>2, <3>6, <3>8, RecordedIsWritten DEF ParamCount
    <3>10. Len(m_calls) + 1 \in 1..CallCount(recorded)
      BY <2>1, <2>3
    <3> QED
      BY <2>4, <3>9, <3>10 DEF Current
  <2> QED
    BY <2>7, <2>8 DEF AbortLoad
<1>7. AbortInv'
  BY <1>1, <1>6 DEF AbortInv
<1> QED
  BY <1>2, <1>3, <1>4, <1>5, <1>7 DEF FormatInv

LEMMA FinishLoadInv == FormatInv /\ FinishLoad => FormatInv'
<1> SUFFICES ASSUME FormatInv, FinishLoad PROVE FormatInv'
  OBVIOUS
<1>1. /\ LoadInv /\ FileInv /\ PlaceInv /\ ContentInv
      /\ status = "loading" /\ status' = "loaded" /\ call = {} /\ Len(m_calls) = num_calls
      /\ UNCHANGED <<recorded, file, pos, m_flags, num_calls, m_calls, call>>
  BY DEF FormatInv, FinishLoad
<1>2. LoadInv'
  BY <1>1 DEF LoadInv, IsLoadedCall, LoadedParam
<1>3. FileInv'
  BY <1>1 DEF FileInv, IsBeginning
<1>4. PlaceInv' /\ AbortInv'
  BY <1>1 DEF PlaceInv, AbortInv
<1>5. ContentInv'
  BY <1>1 DEF ContentInv, HeaderIsThere
<1> QED
  BY <1>2, <1>3, <1>4, <1>5 DEF FormatInv

LEMMA NextInv == FormatInv /\ [Next]_vars => FormatInv'
<1> SUFFICES ASSUME FormatInv, [Next]_vars PROVE FormatInv'
  OBVIOUS
<1>1. CASE Next
  BY <1>1, SaveInv, NoFileInv, LoadHeaderInv, LoadCallInv, LoadParamInv, FinishCallInv,
     AbortLoadInv, FinishLoadInv
  DEF Next
<1>2. CASE UNCHANGED vars
  BY <1>2
  DEF vars, FormatInv, LoadInv, FileInv, PlaceInv, ContentInv, AbortInv, IsBeginning,
     IsBeingRead, IsLoadedCall, LoadedParam, HeaderIsThere, HeadIsThere, IsRead, Current, Before,
     Reached
<1> QED
  BY <1>1, <1>2

LEMMA FormatInvariant == Spec => []FormatInv
  BY InitInv, NextInv, PTL DEF Spec

--------------------------------------------------------------------------------
(* The theorems.                                                             *)

\* The types, of a trace that is loaded too: its parameters are uninitialised or of
\* classes that the factory (construct_call_param) has.
THEOREM FormatTypeCorrect == Spec => []FormatTypeOK
<1>1. FormatInv => FormatTypeOK
  <2> SUFFICES ASSUME FormatInv PROVE FormatTypeOK
    OBVIOUS
  <2>1. LoadInv
    BY DEF FormatInv
  <2>2. Cardinality(call) <= 1
    <3>1. CASE call = {}
      BY <3>1, FS_EmptySet
    <3>2. CASE call # {}
      <4>1. PICK d \in call : call = {d}
        BY <2>1, <3>2 DEF LoadInv
      <4>2. Cardinality({d}) = 1
        BY FS_Singleton
      <4> QED
        BY <4>1, <4>2
    <3> QED
      BY <3>1, <3>2
  <2>3. ASSUME NEW c \in Range(m_calls) \union {d.of : d \in call} PROVE IsLoadedCall(c)
    <3>1. CASE c \in Range(m_calls)
      <4>1. PICK k \in DOMAIN m_calls : c = m_calls[k]
        BY <3>1 DEF Range
      <4>2. DOMAIN m_calls = 1..Len(m_calls)
        BY <2>1 DEF LoadInv, IsSequence
      <4> QED
        BY <2>1, <4>1, <4>2 DEF LoadInv
    <3>2. CASE c \in {d.of : d \in call}
      BY <2>1, <3>2 DEF LoadInv, IsBeingRead
    <3> QED
      BY <3>1, <3>2
  <2>4. ASSUME NEW c, IsLoadedCall(c)
        PROVE  LoadedParam(c.ret) /\ \A p \in Range(c.params) : LoadedParam(p)
    <3>1. DOMAIN c.params = 1..Len(c.params)
      BY <2>4 DEF IsLoadedCall, IsSequence
    <3> QED
      BY <2>4, <3>1 DEF IsLoadedCall, Range
  <2> QED
    BY <2>1, <2>2, <2>3, <2>4 DEF FormatTypeOK, LoadInv
<1> QED
  BY <1>1, FormatInvariant, PTL

\* A whole file is loaded as the trace that was recorded, whatever it holds; only the
\* formats of clGetSupportedImageFormats make the factory abort (Trace::deserialize,
\* Call::deserialize, construct_call_param).
THEOREM IntactLoads == Spec => []IntactTracesLoad
<1>1. FormatInv => IntactTracesLoad
  <2> SUFFICES ASSUME FormatInv, IsIntact PROVE IntactTracesLoad
    BY DEF IntactTracesLoad
  <2>1. LoadInv /\ FileInv /\ ContentInv /\ AbortInv /\ file = TraceFields(recorded)
    BY DEF FormatInv, IsIntact
  <2>2. PICK n, size : n = CallCount(recorded) /\ size = Len(TraceFields(recorded))
    OBVIOUS
  <2>3. /\ IsRecorded(recorded) /\ IsSequence(m_calls)
        /\ IsSequence(recorded.calls) /\ n \in Nat /\ Len(recorded.calls) = n
        /\ \A k \in 0..n : CallEnd(recorded, k) \in 2..size
        /\ size \in Nat
    BY <2>1, <2>2, FileIsWritten, CallPartsAreLists, TracePlaces DEF CallCount
  <2>4. Len(file) = size /\ HeaderIsThere
    <3>1. CallEnd(recorded, 0) \in 2..size
      BY <2>3
    <3> QED
      BY <2>1, <2>2, <2>3, <3>1 DEF HeaderIsThere
  <2>5. ASSUME status = "loaded" PROVE TraceOf(m_flags, m_calls) = recorded
    <3>1. Len(m_calls) = n /\ m_flags = recorded.flags
      BY <2>1, <2>2, <2>4, <2>5 DEF FileInv, ContentInv
    <3>2. ASSUME NEW k \in 1..n PROVE m_calls[k] = recorded.calls[k]
      <4>1. CallEnd(recorded, k) <= Len(file)
        BY <2>3, <2>4
      <4> QED
        BY <2>1, <2>4, <2>5, <3>1, <4>1 DEF ContentInv
    <3>3. m_calls = recorded.calls
      BY <2>3, <3>1, <3>2, SameList
    <3> QED
      BY <2>3, <3>1, <3>3 DEF IsRecorded
  <2>6. ASSUME status = "aborted"
        PROVE  \E c \in Range(recorded.calls) : c.id = "clGetSupportedImageFormats"
    <3>1. PICK k \in 1..n : recorded.calls[k].id = "clGetSupportedImageFormats"
      BY <2>1, <2>2, <2>6 DEF AbortInv
    <3>2. recorded.calls[k] \in Range(recorded.calls)
      BY <2>3 DEF Range, IsSequence
    <3> QED
      BY <3>1, <3>2
  <2> QED
    BY <2>5, <2>6 DEF IntactTracesLoad
<1> QED
  BY <1>1, FormatInvariant, PTL

\* However much of the file is there, the calls that are whole in it are loaded as they
\* were recorded and in their places, and as many calls as its header announces.
THEOREM TruncatedLoads == Spec => []TruncatedTracesKeepTheirStart
<1>1. FormatInv => TruncatedTracesKeepTheirStart
  <2> SUFFICES ASSUME FormatInv PROVE TruncatedTracesKeepTheirStart
    OBVIOUS
  <2>1. LoadInv /\ FileInv /\ ContentInv
    BY DEF FormatInv
  <2>2. PICK n : n = CallCount(recorded)
    OBVIOUS
  <2>3. /\ IsRecorded(recorded) /\ Len(file) \in Nat /\ n \in Nat /\ Len(recorded.calls) = n
        /\ Len(m_calls) \in Nat /\ DOMAIN m_calls = 1..Len(m_calls)
        /\ \A k \in 0..n : CallEnd(recorded, k) >= 2 /\ CallEnd(recorded, k) \in Nat
    <3>1. PICK size : size = Len(TraceFields(recorded))
      OBVIOUS
    <3>2. IsRecorded(recorded) /\ Len(file) \in Nat /\ IsSequence(m_calls)
      BY <2>1, FileIsWritten
    <3>3. \A k \in 0..n : CallEnd(recorded, k) \in 2..size
      BY <2>2, <3>1, <3>2, TracePlaces
    <3>4. n \in Nat /\ Len(recorded.calls) = n
      BY <2>2, <3>2, CallPartsAreLists DEF CallCount
    <3>5. size \in Nat
      BY <3>1, <3>2, TracePlaces
    <3> QED
      BY <3>2, <3>3, <3>4, <3>5 DEF IsSequence
  <2>4. ASSUME NEW k \in DOMAIN m_calls, k <= n, SizeOf(k) <= Len(file)
        PROVE  m_calls[k] = recorded.calls[k]
    <3>1. k \in 0..n /\ k \in 1..Len(m_calls)
      BY <2>3, <2>4
    <3>2. CallEnd(recorded, k) <= Len(file)
      BY <2>2, <2>3, <2>4, <3>1, SizeIsCallEnd
    <3>3. HeaderIsThere
      BY <2>3, <3>1, <3>2 DEF HeaderIsThere
    <3>4. status \in {"loading", "loaded", "aborted"}
      <4>1. Len(<<>>) = 0
        OBVIOUS
      <4>2. m_calls # <<>>
        BY <3>1, <4>1
      <4> QED
        BY <2>1, <4>2 DEF LoadInv, FileInv
    <3> QED
      BY <2>1, <3>1, <3>2, <3>3, <3>4 DEF ContentInv
  <2>5. ASSUME status = "loaded", Len(file) >= 2 PROVE Len(m_calls) = n
    BY <2>1, <2>2, <2>5 DEF FileInv, ContentInv, HeaderIsThere
  <2> QED
    BY <2>3, <2>4, <2>5 DEF TruncatedTracesKeepTheirStart
<1> QED
  BY <1>1, FormatInvariant, PTL

================================================================================
