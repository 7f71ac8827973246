-------------------------- MODULE StatementsProofs --------------------------
(***************************************************************************)
(* Proofs about Statements, for strings, buffers, lists and tables of any  *)
(* size: _fix_string doubles the quotes of every string that does not      *)
(* start with one (QuotingRight), also in place (UnreadSafe), and a select *)
(* reads each column at the position where SQLite delivers it              *)
(* (PositionsFollowList, SelectionFollowsList).                            *)
(*                                                                         *)
(* Doubled and Before are recursive, so both proofs begin with what        *)
(* FlattenSeq computes, by induction on the number of sequences.           *)
(***************************************************************************)
EXTENDS Statements, CountingTheorems, SequenceTheorems

-----------------------------------------------------------------------------
(* FlattenSeq.                                                             *)

\* A function on 1 .. n is a sequence.
LEMMA FunctionSeq ==
    ASSUME NEW S, NEW n \in Nat, NEW f \in [1..n -> S]
    PROVE  f \in Seq(S) /\ Len(f) = n
  <1>1. f \in Seq(S)
    BY SeqDef, Zenon
  <1>2. DOMAIN f = 1..n /\ DOMAIN f = 1..Len(f) /\ Len(f) \in Nat
    BY <1>1, LenProperties
  <1> QED
    BY <1>1, <1>2

\* f[k] is the first k sequences of seqs one after the other.
Pieced(f, seqs) ==
    /\ f[0] = <<>>
    /\ \A k \in 1..Len(seqs) : f[k] = f[k - 1] \o seqs[k]

\* The recursive function of FlattenSeq exists and is the last of those.
LEMMA FlattenPieced ==
    ASSUME NEW S, NEW seqs \in Seq(Seq(S))
    PROVE  \E f \in [0..Len(seqs) -> Seq(S)] :
              Pieced(f, seqs) /\ FlattenSeq(seqs) = f[Len(seqs)]
  <1> DEFINE N == Len(seqs)
             G == [k \in 1..N |-> [s \in Seq(S) |-> s \o seqs[k]]]
             Next1(f) == [k \in 1..N |-> IF k = 1 THEN seqs[k] ELSE f[k - 1] \o seqs[k]]
             e == CHOOSE f : f = Next1(f)
  <1>1. N \in Nat /\ <<>> \in Seq(S) /\ \A k \in 1..N : seqs[k] \in Seq(S)
    OBVIOUS
  <1>2. G \in [1..N -> [Seq(S) -> Seq(S)]]
    <2>1. \A k \in 1..N : \A s \in Seq(S) : s \o seqs[k] \in Seq(S)
      BY <1>1, ConcatProperties
    <2> QED
      BY <2>1
  <1>3. PICK f \in [0..N -> Seq(S)] : Recursion(f, N, <<>>, G)
    <2> HIDE DEF G, N
    <2> QED
      BY <1>1, <1>2, RecursionExists
  <1>4. Pieced(f, seqs)
    <2>1. ASSUME NEW k \in 1..N PROVE f[k] = f[k - 1] \o seqs[k]
      <3>1. k - 1 \in 0..N
        BY <1>1
      <3>2. f[k - 1] \in Seq(S)
        BY <3>1
      <3>3. f[k] = G[k][f[k - 1]]
        BY <1>3 DEF Recursion
      <3> QED
        BY <3>2, <3>3
    <2> QED
      BY <1>3, <2>1 DEF Pieced, Recursion
  <1>5. ASSUME NEW k \in 1..N, k = 1 PROVE f[k] = seqs[k]
    <2>1. f[k] = f[k - 1] \o seqs[k] /\ f[0] = <<>>
      BY <1>4 DEF Pieced
    <2>2. k - 1 = 0
      BY <1>5
    <2>3. <<>> \o seqs[k] = seqs[k]
      BY <1>1, ConcatEmptySeq
    <2> QED
      BY <2>1, <2>2, <2>3
  <1>6. [k \in 1..N |-> f[k]] = Next1([k \in 1..N |-> f[k]])
    <2> DEFINE h == [k \in 1..N |-> f[k]]
    <2>1. ASSUME NEW k \in 1..N
          PROVE  f[k] = IF k = 1 THEN seqs[k] ELSE h[k - 1] \o seqs[k]
      <3>1. CASE k = 1
        BY <1>5, <3>1
      <3>2. CASE k # 1
        <4>1. k - 1 \in 1..N
          BY <1>1, <3>2
        <4> QED
          BY <1>4, <3>2, <4>1 DEF Pieced
      <3> QED
        BY <3>1, <3>2
    <2> QED
      BY <2>1
  <1>7. e = Next1(e)
    BY <1>6
  <1>8. CASE N = 0
    <2>1. FlattenSeq(seqs) = <<>>
      BY <1>8 DEF FlattenSeq
    <2> QED
      BY <1>3, <1>4, <1>8, <2>1 DEF Pieced
  <1>9. CASE N # 0
    <2>1. FlattenSeq(seqs) = e[N]
      BY <1>9 DEF FlattenSeq, e
    <2> HIDE DEF e
    <2> DEFINE T == {k \in Nat : k + 1 \in 1..N => e[k + 1] = f[k + 1]}
    <2>2. 0 \in T
      <3>1. CASE 1 \in 1..N
        <4>1. e[1] = seqs[1]
          BY <1>7, <3>1
        <4>2. f[1] = seqs[1]
          BY <1>5, <3>1
        <4> QED
          BY <4>1, <4>2
      <3> QED
        BY <3>1
    <2>3. ASSUME NEW k \in T PROVE k + 1 \in T
      <3> SUFFICES ASSUME k + 2 \in 1..N PROVE e[k + 2] = f[k + 2]
        OBVIOUS
      <3> DEFINE j == k + 2
      <3>1. j \in 1..N /\ j # 1 /\ j - 1 = k + 1
        BY <1>1
      <3> HIDE DEF j
      <3>2. e[j] = e[j - 1] \o seqs[j] /\ f[j] = f[j - 1] \o seqs[j]
        BY <1>4, <1>7, <3>1 DEF Pieced
      <3>3. e[k + 1] = f[k + 1]
        BY <1>1
      <3> QED
        BY <3>1, <3>2, <3>3 DEF j
    <2>4. T = Nat
      <3>1. T \in SUBSET Nat
        OBVIOUS
      <3> HIDE DEF T
      <3> QED
        BY <2>2, <2>3, <3>1, SetInduction
    <2>5. N - 1 \in Nat /\ (N - 1) + 1 = N /\ N \in 1..N
      BY <1>1, <1>9
    <2>6. e[N] = f[N]
      BY <2>4, <2>5
    <2> QED
      BY <1>4, <2>1, <2>6
  <1> QED
    BY <1>8, <1>9

\* It yields a sequence, empty for no sequences, and goes on with what is
\* appended.
LEMMA FlattenType ==
    ASSUME NEW S, NEW seqs \in Seq(Seq(S))
    PROVE  FlattenSeq(seqs) \in Seq(S)
  <1>1. PICK f \in [0..Len(seqs) -> Seq(S)] :
           Pieced(f, seqs) /\ FlattenSeq(seqs) = f[Len(seqs)]
    BY FlattenPieced
  <1> QED
    BY <1>1

\* No sequences in a row are the empty sequence.
LEMMA FlattenEmpty == FlattenSeq(<<>>) = <<>>
  BY DEF FlattenSeq

\* One more sequence comes after the others.
LEMMA FlattenAppend ==
    ASSUME NEW S, NEW seqs \in Seq(Seq(S)), NEW s \in Seq(S)
    PROVE  FlattenSeq(Append(seqs, s)) = FlattenSeq(seqs) \o s
  <1> DEFINE N == Len(seqs)
             new == Append(seqs, s)
  <1>1. /\ new \in Seq(Seq(S)) /\ Len(new) = N + 1 /\ N \in Nat /\ new[N + 1] = s
        /\ \A k \in 1..N : new[k] = seqs[k]
    BY AppendProperties
  <1>2. PICK f \in [0..N -> Seq(S)] : Pieced(f, seqs) /\ FlattenSeq(seqs) = f[N]
    BY FlattenPieced
  <1> HIDE DEF new
  <1>3. PICK g \in [0..(N + 1) -> Seq(S)] :
           Pieced(g, new) /\ FlattenSeq(new) = g[N + 1]
    BY <1>1, FlattenPieced
  <1> DEFINE T == {k \in Nat : k \in 0..N => f[k] = g[k]}
  <1>4. 0 \in T
    BY <1>2, <1>3 DEF Pieced
  <1>5. ASSUME NEW k \in T PROVE k + 1 \in T
    <2> SUFFICES ASSUME k + 1 \in 0..N PROVE f[k + 1] = g[k + 1]
      OBVIOUS
    <2>1. k + 1 \in 1..N /\ k \in 0..N /\ k + 1 \in 1..(N + 1)
      BY <1>1
    <2> DEFINE j == k + 1
    <2>2. j \in 1..N /\ j \in 1..Len(new) /\ j - 1 = k
      BY <1>1, <2>1
    <2> HIDE DEF j
    <2>3. f[j] = f[j - 1] \o seqs[j] /\ g[j] = g[j - 1] \o new[j]
      BY <1>2, <1>3, <2>2 DEF Pieced
    <2> QED
      BY <1>1, <2>1, <2>2, <2>3 DEF j
  <1>6. T = Nat
    <2>1. T \in SUBSET Nat
      OBVIOUS
    <2> HIDE DEF T
    <2> QED
      BY <1>4, <1>5, <2>1, SetInduction
  <1>7. f[N] = g[N]
    BY <1>1, <1>6, SMTT(30)
  <1>8. g[N + 1] = g[N] \o s
    <2> DEFINE j == N + 1
    <2>1. j \in 1..Len(new) /\ j - 1 = N
      BY <1>1
    <2> HIDE DEF j
    <2>2. g[j] = g[j - 1] \o new[j]
      BY <1>3, <2>1 DEF Pieced
    <2> QED
      BY <1>1, <2>1, <2>2 DEF j
  <1> QED
    BY <1>2, <1>3, <1>7, <1>8 DEF new
-----------------------------------------------------------------------------
(* Doubling the quotes of a string.                                        *)

Quotes(s, k) == {j \in 1..Len(s) : j <= k /\ s[j] = "quote"}

\* The length of the first k characters of s with their quotes doubled; beyond
\* the end the NUL counts one.
Width(s, k) == k + Cardinality(Quotes(s, k))

\* One more character widens the text by two if it is a quote, else by one.
LEMMA WidthStep ==
    ASSUME NEW s \in Seq(FS!Chars), NEW k \in Nat
    PROVE  /\ Width(s, 0) = 0
           /\ Width(s, k) \in Nat /\ Width(s, k) >= k /\ Width(s, k) <= 2 * k
           /\ Width(s, k + 1) = Width(s, k)
                + (IF k + 1 <= Len(s) /\ s[k + 1] = "quote" THEN 2 ELSE 1)
  <1>1. Len(s) \in Nat
    OBVIOUS
  <1>2. \A m \in Nat : IsFiniteSet(Quotes(s, m)) /\ Cardinality(Quotes(s, m)) \in Nat
                       /\ Cardinality(Quotes(s, m)) <= m
    <2> SUFFICES ASSUME NEW m \in Nat
                 PROVE  /\ IsFiniteSet(Quotes(s, m)) /\ Cardinality(Quotes(s, m)) \in Nat
                        /\ Cardinality(Quotes(s, m)) <= m
      OBVIOUS
    <2>1. IsFiniteSet(1..m) /\ Cardinality(1..m) = m
      <3>1. 1 \in Int /\ m \in Int
        OBVIOUS
      <3>2. Cardinality(1..m) = IF 1 > m THEN 0 ELSE m - 1 + 1
        BY <3>1, FS_Interval
      <3> QED
        BY <3>1, <3>2, FS_Interval
    <2>2. Quotes(s, m) \subseteq 1..m
      BY <1>1 DEF Quotes
    <2> QED
      BY <2>1, <2>2, FS_Subset, FS_CardinalityType
  <1>3. Cardinality(Quotes(s, 0)) = 0
    <2>1. Quotes(s, 0) = {}
      BY <1>1 DEF Quotes
    <2> QED
      BY <2>1, FS_EmptySet
  <1>4. CASE k + 1 <= Len(s) /\ s[k + 1] = "quote"
    <2>1. Quotes(s, k + 1) = Quotes(s, k) \cup {k + 1} /\ k + 1 \notin Quotes(s, k)
      BY <1>1, <1>4 DEF Quotes
    <2>2. Cardinality(Quotes(s, k + 1)) = Cardinality(Quotes(s, k)) + 1
      BY <1>2, <2>1, FS_AddElement
    <2>3. Cardinality(Quotes(s, k)) \in Nat /\ Cardinality(Quotes(s, k)) <= k
      BY <1>2
    <2> QED
      BY SMTT(40), <1>3, <1>4, <2>2, <2>3 DEF Width
  <1>5. CASE ~(k + 1 <= Len(s) /\ s[k + 1] = "quote")
    <2>1. Quotes(s, k + 1) = Quotes(s, k)
      BY <1>1, <1>5 DEF Quotes
    <2>2. Cardinality(Quotes(s, k)) \in Nat /\ Cardinality(Quotes(s, k)) <= k
      BY <1>2
    <2> QED
      BY <1>3, <1>5, <2>1, <2>2 DEF Width
  <1> QED
    BY <1>4, <1>5

Twice(c) == IF c = "quote" THEN <<"quote", "quote">> ELSE <<c>>
Begun(s, k) == FlattenSeq([j \in 1..k |-> Twice(s[j])])

\* Each character of the first k is where their widths say.
Spread(s, k) ==
    /\ Begun(s, k) \in Seq(FS!Chars) /\ Len(Begun(s, k)) = Width(s, k)
    /\ \A j \in 1..k :
          /\ Width(s, j) \in 1..Width(s, k) /\ Begun(s, k)[Width(s, j)] = s[j]
          /\ s[j] = "quote" => /\ Width(s, j) - 1 \in 1..Width(s, k)
                               /\ Begun(s, k)[Width(s, j) - 1] = "quote"

\* What one character becomes: itself, or two quotes.
LEMMA TwiceFacts ==
    ASSUME NEW c \in FS!Chars
    PROVE  /\ Twice(c) \in Seq(FS!Chars)
           /\ Len(Twice(c)) = (IF c = "quote" THEN 2 ELSE 1)
           /\ Twice(c)[1] = c /\ (c = "quote" => Twice(c)[2] = c)
  <1>1. CASE c = "quote"
    BY <1>1 DEF Twice
  <1>2. CASE c # "quote"
    BY <1>2 DEF Twice
  <1> QED
    BY <1>1, <1>2

\* Doubling one more character leaves the ones before it where they are.
LEMMA BegunStep ==
    ASSUME NEW s \in Seq(FS!Chars), NEW k \in Nat, k + 1 <= Len(s), Spread(s, k)
    PROVE  Spread(s, k + 1)
  <1> DEFINE c == s[k + 1]
             old == [j \in 1..k |-> Twice(s[j])]
             new == [j \in 1..(k + 1) |-> Twice(s[j])]
  <1>1. c \in FS!Chars /\ Len(s) \in Nat /\ \A j \in 1..(k + 1) : s[j] \in FS!Chars
    OBVIOUS
  <1>2. /\ Twice(c) \in Seq(FS!Chars) /\ Len(Twice(c)) = (IF c = "quote" THEN 2 ELSE 1)
        /\ Twice(c)[1] = c /\ (c = "quote" => Twice(c)[2] = c)
    <2> HIDE DEF c
    <2> QED
      BY <1>1, TwiceFacts
  <1>3. \A j \in 1..(k + 1) : Twice(s[j]) \in Seq(FS!Chars)
    BY <1>1, TwiceFacts
  <1>4. old \in Seq(Seq(FS!Chars)) /\ Len(old) = k
    <2>1. old \in [1..k -> Seq(FS!Chars)]
      BY <1>3
    <2> HIDE DEF old
    <2> QED
      BY <2>1, FunctionSeq
  <1>5. new \in Seq(Seq(FS!Chars)) /\ Len(new) = k + 1
    <2>1. new \in [1..(k + 1) -> Seq(FS!Chars)]
      BY <1>3
    <2> HIDE DEF new
    <2> QED
      BY <2>1, FunctionSeq
  <1>6. new = Append(old, Twice(c))
    <2> DEFINE app == Append(old, Twice(c))
    <2>1. app \in Seq(Seq(FS!Chars)) /\ Len(app) = k + 1
          /\ app[k + 1] = Twice(c) /\ \A j \in 1..k : app[j] = old[j]
      <3> HIDE DEF old
      <3> QED
        BY <1>2, <1>4, AppendProperties
    <2>2. ASSUME NEW j \in 1..(k + 1) PROVE new[j] = app[j]
      <3>1. CASE j = k + 1
        BY <2>1, <3>1
      <3>2. CASE j \in 1..k
        BY <2>1, <3>2
      <3> QED
        BY <3>1, <3>2
    <2> HIDE DEF new, app
    <2>3. new = app
      BY <1>5, <2>1, <2>2, SeqEqual
    <2> QED
      BY <2>3 DEF app
  <1> DEFINE b == Begun(s, k)
  <1>7. Begun(s, k + 1) = b \o Twice(c)
    <2>1. Begun(s, k + 1) = FlattenSeq(new) /\ b = FlattenSeq(old)
      BY DEF Begun
    <2> HIDE DEF old, new, b
    <2> QED
      BY <1>2, <1>4, <1>6, <2>1, FlattenAppend
  <1>8. /\ Width(s, k) \in Nat
        /\ Width(s, k + 1) = Width(s, k) + (IF c = "quote" THEN 2 ELSE 1)
    BY WidthStep
  <1>9. b \in Seq(FS!Chars) /\ Len(b) = Width(s, k)
    BY DEF Spread
  <1> HIDE DEF b, c
  <1>10. /\ Begun(s, k + 1) \in Seq(FS!Chars) /\ Len(Begun(s, k + 1)) = Width(s, k + 1)
         /\ \A x \in 1..Width(s, k) : Begun(s, k + 1)[x] = b[x]
         /\ Begun(s, k + 1)[Width(s, k) + 1] = c
         /\ c = "quote" => Begun(s, k + 1)[Width(s, k) + 2] = c
    <2> DEFINE t == Twice(c)
    <2>1. /\ b \o t \in Seq(FS!Chars) /\ Len(b \o t) = Len(b) + Len(t)
          /\ \A x \in 1..Len(b) : (b \o t)[x] = b[x]
          /\ \A x \in 1..Len(t) : (b \o t)[Len(b) + x] = t[x]
      <3>1. t \in Seq(FS!Chars)
        BY <1>2
      <3> HIDE DEF t
      <3> QED
        BY <1>9, <3>1, SMTT(30)
    <2>2. 1 \in 1..Len(t) /\ (c = "quote" => 2 \in 1..Len(t))
      BY <1>2
    <2> HIDE DEF t
    <2>3. t[1] = c /\ (c = "quote" => t[2] = c) /\ Len(t) = IF c = "quote" THEN 2 ELSE 1
      BY <1>2 DEF t
    <2> QED
      BY <1>7, <1>8, <1>9, <2>1, <2>2, <2>3 DEF t
  <1>11. ASSUME NEW j \in 1..(k + 1)
         PROVE  /\ Width(s, j) \in 1..Width(s, k + 1)
                /\ Begun(s, k + 1)[Width(s, j)] = s[j]
                /\ s[j] = "quote" => /\ Width(s, j) - 1 \in 1..Width(s, k + 1)
                                     /\ Begun(s, k + 1)[Width(s, j) - 1] = "quote"
    <2>1. CASE j = k + 1
      BY <1>8, <1>10, <2>1 DEF c
    <2>2. CASE j \in 1..k
      <3>1. /\ Width(s, j) \in 1..Width(s, k) /\ b[Width(s, j)] = s[j]
            /\ s[j] = "quote" => /\ Width(s, j) - 1 \in 1..Width(s, k)
                                 /\ b[Width(s, j) - 1] = "quote"
        BY <2>2 DEF Spread, b
      <3> QED
        BY <1>8, <1>10, <3>1, SMTT(30)
    <2> QED
      BY <2>1, <2>2
  <1> QED
    BY <1>10, <1>11 DEF Spread

\* The characters of the doubled string, as memory shows them.
LEMMA DoubledAt ==
    ASSUME NEW s \in Seq(FS!Chars), Len(s) <= MaxString, NEW k \in 0..Len(s)
    PROVE  /\ FS!Doubled(s) \in Seq(FS!Chars) /\ Len(FS!Doubled(s)) = Width(s, Len(s))
           /\ Width(s, k + 1) - 1 \in 0..Width(s, Len(s))
           /\ FS!InMemory(FS!Doubled(s))[Width(s, k + 1) - 1] = FS!InMemory(s)[k]
           /\ FS!InMemory(s)[k] = "quote" =>
                 /\ Width(s, k + 1) - 2 \in 0..Width(s, Len(s))
                 /\ FS!InMemory(FS!Doubled(s))[Width(s, k + 1) - 2] = "quote"
  <1> DEFINE n == Len(s)
             d == FS!Doubled(s)
             T == {m \in Nat : m <= n => Spread(s, m)}
  <1>1. n \in Nat /\ MaxString \in Nat
    <2>1. MaxString \in Nat
      BY StatementsAssumption
    <2> QED
      BY <2>1
  <1>2. 0 \in T
    <2>1. [j \in 1..0 |-> Twice(s[j])] = <<>>
      OBVIOUS
    <2>2. Begun(s, 0) = <<>>
      BY <2>1, FlattenEmpty DEF Begun
    <2>3. Width(s, 0) = 0
      BY WidthStep
    <2>4. <<>> \in Seq(FS!Chars) /\ Len(<<>>) = 0 /\ 1..0 = {}
      OBVIOUS
    <2>5. Spread(s, 0)
      BY <2>2, <2>3, <2>4 DEF Spread
    <2> QED
      BY <2>5
  <1>3. ASSUME NEW m \in T PROVE m + 1 \in T
    BY <1>1, BegunStep
  <1>4. T = Nat
    <2>1. T \in SUBSET Nat
      OBVIOUS
    <2> HIDE DEF T
    <2> QED
      BY <1>2, <1>3, <2>1, SetInduction
  <1>5. Spread(s, n)
    BY <1>1, <1>4
  <1>6. d = Begun(s, n)
    <2>1. [j \in 1..n |-> Twice(s[j])]
             = [j \in 1..Len(s) |-> IF s[j] = "quote" THEN <<"quote", "quote">>
                                    ELSE <<s[j]>>]
      BY DEF Twice
    <2>2. \A x : FS!FlattenSeq(x) = FlattenSeq(x)
      BY DEF FS!FlattenSeq, FlattenSeq
    <2> QED
      BY <2>1, <2>2 DEF FS!Doubled, Begun
  <1> HIDE DEF d, T
  <1>7. d \in Seq(FS!Chars) /\ Len(d) = Width(s, n)
    BY <1>5, <1>6 DEF Spread
  <1>8. Width(s, n) \in Nat /\ Width(s, n) <= 2 * n /\ Width(s, n) >= n
    BY <1>1, WidthStep
  <1>9. /\ \A x \in 0..(Width(s, n) - 1) : FS!InMemory(d)[x] = d[x + 1]
        /\ FS!InMemory(d)[Width(s, n)] = "NUL"
    BY <1>1, <1>7, <1>8 DEF FS!InMemory, FS!Positions
  <1>10. FS!InMemory(s)[k] = IF k < n THEN s[k + 1] ELSE "NUL"
    BY <1>1 DEF FS!InMemory, FS!Positions
  <1>11. CASE k = n
    <2>1. Width(s, k + 1) = Width(s, n) + 1
      <3>1. Width(s, n + 1)
              = Width(s, n) + (IF n + 1 <= Len(s) /\ s[n + 1] = "quote" THEN 2 ELSE 1)
        BY <1>1, WidthStep
      <3> QED
        BY <1>1, <1>11, <3>1
    <2> QED
      BY <1>7, <1>8, <1>9, <1>10, <1>11, <2>1 DEF d
  <1>12. CASE k < n
    <2> DEFINE j == k + 1
    <2>1. j \in 1..n
      BY <1>1, <1>12
    <2> HIDE DEF j
    <2>2. /\ Width(s, j) \in 1..Width(s, n) /\ d[Width(s, j)] = s[j]
          /\ s[j] = "quote" => /\ Width(s, j) - 1 \in 1..Width(s, n)
                               /\ d[Width(s, j) - 1] = "quote"
      BY <1>5, <1>6, <2>1 DEF Spread
    <2>3. FS!InMemory(d)[Width(s, j) - 1] = s[j]
      <3> DEFINE x == Width(s, j) - 1
      <3>1. x \in 0..(Width(s, n) - 1) /\ x + 1 = Width(s, j)
        BY <1>8, <2>2
      <3> HIDE DEF x
      <3>2. FS!InMemory(d)[x] = s[j]
        BY <1>9, <2>2, <3>1
      <3> QED
        BY <3>2 DEF x
    <2>4. ASSUME s[j] = "quote" PROVE FS!InMemory(d)[Width(s, j) - 2] = "quote"
      <3> DEFINE x == Width(s, j) - 2
      <3>1. x \in 0..(Width(s, n) - 1) /\ x + 1 = Width(s, j) - 1
        BY <1>8, <2>2, <2>4
      <3> HIDE DEF x
      <3>2. FS!InMemory(d)[x] = "quote"
        BY <1>9, <2>2, <2>4, <3>1
      <3> QED
        BY <3>2 DEF x
    <2>5. Width(s, j) - 1 \in 0..Width(s, n)
          /\ (s[j] = "quote" => Width(s, j) - 2 \in 0..Width(s, n))
      BY <1>8, <2>2
    <2> QED
      BY <1>7, <1>10, <1>12, <2>3, <2>4, <2>5 DEF d, j
  <1> QED
    BY <1>1, <1>11, <1>12
-----------------------------------------------------------------------------
(* _fix_string.                                                            *)

Cells == FS!Chars \cup {"NUL"}
Memory == [FS!Positions -> Cells]

(***************************************************************************)
(* Counting has measured the characters up to iter; since it looks at the  *)
(* next character it misses a quote at the start, which is left out here.  *)
(* Copying has filled the result behind i, and i is as far behind iter as  *)
(* there are quotes up to iter: so it never overtakes what is unread, and  *)
(* the two reach the start together.                                       *)
(***************************************************************************)
FixInv ==
    /\ string \in Seq(FS!Chars) /\ Len(string) <= MaxString
    /\ len \in Nat
    /\ ~FS!StartsWithQuote =>
        /\ src \in Memory /\ dst \in Memory
        /\ shared \in BOOLEAN /\ (shared => src = dst)
        /\ outside = {}
        /\ pc \in {"count", "copy", "too_long", "ok"}
        /\ pc = "count" =>
              /\ iter \in 0..Len(string) /\ src = FS!InMemory(string)
              /\ fixed_string_len = Width(string, iter + 1) - 1
        /\ pc # "count" => fixed_string_len = Width(string, Len(string))
        /\ pc = "too_long" => fixed_string_len >= len
        /\ pc \in {"copy", "ok"} => fixed_string_len < len
        /\ pc = "copy" =>
              /\ iter \in -1..Len(string) /\ i = Width(string, iter + 1) - 1
              /\ \A k \in 0..iter : src[k] = FS!InMemory(string)[k]
              /\ \A k \in (i + 1)..fixed_string_len :
                    dst[k] = FS!InMemory(FS!Doubled(string))[k]
        /\ pc = "ok" =>
              \A k \in 0..fixed_string_len :
                  dst[k] = FS!InMemory(FS!Doubled(string))[k]

-----------------------------------------------------------------------------
\* A string in memory: its characters and the NUL behind them.
LEMMA MemoryAt ==
    ASSUME NEW s \in Seq(FS!Chars), Len(s) <= MaxString
    PROVE  /\ FS!InMemory(s) \in Memory
           /\ \A k \in 0..Len(s) :
                 FS!InMemory(s)[k] = IF k < Len(s) THEN s[k + 1] ELSE "NUL"
           /\ \A k \in 0..(2 * MaxString) : k \in FS!Positions
           /\ \A k \in 0..Len(s) : k \in FS!Positions
  <1>1. MaxString \in Nat /\ Len(s) \in Nat
    <2>1. MaxString \in Nat
      BY StatementsAssumption
    <2> QED
      BY <2>1
  <1>2. \A k \in 0..(2 * MaxString) : k \in FS!Positions
    BY <1>1 DEF FS!Positions
  <1>3. \A k \in 0..Len(s) : k \in FS!Positions
    BY <1>1 DEF FS!Positions
  <1>4. \A k \in 0..Len(s) : FS!InMemory(s)[k] = IF k < Len(s) THEN s[k + 1] ELSE "NUL"
    BY <1>1, <1>3 DEF FS!InMemory
  <1>5. FS!InMemory(s) \in Memory
    BY <1>1 DEF FS!InMemory, Memory, Cells
  <1> QED
    BY <1>2, <1>3, <1>4, <1>5

\* A call of _fix_string starts in the invariant.
LEMMA FixStarts ==
    ASSUME NEW s \in SeqOf(FS!Chars, MaxString), NEW l \in Nat, NEW same \in BOOLEAN,
           FS!Start(s, l, same)
    PROVE  FixInv
  <1>1. s \in Seq(FS!Chars) /\ Len(s) <= MaxString
    <2>1. PICK m \in 0..MaxString : s \in [1..m -> FS!Chars]
      BY DEF SeqOf
    <2>2. MaxString \in Nat
      BY StatementsAssumption
    <2>3. m \in Nat /\ m <= MaxString
      BY <2>2
    <2> QED
      BY <2>1, <2>3, FunctionSeq
  <1>2. /\ string = s /\ len = l /\ shared = same /\ src = FS!InMemory(s)
        /\ dst = (IF shared THEN src ELSE [k \in FS!Positions |-> "NUL"])
        /\ pc = "count" /\ iter = 0 /\ fixed_string_len = 0 /\ outside = {}
    BY DEF FS!Start
  <1>3. src \in Memory /\ dst \in Memory /\ (shared => src = dst)
    BY <1>1, <1>2, MemoryAt DEF Memory, Cells
  <1>4. ~FS!StartsWithQuote => Width(s, 0 + 1) = 1
    <2>1. Width(s, 0) = 0
          /\ Width(s, 0 + 1) = Width(s, 0)
                + (IF 0 + 1 <= Len(s) /\ s[0 + 1] = "quote" THEN 2 ELSE 1)
      BY <1>1, WidthStep
    <2>2. ~FS!StartsWithQuote => ~(0 + 1 <= Len(s) /\ s[0 + 1] = "quote")
      BY <1>1, <1>2 DEF FS!StartsWithQuote
    <2> QED
      BY <2>1, <2>2
  <1>5. ~FS!StartsWithQuote => fixed_string_len = Width(string, iter + 1) - 1
    BY <1>2, <1>4
  <1>6. iter \in 0..Len(string)
    BY <1>1, <1>2
  <1> QED
    BY <1>1, <1>2, <1>3, <1>5, <1>6 DEF FixInv

\* Every step of _fix_string keeps it.
LEMMA FixStep ==
    ASSUME FixInv, FS!Next
    PROVE  FixInv'
  <1> DEFINE n == Len(string)
  <1>1. /\ string \in Seq(FS!Chars) /\ Len(string) <= MaxString /\ n \in Nat
        /\ len \in Nat
    BY DEF FixInv
  <1>2. /\ string' = string /\ len' = len /\ shared' = shared
        /\ FS!StartsWithQuote' = FS!StartsWithQuote
    BY DEF FS!Next, FS!Count, FS!Counted, FS!Copy, FS!Copied, FS!StartsWithQuote
  <1>3. CASE FS!StartsWithQuote
    BY <1>1, <1>2, <1>3 DEF FixInv
  <1> SUFFICES ASSUME ~FS!StartsWithQuote PROVE FixInv'
    BY <1>3
  <1>4. \A k \in 0..n : FS!InMemory(string)[k] = IF k < n THEN string[k + 1] ELSE "NUL"
    BY <1>1, MemoryAt
  <1>5. \A k \in 1..n : string[k] # "NUL"
    <2>1. \A k \in 1..n : string[k] \in FS!Chars
      BY <1>1
    <2> QED
      BY <2>1 DEF FS!Chars
  <1>6. \A k \in Nat : /\ Width(string, k) \in Nat
                       /\ Width(string, k + 1) = Width(string, k)
                            + (IF k + 1 <= n /\ string[k + 1] = "quote" THEN 2 ELSE 1)
    BY <1>1, WidthStep
  <1>7. Width(string, n + 1) = Width(string, n) + 1
    BY <1>1, <1>6
  <1>8. CASE FS!Count
    <2>1. /\ pc = "count" /\ iter' = iter + 1 /\ pc' = "count" /\ src[iter] # "NUL"
          /\ fixed_string_len' = fixed_string_len
                + (IF src[iter + 1] = "quote" THEN 2 ELSE 1)
          /\ UNCHANGED <<src, dst, outside>>
      BY <1>8 DEF FS!Count
    <2>2. /\ iter \in 0..n /\ src = FS!InMemory(string)
          /\ fixed_string_len = Width(string, iter + 1) - 1
      BY <2>1 DEF FixInv
    <2>3. iter < n /\ iter + 1 \in 0..n
      BY <1>1, <1>4, <2>1, <2>2
    <2>4. src[iter + 1] = IF iter + 1 < n THEN string[iter + 2] ELSE "NUL"
      <3> DEFINE j == iter + 1
      <3>1. j \in 0..n /\ j + 1 = iter + 2
        BY <1>1, <2>2, <2>3
      <3> HIDE DEF j
      <3>2. src[j] = IF j < n THEN string[j + 1] ELSE "NUL"
        BY <1>4, <2>2, <3>1
      <3> QED
        BY <3>1, <3>2 DEF j
    <2>5. Width(string, iter + 2) = Width(string, iter + 1)
             + (IF iter + 2 <= n /\ string[iter + 2] = "quote" THEN 2 ELSE 1)
      <3> DEFINE j == iter + 1
      <3>1. j \in Nat /\ j + 1 = iter + 2
        BY <1>1, <2>2, <2>3
      <3> HIDE DEF j
      <3>2. Width(string, j + 1) = Width(string, j)
               + (IF j + 1 <= n /\ string[j + 1] = "quote" THEN 2 ELSE 1)
        BY <1>6, <3>1
      <3> QED
        BY <3>1, <3>2 DEF j
    <2>6. fixed_string_len' = Width(string, iter' + 1) - 1
      <3>1. iter' + 1 = iter + 2 /\ (iter + 1 < n <=> iter + 2 <= n)
        BY <1>1, <2>1, <2>2
      <3>2. Width(string, iter + 1) \in Nat
        BY <1>1, <1>6, <2>2
      <3> QED
        BY <2>1, <2>2, <2>4, <2>5, <3>1, <3>2
    <2> QED
      BY <1>1, <1>2, <2>1, <2>2, <2>3, <2>6 DEF FixInv
  <1>9. CASE FS!Counted
    <2>1. /\ pc = "count" /\ src[iter] = "NUL" /\ pc' \in {"too_long", "copy"}
          /\ pc' = "too_long" <=> fixed_string_len >= len
          /\ pc' = "copy" => i' = fixed_string_len
          /\ UNCHANGED <<src, dst, iter, fixed_string_len, outside>>
      BY <1>9 DEF FS!Counted
    <2>2. /\ iter \in 0..n /\ src = FS!InMemory(string)
          /\ fixed_string_len = Width(string, iter + 1) - 1
      BY <2>1 DEF FixInv
    <2>3. iter = n
      BY <1>1, <1>4, <1>5, <2>1, <2>2
    <2>4. /\ fixed_string_len = Width(string, n) /\ Width(string, n) \in Nat
          /\ iter \in -1..n
      <3>1. Width(string, n) \in Nat
        BY <1>1, <1>6
      <3>2. fixed_string_len = Width(string, n + 1) - 1
        BY <2>2, <2>3
      <3>3. fixed_string_len = Width(string, n)
        BY <1>7, <3>1, <3>2
      <3>4. iter \in -1..n
        BY <1>1, <2>2
      <3> QED
        BY <3>1, <3>3, <3>4
    <2>5. \A k \in 0..iter : src[k] = FS!InMemory(string)[k]
      BY <2>2
    <2> QED
      BY <1>1, <1>2, <2>1, <2>2, <2>4, <2>5 DEF FixInv
  <1>10. CASE FS!Copied
    <2>1. /\ pc = "copy" /\ i < 0 /\ pc' = "ok"
          /\ UNCHANGED <<src, dst, iter, i, fixed_string_len, outside>>
      BY <1>10 DEF FS!Copied
    <2>2. /\ iter \in -1..n /\ i = Width(string, iter + 1) - 1
          /\ fixed_string_len = Width(string, n) /\ fixed_string_len < len
          /\ \A k \in (i + 1)..fixed_string_len :
                dst[k] = FS!InMemory(FS!Doubled(string))[k]
      BY <2>1 DEF FixInv
    <2>3. iter + 1 \in Nat
      BY <1>1, <2>2
    <2>4. Width(string, iter + 1) \in Nat
      BY <1>6, <2>3
    <2>5. i = -1 /\ i + 1 = 0
      BY <2>1, <2>2, <2>4
    <2>6. \A k \in 0..fixed_string_len : dst[k] = FS!InMemory(FS!Doubled(string))[k]
      BY <2>2, <2>5
    <2> QED
      BY <1>1, <1>2, <2>1, <2>2, <2>6 DEF FixInv
  <1>11. CASE FS!Copy
    <2> DEFINE ch == src[iter]
               first == IF ch = "quote" THEN i - 1 ELSE i
               new == [dst EXCEPT ![i] = ch, ![first] = ch]
               D == FS!InMemory(FS!Doubled(string))
    <2>1. /\ pc = "copy" /\ i >= 0 /\ pc' = "copy" /\ dst' = new
          /\ src' = (IF shared THEN new ELSE src) /\ i' = first - 1
          /\ outside' = outside \cup ((first .. i) \ (0 .. len - 1))
          /\ iter' = iter - 1 /\ fixed_string_len' = fixed_string_len
      BY <1>11 DEF FS!Copy
    <2>2. /\ iter \in -1..n /\ i = Width(string, iter + 1) - 1
          /\ fixed_string_len = Width(string, n) /\ fixed_string_len < len
          /\ \A k \in (i + 1)..fixed_string_len : dst[k] = D[k]
          /\ \A k \in 0..iter : src[k] = FS!InMemory(string)[k]
          /\ src \in Memory /\ dst \in Memory /\ (shared => src = dst) /\ outside = {}
          /\ shared \in BOOLEAN
      BY <2>1 DEF FixInv
    <2>3. iter \in 0..n
      <3>1. iter = -1 => i = -1
        <4>1. iter = -1 => iter + 1 = 0
          BY <2>2
        <4>2. Width(string, 0) = 0
          BY <1>1, WidthStep
        <4> QED
          BY <2>2, <4>1, <4>2
      <3> QED
        BY <1>1, <2>1, <2>2, <3>1
    <2>4. ch = FS!InMemory(string)[iter] /\ ch = IF iter < n THEN string[iter + 1] ELSE "NUL"
      BY <1>4, <2>2, <2>3
    <2>5. /\ i \in 0..Width(string, n) /\ D[i] = ch
          /\ ch = "quote" => i - 1 \in 0..Width(string, n) /\ D[i - 1] = ch
      <3> DEFINE w == Width(string, iter + 1)
      <3>1. /\ w - 1 \in 0..Width(string, n) /\ D[w - 1] = FS!InMemory(string)[iter]
            /\ FS!InMemory(string)[iter] = "quote" =>
                  w - 2 \in 0..Width(string, n) /\ D[w - 2] = "quote"
        BY <1>1, <2>3, DoubledAt
      <3>2. w \in Nat
        BY <1>1, <1>6, <2>3
      <3>3. i = w - 1 /\ i - 1 = w - 2
        BY <2>2, <3>2
      <3> HIDE DEF w, D, ch
      <3> QED
        BY <2>4, <3>1, <3>3
    <2>6. /\ Width(string, iter) \in Nat /\ Width(string, iter) >= iter
          /\ Width(string, iter + 1) = Width(string, iter) + (IF ch = "quote" THEN 2 ELSE 1)
      <3>1. Width(string, iter + 1) = Width(string, iter)
               + (IF iter + 1 <= n /\ string[iter + 1] = "quote" THEN 2 ELSE 1)
            /\ Width(string, iter) \in Nat /\ Width(string, iter) >= iter
        BY <1>1, <2>3, WidthStep
      <3>2. iter + 1 <= n <=> iter < n
        BY <1>1, <2>3
      <3> QED
        BY <2>4, <3>1, <3>2
    <2> HIDE DEF D
    <2>7. first \in Int /\ i \in Int /\ first <= i /\ first >= iter
      BY <2>2, <2>3, <2>6
    <2>8. first = Width(string, iter) /\ i' = Width(string, iter' + 1) - 1
          /\ iter' \in -1..n
      <3>1. first = Width(string, iter)
        BY <2>2, <2>6
      <3>2. iter' + 1 = iter /\ iter' \in -1..n
        BY <1>1, <2>1, <2>3
      <3> QED
        BY <2>1, <3>1, <3>2
    <2>9. outside' = {}
      <3>1. Width(string, n) \in Nat
        BY <1>1, <1>6
      <3>2. \A k \in first..i : k \in 0..len - 1
        BY <1>1, <2>2, <2>3, <2>5, <2>7, <3>1
      <3> QED
        BY <2>1, <2>2, <3>2
    <2>10. Width(string, n) <= 2 * MaxString /\ \A k \in 0..Width(string, n) : k \in FS!Positions
      <3>1. Width(string, n) \in Nat /\ Width(string, n) <= 2 * n
        BY <1>1, WidthStep
      <3>2. MaxString \in Nat
        BY StatementsAssumption
      <3>3. Width(string, n) <= 2 * MaxString
        BY <1>1, <3>1, <3>2
      <3>4. \A k \in 0..(2 * MaxString) : k \in FS!Positions
        BY <1>1, MemoryAt
      <3> QED
        BY <3>1, <3>2, <3>3, <3>4
    <2>11. ch \in Cells /\ ch = src[iter]
      <3>1. iter \in FS!Positions
        BY <1>1, <2>3, MemoryAt
      <3> QED
        BY <2>2, <3>1 DEF Memory
    <2> HIDE DEF ch
    <2>12. new \in Memory
      BY <2>2, <2>11 DEF Memory
    <2>13. \A k \in FS!Positions : new[k] = IF k \in {i, first} THEN ch ELSE dst[k]
      BY <2>2 DEF Memory
    <2> HIDE DEF new
    <2>14. \A k \in 0..iter' : src'[k] = FS!InMemory(string)[k]
      <3> SUFFICES ASSUME NEW k \in 0..iter' PROVE src'[k] = FS!InMemory(string)[k]
        OBVIOUS
      <3>1. k \in 0..iter /\ k \in 0..n /\ k < iter
        BY <1>1, <2>1, <2>3
      <3>2. k \notin {i, first}
        BY <2>3, <2>7, <3>1
      <3>3. k \in FS!Positions
        BY <1>1, <3>1, MemoryAt
      <3>4. new[k] = dst[k]
        BY <2>13, <3>2, <3>3
      <3> QED
        BY <2>1, <2>2, <3>1, <3>4
    <2>15. \A k \in (i' + 1)..fixed_string_len : dst'[k] = D[k]
      <3> SUFFICES ASSUME NEW k \in (i' + 1)..fixed_string_len PROVE new[k] = D[k]
        BY <2>1
      <3>1. i' + 1 = first /\ first \in Int
        BY <2>1, <2>7
      <3>2. k \in 0..Width(string, n) /\ k >= first
        <4>1. Width(string, n) \in Nat
          BY <1>1, <1>6
        <4> QED
          BY <2>2, <2>3, <2>7, <3>1, <4>1
      <3>3. k \in FS!Positions
        BY <2>10, <3>2
      <3>4. CASE k = i
        BY <2>5, <2>13, <3>3, <3>4
      <3>5. CASE k = first /\ k # i
        BY <2>5, <2>13, <3>3, <3>5
      <3>6. CASE k # i /\ k # first
        <4>1. k \in (i + 1)..fixed_string_len
          BY <2>2, <2>7, <3>1, <3>2, <3>6
        <4> QED
          BY <2>2, <2>13, <3>3, <3>6, <4>1
      <3> QED
        BY <3>4, <3>5, <3>6
    <2>16. /\ src' \in Memory /\ dst' \in Memory /\ (shared => src' = dst')
      BY <2>1, <2>2, <2>12
    <2> QED
      BY <1>1, <1>2, <2>1, <2>2, <2>8, <2>9, <2>14, <2>15, <2>16 DEF FixInv, D
  <1> QED
    BY <1>8, <1>9, <1>10, <1>11 DEF FS!Next
\* A call without a string leaves _fix_string at its start with an empty one.
LEMMA NoString ==
    <<>> \in SeqOf(FS!Chars, MaxString)
  <1>1. MaxString \in Nat
    BY StatementsAssumption
  <1>2. 0 \in 0..MaxString
    BY <1>1
  <1>3. <<>> \in [1..0 -> FS!Chars]
    OBVIOUS
  <1> QED
    BY <1>2, <1>3 DEF SeqOf

\* Every call starts in the invariant of _fix_string.
LEMMA FixInitial ==
    ASSUME Init
    PROVE  FixInv
  <1>1. CASE call.op = "sorm_fix_string"
    <2>1. PICK s \in SeqOf(FS!Chars, MaxString), l \in 1..MaxBuffer, same \in BOOLEAN :
             FS!Start(s, l, same)
      BY <1>1 DEF Init, FS!Init, FS!SeqOf, SeqOf
    <2>2. l \in Nat
      OBVIOUS
    <2> QED
      BY <2>1, <2>2, FixStarts
  <1>2. CASE call.op # "sorm_fix_string" /\ ByColumn /\ call.filter.from = "text"
    <2>1. PICK s \in SeqOf(FS!Chars, MaxString) : FS!Start(s, max + 1, FALSE)
      BY <1>2 DEF Init
    <2>2. StmtMaxes \subseteq Nat /\ max \in StmtMaxes
      BY StatementsAssumption DEF Init
    <2>3. max + 1 \in Nat
      BY <2>2
    <2> QED
      BY <2>1, <2>3, FixStarts
  <1>3. CASE call.op # "sorm_fix_string" /\ ~(ByColumn /\ call.filter.from = "text")
    <2>1. FS!Start(<<>>, 1, FALSE)
      BY <1>3 DEF Init, Idle
    <2>2. 1 \in Nat /\ FALSE \in BOOLEAN
      OBVIOUS
    <2> QED
      BY <2>1, <2>2, NoString, FixStarts
  <1> QED
    BY <1>1, <1>2, <1>3

\* Every step of a call keeps the invariant of _fix_string.
LEMMA FixKept ==
    ASSUME FixInv, [Next]_vars
    PROVE  FixInv'
  <1>1. CASE Fix
    BY <1>1, FixStep DEF Fix
  <1>2. CASE ColumnFilter
    <2>1. /\ string' = <<>> /\ len' = 1 /\ shared' = FALSE /\ src' = FS!InMemory(<<>>)
          /\ dst' = src' /\ pc' = "count" /\ iter' = 0
          /\ fixed_string_len' = 0 /\ outside' = {}
      BY <1>2 DEF ColumnFilter, ForgetString
    <2>2. MaxString \in Nat
      BY StatementsAssumption
    <2>3. <<>> \in Seq(FS!Chars) /\ Len(<<>>) = 0 /\ Len(<<>>) <= MaxString
      BY <2>2
    <2>4. FS!InMemory(<<>>) \in Memory
      BY <2>3, MemoryAt
    <2>5. Width(<<>>, 0) = 0
          /\ Width(<<>>, 0 + 1) = Width(<<>>, 0)
                + (IF 0 + 1 <= Len(<<>>) /\ <<>>[0 + 1] = "quote" THEN 2 ELSE 1)
      <3>1. 0 \in Nat
        OBVIOUS
      <3> QED
        BY <2>3, <3>1, WidthStep
    <2>6. Width(<<>>, 1) - 1 = 0
      BY <2>3, <2>5
    <2>7. Memory' = Memory
      BY DEF Memory, Cells, FS!Positions, FS!Chars
    <2>8. fixed_string_len' = Width(string', iter' + 1) - 1
      BY <2>1, <2>6
    <2>9. src' \in Memory' /\ dst' \in Memory' /\ iter' \in 0..Len(string')
      BY <2>1, <2>3, <2>4, <2>7
    <2>10. FS!InMemory(string)' = FS!InMemory(<<>>)
      BY <2>1 DEF FS!InMemory
    <2> QED
      BY <2>1, <2>3, <2>8, <2>9, <2>10 DEF FixInv
  <1>3. CASE UNCHANGED fixVars
    BY <1>3 DEF fixVars, FixInv, FS!StartsWithQuote
  <1>4. CASE ~Fix /\ ~ColumnFilter
    <2>1. UNCHANGED fixVars
      BY <1>4 DEF Next, vars, FixReturns, Refuse, Check, snprintf, RepairLast, CutLast,
                 ToStringReturns, Prepare, PrepareFails, Run, StartBind, Bind, Bound,
                 StartList, ListItem, ListEnds, Returned
    <2> QED
      BY <1>3, <2>1
  <1> QED
    BY <1>1, <1>2, <1>4

\* sorm_fix_string, and a filter by column, double every quote of a string that
\* does not start with one, in a buffer of their own or the string's, and write
\* nothing outside it; SORM_TOO_LONG means that the result does not fit.  For
\* strings and buffers of any length.
THEOREM QuotingRight ==
    Spec => []FixedUnlessLeadingQuote
  <1>1. FixInv => FixedUnlessLeadingQuote
    <2> SUFFICES ASSUME FixInv, ~FS!StartsWithQuote PROVE FS!Fixed
      BY DEF FixedUnlessLeadingQuote, FS!FixedUnlessLeadingQuote
    <2>1. 0 \in 0..Len(string) /\ string \in Seq(FS!Chars) /\ Len(string) <= MaxString
      BY DEF FixInv
    <2>2. Len(FS!Doubled(string)) = Width(string, Len(string))
      BY <2>1, DoubledAt
    <2> QED
      BY <2>2 DEF FixInv, FS!Fixed
  <1> QED
    BY <1>1, FixInitial, FixKept, PTL DEF Spec

\* Quoting a string in its own buffer never overwrites a character before it
\* is read.
THEOREM UnreadSafe ==
    Spec => []UnreadKept
  <1>1. FixInv => UnreadKept
    BY DEF FixInv, UnreadKept, FS!UnreadKept
  <1> QED
    BY <1>1, FixInitial, FixKept, PTL DEF Spec

-----------------------------------------------------------------------------
(* _columns_name_to_select_columns.                                        *)

Pairs == Int \X Nat

\* The column p arrives in the row res at the position x, shifted by no more
\* than sk.
Arrives(x, res, sk, p) ==
    \E shift \in 0..sk : x + shift + 1 \in 1..Len(res) /\ res[x + shift + 1] = p

\* The columns of table t in the row res.
Chosen(t, res) ==
    {j \in DOMAIN Columns[t] : \E k \in 1..Len(res) : res[k] = <<t, j>>}

\* What sorm knows of table t, its positions idx and their number num, is
\* right for the row res.
TableRight(t, res, idx, num, sk) ==
    /\ idx \in [DOMAIN Columns[t] -> Nat \cup {-1}]
    /\ \A j \in DOMAIN Columns[t] : idx[j] # -1 => Arrives(idx[j], res, sk, <<t, j>>)
    /\ Chosen(t, res) = {j \in DOMAIN Columns[t] : idx[j] # -1}
    /\ num \in Nat /\ num = Cardinality(Chosen(t, res))

(***************************************************************************)
(* sorm and SQLite have counted the same columns but for those of the      *)
(* items that sorm passed over, so what comes next arrives where sorm will *)
(* look for it, shifted by those.                                          *)
(***************************************************************************)
ListInv ==
    /\ tables_num \in DOMAIN Columns
    /\ result_columns_num \in Nat /\ skipped \in Nat
    /\ result \in Seq(Pairs)
    /\ Len(result) = result_columns_num + skipped
    /\ DOMAIN columns_num = SC!Tables
    /\ DOMAIN indexes_in_result = SC!Tables
    /\ \A t \in SC!Tables :
          TableRight(t, result, indexes_in_result[t], columns_num[t], skipped)

\* What the assumption says of the columns of one table.
LEMMA ColumnsAre ==
    ASSUME NEW t \in DOMAIN Columns
    PROVE  /\ Columns[t] \in Seq(STRING) /\ Len(Columns[t]) \in Nat
           /\ DOMAIN Columns[t] = 1..Len(Columns[t])
           /\ t \in Nat /\ t >= 1 /\ t <= Len(Columns) /\ Len(Columns) \in Nat
           /\ IsFiniteSet(DOMAIN Columns[t])
           /\ Cardinality(DOMAIN Columns[t]) = Len(Columns[t])
  <1>1. Columns \in Seq(Seq(STRING))
    BY StatementsAssumption
  <1>2. /\ Columns[t] \in Seq(STRING) /\ DOMAIN Columns = 1..Len(Columns)
        /\ Len(Columns) \in Nat
    BY <1>1
  <1>3. DOMAIN Columns[t] = 1..Len(Columns[t]) /\ Len(Columns[t]) \in Nat
    BY <1>2
  <1>4. IsFiniteSet(1..Len(Columns[t])) /\ Cardinality(1..Len(Columns[t])) = Len(Columns[t])
    <2>1. 1 \in Int /\ Len(Columns[t]) \in Int
      BY <1>3
    <2>2. /\ IsFiniteSet(1..Len(Columns[t]))
          /\ Cardinality(1..Len(Columns[t]))
                = IF 1 > Len(Columns[t]) THEN 0 ELSE Len(Columns[t]) - 1 + 1
      BY <2>1, FS_Interval
    <2> QED
      BY <1>3, <2>2
  <1> QED
    BY <1>2, <1>3, <1>4

\* What follows in the row leaves the columns before it where they are.
LEMMA StillArrives ==
    ASSUME NEW res \in Seq(Pairs), NEW e \in Seq(Pairs), NEW sk \in Nat, NEW sk2 \in Nat,
           sk <= sk2, NEW x \in Nat, NEW p, Arrives(x, res, sk, p)
    PROVE  Arrives(x, res \o e, sk2, p)
  <1>1. PICK shift \in 0..sk : x + shift + 1 \in 1..Len(res) /\ res[x + shift + 1] = p
    BY DEF Arrives
  <1>2. /\ shift \in 0..sk2 /\ Len(res) \in Nat /\ Len(e) \in Nat
        /\ Len(res \o e) = Len(res) + Len(e)
    BY <1>1, ConcatProperties
  <1> DEFINE k == x + shift + 1
  <1>3. k \in 1..Len(res) /\ res[k] = p
    BY <1>1
  <1> HIDE DEF k
  <1>4. k \in 1..Len(res \o e) /\ (res \o e)[k] = res[k]
    BY <1>2, <1>3, ConcatProperties
  <1> QED
    BY <1>2, <1>3, <1>4 DEF Arrives, k

\* A column of e, the sk-th after what sorm counts, arrives.
LEMMA NowArrives ==
    ASSUME NEW res \in Seq(Pairs), NEW e \in Seq(Pairs), NEW sk \in Nat, NEW r \in Nat,
           Len(res) = r + sk, NEW b \in Nat, b + 1 <= Len(e)
    PROVE  Arrives(r + b, res \o e, sk, e[b + 1])
  <1> DEFINE k == r + b + sk + 1
  <1>1. /\ Len(res) \in Nat /\ Len(e) \in Nat /\ Len(res \o e) = Len(res) + Len(e)
        /\ k \in 1..(Len(res) + Len(e)) /\ ~(k <= Len(res)) /\ k - Len(res) = b + 1
    <2>1. Len(res) \in Nat /\ Len(e) \in Nat
      OBVIOUS
    <2>2. Len(res \o e) = Len(res) + Len(e)
      BY ConcatProperties
    <2> QED
      BY <2>1, <2>2
  <1> HIDE DEF k
  <1>2. (res \o e)[k] = e[b + 1]
    BY <1>1, ConcatProperties
  <1>3. sk \in 0..sk /\ r + b + sk + 1 = k
    BY DEF k
  <1> QED
    BY <1>1, <1>2, <1>3 DEF Arrives

\* A row that grows selects what it had and what it gains.
LEMMA ChosenConcat ==
    ASSUME NEW t, NEW res \in Seq(Pairs), NEW e \in Seq(Pairs)
    PROVE  Chosen(t, res \o e) = Chosen(t, res) \cup Chosen(t, e)
  <1>1. /\ Len(res) \in Nat /\ Len(e) \in Nat /\ Len(res \o e) = Len(res) + Len(e)
        /\ \A k \in 1..(Len(res) + Len(e)) :
              (res \o e)[k] = IF k <= Len(res) THEN res[k] ELSE e[k - Len(res)]
    BY ConcatProperties
  <1>2. ASSUME NEW j \in Chosen(t, res) PROVE j \in Chosen(t, res \o e)
    <2>1. PICK k \in 1..Len(res) : res[k] = <<t, j>>
      BY DEF Chosen
    <2>2. k \in 1..Len(res \o e) /\ (res \o e)[k] = res[k]
      BY <1>1
    <2> QED
      BY <2>1, <2>2 DEF Chosen
  <1>3. ASSUME NEW j \in Chosen(t, e) PROVE j \in Chosen(t, res \o e)
    <2>1. PICK k \in 1..Len(e) : e[k] = <<t, j>>
      BY DEF Chosen
    <2> DEFINE m == Len(res) + k
    <2>2. m \in 1..(Len(res) + Len(e)) /\ ~(m <= Len(res)) /\ m - Len(res) = k
      BY <1>1
    <2> HIDE DEF m
    <2>3. m \in 1..Len(res \o e) /\ (res \o e)[m] = e[k]
      BY <1>1, <2>2
    <2> QED
      BY <2>1, <2>3 DEF Chosen
  <1>4. ASSUME NEW j \in Chosen(t, res \o e) PROVE j \in Chosen(t, res) \cup Chosen(t, e)
    <2>1. PICK k \in 1..Len(res \o e) : (res \o e)[k] = <<t, j>>
      BY DEF Chosen
    <2>2. CASE k <= Len(res)
      <3>1. k \in 1..Len(res) /\ res[k] = <<t, j>>
        BY <1>1, <2>1, <2>2
      <3> QED
        BY <3>1 DEF Chosen
    <2>3. CASE ~(k <= Len(res))
      <3> DEFINE m == k - Len(res)
      <3>1. m \in 1..Len(e) /\ e[m] = <<t, j>>
        BY <1>1, <2>1, <2>3
      <3> HIDE DEF m
      <3> QED
        BY <3>1 DEF Chosen
    <2> QED
      BY <2>2, <2>3
  <1> QED
    BY <1>2, <1>3, <1>4

\* Nothing new of table t: what is known of it stays right.
LEMMA TableKept ==
    ASSUME NEW t \in DOMAIN Columns, NEW res \in Seq(Pairs), NEW e \in Seq(Pairs),
           NEW sk \in Nat, NEW sk2 \in Nat, sk <= sk2, NEW idx, NEW num,
           TableRight(t, res, idx, num, sk), Chosen(t, e) \subseteq Chosen(t, res)
    PROVE  TableRight(t, res \o e, idx, num, sk2)
  <1>1. Chosen(t, res \o e) = Chosen(t, res)
    <2>1. Chosen(t, res \o e) = Chosen(t, res) \cup Chosen(t, e)
      BY ChosenConcat
    <2> QED
      BY <2>1
  <1>2. ASSUME NEW j \in DOMAIN Columns[t], idx[j] # -1
        PROVE  Arrives(idx[j], res \o e, sk2, <<t, j>>)
    <2>1. idx[j] \in Nat /\ Arrives(idx[j], res, sk, <<t, j>>)
      BY <1>2 DEF TableRight
    <2> QED
      BY <2>1, StillArrives
  <1> QED
    BY <1>1, <1>2 DEF TableRight

\* Every column of table t, one after the other, is numbered afresh.
LEMMA TableNumbered ==
    ASSUME NEW t \in DOMAIN Columns, NEW res \in Seq(Pairs), NEW e \in Seq(Pairs),
           NEW sk \in Nat, NEW r \in Nat, Len(res) = r + sk, NEW b \in Nat,
           \A j \in DOMAIN Columns[t] : b + j <= Len(e) /\ e[b + j] = <<t, j>>
    PROVE  TableRight(t, res \o e, SC!Numbered(t, r + b), Len(Columns[t]), sk)
  <1> DEFINE idx == SC!Numbered(t, r + b)
  <1>1. DOMAIN Columns[t] = 1..Len(Columns[t]) /\ Len(Columns[t]) \in Nat
        /\ Cardinality(DOMAIN Columns[t]) = Len(Columns[t])
    BY ColumnsAre
  <1>2. \A j \in DOMAIN Columns[t] : idx[j] = r + b + j - 1
    BY DEF SC!Numbered
  <1>3. idx \in [DOMAIN Columns[t] -> Nat \cup {-1}]
    <2>1. \A j \in DOMAIN Columns[t] : r + b + j - 1 \in Nat
      BY <1>1
    <2> QED
      BY <2>1 DEF SC!Numbered
  <1>4. \A j \in DOMAIN Columns[t] : idx[j] # -1
    BY <1>1, <1>2
  <1>5. ASSUME NEW j \in DOMAIN Columns[t] PROVE Arrives(idx[j], res \o e, sk, <<t, j>>)
    <2> DEFINE c == b + j - 1
    <2>1. c \in Nat /\ c + 1 = b + j /\ idx[j] = r + c
      BY <1>1, <1>2
    <2>2. c + 1 <= Len(e) /\ e[c + 1] = <<t, j>>
      BY <2>1
    <2> HIDE DEF c, idx
    <2>3. Arrives(r + c, res \o e, sk, e[c + 1])
      BY <2>1, <2>2, NowArrives
    <2> QED
      BY <2>1, <2>2, <2>3
  <1>6. Chosen(t, res \o e) = DOMAIN Columns[t]
    <2>1. ASSUME NEW j \in DOMAIN Columns[t] PROVE j \in Chosen(t, e)
      <3>1. b + j \in 1..Len(e) /\ e[b + j] = <<t, j>>
        BY <1>1
      <3> QED
        BY <3>1 DEF Chosen
    <2>2. Chosen(t, res) \subseteq DOMAIN Columns[t] /\ Chosen(t, e) \subseteq DOMAIN Columns[t]
      BY DEF Chosen
    <2>3. Chosen(t, res \o e) = Chosen(t, res) \cup Chosen(t, e)
      BY ChosenConcat
    <2> QED
      BY <2>1, <2>2, <2>3
  <1> HIDE DEF idx
  <1>7. Chosen(t, res \o e) = {j \in DOMAIN Columns[t] : idx[j] # -1}
    BY <1>4, <1>6
  <1>8. TableRight(t, res \o e, idx, Len(Columns[t]), sk)
    BY <1>1, <1>3, <1>5, <1>6, <1>7 DEF TableRight
  <1> QED
    BY <1>8 DEF idx

\* A column of table t that was not in the list.
LEMMA TableGains ==
    ASSUME NEW t \in DOMAIN Columns, NEW res \in Seq(Pairs), NEW sk \in Nat, NEW r \in Nat,
           Len(res) = r + sk, NEW idx, NEW num, TableRight(t, res, idx, num, sk),
           NEW j \in DOMAIN Columns[t], idx[j] = -1
    PROVE  TableRight(t, res \o << <<t, j>> >>, [idx EXCEPT ![j] = r], num + 1, sk)
  <1> DEFINE e == << <<t, j>> >>
             new == [idx EXCEPT ![j] = r]
  <1>1. /\ idx \in [DOMAIN Columns[t] -> Nat \cup {-1}] /\ num \in Nat
        /\ num = Cardinality(Chosen(t, res))
        /\ Chosen(t, res) = {m \in DOMAIN Columns[t] : idx[m] # -1}
    BY DEF TableRight
  <1>2. e \in Seq(Pairs) /\ Len(e) = 1 /\ e[1] = <<t, j>>
    <2>1. t \in Nat /\ j \in Nat
      BY ColumnsAre
    <2>2. <<t, j>> \in Pairs
      BY <2>1 DEF Pairs
    <2> QED
      BY <2>2
  <1>3. Chosen(t, e) = {j}
    BY <1>2 DEF Chosen
  <1> HIDE DEF e
  <1>4. Chosen(t, res \o e) = Chosen(t, res) \cup {j} /\ j \notin Chosen(t, res)
    BY <1>1, <1>2, <1>3, ChosenConcat
  <1>5. Cardinality(Chosen(t, res) \cup {j}) = num + 1
    <2>1. IsFiniteSet(DOMAIN Columns[t]) /\ Chosen(t, res) \in SUBSET DOMAIN Columns[t]
      BY <1>1, ColumnsAre
    <2>2. IsFiniteSet(Chosen(t, res))
      BY <2>1, FS_Subset
    <2> QED
      BY <1>1, <1>4, <2>2, FS_AddElement
  <1>6. new \in [DOMAIN Columns[t] -> Nat \cup {-1}] /\ new[j] = r
        /\ \A m \in DOMAIN Columns[t] : m # j => new[m] = idx[m]
    BY <1>1
  <1> HIDE DEF new
  <1>7. Chosen(t, res \o e) = {m \in DOMAIN Columns[t] : new[m] # -1}
    BY <1>1, <1>4, <1>6
  <1>8. ASSUME NEW m \in DOMAIN Columns[t], new[m] # -1
        PROVE  Arrives(new[m], res \o e, sk, <<t, m>>)
    <2>1. CASE m = j
      <3>1. 0 \in Nat /\ 0 + 1 <= Len(e) /\ r + 0 = r /\ e[0 + 1] = <<t, j>>
        BY <1>2
      <3>2. Arrives(r + 0, res \o e, sk, e[0 + 1])
        BY <1>2, <3>1, NowArrives
      <3> QED
        BY <1>6, <2>1, <3>1, <3>2
    <2>2. CASE m # j
      <3>1. idx[m] \in Nat /\ Arrives(idx[m], res, sk, <<t, m>>) /\ sk <= sk
        BY <1>1, <1>6, <1>8, <2>2 DEF TableRight
      <3>2. Arrives(idx[m], res \o e, sk, <<t, m>>)
        BY <1>2, <3>1, StillArrives
      <3> QED
        BY <1>6, <2>2, <3>2
    <2> QED
      BY <2>1, <2>2
  <1>9. TableRight(t, res \o e, new, num + 1, sk)
    BY <1>1, <1>4, <1>5, <1>6, <1>7, <1>8 DEF TableRight
  <1> QED
    BY <1>9 DEF e, new

\* The first m of the sequences F, one after the other.
Upto(F, m) == FlattenSeq([k \in 1..m |-> F[k]])

\* One more sequence of F.
LEMMA UptoStep ==
    ASSUME NEW S, NEW N \in Nat, NEW F \in [1..N -> Seq(S)], NEW m \in 1..N
    PROVE  /\ Upto(F, 0) = <<>>
           /\ Upto(F, m - 1) \in Seq(S)
           /\ Upto(F, m) = Upto(F, m - 1) \o F[m]
  <1> DEFINE g == [k \in 1..(m - 1) |-> F[k]]
             h == [k \in 1..m |-> F[k]]
             a == Append(g, F[m])
  <1>1. Upto(F, 0) = <<>>
    <2>1. [k \in 1..0 |-> F[k]] = <<>>
      OBVIOUS
    <2> QED
      BY <2>1, FlattenEmpty DEF Upto
  <1>2. m - 1 \in Nat /\ m \in Nat /\ (m - 1) + 1 = m /\ F[m] \in Seq(S)
    OBVIOUS
  <1>3. g \in Seq(Seq(S)) /\ Len(g) = m - 1
    <2>1. g \in [1..(m - 1) -> Seq(S)]
      OBVIOUS
    <2> HIDE DEF g
    <2> QED
      BY <1>2, <2>1, FunctionSeq
  <1>4. h \in Seq(Seq(S)) /\ Len(h) = m
    <2>1. h \in [1..m -> Seq(S)]
      OBVIOUS
    <2> HIDE DEF h
    <2> QED
      BY <1>2, <2>1, FunctionSeq
  <1>5. \A k \in 1..(m - 1) : h[k] = g[k]
    OBVIOUS
  <1>6. h[m] = F[m]
    BY <1>2
  <1> HIDE DEF g, h
  <1>7. /\ a \in Seq(Seq(S)) /\ Len(a) = (m - 1) + 1 /\ a[(m - 1) + 1] = F[m]
        /\ \A k \in 1..(m - 1) : a[k] = g[k]
    BY <1>2, <1>3, AppendProperties
  <1> HIDE DEF a
  <1>8. \A k \in 1..Len(h) : h[k] = a[k]
    <2> SUFFICES ASSUME NEW k \in 1..m PROVE h[k] = a[k]
      BY <1>4
    <2>1. CASE k = m
      BY <1>2, <1>6, <1>7, <2>1
    <2>2. CASE k # m
      <3>1. k \in 1..(m - 1)
        BY <1>2, <2>2
      <3> QED
        BY <1>5, <1>7, <3>1
    <2> QED
      BY <2>1, <2>2
  <1>9. a \in Seq(Seq(S)) /\ Len(h) = Len(a)
    BY <1>2, <1>4, <1>7
  <1>10. h = a
    BY <1>4, <1>8, <1>9, SeqEqual
  <1>11. FlattenSeq(a) = FlattenSeq(g) \o F[m]
    BY <1>2, <1>3, FlattenAppend DEF a
  <1>12. FlattenSeq(g) \in Seq(S)
    BY <1>3, FlattenType
  <1> QED
    BY <1>1, <1>10, <1>11, <1>12 DEF Upto, g, h

\* What the assumption says of the tables.
LEMMA ColumnsFunction ==
    /\ Len(Columns) \in Nat /\ DOMAIN Columns = 1..Len(Columns) /\ Len(Columns) >= 2
    /\ Columns \in [1..Len(Columns) -> Seq(STRING)]
  <1>1. Columns \in Seq(Seq(STRING)) /\ Len(Columns) >= 2
    BY StatementsAssumption
  <1> QED
    BY <1>1

\* Where the columns of a table start when those of all tables are listed.
LEMMA BeforeStep ==
    ASSUME NEW t \in DOMAIN Columns
    PROVE  /\ SC!Before(1) = 0
           /\ SC!Before(t) \in Nat
           /\ SC!Before(t + 1) = SC!Before(t) + Len(Columns[t])
  <1>1. /\ t \in 1..Len(Columns) /\ Len(Columns) \in Nat /\ (t + 1) - 1 = t
        /\ Columns \in [1..Len(Columns) -> Seq(STRING)] /\ Columns[t] \in Seq(STRING)
    BY ColumnsFunction
  <1>2. \A m : SC!Before(m) = Len(Upto(Columns, m - 1))
    BY DEF SC!FlattenSeq, FlattenSeq, SC!Before, Upto
  <1>3. /\ Upto(Columns, 0) = <<>>
        /\ Upto(Columns, t - 1) \in Seq(STRING)
        /\ Upto(Columns, t) = Upto(Columns, t - 1) \o Columns[t]
    BY <1>1, UptoStep
  <1>4. Len(Upto(Columns, t)) = Len(Upto(Columns, t - 1)) + Len(Columns[t])
    BY <1>1, <1>3, ConcatProperties
  <1>5. SC!Before(1) = 0
    <2>1. SC!Before(1) = Len(Upto(Columns, 1 - 1)) /\ 1 - 1 = 0
      BY <1>2
    <2> QED
      BY <1>3, <2>1
  <1>6. Len(Upto(Columns, t - 1)) \in Nat
    BY <1>3
  <1> QED
    BY <1>1, <1>2, <1>4, <1>5, <1>6

\* The columns of the first m tables in a row: where each one is.
Listed(m) == Upto([t \in 1..Len(Columns) |-> SC!ColumnsOf(t)], m)

AllListed(m) ==
    /\ Listed(m) \in Seq(Pairs) /\ SC!Before(m + 1) \in Nat
    /\ Len(Listed(m)) = SC!Before(m + 1)
    /\ \A t \in 1..m : \A j \in DOMAIN Columns[t] :
          /\ SC!Before(t) \in Nat /\ SC!Before(t) + j <= Len(Listed(m))
          /\ Listed(m)[SC!Before(t) + j] = <<t, j>>

\* SQLite's expansion of table.* is the columns of the table in order.
LEMMA ColumnsOfAre ==
    ASSUME NEW t \in DOMAIN Columns
    PROVE  /\ SC!ColumnsOf(t) \in Seq(Pairs) /\ Len(SC!ColumnsOf(t)) = Len(Columns[t])
           /\ \A j \in DOMAIN Columns[t] : SC!ColumnsOf(t)[j] = <<t, j>>
  <1>1. DOMAIN Columns[t] = 1..Len(Columns[t]) /\ Len(Columns[t]) \in Nat /\ t \in Nat
    BY ColumnsAre
  <1>2. SC!ColumnsOf(t) \in [1..Len(Columns[t]) -> Pairs]
    BY <1>1 DEF SC!ColumnsOf, Pairs
  <1>3. \A j \in DOMAIN Columns[t] : SC!ColumnsOf(t)[j] = <<t, j>>
    BY DEF SC!ColumnsOf
  <1>4. SC!ColumnsOf(t) \in Seq(Pairs) /\ Len(SC!ColumnsOf(t)) = Len(Columns[t])
    BY <1>1, <1>2, FunctionSeq
  <1> QED
    BY <1>3, <1>4

\* In SQLite's expansion of * each column is where Before says.
LEMMA ListedAt ==
    ASSUME NEW n \in 0..Len(Columns)
    PROVE  AllListed(n)
  <1> DEFINE N == Len(Columns)
             F == [t \in 1..N |-> SC!ColumnsOf(t)]
             T == {m \in Nat : m <= N => AllListed(m)}
  <1>1. N \in Nat /\ DOMAIN Columns = 1..N /\ N >= 2
    BY ColumnsFunction
  <1>2. F \in [1..N -> Seq(Pairs)]
    BY <1>1, ColumnsOfAre
  <1>3. 0 \in T
    <2>1. 1 \in 1..N /\ 1 \in DOMAIN Columns
      BY <1>1
    <2>2. Upto(F, 0) = <<>>
      <3> HIDE DEF F, N, T
      <3> QED
        BY <1>1, <1>2, <2>1, UptoStep
    <2>3. SC!Before(1) = 0
      BY <2>1, BeforeStep
    <2>4. Listed(0) = <<>>
      BY <2>2 DEF Listed
    <2>5. <<>> \in Seq(Pairs) /\ Len(<<>>) = 0 /\ 0 + 1 = 1 /\ 1..0 = {}
      OBVIOUS
    <2>6. AllListed(0)
      <3> HIDE DEF N, F, T
      <3>1. Listed(0) \in Seq(Pairs) /\ Len(Listed(0)) = 0
        BY <2>4, <2>5
      <3>2. SC!Before(0 + 1) = 0
        BY <2>3, <2>5
      <3>3. \A t \in 1..0 : FALSE
        BY <2>5
      <3> QED
        BY <3>1, <3>2, <3>3 DEF AllListed
    <2> QED
      BY <2>6
  <1>4. ASSUME NEW m \in T PROVE m + 1 \in T
    <2> SUFFICES ASSUME m + 1 <= N PROVE AllListed(m + 1)
      BY DEF T
    <2> DEFINE q == m + 1
    <2>1. /\ q \in 1..N /\ q \in DOMAIN Columns /\ q - 1 = m /\ m \in Nat /\ m <= N
          /\ q \in Nat
      BY <1>1
    <2>2. AllListed(m)
      BY <2>1
    <2> HIDE DEF q
    <2>3. Listed(q) = Listed(m) \o SC!ColumnsOf(q)
      <3>1. Upto(F, q) = Upto(F, q - 1) \o F[q]
        <4>1. N \in Nat /\ q \in 1..N
          BY <1>1, <2>1
        <4> HIDE DEF F, N, T
        <4> QED
          BY <1>2, <4>1, UptoStep
      <3>2. F[q] = SC!ColumnsOf(q)
        BY <2>1
      <3> QED
        BY <2>1, <3>1, <3>2 DEF Listed
    <2>4. /\ SC!ColumnsOf(q) \in Seq(Pairs) /\ Len(SC!ColumnsOf(q)) = Len(Columns[q])
          /\ \A j \in DOMAIN Columns[q] : SC!ColumnsOf(q)[j] = <<q, j>>
      BY <2>1, ColumnsOfAre
    <2>5. /\ SC!Before(q) \in Nat /\ SC!Before(q + 1) = SC!Before(q) + Len(Columns[q])
      BY <2>1, BeforeStep
    <2>6. Len(Columns[q]) \in Nat /\ DOMAIN Columns[q] = 1..Len(Columns[q])
      BY <2>1, ColumnsAre
    <2>7. Listed(m) \in Seq(Pairs) /\ Len(Listed(m)) = SC!Before(q)
      BY <2>1, <2>2 DEF AllListed, q
    <2>8. /\ Listed(q) \in Seq(Pairs)
          /\ Len(Listed(q)) = SC!Before(q) + Len(Columns[q])
          /\ \A k \in 1..(SC!Before(q) + Len(Columns[q])) :
                Listed(q)[k] = IF k <= SC!Before(q) THEN Listed(m)[k]
                               ELSE SC!ColumnsOf(q)[k - SC!Before(q)]
      <3> DEFINE a == Listed(m)
                 c == SC!ColumnsOf(q)
      <3>1. a \in Seq(Pairs) /\ c \in Seq(Pairs)
        BY <2>4, <2>7
      <3> HIDE DEF a, c, N, F, T
      <3>2. /\ a \o c \in Seq(Pairs) /\ Len(a \o c) = Len(a) + Len(c)
            /\ \A k \in 1..(Len(a) + Len(c)) :
                  (a \o c)[k] = IF k <= Len(a) THEN a[k] ELSE c[k - Len(a)]
        BY <3>1, ConcatProperties
      <3> QED
        BY <2>3, <2>4, <2>7, <3>2 DEF a, c
    <2>9. ASSUME NEW t \in 1..q, NEW j \in DOMAIN Columns[t]
          PROVE  /\ SC!Before(t) \in Nat /\ SC!Before(t) + j <= Len(Listed(q))
                 /\ Listed(q)[SC!Before(t) + j] = <<t, j>>
      <3>1. CASE t = q
        <4> DEFINE k == SC!Before(q) + j
        <4>1. /\ k \in 1..(SC!Before(q) + Len(Columns[q])) /\ ~(k <= SC!Before(q))
              /\ k - SC!Before(q) = j
          BY SMTT(40), <2>5, <2>6, <3>1
        <4> HIDE DEF k
        <4>2. Listed(q)[k] = <<q, j>>
          BY <2>4, <2>8, <3>1, <4>1
        <4>3. k <= Len(Listed(q))
          BY <2>8, <4>1
        <4> QED
          BY <2>5, <3>1, <4>2, <4>3 DEF k
      <3>2. CASE t # q
        <4> DEFINE k == SC!Before(t) + j
        <4>1. t \in 1..m /\ t \in DOMAIN Columns
          BY <1>1, <2>1, <3>2
        <4>2. SC!Before(t) \in Nat /\ k <= Len(Listed(m)) /\ Listed(m)[k] = <<t, j>>
          BY <2>2, <4>1 DEF AllListed
        <4>3. j \in Nat /\ j >= 1
          BY <4>1, ColumnsAre
        <4>4. k \in 1..(SC!Before(q) + Len(Columns[q])) /\ k <= SC!Before(q)
              /\ k <= Len(Listed(q))
          <5>1. k \in Nat /\ k >= 1
            BY <4>2, <4>3
          <5>2. k <= SC!Before(q) /\ Len(Listed(q)) = SC!Before(q) + Len(Columns[q])
            BY <2>7, <2>8, <4>2
          <5> HIDE DEF k
          <5> QED
            BY <2>5, <2>6, <5>1, <5>2
        <4> HIDE DEF k
        <4>5. Listed(q)[k] = <<t, j>>
          BY <2>8, <4>2, <4>4
        <4> QED
          BY <4>2, <4>4, <4>5 DEF k
      <3> QED
        BY <3>1, <3>2
    <2>10. AllListed(q)
      BY <2>5, <2>6, <2>8, <2>9, SMTT(30) DEF AllListed
    <2> QED
      BY <2>10 DEF q
  <1>5. T = Nat
    <2>1. T \in SUBSET Nat
      OBVIOUS
    <2> HIDE DEF T
    <2> QED
      BY <1>3, <1>4, <2>1, SetInduction
  <1>6. n \in T /\ n <= N
    BY <1>1, <1>5
  <1> QED
    BY <1>6

\* SelectColumns has its own copy of FiniteSets.
LEMMA SameCardinality ==
    ASSUME NEW S
    PROVE  SC!Cardinality(S) = Cardinality(S)
  BY DEF SC!Cardinality, Cardinality

\* A column that SQLite takes is one of a table of the select.
LEMMA FindIs ==
    ASSUME tables_num \in DOMAIN Columns, NEW table, NEW name,
           Cardinality(SC!Matches(table, name)) = 1
    PROVE  \E t \in SC!Tables : \E j \in DOMAIN Columns[t] : SC!Find(table, name) = <<t, j>>
  <1> DEFINE M == SC!Matches(table, name)
  <1>1. /\ Len(Columns) \in Nat /\ DOMAIN Columns = 1..Len(Columns)
        /\ tables_num \in Nat /\ tables_num <= Len(Columns)
    BY ColumnsFunction
  <1>2. \A t \in SC!Tables : t \in DOMAIN Columns
    BY <1>1 DEF SC!Tables
  <1>3. \A m \in M : \E t \in SC!Tables : \E j \in DOMAIN Columns[t] : m = <<t, j>>
    BY DEF SC!Matches
  <1>4. IsFiniteSet(M)
    <2> DEFINE F == [t \in SC!Tables |-> {t} \X DOMAIN Columns[t]]
    <2>1. IsFiniteSet(SC!Tables)
      <3>1. 1 \in Int /\ tables_num \in Int
        BY <1>1
      <3> QED
        BY <3>1, FS_Interval DEF SC!Tables
    <2>2. \A t \in SC!Tables : IsFiniteSet({t} \X DOMAIN Columns[t])
      <3> SUFFICES ASSUME NEW t \in SC!Tables PROVE IsFiniteSet({t} \X DOMAIN Columns[t])
        OBVIOUS
      <3>1. IsFiniteSet(DOMAIN Columns[t])
        BY <1>2, ColumnsAre
      <3>2. IsFiniteSet({t})
        BY FS_Singleton
      <3> QED
        BY <3>1, <3>2, FS_Product
    <2>3. IsFiniteSet({{t} \X DOMAIN Columns[t] : t \in SC!Tables})
      <3> DEFINE P == {{t} \X DOMAIN Columns[t] : t \in SC!Tables}
      <3>1. F \in [SC!Tables -> P] /\ \A p \in P : \E t \in SC!Tables : F[t] = p
        OBVIOUS
      <3>2. F \in Surjection(SC!Tables, P)
        <4> HIDE DEF F, P
        <4> QED
          BY <3>1, Fun_IsSurj
      <3> HIDE DEF F, P
      <3>3. IsFiniteSet(P)
        BY <2>1, <3>2, FS_Surjection
      <3> QED
        BY <3>3 DEF P
    <2>4. IsFiniteSet(UNION {{t} \X DOMAIN Columns[t] : t \in SC!Tables})
      BY <2>2, <2>3, FS_UNION
    <2>5. M \in SUBSET (UNION {{t} \X DOMAIN Columns[t] : t \in SC!Tables})
      BY DEF SC!Matches
    <2> QED
      BY <2>4, <2>5, FS_Subset
  <1>5. PICK m : M = {m}
    <2> HIDE DEF M
    <2>1. Cardinality(M) = 1
      BY DEF M
    <2> QED
      BY <1>4, <2>1, FS_Singleton
  <1>6. PICK t \in SC!Tables : \E j \in DOMAIN Columns[t] : m = <<t, j>>
    BY <1>3, <1>5
  <1>7. PICK j \in DOMAIN Columns[t] : m = <<t, j>>
    BY <1>6
  <1>8. j \in Nat /\ t \in Nat
    BY <1>2, ColumnsAre
  <1>9. \A n \in M : m[1] < n[1] \/ (m[1] = n[1] /\ m[2] <= n[2])
    BY <1>5, <1>7, <1>8
  <1>10. SC!Find(table, name) \in M
    BY <1>5, <1>9 DEF SC!Find
  <1> QED
    BY <1>3, <1>10

\* _columns_name_to_select_columns starts in its invariant, for any tables.
LEMMA ListStarts ==
    ASSUME NEW n \in DOMAIN Columns, SC!Start(n)
    PROVE  ListInv
  <1>1. /\ tables_num = n /\ skipped = 0 /\ result_columns_num = 0 /\ result = <<>>
        /\ columns_num = [t \in SC!Tables |-> 0]
        /\ indexes_in_result = [t \in SC!Tables |-> [j \in DOMAIN Columns[t] |-> -1]]
    BY DEF SC!Start, SC!NO_INDEXES_IN_RESULT
  <1>2. <<>> \in Seq(Pairs) /\ Len(<<>>) = 0 /\ 1..0 = {}
    OBVIOUS
  <1>3. ASSUME NEW t \in SC!Tables
        PROVE  TableRight(t, result, indexes_in_result[t], columns_num[t], skipped)
    <2>1. columns_num[t] = 0 /\ indexes_in_result[t] = [j \in DOMAIN Columns[t] |-> -1]
      BY <1>1
    <2>2. Chosen(t, result) = {}
      BY <1>1, <1>2 DEF Chosen
    <2>3. Cardinality({}) = 0
      BY FS_EmptySet
    <2> DEFINE idx == indexes_in_result[t]
    <2>4. idx \in [DOMAIN Columns[t] -> Nat \cup {-1}]
          /\ \A j \in DOMAIN Columns[t] : idx[j] = -1
      BY <2>1
    <2> QED
      BY <2>1, <2>2, <2>3, <2>4 DEF TableRight
  <1> QED
    BY <1>1, <1>2, <1>3 DEF ListInv

\* Every call starts in it.
LEMMA ListInitial ==
    ASSUME Init
    PROVE  ListInv
  <1> DEFINE n == IF call.op = "select" THEN call.tables ELSE 1
  <1>1. SC!Start(n)
    BY DEF Init
  <1>2. 1 \in DOMAIN Columns /\ 2 \in DOMAIN Columns
    BY ColumnsFunction
  <1>3. call.op = "select" => call.tables \in {1, 2}
    <2>1. call \in Calls
      BY DEF Init
    <2>2. call.op = "select" => call \in Selects
      BY <2>1 DEF Calls
    <2> QED
      BY <2>2 DEF Selects
  <1>4. n \in DOMAIN Columns
    BY <1>2, <1>3
  <1> HIDE DEF n
  <1> QED
    BY <1>1, <1>4, ListStarts

\* One item of the list: the row grows by e, sorm's count and what it passed
\* over grow together with it.
LEMMA ItemStep ==
    ASSUME ListInv, NEW e \in Seq(Pairs), NEW c \in Nat, NEW s \in Nat, Len(e) = c + s,
           tables_num' = tables_num, result' = result \o e,
           result_columns_num' = result_columns_num + c, skipped' = skipped + s,
           DOMAIN columns_num' = SC!Tables, DOMAIN indexes_in_result' = SC!Tables,
           \A t \in SC!Tables :
              TableRight(t, result', indexes_in_result'[t], columns_num'[t], skipped')
    PROVE  ListInv'
  <1>1. /\ tables_num \in DOMAIN Columns /\ result_columns_num \in Nat /\ skipped \in Nat
        /\ result \in Seq(Pairs) /\ Len(result) = result_columns_num + skipped
    BY DEF ListInv
  <1>2. result' \in Seq(Pairs) /\ Len(result') = Len(result) + Len(e)
    BY <1>1, ConcatProperties
  <1>3. result_columns_num' \in Nat /\ skipped' \in Nat
        /\ Len(result') = result_columns_num' + skipped'
    BY <1>1, <1>2
  <1>4. SC!Tables' = SC!Tables
    BY DEF SC!Tables
  <1> QED
    BY <1>1, <1>2, <1>3, <1>4 DEF ListInv

\* What SQLite delivers for an item that sorm passes over holds no column that
\* sorm counts as selected.
LEMMA DeliveriesAre ==
    ASSUME tables_num \in DOMAIN Columns, NEW e \in SC!Deliveries
    PROVE  /\ e \in Seq(Pairs) /\ Len(e) \in Nat
           /\ \A t \in SC!Tables : Chosen(t, e) = {}
  <1>1. \A t \in SC!Tables : t \in DOMAIN Columns /\ t \in Nat /\ t >= 1
    BY ColumnsFunction, ColumnsAre DEF SC!Tables
  <1>2. /\ e \in Seq(Pairs) /\ Len(e) \in Nat
        /\ \A k \in 1..Len(e) : \E x \in Int : \E c : x <= 0 /\ e[k] = <<x, c>>
    <2>1. CASE e = << <<0, 0>> >>
      <3>1. <<0, 0>> \in Pairs
        BY DEF Pairs
      <3>2. e \in Seq(Pairs) /\ Len(e) = 1 /\ e[1] = <<0, 0>>
        BY <2>1, <3>1
      <3>3. \A k \in 1..Len(e) : e[k] = <<0, 0>>
        BY <3>2
      <3> QED
        BY <3>2, <3>3
    <2>2. ASSUME NEW t \in SC!Tables, NEW j \in DOMAIN Columns[t], e = << <<-t, j>> >>
          PROVE  /\ e \in Seq(Pairs) /\ Len(e) \in Nat
                 /\ \A k \in 1..Len(e) : \E x \in Int : \E c : x <= 0 /\ e[k] = <<x, c>>
      <3>1. t \in Nat /\ j \in Nat
        BY <1>1, ColumnsAre
      <3>2. <<-t, j>> \in Pairs
        BY <3>1 DEF Pairs
      <3>3. e \in Seq(Pairs) /\ Len(e) = 1 /\ e[1] = <<-t, j>>
        BY <2>2, <3>2
      <3>4. -t \in Int /\ -t <= 0 /\ \A k \in 1..Len(e) : e[k] = <<-t, j>>
        BY <3>1, <3>3
      <3> QED
        BY <3>3, <3>4
    <2>3. ASSUME NEW t \in SC!Tables, e = [j \in DOMAIN Columns[t] |-> <<-t, j>>]
          PROVE  /\ e \in Seq(Pairs) /\ Len(e) \in Nat
                 /\ \A k \in 1..Len(e) : \E x \in Int : \E c : x <= 0 /\ e[k] = <<x, c>>
      <3>1. t \in Nat /\ DOMAIN Columns[t] = 1..Len(Columns[t]) /\ Len(Columns[t]) \in Nat
        BY <1>1, ColumnsAre
      <3>2. e \in [1..Len(Columns[t]) -> Pairs]
        BY <2>3, <3>1 DEF Pairs
      <3>3. e \in Seq(Pairs) /\ Len(e) = Len(Columns[t])
        BY <3>1, <3>2
      <3>4. -t \in Int /\ -t <= 0 /\ \A k \in 1..Len(e) : e[k] = <<-t, k>>
        BY <2>3, <3>1, <3>3
      <3> QED
        BY <3>3, <3>4
    <2> QED
      BY <2>1, <2>2, <2>3 DEF SC!Deliveries, SC!EXPRESSION, SC!Unread
  <1>3. ASSUME NEW t \in SC!Tables, NEW j \in Chosen(t, e) PROVE FALSE
    <2>1. PICK k \in 1..Len(e) : e[k] = <<t, j>>
      BY <1>3 DEF Chosen
    <2>2. PICK x \in Int : \E c : x <= 0 /\ e[k] = <<x, c>>
      BY <1>2
    <2>3. t = x /\ t >= 1 /\ t \in Nat
      BY <1>1, <2>1, <2>2
    <2> QED
      BY <2>2, <2>3
  <1> QED
    BY <1>2, <1>3

\* Every item of a list keeps it.
LEMMA ListStep ==
    ASSUME ListInv, SC!Next
    PROVE  ListInv'
  <1>1. /\ tables_num \in DOMAIN Columns /\ result_columns_num \in Nat /\ skipped \in Nat
        /\ result \in Seq(Pairs) /\ Len(result) = result_columns_num + skipped
        /\ DOMAIN columns_num = SC!Tables /\ DOMAIN indexes_in_result = SC!Tables
    BY DEF ListInv
  <1>2. \A t \in SC!Tables :
           TableRight(t, result, indexes_in_result[t], columns_num[t], skipped)
    BY DEF ListInv
  <1>3. tables_num \in 0..Len(Columns) /\ \A t \in SC!Tables : t \in DOMAIN Columns
    BY <1>1, ColumnsFunction DEF SC!Tables
  <1>4. CASE SC!AllTables
    <2> DEFINE e == Listed(tables_num)
               c == SC!Before(tables_num + 1)
    <2>1. /\ tables_num' = tables_num /\ skipped' = skipped
          /\ columns_num' = [t \in SC!Tables |-> Len(Columns[t])]
          /\ indexes_in_result' =
                [t \in SC!Tables |-> SC!Numbered(t, result_columns_num + SC!Before(t))]
          /\ result_columns_num' = result_columns_num + c
          /\ result' = result \o SC!FlattenSeq([t \in SC!Tables |-> SC!ColumnsOf(t)])
      BY <1>4 DEF SC!AllTables, SC!NextItem
    <2>2. SC!FlattenSeq([t \in SC!Tables |-> SC!ColumnsOf(t)]) = e
      <3>1. SC!Tables = 1..tables_num /\ \A t \in SC!Tables : t \in 1..Len(Columns)
        BY <1>3, ColumnsFunction DEF SC!Tables
      <3>2. [t \in SC!Tables |-> SC!ColumnsOf(t)]
               = [k \in 1..tables_num |-> [t \in 1..Len(Columns) |-> SC!ColumnsOf(t)][k]]
        BY <3>1
      <3>3. \A m : SC!FlattenSeq(m) = FlattenSeq(m)
        BY DEF SC!FlattenSeq, FlattenSeq
      <3> QED
        BY <3>2, <3>3 DEF Listed, Upto
    <2>3. AllListed(tables_num)
      BY <1>3, ListedAt
    <2>4. e \in Seq(Pairs) /\ c \in Nat /\ Len(e) = c + 0
      BY <2>3 DEF AllListed
    <2>5. ASSUME NEW t \in SC!Tables
          PROVE  TableRight(t, result \o e, SC!Numbered(t, result_columns_num + SC!Before(t)),
                            Len(Columns[t]), skipped)
      <3>1. SC!Before(t) \in Nat
        BY <1>3, BeforeStep
      <3>2. \A j \in DOMAIN Columns[t] :
               SC!Before(t) + j <= Len(e) /\ e[SC!Before(t) + j] = <<t, j>>
        BY <2>3 DEF AllListed, SC!Tables
      <3> HIDE DEF e, c
      <3> QED
        BY <1>1, <1>3, <2>4, <3>1, <3>2, TableNumbered
    <2> HIDE DEF e, c
    <2>6. /\ result' = result \o e /\ DOMAIN columns_num' = SC!Tables
          /\ DOMAIN indexes_in_result' = SC!Tables
      BY <2>1, <2>2
    <2>7. \A t \in SC!Tables :
             TableRight(t, result', indexes_in_result'[t], columns_num'[t], skipped')
      BY <2>1, <2>5, <2>6
    <2>8. 0 \in Nat /\ skipped' = skipped + 0
      BY <1>1, <2>1
    <2> QED
      BY <2>1, <2>4, <2>6, <2>7, <2>8, ItemStep
  <1>5. ASSUME NEW q \in SC!Tables, SC!OneTable(q) PROVE ListInv'
    <2> DEFINE e == SC!ColumnsOf(q)
               c == Len(Columns[q])
    <2>1. /\ tables_num' = tables_num /\ skipped' = skipped
          /\ columns_num' = [columns_num EXCEPT ![q] = c]
          /\ indexes_in_result' =
                [indexes_in_result EXCEPT ![q] = SC!Numbered(q, result_columns_num)]
          /\ result_columns_num' = result_columns_num + c
          /\ result' = result \o e
      BY <1>5 DEF SC!OneTable, SC!NextItem
    <2>2. /\ e \in Seq(Pairs) /\ Len(e) = c
          /\ \A j \in DOMAIN Columns[q] : e[j] = <<q, j>>
      BY <1>3, ColumnsOfAre
    <2>3. c \in Nat /\ DOMAIN Columns[q] = 1..c
      BY <1>3, ColumnsAre
    <2>4. \A j \in DOMAIN Columns[q] : 0 + j <= Len(e) /\ e[0 + j] = <<q, j>>
      <3> SUFFICES ASSUME NEW j \in DOMAIN Columns[q]
                   PROVE  0 + j <= Len(e) /\ e[0 + j] = <<q, j>>
        OBVIOUS
      <3>1. 0 + j = j /\ j <= c
        BY <2>3
      <3> QED
        BY <2>2, <3>1
    <2>5. TableRight(q, result \o e, SC!Numbered(q, result_columns_num), c, skipped)
      <3>1. 0 \in Nat /\ result_columns_num + 0 = result_columns_num
        BY <1>1
      <3>2. TableRight(q, result \o e, SC!Numbered(q, result_columns_num + 0), c, skipped)
        <4> HIDE DEF e
        <4> QED
          BY <1>1, <1>3, <2>2, <2>4, <3>1, TableNumbered
      <3> QED
        BY <3>1, <3>2
    <2>6. ASSUME NEW t \in SC!Tables, t # q
          PROVE  TableRight(t, result \o e, indexes_in_result[t], columns_num[t], skipped)
      <3>1. Chosen(t, e) = {}
        BY <2>2, <2>3, <2>6 DEF Chosen
      <3>2. skipped <= skipped /\ Chosen(t, e) \subseteq Chosen(t, result)
        BY <1>1, <3>1
      <3> HIDE DEF e
      <3> QED
        BY <1>1, <1>2, <1>3, <2>2, <3>2, TableKept
    <2> HIDE DEF e, c
    <2>7. /\ DOMAIN columns_num' = SC!Tables /\ DOMAIN indexes_in_result' = SC!Tables
      BY <1>1, <2>1
    <2>8. \A t \in SC!Tables :
             TableRight(t, result', indexes_in_result'[t], columns_num'[t], skipped')
      <3> SUFFICES ASSUME NEW t \in SC!Tables
                   PROVE  TableRight(t, result', indexes_in_result'[t], columns_num'[t], skipped')
        OBVIOUS
      <3>1. CASE t = q
        BY <1>1, <2>1, <2>5, <3>1
      <3>2. CASE t # q
        <4>1. columns_num'[t] = columns_num[t] /\ indexes_in_result'[t] = indexes_in_result[t]
          BY <1>1, <2>1, <3>2
        <4> QED
          BY <2>1, <2>6, <3>2, <4>1
      <3> QED
        BY <3>1, <3>2
    <2>9. 0 \in Nat /\ skipped' = skipped + 0 /\ Len(e) = c + 0
      BY <1>1, <2>1, <2>2, <2>3
    <2> QED
      BY <2>1, <2>2, <2>3, <2>7, <2>8, <2>9, ItemStep
  <1>6. ASSUME NEW table, NEW name, SC!OneColumn(table, name) PROVE ListInv'
    <2>1. Cardinality(SC!Matches(table, name)) = 1
      <3>1. SC!Cardinality(SC!Matches(table, name)) = 1
        BY <1>6 DEF SC!OneColumn
      <3> QED
        BY <3>1, SameCardinality
    <2>2. PICK q \in SC!Tables : \E j \in DOMAIN Columns[q] : SC!Find(table, name) = <<q, j>>
      BY <1>1, <2>1, FindIs
    <2>3. PICK j \in DOMAIN Columns[q] : SC!Find(table, name) = <<q, j>>
      BY <2>2
    <2>4. SC!Find(table, name)[1] = q /\ SC!Find(table, name)[2] = j
      BY <2>3
    <2> DEFINE e == << <<q, j>> >>
               idx == indexes_in_result[q]
    <2>5. e \in Seq(Pairs) /\ Len(e) = 1 /\ e[1] = <<q, j>> /\ <<q, j>> \in Pairs
      <3>1. q \in Nat /\ j \in Nat
        BY <1>3, ColumnsAre
      <3>2. <<q, j>> \in Pairs
        BY <3>1 DEF Pairs
      <3> QED
        BY <3>2
    <2>6. /\ tables_num' = tables_num /\ skipped' = skipped
          /\ result_columns_num' = result_columns_num + 1
          /\ result' = Append(result, <<q, j>>)
      BY <1>6, <2>4 DEF SC!OneColumn, SC!NextItem
    <2>7. result' = result \o e
      BY <1>1, <2>5, <2>6, AppendIsConcat
    <2>8. Chosen(q, e) = {j} /\ \A t \in SC!Tables : t # q => Chosen(t, e) = {}
      BY <2>5 DEF Chosen
    <2>9. TableRight(q, result, idx, columns_num[q], skipped)
      BY <1>2
    <2>10. TableRight(q, result', indexes_in_result'[q], columns_num'[q], skipped')
           /\ DOMAIN columns_num' = SC!Tables /\ DOMAIN indexes_in_result' = SC!Tables
           /\ \A t \in SC!Tables :
                 t # q => /\ columns_num'[t] = columns_num[t]
                          /\ indexes_in_result'[t] = indexes_in_result[t]
      <3>1. CASE idx[j] = -1
        <4>1. /\ indexes_in_result' = [indexes_in_result EXCEPT ![q][j] = result_columns_num]
              /\ columns_num' = [columns_num EXCEPT ![q] = @ + 1]
          BY <1>6, <2>4, <3>1 DEF SC!OneColumn, SC!NO_INDEXES_IN_RESULT
        <4>2. TableRight(q, result \o e, [idx EXCEPT ![j] = result_columns_num],
                         columns_num[q] + 1, skipped)
          <5> HIDE DEF idx
          <5> QED
            BY <1>1, <1>3, <2>9, <3>1, TableGains
        <4>3. /\ DOMAIN columns_num' = SC!Tables /\ DOMAIN indexes_in_result' = SC!Tables
              /\ indexes_in_result'[q] = [idx EXCEPT ![j] = result_columns_num]
              /\ columns_num'[q] = columns_num[q] + 1
          BY <1>1, <4>1
        <4>4. \A t \in SC!Tables :
                 t # q => /\ columns_num'[t] = columns_num[t]
                          /\ indexes_in_result'[t] = indexes_in_result[t]
          BY <1>1, <4>1
        <4> QED
          BY <2>6, <2>7, <4>2, <4>3, <4>4
      <3>2. CASE idx[j] # -1
        <4>1. indexes_in_result' = indexes_in_result /\ columns_num' = columns_num
          BY <1>6, <2>4, <3>2 DEF SC!OneColumn, SC!NO_INDEXES_IN_RESULT
        <4>2. j \in Chosen(q, result)
          BY <2>9, <3>2 DEF TableRight
        <4>3. Chosen(q, e) \subseteq Chosen(q, result) /\ skipped <= skipped
          BY <1>1, <2>8, <4>2
        <4>4. TableRight(q, result \o e, idx, columns_num[q], skipped)
          <5> HIDE DEF e, idx
          <5> QED
            BY <1>1, <1>3, <2>5, <2>9, <4>3, TableKept
        <4> QED
          BY <1>1, <2>6, <2>7, <4>1, <4>4
      <3> QED
        BY <3>1, <3>2
    <2>11. ASSUME NEW t \in SC!Tables, t # q
           PROVE  TableRight(t, result \o e, indexes_in_result[t], columns_num[t], skipped)
      <3>1. skipped <= skipped /\ Chosen(t, e) \subseteq Chosen(t, result)
        BY <1>1, <2>8, <2>11
      <3> HIDE DEF e
      <3> QED
        BY <1>1, <1>2, <1>3, <2>5, <3>1, TableKept
    <2> HIDE DEF e, idx
    <2>12. \A t \in SC!Tables :
              TableRight(t, result', indexes_in_result'[t], columns_num'[t], skipped')
      <3> SUFFICES ASSUME NEW t \in SC!Tables
                   PROVE  TableRight(t, result', indexes_in_result'[t], columns_num'[t], skipped')
        OBVIOUS
      <3>1. CASE t = q
        BY <2>10, <3>1
      <3>2. CASE t # q
        <4>1. columns_num'[t] = columns_num[t] /\ indexes_in_result'[t] = indexes_in_result[t]
          BY <2>10, <3>2
        <4> QED
          BY <2>6, <2>7, <2>11, <3>2, <4>1
      <3> QED
        BY <3>1, <3>2
    <2>13. 0 \in Nat /\ 1 \in Nat /\ skipped' = skipped + 0 /\ Len(e) = 1 + 0
      BY <1>1, <2>5, <2>6
    <2> QED
      BY <2>5, <2>6, <2>7, <2>10, <2>12, <2>13, ItemStep
  <1>7. ASSUME NEW e \in SC!Deliveries, SC!Skip(e) PROVE ListInv'
    <2>1. /\ tables_num' = tables_num /\ skipped' = skipped + Len(e)
          /\ result_columns_num' = result_columns_num
          /\ columns_num' = columns_num /\ indexes_in_result' = indexes_in_result
          /\ result' = result \o e
      BY <1>7 DEF SC!Skip, SC!NextItem
    <2>2. /\ e \in Seq(Pairs) /\ Len(e) \in Nat
          /\ \A t \in SC!Tables : Chosen(t, e) = {}
      BY <1>1, DeliveriesAre
    <2>3. ASSUME NEW t \in SC!Tables
          PROVE  TableRight(t, result \o e, indexes_in_result[t], columns_num[t],
                            skipped + Len(e))
      <3>1. /\ skipped + Len(e) \in Nat /\ skipped <= skipped + Len(e)
            /\ Chosen(t, e) \subseteq Chosen(t, result)
        BY <1>1, <2>2
      <3> QED
        BY <1>1, <1>2, <1>3, <2>2, <3>1, TableKept
    <2>4. /\ 0 \in Nat /\ Len(e) = 0 + Len(e)
          /\ result_columns_num' = result_columns_num + 0
          /\ DOMAIN columns_num' = SC!Tables /\ DOMAIN indexes_in_result' = SC!Tables
      BY <1>1, <2>1, <2>2
    <2>5. \A t \in SC!Tables :
             TableRight(t, result', indexes_in_result'[t], columns_num'[t], skipped')
      BY <2>1, <2>3
    <2> QED
      BY <2>1, <2>2, <2>4, <2>5, ItemStep
  <1> QED
    BY <1>4, <1>5, <1>6, <1>7 DEF SC!Next

\* Every step of a call keeps it.
LEMMA ListKept ==
    ASSUME ListInv, [Next]_vars
    PROVE  ListInv'
  <1>1. CASE ListItem
    BY <1>1, ListStep DEF ListItem
  <1>2. CASE UNCHANGED listVars
    BY <1>2 DEF listVars, ListInv, SC!Tables
  <1>3. CASE ~ListItem
    <2>1. UNCHANGED listVars
      BY <1>3 DEF Next, vars, Fix, FixReturns, ColumnFilter, Refuse, Check, snprintf,
                 RepairLast, CutLast, ToStringReturns, Prepare, PrepareFails, Run,
                 StartBind, Bind, Bound, StartList, ListEnds, Returned
    <2> QED
      BY <1>2, <2>1
  <1> QED
    BY <1>1, <1>3

\* A select reads every column at the position where SQLite delivers it,
\* whatever mix of *, table.*, columns and unknown names the list is: an item
\* that sorm passes over shifts the ones after it, by no more than the columns
\* that such items deliver.  For lists of any length over tables of any width.
THEOREM PositionsFollowList ==
    Spec => []PositionsRight
  <1>1. ListInv => PositionsRight
    <2> SUFFICES ASSUME ListInv, NEW t \in SC!Tables, NEW j \in DOMAIN Columns[t],
                        indexes_in_result[t][j] # -1
                 PROVE  \E shift \in 0..skipped :
                           /\ indexes_in_result[t][j] + shift + 1 \in DOMAIN result
                           /\ result[indexes_in_result[t][j] + shift + 1] = <<t, j>>
      BY DEF PositionsRight, SC!PositionsRight, SC!NO_INDEXES_IN_RESULT
    <2>1. Arrives(indexes_in_result[t][j], result, skipped, <<t, j>>)
      BY DEF ListInv, TableRight
    <2>2. DOMAIN result = 1..Len(result)
      BY DEF ListInv
    <2> QED
      BY <2>1, <2>2 DEF Arrives
  <1> QED
    BY <1>1, ListInitial, ListKept, PTL DEF Spec

\* The columns sorm reads of a table are exactly those that the items it
\* understands select, and columns_num is their number, also when a column is
\* listed twice or comes from an item passed over as well.
THEOREM SelectionFollowsList ==
    Spec => []SelectionRight
  <1>1. ListInv => SelectionRight
    <2> SUFFICES ASSUME ListInv, NEW t \in SC!Tables
                 PROVE  LET selected == {j \in DOMAIN Columns[t] :
                                            <<t, j>> \in SC!Range(result)}
                        IN /\ selected = {j \in DOMAIN Columns[t] :
                                             indexes_in_result[t][j] # -1}
                           /\ columns_num[t] = Cardinality(selected)
      BY SameCardinality DEF SelectionRight, SC!SelectionRight, SC!NO_INDEXES_IN_RESULT
    <2>1. DOMAIN result = 1..Len(result)
      BY DEF ListInv
    <2>2. {j \in DOMAIN Columns[t] : <<t, j>> \in SC!Range(result)} = Chosen(t, result)
      BY <2>1 DEF Chosen, SC!Range
    <2>3. TableRight(t, result, indexes_in_result[t], columns_num[t], skipped)
      BY DEF ListInv
    <2> QED
      BY <2>2, <2>3 DEF TableRight
  <1> QED
    BY <1>1, ListInitial, ListKept, PTL DEF Spec
=============================================================================
