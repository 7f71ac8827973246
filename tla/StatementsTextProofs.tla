------------------------ MODULE StatementsTextProofs ------------------------
(***************************************************************************)
(* What the prints of a call add up to, for every table, every length of a *)
(* name and every SQL_STMT_MAX_LEN:                                        *)
(*   StatementsWhole    SQLite compiles the whole statement of the call    *)
(*   TooLongJustified   SORM_TOO_LONG is returned only when it has no room *)
(*                                                                         *)
(* A call runs a program of prints and repairs.  Runs(p, a, b, limit) says *)
(* that the steps p turn the buffer a into b and never need more than      *)
(* limit bytes; ProgramMakes shows, call by call, that the whole program   *)
(* turns the empty buffer into the wanted text.  WholeInv follows a call   *)
(* through its program.                                                    *)
(***************************************************************************)
EXTENDS StatementsRoomProofs

\* A text has a length.
LEMMA LengthNat ==
    ASSUME NEW text \in Seq(Pieces)
    PROVE  Length(text) \in Nat
  <1>1. PICK f \in [0..Len(text) -> Nat] : Length(text) = f[Len(text)]
    BY LengthMeasured
  <1>2. Len(text) \in 0..Len(text)
    OBVIOUS
  <1> QED
    BY <1>1, <1>2

\* The last element of the second sequence is the last of both.
LEMMA AppendBehind ==
    ASSUME NEW X, NEW a \in Seq(X), NEW b \in Seq(X), NEW x \in X
    PROVE  a \o Append(b, x) = Append(a \o b, x)
  OBVIOUS

-----------------------------------------------------------------------------
(* What a program makes of the buffer.                                     *)

At(t, o) == [text |-> t, offset |-> o]
On(t) == At(t, Length(t))
Buffers == [text : Seq(Pieces), offset : Nat]

\* The buffer after a step that has room.
After(s, a) ==
    CASE s.do = "print" -> At(a.text \o s.pieces, a.offset + Length(s.pieces))
      [] s.do = "repair" -> At(Append(Shorten(a.text, 1), s.with), a.offset)
      [] s.do = "cut" -> At(Shorten(a.text, s.n),
                            IF s.back THEN a.offset - s.n ELSE a.offset)

Says == [do : {"print"}, room : {"rest", "more", "whole"}, pieces : Seq(Pieces)]
AnyStep == Says \cup Fixes

\* The program p makes b of a, and never needs more than limit bytes.
Runs(p, a, b, limit) ==
    p \in Seq(AnyStep) /\ \E f \in [0..Len(p) -> Buffers] :
        /\ f[0] = a /\ f[Len(p)] = b
        /\ \A k \in 1..Len(p) : f[k] = After(p[k], f[k - 1])
        /\ \A k \in 0..Len(p) : f[k].offset <= limit

\* A program without steps leaves the buffer as it is.
LEMMA RunsNone ==
    ASSUME NEW a \in Buffers, NEW limit \in Nat, a.offset <= limit
    PROVE  Runs(<<>>, a, a, limit)
  <1> DEFINE f == [k \in 0..0 |-> a]
  <1>1. Len(<<>>) = 0 /\ f \in [0..0 -> Buffers] /\ f[0] = a /\ <<>> \in Seq(AnyStep)
    OBVIOUS
  <1>2. \A k \in 0..0 : f[k].offset <= limit
    OBVIOUS
  <1>3. 1..0 = {}
    OBVIOUS
  <1> HIDE DEF f
  <1> QED
    BY <1>1, <1>2, <1>3 DEF Runs

\* At its end it has made what it was to make.
LEMMA RunsEnd ==
    ASSUME NEW a, NEW b, NEW limit, Runs(<<>>, a, b, limit)
    PROVE  a = b
  <1>1. Len(<<>>) = 0
    OBVIOUS
  <1> QED
    BY <1>1 DEF Runs

\* Its first step, and what is left.
LEMMA RunsFirst ==
    ASSUME NEW p, p # <<>>, NEW a, NEW b, NEW limit, Runs(p, a, b, limit)
    PROVE  /\ After(Head(p), a) \in Buffers /\ After(Head(p), a).offset <= limit
           /\ a \in Buffers
           /\ Runs(Tail(p), After(Head(p), a), b, limit)
  <1> DEFINE n == Len(p)
             q == Tail(p)
  <1>0. p \in Seq(AnyStep)
    BY DEF Runs
  <1>1. /\ Head(p) = p[1] /\ q \in Seq(AnyStep) /\ Len(q) = n - 1 /\ n \in Nat /\ n >= 1
        /\ \A k \in 1..(n - 1) : q[k] = p[k + 1]
    BY <1>0, TailIs
  <1>2. PICK f \in [0..n -> Buffers] :
           /\ f[0] = a /\ f[n] = b
           /\ \A k \in 1..n : f[k] = After(p[k], f[k - 1])
           /\ \A k \in 0..n : f[k].offset <= limit
    BY DEF Runs
  <1> DEFINE g == [k \in 0..(n - 1) |-> f[k + 1]]
  <1>3. 1 \in 1..n /\ 1 \in 0..n /\ 0 \in 0..n /\ 1 - 1 = 0
    BY <1>1
  <1>4. f[1] = After(Head(p), a) /\ f[1] \in Buffers /\ f[1].offset <= limit /\ a \in Buffers
    BY <1>1, <1>2, <1>3
  <1>5. g \in [0..(n - 1) -> Buffers]
    <2>1. \A k \in 0..(n - 1) : k + 1 \in 0..n
      BY <1>1
    <2> QED
      BY <2>1
  <1>6. g[0] = f[1] /\ g[n - 1] = b
    <2>1. 0 \in 0..(n - 1) /\ n - 1 \in 0..(n - 1) /\ 0 + 1 = 1 /\ (n - 1) + 1 = n
      BY <1>1
    <2> QED
      BY <1>2, <2>1
  <1>7. ASSUME NEW k \in 1..(n - 1) PROVE g[k] = After(q[k], g[k - 1])
    <2> DEFINE j == k + 1
    <2>1. j \in 1..n /\ j - 1 = k /\ k \in 0..(n - 1) /\ k - 1 \in 0..(n - 1)
          /\ (k - 1) + 1 = k
      BY <1>1
    <2>2. g[k] = f[j] /\ g[k - 1] = f[k] /\ q[k] = p[j]
      BY <1>1, <2>1
    <2> HIDE DEF j, g
    <2>3. f[j] = After(p[j], f[j - 1])
      BY <1>2, <2>1
    <2> QED
      BY <2>1, <2>2, <2>3
  <1>8. ASSUME NEW k \in 0..(n - 1) PROVE g[k].offset <= limit
    <2>1. k + 1 \in 0..n
      BY <1>1
    <2>2. f[k + 1].offset <= limit
      BY <1>2, <2>1
    <2> QED
      BY <2>2
  <1> HIDE DEF g, n, q
  <1>9. Runs(q, f[1], b, limit)
    BY <1>1, <1>5, <1>6, <1>7, <1>8 DEF Runs
  <1> QED
    BY <1>4, <1>9 DEF q

\* A program of one step.
LEMMA RunsOne ==
    ASSUME NEW s \in AnyStep, NEW a \in Buffers, NEW b \in Buffers, NEW limit, b = After(s, a),
           a.offset <= limit, b.offset <= limit
    PROVE  Runs(<<s>>, a, b, limit)
  <1> DEFINE f == [k \in 0..1 |-> IF k = 0 THEN a ELSE b]
  <1>1. Len(<<s>>) = 1 /\ <<s>>[1] = s /\ f \in [0..1 -> Buffers] /\ f[0] = a /\ f[1] = b
    OBVIOUS
  <1>2. \A k \in 0..1 : f[k].offset <= limit
    OBVIOUS
  <1>3. \A k \in 1..1 : k = 1 /\ k - 1 = 0
    OBVIOUS
  <1> HIDE DEF f
  <1>4. \A k \in 1..1 : f[k] = After(<<s>>[k], f[k - 1])
    BY <1>1, <1>3
  <1>5. <<s>> \in Seq(AnyStep)
    BY Parts
  <1> QED
    BY <1>1, <1>2, <1>4, <1>5 DEF Runs

\* One program after the other.
LEMMA RunsOn ==
    ASSUME NEW p, NEW q, NEW a, NEW b, NEW c, NEW limit,
           Runs(p, a, b, limit), Runs(q, b, c, limit)
    PROVE  Runs(p \o q, a, c, limit)
  <1> DEFINE m == Len(p)
             n == Len(q)
             r == p \o q
  <1>0. p \in Seq(AnyStep) /\ q \in Seq(AnyStep)
    BY DEF Runs
  <1>1. /\ m \in Nat /\ n \in Nat /\ Len(r) = m + n /\ r \in Seq(AnyStep)
        /\ \A k \in 1..(m + n) : r[k] = IF k <= m THEN p[k] ELSE q[k - m]
    BY <1>0, ConcatProperties
  <1>2. PICK f \in [0..m -> Buffers] :
           /\ f[0] = a /\ f[m] = b
           /\ \A k \in 1..m : f[k] = After(p[k], f[k - 1])
           /\ \A k \in 0..m : f[k].offset <= limit
    BY DEF Runs
  <1>3. PICK g \in [0..n -> Buffers] :
           /\ g[0] = b /\ g[n] = c
           /\ \A k \in 1..n : g[k] = After(q[k], g[k - 1])
           /\ \A k \in 0..n : g[k].offset <= limit
    BY DEF Runs
  <1> DEFINE h == [k \in 0..(m + n) |-> IF k <= m THEN f[k] ELSE g[k - m]]
  <1>4. h \in [0..(m + n) -> Buffers]
    <2> SUFFICES ASSUME NEW k \in 0..(m + n)
                 PROVE  (IF k <= m THEN f[k] ELSE g[k - m]) \in Buffers
      OBVIOUS
    <2>1. CASE k <= m
      BY <1>1, <2>1
    <2>2. CASE ~(k <= m)
      <3>1. k - m \in 0..n
        BY <1>1, <2>2
      <3> QED
        BY <2>2, <3>1
    <2> QED
      BY <2>1, <2>2
  <1>5. h[0] = a
    BY <1>1, <1>2
  <1>6. \A k \in 0..n : m + k \in 0..(m + n) /\ h[m + k] = g[k]
    <2> SUFFICES ASSUME NEW k \in 0..n PROVE m + k \in 0..(m + n) /\ h[m + k] = g[k]
      OBVIOUS
    <2>1. m + k \in 0..(m + n) /\ (m + k) - m = k
      BY <1>1
    <2>2. CASE k = 0
      BY <1>1, <1>2, <1>3, <2>1, <2>2
    <2>3. CASE k # 0
      <3>1. ~(m + k <= m)
        BY <1>1, <2>3
      <3> QED
        BY <2>1, <3>1
    <2> QED
      BY <2>2, <2>3
  <1>7. h[m + n] = c
    <2>1. n \in 0..n
      BY <1>1
    <2> HIDE DEF h
    <2> QED
      BY <1>3, <1>6, <2>1
  <1>8. \A k \in 0..m : k \in 0..(m + n) /\ h[k] = f[k]
    BY <1>1
  <1> HIDE DEF h, m, n, r
  <1>9. ASSUME NEW k \in 1..(m + n) PROVE h[k] = After(r[k], h[k - 1])
    <2>1. CASE k <= m
      <3>1. k \in 0..m /\ k - 1 \in 0..m /\ k \in 1..m
        BY <1>1, <2>1
      <3>2. f[k] = After(p[k], f[k - 1])
        BY <1>2, <3>1
      <3> QED
        BY <1>1, <1>8, <2>1, <3>1, <3>2
    <2>2. CASE ~(k <= m)
      <3> DEFINE j == k - m
      <3>1. j \in 1..n /\ j \in 0..n /\ j - 1 \in 0..n /\ k = m + j /\ k - 1 = m + (j - 1)
        BY <1>1, <2>2
      <3>2. r[k] = q[j]
        BY <1>1, <2>2
      <3> HIDE DEF j
      <3>3. g[j] = After(q[j], g[j - 1])
        BY <1>3, <3>1
      <3>4. h[k] = g[j]
        BY <1>6, <3>1
      <3>5. h[k - 1] = g[j - 1]
        BY <1>6, <3>1
      <3> QED
        BY <3>2, <3>3, <3>4, <3>5
    <2> QED
      BY <2>1, <2>2
  <1>10. ASSUME NEW k \in 0..(m + n) PROVE h[k].offset <= limit
    <2>1. CASE k <= m
      <3>1. k \in 0..m
        BY <1>1, <2>1
      <3> QED
        BY <1>2, <1>8, <3>1
    <2>2. CASE ~(k <= m)
      <3> DEFINE j == k - m
      <3>1. j \in 0..n /\ k = m + j
        BY <1>1, <2>2
      <3> HIDE DEF j
      <3>2. h[k] = g[j]
        BY <1>6, <3>1
      <3> QED
        BY <1>3, <3>1, <3>2
    <2> QED
      BY <2>1, <2>2
  <1>11. Runs(r, a, c, limit)
    BY <1>1, <1>4, <1>5, <1>7, <1>9, <1>10 DEF Runs
  <1> QED
    BY <1>11 DEF r

-----------------------------------------------------------------------------
(* Prints in a row, and what a loop leaves behind.                         *)

\* The sequences of s, and then those of t.
LEMMA FlattenConcat ==
    ASSUME NEW S, NEW s \in Seq(Seq(S)), NEW t \in Seq(Seq(S))
    PROVE  FlattenSeq(s \o t) = FlattenSeq(s) \o FlattenSeq(t)
  <1> DEFINE F(m) == SubSeq(t, 1, m)
             T == {m \in Nat : m <= Len(t) =>
                      FlattenSeq(s \o F(m)) = FlattenSeq(s) \o FlattenSeq(F(m))}
  <1>0. Len(t) \in Nat
    OBVIOUS
  <1>1. 0 \in T
    <2>1. F(0) = <<>>
      OBVIOUS
    <2>2. s \o <<>> = s
      BY ConcatEmptySeq
    <2>3. FlattenSeq(s) \in Seq(S)
      BY FlattenType
    <2>4. FlattenSeq(s) \o <<>> = FlattenSeq(s)
      BY <2>3, ConcatEmptySeq
    <2> HIDE DEF F
    <2>5. FlattenSeq(s \o F(0)) = FlattenSeq(s) \o FlattenSeq(F(0))
      BY <2>1, <2>2, <2>4, FlattenEmpty
    <2> QED
      BY <2>5
  <1>2. ASSUME NEW m \in T PROVE m + 1 \in T
    <2> SUFFICES ASSUME m + 1 <= Len(t)
                 PROVE  FlattenSeq(s \o F(m + 1)) = FlattenSeq(s) \o FlattenSeq(F(m + 1))
      OBVIOUS
    <2> DEFINE p == t[m + 1]
    <2>1. m \in Nat /\ m + 1 \in 1..Len(t) /\ p \in Seq(S)
      BY <1>0
    <2>2. F(m) \in Seq(Seq(S)) /\ F(m + 1) = Append(F(m), p)
      BY <1>0, <2>1
    <2>3. FlattenSeq(s \o F(m)) = FlattenSeq(s) \o FlattenSeq(F(m))
      BY <1>0
    <2> HIDE DEF F, p, T
    <2>4. s \o Append(F(m), p) = Append(s \o F(m), p) /\ s \o F(m) \in Seq(Seq(S))
      <3>1. p \in Seq(S) /\ F(m) \in Seq(Seq(S))
        BY <2>1, <2>2
      <3> QED
        BY <3>1, AppendBehind, Sum2
    <2>5. FlattenSeq(Append(s \o F(m), p)) = FlattenSeq(s \o F(m)) \o p
      BY <2>1, <2>4, FlattenAppend
    <2>6. FlattenSeq(Append(F(m), p)) = FlattenSeq(F(m)) \o p
      BY <2>1, <2>2, FlattenAppend
    <2> DEFINE x == FlattenSeq(s)
               y == FlattenSeq(F(m))
    <2>7. x \in Seq(S) /\ y \in Seq(S)
      BY <2>2, FlattenType
    <2>8. FlattenSeq(s \o F(m + 1)) = (x \o y) \o p /\ FlattenSeq(F(m + 1)) = y \o p
      BY <2>2, <2>3, <2>4, <2>5, <2>6
    <2> HIDE DEF x, y
    <2>9. (x \o y) \o p = x \o (y \o p)
      <3>1. p \in Seq(S)
        BY <2>1
      <3> QED
        BY <2>7, <3>1, Assoc, SMTT(60)
    <2> QED
      BY <2>8, <2>9 DEF x
  <1>3. T = Nat
    <2>1. T \in SUBSET Nat
      OBVIOUS
    <2> HIDE DEF T
    <2> QED
      BY <1>1, <1>2, <2>1, SetInduction
  <1>4. F(Len(t)) = t
    OBVIOUS
  <1>5. Len(t) \in T
    <2> HIDE DEF T
    <2> QED
      BY <1>0, <1>3
  <1>6. FlattenSeq(s \o F(Len(t))) = FlattenSeq(s) \o FlattenSeq(F(Len(t)))
    BY <1>0, <1>5
  <1> HIDE DEF F
  <1> QED
    BY <1>4, <1>6

Spoken(p) == FlattenSeq([k \in 1..Len(p) |-> p[k].pieces])

\* Prints put their texts one after the other behind what there is.
LEMMA RunsPrints ==
    ASSUME NEW p \in Seq(Says), NEW t \in Seq(Pieces), NEW limit \in Nat,
           Length(t \o Spoken(p)) <= limit
    PROVE  /\ Spoken(p) \in Seq(Pieces)
           /\ Runs(p, On(t), On(t \o Spoken(p)), limit)
  <1> DEFINE n == Len(p)
             F == [k \in 1..n |-> p[k].pieces]
             U(k) == Upto(F, k)
             f == [k \in 0..n |-> On(t \o U(k))]
  <1>1. n \in Nat /\ \A k \in 1..n : p[k] \in Says
    OBVIOUS
  <1>2. F \in [1..n -> Seq(Pieces)]
    <2>1. \A k \in 1..n : p[k].pieces \in Seq(Pieces)
      BY <1>1 DEF Says
    <2> QED
      BY <2>1
  <1>3. Spoken(p) = U(n)
    BY DEF Spoken, Upto
  <1>4. \A k \in 1..n : F[k] = p[k].pieces
    OBVIOUS
  <1> HIDE DEF F, n
  <1>5. U(0) = <<>>
    <2>1. [k \in 1..0 |-> F[k]] = <<>>
      OBVIOUS
    <2> QED
      BY <2>1, FlattenEmpty DEF Upto
  <1>6. \A k \in 0..n : U(k) \in Seq(Pieces)
    <2> SUFFICES ASSUME NEW k \in 0..n PROVE U(k) \in Seq(Pieces)
      OBVIOUS
    <2> DEFINE g == [j \in 1..k |-> F[j]]
    <2>1. g \in [1..k -> Seq(Pieces)] /\ k \in Nat
      BY <1>1, <1>2
    <2> HIDE DEF g
    <2>2. g \in Seq(Seq(Pieces))
      BY <2>1, FunctionSeq
    <2>3. FlattenSeq(g) \in Seq(Pieces)
      BY <2>2, FlattenType
    <2> QED
      BY <2>3 DEF g, Upto
  <1>7. \A k \in 1..n : U(k) = U(k - 1) \o F[k]
    BY <1>1, <1>2, UptoStep
  <1> HIDE DEF U
  <1>8. \A k \in 0..n : t \o U(k) \in Seq(Pieces) /\ Length(t \o U(k)) \in Nat
    <2> SUFFICES ASSUME NEW k \in 0..n
                 PROVE  t \o U(k) \in Seq(Pieces) /\ Length(t \o U(k)) \in Nat
      OBVIOUS
    <2>1. U(k) \in Seq(Pieces)
      BY <1>6
    <2>2. t \o U(k) \in Seq(Pieces)
      BY <2>1, Sum2
    <2> DEFINE x == t \o U(k)
    <2>3. x \in Seq(Pieces)
      BY <2>2
    <2> HIDE DEF x
    <2>4. Length(x) \in Nat
      BY <2>3, LengthNat
    <2> QED
      BY <2>2, <2>4 DEF x
  <1>9. \A k \in 1..n : /\ t \o U(k) = (t \o U(k - 1)) \o F[k]
                        /\ Length(t \o U(k)) = Length(t \o U(k - 1)) + Length(F[k])
                        /\ Length(F[k]) \in Nat
    <2> SUFFICES ASSUME NEW k \in 1..n
                 PROVE  /\ t \o U(k) = (t \o U(k - 1)) \o F[k]
                        /\ Length(t \o U(k)) = Length(t \o U(k - 1)) + Length(F[k])
                        /\ Length(F[k]) \in Nat
      OBVIOUS
    <2> DEFINE x == U(k - 1)
               y == F[k]
               z == t \o x
    <2>1. k - 1 \in 0..n
      BY <1>1
    <2>2. x \in Seq(Pieces) /\ y \in Seq(Pieces) /\ U(k) = x \o y /\ z \in Seq(Pieces)
      BY <1>2, <1>6, <1>7, <1>8, <2>1
    <2> HIDE DEF x, y
    <2>3. t \o (x \o y) = z \o y
      <3>1. t \in Seq(Pieces) /\ x \in Seq(Pieces) /\ y \in Seq(Pieces)
        BY <2>2
      <3>2. (t \o x) \o y = t \o (x \o y)
        BY <3>1, Assoc, SMTT(60)
      <3> QED
        BY <3>2
    <2> HIDE DEF z
    <2>4. Length(z \o y) = Length(z) + Length(y) /\ Length(y) \in Nat
      BY <2>2, LengthConcat
    <2> QED
      BY <2>2, <2>3, <2>4 DEF x, y, z
  <1> DEFINE T == {m \in Nat : m <= n => \A j \in 0..m : Length(t \o U(j)) <= Length(t \o U(m))}
  <1>10. 0 \in T
    <2>1. 0 \in 0..n
      BY <1>1
    <2>2. Length(t \o U(0)) \in Nat
      BY <1>8, <2>1
    <2>3. \A j \in 0..0 : j = 0
      OBVIOUS
    <2> QED
      BY <2>2, <2>3
  <1>11. ASSUME NEW m \in T PROVE m + 1 \in T
    <2> SUFFICES ASSUME m + 1 <= n, NEW j \in 0..(m + 1)
                 PROVE  Length(t \o U(j)) <= Length(t \o U(m + 1))
      OBVIOUS
    <2> DEFINE i1 == m + 1
    <2>1. m \in Nat /\ i1 \in 1..n /\ i1 - 1 = m /\ m \in 0..n /\ j \in 0..n /\ i1 \in 0..n
          /\ m <= n
      BY <1>1
    <2> HIDE DEF i1
    <2>2. /\ Length(t \o U(i1)) = Length(t \o U(i1 - 1)) + Length(F[i1])
          /\ Length(F[i1]) \in Nat
      BY <1>9, <2>1
    <2>3. Length(t \o U(m)) \in Nat /\ Length(t \o U(i1)) \in Nat /\ Length(t \o U(j)) \in Nat
      BY <1>8, <2>1
    <2>4. Length(t \o U(m)) <= Length(t \o U(i1))
      BY <2>1, <2>2, <2>3
    <2>5. CASE j \in 0..m
      <3>1. Length(t \o U(j)) <= Length(t \o U(m))
        BY <2>1, <2>5
      <3>2. Length(t \o U(j)) <= Length(t \o U(i1))
        BY <2>3, <2>4, <3>1
      <3> QED
        BY <3>2 DEF i1
    <2>6. CASE j = m + 1
      BY <2>3, <2>6
    <2> QED
      BY <2>1, <2>5, <2>6
  <1>12. T = Nat
    <2>1. T \in SUBSET Nat
      OBVIOUS
    <2> HIDE DEF T
    <2> QED
      BY <1>10, <1>11, <2>1, SetInduction
  <1>13. \A k \in 0..n : Length(t \o U(k)) <= Length(t \o U(n))
    <2>1. n \in T
      <3> HIDE DEF T
      <3> QED
        BY <1>1, <1>12
    <2> QED
      BY <1>1, <2>1
  <1> HIDE DEF T
  <1>14. \A k \in 0..n : f[k] = On(t \o U(k))
    OBVIOUS
  <1>15. f \in [0..n -> Buffers]
    BY <1>8 DEF On, At, Buffers
  <1> HIDE DEF f
  <1>16. f[0] = On(t)
    <2>1. t \o U(0) = t /\ 0 \in 0..n
      BY <1>1, <1>5, ConcatEmptySeq
    <2> QED
      BY <1>14, <2>1
  <1>17. f[n] = On(t \o Spoken(p))
    <2>1. n \in 0..n
      BY <1>1
    <2> QED
      BY <1>3, <1>14, <2>1
  <1>18. ASSUME NEW k \in 1..n PROVE f[k] = After(p[k], f[k - 1])
    <2> DEFINE x == t \o U(k - 1)
               y == F[k]
               s == p[k]
    <2>1. k - 1 \in 0..n /\ k \in 0..n
      BY <1>1
    <2>2. f[k] = At(t \o U(k), Length(t \o U(k))) /\ f[k - 1] = At(x, Length(x))
      BY <1>14, <2>1 DEF On
    <2>3. t \o U(k) = x \o y /\ Length(t \o U(k)) = Length(x) + Length(y)
      BY <1>9
    <2>4. s.do = "print" /\ s.pieces = y
      BY <1>1, <1>4 DEF Says
    <2> HIDE DEF x, y, s
    <2>5. After(s, At(x, Length(x))) = At(x \o y, Length(x) + Length(y))
      BY <2>4 DEF After, At
    <2> QED
      BY <2>2, <2>3, <2>5 DEF s
  <1>19. ASSUME NEW k \in 0..n PROVE f[k].offset <= limit
    <2>1. f[k].offset = Length(t \o U(k))
      <3> DEFINE x == t \o U(k)
      <3>1. f[k] = On(x)
        BY <1>14
      <3> HIDE DEF x
      <3>2. f[k].offset = Length(x)
        BY <3>1 DEF On, At
      <3> QED
        BY <3>2 DEF x
    <2>2. Length(t \o U(k)) \in Nat /\ Length(t \o U(n)) \in Nat
      BY <1>1, <1>8
    <2>3. Length(t \o U(k)) <= Length(t \o U(n)) /\ Length(t \o U(n)) <= limit
      BY <1>3, <1>13
    <2> QED
      BY <2>1, <2>2, <2>3
  <1>20. Runs(p, On(t), On(t \o Spoken(p)), limit)
    <2>1. p \in Seq(AnyStep)
      BY SeqMonotonic DEF AnyStep
    <2> QED
      BY <1>15, <1>16, <1>17, <1>18, <1>19, <2>1 DEF Runs, n
  <1>21. Spoken(p) \in Seq(Pieces)
    BY <1>1, <1>3, <1>6
  <1> QED
    BY <1>20, <1>21

\* The same sequences give the same text.
LEMMA UptoSame ==
    ASSUME NEW F, NEW G, NEW m \in Nat, \A k \in 1..m : F[k] = G[k]
    PROVE  Upto(F, m) = Upto(G, m)
  <1>1. [k \in 1..m |-> F[k]] = [k \in 1..m |-> G[k]]
    OBVIOUS
  <1> QED
    BY <1>1 DEF Upto

\* With a separator behind every part, the parts joined and one separator more.
LEMMA JoinedIs ==
    ASSUME NEW S, NEW parts \in Seq(Seq(S)), parts # <<>>, NEW sep \in S
    PROVE  /\ Joined(parts, sep) \in Seq(S)
           /\ FlattenSeq([k \in 1..Len(parts) |-> Append(parts[k], sep)])
                 = Append(Joined(parts, sep), sep)
  <1> DEFINE n == Len(parts)
             F == [k \in 1..n |-> Append(parts[k], sep)]
             G == [k \in 1..n |-> IF k = n THEN parts[k] ELSE Append(parts[k], sep)]
  <1>1. /\ n \in Nat /\ n \in 1..n /\ DOMAIN parts = 1..n
        /\ \A k \in 1..n : parts[k] \in Seq(S) /\ Append(parts[k], sep) \in Seq(S)
    <2>1. n \in Nat /\ n # 0 /\ DOMAIN parts = 1..n /\ \A k \in 1..n : parts[k] \in Seq(S)
      OBVIOUS
    <2>2. \A k \in 1..n : Append(parts[k], sep) \in Seq(S)
      BY <2>1, AppendProperties
    <2> HIDE DEF n
    <2>3. n \in 1..n
      BY <2>1
    <2> QED
      BY <2>1, <2>2, <2>3
  <1>2. Joined(parts, sep) = FlattenSeq(G)
    BY <1>1 DEF Joined
  <1>3. F \in [1..n -> Seq(S)] /\ G \in [1..n -> Seq(S)]
    BY <1>1
  <1>4. F[n] = Append(parts[n], sep) /\ G[n] = parts[n] /\ \A k \in 1..(n - 1) : F[k] = G[k]
    <2> HIDE DEF n
    <2>1. \A k \in 1..(n - 1) : k \in 1..n /\ k # n
      BY <1>1
    <2> QED
      BY <1>1, <2>1
  <1>5. F = [k \in 1..n |-> F[k]] /\ G = [k \in 1..n |-> G[k]]
    OBVIOUS
  <1>6. FlattenSeq([k \in 1..Len(parts) |-> Append(parts[k], sep)]) = FlattenSeq(F)
    OBVIOUS
  <1> HIDE DEF F, G, n
  <1>7. FlattenSeq(F) = Upto(F, n) /\ FlattenSeq(G) = Upto(G, n)
    BY <1>5 DEF Upto
  <1> DEFINE x == Upto(G, n - 1)
             y == parts[n]
  <1>8. x \in Seq(S) /\ Upto(G, n) = x \o G[n]
    BY <1>1, <1>3, UptoStep
  <1>9. Upto(F, n) = Upto(F, n - 1) \o F[n]
    BY <1>1, <1>3, UptoStep
  <1>10. Upto(F, n - 1) = x
    <2>1. n - 1 \in Nat
      BY <1>1
    <2> QED
      BY <1>4, <2>1, UptoSame
  <1>11. y \in Seq(S)
    BY <1>1
  <1>12. FlattenSeq(F) = x \o Append(y, sep) /\ Joined(parts, sep) = x \o y
    BY <1>2, <1>4, <1>7, <1>8, <1>9, <1>10
  <1> HIDE DEF x, y
  <1>13. x \o y \in Seq(S)
    BY <1>8, <1>11, Sum2
  <1>14. x \o Append(y, sep) = Append(x \o y, sep)
    BY <1>8, <1>11, AppendBehind
  <1> QED
    BY <1>6, <1>12, <1>13, <1>14

\* A loop that prints the parts, each with a separator behind it.
LEMMA RunsLoop ==
    ASSUME NEW p \in Seq(Says), NEW parts \in Seq(Seq(Pieces)), parts # <<>>,
           NEW sep \in Pieces, NEW t \in Seq(Pieces), NEW limit \in Nat,
           Len(p) = Len(parts),
           \A k \in 1..Len(parts) : p[k].pieces = Append(parts[k], sep),
           Length(Append(t \o Joined(parts, sep), sep)) <= limit
    PROVE  Runs(p, On(t), On(Append(t \o Joined(parts, sep), sep)), limit)
  <1> DEFINE j == Joined(parts, sep)
  <1>1. j \in Seq(Pieces)
    BY JoinedIs
  <1>2. Spoken(p) = Append(j, sep)
    <2>1. [k \in 1..Len(p) |-> p[k].pieces] = [k \in 1..Len(parts) |-> Append(parts[k], sep)]
      OBVIOUS
    <2>2. FlattenSeq([k \in 1..Len(parts) |-> Append(parts[k], sep)]) = Append(j, sep)
      BY JoinedIs
    <2> QED
      BY <2>1, <2>2 DEF Spoken
  <1>3. Length(Append(t \o j, sep)) <= limit
    OBVIOUS
  <1> HIDE DEF j
  <1>4. t \o Append(j, sep) = Append(t \o j, sep)
    BY <1>1, AppendBehind
  <1>5. Length(t \o Spoken(p)) <= limit
    BY <1>2, <1>3, <1>4
  <1>6. Runs(p, On(t), On(t \o Spoken(p)), limit)
    BY <1>5, RunsPrints
  <1>7. Runs(p, On(t), On(Append(t \o j, sep)), limit)
    BY <1>2, <1>4, <1>6
  <1> QED
    BY <1>7 DEF j

\* The end of a text is taken away.
LEMMA ShortenIs ==
    ASSUME NEW t \in Seq(Pieces), NEW p \in Pieces, NEW n
    PROVE  Shorten(Append(t, p), n)
              = IF p.n = n THEN t ELSE Append(t, Piece("stump", p.what, p.n - n))
  <1> DEFINE u == Append(t, p)
  <1>1. /\ u \in Seq(Pieces) /\ Len(u) = Len(t) + 1 /\ u[Len(t) + 1] = p /\ Len(t) \in Nat
        /\ \A k \in 1..Len(t) : u[k] = t[k]
    BY AppendProperties
  <1> HIDE DEF u
  <1>2. Last(u) = p
    BY <1>1 DEF Last
  <1>3. Front(u) = t
    <2>1. Len(u) - 1 = Len(t)
      BY <1>1
    <2>2. Front(u) = SubSeq(u, 1, Len(t))
      BY <2>1 DEF Front
    <2> DEFINE v == SubSeq(u, 1, Len(t))
    <2>3. v \in Seq(Pieces) /\ Len(v) = Len(t) /\ \A k \in 1..Len(t) : v[k] = u[k]
      BY <1>1
    <2> HIDE DEF v
    <2>4. v = t
      BY <1>1, <2>3, SeqEqual
    <2> QED
      BY <2>2, <2>4 DEF v
  <1>4. Shorten(u, n) = IF p.n = n THEN t ELSE Append(t, Piece("stump", p.what, p.n - n))
    BY <1>2, <1>3 DEF Shorten
  <1> QED
    BY <1>4 DEF u

\* A text in the buffer.
LEMMA OnIs ==
    ASSUME NEW t \in Seq(Pieces)
    PROVE  /\ On(t) \in Buffers /\ On(t).text = t /\ On(t).offset = Length(t)
           /\ Length(t) \in Nat
  <1>1. Length(t) \in Nat
    BY LengthNat
  <1> QED
    BY <1>1 DEF On, At, Buffers

\* A parenthesis instead of the last separator.
LEMMA RunsRepair ==
    ASSUME NEW t \in Seq(Pieces), NEW p \in Pieces, p.n = 1, NEW limit \in Nat,
           Length(Append(t, p)) <= limit
    PROVE  /\ Runs(<<Repair(")")>>, On(Append(t, p)), On(Append(t, Lit(")"))), limit)
           /\ Length(Append(t, Lit(")"))) = Length(Append(t, p))
  <1> DEFINE q == Lit(")")
             u == Append(t, p)
             v == Append(t, q)
             s == Repair(")")
  <1>1. q \in Pieces /\ q.n = 1
    BY LitsAre
  <1>2. s.do = "repair" /\ s.with = q /\ s \in AnyStep
    <2>1. ")" \in Literals
      BY DEF Literals
    <2>2. s \in AnyStep
      BY <2>1, StepsAre DEF AnyStep
    <2> QED
      BY <2>2 DEF Repair
  <1> HIDE DEF q, s
  <1>3. u \in Seq(Pieces) /\ v \in Seq(Pieces)
    BY <1>1, AppendProperties
  <1>4. Length(u) = Length(t) + 1 /\ Length(v) = Length(t) + 1 /\ Length(t) \in Nat
    BY <1>1, LengthAppend
  <1>5. Shorten(u, 1) = t
    BY ShortenIs
  <1>6. v = Append(Shorten(u, 1), q)
    BY <1>5
  <1>7. Length(u) <= limit
    OBVIOUS
  <1> HIDE DEF u, v
  <1>8. On(u) \in Buffers /\ On(v) \in Buffers /\ On(u).offset = Length(u)
        /\ On(v).offset = Length(v) /\ On(u).text = u
    BY <1>3, OnIs
  <1>9. On(v) = After(s, On(u))
    <2>1. On(v) = At(v, Length(v))
      BY DEF On
    <2>2. After(s, On(u)) = At(Append(Shorten(u, 1), q), Length(u))
      <3> DEFINE b == On(u)
      <3>1. b.text = u /\ b.offset = Length(u)
        BY <1>8
      <3> HIDE DEF b
      <3>2. After(s, b) = At(Append(Shorten(b.text, 1), s.with), b.offset)
        BY <1>2 DEF After
      <3> QED
        BY <1>2, <3>1, <3>2 DEF b
    <2> QED
      BY <1>4, <1>6, <2>1, <2>2
  <1>10. On(u).offset <= limit /\ On(v).offset <= limit
    BY <1>4, <1>7, <1>8
  <1>11. Runs(<<s>>, On(u), On(v), limit)
    BY <1>2, <1>8, <1>9, <1>10, RunsOne
  <1> QED
    BY <1>4, <1>11 DEF s, u, v, q

\* The last separator is cut off; the offset goes back with it, or not.
LEMMA RunsCut ==
    ASSUME NEW t \in Seq(Pieces), NEW p \in Pieces, NEW n \in Nat, p.n >= n,
           NEW back \in BOOLEAN, NEW limit \in Nat, Length(Append(t, p)) <= limit
    PROVE  Runs(<<Cut(n, back)>>, On(Append(t, p)),
                At(IF p.n = n THEN t ELSE Append(t, Piece("stump", p.what, p.n - n)),
                   IF back THEN Length(t) + p.n - n ELSE Length(t) + p.n), limit)
  <1> DEFINE u == Append(t, p)
             v == IF p.n = n THEN t ELSE Append(t, Piece("stump", p.what, p.n - n))
             o == IF back THEN Length(t) + p.n - n ELSE Length(t) + p.n
             s == Cut(n, back)
  <1>1. s.do = "cut" /\ s.n = n /\ s.back = back /\ s \in AnyStep
    <2>1. s \in AnyStep
      BY StepsAre DEF AnyStep
    <2> QED
      BY <2>1 DEF Cut
  <1> HIDE DEF s
  <1>2. p.n \in Nat /\ p.what \in Words
    BY DEF Pieces
  <1>3. u \in Seq(Pieces)
    BY AppendProperties
  <1>4. v \in Seq(Pieces)
    <2> DEFINE q == Piece("stump", p.what, p.n - n)
    <2>1. q \in Pieces
      <3>1. p.n - n \in Nat
        BY <1>2
      <3> QED
        BY <1>2, <3>1 DEF Piece, Pieces
    <2> HIDE DEF q
    <2>2. Append(t, q) \in Seq(Pieces)
      BY <2>1, AppendProperties
    <2> QED
      BY <2>2 DEF q
  <1>5. Length(u) = Length(t) + p.n /\ Length(t) \in Nat
    BY LengthAppend
  <1>6. Shorten(u, n) = v
    BY ShortenIs
  <1>7. Length(u) <= limit
    OBVIOUS
  <1> HIDE DEF u, v
  <1>8. On(u) \in Buffers /\ On(u).offset = Length(u) /\ On(u).text = u
    BY <1>3, OnIs
  <1>9. o \in Nat /\ o <= limit /\ o = IF back THEN Length(u) - n ELSE Length(u)
    BY <1>2, <1>5, <1>7
  <1> HIDE DEF o
  <1> DEFINE w == At(v, o)
  <1>10. w \in Buffers /\ w.offset = o
    BY <1>4, <1>9 DEF At, Buffers
  <1>11. w = After(s, On(u))
    <2> DEFINE b == On(u)
    <2>1. b.text = u /\ b.offset = Length(u)
      BY <1>8
    <2> HIDE DEF b
    <2>2. After(s, b) = At(Shorten(b.text, n), IF back THEN b.offset - n ELSE b.offset)
      BY <1>1 DEF After
    <2> QED
      BY <1>6, <1>9, <2>1, <2>2 DEF b
  <1> HIDE DEF w
  <1>12. On(u).offset <= limit /\ w.offset <= limit
    BY <1>7, <1>8, <1>9, <1>10
  <1>13. Runs(<<s>>, On(u), w, limit)
    BY <1>1, <1>8, <1>10, <1>11, <1>12, RunsOne
  <1> QED
    BY <1>13 DEF s, u, v, o, w

\* SQLite compiles what comes before the first semicolon.
LEMMA FirstIs ==
    ASSUME NEW a \in Seq(Quiet), NEW b \in Seq(Pieces), Len(b) # 0 => b[1] = Semicolon
    PROVE  FirstStatement(a \o b) = a
  <1> DEFINE c == a \o b
             semi == Semicolon
             m == Len(a)
             P(n) == /\ n < Len(c) => c[n + 1] = semi
                     /\ \A k \in 1..n : c[k] # semi
             e == CHOOSE n \in 0..Len(c) : P(n)
  <1>1. a \in Seq(Pieces)
    BY QuietAre
  <1>2. /\ m \in Nat /\ Len(b) \in Nat /\ Len(c) = m + Len(b) /\ c \in Seq(Pieces)
        /\ \A k \in 1..(m + Len(b)) : c[k] = IF k <= m THEN a[k] ELSE b[k - m]
    BY <1>1, ConcatProperties
  <1>3. FirstStatement(c) = SubSeq(c, 1, e)
    BY DEF FirstStatement
  <1>4. \A k \in 1..m : a[k] # semi
    <2>1. \A k \in 1..m : a[k] \in Quiet
      OBVIOUS
    <2> HIDE DEF m
    <2> QED
      BY <2>1 DEF Quiet
  <1>5. Len(b) # 0 => b[1] = semi
    OBVIOUS
  <1> HIDE DEF c, semi, m
  <1>7. m \in 0..Len(c) /\ P(m)
    <2>1. m \in 0..Len(c)
      BY <1>2
    <2>2. ASSUME m < Len(c) PROVE c[m + 1] = semi
      <3>1. m + 1 \in 1..(m + Len(b)) /\ ~(m + 1 <= m) /\ (m + 1) - m = 1 /\ Len(b) # 0
        BY <1>2, <2>2
      <3> QED
        BY <1>2, <1>5, <3>1
    <2>3. ASSUME NEW k \in 1..m PROVE c[k] # semi
      <3>1. k \in 1..(m + Len(b)) /\ k <= m
        BY <1>2
      <3> QED
        BY <1>2, <1>4, <3>1
    <2> QED
      BY <2>1, <2>2, <2>3
  <1>8. e \in 0..Len(c) /\ P(e)
    <2> HIDE DEF P
    <2> QED
      BY <1>7
  <1> HIDE DEF e
  <1>9. e = m
    <2>1. CASE e < m
      <3>1. e + 1 \in 1..m /\ e < Len(c)
        BY <1>2, <1>8, <2>1
      <3> QED
        BY <1>7, <1>8, <3>1
    <2>2. CASE m < e
      <3>1. m + 1 \in 1..e /\ m < Len(c)
        BY <1>2, <1>8, <2>2
      <3> QED
        BY <1>7, <1>8, <3>1
    <2> QED
      BY <1>2, <1>8, <2>1, <2>2
  <1>10. SubSeq(c, 1, m) = a
    <2> DEFINE v == SubSeq(c, 1, m)
    <2>1. m <= Len(c)
      BY <1>2
    <2>2. v \in Seq(Pieces) /\ Len(v) = m /\ \A k \in 1..m : v[k] = c[k]
      BY <1>2, <2>1
    <2>3. \A k \in 1..m : c[k] = a[k]
      BY <1>2
    <2> HIDE DEF v
    <2>4. v = a
      BY <1>1, <2>2, <2>3, SeqEqual DEF m
    <2> QED
      BY <2>4 DEF v
  <1> QED
    BY <1>3, <1>9, <1>10 DEF c

-----------------------------------------------------------------------------
(* What the calls write: the loops over columns.                           *)

\* What G says of each column of S, in order.
Row(S, G) == [k \in DOMAIN InOrder(S) |-> G[InOrder(S)[k]]]

\* There is a part for every column.
LEMMA RowIs ==
    ASSUME NEW S \in SUBSET Numbers, NEW X, NEW G \in [Numbers -> X]
    PROVE  /\ Row(S, G) \in Seq(X) /\ Len(Row(S, G)) = Cardinality(S)
           /\ Cardinality(S) \in Nat
           /\ \A k \in 1..Cardinality(S) :
                 InOrder(S)[k] \in Numbers /\ Row(S, G)[k] = G[InOrder(S)[k]]
  <1> DEFINE n == Cardinality(S)
             f == Row(S, G)
  <1>1. n \in Nat /\ InOrder(S) \in [1..n -> S] /\ DOMAIN InOrder(S) = 1..n /\ IsFiniteSet(S)
    BY InOrderIs
  <1>2. f \in [1..n -> X] /\ \A k \in 1..n : InOrder(S)[k] \in Numbers
                                            /\ f[k] = G[InOrder(S)[k]]
    BY <1>1 DEF Row
  <1> HIDE DEF n, f
  <1>3. f \in Seq(X) /\ Len(f) = n
    BY <1>1, <1>2, FunctionSeq
  <1> QED
    BY <1>1, <1>2, <1>3 DEF n, f

\* There is one, if there is a column.
LEMMA RowSome ==
    ASSUME NEW S \in SUBSET Numbers, S # {}
    PROVE  Cardinality(S) # 0
  <1>1. IsFiniteSet(S)
    BY InOrderIs
  <1> QED
    BY <1>1, FS_EmptySet

\* A loop over the columns of S.
LEMMA RunsColumns ==
    ASSUME NEW S \in SUBSET Numbers, S # {}, NEW G \in [Numbers -> Seq(Quiet)],
           NEW P \in [Numbers -> Says], NEW sep \in Quiet,
           \A j \in Numbers : P[j].pieces = Append(G[j], sep),
           NEW t \in Seq(Pieces), NEW limit \in Nat,
           Length(Append(t \o Joined(Row(S, G), sep), sep)) <= limit
    PROVE  Runs(Row(S, P), On(t), On(Append(t \o Joined(Row(S, G), sep), sep)), limit)
  <1> DEFINE p == Row(S, P)
             parts == Row(S, G)
             n == Cardinality(S)
  <1>1. /\ p \in Seq(Says) /\ Len(p) = n /\ n \in Nat
        /\ \A k \in 1..n : InOrder(S)[k] \in Numbers /\ p[k] = P[InOrder(S)[k]]
    BY RowIs
  <1>2. /\ parts \in Seq(Seq(Quiet)) /\ Len(parts) = n /\ parts # <<>>
        /\ \A k \in 1..n : parts[k] = G[InOrder(S)[k]]
    <2> DEFINE X == Seq(Quiet)
    <2>1. G \in [Numbers -> X]
      OBVIOUS
    <2> HIDE DEF X
    <2>2. /\ Row(S, G) \in Seq(X) /\ Len(Row(S, G)) = Cardinality(S)
          /\ \A k \in 1..Cardinality(S) : Row(S, G)[k] = G[InOrder(S)[k]]
      BY <2>1, RowIs
    <2>3. Cardinality(S) # 0
      BY RowSome
    <2>4. Row(S, G) # <<>>
      BY <2>2, <2>3
    <2> QED
      BY <2>2, <2>4 DEF X
  <1>3. parts \in Seq(Seq(Pieces)) /\ sep \in Pieces
    <2>1. Seq(Quiet) \subseteq Seq(Pieces) /\ sep \in Pieces
      BY QuietAre DEF Quiet
    <2> HIDE DEF parts
    <2> QED
      BY <1>2, <2>1, SeqMonotonic
  <1>4. Length(Append(t \o Joined(parts, sep), sep)) <= limit
    OBVIOUS
  <1> HIDE DEF p, parts, n
  <1>5. \A k \in 1..Len(parts) : p[k].pieces = Append(parts[k], sep)
    <2> SUFFICES ASSUME NEW k \in 1..n PROVE p[k].pieces = Append(parts[k], sep)
      BY <1>2
    <2> DEFINE j == InOrder(S)[k]
    <2>1. j \in Numbers /\ p[k] = P[j] /\ parts[k] = G[j]
      BY <1>1, <1>2
    <2> HIDE DEF j
    <2>2. P[j].pieces = Append(G[j], sep)
      BY <2>1
    <2> QED
      BY <2>1, <2>2
  <1>6. Len(p) = Len(parts)
    BY <1>1, <1>2
  <1>7. Runs(p, On(t), On(Append(t \o Joined(parts, sep), sep)), limit)
    BY <1>1, <1>2, <1>3, <1>4, <1>5, <1>6, RunsLoop
  <1> QED
    BY <1>7 DEF p, parts

\* The parts of a loop, joined.
LEMMA JoinedRow ==
    ASSUME NEW S \in SUBSET Numbers, S # {}, NEW G \in [Numbers -> Seq(Quiet)],
           NEW sep \in Quiet
    PROVE  /\ Joined(Row(S, G), sep) \in Seq(Quiet)
           /\ Joined(Row(S, G), sep) \in Seq(Pieces)
  <1> DEFINE parts == Row(S, G)
  <1>1. parts \in Seq(Seq(Quiet)) /\ parts # <<>>
    <2> DEFINE X == Seq(Quiet)
    <2>1. G \in [Numbers -> X]
      OBVIOUS
    <2> HIDE DEF X
    <2>2. Row(S, G) \in Seq(X) /\ Len(Row(S, G)) = Cardinality(S)
      BY <2>1, RowIs
    <2>3. Cardinality(S) # 0
      BY RowSome
    <2>4. Row(S, G) # <<>>
      BY <2>2, <2>3
    <2> QED
      BY <2>2, <2>4 DEF X
  <1> HIDE DEF parts
  <1>2. Joined(parts, sep) \in Seq(Quiet)
    BY <1>1, JoinedIs
  <1>3. Joined(parts, sep) \in Seq(Pieces)
    BY <1>2, QuietAre
  <1> QED
    BY <1>2, <1>3 DEF parts

\* One print.
LEMMA RunsSay ==
    ASSUME NEW room \in {"rest", "more", "whole"}, NEW q \in Seq(Pieces),
           NEW t \in Seq(Pieces), NEW limit \in Nat, Length(t \o q) <= limit
    PROVE  Runs(<<PrintIn(room, q)>>, On(t), On(t \o q), limit)
  <1> DEFINE s == PrintIn(room, q)
             p == <<s>>
  <1>1. s \in Says /\ s.pieces = q
    BY DEF PrintIn, Says
  <1> HIDE DEF s
  <1>2. p \in Seq(Says) /\ Len(p) = 1 /\ p[1] = s
    BY <1>1
  <1>3. Spoken(p) = q
    <2>1. [k \in 1..Len(p) |-> p[k].pieces] = Append(<<>>, q)
      <3>1. [k \in 1..1 |-> p[k].pieces] = <<q>>
        BY <1>1, <1>2
      <3> HIDE DEF p
      <3> QED
        BY <1>2, <3>1
    <2>2. <<>> \in Seq(Seq(Pieces)) /\ <<>> \o q = q
      BY ConcatEmptySeq
    <2>3. FlattenSeq(Append(<<>>, q)) = FlattenSeq(<<>>) \o q
      BY <2>2, FlattenAppend
    <2> QED
      BY <2>1, <2>2, <2>3, FlattenEmpty DEF Spoken
  <1> HIDE DEF p
  <1>4. Runs(p, On(t), On(t \o Spoken(p)), limit)
    BY <1>2, <1>3, RunsPrints
  <1> QED
    BY <1>3, <1>4 DEF p, s

\* The same for Prints.
LEMMA RunsSayRest ==
    ASSUME NEW q \in Seq(Pieces), NEW t \in Seq(Pieces), NEW limit \in Nat,
           Length(t \o q) <= limit
    PROVE  Runs(<<Prints(q)>>, On(t), On(t \o q), limit)
  <1>1. Prints(q) = PrintIn("rest", q) /\ "rest" \in {"rest", "more", "whole"}
    BY DEF Prints
  <1>2. Runs(<<PrintIn("rest", q)>>, On(t), On(t \o q), limit)
    BY <1>1, RunsSay
  <1> QED
    BY <1>1, <1>2

\* A print into the empty buffer.
LEMMA RunsBegin ==
    ASSUME NEW q \in Seq(Pieces), NEW limit \in Nat, Length(q) <= limit
    PROVE  Runs(<<Prints(q)>>, On(<<>>), On(q), limit)
  <1>1. <<>> \o q = q /\ <<>> \in Seq(Pieces)
    BY ConcatEmptySeq
  <1>2. Runs(<<Prints(q)>>, On(<<>>), On(<<>> \o q), limit)
    BY <1>1, RunsSayRest
  <1> QED
    BY <1>1, <1>2

\* One or two pieces behind a text.
LEMMA Behind ==
    ASSUME NEW X, NEW t \in Seq(X), NEW p \in X
    PROVE  t \o <<p>> = Append(t, p) /\ Append(t, p) \in Seq(X)
  OBVIOUS

\* The same for two.
LEMMA TwoBehind ==
    ASSUME NEW X, NEW t \in Seq(X), NEW p \in X, NEW q \in X
    PROVE  t \o <<p, q>> = Append(t, p) \o <<q>>
  <1>1. t \o <<p, q>> = Append(Append(t, p), q)
    OBVIOUS
  <1>2. Append(Append(t, p), q) = Append(t, p) \o <<q>>
    OBVIOUS
  <1> QED
    BY <1>1, <1>2

\* A short text with one piece more.
LEMMA Longer ==
    ASSUME NEW X, NEW t \in Seq(X), NEW c \in X, NEW u \in Seq(X),
           Len(u) = Len(t) + 1, u[Len(t) + 1] = c, \A k \in 1..Len(t) : u[k] = t[k]
    PROVE  Append(t, c) = u
  <1> DEFINE v == Append(t, c)
  <1>1. /\ v \in Seq(X) /\ Len(v) = Len(t) + 1 /\ v[Len(t) + 1] = c /\ Len(t) \in Nat
        /\ \A k \in 1..Len(t) : v[k] = t[k]
    BY AppendProperties
  <1> HIDE DEF v
  <1>2. \A k \in 1..Len(u) : u[k] = v[k]
    BY <1>1
  <1>3. v = u
    BY <1>1, <1>2, SeqEqual
  <1> QED
    BY <1>3 DEF v

\* The same, for two and three pieces.
LEMMA Longer2 ==
    ASSUME NEW X, NEW a \in X, NEW b \in X, NEW c \in X
    PROVE  Append(<<a, b>>, c) = <<a, b, c>>
  <1> DEFINE t == <<a, b>>
             u == <<a, b, c>>
  <1>1. t \in Seq(X) /\ u \in Seq(X)
    BY Parts
  <1>2. Len(t) = 2 /\ Len(u) = 3 /\ u[1] = t[1] /\ u[2] = t[2] /\ u[3] = c
    OBVIOUS
  <1> HIDE DEF t, u
  <1>3. Len(u) = Len(t) + 1 /\ u[Len(t) + 1] = c
    BY <1>2
  <1>4. \A k \in 1..Len(t) : u[k] = t[k]
    <2>1. 1..Len(t) = {1, 2}
      BY <1>2
    <2> QED
      BY <1>2, <2>1
  <1>5. Append(t, c) = u
    BY <1>1, <1>3, <1>4, Longer
  <1> QED
    BY <1>5 DEF t, u

\* The same, for three.
LEMMA Longer3 ==
    ASSUME NEW X, NEW a \in X, NEW b \in X, NEW c \in X, NEW d \in X
    PROVE  Append(<<a, b, c>>, d) = <<a, b, c, d>>
  <1> DEFINE t == <<a, b, c>>
             u == <<a, b, c, d>>
  <1>1. t \in Seq(X) /\ u \in Seq(X)
    BY Parts
  <1>2. Len(t) = 3 /\ Len(u) = 4 /\ u[1] = t[1] /\ u[2] = t[2] /\ u[3] = t[3] /\ u[4] = d
    OBVIOUS
  <1> HIDE DEF t, u
  <1>3. Len(u) = Len(t) + 1 /\ u[Len(t) + 1] = d
    BY <1>2
  <1>4. \A k \in 1..Len(t) : u[k] = t[k]
    <2>1. 1..Len(t) = {1, 2, 3}
      BY <1>2
    <2> QED
      BY <1>2, <2>1
  <1>5. Append(t, d) = u
    BY <1>1, <1>3, <1>4, Longer
  <1> QED
    BY <1>5 DEF t, u

\* sorm_save and sorm_replace write what they should.
LEMMA SaveRuns ==
    ASSUME NEW valued \in SUBSET Numbers, valued # {}, NEW verb \in {"INSERT", "REPLACE"}
    PROVE  /\ WantedSave(verb, valued) \in Seq(Quiet)
           /\ Runs(SaveProgram(verb, valued), On(<<>>), On(WantedSave(verb, valued)),
                   Length(WantedSave(verb, valued)))
  <1> DEFINE F == [j \in Numbers |-> Prints(<<Lit(" "), Col(j), Lit(",")>>)]
             H == [j \in Numbers |-> Prints(<<Lit(" "), Lit("?"), Lit(",")>>)]
             G == [j \in Numbers |-> <<Lit(" "), Col(j)>>]
             I == [j \in Numbers |-> <<Lit(" "), Lit("?")>>]
             comma == Lit(",")
             paren == Lit(")")
             values == Lit(" VALUES (")
             A == <<Lit(verb), Lit(" INTO "), Table(1), Lit(" (")>>
             N == Joined(Row(valued, G), comma)
             Q == Joined(Row(valued, I), comma)
             x == A \o N
             y == Append(x, paren) \o <<values>>
             z == y \o Q
             W == Append(z, paren)
  <1>1. /\ Lit(" ") \in Quiet /\ Lit("?") \in Quiet /\ comma \in Quiet /\ paren \in Quiet
        /\ values \in Quiet /\ Lit(verb) \in Quiet /\ Lit(" INTO ") \in Quiet
        /\ Table(1) \in Quiet /\ Lit(" (") \in Quiet /\ comma.n = 1
        /\ \A j \in Numbers : Col(j) \in Quiet
        /\ \A q \in Quiet : q \in Pieces
    BY LitsAre, NamesAre
  <1>2. F \in [Numbers -> Says] /\ H \in [Numbers -> Says]
    <2>1. \A j \in Numbers : /\ <<Lit(" "), Col(j), Lit(",")>> \in Seq(Pieces)
                             /\ <<Lit(" "), Lit("?"), Lit(",")>> \in Seq(Pieces)
      BY ColumnTexts
    <2>2. \A q \in Seq(Pieces) : Prints(q) \in Says
      BY DEF Prints, PrintIn, Says
    <2> QED
      BY <2>1, <2>2
  <1>3. G \in [Numbers -> Seq(Quiet)] /\ I \in [Numbers -> Seq(Quiet)]
    BY <1>1, Parts
  <1>4. A \in Seq(Quiet)
    BY <1>1, Parts
  <1>5. \A j \in Numbers : F[j].pieces = Append(G[j], comma) /\ H[j].pieces = Append(I[j], comma)
    <2> SUFFICES ASSUME NEW j \in Numbers
                 PROVE  F[j].pieces = Append(G[j], comma) /\ H[j].pieces = Append(I[j], comma)
      OBVIOUS
    <2>1. /\ F[j].pieces = <<Lit(" "), Col(j), comma>>
          /\ H[j].pieces = <<Lit(" "), Lit("?"), comma>>
      BY DEF Prints, PrintIn
    <2>2. G[j] = <<Lit(" "), Col(j)>> /\ I[j] = <<Lit(" "), Lit("?")>>
      OBVIOUS
    <2>3. Lit(" ") \in Pieces /\ Col(j) \in Pieces /\ Lit("?") \in Pieces /\ comma \in Pieces
      BY <1>1
    <2> HIDE DEF F, G, H, I, comma
    <2>4. /\ Append(<<Lit(" "), Col(j)>>, comma) = <<Lit(" "), Col(j), comma>>
          /\ Append(<<Lit(" "), Lit("?")>>, comma) = <<Lit(" "), Lit("?"), comma>>
      BY <2>3, Longer2
    <2> QED
      BY <2>1, <2>2, <2>4
  <1>6. SaveProgram(verb, valued) =
           <<Prints(A)>> \o Row(valued, F) \o <<Repair(")"), Prints(<<values>>)>>
           \o Row(valued, H) \o <<Repair(")")>>
    <2>1. /\ Row(valued, F)
                = Each(valued, LAMBDA j : Prints(<<Lit(" "), Col(j), Lit(",")>>))
          /\ Row(valued, H)
                = Each(valued, LAMBDA j : Prints(<<Lit(" "), Lit("?"), Lit(",")>>))
      BY InOrderIs DEF Each, Row
    <2> HIDE DEF F, H
    <2> QED
      BY <2>1 DEF SaveProgram
  <1>7. WantedSave(verb, valued) = A \o N \o <<paren, values>> \o Q \o <<paren>>
    <2>1. /\ Row(valued, G) = Named(valued)
          /\ Row(valued, I) = Each(valued, LAMBDA j : <<Lit(" "), Lit("?")>>)
      BY InOrderIs DEF Each, Row, Named
    <2> HIDE DEF G, I
    <2> QED
      BY <2>1 DEF WantedSave
  <1>8. N \in Seq(Quiet) /\ N \in Seq(Pieces)
    <2> HIDE DEF G, comma
    <2> QED
      BY <1>1, <1>3, JoinedRow
  <1>9. Q \in Seq(Quiet) /\ Q \in Seq(Pieces)
    <2> HIDE DEF I, comma
    <2> QED
      BY <1>1, <1>3, JoinedRow
  <1> HIDE DEF A, N, Q, comma, paren, values, F, G, H, I
  <1>10. x \in Seq(Quiet)
    BY <1>4, <1>8, Sum2
  <1> HIDE DEF x
  <1>11. Append(x, paren) \in Seq(Quiet) /\ x \o <<paren, values>> = y /\ <<values>> \in Seq(Quiet)
    <2>1. Append(x, paren) \in Seq(Quiet)
      BY <1>1, <1>10, Behind
    <2>2. x \o <<paren, values>> = y
      BY <1>1, <1>10, TwoBehind
    <2> QED
      BY <1>1, <2>1, <2>2, Parts
  <1>12. y \in Seq(Quiet)
    BY <1>11, Sum2
  <1> HIDE DEF y
  <1>13. z \in Seq(Quiet)
    BY <1>9, <1>12, Sum2
  <1> HIDE DEF z
  <1>14. W \in Seq(Quiet) /\ z \o <<paren>> = W
    BY <1>1, <1>13, Behind
  <1>15. WantedSave(verb, valued) = W
    BY <1>7, <1>11, <1>14 DEF x, z
  <1>16. /\ A \in Seq(Pieces) /\ x \in Seq(Pieces) /\ y \in Seq(Pieces) /\ z \in Seq(Pieces)
         /\ W \in Seq(Pieces) /\ Append(x, paren) \in Seq(Pieces)
         /\ <<values>> \in Seq(Pieces) /\ comma \in Pieces /\ paren \in Pieces
    BY <1>1, <1>4, <1>10, <1>11, <1>12, <1>13, <1>14, QuietAre
  <1>17. Length(x) = Length(A) + Length(N) /\ Length(A) \in Nat /\ Length(N) \in Nat
    BY <1>8, <1>16, LengthConcat DEF x
  <1>18. Length(Append(x, comma)) = Length(x) + 1
    BY <1>1, <1>16, LengthAppend
  <1>19. Length(Append(x, paren)) = Length(x) + 1
    <2>1. paren.n = 1
      BY LitsAre DEF paren
    <2> QED
      BY <1>16, <2>1, LengthAppend
  <1>20. Length(y) = Length(Append(x, paren)) + Length(<<values>>) /\ Length(<<values>>) \in Nat
    BY <1>16, LengthConcat DEF y
  <1>21. Length(z) = Length(y) + Length(Q) /\ Length(Q) \in Nat
    BY <1>9, <1>16, LengthConcat DEF z
  <1>22. Length(Append(z, comma)) = Length(z) + 1
    BY <1>1, <1>16, LengthAppend
  <1>23. Length(W) = Length(z) + 1
    <2>1. paren.n = 1
      BY LitsAre DEF paren
    <2> QED
      BY <1>16, <2>1, LengthAppend
  <1> DEFINE L == Length(W)
  <1>24. /\ L \in Nat /\ Length(A) <= L /\ Length(Append(x, comma)) <= L
         /\ Length(y) <= L /\ Length(Append(z, comma)) <= L
    BY <1>17, <1>18, <1>19, <1>20, <1>21, <1>22, <1>23
  <1> HIDE DEF L, W
  <1>25. Runs(<<Prints(A)>>, On(<<>>), On(A), L)
    BY <1>16, <1>24, RunsBegin
  <1>26. Runs(Row(valued, F), On(A), On(Append(x, comma)), L)
    <2>1. Length(Append(A \o Joined(Row(valued, G), comma), comma)) <= L
      BY <1>24 DEF x, N
    <2>2. Runs(Row(valued, F), On(A), On(Append(A \o Joined(Row(valued, G), comma), comma)), L)
      BY <1>1, <1>2, <1>3, <1>5, <1>16, <1>24, <2>1, RunsColumns
    <2> QED
      BY <2>2 DEF x, N
  <1>27. Runs(<<Repair(")")>>, On(Append(x, comma)), On(Append(x, paren)), L)
    BY <1>1, <1>16, <1>24, RunsRepair DEF paren
  <1>28. Runs(<<Prints(<<values>>)>>, On(Append(x, paren)), On(y), L)
    BY <1>16, <1>24, RunsSayRest DEF y
  <1>29. Runs(Row(valued, H), On(y), On(Append(z, comma)), L)
    <2>1. Length(Append(y \o Joined(Row(valued, I), comma), comma)) <= L
      BY <1>24 DEF z, Q
    <2>2. Runs(Row(valued, H), On(y), On(Append(y \o Joined(Row(valued, I), comma), comma)), L)
      BY <1>1, <1>2, <1>3, <1>5, <1>16, <1>24, <2>1, RunsColumns
    <2> QED
      BY <2>2 DEF z, Q
  <1>30. Runs(<<Repair(")")>>, On(Append(z, comma)), On(W), L)
    BY <1>1, <1>16, <1>24, RunsRepair DEF paren, W
  <1> DEFINE a == <<Prints(A)>>
             f == Row(valued, F)
             r == <<Repair(")")>>
             b == <<Prints(<<values>>)>>
             h == Row(valued, H)
  <1>31. <<Repair(")"), Prints(<<values>>)>> = r \o b
    OBVIOUS
  <1>32. SaveProgram(verb, valued) = a \o f \o (r \o b) \o h \o r
    BY <1>6, <1>31
  <1> HIDE DEF a, f, r, b, h
  <1>33. Runs(a \o f, On(<<>>), On(Append(x, comma)), L)
    BY <1>25, <1>26, RunsOn DEF a, f
  <1>34. Runs(r \o b, On(Append(x, comma)), On(y), L)
    BY <1>27, <1>28, RunsOn DEF r, b
  <1>35. Runs(a \o f \o (r \o b), On(<<>>), On(y), L)
    BY <1>33, <1>34, RunsOn
  <1>36. Runs(a \o f \o (r \o b) \o h, On(<<>>), On(Append(z, comma)), L)
    BY <1>29, <1>35, RunsOn DEF h
  <1>37. Runs(a \o f \o (r \o b) \o h \o r, On(<<>>), On(W), L)
    BY <1>30, <1>36, RunsOn DEF r
  <1> QED
    BY <1>14, <1>15, <1>32, <1>37 DEF L

\* The prints of "column=?", with a separator behind each.
EqualSteps(S, sep) ==
    Row(S, [j \in Numbers |-> Prints(<<Lit(" "), Col(j), Lit("=?"), sep>>)])

\* They print the columns joined, and a separator behind the last.
LEMMA RunsEqual ==
    ASSUME NEW S \in SUBSET Numbers, S # {}, NEW sep \in Quiet,
           NEW t \in Seq(Pieces), NEW limit \in Nat,
           Length(Append(t \o Joined(Equal(S), sep), sep)) <= limit
    PROVE  Runs(EqualSteps(S, sep), On(t), On(Append(t \o Joined(Equal(S), sep), sep)), limit)
  <1> DEFINE P == [j \in Numbers |-> Prints(<<Lit(" "), Col(j), Lit("=?"), sep>>)]
             G == [j \in Numbers |-> <<Lit(" "), Col(j), Lit("=?")>>]
  <1>1. /\ Lit(" ") \in Quiet /\ Lit("=?") \in Quiet
        /\ \A j \in Numbers : Col(j) \in Quiet
        /\ \A q \in Quiet : q \in Pieces
    BY LitsAre, NamesAre
  <1>2. G \in [Numbers -> Seq(Quiet)]
    BY <1>1, Parts
  <1>3. P \in [Numbers -> Says]
    <2>1. \A j \in Numbers : <<Lit(" "), Col(j), Lit("=?"), sep>> \in Seq(Pieces)
      BY <1>1, Parts
    <2>2. \A q \in Seq(Pieces) : Prints(q) \in Says
      BY DEF Prints, PrintIn, Says
    <2> QED
      BY <2>1, <2>2
  <1>4. \A j \in Numbers : P[j].pieces = Append(G[j], sep)
    <2> SUFFICES ASSUME NEW j \in Numbers PROVE P[j].pieces = Append(G[j], sep)
      OBVIOUS
    <2>1. P[j].pieces = <<Lit(" "), Col(j), Lit("=?"), sep>> /\ G[j] = <<Lit(" "), Col(j), Lit("=?")>>
      BY DEF Prints, PrintIn
    <2>2. Append(<<Lit(" "), Col(j), Lit("=?")>>, sep) = <<Lit(" "), Col(j), Lit("=?"), sep>>
      <3>1. Lit(" ") \in Quiet /\ Col(j) \in Quiet /\ Lit("=?") \in Quiet
        BY <1>1
      <3> QED
        BY <3>1, Longer3, ZenonT(80)
    <2> QED
      BY <2>1, <2>2
  <1>5. Row(S, G) = Equal(S)
    BY InOrderIs DEF Each, Row, Equal
  <1>6. EqualSteps(S, sep) = Row(S, P)
    BY DEF EqualSteps
  <1> HIDE DEF P, G
  <1>7. Length(Append(t \o Joined(Row(S, G), sep), sep)) <= limit
    BY <1>5
  <1>8. Runs(Row(S, P), On(t), On(Append(t \o Joined(Row(S, G), sep), sep)), limit)
    BY <1>2, <1>3, <1>4, <1>7, RunsColumns
  <1> QED
    BY <1>5, <1>6, <1>8

\* They are steps.
LEMMA EqualStepsAre ==
    ASSUME NEW S \in SUBSET Numbers, NEW sep \in Quiet
    PROVE  EqualSteps(S, sep) \in Seq(AnyStep)
  <1> DEFINE P == [j \in Numbers |-> Prints(<<Lit(" "), Col(j), Lit("=?"), sep>>)]
  <1>1. /\ Lit(" ") \in Pieces /\ Lit("=?") \in Pieces /\ sep \in Pieces
        /\ \A j \in Numbers : Col(j) \in Pieces
    BY LitsAre, NamesAre
  <1>2. P \in [Numbers -> AnyStep]
    <2>1. \A j \in Numbers : <<Lit(" "), Col(j), Lit("=?"), sep>> \in Seq(Pieces)
      BY <1>1, Parts
    <2>2. \A q \in Seq(Pieces) : Prints(q) \in AnyStep
      BY DEF Prints, PrintIn, Says, AnyStep
    <2> QED
      BY <2>1, <2>2
  <1> HIDE DEF P
  <1>3. Row(S, P) \in Seq(AnyStep)
    BY <1>2, RowIs
  <1> QED
    BY <1>3 DEF EqualSteps, P

\* So is the cut behind them.
LEMMA CutIs == <<Cut(4, FALSE)>> \in Seq(AnyStep)
  <1>1. FALSE \in BOOLEAN /\ 4 \in Nat
    OBVIOUS
  <1>2. Cut(4, FALSE) \in AnyStep
    BY <1>1, StepsAre DEF AnyStep
  <1> QED
    BY <1>2, Parts

\* The columns joined.
LEMMA EqualIs ==
    ASSUME NEW S \in SUBSET Numbers, S # {}, NEW sep \in Quiet
    PROVE  Joined(Equal(S), sep) \in Seq(Quiet) /\ Joined(Equal(S), sep) \in Seq(Pieces)
  <1> DEFINE G == [j \in Numbers |-> <<Lit(" "), Col(j), Lit("=?")>>]
  <1>1. /\ Lit(" ") \in Quiet /\ Lit("=?") \in Quiet
        /\ \A j \in Numbers : Col(j) \in Quiet
    BY LitsAre, NamesAre
  <1>2. G \in [Numbers -> Seq(Quiet)]
    BY <1>1, Parts
  <1>3. Row(S, G) = Equal(S)
    BY InOrderIs DEF Each, Row, Equal
  <1> HIDE DEF G
  <1>4. Joined(Row(S, G), sep) \in Seq(Quiet) /\ Joined(Row(S, G), sep) \in Seq(Pieces)
    BY <1>2, JoinedRow
  <1> QED
    BY <1>3, <1>4

\* The separator in a WHERE.
LEMMA AndLong == Lit(" AND").n >= 4 /\ 4 \in Nat
  <1> DEFINE n == Lit(" AND").n
  <1>1. n = 4
    BY LitsAre
  <1> HIDE DEF n
  <1>2. n >= 4
    BY <1>1
  <1> QED
    BY <1>2 DEF n

\* The columns of a WHERE: the last AND is cut off, and the offset stays behind it.
LEMMA RunsWhere ==
    ASSUME NEW S \in SUBSET Numbers, S # {}, NEW t \in Seq(Pieces), NEW limit \in Nat,
           Length(t \o Joined(Equal(S), Lit(" AND"))) + 4 <= limit
    PROVE  Runs(EqualSteps(S, Lit(" AND")) \o <<Cut(4, FALSE)>>, On(t),
                At(t \o Joined(Equal(S), Lit(" AND")),
                   Length(t \o Joined(Equal(S), Lit(" AND"))) + 4), limit)
  <1> DEFINE conj == Lit(" AND")
             u == t \o Joined(Equal(S), conj)
             p == EqualSteps(S, conj)
             q == <<Cut(4, FALSE)>>
             v == IF conj.n = 4 THEN u ELSE Append(u, Piece("stump", conj.what, conj.n - 4))
             o == IF FALSE THEN Length(u) + conj.n - 4 ELSE Length(u) + conj.n
  <1>1. conj \in Quiet /\ conj \in Pieces /\ conj.n = 4
    BY LitsAre
  <1>2. Joined(Equal(S), conj) \in Seq(Pieces)
    <2> HIDE DEF conj
    <2> QED
      BY <1>1, EqualIs
  <1>3. u \in Seq(Pieces)
    <2> HIDE DEF conj
    <2> QED
      BY <1>2, Sum2
  <1>4. Length(u) + 4 <= limit
    OBVIOUS
  <1>5. v = u /\ o = Length(u) + 4
    BY <1>1
  <1> HIDE DEF conj
  <1>6. Length(Append(u, conj)) <= limit
    <2> HIDE DEF u
    <2>1. Length(Append(u, conj)) = Length(u) + conj.n
      BY <1>1, <1>3, LengthAppend
    <2> QED
      BY <1>1, <1>4, <2>1
  <1>7. Runs(p, On(t), On(Append(u, conj)), limit)
    BY <1>1, <1>6, RunsEqual
  <1>8. Runs(q, On(Append(u, conj)), At(v, o), limit)
    <2>1. conj.n >= 4 /\ 4 \in Nat
      BY AndLong DEF conj
    <2>2. FALSE \in BOOLEAN
      OBVIOUS
    <2> HIDE DEF u
    <2> QED
      BY <1>1, <1>3, <1>6, <2>1, <2>2, RunsCut
  <1> HIDE DEF p, q, u, v, o
  <1>9. Runs(p \o q, On(t), At(v, o), limit)
    BY <1>7, <1>8, RunsOn
  <1> QED
    BY <1>5, <1>9 DEF p, q, u, conj

\* sorm_delete writes what it should; the offset stays behind the last AND.
LEMMA DeleteRuns ==
    ASSUME NEW valued \in SUBSET Numbers, valued # {}
    PROVE  /\ WantedDelete(valued) \in Seq(Quiet)
           /\ Runs(DeleteProgram(valued), On(<<>>),
                   At(WantedDelete(valued), Length(WantedDelete(valued)) + 4),
                   Length(WantedDelete(valued)) + 4)
  <1> DEFINE A == <<Lit("DELETE FROM "), Table(1), Lit(" WHERE ")>>
             conj == Lit(" AND")
             N == Joined(Equal(valued), conj)
             W == A \o N
             L == Length(W) + 4
             a == <<Prints(A)>>
             f == EqualSteps(valued, conj)
             c == <<Cut(4, FALSE)>>
  <1>1. /\ conj \in Quiet /\ conj.n = 4 /\ Lit("DELETE FROM ") \in Quiet
        /\ Table(1) \in Quiet /\ Lit(" WHERE ") \in Quiet
    BY LitsAre, NamesAre
  <1>2. A \in Seq(Quiet)
    BY <1>1, Parts
  <1>3. WantedDelete(valued) = W
    BY DEF WantedDelete
  <1>4. DeleteProgram(valued) = a \o f \o c
    <2>1. f = Each(valued, LAMBDA j : Prints(<<Lit(" "), Col(j), Lit("=?"), Lit(" AND")>>))
      BY InOrderIs DEF Each, Row, EqualSteps
    <2> HIDE DEF f, c
    <2> QED
      BY <2>1 DEF DeleteProgram, c
  <1>5. N \in Seq(Quiet)
    <2> HIDE DEF conj
    <2> QED
      BY <1>1, EqualIs
  <1> HIDE DEF A, N
  <1>6. W \in Seq(Quiet) /\ W \in Seq(Pieces) /\ A \in Seq(Pieces) /\ N \in Seq(Pieces)
    <2>1. W \in Seq(Quiet)
      BY <1>2, <1>5, Sum2
    <2> QED
      BY <1>2, <1>5, <2>1, QuietAre
  <1>7. Length(W) = Length(A) + Length(N) /\ Length(A) \in Nat /\ Length(N) \in Nat
    BY <1>6, LengthConcat
  <1>8. L \in Nat /\ Length(A) <= L /\ Length(W) + 4 <= L
    BY <1>7
  <1> HIDE DEF L
  <1>9. Runs(a, On(<<>>), On(A), L)
    BY <1>6, <1>8, RunsBegin
  <1>10. Runs(f \o c, On(A), At(W, Length(W) + 4), L)
    <2>1. Length(A \o Joined(Equal(valued), Lit(" AND"))) + 4 <= L
      BY <1>8 DEF N
    <2>2. Runs(EqualSteps(valued, Lit(" AND")) \o <<Cut(4, FALSE)>>, On(A),
               At(A \o Joined(Equal(valued), Lit(" AND")),
                  Length(A \o Joined(Equal(valued), Lit(" AND"))) + 4), L)
      BY <1>6, <1>8, <2>1, RunsWhere
    <2> QED
      BY <2>2 DEF N
  <1> HIDE DEF W, a, f, c
  <1>11. Runs(a \o (f \o c), On(<<>>), At(W, Length(W) + 4), L)
    BY <1>9, <1>10, RunsOn
  <1>12. a \in Seq(AnyStep) /\ f \in Seq(AnyStep) /\ c \in Seq(AnyStep)
    <2>1. f \in Seq(AnyStep)
      BY <1>1, EqualStepsAre DEF f
    <2>2. c \in Seq(AnyStep)
      BY CutIs DEF c
    <2>3. a \in Seq(AnyStep)
      BY <1>9 DEF Runs
    <2> QED
      BY <2>1, <2>2, <2>3
  <1>13. a \o (f \o c) = (a \o f) \o c
    BY <1>12, Assoc
  <1> QED
    BY <1>3, <1>4, <1>6, <1>11, <1>13 DEF L

\* Two steps.
LEMMA Two ==
    ASSUME NEW X, NEW a \in X, NEW b \in X
    PROVE  <<a, b>> = <<a>> \o <<b>>
  <1> DEFINE s == <<a>>
             t == <<a, b>>
  <1>1. s \in Seq(X) /\ t \in Seq(X)
    BY Parts
  <1>2. Len(s) = 1 /\ Len(t) = 2 /\ t[1] = s[1] /\ t[2] = b
    OBVIOUS
  <1>3. s \o <<b>> = Append(s, b)
    BY <1>1, Behind
  <1> HIDE DEF s, t
  <1>4. Len(t) = Len(s) + 1 /\ t[Len(s) + 1] = b /\ \A k \in 1..Len(s) : t[k] = s[k]
    BY <1>2
  <1>5. Append(s, b) = t
    BY <1>1, <1>4, Longer
  <1> QED
    BY <1>3, <1>5 DEF s, t

\* The comma in a list is one byte.
LEMMA CommaLong == Lit(",").n >= 1 /\ 1 \in Nat
  <1> DEFINE n == Lit(",").n
  <1>1. n = 1
    BY LitsAre
  <1> HIDE DEF n
  <1>2. n >= 1
    BY <1>1
  <1> QED
    BY <1>2 DEF n

\* The last comma of a list is taken back, with the offset.
LEMMA RunsUncomma ==
    ASSUME NEW t \in Seq(Pieces), NEW limit \in Nat, Length(t) + 1 <= limit
    PROVE  Runs(<<Cut(1, TRUE)>>, On(Append(t, Lit(","))), On(t), limit)
  <1> DEFINE comma == Lit(",")
             n == comma.n
             v == IF n = 1 THEN t ELSE Append(t, Piece("stump", comma.what, n - 1))
             o == IF TRUE THEN Length(t) + n - 1 ELSE Length(t) + n
  <1>1. comma \in Pieces /\ n = 1
    BY LitsAre
  <1>2. comma.n >= 1 /\ 1 \in Nat
    BY CommaLong
  <1>3. TRUE \in BOOLEAN
    OBVIOUS
  <1>4. Length(t) \in Nat
    BY LengthNat
  <1>5. v = t
    BY <1>1
  <1>6. o = Length(t)
    <2>1. o = Length(t) + n - 1
      BY Zenon
    <2>2. n = 1
      BY <1>1
    <2> DEFINE l == Length(t)
    <2> HIDE DEF n, o, l, v, comma
    <2>3. o = l + n - 1 /\ l \in Nat
      BY <1>4, <2>1 DEF l
    <2>4. o = l
      BY <2>2, <2>3
    <2> QED
      BY <2>4 DEF l
  <1>7. Length(Append(t, comma)) = Length(t) + n
    <2> HIDE DEF comma
    <2> QED
      BY <1>1, LengthAppend
  <1>8. Length(Append(t, comma)) <= limit
    <2> HIDE DEF n
    <2> QED
      BY <1>1, <1>4, <1>7
  <1> HIDE DEF comma
  <1>9. Runs(<<Cut(1, TRUE)>>, On(Append(t, comma)), At(v, o), limit)
    BY <1>1, <1>2, <1>3, <1>8, RunsCut
  <1> HIDE DEF v, o
  <1> QED
    BY <1>5, <1>6, <1>9 DEF On, comma

UpdateText(valued) ==
    <<Lit("UPDATE "), Table(1), Lit(" SET")>> \o Joined(Equal(valued), Lit(","))

UpdateBegin(valued) ==
    <<Prints(<<Lit("UPDATE "), Table(1), Lit(" SET")>>)>>
    \o EqualSteps(valued, Lit(","))
    \o <<Cut(1, TRUE), PrintIn("whole", <<Lit(" WHERE")>>)>>

\* sorm_update up to its WHERE.
LEMMA UpdateBegins ==
    ASSUME NEW valued \in SUBSET Numbers, valued # {}, NEW limit \in Nat,
           Length(UpdateText(valued)) + 6 <= limit
    PROVE  /\ UpdateText(valued) \in Seq(Quiet)
           /\ Append(UpdateText(valued), Lit(" WHERE")) \in Seq(Quiet)
           /\ Length(Append(UpdateText(valued), Lit(" WHERE"))) = Length(UpdateText(valued)) + 6
           /\ Runs(UpdateBegin(valued), On(<<>>), On(Append(UpdateText(valued), Lit(" WHERE"))), limit)
  <1> DEFINE A == <<Lit("UPDATE "), Table(1), Lit(" SET")>>
             comma == Lit(",")
             where == Lit(" WHERE")
             N == Joined(Equal(valued), comma)
             x == A \o N
             y == Append(x, where)
             a == <<Prints(A)>>
             f == EqualSteps(valued, comma)
             c == <<Cut(1, TRUE)>>
             w == <<PrintIn("whole", <<where>>)>>
  <1>1. /\ comma \in Quiet /\ comma.n = 1 /\ Lit("UPDATE ") \in Quiet
        /\ Table(1) \in Quiet /\ Lit(" SET") \in Quiet /\ where \in Quiet /\ where.n = 6
    BY LitsAre, NamesAre
  <1>2. A \in Seq(Quiet)
    BY <1>1, Parts
  <1>3. UpdateText(valued) = x
    BY DEF UpdateText
  <1>4. N \in Seq(Quiet)
    <2> HIDE DEF comma
    <2> QED
      BY <1>1, EqualIs
  <1>5. Length(x) + 6 <= limit
    BY <1>3
  <1>6. <<Cut(1, TRUE), PrintIn("whole", <<where>>)>> = c \o w
    <2> DEFINE s == Cut(1, TRUE)
               r == PrintIn("whole", <<where>>)
    <2>1. s \in {s, r} /\ r \in {s, r}
      OBVIOUS
    <2> HIDE DEF s, r
    <2>2. <<s, r>> = <<s>> \o <<r>>
      BY <2>1, Two
    <2> QED
      BY <2>2 DEF s, r
  <1>7. UpdateBegin(valued) = (a \o f) \o (c \o w)
    <2> HIDE DEF c, w
    <2> QED
      BY <1>6 DEF UpdateBegin
  <1> HIDE DEF A, N, comma, where
  <1>8. x \in Seq(Quiet)
    BY <1>2, <1>4, Sum2
  <1>9. x \in Seq(Pieces) /\ A \in Seq(Pieces) /\ N \in Seq(Pieces) /\ where \in Pieces
        /\ comma \in Pieces
    BY <1>1, <1>2, <1>4, <1>8, QuietAre, LitsAre
  <1>10. Length(x) = Length(A) + Length(N) /\ Length(A) \in Nat /\ Length(N) \in Nat
    BY <1>9, LengthConcat
  <1> HIDE DEF x
  <1>11. Length(y) = Length(x) + where.n /\ Length(Append(x, comma)) = Length(x) + comma.n
    BY <1>9, LengthAppend
  <1>12. Length(y) = Length(x) + 6 /\ Length(Append(x, comma)) = Length(x) + 1
    BY <1>1, <1>11
  <1>13. y \in Seq(Quiet) /\ x \o <<where>> = y
    BY <1>1, <1>8, Behind
  <1>14. /\ Length(A) <= limit /\ Length(Append(x, comma)) <= limit /\ Length(y) <= limit
         /\ Length(x) + 1 <= limit
    BY <1>5, <1>10, <1>12
  <1>15. Runs(a, On(<<>>), On(A), limit)
    BY <1>9, <1>14, RunsBegin
  <1>16. Runs(f, On(A), On(Append(x, comma)), limit)
    <2>1. Length(Append(A \o Joined(Equal(valued), comma), comma)) <= limit
      BY <1>14 DEF x, N
    <2>2. Runs(EqualSteps(valued, comma), On(A),
               On(Append(A \o Joined(Equal(valued), comma), comma)), limit)
      BY <1>1, <1>9, <2>1, RunsEqual
    <2> QED
      BY <2>2 DEF x, N
  <1>17. Runs(c, On(Append(x, comma)), On(x), limit)
    BY <1>9, <1>14, RunsUncomma DEF comma
  <1>18. Runs(w, On(x), On(y), limit)
    <2>1. "whole" \in {"rest", "more", "whole"} /\ <<where>> \in Seq(Pieces)
      BY <1>9, Parts
    <2>2. Length(x \o <<where>>) <= limit
      BY <1>13, <1>14
    <2>3. Runs(<<PrintIn("whole", <<where>>)>>, On(x), On(x \o <<where>>), limit)
      BY <1>9, <2>1, <2>2, RunsSay
    <2> QED
      BY <1>13, <2>3
  <1> HIDE DEF a, f, c, w, y
  <1>19. Runs(a \o f, On(<<>>), On(Append(x, comma)), limit)
    BY <1>15, <1>16, RunsOn
  <1>20. Runs(c \o w, On(Append(x, comma)), On(y), limit)
    BY <1>17, <1>18, RunsOn
  <1>21. Runs((a \o f) \o (c \o w), On(<<>>), On(y), limit)
    BY <1>19, <1>20, RunsOn
  <1> QED
    BY <1>3, <1>7, <1>8, <1>12, <1>13, <1>21 DEF y, where

\* The rest of it.
LEMMA UpdateParts ==
    ASSUME NEW valued \in SUBSET Numbers
    PROVE  UpdateProgram(valued) = UpdateBegin(valued)
              \o (EqualSteps(valued \cap Unique, Lit(" AND")) \o <<Cut(4, FALSE)>>)
  <1> DEFINE keys == valued \cap Unique
             a == <<Prints(<<Lit("UPDATE "), Table(1), Lit(" SET")>>)>>
             f == EqualSteps(valued, Lit(","))
             b == <<Cut(1, TRUE), PrintIn("whole", <<Lit(" WHERE")>>)>>
             g == EqualSteps(keys, Lit(" AND"))
             c == <<Cut(4, FALSE)>>
  <1>1. keys \in SUBSET Numbers
    OBVIOUS
  <1>2. f = Each(valued, LAMBDA j : Prints(<<Lit(" "), Col(j), Lit("=?"), Lit(",")>>))
    BY InOrderIs DEF Each, Row, EqualSteps
  <1>3. g = Each(keys, LAMBDA j : Prints(<<Lit(" "), Col(j), Lit("=?"), Lit(" AND")>>))
    <2> HIDE DEF keys
    <2> QED
      BY <1>1, InOrderIs DEF Each, Row, EqualSteps
  <1>4. /\ Lit(",") \in Quiet /\ Lit(" AND") \in Quiet /\ Lit("UPDATE ") \in Quiet
        /\ Table(1) \in Quiet /\ Lit(" SET") \in Quiet
    BY LitsAre, NamesAre
  <1>5. f \in Seq(AnyStep) /\ g \in Seq(AnyStep) /\ c \in Seq(AnyStep)
    BY <1>1, <1>4, EqualStepsAre, CutIs
  <1>6. a \in Seq(AnyStep)
    <2> DEFINE A == <<Lit("UPDATE "), Table(1), Lit(" SET")>>
    <2>1. A \in Seq(Pieces)
      BY <1>4, Parts, QuietAre
    <2> HIDE DEF A
    <2>2. Prints(A) \in AnyStep
      BY <2>1 DEF Prints, PrintIn, Says, AnyStep
    <2>3. <<Prints(A)>> \in Seq(AnyStep)
      BY <2>2, Parts
    <2> QED
      BY <2>3 DEF A
  <1>7. b \in Seq(AnyStep)
    <2>1. Cut(1, TRUE) \in Fixes
      BY StepsAre
    <2>2. Cut(1, TRUE) \in AnyStep
      BY <2>1 DEF AnyStep
    <2>3. <<Lit(" WHERE")>> \in Seq(Pieces)
      BY LitsAre, Parts
    <2>4. PrintIn("whole", <<Lit(" WHERE")>>) \in AnyStep
      BY <2>3 DEF PrintIn, Says, AnyStep
    <2> QED
      BY <2>2, <2>4, Parts
  <1>8. UpdateProgram(valued) = a \o f \o b \o g \o c
    <2> HIDE DEF f, g, a, b, c
    <2> QED
      BY <1>2, <1>3 DEF UpdateProgram, a, b, c
  <1>9. UpdateBegin(valued) = a \o f \o b
    BY DEF UpdateBegin
  <1> HIDE DEF a, f, b, g, c, keys
  <1>10. a \o f \o b \in Seq(AnyStep)
    BY <1>5, <1>6, <1>7, Sum3
  <1> DEFINE z == a \o f \o b
  <1>11. (z \o g) \o c = z \o (g \o c)
    <2> HIDE DEF z
    <2>1. z \in Seq(AnyStep)
      BY <1>10 DEF z
    <2> QED
      BY <1>5, <2>1, Assoc
  <1> QED
    BY <1>8, <1>9, <1>11 DEF g, c, keys

\* sorm_update of an object with a key writes what it should.
LEMMA UpdateRuns ==
    ASSUME NEW valued \in SUBSET Numbers, valued \cap Unique # {}
    PROVE  /\ WantedUpdate(valued) \in Seq(Quiet)
           /\ Runs(UpdateProgram(valued), On(<<>>),
                   At(WantedUpdate(valued), Length(WantedUpdate(valued)) + 4),
                   Length(WantedUpdate(valued)) + 4)
  <1> DEFINE keys == valued \cap Unique
             where == Lit(" WHERE")
             x == UpdateText(valued)
             y == Append(x, where)
             N == Joined(Equal(keys), Lit(" AND"))
             W == y \o N
             L == Length(W) + 4
             p == UpdateBegin(valued)
             q == EqualSteps(keys, Lit(" AND")) \o <<Cut(4, FALSE)>>
  <1>1. keys \in SUBSET Numbers /\ keys # {} /\ valued # {}
    OBVIOUS
  <1>2. UpdateProgram(valued) = p \o q
    BY UpdateParts
  <1>3. WantedUpdate(valued) = x \o <<where>> \o N
    BY DEF WantedUpdate, UpdateText
  <1>4. Length(x) \in Nat /\ x \in Seq(Quiet) /\ y \in Seq(Quiet) /\ Length(y) = Length(x) + 6
    <2> DEFINE limit == Length(x) + 6
    <2>1. x \in Seq(Pieces)
      <3> DEFINE A == <<Lit("UPDATE "), Table(1), Lit(" SET")>>
      <3>1. Lit("UPDATE ") \in Quiet /\ Table(1) \in Quiet /\ Lit(" SET") \in Quiet
            /\ Lit(",") \in Quiet
        BY LitsAre, NamesAre
      <3>2. A \in Seq(Quiet)
        BY <3>1, Parts
      <3>3. Joined(Equal(valued), Lit(",")) \in Seq(Quiet)
        BY <1>1, <3>1, EqualIs
      <3> HIDE DEF A
      <3>4. A \o Joined(Equal(valued), Lit(",")) \in Seq(Quiet)
        BY <3>2, <3>3, Sum2
      <3> QED
        BY <3>4, QuietAre DEF UpdateText, A
    <2>2. Length(x) \in Nat
      BY <2>1, LengthNat
    <2>3. limit \in Nat /\ Length(x) + 6 <= limit
      BY <2>2
    <2> HIDE DEF limit
    <2> QED
      BY <1>1, <2>2, <2>3, UpdateBegins
  <1>5. N \in Seq(Quiet) /\ Lit(" AND") \in Quiet
    <2>1. Lit(" AND") \in Quiet
      BY LitsAre
    <2> HIDE DEF keys
    <2> QED
      BY <1>1, <2>1, EqualIs
  <1>6. where \in Quiet
    BY LitsAre
  <1> HIDE DEF where, x
  <1>7. x \o <<where>> = y
    BY <1>4, <1>6, Behind
  <1>8. WantedUpdate(valued) = W
    BY <1>3, <1>7
  <1> HIDE DEF N, y
  <1>9. W \in Seq(Quiet) /\ W \in Seq(Pieces) /\ y \in Seq(Pieces) /\ N \in Seq(Pieces)
    <2>1. W \in Seq(Quiet)
      BY <1>4, <1>5, Sum2
    <2> QED
      BY <1>4, <1>5, <2>1, QuietAre
  <1>10. Length(W) = Length(y) + Length(N) /\ Length(N) \in Nat
    BY <1>9, LengthConcat
  <1>11. L \in Nat /\ Length(x) + 6 <= L /\ Length(W) + 4 <= L
    BY <1>4, <1>10
  <1> HIDE DEF L
  <1>12. Runs(p, On(<<>>), On(y), L)
    BY <1>1, <1>11, UpdateBegins DEF x, y, where
  <1>13. Runs(q, On(y), At(W, Length(W) + 4), L)
    <2>1. Length(y \o Joined(Equal(keys), Lit(" AND"))) + 4 <= L
      BY <1>11 DEF N
    <2> HIDE DEF keys
    <2>2. Runs(EqualSteps(keys, Lit(" AND")) \o <<Cut(4, FALSE)>>, On(y),
               At(y \o Joined(Equal(keys), Lit(" AND")),
                  Length(y \o Joined(Equal(keys), Lit(" AND"))) + 4), L)
      BY <1>1, <1>9, <1>11, <2>1, RunsWhere
    <2> QED
      BY <2>2 DEF N
  <1> HIDE DEF W, p, q
  <1>14. Runs(p \o q, On(<<>>), At(W, Length(W) + 4), L)
    BY <1>12, <1>13, RunsOn
  <1> QED
    BY <1>2, <1>8, <1>9, <1>14 DEF L

\* No columns.
LEMMA NoColumns == EqualSteps({}, Lit(" AND")) = <<>> /\ Equal({}) = <<>>
  <1>1. {} \in SUBSET Numbers /\ Cardinality({}) = 0
    BY FS_EmptySet
  <1>2. DOMAIN InOrder({}) = 1..0
    BY <1>1, InOrderIs
  <1>3. 1..0 = {}
    OBVIOUS
  <1>4. DOMAIN InOrder({}) = {}
    BY <1>2, <1>3
  <1> DEFINE P == [j \in Numbers |-> Prints(<<Lit(" "), Col(j), Lit("=?"), Lit(" AND")>>)]
  <1> HIDE DEF P
  <1>5. Row({}, P) = <<>>
    BY <1>4 DEF Row
  <1>6. EqualSteps({}, Lit(" AND")) = <<>>
    BY <1>5 DEF EqualSteps, P
  <1>7. Equal({}) = <<>>
    <2> DEFINE G == [j \in Numbers |-> <<Lit(" "), Col(j), Lit("=?")>>]
    <2>1. ASSUME NEW S \in SUBSET Numbers PROVE Equal(S) = Row(S, G)
      BY InOrderIs DEF Each, Row, Equal
    <2> HIDE DEF G
    <2>2. Row({}, G) = <<>>
      BY <1>4 DEF Row
    <2> QED
      BY <1>1, <2>1, <2>2
  <1> QED
    BY <1>6, <1>7

\* What sorm_update leaves of WHERE when there is no key.
Stump == Piece("stump", " WHERE", 2)

\* sorm_update of an object without a key cuts into its WHERE.
LEMMA UpdateBare ==
    ASSUME NEW valued \in SUBSET Numbers, valued # {}, valued \cap Unique = {}
    PROVE  /\ WantedUpdate(valued) \in Seq(Quiet)
           /\ Stump \in Quiet /\ Stump.n = 2 /\ Stump.kind = "stump"
           /\ UpdateText(valued) \in Seq(Quiet)
           /\ Length(WantedUpdate(valued)) = Length(UpdateText(valued)) + 6
           /\ Runs(UpdateProgram(valued), On(<<>>),
                   At(Append(UpdateText(valued), Stump), Length(WantedUpdate(valued))),
                   Length(WantedUpdate(valued)) + 4)
  <1> DEFINE where == Lit(" WHERE")
             x == UpdateText(valued)
             y == Append(x, where)
             L == Length(y) + 4
             p == UpdateBegin(valued)
             c == <<Cut(4, FALSE)>>
             v == IF where.n = 4 THEN x ELSE Append(x, Piece("stump", where.what, where.n - 4))
             o == IF FALSE THEN Length(x) + where.n - 4 ELSE Length(x) + where.n
  <1>1. where \in Quiet /\ where \in Pieces /\ where.n = 6 /\ where.what = " WHERE"
    BY LitsAre DEF Lit, Piece
  <1>2. UpdateProgram(valued) = p \o c
    <2>1. UpdateProgram(valued) = p \o (EqualSteps({}, Lit(" AND")) \o c)
      BY UpdateParts
    <2>2. <<>> \o c = c
      BY CutIs, ConcatEmptySeq
    <2> QED
      BY <2>1, <2>2, NoColumns
  <1>3. x \in Seq(Quiet)
    <2> DEFINE A == <<Lit("UPDATE "), Table(1), Lit(" SET")>>
    <2>1. Lit("UPDATE ") \in Quiet /\ Table(1) \in Quiet /\ Lit(" SET") \in Quiet
          /\ Lit(",") \in Quiet
      BY LitsAre, NamesAre
    <2>2. A \in Seq(Quiet)
      BY <2>1, Parts
    <2>3. Joined(Equal(valued), Lit(",")) \in Seq(Quiet)
      BY <2>1, EqualIs
    <2> HIDE DEF A
    <2>4. A \o Joined(Equal(valued), Lit(",")) \in Seq(Quiet)
      BY <2>2, <2>3, Sum2
    <2> QED
      BY <2>4 DEF UpdateText, A
  <1>4. WantedUpdate(valued) = y
    <2>1. WantedUpdate(valued) = x \o <<where>> \o Joined(Equal({}), Lit(" AND"))
      BY DEF WantedUpdate, UpdateText
    <2>2. Joined(<<>>, Lit(" AND")) = <<>>
      <3>1. [k \in DOMAIN <<>> |-> IF k = Len(<<>>) THEN <<>>[k]
                                   ELSE Append(<<>>[k], Lit(" AND"))] = <<>>
        OBVIOUS
      <3> QED
        BY <3>1, FlattenEmpty DEF Joined
    <2> HIDE DEF x, where
    <2>3. x \o <<where>> = y /\ y \in Seq(Quiet)
      BY <1>1, <1>3, Behind
    <2> HIDE DEF y
    <2>4. y \o <<>> = y
      BY <2>3, ConcatEmptySeq
    <2> QED
      BY <2>1, <2>2, <2>3, <2>4, NoColumns
  <1>5. x \in Seq(Pieces)
    BY <1>3, QuietAre
  <1>6. Length(x) \in Nat
    BY <1>5, LengthNat
  <1> HIDE DEF x
  <1>7. Length(y) = Length(x) + where.n
    <2> HIDE DEF where
    <2> QED
      BY <1>1, <1>5, LengthAppend
  <1>8. Length(y) = Length(x) + 6
    <2> DEFINE n == where.n
    <2>1. n = 6 /\ Length(y) = Length(x) + n
      BY <1>1, <1>7
    <2> HIDE DEF n, y
    <2> QED
      BY <2>1
  <1>9. L \in Nat /\ Length(x) + 6 <= L /\ Length(y) <= L
    <2> HIDE DEF y
    <2> QED
      BY <1>6, <1>8
  <1> HIDE DEF L
  <1>10. y \in Seq(Quiet) /\ Runs(p, On(<<>>), On(y), L)
    BY <1>9, UpdateBegins DEF x
  <1>11. v = Append(x, Stump)
    <2>1. where.n # 4 /\ where.n - 4 = 2
      <3> DEFINE n == where.n
      <3>1. n = 6
        BY <1>1
      <3> HIDE DEF n
      <3>2. n # 4 /\ n - 4 = 2
        BY <3>1
      <3> QED
        BY <3>2 DEF n
    <2> HIDE DEF where
    <2> QED
      BY <1>1, <2>1 DEF Stump
  <1>12. o = Length(y)
    BY <1>7, Zenon
  <1>13. Runs(c, On(y), At(v, o), L)
    <2>1. where.n >= 4 /\ 4 \in Nat
      <3> DEFINE n == where.n
      <3>1. n = 6
        BY <1>1
      <3> HIDE DEF n
      <3>2. n >= 4
        BY <3>1
      <3> QED
        BY <3>2 DEF n
    <2>2. FALSE \in BOOLEAN
      OBVIOUS
    <2> HIDE DEF where
    <2> QED
      BY <1>1, <1>5, <1>9, <2>1, <2>2, RunsCut
  <1> HIDE DEF v, o, p, c
  <1>14. Runs(p \o c, On(<<>>), At(v, o), L)
    <2> HIDE DEF y
    <2> QED
      BY <1>10, <1>13, RunsOn
  <1>15. Stump \in Quiet /\ Stump.n = 2 /\ Stump.kind = "stump"
    <2>1. Stump.n = 2 /\ Stump.kind = "stump"
      BY DEF Stump, Piece
    <2>2. " WHERE" \in Words
      BY DEF Words, Literals
    <2>3. Stump \in Pieces
      BY <2>2 DEF Stump, Piece, Pieces
    <2> QED
      BY <2>1, <2>3, NoLiteral
  <1> HIDE DEF y
  <1>16. Runs(UpdateProgram(valued), On(<<>>),
              At(Append(x, Stump), Length(WantedUpdate(valued))),
              Length(WantedUpdate(valued)) + 4)
    BY <1>2, <1>4, <1>11, <1>12, <1>14 DEF L
  <1> QED
    BY <1>3, <1>4, <1>8, <1>10, <1>15, <1>16 DEF x

-----------------------------------------------------------------------------
(* One sequence for each element, one after the other.                     *)

MapsTo(G, X, Y) == G \in [X -> Y]
Mapped(G, p) == [k \in 1..Len(p) |-> G[p[k]]]
FlatMap(G, p) == FlattenSeq(Mapped(G, p))

\* There is one for each.
LEMMA MappedIs ==
    ASSUME NEW X, NEW Y, NEW G, MapsTo(G, X, Y), NEW p \in Seq(X)
    PROVE  /\ Mapped(G, p) \in Seq(Y) /\ Len(Mapped(G, p)) = Len(p) /\ Len(p) \in Nat
           /\ \A k \in 1..Len(p) : Mapped(G, p)[k] = G[p[k]]
  <1> DEFINE n == Len(p)
             f == Mapped(G, p)
  <1>1. n \in Nat /\ \A k \in 1..n : p[k] \in X
    OBVIOUS
  <1>2. f \in [1..n -> Y] /\ \A k \in 1..n : f[k] = G[p[k]]
    <2> HIDE DEF n
    <2>1. f = [k \in 1..n |-> G[p[k]]]
      BY DEF Mapped, n
    <2> HIDE DEF f
    <2> QED
      BY <1>1, <2>1 DEF MapsTo
  <1> HIDE DEF n, f
  <1>3. f \in Seq(Y) /\ Len(f) = n
    BY <1>1, <1>2, FunctionSeq
  <1> QED
    BY <1>1, <1>2, <1>3 DEF n, f

\* First those of p, then those of q.
LEMMA MappedConcat ==
    ASSUME NEW X, NEW Y, NEW G, MapsTo(G, X, Y), NEW p \in Seq(X), NEW q \in Seq(X)
    PROVE  Mapped(G, p \o q) = Mapped(G, p) \o Mapped(G, q)
  <1> DEFINE r == p \o q
             m == Len(p)
             n == Len(q)
             a == Mapped(G, p)
             b == Mapped(G, q)
             c == Mapped(G, r)
             d == a \o b
  <1>1. /\ r \in Seq(X) /\ Len(r) = m + n /\ m \in Nat /\ n \in Nat
        /\ \A k \in 1..(m + n) : r[k] = IF k <= m THEN p[k] ELSE q[k - m]
    BY ConcatProperties
  <1> HIDE DEF r
  <1>2. /\ a \in Seq(Y) /\ Len(a) = m /\ m \in Nat
        /\ \A k \in 1..m : a[k] = G[p[k]]
    BY MappedIs
  <1>3. /\ b \in Seq(Y) /\ Len(b) = n /\ n \in Nat
        /\ \A k \in 1..n : b[k] = G[q[k]]
    BY MappedIs
  <1>4. c \in Seq(Y) /\ Len(c) = m + n /\ \A k \in 1..(m + n) : c[k] = G[r[k]]
    <2>1. /\ c \in Seq(Y) /\ Len(c) = Len(r) /\ Len(r) \in Nat
          /\ \A k \in 1..Len(r) : c[k] = G[r[k]]
      BY <1>1, MappedIs
    <2> QED
      BY <1>1, <2>1
  <1> HIDE DEF a, b, c
  <1>5. /\ d \in Seq(Y) /\ Len(d) = m + n
        /\ \A k \in 1..(m + n) : d[k] = IF k <= m THEN a[k] ELSE b[k - m]
    <2>1. /\ d \in Seq(Y) /\ Len(d) = Len(a) + Len(b)
          /\ \A k \in 1..(Len(a) + Len(b)) : d[k] = IF k <= Len(a) THEN a[k] ELSE b[k - Len(a)]
      BY <1>2, <1>3, ConcatProperties, ZenonT(80)
    <2> HIDE DEF d
    <2> QED
      BY <1>2, <1>3, <2>1
  <1> HIDE DEF d, m, n
  <1>6. ASSUME NEW k \in 1..(m + n) PROVE c[k] = d[k]
    <2>1. CASE k <= m
      <3>1. k \in 1..m
        BY <1>1, <2>1
      <3>2. r[k] = p[k] /\ d[k] = a[k]
        BY <1>1, <1>5, <2>1
      <3> QED
        BY <1>2, <1>4, <3>1, <3>2
    <2>2. CASE ~(k <= m)
      <3>1. k - m \in 1..n
        BY <1>1, <2>2
      <3>2. r[k] = q[k - m] /\ d[k] = b[k - m]
        BY <1>1, <1>5, <2>2
      <3>3. b[k - m] = G[q[k - m]]
        BY <1>3, <3>1
      <3> QED
        BY <1>4, <3>2, <3>3
    <2> QED
      BY <2>1, <2>2
  <1>7. c = d
    BY <1>4, <1>5, <1>6, SeqEqual
  <1> QED
    BY <1>7 DEF a, b, c, d, r

\* Their type.
LEMMA FlatMapIs ==
    ASSUME NEW X, NEW S, NEW G, MapsTo(G, X, Seq(S)), NEW p \in Seq(X)
    PROVE  FlatMap(G, p) \in Seq(S) /\ Mapped(G, p) \in Seq(Seq(S))
  <1> DEFINE Y == Seq(S)
  <1>1. MapsTo(G, X, Y)
    OBVIOUS
  <1> HIDE DEF Y
  <1>2. Mapped(G, p) \in Seq(Y)
    BY <1>1, MappedIs
  <1>3. Mapped(G, p) \in Seq(Seq(S))
    BY <1>2 DEF Y
  <1>4. FlatMap(G, p) \in Seq(S)
    BY <1>3, FlattenType DEF FlatMap
  <1> QED
    BY <1>3, <1>4

\* All those of p, then all those of q.
LEMMA FlatMapConcat ==
    ASSUME NEW X, NEW S, NEW G, MapsTo(G, X, Seq(S)), NEW p \in Seq(X), NEW q \in Seq(X)
    PROVE  FlatMap(G, p \o q) = FlatMap(G, p) \o FlatMap(G, q)
  <1> DEFINE Y == Seq(S)
             a == Mapped(G, p)
             b == Mapped(G, q)
  <1>1. MapsTo(G, X, Y)
    OBVIOUS
  <1> HIDE DEF Y
  <1>2. Mapped(G, p \o q) = a \o b
    BY <1>1, MappedConcat
  <1>3. a \in Seq(Seq(S)) /\ b \in Seq(Seq(S))
    BY FlatMapIs
  <1> HIDE DEF a, b
  <1>4. FlattenSeq(a \o b) = FlattenSeq(a) \o FlattenSeq(b)
    BY <1>3, FlattenConcat
  <1> QED
    BY <1>2, <1>4 DEF FlatMap, a, b

\* Nothing of the empty sequence.
LEMMA FlatMapEmpty ==
    ASSUME NEW G
    PROVE  FlatMap(G, <<>>) = <<>>
  <1>1. Mapped(G, <<>>) = <<>>
    BY DEF Mapped
  <1> QED
    BY <1>1, FlattenEmpty DEF FlatMap

\* That of the only element.
LEMMA FlatMapOne ==
    ASSUME NEW X, NEW S, NEW G, MapsTo(G, X, Seq(S)), NEW x \in X
    PROVE  FlatMap(G, <<x>>) = G[x] /\ G[x] \in Seq(S)
  <1>1. G[x] \in Seq(S)
    BY DEF MapsTo
  <1>2. Mapped(G, <<x>>) = <<G[x]>>
    <2>1. Len(<<x>>) = 1 /\ <<x>>[1] = x
      OBVIOUS
    <2>2. Mapped(G, <<x>>) = [k \in 1..1 |-> G[<<x>>[k]]]
      BY <2>1 DEF Mapped
    <2>3. [k \in 1..1 |-> G[<<x>>[k]]] = [k \in 1..1 |-> G[x]]
      BY <2>1
    <2>4. [k \in 1..1 |-> G[x]] = <<G[x]>>
      OBVIOUS
    <2> QED
      BY <2>2, <2>3, <2>4
  <1> DEFINE y == G[x]
  <1> HIDE DEF y
  <1>3. y \in Seq(S)
    BY <1>1 DEF y
  <1>4. <<>> \in Seq(Seq(S)) /\ <<>> \o y = y
    BY <1>3, ConcatEmptySeq
  <1>5. FlattenSeq(Append(<<>>, y)) = FlattenSeq(<<>>) \o y
    BY <1>3, <1>4, FlattenAppend
  <1>6. Append(<<>>, y) = <<y>>
    OBVIOUS
  <1>7. FlattenSeq(<<y>>) = y
    BY <1>4, <1>5, <1>6, FlattenEmpty
  <1> QED
    BY <1>1, <1>2, <1>7 DEF FlatMap, y

\* Sequences of nothing are nothing.
LEMMA FlatMapNothing ==
    ASSUME NEW X, NEW S, NEW G, MapsTo(G, X, Seq(S)), NEW p \in Seq(X),
           \A k \in 1..Len(p) : G[p[k]] = <<>>
    PROVE  FlatMap(G, p) = <<>>
  <1> DEFINE F(m) == SubSeq(p, 1, m)
             T == {m \in Nat : m <= Len(p) => FlatMap(G, F(m)) = <<>>}
  <1>0. Len(p) \in Nat
    OBVIOUS
  <1>1. 0 \in T
    <2>1. F(0) = <<>>
      OBVIOUS
    <2> HIDE DEF F
    <2>2. FlatMap(G, F(0)) = <<>>
      BY <2>1, FlatMapEmpty
    <2> QED
      BY <2>2
  <1>2. ASSUME NEW m \in T PROVE m + 1 \in T
    <2> SUFFICES ASSUME m + 1 <= Len(p) PROVE FlatMap(G, F(m + 1)) = <<>>
      OBVIOUS
    <2> DEFINE x == p[m + 1]
    <2>1. m \in Nat /\ m + 1 \in 1..Len(p) /\ x \in X
      BY <1>0
    <2>2. F(m) \in Seq(X) /\ F(m + 1) = F(m) \o <<x>>
      BY <1>0, <2>1
    <2>3. FlatMap(G, F(m)) = <<>>
      BY <1>0
    <2>4. G[x] = <<>>
      BY <2>1
    <2> HIDE DEF F, x
    <2>5. <<x>> \in Seq(X)
      BY <2>1
    <2>6. FlatMap(G, F(m) \o <<x>>) = FlatMap(G, F(m)) \o FlatMap(G, <<x>>)
      <3> DEFINE y == F(m)
                 z == <<x>>
      <3>1. y \in Seq(X) /\ z \in Seq(X)
        BY <2>2, <2>5
      <3> HIDE DEF y, z
      <3>2. FlatMap(G, y \o z) = FlatMap(G, y) \o FlatMap(G, z)
        BY <3>1, FlatMapConcat
      <3> QED
        BY <3>2 DEF y, z
    <2>7. FlatMap(G, <<x>>) = G[x]
      BY <2>1, FlatMapOne
    <2>8. <<>> \o <<>> = <<>>
      OBVIOUS
    <2> QED
      BY <2>2, <2>3, <2>4, <2>6, <2>7, <2>8
  <1>3. T = Nat
    <2>1. T \in SUBSET Nat
      OBVIOUS
    <2> HIDE DEF T
    <2> QED
      BY <1>1, <1>2, <2>1, SetInduction
  <1>4. F(Len(p)) = p
    OBVIOUS
  <1>5. Len(p) \in T
    <2> HIDE DEF T
    <2> QED
      BY <1>0, <1>3
  <1>6. FlatMap(G, F(Len(p))) = <<>>
    BY <1>0, <1>5
  <1> HIDE DEF F
  <1> QED
    BY <1>4, <1>6

\* Of sequences of sequences.
LEMMA FlatMapFlatten ==
    ASSUME NEW X, NEW S, NEW G, MapsTo(G, X, Seq(S)), NEW H, MapsTo(H, Seq(X), Seq(S)),
           \A p \in Seq(X) : H[p] = FlatMap(G, p),
           NEW ss \in Seq(Seq(X))
    PROVE  FlatMap(G, FlattenSeq(ss)) = FlatMap(H, ss)
  <1> DEFINE F(m) == SubSeq(ss, 1, m)
             T == {m \in Nat : m <= Len(ss) => FlatMap(G, FlattenSeq(F(m))) = FlatMap(H, F(m))}
             Y == Seq(X)
  <1>0. Len(ss) \in Nat
    OBVIOUS
  <1>1. 0 \in T
    <2>1. F(0) = <<>>
      OBVIOUS
    <2> HIDE DEF F
    <2>2. FlatMap(G, FlattenSeq(F(0))) = <<>> /\ FlatMap(H, F(0)) = <<>>
      BY <2>1, FlatMapEmpty, FlattenEmpty
    <2>3. FlatMap(G, FlattenSeq(F(0))) = FlatMap(H, F(0))
      BY <2>2
    <2> QED
      BY <2>3
  <1>2. ASSUME NEW m \in T PROVE m + 1 \in T
    <2> SUFFICES ASSUME m + 1 <= Len(ss)
                 PROVE  FlatMap(G, FlattenSeq(F(m + 1))) = FlatMap(H, F(m + 1))
      OBVIOUS
    <2> DEFINE x == ss[m + 1]
               a == FlattenSeq(F(m))
    <2>1. m \in Nat /\ m + 1 \in 1..Len(ss) /\ x \in Seq(X)
      BY <1>0
    <2>2. F(m) \in Seq(Seq(X)) /\ F(m + 1) = Append(F(m), x) /\ F(m + 1) = F(m) \o <<x>>
      BY <1>0, <2>1
    <2>3. FlatMap(G, FlattenSeq(F(m))) = FlatMap(H, F(m))
      BY <1>0
    <2> HIDE DEF F, x
    <2>4. FlattenSeq(Append(F(m), x)) = a \o x /\ a \in Seq(X)
      BY <2>1, <2>2, FlattenAppend, FlattenType
    <2> HIDE DEF a
    <2>5. FlatMap(G, a \o x) = FlatMap(G, a) \o FlatMap(G, x)
      <3>1. a \in Seq(X) /\ x \in Seq(X)
        BY <2>1, <2>4
      <3> QED
        BY <3>1, FlatMapConcat
    <2>6. F(m) \in Seq(Y) /\ x \in Y /\ MapsTo(H, Y, Seq(S))
      BY <2>1, <2>2
    <2> HIDE DEF Y
    <2>7. <<x>> \in Seq(Y)
      BY <2>6
    <2>8. FlatMap(H, F(m) \o <<x>>) = FlatMap(H, F(m)) \o FlatMap(H, <<x>>)
      <3> DEFINE y == F(m)
                 z == <<x>>
      <3>1. y \in Seq(Y) /\ z \in Seq(Y)
        BY <2>6, <2>7
      <3> HIDE DEF y, z
      <3>2. FlatMap(H, y \o z) = FlatMap(H, y) \o FlatMap(H, z)
        BY <2>6, <3>1, FlatMapConcat
      <3> QED
        BY <3>2 DEF y, z
    <2>9. FlatMap(H, <<x>>) = H[x]
      BY <2>6, FlatMapOne
    <2>10. H[x] = FlatMap(G, x)
      BY <2>1
    <2> QED
      BY <2>2, <2>3, <2>4, <2>5, <2>8, <2>9, <2>10 DEF a
  <1>3. T = Nat
    <2>1. T \in SUBSET Nat
      OBVIOUS
    <2> HIDE DEF T
    <2> QED
      BY <1>1, <1>2, <2>1, SetInduction
  <1>4. F(Len(ss)) = ss
    OBVIOUS
  <1>5. Len(ss) \in T
    <2> HIDE DEF T
    <2> QED
      BY <1>0, <1>3
  <1>6. FlatMap(G, FlattenSeq(F(Len(ss)))) = FlatMap(H, F(Len(ss)))
    BY <1>0, <1>5
  <1> HIDE DEF F
  <1> QED
    BY <1>4, <1>6

\* What the first begins with, all begin with.
LEMMA FlattenBegins ==
    ASSUME NEW S, NEW s \in Seq(Seq(S)), Len(s) # 0, Len(s[1]) # 0
    PROVE  Len(FlattenSeq(s)) # 0 /\ FlattenSeq(s)[1] = s[1][1]
  <1> DEFINE a == s[1]
             t == Tail(s)
             b == FlattenSeq(t)
  <1>1. s # <<>> /\ a \in Seq(S)
    OBVIOUS
  <1>2. /\ t \in Seq(Seq(S)) /\ Len(t) = Len(s) - 1 /\ Len(s) \in Nat /\ Len(s) >= 1
        /\ \A k \in 1..(Len(s) - 1) : t[k] = s[k + 1]
    BY <1>1, TailIs
  <1>3. s = <<a>> \o t
    <2> DEFINE X == Seq(S)
               u == <<a>>
               v == u \o t
    <2>1. u \in Seq(X) /\ Len(u) = 1 /\ u[1] = a
      BY <1>1
    <2>2. t \in Seq(X) /\ s \in Seq(X)
      BY <1>2
    <2> HIDE DEF X, u, t
    <2>3. /\ v \in Seq(X) /\ Len(v) = Len(u) + Len(t)
          /\ \A k \in 1..(Len(u) + Len(t)) : v[k] = IF k <= Len(u) THEN u[k] ELSE t[k - Len(u)]
      BY <2>1, <2>2, ConcatProperties
    <2> HIDE DEF v
    <2>4. Len(v) = Len(s)
      BY <1>2, <2>1, <2>3
    <2>5. ASSUME NEW k \in 1..Len(s) PROVE s[k] = v[k]
      <3>1. CASE k = 1
        BY <1>2, <2>1, <2>3, <3>1
      <3>2. CASE k # 1
        <4>1. k - 1 \in 1..(Len(s) - 1) /\ (k - 1) + 1 = k /\ ~(k <= 1)
          BY <1>2, <3>2
        <4>2. v[k] = t[k - 1]
          BY <1>2, <2>1, <2>3, <4>1
        <4> QED
          BY <1>2, <4>1, <4>2
      <3> QED
        BY <3>1, <3>2
    <2>6. s = v
      BY <2>2, <2>3, <2>4, <2>5, SeqEqual
    <2> QED
      BY <2>6 DEF v, u
  <1> HIDE DEF a, t
  <1>4. <<a>> \in Seq(Seq(S)) /\ FlattenSeq(<<a>>) = a
    <2>1. <<>> \in Seq(Seq(S)) /\ <<>> \o a = a
      BY <1>1, ConcatEmptySeq
    <2>2. FlattenSeq(Append(<<>>, a)) = FlattenSeq(<<>>) \o a
      BY <1>1, <2>1, FlattenAppend
    <2>3. Append(<<>>, a) = <<a>>
      OBVIOUS
    <2>4. <<a>> \in Seq(Seq(S))
      BY <1>1
    <2> QED
      BY <2>1, <2>2, <2>3, <2>4, FlattenEmpty
  <1>5. FlattenSeq(s) = a \o b /\ b \in Seq(S)
    <2>1. FlattenSeq(<<a>> \o t) = FlattenSeq(<<a>>) \o FlattenSeq(t)
      BY <1>2, <1>4, FlattenConcat
    <2>2. b \in Seq(S)
      BY <1>2, FlattenType
    <2> QED
      BY <1>3, <1>4, <2>1, <2>2
  <1> HIDE DEF b
  <1>6. Len(a) # 0
    BY DEF a
  <1>7. Len(a \o b) # 0 /\ (a \o b)[1] = a[1]
    <2>1. /\ a \o b \in Seq(S) /\ Len(a \o b) = Len(a) + Len(b)
          /\ \A k \in 1..(Len(a) + Len(b)) : (a \o b)[k] = IF k <= Len(a) THEN a[k] ELSE b[k - Len(a)]
      BY <1>1, <1>5, ConcatProperties
    <2>2. Len(a) \in Nat /\ Len(b) \in Nat
      BY <1>1, <1>5
    <2> QED
      BY <1>6, <2>1, <2>2
  <1> QED
    BY <1>5, <1>7 DEF a

-----------------------------------------------------------------------------
(* The text of sorm_create_table.                                          *)

\* A sequence is its front and its last element.
LEMMA FrontIs ==
    ASSUME NEW X, NEW s \in Seq(X), Len(s) # 0
    PROVE  Front(s) \in Seq(X) /\ s = Append(Front(s), s[Len(s)])
  <1> DEFINE n == Len(s)
             f == SubSeq(s, 1, n - 1)
             x == s[n]
  <1>1. n \in Nat /\ n >= 1 /\ x \in X
    OBVIOUS
  <1>2. f \in Seq(X) /\ Len(f) = n - 1 /\ \A k \in 1..(n - 1) : f[k] = s[k]
    <2> DEFINE m == n - 1
    <2>1. m \in Nat /\ m <= Len(s) /\ m \in 0..Len(s)
      BY <1>1
    <2> HIDE DEF m
    <2>2. SubSeq(s, 1, m) \in Seq(X) /\ Len(SubSeq(s, 1, m)) = m
      BY <2>1
    <2>3. \A k \in 1..m : SubSeq(s, 1, m)[k] = s[k]
      BY <2>1
    <2> QED
      BY <2>2, <2>3 DEF m
  <1>3. Front(s) = f
    BY DEF Front
  <1> HIDE DEF f, x, n
  <1>4. Len(s) = Len(f) + 1 /\ s[Len(f) + 1] = x /\ \A k \in 1..Len(f) : s[k] = f[k]
    <2>1. Len(s) = n /\ (n - 1) + 1 = n /\ s[n] = x
      BY <1>1 DEF n, x
    <2> QED
      BY <1>2, <2>1
  <1>5. Append(f, x) = s
    BY <1>1, <1>2, <1>4, Longer
  <1> QED
    BY <1>2, <1>3, <1>5 DEF x, n

\* A constraint ends with a comma.
LEMMA ConstraintIs ==
    ASSUME NEW j \in Numbers
    PROVE  /\ Constraint(j) \in Seq(Quiet) /\ Front(Constraint(j)) \in Seq(Quiet)
           /\ Constraint(j) = Append(Front(Constraint(j)), Lit(","))
  <1> DEFINE s == Constraint(j)
             comma == Lit(",")
  <1>1. Lit(" ") \in Quiet /\ comma \in Quiet
    BY LitsAre
  <1>2. s \in Seq(Quiet) /\ Len(s) # 0 /\ s[Len(s)] = comma
    <2>1. CASE j \in Unique
      <3> DEFINE w == Lit(Constraints[j])
      <3>1. w \in Quiet
        <4>1. Constraints[j] \in {"PRIMARY KEY", "PRIMARY KEY DESC", "PRIMARY KEY ASC", "UNIQUE"}
          BY <2>1, StatementsAssumption DEF Unique
        <4>2. /\ Lit("PRIMARY KEY") \in Quiet /\ Lit("PRIMARY KEY DESC") \in Quiet
              /\ Lit("PRIMARY KEY ASC") \in Quiet /\ Lit("UNIQUE") \in Quiet
          BY LitsAre
        <4> QED
          BY <4>1, <4>2
      <3>2. s = <<Lit(" "), w, comma>>
        BY <2>1 DEF Constraint
      <3> HIDE DEF w, s, comma
      <3>3. s \in Seq(Quiet)
        BY <1>1, <3>1, <3>2, Parts
      <3>4. Len(s) = 3 /\ s[3] = comma
        BY <3>2
      <3> QED
        BY <3>3, <3>4
    <2>2. CASE j \notin Unique
      <3>1. s = <<comma>>
        BY <2>2 DEF Constraint
      <3> HIDE DEF s, comma
      <3>2. s \in Seq(Quiet)
        BY <1>1, <3>1, Parts
      <3>3. Len(s) = 1 /\ s[1] = comma
        BY <3>1
      <3> QED
        BY <3>2, <3>3
    <2> QED
      BY <2>1, <2>2
  <1> HIDE DEF s, comma
  <1>3. Front(s) \in Seq(Quiet) /\ s = Append(Front(s), s[Len(s)])
    BY <1>2, FrontIs
  <1>4. s = Append(Front(s), comma)
    BY <1>2, <1>3
  <1> QED
    BY <1>2, <1>3, <1>4 DEF s, comma

\* So does a foreign key.
LEMMA ForeignKeyIs ==
    ASSUME NEW j \in Numbers
    PROVE  /\ ForeignKey(j) \in Seq(Quiet) /\ Front(ForeignKey(j)) \in Seq(Quiet)
           /\ ForeignKey(j) = Append(Front(ForeignKey(j)), Lit(","))
  <1> DEFINE s == ForeignKey(j)
             comma == Lit(",")
             a == Lit(" FOREIGN KEY(")
             b == Col(j)
             c == Lit(") REFERENCES ")
             d == Table(2)
             e == Lit("(")
             f == Lit(")")
  <1>1. /\ a \in Quiet /\ b \in Quiet /\ c \in Quiet /\ d \in Quiet /\ e \in Quiet
        /\ f \in Quiet /\ comma \in Quiet
    BY LitsAre, NamesAre
  <1>2. s = <<a, b, c, d, e, b, f, comma>>
    BY DEF ForeignKey
  <1> HIDE DEF s, comma, a, b, c, d, e, f
  <1>3. s \in Seq(Quiet)
    BY <1>1, <1>2, LongParts
  <1>4. Len(s) = 8 /\ s[8] = comma
    BY <1>2
  <1>5. Len(s) # 0 /\ s[Len(s)] = comma
    BY <1>4
  <1>6. Front(s) \in Seq(Quiet) /\ s = Append(Front(s), s[Len(s)])
    BY <1>3, <1>5, FrontIs
  <1>7. s = Append(Front(s), comma)
    BY <1>5, <1>6
  <1> QED
    BY <1>3, <1>6, <1>7 DEF s, comma

Speak == [s \in Says |-> s.pieces]

\* What a program of prints says.
LEMMA SpeakIs ==
    /\ MapsTo(Speak, Says, Seq(Pieces))
    /\ \A s \in Says : Speak[s] = s.pieces
    /\ \A q \in Seq(Pieces) : Prints(q) \in Says /\ Speak[Prints(q)] = q
  <1>1. \A s \in Says : s.pieces \in Seq(Pieces)
    BY DEF Says
  <1>2. MapsTo(Speak, Says, Seq(Pieces)) /\ \A s \in Says : Speak[s] = s.pieces
    BY <1>1 DEF MapsTo, Speak
  <1>3. \A q \in Seq(Pieces) : Prints(q) \in Says /\ Prints(q).pieces = q
    BY DEF Prints, PrintIn, Says
  <1> QED
    BY <1>2, <1>3

\* The same.
LEMMA SpokenIs ==
    ASSUME NEW p \in Seq(Says)
    PROVE  Spoken(p) = FlatMap(Speak, p)
  <1> DEFINE n == Len(p)
  <1>1. \A k \in 1..n : p[k] \in Says
    OBVIOUS
  <1>2. \A k \in 1..n : Speak[p[k]] = p[k].pieces
    BY <1>1, SpeakIs
  <1>3. [k \in 1..n |-> p[k].pieces] = [k \in 1..n |-> Speak[p[k]]]
    <2> HIDE DEF n
    <2> QED
      BY <1>2
  <1> QED
    BY <1>3 DEF Spoken, FlatMap, Mapped

\* One for each column.
LEMMA RowMapped ==
    ASSUME NEW S \in SUBSET Numbers, NEW X, NEW Y, NEW M, MapsTo(M, X, Y),
           NEW G, MapsTo(G, Numbers, X), NEW H, MapsTo(H, Numbers, Y),
           \A j \in Numbers : M[G[j]] = H[j]
    PROVE  Mapped(M, Row(S, G)) = Row(S, H)
  <1> DEFINE n == Cardinality(S)
             a == Row(S, G)
             b == Row(S, H)
             c == Mapped(M, a)
  <1>1. G \in [Numbers -> X] /\ H \in [Numbers -> Y]
    BY DEF MapsTo
  <1>2. /\ a \in Seq(X) /\ Len(a) = n /\ n \in Nat
        /\ \A k \in 1..n : InOrder(S)[k] \in Numbers /\ a[k] = G[InOrder(S)[k]]
    BY <1>1, RowIs, ZenonT(80)
  <1>3. /\ b \in Seq(Y) /\ Len(b) = n
        /\ \A k \in 1..n : b[k] = H[InOrder(S)[k]]
    BY <1>1, RowIs, ZenonT(80)
  <1> HIDE DEF a, b, n
  <1>4. c \in Seq(Y) /\ Len(c) = Len(a) /\ \A k \in 1..Len(a) : c[k] = M[a[k]]
    BY <1>2, MappedIs
  <1> HIDE DEF c
  <1>5. Len(c) = Len(b)
    BY <1>2, <1>3, <1>4
  <1>6. \A k \in 1..Len(c) : c[k] = b[k]
    <2> SUFFICES ASSUME NEW k \in 1..n PROVE c[k] = b[k]
      BY <1>2, <1>4
    <2> DEFINE j == InOrder(S)[k]
    <2>1. j \in Numbers /\ a[k] = G[j] /\ b[k] = H[j]
      BY <1>2, <1>3
    <2>2. c[k] = M[a[k]]
      BY <1>2, <1>4
    <2> HIDE DEF j
    <2> QED
      BY <2>1, <2>2
  <1>7. c = b
    BY <1>3, <1>4, <1>5, <1>6, SeqEqual
  <1> QED
    BY <1>7 DEF c, a, b

Typed(j) == <<Lit(" "), Col(j), Lit(" "), Lit("INTEGER")>>
ColumnParts == [j \in Numbers |-> Typed(j) \o Front(Constraint(j))]
KeyParts == [j \in Numbers |-> Front(ForeignKey(j))]
ColumnSteps == [j \in Numbers |-> <<Prints(Typed(j)), Prints(Constraint(j))>>]
KeySteps == [j \in Numbers |-> Prints(ForeignKey(j))]

BodyParts(flags) ==
    Row(Numbers, ColumnParts) \o (IF flags THEN Row(Foreign, KeyParts) ELSE <<>>)
BodySteps(flags) ==
    FlattenSeq(Row(Numbers, ColumnSteps)) \o (IF flags THEN Row(Foreign, KeySteps) ELSE <<>>)

\* The prints and the parts of the columns and of the foreign keys.
LEMMA BodyTypes ==
    /\ Foreign \in SUBSET Numbers /\ Numbers \in SUBSET Numbers /\ Numbers # {}
    /\ MapsTo(ColumnParts, Numbers, Seq(Quiet)) /\ MapsTo(KeyParts, Numbers, Seq(Quiet))
    /\ MapsTo(ColumnSteps, Numbers, Seq(Said)) /\ MapsTo(KeySteps, Numbers, Said)
    /\ \A j \in Numbers :
          /\ Typed(j) \in Seq(Quiet)
          /\ ColumnParts[j] = Typed(j) \o Front(Constraint(j))
          /\ ColumnSteps[j] = <<Prints(Typed(j)), Prints(Constraint(j))>>
          /\ KeyParts[j] = Front(ForeignKey(j)) /\ KeySteps[j] = Prints(ForeignKey(j))
  <1>1. Foreign \in SUBSET Numbers /\ Numbers \in SUBSET Numbers /\ Numbers # {}
    BY StatementsAssumption, NamesAre
  <1>2. ASSUME NEW j \in Numbers
        PROVE  /\ Typed(j) \in Seq(Quiet)
               /\ Typed(j) \o Front(Constraint(j)) \in Seq(Quiet)
               /\ Front(ForeignKey(j)) \in Seq(Quiet)
               /\ <<Prints(Typed(j)), Prints(Constraint(j))>> \in Seq(Said)
               /\ Prints(ForeignKey(j)) \in Said
    <2>1. Typed(j) \in Seq(Quiet)
      <3>1. Lit(" ") \in Quiet /\ Col(j) \in Quiet /\ Lit("INTEGER") \in Quiet
        BY LitsAre, NamesAre
      <3> QED
        BY <3>1, Parts DEF Typed
    <2>2. Front(Constraint(j)) \in Seq(Quiet) /\ Constraint(j) \in Seq(Quiet)
      BY ConstraintIs
    <2>3. Front(ForeignKey(j)) \in Seq(Quiet) /\ ForeignKey(j) \in Seq(Quiet)
      BY ForeignKeyIs
    <2>4. Typed(j) \o Front(Constraint(j)) \in Seq(Quiet)
      BY <2>1, <2>2, Sum2
    <2>5. Prints(Typed(j)) \in Said /\ Prints(Constraint(j)) \in Said
      BY <2>1, <2>2, PrintsQuiet
    <2>6. Prints(ForeignKey(j)) \in Said
      BY <2>3, PrintsQuiet
    <2>7. <<Prints(Typed(j)), Prints(Constraint(j))>> \in Seq(Said)
      BY <2>5, Parts
    <2> QED
      BY <2>1, <2>3, <2>4, <2>6, <2>7
  <1> DEFINE Q == Seq(Quiet)
             R == Seq(Said)
  <1>3. MapsTo(ColumnParts, Numbers, Q) /\ MapsTo(KeyParts, Numbers, Q)
    <2>1. \A j \in Numbers : /\ Typed(j) \o Front(Constraint(j)) \in Q
                             /\ Front(ForeignKey(j)) \in Q
      BY <1>2
    <2> HIDE DEF Q
    <2> QED
      BY <2>1 DEF MapsTo, ColumnParts, KeyParts
  <1>4. MapsTo(ColumnSteps, Numbers, R) /\ MapsTo(KeySteps, Numbers, Said)
    <2>1. \A j \in Numbers : /\ <<Prints(Typed(j)), Prints(Constraint(j))>> \in R
                             /\ Prints(ForeignKey(j)) \in Said
      BY <1>2
    <2> HIDE DEF R
    <2> QED
      BY <2>1 DEF MapsTo, ColumnSteps, KeySteps
  <1>5. \A j \in Numbers :
          /\ ColumnParts[j] = Typed(j) \o Front(Constraint(j))
          /\ ColumnSteps[j] = <<Prints(Typed(j)), Prints(Constraint(j))>>
          /\ KeyParts[j] = Front(ForeignKey(j)) /\ KeySteps[j] = Prints(ForeignKey(j))
    BY DEF ColumnParts, KeyParts, ColumnSteps, KeySteps
  <1> QED
    BY <1>1, <1>2, <1>3, <1>4, <1>5

\* A print without a semicolon is a print.
LEMMA SaidSays == Said \subseteq Says /\ Seq(Said) \subseteq Seq(Says)
  <1>1. Said \subseteq Says
    <2>1. \A t \in Seq(Quiet) : t \in Seq(Pieces)
      BY QuietAre
    <2> QED
      BY <2>1 DEF Said, Says
  <1>2. \A p \in Seq(Said) : p \in Seq(Says)
    BY <1>1, SeqMonotonic
  <1> QED
    BY <1>1, <1>2

\* Every row of such sequences is a sequence.
LEMMA RowType ==
    ASSUME NEW S \in SUBSET Numbers, NEW X, NEW G, MapsTo(G, Numbers, X)
    PROVE  Row(S, G) \in Seq(X) /\ Len(Row(S, G)) = Cardinality(S)
  <1>1. G \in [Numbers -> X]
    BY DEF MapsTo
  <1> QED
    BY <1>1, RowIs

Comma == [t \in Seq(Quiet) |-> Append(t, Lit(","))]
Speech == [p \in Seq(Says) |-> FlatMap(Speak, p)]

\* The prints of the columns say the parts of the columns, a comma behind each.
LEMMA ColumnsSaid ==
    /\ FlattenSeq(Row(Numbers, ColumnSteps)) \in Seq(Said)
    /\ FlatMap(Speak, FlattenSeq(Row(Numbers, ColumnSteps)))
          = FlatMap(Comma, Row(Numbers, ColumnParts))
  <1> DEFINE R == Row(Numbers, ColumnSteps)
             comma == Lit(",")
             Q == Seq(Quiet)
             P == Seq(Says)
             Z == Seq(Pieces)
             GC == [j \in Numbers |-> Append(ColumnParts[j], comma)]
  <1>1. MapsTo(ColumnSteps, Numbers, Seq(Said)) /\ MapsTo(ColumnParts, Numbers, Q)
    BY BodyTypes
  <1>2. R \in Seq(Seq(Said))
    <2> DEFINE X == Seq(Said)
    <2>1. MapsTo(ColumnSteps, Numbers, X) /\ Numbers \in SUBSET Numbers
      BY BodyTypes
    <2> HIDE DEF X
    <2>2. R \in Seq(X)
      BY <2>1, RowType
    <2> QED
      BY <2>2 DEF X
  <1>3. FlattenSeq(R) \in Seq(Said)
    <2> HIDE DEF R
    <2> QED
      BY <1>2, FlattenType
  <1>4. R \in Seq(Seq(Says))
    <2> HIDE DEF R
    <2> QED
      BY <1>2, SaidSays, SeqMonotonic
  <1>5. MapsTo(Speech, P, Z) /\ \A p \in Seq(Says) : Speech[p] = FlatMap(Speak, p)
    <2>1. \A p \in Seq(Says) : FlatMap(Speak, p) \in Seq(Pieces)
      BY SpeakIs, FlatMapIs
    <2> QED
      BY <2>1 DEF MapsTo, Speech
  <1>6. FlatMap(Speak, FlattenSeq(R)) = FlatMap(Speech, R)
    <2> HIDE DEF R
    <2>1. MapsTo(Speech, Seq(Says), Seq(Pieces)) /\ MapsTo(Speak, Says, Seq(Pieces))
      BY <1>5, SpeakIs
    <2> QED
      BY <1>4, <1>5, <2>1, FlatMapFlatten
  <1>7. ASSUME NEW j \in Numbers
        PROVE  /\ ColumnSteps[j] \in P
               /\ Speech[ColumnSteps[j]] = Append(ColumnParts[j], comma)
               /\ Append(ColumnParts[j], comma) \in Z /\ ColumnParts[j] \in Q
               /\ Comma[ColumnParts[j]] = Append(ColumnParts[j], comma)
    <2> DEFINE t == Typed(j)
               c == Constraint(j)
               f == Front(Constraint(j))
               x == Prints(t)
               y == Prints(c)
    <2>1. t \in Seq(Quiet) /\ ColumnParts[j] = t \o f /\ ColumnSteps[j] = <<x, y>>
      BY BodyTypes
    <2>2. c \in Seq(Quiet) /\ f \in Seq(Quiet) /\ c = Append(f, comma)
      BY ConstraintIs
    <2>3. t \in Seq(Pieces) /\ c \in Seq(Pieces) /\ f \in Seq(Pieces)
      BY <2>1, <2>2, QuietAre
    <2>4. comma \in Pieces /\ comma \in Quiet
      BY LitsAre
    <2> HIDE DEF t, c, f, comma
    <2>5. x \in Says /\ y \in Says /\ Speak[x] = t /\ Speak[y] = c
      BY <2>3, SpeakIs
    <2> HIDE DEF x, y
    <2>6. <<x, y>> = <<x>> \o <<y>> /\ <<x>> \in Seq(Says) /\ <<y>> \in Seq(Says)
          /\ <<x, y>> \in Seq(Says)
      BY <2>5, Two, Parts
    <2>7. FlatMap(Speak, <<x>>) = t /\ FlatMap(Speak, <<y>>) = c
      BY <2>5, SpeakIs, FlatMapOne
    <2>8. FlatMap(Speak, <<x, y>>) = t \o c
      <3> DEFINE u == <<x>>
                 v == <<y>>
      <3>1. u \in Seq(Says) /\ v \in Seq(Says)
        BY <2>6
      <3> HIDE DEF u, v
      <3>2. FlatMap(Speak, u \o v) = FlatMap(Speak, u) \o FlatMap(Speak, v)
        BY <3>1, SpeakIs, FlatMapConcat
      <3> QED
        BY <2>6, <2>7, <3>2 DEF u, v
    <2>9. t \o c = Append(t \o f, comma)
      BY <2>2, <2>3, <2>4, AppendBehind
    <2>10. Speech[<<x, y>>] = FlatMap(Speak, <<x, y>>)
      BY <1>5, <2>6
    <2>11. t \o f \in Seq(Quiet)
      BY <2>1, <2>2, Sum2
    <2>12. Append(t \o f, comma) \in Seq(Quiet)
      <3> DEFINE u == t \o f
      <3> HIDE DEF u
      <3>1. u \in Seq(Quiet)
        BY <2>11 DEF u
      <3>2. Append(u, comma) \in Seq(Quiet)
        BY <2>4, <3>1, Behind
      <3> QED
        BY <3>2 DEF u
    <2>13. Append(t \o f, comma) \in Seq(Pieces)
      BY <2>12, QuietAre
    <2>14. Comma[t \o f] = Append(t \o f, comma)
      BY <2>11 DEF Comma, comma
    <2> QED
      BY <2>1, <2>6, <2>8, <2>9, <2>10, <2>11, <2>13, <2>14
  <1>8. MapsTo(GC, Numbers, Z) /\ \A j \in Numbers : GC[j] = Append(ColumnParts[j], comma)
    <2> HIDE DEF Z, comma
    <2> QED
      BY <1>7 DEF MapsTo
  <1>9. MapsTo(ColumnSteps, Numbers, P)
    <2>1. ColumnSteps = [j \in Numbers |-> ColumnSteps[j]]
      BY <1>1 DEF MapsTo
    <2> HIDE DEF P
    <2> QED
      BY <1>7, <2>1 DEF MapsTo
  <1>10. MapsTo(Comma, Q, Z)
    <2>1. \A t \in Q : Append(t, Lit(",")) \in Z
      <3> SUFFICES ASSUME NEW t \in Seq(Quiet) PROVE Append(t, Lit(",")) \in Seq(Pieces)
        OBVIOUS
      <3>1. Lit(",") \in Quiet
        BY LitsAre
      <3>2. Append(t, Lit(",")) \in Seq(Quiet)
        BY <3>1, Behind
      <3> QED
        BY <3>2, QuietAre
    <2>2. Comma = [t \in Q |-> Append(t, Lit(","))]
      BY DEF Comma
    <2> HIDE DEF Q, Z
    <2> QED
      BY <2>1, <2>2 DEF MapsTo
  <1>11. \A j \in Numbers : Speech[ColumnSteps[j]] = GC[j] /\ Comma[ColumnParts[j]] = GC[j]
    <2> HIDE DEF GC, comma
    <2> QED
      BY <1>7, <1>8
  <1>12. Numbers \in SUBSET Numbers
    OBVIOUS
  <1> HIDE DEF GC, P, Q, Z
  <1>13. Mapped(Speech, Row(Numbers, ColumnSteps)) = Row(Numbers, GC)
    <2>1. \A j \in Numbers : Speech[ColumnSteps[j]] = GC[j]
      BY <1>11
    <2>2. MapsTo(Speech, P, Z) /\ MapsTo(ColumnSteps, Numbers, P) /\ MapsTo(GC, Numbers, Z)
      BY <1>5, <1>8, <1>9
    <2> QED
      BY <1>12, <2>1, <2>2, RowMapped
  <1>14. Mapped(Comma, Row(Numbers, ColumnParts)) = Row(Numbers, GC)
    <2>1. \A j \in Numbers : Comma[ColumnParts[j]] = GC[j]
      BY <1>11
    <2>2. MapsTo(Comma, Q, Z) /\ MapsTo(ColumnParts, Numbers, Q) /\ MapsTo(GC, Numbers, Z)
      BY <1>1, <1>8, <1>10
    <2> QED
      BY <1>12, <2>1, <2>2, RowMapped
  <1> QED
    BY <1>3, <1>6, <1>13, <1>14 DEF FlatMap

\* A comma behind a part.
LEMMA CommaIs ==
    /\ MapsTo(Comma, Seq(Quiet), Seq(Pieces))
    /\ \A t \in Seq(Quiet) : Comma[t] = Append(t, Lit(","))
  <1>1. \A t \in Seq(Quiet) : Append(t, Lit(",")) \in Seq(Pieces)
    <2> SUFFICES ASSUME NEW t \in Seq(Quiet) PROVE Append(t, Lit(",")) \in Seq(Pieces)
      OBVIOUS
    <2>1. Lit(",") \in Quiet
      BY LitsAre
    <2>2. Append(t, Lit(",")) \in Seq(Quiet)
      BY <2>1, Behind
    <2> QED
      BY <2>2, QuietAre
  <1> DEFINE Q == Seq(Quiet)
             Z == Seq(Pieces)
  <1>2. Comma = [t \in Q |-> Append(t, Lit(","))] /\ \A t \in Q : Append(t, Lit(",")) \in Z
    BY <1>1 DEF Comma
  <1> HIDE DEF Q, Z
  <1>3. MapsTo(Comma, Q, Z) /\ \A t \in Q : Comma[t] = Append(t, Lit(","))
    BY <1>2 DEF MapsTo
  <1> QED
    BY <1>3 DEF Q, Z

\* The prints of the foreign keys say their parts, a comma behind each.
LEMMA KeysSaid ==
    /\ Row(Foreign, KeySteps) \in Seq(Said)
    /\ FlatMap(Speak, Row(Foreign, KeySteps)) = FlatMap(Comma, Row(Foreign, KeyParts))
  <1> DEFINE Q == Seq(Quiet)
             Z == Seq(Pieces)
             GC == [j \in Numbers |-> ForeignKey(j)]
  <1>1. MapsTo(KeySteps, Numbers, Said) /\ MapsTo(KeyParts, Numbers, Q)
        /\ Foreign \in SUBSET Numbers
    BY BodyTypes
  <1>2. Row(Foreign, KeySteps) \in Seq(Said)
    BY <1>1, RowType
  <1>3. ASSUME NEW j \in Numbers
        PROVE  /\ KeySteps[j] \in Says /\ Speak[KeySteps[j]] = ForeignKey(j)
               /\ ForeignKey(j) \in Z /\ Comma[KeyParts[j]] = ForeignKey(j)
    <2> DEFINE s == ForeignKey(j)
               f == Front(ForeignKey(j))
    <2>1. s \in Seq(Quiet) /\ f \in Seq(Quiet) /\ s = Append(f, Lit(","))
      BY ForeignKeyIs
    <2>2. KeySteps[j] = Prints(s) /\ KeyParts[j] = f
      BY BodyTypes
    <2> HIDE DEF s, f
    <2>3. s \in Seq(Pieces)
      BY <2>1, QuietAre
    <2>4. Prints(s) \in Says /\ Speak[Prints(s)] = s
      BY <2>3, SpeakIs
    <2>5. Comma[f] = Append(f, Lit(","))
      BY <2>1, CommaIs
    <2>6. KeySteps[j] \in Says /\ Speak[KeySteps[j]] = s
      BY <2>2, <2>4
    <2>7. Comma[KeyParts[j]] = s
      BY <2>1, <2>2, <2>5
    <2> QED
      BY <2>3, <2>6, <2>7 DEF s
  <1>4. MapsTo(GC, Numbers, Z) /\ \A j \in Numbers : GC[j] = ForeignKey(j)
    <2> HIDE DEF Z
    <2> QED
      BY <1>3 DEF MapsTo
  <1>5. MapsTo(KeySteps, Numbers, Says)
    <2>1. KeySteps = [j \in Numbers |-> KeySteps[j]]
      BY <1>1 DEF MapsTo
    <2> QED
      BY <1>3, <2>1 DEF MapsTo
  <1>6. MapsTo(Comma, Q, Z) /\ MapsTo(Speak, Says, Z)
    BY CommaIs, SpeakIs
  <1> HIDE DEF GC, Q, Z
  <1>7. Mapped(Speak, Row(Foreign, KeySteps)) = Row(Foreign, GC)
    <2>1. \A j \in Numbers : Speak[KeySteps[j]] = GC[j]
      BY <1>3, <1>4
    <2>2. MapsTo(Speak, Says, Z) /\ MapsTo(KeySteps, Numbers, Says) /\ MapsTo(GC, Numbers, Z)
      BY <1>4, <1>5, <1>6
    <2> QED
      BY <1>1, <2>1, <2>2, RowMapped
  <1>8. Mapped(Comma, Row(Foreign, KeyParts)) = Row(Foreign, GC)
    <2>1. \A j \in Numbers : Comma[KeyParts[j]] = GC[j]
      BY <1>3, <1>4
    <2>2. MapsTo(Comma, Q, Z) /\ MapsTo(KeyParts, Numbers, Q) /\ MapsTo(GC, Numbers, Z)
      BY <1>1, <1>4, <1>6
    <2> QED
      BY <1>1, <2>1, <2>2, RowMapped
  <1> QED
    BY <1>2, <1>7, <1>8 DEF FlatMap

\* The body of the statement: all parts joined, and a comma behind the last.
LEMMA BodySaid ==
    ASSUME NEW flags
    PROVE  /\ BodySteps(flags) \in Seq(Said)
           /\ BodyParts(flags) \in Seq(Seq(Quiet)) /\ BodyParts(flags) # <<>>
           /\ Joined(BodyParts(flags), Lit(",")) \in Seq(Quiet)
           /\ Spoken(BodySteps(flags)) = Append(Joined(BodyParts(flags), Lit(",")), Lit(","))
  <1> DEFINE Q == Seq(Quiet)
             comma == Lit(",")
             b == FlattenSeq(Row(Numbers, ColumnSteps))
             c == IF flags THEN Row(Foreign, KeySteps) ELSE <<>>
             r == Row(Numbers, ColumnParts)
             s == IF flags THEN Row(Foreign, KeyParts) ELSE <<>>
             parts == r \o s
  <1>1. /\ MapsTo(KeyParts, Numbers, Q) /\ MapsTo(ColumnParts, Numbers, Q)
        /\ Foreign \in SUBSET Numbers /\ Numbers \in SUBSET Numbers /\ Numbers # {}
    BY BodyTypes
  <1>2. BodySteps(flags) = b \o c /\ BodyParts(flags) = parts
    BY DEF BodySteps, BodyParts
  <1> HIDE DEF Q
  <1>3. b \in Seq(Said) /\ FlatMap(Speak, b) = FlatMap(Comma, r)
    BY ColumnsSaid
  <1>4. c \in Seq(Said) /\ FlatMap(Speak, c) = FlatMap(Comma, s)
    <2>1. CASE flags
      BY <2>1, KeysSaid
    <2>2. CASE ~flags
      <3>1. c = <<>> /\ s = <<>>
        BY <2>2
      <3>2. <<>> \in Seq(Said)
        OBVIOUS
      <3> HIDE DEF c, s
      <3> QED
        BY <3>1, <3>2, FlatMapEmpty
    <2> QED
      BY <2>1, <2>2
  <1>5. r \in Seq(Q) /\ Len(r) # 0
    <2>1. r \in Seq(Q) /\ Len(r) = Cardinality(Numbers)
      BY <1>1, RowType
    <2>2. Cardinality(Numbers) # 0
      BY <1>1, RowSome
    <2> QED
      BY <2>1, <2>2
  <1>6. s \in Seq(Q)
    <2>1. Row(Foreign, KeyParts) \in Seq(Q)
      BY <1>1, RowType
    <2>2. <<>> \in Seq(Q)
      OBVIOUS
    <2> QED
      BY <2>1, <2>2
  <1> HIDE DEF b, c, r, s
  <1>7. b \o c \in Seq(Said)
    BY <1>3, <1>4, Sum2
  <1>8. b \in Seq(Says) /\ c \in Seq(Says) /\ b \o c \in Seq(Says)
    BY <1>3, <1>4, <1>7, SaidSays
  <1>9. Spoken(b \o c) = FlatMap(Speak, b \o c)
    BY <1>8, SpokenIs
  <1>10. FlatMap(Speak, b \o c) = FlatMap(Speak, b) \o FlatMap(Speak, c)
    BY <1>8, SpeakIs, FlatMapConcat
  <1>11. FlatMap(Comma, r \o s) = FlatMap(Comma, r) \o FlatMap(Comma, s)
    <2>1. MapsTo(Comma, Q, Seq(Pieces))
      BY CommaIs DEF Q
    <2> QED
      BY <1>5, <1>6, <2>1, FlatMapConcat
  <1>12. parts \in Seq(Q) /\ parts # <<>>
    <2>1. parts \in Seq(Q) /\ Len(parts) = Len(r) + Len(s)
      BY <1>5, <1>6, ConcatProperties
    <2>2. Len(r) \in Nat /\ Len(s) \in Nat
      BY <1>5, <1>6
    <2>3. Len(parts) # 0
      BY <1>5, <2>1, <2>2
    <2> QED
      BY <2>1, <2>3
  <1> HIDE DEF parts
  <1>13. parts \in Seq(Seq(Quiet))
    BY <1>12 DEF Q
  <1>14. comma \in Quiet
    BY LitsAre
  <1>15. /\ Joined(parts, comma) \in Seq(Quiet)
         /\ FlattenSeq([k \in 1..Len(parts) |-> Append(parts[k], comma)])
               = Append(Joined(parts, comma), comma)
    <2> HIDE DEF comma
    <2> QED
      BY <1>12, <1>13, <1>14, JoinedIs
  <1>16. Mapped(Comma, parts) = [k \in 1..Len(parts) |-> Append(parts[k], comma)]
    <2>1. \A k \in 1..Len(parts) : parts[k] \in Seq(Quiet)
      BY <1>13
    <2>2. \A k \in 1..Len(parts) : Comma[parts[k]] = Append(parts[k], comma)
      BY <2>1, CommaIs
    <2> HIDE DEF comma
    <2> QED
      BY <2>2 DEF Mapped
  <1>17. FlatMap(Comma, parts) = Append(Joined(parts, comma), comma)
    BY <1>15, <1>16 DEF FlatMap
  <1> HIDE DEF comma
  <1>18. Spoken(b \o c) = FlatMap(Comma, parts)
    BY <1>3, <1>4, <1>9, <1>10, <1>11 DEF parts
  <1> QED
    BY <1>2, <1>7, <1>12, <1>13, <1>15, <1>17, <1>18 DEF comma

IndexText(j) ==
    <<Semicolon, Lit("CREATE INDEX "), Col(j), Lit("_index ON "), Table(1), Lit("("),
      Col(j), Lit(")")>>
IndexSteps == [j \in Numbers |-> Prints(IndexText(j))]

Later == [s \in AnyStep |-> IF s.do = "print" /\ Head(s.pieces) = Semicolon
                        THEN s.pieces ELSE <<>>]

\* The prints of the indexes, and what all of them say.
LEMMA IndexTextIs ==
    ASSUME NEW j \in Numbers
    PROVE  /\ IndexText(j) \in Seq(Pieces) /\ Len(IndexText(j)) = 8
           /\ IndexText(j)[1] = Semicolon
  <1> DEFINE a == Semicolon
             b == Lit("CREATE INDEX ")
             c == Col(j)
             d == Lit("_index ON ")
             e == Table(1)
             f == Lit("(")
             g == Lit(")")
             s == IndexText(j)
  <1>1. /\ b \in Pieces /\ c \in Pieces /\ d \in Pieces /\ e \in Pieces /\ f \in Pieces
        /\ g \in Pieces
    BY LitsAre, NamesAre
  <1>2. a \in Pieces
    BY LitsAre
  <1>3. s = <<a, b, c, d, e, f, c, g>>
    BY DEF IndexText
  <1> HIDE DEF a, b, c, d, e, f, g, s
  <1>4. s \in Seq(Pieces)
    BY <1>1, <1>2, <1>3, LongParts
  <1>5. Len(s) = 8 /\ s[1] = a
    BY <1>3
  <1> QED
    BY <1>4, <1>5 DEF s, a

\* The prints without a semicolon and the repairs say nothing of them.
LEMMA LaterIs ==
    /\ MapsTo(Later, AnyStep, Seq(Pieces))
    /\ \A s \in Said \cup Fixes : s \in AnyStep /\ Later[s] = <<>>
    /\ \A j \in Numbers : Prints(IndexText(j)) \in Says /\ Later[Prints(IndexText(j))] = IndexText(j)
  <1>1. \A s \in AnyStep : s.do = "print" => s \in Says
    BY DEF AnyStep, Says, Fixes
  <1>2. \A s \in Says : s.pieces \in Seq(Pieces)
    BY DEF Says
  <1>3. MapsTo(Later, AnyStep, Seq(Pieces))
    <2> DEFINE Z == Seq(Pieces)
    <2>1. \A s \in AnyStep : (IF s.do = "print" /\ Head(s.pieces) = Semicolon
                          THEN s.pieces ELSE <<>>) \in Z
      BY <1>1, <1>2
    <2> HIDE DEF Z
    <2>2. MapsTo(Later, AnyStep, Z)
      BY <2>1 DEF MapsTo, Later
    <2> QED
      BY <2>2 DEF Z
  <1>4. ASSUME NEW s \in Fixes PROVE s \in AnyStep /\ Later[s] = <<>>
    <2>1. s \in AnyStep /\ s.do # "print"
      BY DEF AnyStep, Fixes
    <2> QED
      BY <2>1 DEF Later
  <1>5. ASSUME NEW s \in Said PROVE s \in AnyStep /\ Later[s] = <<>>
    <2>1. s \in Says /\ s.pieces \in Seq(Quiet)
      BY SaidSays DEF Said
    <2>2. s \in AnyStep
      BY <2>1 DEF AnyStep
    <2> DEFINE t == s.pieces
               semi == Semicolon
    <2>3. \/ Later[s] = <<>>
          \/ Later[s] = t /\ Head(t) = semi
      BY <2>2 DEF Later
    <2> HIDE DEF semi
    <2>4. CASE t = <<>>
      BY <2>2, <2>3, <2>4
    <2>5. CASE t # <<>>
      <3>1. t \in Seq(Quiet)
        BY <2>1
      <3> HIDE DEF t
      <3>2. Head(t) \in Quiet
        BY <2>5, <3>1, TailIs
      <3>3. Head(t) # semi
        BY <3>2 DEF Quiet, semi
      <3> QED
        BY <2>2, <2>3, <3>3
    <2> QED
      BY <2>2, <2>4, <2>5
  <1>6. ASSUME NEW j \in Numbers
        PROVE  Prints(IndexText(j)) \in Says /\ Later[Prints(IndexText(j))] = IndexText(j)
    <2> DEFINE t == IndexText(j)
               s == Prints(t)
    <2>1. t \in Seq(Pieces) /\ Len(t) = 8 /\ t[1] = Semicolon
      BY IndexTextIs
    <2> HIDE DEF t
    <2>2. Head(t) = Semicolon
      BY <2>1
    <2>3. s \in Says /\ s.do = "print" /\ s.pieces = t
      BY <2>1 DEF Prints, PrintIn, Says
    <2> HIDE DEF s
    <2>4. s \in AnyStep
      BY <2>3 DEF AnyStep
    <2>5. Later[s] = t
      BY <2>2, <2>3, <2>4 DEF Later
    <2> QED
      BY <2>3, <2>5 DEF s, t
  <1> QED
    BY <1>3, <1>4, <1>5, <1>6

Indexes == Spoken(Row(Foreign, IndexSteps))

\* The indexes are statements of their own, behind a semicolon.
LEMMA IndexesAre ==
    /\ Row(Foreign, IndexSteps) \in Seq(Says)
    /\ Row(Foreign, IndexSteps) \in Seq(AnyStep)
    /\ Indexes \in Seq(Pieces)
    /\ Len(Indexes) # 0 => Indexes[1] = Semicolon
    /\ FlatMap(Later, Row(Foreign, IndexSteps)) = Indexes
  <1> DEFINE e == Row(Foreign, IndexSteps)
             H == [j \in Numbers |-> IndexText(j)]
             Z == Seq(Pieces)
             h == Row(Foreign, H)
  <1>1. Foreign \in SUBSET Numbers
    BY BodyTypes
  <1>2. \A j \in Numbers : IndexSteps[j] = Prints(IndexText(j))
    BY DEF IndexSteps
  <1>3. MapsTo(IndexSteps, Numbers, Says) /\ MapsTo(IndexSteps, Numbers, AnyStep)
    <2>1. \A j \in Numbers : Prints(IndexText(j)) \in Says
      BY LaterIs
    <2>2. \A j \in Numbers : Prints(IndexText(j)) \in AnyStep
      BY <2>1 DEF AnyStep
    <2> QED
      BY <2>1, <2>2 DEF MapsTo, IndexSteps
  <1>4. MapsTo(H, Numbers, Z) /\ \A j \in Numbers : H[j] = IndexText(j)
    <2>1. \A j \in Numbers : IndexText(j) \in Z
      BY IndexTextIs
    <2> HIDE DEF Z
    <2> QED
      BY <2>1 DEF MapsTo
  <1>5. MapsTo(Speak, Says, Z) /\ MapsTo(Later, AnyStep, Z)
    BY SpeakIs, LaterIs
  <1>6. ASSUME NEW j \in Numbers PROVE Speak[IndexSteps[j]] = H[j] /\ Later[IndexSteps[j]] = H[j]
    <2>1. IndexText(j) \in Seq(Pieces)
      BY IndexTextIs
    <2>2. Speak[Prints(IndexText(j))] = IndexText(j)
      BY <2>1, SpeakIs
    <2>3. Later[Prints(IndexText(j))] = IndexText(j)
      BY LaterIs
    <2> HIDE DEF H
    <2> QED
      BY <1>2, <1>4, <2>2, <2>3
  <1> HIDE DEF H, Z
  <1>7. Mapped(Speak, e) = h
    <2>1. \A j \in Numbers : Speak[IndexSteps[j]] = H[j]
      BY <1>6
    <2> QED
      BY <1>1, <1>3, <1>4, <1>5, <2>1, RowMapped
  <1>8. Mapped(Later, e) = h
    <2>1. \A j \in Numbers : Later[IndexSteps[j]] = H[j]
      BY <1>6
    <2> QED
      BY <1>1, <1>3, <1>4, <1>5, <2>1, RowMapped
  <1>9. e \in Seq(Says) /\ e \in Seq(AnyStep)
    <2>1. e \in Seq(Says)
      BY <1>1, <1>3, RowType
    <2>2. e \in Seq(AnyStep)
      BY <1>1, <1>3, RowType
    <2> QED
      BY <2>1, <2>2
  <1>10. Indexes = FlattenSeq(h) /\ FlatMap(Later, e) = FlattenSeq(h)
    <2>1. Spoken(e) = FlatMap(Speak, e)
      BY <1>9, SpokenIs
    <2> QED
      BY <1>7, <1>8, <2>1 DEF FlatMap, Indexes
  <1>11. h \in Seq(Seq(Pieces))
    <2>1. h \in Seq(Z)
      BY <1>1, <1>4, RowType
    <2> QED
      BY <2>1 DEF Z
  <1>12. Len(h) # 0 => Len(h[1]) # 0 /\ h[1][1] = Semicolon
    <2> SUFFICES ASSUME Len(h) # 0 PROVE Len(h[1]) # 0 /\ h[1][1] = Semicolon
      OBVIOUS
    <2>1. H \in [Numbers -> Z]
      BY <1>4 DEF MapsTo
    <2>2. /\ Len(h) = Cardinality(Foreign) /\ Cardinality(Foreign) \in Nat
          /\ \A k \in 1..Cardinality(Foreign) :
                InOrder(Foreign)[k] \in Numbers /\ h[k] = H[InOrder(Foreign)[k]]
      BY <1>1, <2>1, RowIs
    <2>3. 1 \in 1..Cardinality(Foreign)
      BY <2>2
    <2> DEFINE j == InOrder(Foreign)[1]
    <2>4. j \in Numbers /\ h[1] = H[j]
      BY <2>2, <2>3
    <2> HIDE DEF j, h
    <2>5. h[1] = IndexText(j)
      BY <1>4, <2>4
    <2>6. Len(IndexText(j)) = 8 /\ IndexText(j)[1] = Semicolon
      BY <2>4, IndexTextIs
    <2> QED
      BY <2>5, <2>6
  <1> HIDE DEF h, e
  <1>13. FlattenSeq(h) \in Seq(Pieces)
    BY <1>11, FlattenType
  <1>14. Len(FlattenSeq(h)) # 0 => FlattenSeq(h)[1] = Semicolon
    <2>1. CASE Len(h) = 0
      <3>1. h = <<>>
        BY <1>11, <2>1
      <3>2. FlattenSeq(h) = <<>>
        BY <3>1, FlattenEmpty
      <3> QED
        BY <3>2
    <2>2. CASE Len(h) # 0
      <3>1. Len(h[1]) # 0 /\ h[1][1] = Semicolon
        BY <1>12, <2>2
      <3>2. FlattenSeq(h)[1] = h[1][1]
        BY <1>11, <2>2, <3>1, FlattenBegins
      <3> QED
        BY <3>1, <3>2
    <2> QED
      BY <2>1, <2>2
  <1> QED
    BY <1>9, <1>10, <1>13, <1>14 DEF e

TableBegin == <<Prints(<<Lit("CREATE TABLE IF NOT EXISTS "), Table(1), Lit("(")>>)>>

\* The parts of the program.
LEMMA CreateParts ==
    ASSUME NEW flags
    PROVE  CreateTableProgram(flags)
              = (TableBegin \o BodySteps(flags)) \o <<Repair(")")>> \o Row(Foreign, IndexSteps)
  <1> DEFINE Define(j) == <<Prints(<<Lit(" "), Col(j), Lit(" "), Lit("INTEGER")>>),
                            Prints(Constraint(j))>>
             Index(j) == Prints(<<Semicolon, Lit("CREATE INDEX "), Col(j),
                                  Lit("_index ON "), Table(1), Lit("("), Col(j),
                                  Lit(")")>>)
             f == Each(Numbers, LAMBDA j : Define(j))
             g == Each(Foreign, LAMBDA j : Prints(ForeignKey(j)))
             h == Each(Foreign, LAMBDA j : Index(j))
             a == TableBegin
             b == FlattenSeq(f)
             c == IF flags THEN g ELSE <<>>
             d == <<Repair(")")>>
             e == Row(Foreign, IndexSteps)
  <1>1. Foreign \in SUBSET Numbers /\ Numbers \in SUBSET Numbers
    BY BodyTypes
  <1>2. \A j \in Numbers : Define(j) = ColumnSteps[j]
    BY BodyTypes DEF Typed
  <1>3. \A j \in Numbers : Prints(ForeignKey(j)) = KeySteps[j]
    BY BodyTypes
  <1>4. \A j \in Numbers : Index(j) = IndexSteps[j]
    BY Zenon DEF IndexSteps, IndexText
  <1> HIDE DEF Define, Index
  <1>5. f = Row(Numbers, ColumnSteps) /\ g = Row(Foreign, KeySteps) /\ h = e
    <2>1. \A k \in DOMAIN InOrder(Numbers) : InOrder(Numbers)[k] \in Numbers
      BY <1>1, InOrderIs
    <2>2. \A k \in DOMAIN InOrder(Foreign) : InOrder(Foreign)[k] \in Numbers
      BY <1>1, InOrderIs
    <2> QED
      BY <1>2, <1>3, <1>4, <2>1, <2>2 DEF Each, Row
  <1>6. CreateTableProgram(flags) = a \o b \o c \o d \o h
    BY Zenon DEF CreateTableProgram, TableBegin, Define, Index
  <1> HIDE DEF f, g, h, d, e
  <1>7. BodySteps(flags) = b \o c
    BY <1>5 DEF BodySteps
  <1>8. b \in Seq(Said) /\ c \in Seq(Said)
    <2>1. b \in Seq(Said)
      BY <1>5, ColumnsSaid
    <2>2. g \in Seq(Said)
      BY <1>5, KeysSaid
    <2>3. <<>> \in Seq(Said)
      OBVIOUS
    <2> QED
      BY <2>1, <2>2, <2>3
  <1>9. a \in Seq(Said)
    <2> DEFINE t == <<Lit("CREATE TABLE IF NOT EXISTS "), Table(1), Lit("(")>>
    <2>1. Lit("CREATE TABLE IF NOT EXISTS ") \in Quiet /\ Table(1) \in Quiet /\ Lit("(") \in Quiet
      BY LitsAre, NamesAre
    <2>2. t \in Seq(Quiet)
      BY <2>1, Parts
    <2> HIDE DEF t
    <2>3. Prints(t) \in Said
      BY <2>2, PrintsQuiet
    <2>4. <<Prints(t)>> \in Seq(Said)
      BY <2>3, Parts
    <2> QED
      BY <2>4 DEF TableBegin, t
  <1> HIDE DEF a, b, c
  <1>10. (a \o b) \o c = a \o (b \o c)
    BY <1>8, <1>9, Assoc
  <1> QED
    BY <1>5, <1>6, <1>7, <1>10 DEF a, d, e

\* The statement that sorm_create_table should make.
LEMMA WantedTableIs ==
    ASSUME NEW flags
    PROVE  WantedTable(flags)
              = <<Lit("CREATE TABLE IF NOT EXISTS "), Table(1), Lit("(")>>
                \o Joined(BodyParts(flags), Lit(",")) \o <<Lit(")")>>
  <1> DEFINE Define(j) == <<Lit(" "), Col(j), Lit(" "), Lit("INTEGER")>> \o Front(Constraint(j))
             f == Each(Numbers, LAMBDA j : Define(j))
             g == Each(Foreign, LAMBDA j : Front(ForeignKey(j)))
  <1>1. Foreign \in SUBSET Numbers /\ Numbers \in SUBSET Numbers
    BY BodyTypes
  <1>2. \A j \in Numbers : Define(j) = ColumnParts[j] /\ Front(ForeignKey(j)) = KeyParts[j]
    BY BodyTypes DEF Typed
  <1> HIDE DEF Define
  <1>3. f = Row(Numbers, ColumnParts) /\ g = Row(Foreign, KeyParts)
    <2>1. \A k \in DOMAIN InOrder(Numbers) : InOrder(Numbers)[k] \in Numbers
      BY <1>1, InOrderIs
    <2>2. \A k \in DOMAIN InOrder(Foreign) : InOrder(Foreign)[k] \in Numbers
      BY <1>1, InOrderIs
    <2> QED
      BY <1>2, <2>1, <2>2 DEF Each, Row
  <1>4. WantedTable(flags) = <<Lit("CREATE TABLE IF NOT EXISTS "), Table(1), Lit("(")>>
           \o Joined(f \o (IF flags THEN g ELSE <<>>), Lit(",")) \o <<Lit(")")>>
    BY Zenon DEF WantedTable, Define
  <1> HIDE DEF f, g
  <1> QED
    BY <1>3, <1>4 DEF BodyParts

\* sorm_create_table writes what it should, and then the indexes.
LEMMA CreateRuns ==
    ASSUME NEW flags
    PROVE  /\ WantedTable(flags) \in Seq(Quiet)
           /\ FlatMap(Later, CreateTableProgram(flags)) = Indexes
           /\ Runs(CreateTableProgram(flags), On(<<>>), On(WantedTable(flags) \o Indexes),
                   Length(WantedTable(flags)) + Length(Indexes))
  <1> DEFINE A == <<Lit("CREATE TABLE IF NOT EXISTS "), Table(1), Lit("(")>>
             comma == Lit(",")
             paren == Lit(")")
             J == Joined(BodyParts(flags), comma)
             x == A \o J
             W == Append(x, paren)
             I == Indexes
             L == Length(W) + Length(I)
             a == <<Prints(A)>>
             b == BodySteps(flags)
             d == <<Repair(")")>>
             e == Row(Foreign, IndexSteps)
  <1>1. /\ comma \in Quiet /\ comma.n = 1 /\ paren \in Quiet /\ paren.n = 1
        /\ Lit("CREATE TABLE IF NOT EXISTS ") \in Quiet /\ Table(1) \in Quiet
        /\ Lit("(") \in Quiet
    BY LitsAre, NamesAre
  <1>2. A \in Seq(Quiet)
    BY <1>1, Parts
  <1>3. /\ b \in Seq(Said) /\ J \in Seq(Quiet) /\ Spoken(b) = Append(J, comma)
    BY BodySaid
  <1>4. WantedTable(flags) = x \o <<paren>>
    BY WantedTableIs
  <1>5. CreateTableProgram(flags) = (a \o b) \o d \o e
    BY CreateParts DEF TableBegin
  <1>6. /\ e \in Seq(Says) /\ e \in Seq(AnyStep) /\ I \in Seq(Pieces)
        /\ FlatMap(Later, e) = I /\ Spoken(e) = I
    BY IndexesAre DEF Indexes
  <1> HIDE DEF A, J, I, comma, paren, b, e
  <1>7. x \in Seq(Quiet)
    BY <1>2, <1>3, Sum2
  <1>8. /\ A \in Seq(Pieces) /\ J \in Seq(Pieces) /\ x \in Seq(Pieces) /\ comma \in Pieces
        /\ paren \in Pieces
    BY <1>1, <1>2, <1>3, <1>7, QuietAre, LitsAre
  <1>9. Length(x) = Length(A) + Length(J) /\ Length(A) \in Nat /\ Length(J) \in Nat
    BY <1>8, LengthConcat
  <1> HIDE DEF x
  <1>10. W \in Seq(Quiet) /\ x \o <<paren>> = W
    BY <1>1, <1>7, Behind
  <1>11. Length(W) = Length(x) + paren.n /\ Length(Append(x, comma)) = Length(x) + comma.n
    BY <1>8, LengthAppend
  <1>12. Length(W) = Length(x) + 1 /\ Length(Append(x, comma)) = Length(x) + 1
    BY <1>1, <1>11
  <1> HIDE DEF W
  <1>13. W \in Seq(Pieces)
    BY <1>10, QuietAre
  <1>14. Length(W \o I) = L /\ Length(I) \in Nat /\ Length(W) \in Nat
    BY <1>6, <1>13, LengthConcat
  <1>15. L \in Nat /\ Length(A) <= L /\ Length(Append(x, comma)) <= L /\ Length(W \o I) <= L
    BY <1>9, <1>12, <1>14
  <1> HIDE DEF L
  <1>16. Runs(a, On(<<>>), On(A), L)
    BY <1>8, <1>15, RunsBegin
  <1>17. Runs(b, On(A), On(Append(x, comma)), L)
    <2>1. b \in Seq(Says)
      BY <1>3, SaidSays
    <2>2. A \o Append(J, comma) = Append(x, comma)
      BY <1>8, AppendBehind DEF x
    <2>3. A \o Spoken(b) = Append(x, comma)
      BY <1>3, <2>2
    <2>4. Length(A \o Spoken(b)) <= L
      BY <1>15, <2>3
    <2>5. Runs(b, On(A), On(A \o Spoken(b)), L)
      BY <1>8, <1>15, <2>1, <2>4, RunsPrints
    <2> QED
      BY <2>3, <2>5
  <1>18. Runs(d, On(Append(x, comma)), On(W), L)
    BY <1>1, <1>8, <1>15, RunsRepair DEF W, paren
  <1>19. Runs(e, On(W), On(W \o I), L)
    <2>1. Length(W \o Spoken(e)) <= L
      BY <1>6, <1>15
    <2>2. Runs(e, On(W), On(W \o Spoken(e)), L)
      BY <1>6, <1>13, <1>15, <2>1, RunsPrints
    <2> QED
      BY <1>6, <2>2
  <1> HIDE DEF a, d
  <1>20. Runs(a \o b, On(<<>>), On(Append(x, comma)), L)
    BY <1>16, <1>17, RunsOn
  <1>21. Runs((a \o b) \o d, On(<<>>), On(W), L)
    BY <1>18, <1>20, RunsOn
  <1>22. Runs((a \o b) \o d \o e, On(<<>>), On(W \o I), L)
    BY <1>19, <1>21, RunsOn
  <1> DEFINE M == Said \cup Fixes
             q == (a \o b) \o d
  <1>23. q \in Seq(M)
    <2>1. Said \subseteq M /\ Fixes \subseteq M
      OBVIOUS
    <2>2. a \in Seq(Said)
      <3>1. Prints(A) \in Said
        BY <1>2, PrintsQuiet
      <3> QED
        BY <3>1, Parts DEF a
    <2>3. d \in Seq(Fixes)
      <3>1. ")" \in Literals
        BY DEF Literals
      <3>2. Repair(")") \in Fixes
        BY <3>1, StepsAre
      <3> QED
        BY <3>2, Parts DEF d
    <2> HIDE DEF M
    <2>4. a \in Seq(M) /\ b \in Seq(M) /\ d \in Seq(M)
      BY <1>3, <2>1, <2>2, <2>3, SeqMonotonic
    <2> QED
      BY <2>4, Sum3
  <1>24. q \in Seq(AnyStep)
    BY <1>21 DEF Runs
  <1>25. \A k \in 1..Len(q) : Later[q[k]] = <<>>
    <2>1. \A k \in 1..Len(q) : q[k] \in M
      <3> HIDE DEF q, M
      <3> QED
        BY <1>23
    <2> HIDE DEF q
    <2> QED
      BY <2>1, LaterIs
  <1> HIDE DEF q
  <1>26. FlatMap(Later, q) = <<>>
    <2>1. MapsTo(Later, AnyStep, Seq(Pieces))
      BY LaterIs
    <2> QED
      BY <1>24, <1>25, <2>1, FlatMapNothing
  <1>27. FlatMap(Later, q \o e) = FlatMap(Later, q) \o FlatMap(Later, e)
    <2>1. MapsTo(Later, AnyStep, Seq(Pieces))
      BY LaterIs
    <2>2. e \in Seq(AnyStep)
      BY <1>6
    <2> QED
      BY <1>24, <2>1, <2>2, FlatMapConcat
  <1>28. <<>> \o I = I
    BY <1>6, ConcatEmptySeq
  <1>29. FlatMap(Later, q \o e) = I
    BY <1>6, <1>26, <1>27, <1>28
  <1>30. WantedTable(flags) = W
    BY <1>4, <1>10
  <1> QED
    BY <1>5, <1>10, <1>22, <1>29, <1>30 DEF q, L, I

\* SQLite compiles the whole of a text without a semicolon.
LEMMA FirstWhole ==
    ASSUME NEW a \in Seq(Quiet)
    PROVE  FirstStatement(a) = a
  <1>1. <<>> \in Seq(Pieces) /\ (Len(<<>>) # 0 => <<>>[1] = Semicolon)
    OBVIOUS
  <1>2. FirstStatement(a \o <<>>) = a
    BY <1>1, FirstIs
  <1>3. a \o <<>> = a
    BY ConcatEmptySeq
  <1> QED
    BY <1>2, <1>3

\* Programs that only print, without a semicolon or in sorm_to_string.
LEMMA PrintsRun ==
    ASSUME NEW p \in Seq(Says)
    PROVE  /\ FlattenSeq([k \in DOMAIN p |-> p[k].pieces]) = Spoken(p)
           /\ Spoken(p) \in Seq(Pieces)
           /\ Runs(p, On(<<>>), On(Spoken(p)), Length(Spoken(p)))
           /\ p \in Seq(Said) => Spoken(p) \in Seq(Quiet)
  <1>1. DOMAIN p = 1..Len(p)
    OBVIOUS
  <1>2. FlattenSeq([k \in DOMAIN p |-> p[k].pieces]) = Spoken(p)
    BY <1>1 DEF Spoken
  <1>3. Spoken(p) = FlatMap(Speak, p)
    BY SpokenIs
  <1>4. Spoken(p) \in Seq(Pieces)
    BY <1>3, SpeakIs, FlatMapIs
  <1> DEFINE q == Spoken(p)
             L == Length(q)
  <1>5. <<>> \o q = q /\ <<>> \in Seq(Pieces)
    BY <1>4, ConcatEmptySeq
  <1>6. L \in Nat
    BY <1>4, LengthNat
  <1>7. Length(<<>> \o Spoken(p)) <= L
    BY <1>5, <1>6
  <1> HIDE DEF L
  <1>8. Runs(p, On(<<>>), On(<<>> \o Spoken(p)), L)
    BY <1>5, <1>6, <1>7, RunsPrints
  <1>9. ASSUME p \in Seq(Said) PROVE Spoken(p) \in Seq(Quiet)
    <2> DEFINE F == [k \in 1..Len(p) |-> p[k].pieces]
               X == Seq(Quiet)
               n == Len(p)
    <2>1. \A k \in 1..n : p[k] \in Said
      BY <1>9
    <2>2. \A k \in 1..n : p[k].pieces \in X
      <3> HIDE DEF n
      <3> QED
        BY <2>1 DEF Said
    <2>3. n \in Nat
      OBVIOUS
    <2> HIDE DEF n, X
    <2>4. F \in [1..n -> X]
      BY <2>2 DEF n
    <2> HIDE DEF F
    <2>5. F \in Seq(X)
      BY <2>3, <2>4, FunctionSeq
    <2>6. FlattenSeq(F) \in Seq(Quiet)
      BY <2>5, FlattenType DEF X
    <2> QED
      BY <2>6 DEF F, Spoken
  <1> QED
    BY <1>2, <1>4, <1>5, <1>8, <1>9 DEF L

-----------------------------------------------------------------------------
(* A call makes the statement it should, if there is room.                 *)

\* The room that a call needs.
Left == IF call.op \in {"sorm_delete", "sorm_update"} THEN 4 ELSE 0
Behinds == IF call.op = "sorm_create_table" THEN Length(FlatMap(Later, Program)) ELSE 0
Limit == Length(Wanted) + Left + Behinds

\* What there is in the buffer when the program has ended.
Ended(t, o) ==
    /\ Length(t) <= o
    /\ call.op = "sorm_to_string" => t = Wanted
    /\ call.op \notin {"sorm_to_string", "sorm_run_stmt", "create_sql"} =>
          \/ FirstStatement(t) = Wanted /\ Length(Wanted) <= Length(t)
          \/ NoKey /\ ~Accepts(FirstStatement(t))

\* The program p, from the buffer a on, ends like that.
Makes(p, a) == \E g \in Buffers : Runs(p, a, g, Limit) /\ Ended(g.text, g.offset)

\* A whole statement without a semicolon in it.
LEMMA EndedWhole ==
    ASSUME NEW W \in Seq(Quiet), Wanted = W, NEW o \in Nat, Length(W) <= o
    PROVE  Ended(W, o) /\ At(W, o) \in Buffers /\ At(W, o).text = W /\ At(W, o).offset = o
  <1>1. FirstStatement(W) = W
    BY FirstWhole
  <1>2. W \in Seq(Pieces)
    BY QuietAre
  <1>3. Length(W) \in Nat
    BY <1>2, LengthNat
  <1>4. At(W, o) \in Buffers /\ At(W, o).text = W /\ At(W, o).offset = o
    BY <1>2 DEF At, Buffers
  <1>5. Ended(W, o)
    BY <1>1, <1>3 DEF Ended
  <1> QED
    BY <1>4, <1>5

\* sorm_save and sorm_replace.
LEMMA SaveMakes ==
    ASSUME call \in Calls, call.op \in {"sorm_save", "sorm_replace"}, call.valued # {}
    PROVE  Length(Wanted) \in Nat /\ Limit \in Nat /\ Makes(Program, On(<<>>))
  <1> DEFINE verb == IF call.op = "sorm_save" THEN "INSERT" ELSE "REPLACE"
             W == WantedSave(verb, call.valued)
             p == SaveProgram(verb, call.valued)
             L == Length(W)
  <1>1. Program = p /\ Wanted = W
    BY DEF Program, Wanted
  <1>2. call.valued \in SUBSET Numbers
    BY CallIs DEF Objects
  <1>3. verb \in {"INSERT", "REPLACE"}
    OBVIOUS
  <1>4. Left = 0 /\ Behinds = 0
    BY DEF Left, Behinds
  <1> HIDE DEF verb
  <1>5. W \in Seq(Quiet) /\ Runs(p, On(<<>>), On(W), L)
    BY <1>2, <1>3, SaveRuns
  <1> HIDE DEF W, p
  <1>6. W \in Seq(Pieces)
    BY <1>5, QuietAre
  <1>7. L \in Nat
    BY <1>6, LengthNat
  <1>8. Limit = L
    BY <1>1, <1>4, <1>7 DEF Limit
  <1>9. Ended(W, L) /\ At(W, L) \in Buffers /\ At(W, L).text = W /\ At(W, L).offset = L
    BY <1>1, <1>5, <1>7, EndedWhole
  <1>10. Runs(p, On(<<>>), At(W, L), Limit)
    BY <1>5, <1>8 DEF On
  <1>11. Ended(At(W, L).text, At(W, L).offset)
    BY <1>9
  <1>12. Length(Wanted) \in Nat
    BY <1>1, <1>7
  <1> HIDE DEF L
  <1> QED
    BY <1>1, <1>7, <1>8, <1>9, <1>10, <1>11, <1>12 DEF Makes

\* sorm_delete.
LEMMA DeleteMakes ==
    ASSUME call \in Calls, call.op = "sorm_delete", call.valued # {}
    PROVE  Length(Wanted) \in Nat /\ Limit \in Nat /\ Makes(Program, On(<<>>))
  <1> DEFINE W == WantedDelete(call.valued)
             p == DeleteProgram(call.valued)
             L == Length(W) + 4
  <1>1. Program = p /\ Wanted = W
    BY DEF Program, Wanted
  <1>2. call.valued \in SUBSET Numbers
    BY CallIs DEF Objects
  <1>3. Left = 4 /\ Behinds = 0
    BY DEF Left, Behinds
  <1>4. W \in Seq(Quiet) /\ Runs(p, On(<<>>), At(W, Length(W) + 4), Length(W) + 4)
    BY <1>2, DeleteRuns
  <1> HIDE DEF W, p
  <1>5. W \in Seq(Pieces)
    BY <1>4, QuietAre
  <1>6. Length(W) \in Nat
    BY <1>5, LengthNat
  <1>7. L \in Nat /\ Length(W) <= L
    BY <1>6
  <1>8. Limit = L
    BY <1>1, <1>3, <1>6 DEF Limit
  <1> HIDE DEF L
  <1>9. Ended(W, L) /\ At(W, L) \in Buffers /\ At(W, L).text = W /\ At(W, L).offset = L
    BY <1>1, <1>4, <1>7, EndedWhole
  <1>10. Runs(p, On(<<>>), At(W, L), Limit)
    BY <1>4, <1>8 DEF L
  <1>11. Ended(At(W, L).text, At(W, L).offset)
    BY <1>9
  <1>12. Length(Wanted) \in Nat
    BY <1>1, <1>6
  <1> QED
    BY <1>1, <1>7, <1>8, <1>9, <1>10, <1>11, <1>12 DEF Makes

\* sorm_update.
LEMMA UpdateMakes ==
    ASSUME call \in Calls, call.op = "sorm_update", call.valued # {}
    PROVE  Length(Wanted) \in Nat /\ Limit \in Nat /\ Makes(Program, On(<<>>))
  <1> DEFINE valued == call.valued
             W == WantedUpdate(valued)
             p == UpdateProgram(valued)
             L == Length(W) + 4
  <1>1. Program = p /\ Wanted = W
    BY DEF Program, Wanted
  <1>2. valued \in SUBSET Numbers /\ valued # {}
    BY CallIs DEF Objects
  <1>3. Left = 4 /\ Behinds = 0
    BY DEF Left, Behinds
  <1>4. NoKey <=> valued \cap Unique = {}
    BY DEF NoKey
  <1> HIDE DEF valued
  <1>5. CASE valued \cap Unique # {}
    <2>1. W \in Seq(Quiet) /\ Runs(p, On(<<>>), At(W, Length(W) + 4), Length(W) + 4)
      BY <1>2, <1>5, UpdateRuns
    <2> HIDE DEF W, p
    <2>2. W \in Seq(Pieces)
      BY <2>1, QuietAre
    <2>3. Length(W) \in Nat
      BY <2>2, LengthNat
    <2>4. L \in Nat /\ Length(W) <= L
      BY <2>3
    <2>5. Limit = L
      BY <1>1, <1>3, <2>3 DEF Limit
    <2> HIDE DEF L
    <2>6. Ended(W, L) /\ At(W, L) \in Buffers /\ At(W, L).text = W /\ At(W, L).offset = L
      BY <1>1, <2>1, <2>4, EndedWhole
    <2>7. Runs(p, On(<<>>), At(W, L), Limit)
      BY <2>1, <2>5 DEF L
    <2>8. Ended(At(W, L).text, At(W, L).offset)
      BY <2>6
    <2>9. Length(Wanted) \in Nat
      BY <1>1, <2>3
    <2> QED
      BY <1>1, <2>4, <2>5, <2>6, <2>7, <2>8, <2>9 DEF Makes
  <1>6. CASE valued \cap Unique = {}
    <2> DEFINE x == UpdateText(valued)
               t == Append(x, Stump)
               o == Length(W)
    <2>1. /\ W \in Seq(Quiet) /\ Stump \in Quiet /\ Stump.n = 2 /\ Stump.kind = "stump"
          /\ x \in Seq(Quiet) /\ Length(W) = Length(x) + 6
          /\ Runs(p, On(<<>>), At(t, o), Length(W) + 4)
      BY <1>2, <1>6, UpdateBare
    <2> HIDE DEF W, p, x
    <2>2. x \in Seq(Pieces) /\ Stump \in Pieces
      BY <2>1, QuietAre, LitsAre
    <2>3. t \in Seq(Quiet)
      BY <2>1, Behind
    <2>4. Length(x) \in Nat /\ Length(t) = Length(x) + Stump.n
      BY <2>2, LengthAppend
    <2>5. Length(t) = Length(x) + 2
      <3> DEFINE n == Stump.n
      <3>1. n = 2 /\ Length(t) = Length(x) + n
        BY <2>1, <2>4
      <3> HIDE DEF n, t
      <3> QED
        BY <3>1
    <2>6. t[Len(x) + 1] = Stump /\ Len(t) = Len(x) + 1 /\ Len(x) \in Nat
      BY <2>1, AppendProperties
    <2> HIDE DEF t
    <2>7. FirstStatement(t) = t
      BY <2>3, FirstWhole
    <2>8. ~Accepts(t)
      <3>1. Len(x) + 1 \in DOMAIN t
        BY <2>3, <2>6
      <3> QED
        BY <2>1, <2>6, <3>1 DEF Accepts
    <2>9. o \in Nat /\ Length(t) <= o /\ L \in Nat
      BY <2>1, <2>4, <2>5
    <2>10. Limit = L
      BY <1>1, <1>3, <2>9 DEF Limit
    <2>11. Ended(t, o)
      BY <1>4, <1>6, <2>7, <2>8, <2>9 DEF Ended
    <2>12. At(t, o) \in Buffers /\ At(t, o).text = t /\ At(t, o).offset = o
      <3>1. t \in Seq(Pieces)
        BY <2>3, QuietAre
      <3> QED
        BY <2>9, <3>1 DEF At, Buffers
    <2>13. Runs(p, On(<<>>), At(t, o), Limit)
      BY <2>1, <2>10
    <2>14. Ended(At(t, o).text, At(t, o).offset)
      BY <2>11, <2>12
    <2>15. Length(Wanted) \in Nat
      BY <1>1, <2>9
    <2> HIDE DEF L, o
    <2> QED
      BY <1>1, <2>9, <2>10, <2>12, <2>13, <2>14, <2>15 DEF Makes
  <1> QED
    BY <1>5, <1>6

\* sorm_create_table.
LEMMA CreateMakes ==
    ASSUME call \in Calls, call.op = "sorm_create_table"
    PROVE  Length(Wanted) \in Nat /\ Limit \in Nat /\ Makes(Program, On(<<>>))
  <1> DEFINE W == WantedTable(call.flags)
             p == CreateTableProgram(call.flags)
             t == W \o Indexes
             L == Length(W) + Length(Indexes)
  <1>1. Program = p /\ Wanted = W
    BY DEF Program, Wanted
  <1>2. /\ W \in Seq(Quiet) /\ FlatMap(Later, p) = Indexes
        /\ Runs(p, On(<<>>), On(t), L)
    BY CreateRuns
  <1>3. Indexes \in Seq(Pieces) /\ (Len(Indexes) # 0 => Indexes[1] = Semicolon)
    BY IndexesAre
  <1> HIDE DEF W, p
  <1>4. Left = 0 /\ Behinds = Length(Indexes)
    BY <1>1, <1>2 DEF Left, Behinds
  <1>5. W \in Seq(Pieces)
    BY <1>2, QuietAre
  <1>6. Length(t) = L /\ Length(W) \in Nat /\ Length(Indexes) \in Nat
    BY <1>3, <1>5, LengthConcat
  <1>7. L \in Nat /\ Length(W) <= Length(t)
    BY <1>6
  <1>8. Limit = L
    BY <1>1, <1>4, <1>6 DEF Limit
  <1>9. FirstStatement(t) = W
    BY <1>2, <1>3, FirstIs
  <1>10. t \in Seq(Pieces)
    BY <1>3, <1>5, Sum2
  <1> HIDE DEF t, L
  <1>11. On(t) \in Buffers /\ On(t).text = t /\ On(t).offset = Length(t)
    BY <1>10, OnIs
  <1>12. Ended(t, Length(t))
    <2>1. Length(t) <= Length(t)
      BY <1>6, <1>7
    <2> QED
      BY <1>1, <1>7, <1>9, <2>1 DEF Ended
  <1>13. Runs(p, On(<<>>), On(t), Limit)
    BY <1>2, <1>8
  <1>14. Ended(On(t).text, On(t).offset)
    BY <1>11, <1>12
  <1> QED
    BY <1>1, <1>6, <1>7, <1>8, <1>11, <1>13, <1>14 DEF Makes

\* The calls whose text is the caller's do not use the buffer.
LEMMA CallerMakes ==
    ASSUME call \in Calls, call.op \in {"sorm_run_stmt", "create_sql"}
    PROVE  Length(Wanted) \in Nat /\ Limit \in Nat /\ Makes(Program, On(<<>>))
  <1> DEFINE W == <<Caller(call.text)>>
  <1>1. Program = <<>> /\ Wanted = W
    BY DEF Program, Wanted
  <1>2. Left = 0 /\ Behinds = 0
    BY DEF Left, Behinds
  <1>3. W \in Seq(Pieces)
    <2>1. call.text \in Nat
      BY CallIs
    <2>2. Caller(call.text) \in Pieces
      BY <2>1, NamesAre
    <2> QED
      BY <2>2, Parts
  <1> HIDE DEF W
  <1>4. Length(W) \in Nat
    BY <1>3, LengthNat
  <1>5. Limit \in Nat
    BY <1>1, <1>2, <1>4 DEF Limit
  <1>6. <<>> \in Seq(Pieces) /\ Length(<<>>) = 0
    BY LengthEmpty
  <1>7. On(<<>>) \in Buffers /\ On(<<>>).text = <<>> /\ On(<<>>).offset = Length(<<>>)
    BY <1>6, OnIs
  <1>8. On(<<>>).offset = 0
    BY <1>6, <1>7
  <1>9. On(<<>>).offset <= Limit
    BY <1>5, <1>8
  <1>10. Runs(<<>>, On(<<>>), On(<<>>), Limit)
    BY <1>5, <1>7, <1>9, RunsNone
  <1>11. Ended(<<>>, 0)
    <2>1. Length(<<>>) <= 0
      BY <1>6
    <2> QED
      BY <2>1 DEF Ended
  <1>12. Ended(On(<<>>).text, On(<<>>).offset)
    BY <1>7, <1>8, <1>11
  <1> QED
    BY <1>1, <1>4, <1>5, <1>7, <1>10, <1>12 DEF Makes

\* The calls that only print.
LEMMA PrintsMake ==
    ASSUME call \in Calls, filter \in Seq(Quiet),
           call.op \notin Objects \cup {"sorm_create_table", "sorm_run_stmt", "create_sql"}
    PROVE  Length(Wanted) \in Nat /\ Limit \in Nat /\ Makes(Program, On(<<>>))
  <1> DEFINE p == Program
             W == Spoken(p)
             L == Length(W)
  <1>1. p \in Seq(Says)
    <2>1. CASE call.op = "sorm_to_string"
      <3>1. p \in Seq(Rest \cup More)
        BY <2>1, ProgramIs
      <3>2. Rest \cup More \subseteq Says
        BY DEF Rest, More, Says
      <3> DEFINE X == Rest \cup More
      <3> HIDE DEF X, p
      <3>3. p \in Seq(X) /\ X \subseteq Says
        BY <3>1, <3>2 DEF X
      <3> QED
        BY <3>3, SeqMonotonic
    <2>2. CASE call.op # "sorm_to_string"
      <3>1. call.op \notin Objects \cup {"sorm_create_table", "sorm_to_string"}
        BY <2>2
      <3>2. p \in Seq(Said)
        BY <3>1, ProgramIs
      <3> QED
        BY <3>2, SaidSays
    <2> QED
      BY <2>1, <2>2
  <1>2. call.op # "sorm_to_string" => p \in Seq(Said)
    <2> SUFFICES ASSUME call.op # "sorm_to_string" PROVE p \in Seq(Said)
      OBVIOUS
    <2>1. call.op \notin Objects \cup {"sorm_create_table", "sorm_to_string"}
      OBVIOUS
    <2> QED
      BY <2>1, ProgramIs
  <1>3. Wanted = FlattenSeq([k \in DOMAIN p |-> p[k].pieces])
    BY DEF Wanted, Objects
  <1>4. Left = 0 /\ Behinds = 0
    BY DEF Left, Behinds, Objects
  <1> HIDE DEF p
  <1>5. /\ FlattenSeq([k \in DOMAIN p |-> p[k].pieces]) = W /\ W \in Seq(Pieces)
        /\ Runs(p, On(<<>>), On(W), L) /\ (p \in Seq(Said) => W \in Seq(Quiet))
    BY <1>1, PrintsRun
  <1>6. Wanted = W
    BY <1>3, <1>5
  <1> HIDE DEF W
  <1>7. L \in Nat
    BY <1>5, LengthNat
  <1>8. Limit = L
    BY <1>4, <1>6, <1>7 DEF Limit
  <1>9. On(W) \in Buffers /\ On(W).text = W /\ On(W).offset = L
    BY <1>5, OnIs
  <1>10. Ended(W, L)
    <2>1. L <= L
      BY <1>7
    <2>2. CASE call.op = "sorm_to_string"
      BY <1>6, <2>1, <2>2 DEF Ended
    <2>3. CASE call.op # "sorm_to_string"
      <3>1. W \in Seq(Quiet)
        BY <1>2, <1>5, <2>3
      <3> QED
        BY <1>6, <1>7, <2>1, <3>1, EndedWhole
    <2> QED
      BY <2>2, <2>3
  <1>11. Ended(On(W).text, On(W).offset)
    BY <1>9, <1>10
  <1>12. Runs(p, On(<<>>), On(W), Limit)
    BY <1>5, <1>8
  <1>13. Length(Wanted) \in Nat
    BY <1>6, <1>7
  <1> HIDE DEF L
  <1> QED
    BY <1>7, <1>8, <1>9, <1>11, <1>12, <1>13 DEF Makes, p

\* Every call.
LEMMA ProgramMakes ==
    ASSUME call \in Calls, filter \in Seq(Quiet), call.op \in Objects => call.valued # {}
    PROVE  Length(Wanted) \in Nat /\ Limit \in Nat /\ Makes(Program, On(<<>>))
  <1>1. CASE call.op \in {"sorm_save", "sorm_replace"}
    BY <1>1, SaveMakes DEF Objects
  <1>2. CASE call.op = "sorm_delete"
    BY <1>2, DeleteMakes DEF Objects
  <1>3. CASE call.op = "sorm_update"
    BY <1>3, UpdateMakes DEF Objects
  <1>4. CASE call.op = "sorm_create_table"
    BY <1>4, CreateMakes
  <1>5. CASE call.op \in {"sorm_run_stmt", "create_sql"}
    BY <1>5, CallerMakes
  <1>6. CASE call.op \notin Objects \cup {"sorm_create_table", "sorm_run_stmt", "create_sql"}
    BY <1>6, PrintsMake
  <1> QED
    BY <1>1, <1>2, <1>3, <1>4, <1>5, <1>6 DEF Objects

\* All of it depends on the call and its filter.
LEMMA SameCall ==
    ASSUME call' = call, filter' = filter
    PROVE  /\ Program' = Program /\ Wanted' = Wanted /\ ByColumn' = ByColumn
           /\ NoKey' = NoKey
  <1>1. ByColumn' = ByColumn /\ NoKey' = NoKey
    BY DEF ByColumn, NoKey
  <1>2. FilterPieces' = FilterPieces
    BY <1>1 DEF FilterPieces
  <1>3. SelectProgram' = SelectProgram
    BY <1>2 DEF SelectProgram
  <1>4. DeleteByProgram' = DeleteByProgram
    BY <1>2 DEF DeleteByProgram
  <1>5. IndexProgram' = IndexProgram
    BY DEF IndexProgram
  <1>6. Program' = Program
    BY <1>3, <1>4, <1>5 DEF Program
  <1>7. Wanted' = Wanted
    BY <1>6 DEF Wanted
  <1> QED
    BY <1>1, <1>6, <1>7

\* The indexes behind the table, as TooLongRight counts them.
LEMMA BehindsAre ==
    ASSUME Program \in Seq(AnyStep)
    PROVE  Behinds = IF call.op # "sorm_create_table" THEN 0
                     ELSE Length(FlattenSeq(
                            [k \in DOMAIN Program |->
                                IF Program[k].do = "print" /\ Head(Program[k].pieces) = Semicolon
                                THEN Program[k].pieces ELSE <<>>]))
  <1> DEFINE p == Program
             f == [k \in DOMAIN p |-> IF p[k].do = "print" /\ Head(p[k].pieces) = Semicolon
                                      THEN p[k].pieces ELSE <<>>]
  <1>1. f = Mapped(Later, p)
    <2> HIDE DEF p
    <2>1. p \in Seq(AnyStep)
      BY DEF p
    <2>2. DOMAIN p = 1..Len(p) /\ \A k \in 1..Len(p) : p[k] \in AnyStep
      BY <2>1
    <2>3. \A k \in 1..Len(p) :
             Later[p[k]] = IF p[k].do = "print" /\ Head(p[k].pieces) = Semicolon
                           THEN p[k].pieces ELSE <<>>
      BY <2>2 DEF Later
    <2> QED
      BY <2>2, <2>3 DEF Mapped
  <1>2. FlatMap(Later, p) = FlattenSeq(f)
    BY <1>1 DEF FlatMap
  <1> HIDE DEF f
  <1>3. Behinds = IF call.op # "sorm_create_table" THEN 0 ELSE Length(FlattenSeq(f))
    BY <1>2 DEF Behinds
  <1> QED
    BY <1>3 DEF f

\* A step that returns because the room is too small.
LEMMA TooLongBuilt ==
    ASSUME call' = call, filter' = filter, max' = max, Program \in Seq(AnyStep),
           ret_val' = "SORM_TOO_LONG" => Limit > max,
           ret_val' = "string" => sql_stmt' = Wanted \/ Length(Wanted) > max
    PROVE  TooLongRight'
  <1> DEFINE more == IF call.op # "sorm_create_table" THEN 0
                     ELSE Length(FlattenSeq(
                            [k \in DOMAIN Program |->
                                IF Program[k].do = "print" /\ Head(Program[k].pieces) = Semicolon
                                THEN Program[k].pieces ELSE <<>>]))
             left == IF call.op \in {"sorm_delete", "sorm_update"} THEN 4 ELSE 0
  <1>1. more = Behinds
    BY BehindsAre
  <1>2. Program' = Program /\ Wanted' = Wanted
    BY SameCall
  <1>3. more' = more /\ left' = left /\ left = Left
    BY <1>2 DEF Left
  <1> HIDE DEF more, left
  <1>4. ret_val' = "SORM_TOO_LONG" => Length(Wanted') + left' + more' > max'
    BY <1>1, <1>2, <1>3 DEF Limit
  <1>5. ret_val' = "string" => sql_stmt' = Wanted' \/ Length(Wanted') > max'
    BY <1>2
  <1> QED
    BY <1>4, <1>5 DEF TooLongRight, more, left

\* A step that returns something else.
LEMMA TooLongElse ==
    ASSUME ret_val' \notin {"SORM_TOO_LONG", "string"}
    PROVE  TooLongRight'
  BY DEF TooLongRight

\* A step that returns before there is a statement.
LEMMA TooLongUnbuilt ==
    ASSUME ret_val' # "string",
           call'.op = "sorm_fix_string" \/ (ByColumn' /\ filter' = <<>>)
    PROVE  TooLongRight'
  BY DEF TooLongRight

\* A step that leaves the statement alone.
LEMMA SentKept ==
    ASSUME SentWhole, call' = call, filter' = filter, max' = max, sent' = sent
    PROVE  SentWhole'
  <1>1. Wanted' = Wanted /\ NoKey' = NoKey
    BY SameCall
  <1> QED
    BY <1>1 DEF SentWhole

\* The rest of the program, after a step.
LEMMA MakesOn ==
    ASSUME call' = call, filter' = filter, Makes(program', At(sql_stmt', offset'))
    PROVE  Makes(program, At(sql_stmt, offset))'
  <1>1. /\ Program' = Program /\ Wanted' = Wanted /\ NoKey' = NoKey
    BY SameCall
  <1>2. Left' = Left /\ Behinds' = Behinds
    BY <1>1 DEF Left, Behinds
  <1>3. Limit' = Limit
    BY <1>1, <1>2 DEF Limit
  <1>4. PICK g \in Buffers : Runs(program', At(sql_stmt', offset'), g, Limit)
                             /\ Ended(g.text, g.offset)
    BY DEF Makes
  <1>5. Ended(g.text, g.offset)'
    BY <1>1, <1>4 DEF Ended
  <1>6. Runs(program', At(sql_stmt', offset'), g, Limit')
    BY <1>3, <1>4
  <1> QED
    BY <1>4, <1>5, <1>6 DEF Makes

-----------------------------------------------------------------------------
(* Every statement is whole.                                               *)

\* What is true while the text is built.
Building ==
    /\ Length(Wanted) \in Nat /\ Limit \in Nat /\ Program \in Seq(AnyStep)
    /\ Makes(program, At(sql_stmt, offset))

\* The invariant.  A call that has not yet built its text has an empty buffer;
\* one that builds it is on the way to the text it should make.
WholeInv ==
    /\ phase \in {"fix", "filter", "check", "build"} => sent = <<>>
    /\ phase \in {"fix", "filter", "check"} => sql_stmt = <<>> /\ offset = 0
    /\ phase \in {"fix", "filter"} => filter = <<>>
    /\ phase = "fix" => call.op = "sorm_fix_string"
    /\ phase = "filter" => ByColumn
    /\ phase # "done" => ret_val = "none"
    /\ phase = "build" => Building
    /\ SentWhole /\ TooLongRight

\* It holds when a call begins.
LEMMA WholeInitial ==
    ASSUME Init
    PROVE  WholeInv
  <1>1. /\ sent = <<>> /\ sql_stmt = <<>> /\ offset = 0 /\ filter = <<>> /\ ret_val = "none"
        /\ phase = IF call.op = "sorm_fix_string" THEN "fix"
                   ELSE IF ByColumn THEN "filter" ELSE "check"
    BY DEF Init
  <1>2. SentWhole
    BY <1>1 DEF SentWhole
  <1>3. TooLongRight
    BY <1>1 DEF TooLongRight
  <1> QED
    BY <1>1, <1>2, <1>3 DEF WholeInv

\* A step of the program that has room.
LEMMA BuildingOn ==
    ASSUME Building, program # <<>>, call' = call, filter' = filter,
           program' = Tail(program), At(sql_stmt', offset') = After(Head(program), At(sql_stmt, offset))
    PROVE  Building'
  <1>1. PICK g \in Buffers : Runs(program, At(sql_stmt, offset), g, Limit)
                             /\ Ended(g.text, g.offset)
    BY DEF Building, Makes
  <1> DEFINE a == At(sql_stmt, offset)
             b == After(Head(program), a)
  <1>2. Runs(program, a, g, Limit)
    BY <1>1
  <1> HIDE DEF a
  <1>3. Runs(Tail(program), b, g, Limit)
    BY <1>2, RunsFirst
  <1>4. Makes(Tail(program), b)
    BY <1>1, <1>3 DEF Makes
  <1>5. b = At(sql_stmt', offset')
    BY DEF a
  <1> HIDE DEF b
  <1>6. Makes(program', At(sql_stmt', offset'))
    BY <1>4, <1>5
  <1>7. Makes(program, At(sql_stmt, offset))'
    BY <1>6, MakesOn
  <1>8. Program' = Program /\ Wanted' = Wanted
    BY SameCall
  <1>9. Left' = Left /\ Behinds' = Behinds
    BY <1>8 DEF Left, Behinds
  <1>10. Limit' = Limit
    BY <1>8, <1>9 DEF Limit
  <1> QED
    BY <1>7, <1>8, <1>10 DEF Building

\* The text is begun.
LEMMA BuildingBegins ==
    ASSUME call \in Calls, filter \in Seq(Quiet), EarlyReturn = "none", call' = call,
           filter' = filter, sql_stmt' = <<>>, offset' = 0, program' = Program
    PROVE  Building'
  <1>1. call.op \in Objects => call.valued # {}
    BY DEF EarlyReturn
  <1>2. Length(Wanted) \in Nat /\ Limit \in Nat /\ Makes(Program, On(<<>>))
    BY <1>1, ProgramMakes
  <1>3. Program \in Seq(AnyStep)
    BY <1>2 DEF Makes, Runs
  <1>4. On(<<>>) = At(sql_stmt', offset')
    BY LengthEmpty DEF On
  <1>5. Makes(program', At(sql_stmt', offset'))
    BY <1>2, <1>4
  <1>6. Makes(program, At(sql_stmt, offset))'
    BY <1>5, MakesOn
  <1>7. Program' = Program /\ Wanted' = Wanted
    BY SameCall
  <1>8. Left' = Left /\ Behinds' = Behinds
    BY <1>7 DEF Left, Behinds
  <1>9. Limit' = Limit
    BY <1>7, <1>8 DEF Limit
  <1> QED
    BY <1>2, <1>3, <1>6, <1>7, <1>9 DEF Building

\* The next step of the program, and the room for it.
LEMMA NextIs ==
    ASSUME Building, program # <<>>
    PROVE  /\ Head(program) \in AnyStep /\ sql_stmt \in Seq(Pieces) /\ offset \in Nat
           /\ After(Head(program), At(sql_stmt, offset)).offset <= Limit
  <1> DEFINE a == At(sql_stmt, offset)
  <1>1. PICK g \in Buffers : Runs(program, a, g, Limit)
    BY DEF Building, Makes
  <1>2. a.text = sql_stmt /\ a.offset = offset
    BY DEF At
  <1> HIDE DEF a
  <1>3. After(Head(program), a).offset <= Limit /\ a \in Buffers
    BY <1>1, RunsFirst
  <1>4. program \in Seq(AnyStep)
    BY <1>1 DEF Runs
  <1>5. Head(program) \in AnyStep
    BY <1>4, TailIs
  <1>6. a.text \in Seq(Pieces) /\ a.offset \in Nat
    BY <1>3 DEF Buffers
  <1> QED
    BY <1>2, <1>3, <1>5, <1>6 DEF a

\* A print: the whole of it is shown, or the call returns and is right.
LEMMA WholePrint ==
    ASSUME RoomInv, WholeInv, snprintf
    PROVE  WholeInv'
  <1> DEFINE s == Head(program)
             need == Length(s.pieces)
             room == Room(s.room)
             shown == IF need < room THEN need ELSE room - 1
  <1>1. /\ phase = "build" /\ program # <<>> /\ s.do = "print"
        /\ offset' = offset + need
        /\ sql_stmt' = IF shown = need THEN sql_stmt \o s.pieces
                       ELSE Append(sql_stmt, Piece("stump", "", shown))
        /\ IF ~TooLong(offset + need)
           THEN program' = Tail(program) /\ phase' = phase /\ ret_val' = ret_val
           ELSE phase' = "done" /\ ret_val' = IF call.op = "sorm_to_string" THEN "string"
                                              ELSE "SORM_TOO_LONG"
        /\ call' = call /\ max' = max /\ filter' = filter /\ sent' = sent
    BY DEF snprintf, Doing, Return
  <1>2. max \in Nat
    BY DEF RoomInv
  <1>3. Building /\ sent = <<>> /\ SentWhole /\ ret_val = "none"
    BY <1>1 DEF WholeInv
  <1>4. /\ s \in AnyStep /\ sql_stmt \in Seq(Pieces) /\ offset \in Nat
        /\ After(s, At(sql_stmt, offset)).offset <= Limit
    BY <1>1, <1>3, NextIs
  <1> HIDE DEF s
  <1>5. s.room \in {"rest", "more", "whole"} /\ s.pieces \in Seq(Pieces)
    <2>1. s \notin Fixes
      BY <1>1 DEF Fixes
    <2>2. s \in Says
      BY <1>4, <2>1 DEF AnyStep
    <2> QED
      BY <2>2 DEF Says
  <1>6. need \in Nat
    BY <1>5, LengthNat
  <1>7. After(s, At(sql_stmt, offset)) = At(sql_stmt \o s.pieces, offset + need)
    BY <1>1 DEF After, At
  <1>8. offset + need <= Limit
    BY <1>4, <1>7 DEF At
  <1>9. TooLong(offset + need) <=> offset + need > max
    BY DEF TooLong
  <1>10. room \in {max + 1 - offset, max + 1 - offset + 1, max + 1}
    BY <1>5 DEF Room
  <1> HIDE DEF need, room
  <1>11. SentWhole'
    BY <1>1, <1>3, SentKept
  <1>12. CASE TooLong(offset + need)
    <2>1. /\ phase' = "done"
          /\ ret_val' = IF call.op = "sorm_to_string" THEN "string" ELSE "SORM_TOO_LONG"
      BY <1>1, <1>12
    <2>2. Program \in Seq(AnyStep) /\ Limit \in Nat /\ Length(Wanted) \in Nat
      BY <1>3 DEF Building
    <2>3. Limit > max
      BY <1>2, <1>4, <1>6, <1>8, <1>9, <1>12, <2>2
    <2>4. call.op = "sorm_to_string" => Length(Wanted) > max
      <3> SUFFICES ASSUME call.op = "sorm_to_string" PROVE Length(Wanted) > max
        OBVIOUS
      <3>1. Left = 0 /\ Behinds = 0
        BY DEF Left, Behinds
      <3>2. Limit = Length(Wanted)
        BY <2>2, <3>1 DEF Limit
      <3> QED
        BY <2>3, <3>2
    <2>5. TooLongRight'
      BY <1>1, <2>1, <2>2, <2>3, <2>4, TooLongBuilt
    <2> QED
      BY <1>11, <2>1, <2>5 DEF WholeInv
  <1>13. CASE ~TooLong(offset + need)
    <2>1. phase' = "build" /\ program' = Tail(program) /\ ret_val' = "none"
      BY <1>1, <1>3, <1>13
    <2>2. need < room
      BY <1>2, <1>4, <1>6, <1>9, <1>10, <1>13
    <2>3. shown = need
      BY <2>2
    <2>4. sql_stmt' = sql_stmt \o s.pieces
      BY <1>1, <2>3
    <2>5. At(sql_stmt', offset') = After(Head(program), At(sql_stmt, offset))
      BY <1>1, <1>7, <2>4 DEF s
    <2>6. Building'
      BY <1>1, <1>3, <2>1, <2>5, BuildingOn
    <2>7. TooLongRight'
      BY <2>1, TooLongElse
    <2>8. sent' = <<>>
      BY <1>1, <1>3
    <2> QED
      BY <1>11, <2>1, <2>6, <2>7, <2>8 DEF WholeInv
  <1> QED
    BY <1>12, <1>13

\* A repair.
LEMMA WholeRepair ==
    ASSUME WholeInv, RepairLast \/ CutLast
    PROVE  WholeInv'
  <1>1. /\ phase = "build" /\ program # <<>> /\ program' = Tail(program)
        /\ call' = call /\ max' = max /\ filter' = filter /\ sent' = sent
        /\ phase' = phase /\ ret_val' = ret_val
    BY DEF RepairLast, CutLast, Doing
  <1>2. Building /\ sent = <<>> /\ SentWhole /\ ret_val = "none"
    BY <1>1 DEF WholeInv
  <1>3. At(sql_stmt', offset') = After(Head(program), At(sql_stmt, offset))
    <2> DEFINE s == Head(program)
    <2>1. CASE RepairLast
      <3>1. s.do = "repair" /\ sql_stmt' = Append(Shorten(sql_stmt, 1), s.with)
            /\ offset' = offset
        BY <2>1 DEF RepairLast, Doing
      <3> HIDE DEF s
      <3>2. After(s, At(sql_stmt, offset)) = At(Append(Shorten(sql_stmt, 1), s.with), offset)
        BY <3>1 DEF After, At
      <3> QED
        BY <3>1, <3>2 DEF s
    <2>2. CASE CutLast
      <3>1. s.do = "cut" /\ sql_stmt' = Shorten(sql_stmt, s.n)
            /\ offset' = IF s.back THEN offset - s.n ELSE offset
        BY <2>2 DEF CutLast, Doing
      <3> HIDE DEF s
      <3>2. After(s, At(sql_stmt, offset))
               = At(Shorten(sql_stmt, s.n), IF s.back THEN offset - s.n ELSE offset)
        BY <3>1 DEF After, At
      <3> QED
        BY <3>1, <3>2 DEF s
    <2> QED
      BY <2>1, <2>2
  <1>4. Building'
    BY <1>1, <1>2, <1>3, BuildingOn
  <1>5. SentWhole'
    BY <1>1, <1>2, SentKept
  <1>6. ret_val' = "none" /\ sent' = <<>> /\ phase' = "build"
    BY <1>1, <1>2
  <1>7. TooLongRight'
    BY <1>6, TooLongElse
  <1> QED
    BY <1>4, <1>5, <1>6, <1>7 DEF WholeInv

\* The buffer when the program has ended.
LEMMA BuiltIs ==
    ASSUME Building, program = <<>>
    PROVE  sql_stmt \in Seq(Pieces) /\ offset \in Nat /\ Ended(sql_stmt, offset)
  <1>1. PICK g \in Buffers : Runs(<<>>, At(sql_stmt, offset), g, Limit)
                             /\ Ended(g.text, g.offset)
    BY DEF Building, Makes
  <1>2. Runs(<<>>, At(sql_stmt, offset), g, Limit)
    BY <1>1
  <1>3. At(sql_stmt, offset) = g
    BY <1>2, RunsEnd
  <1>4. g.text = sql_stmt /\ g.offset = offset
    BY <1>3 DEF At
  <1>5. g.text \in Seq(Pieces) /\ g.offset \in Nat
    BY DEF Buffers
  <1> QED
    BY <1>1, <1>4, <1>5

\* The caller's text, if it fits.
LEMMA CallerWhole ==
    ASSUME NEW n \in Nat
    PROVE  FirstStatement(<<Caller(n)>>) = <<Caller(n)>> /\ Length(<<Caller(n)>>) = n
  <1> DEFINE p == Caller(n)
  <1>1. p \in Quiet /\ p \in Pieces
    BY NamesAre
  <1>2. p.n = n
    BY DEF Caller, Piece
  <1> HIDE DEF p
  <1>3. <<p>> \in Seq(Quiet)
    BY <1>1, Parts
  <1>4. FirstStatement(<<p>>) = <<p>>
    BY <1>3, FirstWhole
  <1>5. <<>> \in Seq(Pieces) /\ Append(<<>>, p) = <<p>>
    BY <1>1
  <1>6. Length(Append(<<>>, p)) = Length(<<>>) + p.n
    BY <1>1, <1>5, LengthAppend
  <1>7. Length(<<p>>) = n
    BY <1>2, <1>5, <1>6, LengthEmpty
  <1> QED
    BY <1>4, <1>7 DEF p

\* sqlite3_prepare gets a whole statement.
LEMMA WholePrepare ==
    ASSUME RoomInv, WholeInv, Prepare
    PROVE  WholeInv'
  <1>1. /\ phase = "build" /\ program = <<>> /\ call.op # "sorm_to_string"
        /\ sent' = FirstStatement(Passed) /\ phase' = "prepare"
        /\ call' = call /\ max' = max /\ filter' = filter /\ ret_val' = ret_val
    BY DEF Prepare
  <1>2. max \in Nat /\ offset \in Int /\ offset <= max /\ call \in Calls
    BY <1>1 DEF RoomInv
  <1>3. Building /\ ret_val = "none"
    BY <1>1 DEF WholeInv
  <1>4. sql_stmt \in Seq(Pieces) /\ offset \in Nat /\ Ended(sql_stmt, offset)
    BY <1>1, <1>3, BuiltIs
  <1>5. Length(sql_stmt) \in Nat /\ Length(Wanted) \in Nat
    BY <1>3, <1>4, LengthNat DEF Building
  <1>6. Wanted' = Wanted /\ NoKey' = NoKey
    BY SameCall, <1>1
  <1>7. \/ sent' = Wanted /\ Length(sent') <= max
        \/ call.op \in {"sorm_run_stmt", "create_sql"} /\ call.text > max
        \/ NoKey /\ ~Accepts(sent')
    <2>1. CASE call.op \in {"sorm_run_stmt", "create_sql"} /\ call.text > max
      BY <2>1
    <2>2. CASE call.op \in {"sorm_run_stmt", "create_sql"} /\ ~(call.text > max)
      <3>1. call.text \in Nat
        BY <1>2, <2>2, CallIs
      <3> DEFINE n == call.text
      <3>2. Passed = <<Caller(n)>> /\ Wanted = <<Caller(n)>>
        BY <2>2 DEF Passed, Wanted
      <3>3. n \in Nat /\ n <= max
        BY <1>2, <2>2, <3>1
      <3> HIDE DEF n
      <3>4. FirstStatement(<<Caller(n)>>) = <<Caller(n)>> /\ Length(<<Caller(n)>>) = n
        BY <3>3, CallerWhole
      <3>5. sent' = Wanted /\ Length(sent') = n
        BY <1>1, <3>2, <3>4
      <3> QED
        BY <3>3, <3>5
    <2>3. CASE call.op \notin {"sorm_run_stmt", "create_sql"}
      <3>1. sent' = FirstStatement(sql_stmt)
        BY <1>1, <2>3 DEF Passed
      <3>2. Length(sql_stmt) <= offset
        BY <1>4 DEF Ended
      <3>3. \/ FirstStatement(sql_stmt) = Wanted /\ Length(Wanted) <= Length(sql_stmt)
            \/ NoKey /\ ~Accepts(FirstStatement(sql_stmt))
        BY <1>1, <1>4, <2>3 DEF Ended
      <3>4. CASE FirstStatement(sql_stmt) = Wanted /\ Length(Wanted) <= Length(sql_stmt)
        <4>1. Length(Wanted) <= max
          BY <1>2, <1>5, <3>2, <3>4
        <4> QED
          BY <3>1, <3>4, <4>1
      <3>5. CASE NoKey /\ ~Accepts(FirstStatement(sql_stmt))
        BY <3>1, <3>5
      <3> QED
        BY <3>3, <3>4, <3>5
    <2> QED
      BY <2>1, <2>2, <2>3
  <1>8. SentWhole'
    BY <1>1, <1>6, <1>7 DEF SentWhole
  <1>9. ret_val' = "none"
    BY <1>1, <1>3
  <1>10. TooLongRight'
    BY <1>9, TooLongElse
  <1> QED
    BY <1>1, <1>8, <1>9, <1>10 DEF WholeInv

\* Every step of a call keeps it.
LEMMA WholeKept ==
    ASSUME RoomInv, WholeInv, [Next]_vars
    PROVE  WholeInv'
  <1>1. /\ phase \in {"fix", "filter", "check", "build"} => sent = <<>>
        /\ phase \in {"fix", "filter", "check"} => sql_stmt = <<>> /\ offset = 0
        /\ phase \in {"fix", "filter"} => filter = <<>>
        /\ phase = "fix" => call.op = "sorm_fix_string"
        /\ phase = "filter" => ByColumn
        /\ phase # "done" => ret_val = "none"
        /\ phase = "build" => Building
        /\ SentWhole /\ TooLongRight
    BY DEF WholeInv
  <1>2. CASE Fix
    <2>1. UNCHANGED <<call, max, phase, filter, sql_stmt, offset, sent, ret_val>>
          /\ phase \in {"fix", "filter"}
      BY <1>2 DEF Fix, textVars
    <2>2. SentWhole'
      BY <1>1, <2>1, SentKept
    <2>3. ByColumn' = ByColumn
      BY <2>1, SameCall
    <2>4. TooLongRight'
      BY <1>1, <2>1, TooLongElse
    <2> QED
      BY <1>1, <2>1, <2>2, <2>3, <2>4 DEF WholeInv
  <1>3. CASE FixReturns
    <2>1. /\ UNCHANGED <<call, max, filter, sql_stmt, offset, sent>>
          /\ phase \in {"fix", "filter"} /\ phase' = "done"
          /\ ret_val' \in {"SORM_OK", "SORM_TOO_LONG"}
      BY <1>3 DEF FixReturns, textVars, Return
    <2>2. SentWhole'
      BY <1>1, <2>1, SentKept
    <2>3. ByColumn' = ByColumn
      BY <2>1, SameCall
    <2>4. call'.op = "sorm_fix_string" \/ (ByColumn' /\ filter' = <<>>)
      BY <1>1, <2>1, <2>3
    <2>5. TooLongRight'
      BY <2>1, <2>4, TooLongUnbuilt
    <2> QED
      BY <2>1, <2>2, <2>5 DEF WholeInv
  <1>4. CASE ColumnFilter
    <2>1. /\ UNCHANGED <<call, max, sql_stmt, offset, sent>> /\ phase = "filter"
          /\ \/ phase' = "done" /\ ret_val' \in {"SORM_INVALID_TYPE", "SORM_TOO_LONG"}
                /\ filter' = filter
             \/ phase' = "check" /\ ret_val' = ret_val
      BY <1>4 DEF ColumnFilter, Return
    <2>2. sent' = <<>> /\ sql_stmt' = <<>> /\ offset' = 0
      BY <1>1, <2>1
    <2>3. SentWhole'
      BY <2>2 DEF SentWhole
    <2>4. ByColumn'
      BY <1>1, <2>1 DEF ByColumn
    <2>5. CASE phase' = "done"
      <3>1. TooLongRight'
        BY <1>1, <2>1, <2>4, <2>5, TooLongUnbuilt
      <3> QED
        BY <2>2, <2>3, <2>5, <3>1 DEF WholeInv
    <2>6. CASE phase' = "check"
      <3>1. ret_val' = "none"
        BY <1>1, <2>1, <2>6
      <3>2. TooLongRight'
        BY <3>1, TooLongElse
      <3> QED
        BY <2>2, <2>3, <2>6, <3>1, <3>2 DEF WholeInv
    <2> QED
      BY <2>1, <2>5, <2>6
  <1>5. CASE Check
    <2>1. /\ UNCHANGED <<call, max, filter, sql_stmt, offset, sent>> /\ phase = "check"
          /\ \/ phase' = "done" /\ ret_val' = EarlyReturn /\ EarlyReturn # "none"
             \/ phase' = "build" /\ ret_val' = ret_val /\ program' = Program
                /\ EarlyReturn = "none"
      BY <1>5 DEF Check, Return
    <2>2. sent' = <<>> /\ sql_stmt' = <<>> /\ offset' = 0
      BY <1>1, <2>1
    <2>3. SentWhole'
      BY <2>2 DEF SentWhole
    <2>4. CASE phase' = "done"
      <3>1. ret_val' \notin {"SORM_TOO_LONG", "string"}
        BY <2>1, <2>4 DEF EarlyReturn
      <3>2. TooLongRight'
        BY <3>1, TooLongElse
      <3> QED
        BY <2>3, <2>4, <3>2 DEF WholeInv
    <2>5. CASE phase' = "build"
      <3>1. call \in Calls /\ filter \in Seq(Quiet)
        BY <2>1 DEF RoomInv
      <3>2. Building'
        BY <2>1, <2>2, <2>5, <3>1, BuildingBegins
      <3>3. ret_val' = "none"
        BY <1>1, <2>1, <2>5
      <3>4. TooLongRight'
        BY <3>3, TooLongElse
      <3> QED
        BY <2>2, <2>3, <2>5, <3>2, <3>3, <3>4 DEF WholeInv
    <2> QED
      BY <2>1, <2>4, <2>5
  <1>6. CASE snprintf
    BY <1>6, WholePrint
  <1>7. CASE RepairLast \/ CutLast
    BY <1>7, WholeRepair
  <1>8. CASE Prepare
    BY <1>8, WholePrepare
  <1>9. CASE ToStringReturns
    <2>1. /\ phase = "build" /\ program = <<>> /\ call.op = "sorm_to_string"
          /\ phase' = "done" /\ ret_val' = "string"
          /\ UNCHANGED <<call, max, filter, sql_stmt, offset, sent>>
      BY <1>9 DEF ToStringReturns, Return, textVars
    <2>2. Building
      BY <1>1, <2>1
    <2>3. Ended(sql_stmt, offset)
      BY <2>1, <2>2, BuiltIs
    <2>4. sql_stmt' = Wanted
      BY <2>1, <2>3 DEF Ended
    <2>5. Program \in Seq(AnyStep)
      BY <2>2 DEF Building
    <2>6. TooLongRight'
      BY <2>1, <2>4, <2>5, TooLongBuilt
    <2>7. SentWhole'
      BY <1>1, <2>1, SentKept
    <2> QED
      BY <2>1, <2>6, <2>7 DEF WholeInv
  <1>10. CASE StartList
    <2>1. /\ phase = "prepare" /\ phase' = "list" /\ sent' = <<>> /\ ret_val' = ret_val
      BY <1>10 DEF StartList
    <2>2. ret_val' = "none"
      BY <1>1, <2>1
    <2>3. TooLongRight'
      BY <2>2, TooLongElse
    <2>4. SentWhole'
      BY <2>1 DEF SentWhole
    <2> QED
      BY <2>1, <2>2, <2>3, <2>4 DEF WholeInv
  <1>11. CASE \/ Refuse \/ PrepareFails \/ Run \/ StartBind \/ Bind \/ Bound
              \/ ListItem \/ ListEnds
    <2>1. /\ phase # "done" /\ UNCHANGED <<call, max, filter, sent>>
          /\ phase' \in {"bind", "list", "done"}
          /\ \/ ret_val' = ret_val
             \/ phase' = "done" /\ ret_val' \in {"SORM_ARG_NULL", "SORM_DB_ERROR", "SORM_OK",
                                                 "abort"}
      BY <1>11 DEF Refuse, PrepareFails, Run, StartBind, Bind, Bound, ListItem, ListEnds,
                  Return, textVars
    <2>2. SentWhole'
      BY <1>1, <2>1, SentKept
    <2>3. ret_val' \notin {"SORM_TOO_LONG", "string"}
      BY <1>1, <2>1
    <2>4. TooLongRight'
      BY <2>3, TooLongElse
    <2>5. phase' # "done" => ret_val' = "none"
      BY <1>1, <2>1
    <2> QED
      BY <2>1, <2>2, <2>4, <2>5 DEF WholeInv
  <1>12. CASE Returned \/ UNCHANGED vars
    <2>1. UNCHANGED <<call, max, filter, sql_stmt, offset, sent, phase, ret_val, program>>
      BY <1>12 DEF Returned, vars, textVars
    <2>2. SentWhole'
      BY <1>1, <2>1, SentKept
    <2>3. /\ Program' = Program /\ Wanted' = Wanted /\ ByColumn' = ByColumn
      BY <2>1, SameCall
    <2>4. TooLongRight'
      BY <1>1, <2>1, <2>3 DEF TooLongRight
    <2>5. Left' = Left /\ Behinds' = Behinds
      BY <2>1, <2>3 DEF Left, Behinds
    <2>6. Limit' = Limit
      BY <2>3, <2>5 DEF Limit
    <2>7. ASSUME phase = "build" PROVE Building'
      <3>1. Building
        BY <1>1, <2>7
      <3>2. Makes(program', At(sql_stmt', offset'))
        BY <2>1, <3>1 DEF Building
      <3>3. Makes(program, At(sql_stmt, offset))'
        BY <2>1, <3>2, MakesOn
      <3> QED
        BY <2>3, <2>6, <3>1, <3>3 DEF Building
    <2> QED
      BY <1>1, <2>1, <2>2, <2>3, <2>4, <2>7 DEF WholeInv
  <1> QED
    BY <1>2, <1>3, <1>4, <1>5, <1>6, <1>7, <1>8, <1>9, <1>10, <1>11, <1>12 DEF Next

\* The two invariants together.
LEMMA WholeAlways ==
    Spec => [](RoomInv /\ WholeInv)
  <1>1. Init => RoomInv /\ WholeInv
    BY RoomInitial, WholeInitial
  <1>2. RoomInv /\ WholeInv /\ [Next]_vars => (RoomInv /\ WholeInv)'
    BY RoomKept, WholeKept
  <1> QED
    BY <1>1, <1>2, PTL DEF Spec

\* Whatever the table, its constraints, the lengths of names and values and
\* SQL_STMT_MAX_LEN are, SQLite compiles the whole statement of the call: the
\* loops of prints, the repaired separators and the checks of offset add up.
THEOREM StatementsWhole ==
    Spec => []SentWhole
  <1>1. RoomInv /\ WholeInv => SentWhole
    BY DEF WholeInv
  <1> QED
    BY <1>1, WholeAlways, PTL

\* SORM_TOO_LONG is returned only for a statement that, with the separator the
\* loop leaves, has no room, and sorm_to_string gives a part only then.
THEOREM TooLongJustified ==
    Spec => []TooLongRight
  <1>1. RoomInv /\ WholeInv => TooLongRight
    BY DEF WholeInv
  <1> QED
    BY <1>1, WholeAlways, PTL
=============================================================================
