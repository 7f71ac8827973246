------------------------ MODULE StatementsRoomProofs ------------------------
(***************************************************************************)
(* What one snprintf of src/sorm.c writes, for every table, every length   *)
(* of a name and every SQL_STMT_MAX_LEN:                                   *)
(*   PrintsStayInside   no print leaves its buffer, but for two known ones *)
(***************************************************************************)
EXTENDS StatementsProofs

-----------------------------------------------------------------------------
(* Text and its length.                                                    *)

Words == Literals \cup {Columns[1][j] : j \in Numbers}
         \cup {"first", "second", "", "number", "broken", "quoted"}
Pieces == [kind : {"lit", "column", "table", "list", "caller", "value", "stump",
                   "clipped"}, what : Words, n : Nat]

\* All but the semicolon, which only the indexes of sorm_create_table begin with.
Quiet == Pieces \ {Semicolon}

\* f[k] is the length of the first k pieces of text.
Measured(f, text) ==
    f[0] = 0 /\ \A k \in 1..Len(text) : f[k] = f[k - 1] + text[k].n

\* The recursive function of Length exists, and yields the last of those.
LEMMA LengthMeasured ==
    ASSUME NEW text \in Seq(Pieces)
    PROVE  \E f \in [0..Len(text) -> Nat] :
              Measured(f, text) /\ Length(text) = f[Len(text)]
  <1> DEFINE N == Len(text)
             G == [k \in 1..N |-> [m \in Nat |-> m + text[k].n]]
             Next1(f) == [k \in 0..N |-> IF k = 0 THEN 0 ELSE f[k - 1] + text[k].n]
             e == CHOOSE f : f = Next1(f)
  <1>0. N \in Nat /\ \A k \in 1..N : text[k] \in Pieces
    OBVIOUS
  <1>1. N \in Nat /\ \A k \in 1..N : text[k].n \in Nat
    <2> HIDE DEF N
    <2> QED
      BY <1>0 DEF Pieces
  <1>2. G \in [1..N -> [Nat -> Nat]]
    BY <1>1
  <1>3. PICK f \in [0..N -> Nat] : Recursion(f, N, 0, G)
    <2> HIDE DEF G, N
    <2> QED
      BY <1>1, <1>2, RecursionExists
  <1>4. Measured(f, text)
    <2>1. ASSUME NEW k \in 1..N PROVE f[k] = f[k - 1] + text[k].n
      <3>1. k - 1 \in 0..N
        BY <1>1
      <3>2. f[k - 1] \in Nat
        BY <3>1
      <3>3. f[k] = G[k][f[k - 1]]
        BY <1>3 DEF Recursion
      <3> QED
        BY <3>2, <3>3
    <2> QED
      BY <1>3, <2>1 DEF Measured, Recursion
  <1>5. f = Next1(f)
    <2>1. ASSUME NEW k \in 0..N
          PROVE  f[k] = IF k = 0 THEN 0 ELSE f[k - 1] + text[k].n
      <3>1. CASE k = 0
        BY <1>4, <3>1 DEF Measured
      <3>2. CASE k # 0
        <4>1. k \in 1..N
          BY <1>1, <3>2
        <4> QED
          BY <1>4, <3>2, <4>1 DEF Measured
      <3> QED
        BY <3>1, <3>2
    <2> QED
      BY <2>1
  <1>6. e = Next1(e)
    BY <1>5
  <1>7. Length(text) = e[N]
    BY DEF Length
  <1> HIDE DEF e
  <1> DEFINE T == {k \in Nat : k \in 0..N => e[k] = f[k]}
  <1>8. 0 \in T
    <2>1. 0 \in 0..N
      BY <1>1
    <2>2. e[0] = 0
      BY <1>6, <2>1
    <2> QED
      BY <1>4, <2>2 DEF Measured
  <1>9. ASSUME NEW k \in T PROVE k + 1 \in T
    <2> SUFFICES ASSUME k + 1 \in 0..N PROVE e[k + 1] = f[k + 1]
      OBVIOUS
    <2> DEFINE j == k + 1
    <2>1. j \in 1..N /\ j \in 0..N /\ j # 0 /\ j - 1 = k /\ k \in 0..N
      BY <1>1
    <2> HIDE DEF j
    <2>2. e[j] = e[j - 1] + text[j].n /\ f[j] = f[j - 1] + text[j].n
      BY <1>4, <1>6, <2>1 DEF Measured
    <2> QED
      BY <2>1, <2>2 DEF j
  <1>10. T = Nat
    <2>1. T \in SUBSET Nat
      OBVIOUS
    <2> HIDE DEF T
    <2> QED
      BY <1>8, <1>9, <2>1, SetInduction
  <1>11. e[N] = f[N]
    <2>1. N \in T /\ N \in 0..N
      <3> HIDE DEF T
      <3> QED
        BY <1>1, <1>10
    <2> QED
      BY <2>1
  <1> QED
    BY <1>4, <1>7, <1>11

\* One more piece makes the text longer by its length.
LEMMA LengthAppend ==
    ASSUME NEW text \in Seq(Pieces), NEW p \in Pieces
    PROVE  Length(text) \in Nat /\ Length(Append(text, p)) = Length(text) + p.n
  <1> DEFINE N == Len(text)
             new == Append(text, p)
  <1>1. /\ new \in Seq(Pieces) /\ Len(new) = N + 1 /\ N \in Nat /\ new[N + 1] = p
        /\ \A k \in 1..N : new[k] = text[k]
    BY AppendProperties
  <1>2. PICK f \in [0..N -> Nat] : Measured(f, text) /\ Length(text) = f[N]
    BY LengthMeasured
  <1> HIDE DEF new
  <1>3. PICK g \in [0..(N + 1) -> Nat] : Measured(g, new) /\ Length(new) = g[N + 1]
    BY <1>1, LengthMeasured
  <1> DEFINE T == {k \in Nat : k \in 0..N => f[k] = g[k]}
  <1>4. 0 \in T
    BY <1>2, <1>3 DEF Measured
  <1>5. ASSUME NEW k \in T PROVE k + 1 \in T
    <2> SUFFICES ASSUME k + 1 \in 0..N PROVE f[k + 1] = g[k + 1]
      OBVIOUS
    <2> DEFINE j == k + 1
    <2>1. j \in 1..N /\ j \in 1..Len(new) /\ j - 1 = k /\ k \in 0..N
      BY <1>1
    <2> HIDE DEF j
    <2>2. f[j] = f[j - 1] + text[j].n /\ g[j] = g[j - 1] + new[j].n
      BY <1>2, <1>3, <2>1 DEF Measured
    <2> QED
      BY <1>1, <2>1, <2>2 DEF j
  <1>6. T = Nat
    <2>1. T \in SUBSET Nat
      OBVIOUS
    <2> HIDE DEF T
    <2> QED
      BY <1>4, <1>5, <2>1, SetInduction
  <1>7. f[N] = g[N]
    <2>1. N \in T /\ N \in 0..N
      <3> HIDE DEF T
      <3> QED
        BY <1>1, <1>6
    <2> QED
      BY <2>1
  <1>8. g[N + 1] = g[N] + p.n
    <2> DEFINE j == N + 1
    <2>1. j \in 1..Len(new) /\ j - 1 = N
      BY <1>1
    <2> HIDE DEF j
    <2>2. g[j] = g[j - 1] + new[j].n
      BY <1>3, <2>1 DEF Measured
    <2> QED
      BY <1>1, <2>1, <2>2 DEF j
  <1>9. f[N] \in Nat
    BY <1>1
  <1> QED
    BY <1>2, <1>3, <1>7, <1>8, <1>9 DEF new

\* No text is 0 long.
LEMMA LengthEmpty == Length(<<>>) = 0
  <1>1. <<>> \in Seq(Pieces) /\ Len(<<>>) = 0
    OBVIOUS
  <1>2. PICK f \in [0..0 -> Nat] : Measured(f, <<>>) /\ Length(<<>>) = f[0]
    BY <1>1, LengthMeasured
  <1> QED
    BY <1>2 DEF Measured

\* The length of two texts.
LEMMA LengthConcat ==
    ASSUME NEW s \in Seq(Pieces), NEW t \in Seq(Pieces)
    PROVE  Length(s \o t) = Length(s) + Length(t) /\ Length(s) \in Nat /\ Length(t) \in Nat
  <1> DEFINE F(m) == SubSeq(t, 1, m)
             T == {m \in Nat : m <= Len(t) => Length(s \o F(m)) = Length(s) + Length(F(m))}
  <1>0. Len(t) \in Nat /\ Length(s) \in Nat /\ Length(t) \in Nat
    BY LengthMeasured
  <1>1. 0 \in T
    <2>1. F(0) = <<>>
      OBVIOUS
    <2>2. s \o <<>> = s
      BY ConcatEmptySeq
    <2> HIDE DEF F
    <2>3. Length(s \o F(0)) = Length(s) /\ Length(F(0)) = 0
      BY <2>1, <2>2, LengthEmpty
    <2>4. Length(s \o F(0)) = Length(s) + Length(F(0))
      BY <1>0, <2>3
    <2> QED
      BY <2>4
  <1>2. ASSUME NEW m \in T PROVE m + 1 \in T
    <2> SUFFICES ASSUME m + 1 <= Len(t)
                 PROVE  Length(s \o F(m + 1)) = Length(s) + Length(F(m + 1))
      OBVIOUS
    <2> DEFINE p == t[m + 1]
    <2>1. m \in Nat /\ m + 1 \in 1..Len(t) /\ p \in Pieces
      BY <1>0
    <2>2. F(m) \in Seq(Pieces) /\ F(m + 1) = Append(F(m), p)
      BY <1>0, <2>1
    <2>3. Length(s \o F(m)) = Length(s) + Length(F(m))
      BY <1>0
    <2> HIDE DEF F, p
    <2>4. s \o Append(F(m), p) = Append(s \o F(m), p) /\ s \o F(m) \in Seq(Pieces)
      BY <2>1, <2>2
    <2>5. Length(Append(s \o F(m), p)) = Length(s \o F(m)) + p.n
      BY <2>1, <2>4, LengthAppend
    <2>6. Length(Append(F(m), p)) = Length(F(m)) + p.n /\ Length(F(m)) \in Nat
      BY <2>1, <2>2, LengthAppend
    <2>7. p.n \in Nat
      BY <2>1 DEF Pieces
    <2>8. Length(s \o F(m + 1)) = Length(s \o F(m)) + p.n
      BY <2>2, <2>4, <2>5
    <2>9. Length(F(m + 1)) = Length(F(m)) + p.n
      BY <2>2, <2>6
    <2> QED
      BY <1>0, <2>3, <2>6, <2>7, <2>8, <2>9
  <1>3. T = Nat
    <2>1. T \in SUBSET Nat
      OBVIOUS
    <2> HIDE DEF T
    <2> QED
      BY <1>1, <1>2, <2>1, SetInduction
  <1>4. F(Len(t)) = t
    OBVIOUS
  <1>5. Len(t) \in T
    <2> HIDE DEF T
    <2> QED
      BY <1>0, <1>3
  <1>6. Length(s \o F(Len(t))) = Length(s) + Length(F(Len(t)))
    BY <1>0, <1>5
  <1> HIDE DEF F
  <1> QED
    BY <1>0, <1>4, <1>6

-----------------------------------------------------------------------------
(* The programs of the calls.                                              *)

\* The columns in order are a sequence of the columns.
LEMMA InOrderIs ==
    ASSUME NEW S \in SUBSET Numbers
    PROVE  /\ IsFiniteSet(S) /\ Cardinality(S) \in Nat
           /\ InOrder(S) \in [1..Cardinality(S) -> S]
           /\ DOMAIN InOrder(S) = 1..Cardinality(S)
  <1>1. Columns[1] \in Seq(STRING)
    BY ColumnsFunction
  <1> DEFINE n == Len(Columns[1])
  <1>2. n \in Nat /\ Numbers = 1..n
    BY <1>1 DEF Numbers
  <1> HIDE DEF n
  <1>3. S \in SUBSET (1..n)
    BY <1>2
  <1>4. IsFiniteSet(S) /\ Cardinality(S) \in Nat
    <2>1. IsFiniteSet(1..n)
      BY <1>2, FS_Interval
    <2>2. IsFiniteSet(S)
      BY <1>3, <2>1, FS_Subset
    <2> QED
      BY <2>2, FS_CardinalityType
  <1>5. ASSUME NEW k \in 1..Cardinality(S)
        PROVE  (CHOOSE j \in S : Cardinality({m \in S : m < j}) = k - 1) \in S
    <2>1. \E j \in S : Cardinality({m \in S : m < j}) = k - 1
      BY <1>2, <1>3, RankExists
    <2> QED
      BY <2>1
  <1> QED
    BY <1>4, <1>5 DEF InOrder

\* A step for each of the columns of S.
LEMMA EachIs ==
    ASSUME NEW S \in SUBSET Numbers, NEW X, NEW F \in [Numbers -> X]
    PROVE  [k \in DOMAIN InOrder(S) |-> F[InOrder(S)[k]]] \in Seq(X)
  <1> DEFINE n == Cardinality(S)
             f == [k \in DOMAIN InOrder(S) |-> F[InOrder(S)[k]]]
  <1>1. n \in Nat /\ InOrder(S) \in [1..n -> S] /\ DOMAIN InOrder(S) = 1..n
    BY InOrderIs
  <1>2. f \in [1..n -> X]
    BY <1>1
  <1> HIDE DEF n, f
  <1>3. f \in Seq(X)
    BY <1>1, <1>2, FunctionSeq
  <1> QED
    BY <1>3 DEF f

\* The pieces of text.
LEMMA LitIs ==
    ASSUME NEW s \in Literals
    PROVE  Lit(s) \in Pieces /\ (s # "; " => Lit(s) \in Quiet)
  <1>1. Len(s) \in Nat
    BY LiteralLengths
  <1>2. s \in Words
    BY DEF Words
  <1>3. Lit(s) \in Pieces
    BY <1>1, <1>2 DEF Lit, Piece, Pieces
  <1>4. s # "; " => Lit(s) # Lit("; ")
    BY DEF Lit, Piece
  <1> QED
    BY <1>3, <1>4 DEF Quiet, Semicolon

\* What is not in a format string is no semicolon.
LEMMA NoLiteral ==
    ASSUME NEW p \in Pieces, p.kind # "lit"
    PROVE  p \in Quiet
  <1>1. Semicolon.kind = "lit"
    BY DEF Semicolon, Lit, Piece
  <1> QED
    BY <1>1 DEF Quiet

\* The names.
LEMMA NamesAre ==
    /\ \A j \in Numbers : Col(j) \in Quiet
    /\ Table(1) \in Quiet /\ Table(2) \in Quiet
    /\ \A n \in Nat : List(n) \in Quiet /\ Caller(n) \in Quiet
    /\ 1 \in Numbers /\ NameLength \in Nat
    /\ \A p \in Quiet : p \in Pieces
  <1>1. Columns[1] \in Seq(STRING) /\ 1 \in DOMAIN Columns
    BY ColumnsFunction
  <1>2. Columns[1] # <<>> /\ NameLength \in Nat
    BY <1>1, StatementsAssumption
  <1>3. 1 \in Numbers
    BY <1>1, <1>2 DEF Numbers
  <1>4. \A j \in Numbers : Columns[1][j] \in Words
    BY DEF Words
  <1>5. "first" \in Words /\ "second" \in Words /\ "" \in Words
    BY DEF Words
  <1>6. \A p \in Pieces : p.kind # "lit" => p \in Quiet
    BY NoLiteral
  <1>7. \A j \in Numbers : Col(j) \in Pieces /\ Col(j).kind # "lit"
    BY <1>2, <1>4 DEF Col, Piece, Pieces
  <1>8. /\ Table(1) \in Pieces /\ Table(2) \in Pieces
        /\ Table(1).kind # "lit" /\ Table(2).kind # "lit"
    BY <1>2, <1>5 DEF Table, Piece, Pieces
  <1>9. \A n \in Nat : /\ List(n) \in Pieces /\ Caller(n) \in Pieces
                       /\ List(n).kind # "lit" /\ Caller(n).kind # "lit"
    BY <1>5 DEF List, Caller, Piece, Pieces
  <1>10. \A p \in Quiet : p \in Pieces
    BY DEF Quiet
  <1> QED
    BY <1>2, <1>3, <1>6, <1>7, <1>8, <1>9, <1>10

\* The prints into the rest of the buffer, those that take a byte too many, the
\* repairs of the text, and the print of WHERE in sorm_update.
Rest  == [do : {"print"}, room : {"rest"}, pieces : Seq(Pieces)]
More  == [do : {"print"}, room : {"more"}, pieces : Seq(Pieces)]
Fixes == [do : {"repair"}, with : Pieces] \cup [do : {"cut"}, n : Nat, back : BOOLEAN]
Where == PrintIn("whole", <<Lit(" WHERE")>>)
Steps == Rest \cup More \cup Fixes \cup {Where}

\* WHERE is printed when a comma has been taken back.
WhereAfterCut(prog) ==
    \A k \in DOMAIN prog : prog[k] = Where => k > 1 /\ prog[k - 1] = Cut(1, TRUE)

\* What there is in a call, by its name.
LEMMA CallIs ==
    ASSUME call \in Calls
    PROVE  /\ call.op \in Objects \cup {"sorm_to_string"} => call.valued \in SUBSET Numbers
           /\ call.op \in {"sorm_run_stmt", "create_sql"} => call.text \in Nat
           /\ call.op \in {"sorm_create_index", "sorm_drop_index"} => call.list \in Nat
           /\ call.op \in {"sorm_delete_by", "select"} => call.filter \in Filters
           /\ call.op = "select" =>
                 /\ call.list \in Nat /\ call.tables \in {1, 2}
                 /\ call.tables = 2 => call.join \in {"INNER JOIN", "LEFT JOIN"}
           /\ \A f \in Filters : f.text \in Nat
  <1>1. CallerLens \subseteq Nat /\ MaxItems \in Nat
    BY StatementsAssumption
  <1>2. \A f \in Filters : f.text \in Nat
    <2> SUFFICES ASSUME NEW f \in Filters PROVE f.text \in Nat
      OBVIOUS
    <2>1. CASE f \in [from : {"NULL", "number", "text", "blob"}, text : {0}]
      BY <2>1
    <2>2. CASE f \in [from : {"caller"}, text : CallerLens]
      BY <1>1, <2>2
    <2> QED
      BY <2>1, <2>2 DEF Filters
  <1>3. call.op \in Objects \cup {"sorm_to_string"} => call.valued \in SUBSET Numbers
    BY DEF Calls, Selects, Objects
  <1>4. call.op \in {"sorm_run_stmt", "create_sql"} => call.text \in Nat
    BY <1>1 DEF Calls, Selects
  <1>5. call.op \in {"sorm_create_index", "sorm_drop_index"} => call.list \in Nat
    <2>1. call.op \in {"sorm_create_index", "sorm_drop_index"} =>
             call.list \in 1..MaxItems
      BY DEF Calls, Selects
    <2> QED
      BY <1>1, <2>1
  <1>6. call.op = "select" => call \in Selects
    BY DEF Calls
  <1>7. call.op = "select" =>
           /\ call.list \in Nat /\ call.tables \in {1, 2} /\ call.filter \in Filters
           /\ call.tables = 2 => call.join \in {"INNER JOIN", "LEFT JOIN"}
    <2>1. CASE call \in [op : {"select"}, filter : Filters, list : 0..MaxItems,
                           tables : {1}]
      <3>1. call.list \in 0..MaxItems /\ call.tables = 1 /\ call.filter \in Filters
        BY <2>1
      <3> QED
        BY <1>1, <3>1
    <2>2. CASE call \in [op : {"select"}, filter : {f \in Filters :
                                                     f.from \in {"NULL", "caller"}},
                           list : 0..MaxItems, tables : {2},
                           join : {"INNER JOIN", "LEFT JOIN"}]
      <3>1. /\ call.list \in 0..MaxItems /\ call.tables = 2 /\ call.filter \in Filters
            /\ call.join \in {"INNER JOIN", "LEFT JOIN"}
        BY <2>2
      <3>2. call.list \in Nat
        <4>1. call.list \in 0..MaxItems
          BY <3>1
        <4> QED
          BY <1>1, <4>1
      <3> QED
        BY <3>1, <3>2
    <2> QED
      BY <1>6, <2>1, <2>2 DEF Selects
  <1>8. call.op = "sorm_delete_by" => call.filter \in Filters
    BY DEF Calls, Selects
  <1> QED
    BY <1>2, <1>3, <1>4, <1>5, <1>7, <1>8

\* The prints, and the other steps.
LEMMA StepsAre ==
    /\ \A p \in Seq(Pieces) : Prints(p) \in Rest /\ PrintIn("more", p) \in More
    /\ \A s \in Literals : Repair(s) \in Fixes
    /\ \A n \in Nat, back \in BOOLEAN : Cut(n, back) \in Fixes
    /\ Where \notin Rest /\ Where \notin Fixes /\ Where \notin More
    /\ Where \in Steps
  <1>1. \A p \in Seq(Pieces) : Prints(p) \in Rest /\ PrintIn("more", p) \in More
    BY DEF Prints, PrintIn, Rest, More
  <1>2. \A s \in Literals : Repair(s) \in Fixes
    BY LitIs DEF Repair, Fixes
  <1>3. \A n \in Nat, back \in BOOLEAN : Cut(n, back) \in Fixes
    BY DEF Cut, Fixes
  <1>4. Where.do = "print" /\ Where.room = "whole"
    BY DEF Where, PrintIn
  <1>5. Where \notin Rest /\ Where \notin More
    BY <1>4 DEF Rest, More
  <1>6. Where \notin Fixes
    BY <1>4 DEF Fixes
  <1> QED
    BY <1>1, <1>2, <1>3, <1>5, <1>6 DEF Steps

\* Literal text is a text.
LEMMA LitsAre ==
    /\ Lit(" ") \in Quiet /\ Lit(" (") \in Quiet /\ Lit(" = ") \in Quiet
    /\ Lit(" AND") \in Quiet /\ Lit(" FOREIGN KEY(") \in Quiet
    /\ Lit(" FROM ") \in Quiet /\ Lit(" INTO ") \in Quiet /\ Lit(" ON ") \in Quiet
    /\ Lit(" SET") \in Quiet /\ Lit(" VALUES (") \in Quiet
    /\ Lit(" WHERE ") \in Quiet /\ Lit(" WHERE") \in Quiet /\ Lit(" { ") \in Quiet
    /\ Lit("'") \in Quiet /\ Lit("(") \in Quiet /\ Lit(") REFERENCES ") \in Quiet
    /\ Lit(")") \in Quiet /\ Lit("); ") \in Quiet /\ Lit(",") \in Quiet
    /\ Semicolon \in Pieces /\ Lit("=") \in Quiet /\ Lit("=?") \in Quiet
    /\ Lit("?") \in Quiet /\ Lit("CREATE INDEX ") \in Quiet
    /\ Lit("CREATE INDEX IF NOT EXISTS index_") \in Quiet
    /\ Lit("CREATE TABLE IF NOT EXISTS ") \in Quiet /\ Lit("DELETE FROM ") \in Quiet
    /\ Lit("DROP INDEX index_") \in Quiet /\ Lit("DROP TABLE ") \in Quiet
    /\ Lit("INSERT") \in Quiet /\ Lit("INTEGER") \in Quiet /\ Lit("REPLACE") \in Quiet
    /\ Lit("SELECT ") \in Quiet /\ Lit("UPDATE ") \in Quiet /\ Lit("WHERE ") \in Quiet
    /\ Lit("_index ON ") \in Quiet /\ Lit("null") \in Quiet /\ Lit("}") \in Quiet
    /\ Lit("INNER JOIN") \in Quiet /\ Lit("LEFT JOIN") \in Quiet
    /\ Lit("PRIMARY KEY") \in Quiet /\ Lit("PRIMARY KEY DESC") \in Quiet
    /\ Lit("PRIMARY KEY ASC") \in Quiet /\ Lit("UNIQUE") \in Quiet
    /\ \A p \in Quiet : p \in Pieces
    /\ Lit(" WHERE").n = 6 /\ Lit(",").n = 1 /\ Lit(")").n = 1 /\ Lit(" AND").n = 4
  <1>1. \A s \in Literals : Lit(s) \in Pieces /\ (s # "; " => Lit(s) \in Quiet)
    BY LitIs
  <1>2. Lit(" WHERE").n = 6 /\ Lit(",").n = 1 /\ Lit(")").n = 1 /\ Lit(" AND").n = 4
    BY LiteralLengths DEF Lit, Piece
  <1>3. \A p \in Quiet : p \in Pieces
    BY DEF Quiet
  <1>4. /\ Lit(" ") \in Quiet /\ Lit(" (") \in Quiet /\ Lit(" = ") \in Quiet
        /\ Lit(" AND") \in Quiet /\ Lit(" FOREIGN KEY(") \in Quiet
        /\ Lit(" FROM ") \in Quiet /\ Lit(" INTO ") \in Quiet /\ Lit(" ON ") \in Quiet
        /\ Lit(" SET") \in Quiet /\ Lit(" VALUES (") \in Quiet
        /\ Lit(" WHERE ") \in Quiet /\ Lit(" WHERE") \in Quiet /\ Lit(" { ") \in Quiet
        /\ Lit("'") \in Quiet /\ Lit("(") \in Quiet /\ Lit(") REFERENCES ") \in Quiet
        /\ Lit(")") \in Quiet /\ Lit("); ") \in Quiet /\ Lit(",") \in Quiet
        /\ Semicolon \in Pieces /\ Lit("=") \in Quiet /\ Lit("=?") \in Quiet
    BY ZenonT(60), <1>1 DEF Literals, Semicolon
  <1>5. /\ Lit("?") \in Quiet /\ Lit("CREATE INDEX ") \in Quiet
        /\ Lit("CREATE INDEX IF NOT EXISTS index_") \in Quiet
        /\ Lit("CREATE TABLE IF NOT EXISTS ") \in Quiet /\ Lit("DELETE FROM ") \in Quiet
        /\ Lit("DROP INDEX index_") \in Quiet /\ Lit("DROP TABLE ") \in Quiet
        /\ Lit("INSERT") \in Quiet /\ Lit("INTEGER") \in Quiet
        /\ Lit("REPLACE") \in Quiet /\ Lit("SELECT ") \in Quiet
        /\ Lit("UPDATE ") \in Quiet /\ Lit("WHERE ") \in Quiet
        /\ Lit("_index ON ") \in Quiet /\ Lit("null") \in Quiet /\ Lit("}") \in Quiet
        /\ Lit("INNER JOIN") \in Quiet /\ Lit("LEFT JOIN") \in Quiet
        /\ Lit("PRIMARY KEY") \in Quiet /\ Lit("PRIMARY KEY DESC") \in Quiet
        /\ Lit("PRIMARY KEY ASC") \in Quiet /\ Lit("UNIQUE") \in Quiet
    BY ZenonT(60), <1>1 DEF Literals
  <1> QED
    BY <1>2, <1>3, <1>4, <1>5

Plain == Rest \cup Fixes

\* The prints without a semicolon.
Said == [do : {"print"}, room : {"rest"}, pieces : Seq(Quiet)]

\* Three sequences in a row.
LEMMA Assoc ==
    ASSUME NEW X, NEW a \in Seq(X), NEW b \in Seq(X), NEW c \in Seq(X)
    PROVE  (a \o b) \o c = a \o (b \o c)
  BY ConcatAssociative

\* Texts and programs of a few parts.
LEMMA Parts ==
    ASSUME NEW X
    PROVE  /\ \A a \in X : <<a>> \in Seq(X)
           /\ \A a, b \in X : <<a, b>> \in Seq(X)
           /\ \A a, b, c \in X : <<a, b, c>> \in Seq(X)
           /\ \A a, b, c, d \in X : <<a, b, c, d>> \in Seq(X)
           /\ \A a, b, c, d, e \in X : <<a, b, c, d, e>> \in Seq(X)
  OBVIOUS

\* The same for longer ones.
LEMMA LongParts ==
    ASSUME NEW X, NEW a \in X, NEW b \in X, NEW c \in X, NEW d \in X, NEW e \in X,
           NEW f \in X, NEW g \in X, NEW h \in X
    PROVE  /\ <<a, b, c, d, e, f, g>> \in Seq(X)
           /\ <<a, b, c, d, e, f, g, h>> \in Seq(X)
  OBVIOUS

\* Programs one after the other.
LEMMA Sum2 ==
    ASSUME NEW X, NEW a \in Seq(X), NEW b \in Seq(X)
    PROVE  a \o b \in Seq(X)
  BY ConcatProperties

\* The same for three.
LEMMA Sum3 ==
    ASSUME NEW X, NEW a \in Seq(X), NEW b \in Seq(X), NEW c \in Seq(X)
    PROVE  a \o b \o c \in Seq(X)
  <1>1. a \o b \in Seq(X)
    BY Sum2
  <1> QED
    BY <1>1, Sum2

\* The same for four.
LEMMA Sum4 ==
    ASSUME NEW X, NEW a \in Seq(X), NEW b \in Seq(X), NEW c \in Seq(X), NEW d \in Seq(X)
    PROVE  a \o b \o c \o d \in Seq(X)
  <1>1. a \o b \o c \in Seq(X)
    BY Sum3
  <1> QED
    BY <1>1, Sum2

\* The same for five.
LEMMA Sum5 ==
    ASSUME NEW X, NEW a \in Seq(X), NEW b \in Seq(X), NEW c \in Seq(X), NEW d \in Seq(X),
           NEW e \in Seq(X)
    PROVE  a \o b \o c \o d \o e \in Seq(X)
  <1>1. a \o b \o c \o d \in Seq(X)
    BY Sum4
  <1> QED
    BY <1>1, Sum2

\* A print of a text.
LEMMA PrintsIs ==
    ASSUME NEW p \in Seq(Pieces)
    PROVE  Prints(p) \in Plain
  BY StepsAre DEF Plain

\* A print of a text without a semicolon.
LEMMA PrintsQuiet ==
    ASSUME NEW p \in Seq(Quiet)
    PROVE  Prints(p) \in Said
  BY DEF Prints, PrintIn, Said

\* Texts and prints without a semicolon are texts and prints.
LEMMA QuietAre ==
    /\ \A t \in Seq(Quiet) : t \in Seq(Pieces)
    /\ \A p \in Seq(Said) : p \in Seq(Plain)
  <1>1. Quiet \subseteq Pieces
    BY DEF Quiet
  <1>2. \A t \in Seq(Quiet) : t \in Seq(Pieces)
    BY <1>1, SeqMonotonic
  <1>3. Said \subseteq Plain
    BY <1>2 DEF Said, Plain, Rest
  <1> QED
    BY <1>2, <1>3, SeqMonotonic

\* The texts that are printed for each column.
LEMMA ColumnTexts ==
    ASSUME NEW j \in Numbers
    PROVE  /\ <<Lit(" "), Col(j), Lit(",")>> \in Seq(Pieces)
           /\ <<Lit(" "), Lit("?"), Lit(",")>> \in Seq(Pieces)
           /\ <<Lit(" "), Col(j), Lit("=?"), Lit(" AND")>> \in Seq(Pieces)
           /\ <<Lit(" "), Col(j), Lit("=?"), Lit(",")>> \in Seq(Pieces)
           /\ <<Lit(" "), Col(j), Lit(" "), Lit("INTEGER")>> \in Seq(Pieces)
           /\ Constraint(j) \in Seq(Pieces) /\ ForeignKey(j) \in Seq(Pieces)
           /\ <<Semicolon, Lit("CREATE INDEX "), Col(j), Lit("_index ON "), Table(1),
                Lit("("), Col(j), Lit(")")>> \in Seq(Pieces)
  <1>1. /\ Col(j) \in Pieces /\ Table(1) \in Pieces /\ Table(2) \in Pieces
        /\ Lit(" ") \in Pieces /\ Lit(",") \in Pieces /\ Lit("?") \in Pieces
        /\ Lit("=?") \in Pieces /\ Lit(" AND") \in Pieces /\ Lit("INTEGER") \in Pieces
        /\ Semicolon \in Pieces /\ Lit("CREATE INDEX ") \in Pieces
        /\ Lit("_index ON ") \in Pieces /\ Lit("(") \in Pieces /\ Lit(")") \in Pieces
        /\ Lit(" FOREIGN KEY(") \in Pieces /\ Lit(") REFERENCES ") \in Pieces
    BY NamesAre, LitsAre
  <1>2. Constraint(j) \in Seq(Pieces)
    <2>1. CASE j \in Unique
      <3>1. Constraints[j] \in Literals
        BY <2>1, StatementsAssumption DEF Unique, Literals
      <3>2. Lit(Constraints[j]) \in Pieces
        BY <3>1, LitIs
      <3> QED
        BY <1>1, <2>1, <3>2, Parts DEF Constraint
    <2>2. CASE j \notin Unique
      BY <1>1, <2>2, Parts DEF Constraint
    <2> QED
      BY <2>1, <2>2
  <1>3. ForeignKey(j) \in Seq(Pieces)
    BY <1>1, LongParts DEF ForeignKey
  <1>4. <<Semicolon, Lit("CREATE INDEX "), Col(j), Lit("_index ON "), Table(1),
          Lit("("), Col(j), Lit(")")>> \in Seq(Pieces)
    BY <1>1, LongParts
  <1> QED
    BY <1>1, <1>2, <1>3, <1>4, Parts

\* sorm_save and sorm_replace.
LEMMA SaveProgramIs ==
    ASSUME NEW valued \in SUBSET Numbers, NEW verb \in {"INSERT", "REPLACE"}
    PROVE  SaveProgram(verb, valued) \in Seq(Plain)
  <1> DEFINE F == [j \in Numbers |-> Prints(<<Lit(" "), Col(j), Lit(",")>>)]
             G == [j \in Numbers |-> Prints(<<Lit(" "), Lit("?"), Lit(",")>>)]
             f == Each(valued, LAMBDA j : Prints(<<Lit(" "), Col(j), Lit(",")>>))
             g == Each(valued, LAMBDA j : Prints(<<Lit(" "), Lit("?"), Lit(",")>>))
             a == <<Prints(<<Lit(verb), Lit(" INTO "), Table(1), Lit(" (")>>)>>
             b == <<Repair(")"), Prints(<<Lit(" VALUES (")>>)>>
             c == <<Repair(")")>>
  <1>1. F \in [Numbers -> Plain] /\ G \in [Numbers -> Plain]
    BY ColumnTexts, PrintsIs
  <1>2. f \in Seq(Plain) /\ g \in Seq(Plain)
    <2>1. /\ f = [k \in DOMAIN InOrder(valued) |-> F[InOrder(valued)[k]]]
          /\ g = [k \in DOMAIN InOrder(valued) |-> G[InOrder(valued)[k]]]
      BY InOrderIs DEF Each
    <2> HIDE DEF f, g, F, G
    <2> QED
      BY <1>1, <2>1, EachIs
  <1>3. a \in Seq(Plain) /\ b \in Seq(Plain) /\ c \in Seq(Plain)
    <2>1. /\ Lit(verb) \in Pieces /\ Lit(" INTO ") \in Pieces /\ Table(1) \in Pieces
          /\ Lit(" (") \in Pieces /\ Lit(" VALUES (") \in Pieces /\ ")" \in Literals
      BY LitsAre, NamesAre DEF Literals
    <2>2. /\ <<Lit(verb), Lit(" INTO "), Table(1), Lit(" (")>> \in Seq(Pieces)
          /\ <<Lit(" VALUES (")>> \in Seq(Pieces)
      BY <2>1, Parts
    <2>3. /\ Prints(<<Lit(verb), Lit(" INTO "), Table(1), Lit(" (")>>) \in Plain
          /\ Prints(<<Lit(" VALUES (")>>) \in Plain
      BY <2>2, PrintsIs
    <2>4. Repair(")") \in Plain
      BY <2>1, StepsAre DEF Plain
    <2> QED
      BY <2>3, <2>4, Parts
  <1>4. SaveProgram(verb, valued) = a \o f \o b \o g \o c
    BY DEF SaveProgram
  <1> HIDE DEF a, b, c, f, g
  <1>5. a \o f \o b \o g \o c \in Seq(Plain)
    BY <1>2, <1>3, Sum5
  <1> QED
    BY <1>4, <1>5

\* sorm_delete.
LEMMA DeleteProgramIs ==
    ASSUME NEW valued \in SUBSET Numbers
    PROVE  DeleteProgram(valued) \in Seq(Plain)
  <1> DEFINE F == [j \in Numbers |->
                      Prints(<<Lit(" "), Col(j), Lit("=?"), Lit(" AND")>>)]
             f == Each(valued, LAMBDA j :
                          Prints(<<Lit(" "), Col(j), Lit("=?"), Lit(" AND")>>))
             a == <<Prints(<<Lit("DELETE FROM "), Table(1), Lit(" WHERE ")>>)>>
             b == <<Cut(4, FALSE)>>
  <1>1. F \in [Numbers -> Plain]
    BY ColumnTexts, PrintsIs
  <1>2. f \in Seq(Plain)
    <2>1. f = [k \in DOMAIN InOrder(valued) |-> F[InOrder(valued)[k]]]
      BY InOrderIs DEF Each
    <2> HIDE DEF f, F
    <2> QED
      BY <1>1, <2>1, EachIs
  <1>3. a \in Seq(Plain) /\ b \in Seq(Plain)
    <2>1. /\ Lit("DELETE FROM ") \in Pieces /\ Table(1) \in Pieces
          /\ Lit(" WHERE ") \in Pieces
      BY LitsAre, NamesAre
    <2>2. Prints(<<Lit("DELETE FROM "), Table(1), Lit(" WHERE ")>>) \in Plain
      BY <2>1, Parts, PrintsIs
    <2>3. Cut(4, FALSE) \in Plain
      BY StepsAre DEF Plain
    <2> QED
      BY <2>2, <2>3, Parts
  <1>4. DeleteProgram(valued) = a \o f \o b
    BY DEF DeleteProgram
  <1> HIDE DEF a, b, f
  <1>5. a \o f \o b \in Seq(Plain)
    BY <1>2, <1>3, Sum3
  <1> QED
    BY <1>4, <1>5

\* sorm_update: all steps but the print of WHERE, which follows a cut, are plain.
LEMMA UpdateProgramIs ==
    ASSUME NEW valued \in SUBSET Numbers
    PROVE  /\ UpdateProgram(valued) \in Seq(Plain \cup {Where})
           /\ WhereAfterCut(UpdateProgram(valued))
  <1> DEFINE F == [j \in Numbers |-> Prints(<<Lit(" "), Col(j), Lit("=?"), Lit(",")>>)]
             G == [j \in Numbers |->
                      Prints(<<Lit(" "), Col(j), Lit("=?"), Lit(" AND")>>)]
             keys == valued \cap Unique
             f == Each(valued, LAMBDA j :
                          Prints(<<Lit(" "), Col(j), Lit("=?"), Lit(",")>>))
             g == Each(keys, LAMBDA j :
                          Prints(<<Lit(" "), Col(j), Lit("=?"), Lit(" AND")>>))
             a == <<Prints(<<Lit("UPDATE "), Table(1), Lit(" SET")>>)>>
             b == <<Cut(1, TRUE), PrintIn("whole", <<Lit(" WHERE")>>)>>
             c == <<Cut(4, FALSE)>>
             x == a \o f
             y == g \o c
             X == Plain \cup {Where}
  <1>1. F \in [Numbers -> Plain] /\ G \in [Numbers -> Plain]
    BY ColumnTexts, PrintsIs
  <1>2. f \in Seq(Plain) /\ g \in Seq(Plain)
    <2>1. keys \in SUBSET Numbers
      OBVIOUS
    <2>2. /\ f = [k \in DOMAIN InOrder(valued) |-> F[InOrder(valued)[k]]]
          /\ g = [k \in DOMAIN InOrder(keys) |-> G[InOrder(keys)[k]]]
      BY <2>1, InOrderIs DEF Each
    <2> HIDE DEF f, g, F, G, keys
    <2> QED
      BY <1>1, <2>1, <2>2, EachIs
  <1>3. a \in Seq(Plain) /\ c \in Seq(Plain)
    <2>1. /\ Lit("UPDATE ") \in Pieces /\ Table(1) \in Pieces /\ Lit(" SET") \in Pieces
      BY LitsAre, NamesAre
    <2>2. Prints(<<Lit("UPDATE "), Table(1), Lit(" SET")>>) \in Plain
      BY <2>1, Parts, PrintsIs
    <2>3. Cut(4, FALSE) \in Plain
      BY StepsAre DEF Plain
    <2> QED
      BY <2>2, <2>3, Parts
  <1>4. Cut(1, TRUE) \in Plain /\ Where \notin Plain
    BY StepsAre DEF Plain
  <1>5. b = <<Cut(1, TRUE), Where>>
    BY DEF Where
  <1>6. UpdateProgram(valued) = a \o f \o b \o g \o c
    BY DEF UpdateProgram
  <1> HIDE DEF a, b, c, f, g
  <1>7. x \in Seq(Plain) /\ y \in Seq(Plain)
    BY <1>2, <1>3, Sum2
  <1>8. Cut(1, TRUE) # Where
    BY <1>4
  <1> DEFINE q == Cut(1, TRUE)
  <1>9. q \in Plain /\ q # Where
    BY <1>4, <1>8
  <1> HIDE DEF q
  <1>10. b \in Seq(X) /\ Len(b) = 2 /\ b[1] = q /\ b[2] = Where
    <2>1. b = <<q, Where>> /\ q \in X /\ Where \in X
      BY <1>5, <1>9 DEF q
    <2>2. <<q, Where>> \in Seq(X)
      BY <2>1, Parts
    <2> QED
      BY <2>1, <2>2
  <1>11. Plain \subseteq X
    OBVIOUS
  <1> HIDE DEF X
  <1>12. /\ a \in Seq(X) /\ f \in Seq(X) /\ g \in Seq(X) /\ c \in Seq(X)
         /\ x \in Seq(X) /\ y \in Seq(X)
    <2> HIDE DEF x, y
    <2> QED
      BY <1>2, <1>3, <1>7, <1>11, SeqMonotonic
  <1>13. a \o f \o b \o g \o c = (x \o b) \o y /\ x \o b \in Seq(X)
    <2>1. x \o b \in Seq(X)
      BY <1>10, <1>12, Sum2
    <2> DEFINE z == x \o b
    <2>2. z \o (g \o c) = (z \o g) \o c
      <3> HIDE DEF z
      <3>1. z \in Seq(X) /\ g \in Seq(X) /\ c \in Seq(X)
        BY <1>12, <2>1 DEF z
      <3> HIDE DEF g, c
      <3> QED
        BY SMTT(60), <3>1, Assoc
    <2> QED
      BY <2>1, <2>2
  <1> HIDE DEF x, y
  <1> DEFINE p == (x \o b) \o y
             m == Len(x)
  <1>14. /\ p \in Seq(X) /\ m \in Nat /\ Len(p) = m + 2 + Len(y) /\ Len(y) \in Nat
         /\ \A k \in 1..m : p[k] = x[k]
         /\ p[m + 1] = q /\ p[m + 2] = Where
         /\ \A k \in 1..Len(y) : p[m + 2 + k] = y[k]
    <2> DEFINE w == x \o b
    <2>1. /\ w \in Seq(X) /\ Len(w) = m + 2 /\ m \in Nat /\ Len(y) \in Nat
          /\ \A k \in 1..m : w[k] = x[k]
          /\ w[m + 1] = q /\ w[m + 2] = Where
      <3>1. /\ w \in Seq(X) /\ Len(w) = Len(x) + Len(b)
            /\ \A k \in 1..(Len(x) + Len(b)) :
                   w[k] = IF k <= Len(x) THEN x[k] ELSE b[k - Len(x)]
        BY <1>10, <1>12, ConcatProperties
      <3>2. m \in Nat /\ Len(y) \in Nat
        BY <1>12
      <3>3. (m + 1) - m = 1 /\ (m + 2) - m = 2 /\ m + 1 \in 1..(m + 2)
            /\ m + 2 \in 1..(m + 2) /\ ~(m + 1 <= m) /\ ~(m + 2 <= m)
        BY <3>2
      <3> HIDE DEF w
      <3> QED
        BY <1>10, <3>1, <3>2, <3>3
    <2> HIDE DEF w
    <2>2. /\ w \o y \in Seq(X) /\ Len(w \o y) = Len(w) + Len(y)
          /\ \A k \in 1..(Len(w) + Len(y)) :
                 (w \o y)[k] = IF k <= Len(w) THEN w[k] ELSE y[k - Len(w)]
      BY <1>12, <2>1, ConcatProperties
    <2>3. p = w \o y
      BY DEF w
    <2> HIDE DEF p, m
    <2>4. /\ p \in Seq(X) /\ Len(p) = m + 2 + Len(y)
          /\ \A k \in 1..(m + 2 + Len(y)) :
                 p[k] = IF k <= m + 2 THEN w[k] ELSE y[k - (m + 2)]
      BY <2>1, <2>2, <2>3
    <2> QED
      BY <2>1, <2>4
  <1> HIDE DEF p, m
  <1>15. WhereAfterCut(p)
    <2> SUFFICES ASSUME NEW k \in 1..Len(p), p[k] = Where
                 PROVE  k > 1 /\ p[k - 1] = q
      <3>1. DOMAIN p = 1..Len(p)
        BY <1>14
      <3> QED
        BY <3>1 DEF WhereAfterCut, q
    <2>1. CASE k \in 1..m
      <3>1. x[k] \in Plain
        BY <1>7, <2>1 DEF m
      <3> QED
        BY <1>4, <1>14, <2>1, <3>1
    <2>2. CASE k = m + 1
      BY <1>9, <1>14, <2>2
    <2>3. CASE k = m + 2
      <3>1. k > 1 /\ k - 1 = m + 1
        BY <1>14, <2>3
      <3> QED
        BY <1>14, <3>1
    <2>4. CASE k > m + 2
      <3> DEFINE l == k - (m + 2)
      <3>1. l \in 1..Len(y) /\ k = m + 2 + l
        BY <1>14, <2>4
      <3> HIDE DEF l
      <3>2. y[l] \in Plain /\ p[k] = y[l]
        BY <1>7, <1>14, <3>1
      <3> QED
        BY <1>4, <3>2
    <2> QED
      BY <1>14, <2>1, <2>2, <2>3, <2>4
  <1> QED
    BY <1>6, <1>13, <1>14, <1>15 DEF p, X

\* sorm_create_table.
LEMMA CreateTableProgramIs ==
    ASSUME NEW flags
    PROVE  CreateTableProgram(flags) \in Seq(Plain)
  <1> DEFINE Define(j) == <<Prints(<<Lit(" "), Col(j), Lit(" "), Lit("INTEGER")>>),
                            Prints(Constraint(j))>>
             Index(j) == Prints(<<Semicolon, Lit("CREATE INDEX "), Col(j),
                                  Lit("_index ON "), Table(1), Lit("("), Col(j),
                                  Lit(")")>>)
             F == [j \in Numbers |-> Define(j)]
             G == [j \in Numbers |-> Prints(ForeignKey(j))]
             H == [j \in Numbers |-> Index(j)]
             f == Each(Numbers, LAMBDA j : Define(j))
             g == Each(Foreign, LAMBDA j : Prints(ForeignKey(j)))
             h == Each(Foreign, LAMBDA j : Index(j))
             a == <<Prints(<<Lit("CREATE TABLE IF NOT EXISTS "), Table(1), Lit("(")>>)>>
             b == FlattenSeq(f)
             c == IF flags THEN g ELSE <<>>
             d == <<Repair(")")>>
  <1>1. F \in [Numbers -> Seq(Plain)] /\ G \in [Numbers -> Plain] /\ H \in [Numbers -> Plain]
    <2> SUFFICES ASSUME NEW j \in Numbers
                 PROVE  /\ Define(j) \in Seq(Plain) /\ Prints(ForeignKey(j)) \in Plain
                        /\ Index(j) \in Plain
      OBVIOUS
    <2>1. Prints(ForeignKey(j)) \in Plain /\ Index(j) \in Plain
      BY ColumnTexts, PrintsIs
    <2>2. /\ Prints(<<Lit(" "), Col(j), Lit(" "), Lit("INTEGER")>>) \in Plain
          /\ Prints(Constraint(j)) \in Plain
      BY ColumnTexts, PrintsIs
    <2>3. Define(j) \in Seq(Plain)
      BY <2>2, Parts
    <2> QED
      BY <2>1, <2>3
  <1>2. Foreign \in SUBSET Numbers /\ Numbers \in SUBSET Numbers
    BY StatementsAssumption
  <1>3. f \in Seq(Seq(Plain)) /\ g \in Seq(Plain) /\ h \in Seq(Plain)
    <2>1. /\ f = [k \in DOMAIN InOrder(Numbers) |-> F[InOrder(Numbers)[k]]]
          /\ g = [k \in DOMAIN InOrder(Foreign) |-> G[InOrder(Foreign)[k]]]
          /\ h = [k \in DOMAIN InOrder(Foreign) |-> H[InOrder(Foreign)[k]]]
      <3> HIDE DEF Define, Index
      <3>1. \A k \in DOMAIN InOrder(Numbers) : InOrder(Numbers)[k] \in Numbers
        BY <1>2, InOrderIs
      <3>2. \A k \in DOMAIN InOrder(Foreign) : InOrder(Foreign)[k] \in Numbers
        BY <1>2, InOrderIs
      <3> QED
        BY <3>1, <3>2 DEF Each
    <2> HIDE DEF f, g, h, F, G, H
    <2>2. f \in Seq(Seq(Plain))
      BY <1>1, <1>2, <2>1, EachIs
    <2>3. g \in Seq(Plain)
      BY <1>1, <1>2, <2>1, EachIs
    <2>4. h \in Seq(Plain)
      BY <1>1, <1>2, <2>1, EachIs
    <2> QED
      BY <2>2, <2>3, <2>4
  <1>4. a \in Seq(Plain) /\ d \in Seq(Plain)
    <2>1. /\ Lit("CREATE TABLE IF NOT EXISTS ") \in Pieces /\ Table(1) \in Pieces
          /\ Lit("(") \in Pieces /\ ")" \in Literals
      BY LitsAre, NamesAre DEF Literals
    <2>2. Prints(<<Lit("CREATE TABLE IF NOT EXISTS "), Table(1), Lit("(")>>) \in Plain
      BY <2>1, Parts, PrintsIs
    <2>3. Repair(")") \in Plain
      BY <2>1, StepsAre DEF Plain
    <2> QED
      BY <2>2, <2>3, Parts
  <1>5. b \in Seq(Plain) /\ c \in Seq(Plain)
    <2> HIDE DEF f, g
    <2>1. b \in Seq(Plain)
      BY <1>3, FlattenType
    <2>2. <<>> \in Seq(Plain)
      OBVIOUS
    <2>3. CASE flags
      BY <1>3, <2>1, <2>3
    <2>4. CASE ~flags
      BY <2>1, <2>2, <2>4
    <2> QED
      BY <2>3, <2>4
  <1>6. CreateTableProgram(flags) = a \o b \o c \o d \o h
    BY DEF CreateTableProgram
  <1> HIDE DEF a, b, c, d, h
  <1>7. a \o b \o c \o d \o h \in Seq(Plain)
    BY <1>3, <1>4, <1>5, Sum5
  <1> QED
    BY <1>6, <1>7

\* sorm_to_string.
LEMMA ToStringProgramIs ==
    ASSUME NEW valued
    PROVE  ToStringProgram(valued) \in Seq(Rest \cup More)
  <1> DEFINE Shown(j) == PrintIn("more", <<Col(j), Lit("("),
                             IF j \in valued THEN Caller(1) ELSE Lit("null"),
                             Lit("); ")>>)
             F == [j \in Numbers |-> Shown(j)]
             f == Each(Numbers, LAMBDA j : Shown(j))
             a == <<Prints(<<Table(1), Lit(" { ")>>)>>
             b == <<PrintIn("more", <<Lit("}")>>)>>
             X == Rest \cup More
  <1>1. /\ \A p \in Seq(Pieces) : PrintIn("more", p) \in X /\ Prints(p) \in X
    BY StepsAre
  <1> HIDE DEF X
  <1>2. F \in [Numbers -> X]
    <2> SUFFICES ASSUME NEW j \in Numbers PROVE Shown(j) \in X
      OBVIOUS
    <2> DEFINE v == IF j \in valued THEN Caller(1) ELSE Lit("null")
    <2>1. /\ Col(j) \in Pieces /\ Lit("(") \in Pieces /\ v \in Pieces
          /\ Lit("); ") \in Pieces
      BY NamesAre, LitsAre
    <2> HIDE DEF v
    <2>2. <<Col(j), Lit("("), v, Lit("); ")>> \in Seq(Pieces)
      BY <2>1, Parts
    <2> QED
      BY <1>1, <2>2 DEF v
  <1>3. f \in Seq(X)
    <2>1. \A k \in DOMAIN InOrder(Numbers) : InOrder(Numbers)[k] \in Numbers
      BY InOrderIs
    <2>2. f = [k \in DOMAIN InOrder(Numbers) |-> F[InOrder(Numbers)[k]]]
      <3> HIDE DEF Shown
      <3> QED
        BY <2>1 DEF Each
    <2> HIDE DEF f, F
    <2> QED
      BY <1>2, <2>2, EachIs
  <1>4. a \in Seq(X) /\ b \in Seq(X)
    <2>1. Table(1) \in Pieces /\ Lit(" { ") \in Pieces /\ Lit("}") \in Pieces
      BY NamesAre, LitsAre
    <2>2. <<Table(1), Lit(" { ")>> \in Seq(Pieces) /\ <<Lit("}")>> \in Seq(Pieces)
      BY <2>1, Parts
    <2>3. /\ Prints(<<Table(1), Lit(" { ")>>) \in X
          /\ PrintIn("more", <<Lit("}")>>) \in X
      BY <1>1, <2>2
    <2> QED
      BY <2>3, Parts
  <1>5. ToStringProgram(valued) = a \o f \o b
    BY DEF ToStringProgram
  <1> HIDE DEF a, b, f
  <1>6. a \o f \o b \in Seq(X)
    BY <1>3, <1>4, Sum3
  <1> QED
    BY <1>5, <1>6 DEF X

\* A filter of a column or of the caller is a text.
LEMMA FilterIs ==
    ASSUME call \in Calls, filter \in Seq(Quiet), call.op \in {"sorm_delete_by", "select"}
    PROVE  FilterPieces \in Seq(Quiet)
  <1>1. call.filter.text \in Nat
    BY CallIs
  <1>2. Caller(call.filter.text) \in Quiet
    BY <1>1, NamesAre
  <1>3. <<Caller(call.filter.text)>> \in Seq(Quiet)
    BY <1>2, Parts
  <1> QED
    BY <1>3 DEF FilterPieces

\* sorm_delete_by.
LEMMA DeleteByProgramIs ==
    ASSUME call \in Calls, filter \in Seq(Quiet), call.op = "sorm_delete_by"
    PROVE  DeleteByProgram \in Seq(Said)
  <1> DEFINE w == <<Lit("WHERE ")>>
             a == <<Prints(<<Lit("DELETE FROM "), Table(1), Lit(" ")>>)>>
             b == <<Prints(w \o FilterPieces)>>
             c == IF call.filter.from = "NULL" THEN <<>> ELSE b
  <1>1. /\ Lit("DELETE FROM ") \in Quiet /\ Table(1) \in Quiet
        /\ Lit(" ") \in Quiet /\ Lit("WHERE ") \in Quiet
    BY LitsAre, NamesAre
  <1>2. Prints(<<Lit("DELETE FROM "), Table(1), Lit(" ")>>) \in Said
    BY <1>1, Parts, PrintsQuiet
  <1>3. w \in Seq(Quiet)
    BY <1>1, Parts
  <1>4. a \in Seq(Said)
    BY <1>2, Parts
  <1>5. w \o FilterPieces \in Seq(Quiet)
    <2> HIDE DEF w
    <2> QED
      BY <1>3, FilterIs, Sum2
  <1>6. Prints(w \o FilterPieces) \in Said
    BY <1>5, PrintsQuiet
  <1>7. b \in Seq(Said)
    <2> HIDE DEF w
    <2> QED
      BY <1>6, Parts
  <1>8. DeleteByProgram = a \o c
    BY DEF DeleteByProgram
  <1> HIDE DEF a, b
  <1>9. c \in Seq(Said)
    BY <1>7
  <1> HIDE DEF c
  <1> QED
    BY <1>4, <1>8, <1>9, Sum2

\* The selects.
LEMMA SelectProgramIs ==
    ASSUME call \in Calls, filter \in Seq(Quiet), call.op = "select"
    PROVE  SelectProgram \in Seq(Said)
  <1> DEFINE w == <<Lit(" WHERE ")>>
             a == <<Prints(<<Lit("SELECT "), List(call.list), Lit(" FROM "), Table(1)>>)>>
             d == <<Prints(<<Lit(" "), Lit(call.join), Lit(" "), Table(2), Lit(" ON "),
                             Caller(NameLength), Lit("="), Caller(NameLength)>>)>>
             e == IF call.tables = 1 THEN <<>> ELSE d
             b == <<Prints(w \o FilterPieces)>>
             c == IF call.filter.from = "NULL" THEN <<>> ELSE b
  <1>1. /\ Lit("SELECT ") \in Quiet /\ Table(1) \in Quiet /\ Table(2) \in Quiet
        /\ Lit(" FROM ") \in Quiet /\ Lit(" ") \in Quiet /\ Lit(" ON ") \in Quiet
        /\ Lit("=") \in Quiet /\ Lit(" WHERE ") \in Quiet
        /\ Caller(NameLength) \in Quiet
    BY LitsAre, NamesAre
  <1>2. call.list \in Nat /\ call.tables \in {1, 2}
        /\ (call.tables = 2 => call.join \in {"INNER JOIN", "LEFT JOIN"})
    BY CallIs
  <1>3. List(call.list) \in Quiet
    BY <1>2, NamesAre
  <1>4. a \in Seq(Said)
    <2> DEFINE l == List(call.list)
    <2>1. l \in Quiet
      BY <1>3
    <2> HIDE DEF l
    <2>2. <<Lit("SELECT "), l, Lit(" FROM "), Table(1)>> \in Seq(Quiet)
      BY <1>1, <2>1, Parts
    <2>3. Prints(<<Lit("SELECT "), l, Lit(" FROM "), Table(1)>>) \in Said
      BY <2>2, PrintsQuiet
    <2> QED
      BY <2>3, Parts DEF l
  <1>5. e \in Seq(Said)
    <2>1. CASE call.tables = 1
      <3> HIDE DEF d
      <3> QED
        BY <2>1
    <2>2. CASE call.tables # 1
      <3> DEFINE l == Lit(call.join)
      <3>1. call.join \in {"INNER JOIN", "LEFT JOIN"}
        BY <1>2, <2>2
      <3>2. l \in Quiet
        BY <3>1, LitsAre
      <3> HIDE DEF l
      <3>3. <<Lit(" "), l, Lit(" "), Table(2), Lit(" ON "), Caller(NameLength), Lit("="),
              Caller(NameLength)>> \in Seq(Quiet)
        BY <1>1, <3>2, LongParts
      <3>4. Prints(<<Lit(" "), l, Lit(" "), Table(2), Lit(" ON "), Caller(NameLength),
                     Lit("="), Caller(NameLength)>>) \in Said
        BY <3>3, PrintsQuiet
      <3>5. d \in Seq(Said)
        BY <3>4, Parts DEF l
      <3> HIDE DEF d
      <3> QED
        BY <2>2, <3>5
    <2> QED
      BY <2>1, <2>2
  <1>6. w \in Seq(Quiet)
    BY <1>1, Parts
  <1>7. w \o FilterPieces \in Seq(Quiet)
    <2> HIDE DEF w
    <2> QED
      BY <1>6, FilterIs, Sum2
  <1>8. b \in Seq(Said)
    <2>1. Prints(w \o FilterPieces) \in Said
      BY <1>7, PrintsQuiet
    <2> HIDE DEF w
    <2> QED
      BY <2>1, Parts
  <1>9. SelectProgram = a \o e \o c
    BY DEF SelectProgram
  <1> HIDE DEF a, b, e
  <1>10. c \in Seq(Said)
    BY <1>8
  <1> HIDE DEF c
  <1> QED
    BY <1>4, <1>5, <1>9, <1>10, Sum3

\* sorm_create_index and sorm_drop_index.
LEMMA IndexProgramIs ==
    ASSUME call \in Calls, call.op \in {"sorm_create_index", "sorm_drop_index"}
    PROVE  IndexProgram \in Seq(Said)
  <1> DEFINE l == List(call.list)
  <1>1. l \in Quiet
    <2>1. call.list \in Nat
      BY CallIs
    <2> QED
      BY <2>1, NamesAre
  <1>2. IndexProgram =
           IF call.op = "sorm_create_index"
           THEN <<Prints(<<Lit("CREATE INDEX IF NOT EXISTS index_"), l, Lit(" ON "),
                           Table(1), Lit("("), l, Lit(")")>>)>>
           ELSE <<Prints(<<Lit("DROP INDEX index_"), l>>)>>
    BY DEF IndexProgram
  <1>3. /\ Lit("CREATE INDEX IF NOT EXISTS index_") \in Quiet /\ Lit(" ON ") \in Quiet
        /\ Table(1) \in Quiet /\ Lit("(") \in Quiet /\ Lit(")") \in Quiet
        /\ Lit("DROP INDEX index_") \in Quiet
    BY LitsAre, NamesAre
  <1> HIDE DEF l
  <1>4. <<Lit("CREATE INDEX IF NOT EXISTS index_"), l, Lit(" ON "), Table(1), Lit("("), l,
          Lit(")")>> \in Seq(Quiet)
    BY <1>1, <1>3, LongParts
  <1>5. <<Lit("DROP INDEX index_"), l>> \in Seq(Quiet)
    BY <1>1, <1>3, Parts
  <1>6. /\ Prints(<<Lit("CREATE INDEX IF NOT EXISTS index_"), l, Lit(" ON "), Table(1),
                    Lit("("), l, Lit(")")>>) \in Said
        /\ Prints(<<Lit("DROP INDEX index_"), l>>) \in Said
    BY <1>4, <1>5, PrintsQuiet
  <1>7. /\ <<Prints(<<Lit("CREATE INDEX IF NOT EXISTS index_"), l, Lit(" ON "), Table(1),
                      Lit("("), l, Lit(")")>>)>> \in Seq(Said)
        /\ <<Prints(<<Lit("DROP INDEX index_"), l>>)>> \in Seq(Said)
    BY <1>6, Parts
  <1> QED
    BY <1>2, <1>7

\* The program of every call.
LEMMA ProgramIs ==
    ASSUME call \in Calls, filter \in Seq(Quiet)
    PROVE  /\ call.op = "sorm_update" =>
                 Program \in Seq(Plain \cup {Where}) /\ WhereAfterCut(Program)
           /\ call.op = "sorm_to_string" => Program \in Seq(Rest \cup More)
           /\ call.op \notin {"sorm_update", "sorm_to_string"} => Program \in Seq(Plain)
           /\ call.op \notin Objects \cup {"sorm_create_table", "sorm_to_string"} =>
                 Program \in Seq(Said)
  <1>1. CASE call.op = "sorm_update"
    <2>1. Program = UpdateProgram(call.valued) /\ call.valued \in SUBSET Numbers
      BY <1>1, CallIs DEF Program, Objects
    <2> QED
      BY <1>1, <2>1, UpdateProgramIs DEF Objects
  <1>2. CASE call.op = "sorm_to_string"
    <2>1. Program = ToStringProgram(call.valued)
      BY <1>2 DEF Program
    <2> QED
      BY <1>2, <2>1, ToStringProgramIs
  <1>3. CASE call.op \in {"sorm_save", "sorm_replace"}
    <2> DEFINE verb == IF call.op = "sorm_save" THEN "INSERT" ELSE "REPLACE"
    <2>1. Program = SaveProgram(verb, call.valued) /\ call.valued \in SUBSET Numbers
      BY <1>3, CallIs DEF Program, Objects
    <2>2. verb \in {"INSERT", "REPLACE"}
      OBVIOUS
    <2> HIDE DEF verb
    <2>3. SaveProgram(verb, call.valued) \in Seq(Plain)
      BY <2>1, <2>2, SaveProgramIs
    <2> QED
      BY <1>3, <2>1, <2>3 DEF Objects
  <1>4. CASE call.op = "sorm_delete"
    <2>1. Program = DeleteProgram(call.valued) /\ call.valued \in SUBSET Numbers
      BY <1>4, CallIs DEF Program, Objects
    <2> QED
      BY <1>4, <2>1, DeleteProgramIs DEF Objects
  <1>5. CASE call.op = "sorm_create_table"
    <2>1. Program = CreateTableProgram(call.flags)
      BY <1>5 DEF Program
    <2> QED
      BY <1>5, <2>1, CreateTableProgramIs
  <1>6. CASE call.op = "sorm_delete_table"
    <2>1. Program = <<Prints(<<Lit("DROP TABLE "), Table(1)>>)>>
      BY <1>6 DEF Program
    <2>2. Prints(<<Lit("DROP TABLE "), Table(1)>>) \in Said
      BY LitsAre, NamesAre, Parts, PrintsQuiet
    <2>3. <<Prints(<<Lit("DROP TABLE "), Table(1)>>)>> \in Seq(Said)
      BY <2>2, Parts
    <2> QED
      BY <1>6, <2>1, <2>3, QuietAre
  <1>7. CASE call.op \in {"sorm_create_index", "sorm_drop_index"}
    <2>1. Program = IndexProgram
      BY <1>7 DEF Program
    <2> QED
      BY <1>7, <2>1, IndexProgramIs, QuietAre
  <1>8. CASE call.op = "sorm_delete_by"
    <2>1. Program = DeleteByProgram
      BY <1>8 DEF Program
    <2> QED
      BY <1>8, <2>1, DeleteByProgramIs, QuietAre
  <1>9. CASE call.op = "select"
    <2>1. Program = SelectProgram
      BY <1>9 DEF Program
    <2> QED
      BY <1>9, <2>1, SelectProgramIs, QuietAre
  <1>10. CASE call.op \notin {"sorm_update", "sorm_to_string", "sorm_save", "sorm_replace",
                              "sorm_delete", "sorm_create_table", "sorm_delete_table",
                              "sorm_create_index", "sorm_drop_index", "sorm_delete_by",
                              "select"}
    <2>1. Program = <<>>
      BY <1>10 DEF Program
    <2> QED
      BY <1>10, <2>1
  <1> QED
    BY <1>1, <1>2, <1>3, <1>4, <1>5, <1>6, <1>7, <1>8, <1>9, <1>10

-----------------------------------------------------------------------------
(* No print writes past the buffer, but for the two that are known.        *)

\* WHERE comes after a cut, or it is next and the cut has made room for a byte.
WhereHasRoom ==
    /\ \A k \in 2..Len(program) : program[k] = Where => program[k - 1] = Cut(1, TRUE)
    /\ program # <<>> /\ program[1] = Where => offset < max

\* Which prints a call still has to do.
Running ==
    /\ call.op = "sorm_update" => program \in Seq(Plain \cup {Where}) /\ WhereHasRoom
    /\ call.op = "sorm_to_string" => program \in Seq(Rest \cup More)
    /\ call.op \notin {"sorm_update", "sorm_to_string"} => program \in Seq(Plain)

\* While a statement is built the text fits, so the size that a print is told
\* is the rest of the buffer.
RoomInv ==
    /\ max \in Nat /\ fixed_string_len \in Nat
    /\ phase \in {"fix", "filter", "check", "build", "prepare", "bind", "list", "done"}
    /\ phase # "done" => over = 0
    /\ phase \in {"fix", "filter", "check", "build"} =>
          /\ call \in Calls /\ filter \in Seq(Quiet)
          /\ offset \in Int /\ offset <= max
    /\ phase = "build" => Running
    /\ OverrunKnown

\* It holds when a call begins.
LEMMA RoomInitial ==
    ASSUME Init
    PROVE  RoomInv
  <1>1. max \in Nat /\ 0 <= max
    <2>1. max \in StmtMaxes /\ StmtMaxes \subseteq Nat \ {0}
      BY StatementsAssumption DEF Init
    <2> QED
      BY <2>1
  <1>2. fixed_string_len = 0
    BY DEF Init, Idle, FS!Init, FS!Start
  <1>3. phase \in {"fix", "filter", "check"} /\ call \in Calls
    BY DEF Init
  <1>4. filter = <<>> /\ offset = 0 /\ over = 0
    BY DEF Init
  <1>5. <<>> \in Seq(Quiet)
    OBVIOUS
  <1> QED
    BY <1>1, <1>2, <1>3, <1>4, <1>5 DEF RoomInv, OverrunKnown

\* What is left of a program after its first step.
LEMMA TailIs ==
    ASSUME NEW X, NEW p \in Seq(X), p # <<>>
    PROVE  /\ Head(p) = p[1] /\ Head(p) \in X
           /\ Tail(p) \in Seq(X) /\ Len(Tail(p)) = Len(p) - 1 /\ Len(p) \in Nat
           /\ Len(p) >= 1
           /\ \A k \in 1..(Len(p) - 1) : Tail(p)[k] = p[k + 1]
  OBVIOUS

\* When a step is done and the text still fits, the rest of the program runs.
LEMMA RunningOn ==
    ASSUME RoomInv, phase = "build", program # <<>>, call' = call, max' = max,
           program' = Tail(program), offset' \in Int,
           Head(program) = Cut(1, TRUE) => offset' < max
    PROVE  Running'
  <1>1. Running
    BY DEF RoomInv
  <1>2. CASE call.op = "sorm_update"
    <2> DEFINE X == Plain \cup {Where}
    <2>1. program \in Seq(X)
      BY <1>1, <1>2 DEF Running
    <2>2. \A k \in 2..Len(program) : program[k] = Where => program[k - 1] = Cut(1, TRUE)
      BY <1>1, <1>2 DEF Running, WhereHasRoom
    <2> HIDE DEF X
    <2>3. /\ Head(program) = program[1]
          /\ program' \in Seq(X) /\ Len(program') = Len(program) - 1
          /\ Len(program) \in Nat /\ Len(program) >= 1
          /\ \A k \in 1..(Len(program) - 1) : program'[k] = program[k + 1]
      BY <2>1, TailIs
    <2>4. ASSUME NEW k \in 2..Len(program'), program'[k] = Where
          PROVE  program'[k - 1] = Cut(1, TRUE)
      <3> DEFINE j == k + 1
      <3>1. /\ j \in 2..Len(program) /\ j - 1 = k /\ k \in 1..(Len(program) - 1)
            /\ k - 1 \in 1..(Len(program) - 1) /\ (k - 1) + 1 = k
        BY <2>3
      <3>2. program[j] = Where
        BY <2>3, <2>4, <3>1
      <3> HIDE DEF j
      <3>3. program[j - 1] = Cut(1, TRUE)
        BY <2>2, <3>1, <3>2
      <3> QED
        BY <2>3, <3>1, <3>3
    <2>5. ASSUME program' # <<>>, program'[1] = Where PROVE offset' < max'
      <3>1. Len(program') # 0
        BY <2>3, <2>5
      <3>2. 2 \in 2..Len(program) /\ 1 \in 1..(Len(program) - 1) /\ 1 + 1 = 2 /\ 2 - 1 = 1
        BY <2>3, <3>1
      <3>3. program[2] = Where
        BY <2>3, <2>5, <3>2
      <3>4. program[1] = Cut(1, TRUE)
        BY <2>2, <3>2, <3>3
      <3> QED
        BY <2>3, <3>4
    <2>6. WhereHasRoom'
      BY <2>4, <2>5 DEF WhereHasRoom, Where, Cut, PrintIn, Lit, Piece
    <2>7. (Plain \cup {Where})' = Plain \cup {Where}
      BY DEF Plain, Where, Rest, Fixes, Pieces, Words, Numbers, PrintIn, Lit, Piece
    <2> QED
      BY <1>2, <2>3, <2>6, <2>7 DEF Running, X
  <1>3. CASE call.op = "sorm_to_string"
    <2> DEFINE X == Rest \cup More
    <2>1. program \in Seq(X)
      BY <1>1, <1>3 DEF Running
    <2> HIDE DEF X
    <2>2. program' \in Seq(X)
      BY <2>1, TailIs
    <2> QED
      BY <1>3, <2>2 DEF Running, X
  <1>4. CASE call.op \notin {"sorm_update", "sorm_to_string"}
    <2>1. program \in Seq(Plain)
      BY <1>1, <1>4 DEF Running
    <2>2. program' \in Seq(Plain)
      BY <2>1, TailIs
    <2> QED
      BY <1>4, <2>2 DEF Running
  <1> QED
    BY <1>2, <1>3, <1>4

\* The arithmetic of one print into the rest of the buffer.
LEMMA RestFits ==
    ASSUME NEW m \in Nat, NEW o \in Int, o <= m, NEW need \in Nat, NEW room \in Int,
           NEW shown, shown = IF need < room THEN need ELSE room - 1
    PROVE  /\ room = m + 1 - o => o + shown <= m
           /\ room = m + 1 - o + 1 => o + shown <= m + 1
           /\ room = m + 1 - o + 1 => (o + shown > m => o + shown = m + 1)
           /\ o + shown <= o + need /\ o + shown \in Int
  <1>1. CASE need < room
    BY <1>1
  <1>2. CASE ~(need < room)
    BY <1>2
  <1> QED
    BY <1>1, <1>2

\* The print of WHERE.
LEMMA WhereIs ==
    /\ Where.do = "print" /\ Where.room = "whole"
    /\ Where.pieces = <<Lit(" WHERE")>> /\ Where.pieces \in Seq(Pieces)
    /\ Length(Where.pieces) = 6
  <1> DEFINE p == Lit(" WHERE")
  <1>1. Where.do = "print" /\ Where.room = "whole" /\ Where.pieces = <<p>>
    <2> HIDE DEF p
    <2>1. Where = PrintIn("whole", <<p>>)
      BY DEF Where, p
    <2> QED
      BY <2>1 DEF PrintIn
  <1>2. p \in Pieces /\ p.n = 6
    BY LitsAre
  <1> HIDE DEF p
  <1>3. <<>> \in Seq(Pieces) /\ Append(<<>>, p) = <<p>> /\ <<p>> \in Seq(Pieces)
    BY <1>2
  <1>4. Length(Append(<<>>, p)) = Length(<<>>) + p.n
    BY <1>2, <1>3, LengthAppend
  <1>5. Length(<<p>>) = 6
    BY <1>2, <1>3, <1>4, LengthEmpty
  <1> QED
    BY <1>1, <1>3, <1>5 DEF p

\* A print keeps it.
LEMMA RoomPrint ==
    ASSUME RoomInv, snprintf
    PROVE  RoomInv'
  <1> DEFINE s == Head(program)
             need == Length(s.pieces)
             room == Room(s.room)
             shown == IF need < room THEN need ELSE room - 1
             last == offset + shown
  <1>1. /\ phase = "build" /\ program # <<>> /\ s.do = "print"
        /\ offset' = offset + need
        /\ over' = IF last - max > over THEN last - max ELSE over
        /\ IF ~TooLong(offset + need)
           THEN program' = Tail(program) /\ phase' = phase /\ ret_val' = ret_val
           ELSE phase' = "done" /\ ret_val' = IF call.op = "sorm_to_string" THEN "string"
                                              ELSE "SORM_TOO_LONG"
        /\ call' = call /\ max' = max /\ filter' = filter
        /\ fixed_string_len' = fixed_string_len
    BY DEF snprintf, Doing, Return, fixVars
  <1>2. /\ max \in Nat /\ fixed_string_len \in Nat /\ over = 0 /\ Running
        /\ call \in Calls /\ filter \in Seq(Quiet) /\ offset \in Int /\ offset <= max
    BY <1>1 DEF RoomInv
  <1>3. \/ s \in Rest
        \/ s \in More /\ call.op = "sorm_to_string"
        \/ s = Where /\ call.op = "sorm_update" /\ offset < max
    <2>1. CASE call.op = "sorm_update"
      <3> DEFINE X == Plain \cup {Where}
      <3>1. program \in Seq(X)
        BY <1>2, <2>1 DEF Running
      <3> HIDE DEF X
      <3>2. s = program[1] /\ s \in X
        BY <1>1, <3>1, TailIs
      <3> HIDE DEF s
      <3>3. s \notin Fixes
        BY <1>1 DEF Fixes
      <3>4. s = Where => offset < max
        BY <1>1, <1>2, <2>1, <3>2 DEF Running, WhereHasRoom
      <3> QED
        BY <2>1, <3>2, <3>3, <3>4 DEF X, Plain
    <2>2. CASE call.op = "sorm_to_string"
      <3> DEFINE X == Rest \cup More
      <3>1. program \in Seq(X)
        BY <1>2, <2>2 DEF Running
      <3> HIDE DEF X
      <3>2. s \in X
        BY <1>1, <3>1, TailIs
      <3> QED
        BY <2>2, <3>2 DEF X
    <2>3. CASE call.op \notin {"sorm_update", "sorm_to_string"}
      <3>1. program \in Seq(Plain)
        BY <1>2, <2>3 DEF Running
      <3>2. s \in Plain
        BY <1>1, <3>1, TailIs
      <3> HIDE DEF s
      <3>3. s \notin Fixes
        BY <1>1 DEF Fixes
      <3> QED
        BY <3>2, <3>3 DEF Plain
    <2> QED
      BY <2>1, <2>2, <2>3
  <1>4. s.pieces \in Seq(Pieces)
    <2>1. CASE s \in Rest \/ s \in More
      <3> HIDE DEF s
      <3> QED
        BY <2>1 DEF Rest, More
    <2>2. CASE s = Where
      BY <2>2, WhereIs
    <2> QED
      BY <1>3, <2>1, <2>2
  <1>5. need \in Nat
    <2> HIDE DEF s
    <2> QED
      BY <1>4, LengthMeasured
  <1>6. s \in Rest => room = max + 1 - offset
    <2> HIDE DEF s
    <2> QED
      BY DEF Rest, Room
  <1>7. s \in More => room = max + 1 - offset + 1
    <2> HIDE DEF s
    <2> QED
      BY DEF More, Room
  <1>8. s = Where => room = max + 1 /\ need = 6
    <2> HIDE DEF s
    <2> QED
      BY WhereIs DEF Room
  <1>9. room \in Int
    BY <1>2, <1>3, <1>6, <1>7, <1>8
  <1>10. TooLong(offset + need) <=> offset + need > max
    BY DEF TooLong
  <1> HIDE DEF need, room
  <1>11. shown = IF need < room THEN need ELSE room - 1
    OBVIOUS
  <1> HIDE DEF shown
  <1>12. /\ room = max + 1 - offset => last <= max
         /\ room = max + 1 - offset + 1 => last <= max + 1
         /\ last <= offset + need /\ last \in Int
    BY <1>2, <1>5, <1>9, <1>11, RestFits
  <1> HIDE DEF last, s
  <1>13. /\ over' \in Int /\ over' >= 0
         /\ over' > 0 => over' = last - max /\ offset + need > max
    BY <1>1, <1>2, <1>5, <1>12
  <1>14. OverrunKnown'
    <2> SUFFICES ASSUME over' > 0
                 PROVE  \/ call.op = "sorm_update" /\ over' <= 5 /\ ret_val' = "SORM_TOO_LONG"
                        \/ call.op = "sorm_to_string" /\ over' = 1 /\ ret_val' = "string"
      BY <1>1 DEF OverrunKnown
    <2>1. over' = last - max /\ last > max /\ TooLong(offset + need)
      BY <1>2, <1>10, <1>12, <1>13
    <2>2. ret_val' = IF call.op = "sorm_to_string" THEN "string" ELSE "SORM_TOO_LONG"
      BY <1>1, <2>1
    <2>3. CASE s \in Rest
      BY <1>2, <1>6, <1>12, <2>1, <2>3
    <2>4. CASE s \in More /\ call.op = "sorm_to_string"
      <3>1. over' = 1
        BY <1>2, <1>7, <1>12, <2>1, <2>4
      <3> QED
        BY <2>2, <2>4, <3>1
    <2>5. CASE s = Where /\ call.op = "sorm_update" /\ offset < max
      <3>1. over' <= 5
        BY <1>2, <1>8, <1>12, <2>1, <2>5
      <3> QED
        BY <2>2, <2>5, <3>1
    <2> QED
      BY <1>3, <2>3, <2>4, <2>5
  <1>15. CASE TooLong(offset + need)
    <2>1. phase' = "done"
      BY <1>1, <1>15
    <2> QED
      BY <1>1, <1>2, <1>14, <2>1 DEF RoomInv
  <1>16. CASE ~TooLong(offset + need)
    <2>1. phase' = "build" /\ program' = Tail(program)
      BY <1>1, <1>16
    <2>2. offset' \in Int /\ offset' <= max
      BY <1>1, <1>2, <1>5, <1>10, <1>16
    <2>3. s # Cut(1, TRUE)
      BY <1>1 DEF Cut
    <2>4. Running'
      BY <1>1, <2>1, <2>2, <2>3, RunningOn DEF s
    <2>5. over' = 0
      BY <1>10, <1>13, <1>16
    <2>6. call' \in Calls /\ filter' \in Seq(Quiet)
      BY <1>1, <1>2
    <2>7. max' \in Nat /\ fixed_string_len' \in Nat /\ offset' <= max'
      BY <1>1, <1>2, <2>2
    <2> QED
      BY <1>14, <2>1, <2>2, <2>4, <2>5, <2>6, <2>7 DEF RoomInv
  <1> QED
    BY <1>15, <1>16

\* A filter made of a column's value is a text.
LEMMA ColumnFilterIs ==
    ASSUME fixed_string_len \in Nat
    PROVE  <<Col(1), Lit(" = ")>> \o Value \in Seq(Quiet)
  <1>1. /\ Col(1) \in Quiet /\ Lit(" = ") \in Quiet /\ Lit("'") \in Quiet
    BY NamesAre, LitsAre
  <1> DEFINE w == IF FS!StartsWithQuote THEN "broken" ELSE "quoted"
             a == <<Col(1), Lit(" = ")>>
             p == Piece("value", "number", 1)
             q == Piece("value", w, fixed_string_len)
  <1>2. a \in Seq(Quiet)
    BY <1>1, Parts
  <1>3. "number" \in Words /\ w \in Words
    BY DEF Words
  <1>4. Value = IF call.filter.from = "number" THEN <<p>> ELSE <<Lit("'"), q, Lit("'")>>
    BY DEF Value
  <1> HIDE DEF w, a
  <1>5. p \in Quiet /\ q \in Quiet
    <2>1. p \in Pieces /\ q \in Pieces /\ p.kind = "value" /\ q.kind = "value"
      BY <1>3 DEF Piece, Pieces
    <2> HIDE DEF p, q
    <2> QED
      BY <2>1, NoLiteral
  <1> HIDE DEF p, q
  <1>6. <<p>> \in Seq(Quiet) /\ <<Lit("'"), q, Lit("'")>> \in Seq(Quiet)
    BY <1>1, <1>5, Parts
  <1>7. Value \in Seq(Quiet)
    BY <1>4, <1>6
  <1>8. a \o Value \in Seq(Quiet)
    BY <1>2, <1>7, Sum2
  <1> QED
    BY <1>8 DEF a

\* Every step of a call keeps it.
LEMMA RoomKept ==
    ASSUME RoomInv, [Next]_vars
    PROVE  RoomInv'
  <1>1. /\ max \in Nat /\ fixed_string_len \in Nat /\ OverrunKnown
        /\ phase \in {"fix", "filter", "check", "build", "prepare", "bind", "list", "done"}
        /\ phase # "done" => over = 0
        /\ phase \in {"fix", "filter", "check", "build"} =>
              /\ call \in Calls /\ filter \in Seq(Quiet)
              /\ offset \in Int /\ offset <= max
        /\ phase = "build" => Running
    BY DEF RoomInv
  <1>2. CASE Fix
    <2>1. /\ phase \in {"fix", "filter"}
          /\ UNCHANGED <<call, max, phase, filter, offset, over, ret_val>>
      BY <1>2 DEF Fix, textVars
    <2>2. fixed_string_len' \in Nat
      BY <1>1, <1>2 DEF Fix, FS!Next, FS!Count, FS!Counted, FS!Copy, FS!Copied
    <2>3. OverrunKnown'
      BY <1>1, <2>1 DEF OverrunKnown
    <2> QED
      BY <1>1, <2>1, <2>2, <2>3 DEF RoomInv
  <1>3. CASE ColumnFilter
    <2> DEFINE pieces == <<Col(1), Lit(" = ")>> \o Value
    <2>1. /\ phase = "filter" /\ fixed_string_len' = 0
          /\ UNCHANGED <<call, max, offset, over>>
          /\ \/ phase' = "done"
             \/ phase' = "check" /\ filter' = pieces
      BY <1>3 DEF ColumnFilter, ForgetString, Return
    <2>2. pieces \in Seq(Quiet)
      BY <1>1, ColumnFilterIs
    <2> HIDE DEF pieces
    <2>3. OverrunKnown'
      BY <1>1, <2>1 DEF OverrunKnown
    <2>4. max' \in Nat /\ fixed_string_len' \in Nat /\ over' = 0
      BY <1>1, <2>1
    <2>5. phase' # "done" =>
             /\ phase' = "check" /\ call' \in Calls /\ filter' \in Seq(Quiet)
             /\ offset' \in Int /\ offset' <= max'
      BY <1>1, <2>1, <2>2
    <2> QED
      BY <2>1, <2>3, <2>4, <2>5 DEF RoomInv
  <1>4. CASE Check
    <2>1. /\ phase = "check" /\ UNCHANGED <<call, max, filter, offset, over>>
          /\ fixed_string_len' = fixed_string_len
          /\ \/ phase' = "done"
             \/ phase' = "build" /\ program' = Program
      BY <1>4 DEF Check, Return, fixVars
    <2>2. OverrunKnown'
      BY <1>1, <2>1 DEF OverrunKnown
    <2>3. CASE phase' = "done"
      BY <1>1, <2>1, <2>2, <2>3 DEF RoomInv
    <2>4. CASE phase' = "build" /\ program' = Program
      <3>1. call \in Calls /\ filter \in Seq(Quiet)
        BY <1>1, <2>1
      <3>2. /\ call.op = "sorm_update" =>
                  program' \in Seq(Plain \cup {Where}) /\ WhereAfterCut(program')
            /\ call.op = "sorm_to_string" => program' \in Seq(Rest \cup More)
            /\ call.op \notin {"sorm_update", "sorm_to_string"} => program' \in Seq(Plain)
        BY <2>4, <3>1, ProgramIs
      <3>3. call.op = "sorm_update" => WhereHasRoom'
        <4> SUFFICES ASSUME program' \in Seq(Plain \cup {Where}), WhereAfterCut(program')
                     PROVE  WhereHasRoom'
          BY <3>2
        <4> DEFINE X == Plain \cup {Where}
        <4>1. DOMAIN program' = 1..Len(program') /\ Len(program') \in Nat
          <5>1. program' \in Seq(X)
            OBVIOUS
          <5> HIDE DEF X
          <5> QED
            BY <5>1
        <4>2. \A k \in 1..Len(program') : program'[k] = Where =>
                 k > 1 /\ program'[k - 1] = Cut(1, TRUE)
          BY <4>1 DEF WhereAfterCut
        <4>3. \A k \in 2..Len(program') : k \in 1..Len(program')
          BY <4>1
        <4>4. program' # <<>> => 1 \in 1..Len(program')
          <5>1. program' \in Seq(X)
            OBVIOUS
          <5> HIDE DEF X
          <5> QED
            BY <5>1
        <4>5. ~(program' # <<>> /\ program'[1] = Where)
          <5>1. ~(1 > 1)
            OBVIOUS
          <5> QED
            BY <4>2, <4>4, <5>1, Zenon
        <4> QED
          BY <4>2, <4>3, <4>5 DEF WhereHasRoom
      <3>4. Running'
        BY <2>1, <3>2, <3>3 DEF Running
      <3> QED
        BY <1>1, <2>1, <2>2, <2>4, <3>4 DEF RoomInv
    <2> QED
      BY <2>1, <2>3, <2>4
  <1>5. CASE snprintf
    BY <1>5, RoomPrint
  <1>6. CASE RepairLast
    <2>1. /\ phase = "build" /\ program # <<>> /\ Head(program).do = "repair"
          /\ program' = Tail(program)
          /\ UNCHANGED <<call, max, phase, filter, offset, over, ret_val>>
          /\ fixed_string_len' = fixed_string_len
      BY <1>6 DEF RepairLast, Doing, fixVars
    <2>2. OverrunKnown'
      BY <1>1, <2>1 DEF OverrunKnown
    <2>3. Head(program) # Cut(1, TRUE)
      BY <2>1 DEF Cut
    <2>4. offset' \in Int
      BY <1>1, <2>1
    <2>5. Running'
      BY <2>1, <2>3, <2>4, RunningOn
    <2> QED
      BY <1>1, <2>1, <2>2, <2>5 DEF RoomInv
  <1>7. CASE CutLast
    <2> DEFINE s == Head(program)
    <2>1. /\ phase = "build" /\ program # <<>> /\ s.do = "cut"
          /\ program' = Tail(program)
          /\ offset' = IF s.back THEN offset - s.n ELSE offset
          /\ UNCHANGED <<call, max, phase, filter, over, ret_val>>
          /\ fixed_string_len' = fixed_string_len
      BY <1>7 DEF CutLast, Doing, fixVars
    <2>2. OverrunKnown'
      BY <1>1, <2>1 DEF OverrunKnown
    <2>3. s \in Steps
      <3>1. /\ Plain \cup {Where} \subseteq Steps /\ Rest \cup More \subseteq Steps
            /\ Plain \subseteq Steps
        BY DEF Plain, Steps
      <3>2. program \in Seq(Steps)
        <4>1. \/ program \in Seq(Plain \cup {Where})
              \/ program \in Seq(Rest \cup More)
              \/ program \in Seq(Plain)
          BY <1>1, <2>1 DEF Running
        <4> QED
          BY <3>1, <4>1, SeqMonotonic
      <3> QED
        BY <2>1, <3>2, TailIs
    <2> HIDE DEF s
    <2>4. s.n \in Nat
      <3>1. s \in Fixes
        <4>1. s \notin Rest /\ s \notin More
          BY <2>1 DEF Rest, More
        <4> QED
          BY <2>1, <2>3, <4>1, WhereIs DEF Steps
      <3> QED
        BY <2>1, <3>1 DEF Fixes
    <2>5. offset' \in Int /\ offset' <= max
      BY <1>1, <2>1, <2>4
    <2>6. s = Cut(1, TRUE) => offset' < max
      BY <1>1, <2>1 DEF Cut
    <2>7. Running'
      BY <2>1, <2>5, <2>6, RunningOn DEF s
    <2> QED
      BY <1>1, <2>1, <2>2, <2>5, <2>7 DEF RoomInv
  <1>8. CASE StartList
    <2>1. phase' = "list" /\ max' = 0 /\ over' = 0 /\ fixed_string_len' = fixed_string_len
      BY <1>8 DEF StartList, fixVars
    <2>2. OverrunKnown'
      BY <2>1 DEF OverrunKnown
    <2> QED
      BY <1>1, <2>1, <2>2 DEF RoomInv
  <1>9. CASE \/ FixReturns \/ Refuse \/ ToStringReturns \/ Prepare \/ PrepareFails \/ Run
             \/ StartBind \/ Bind \/ Bound \/ ListItem \/ ListEnds
    <2>1. /\ phase # "done" /\ max' = max /\ over' = over
          /\ fixed_string_len' = fixed_string_len
          /\ phase' \in {"prepare", "bind", "list", "done"}
      BY <1>9 DEF FixReturns, Refuse, ToStringReturns, Prepare, PrepareFails, Run, StartBind,
                 Bind, Bound, ListItem, ListEnds, Return, textVars, fixVars
    <2>2. OverrunKnown'
      BY <1>1, <2>1 DEF OverrunKnown
    <2> QED
      BY <1>1, <2>1, <2>2 DEF RoomInv
  <1>10. CASE Returned \/ UNCHANGED vars
    <2>1. UNCHANGED <<max, fixed_string_len, phase, over, call, filter, offset, program,
                      ret_val>>
      BY <1>10 DEF Returned, vars, textVars, fixVars
    <2>2. OverrunKnown'
      BY <1>1, <2>1 DEF OverrunKnown
    <2>3. phase = "build" => Running'
      BY <1>1, <2>1 DEF Running, WhereHasRoom
    <2> QED
      BY <1>1, <2>1, <2>2, <2>3 DEF RoomInv
  <1> QED
    BY <1>2, <1>3, <1>4, <1>5, <1>6, <1>7, <1>8, <1>9, <1>10 DEF Next

\* No snprintf that builds a statement writes past its buffer, whatever the
\* table, the lengths of names and values and SQL_STMT_MAX_LEN are; the WHERE
\* of sorm_update goes at most five bytes beyond, sorm_to_string one, and both
\* calls then stop at once.
THEOREM PrintsStayInside ==
    Spec => []OverrunKnown
  <1>1. RoomInv => OverrunKnown
    BY DEF RoomInv
  <1> QED
    BY <1>1, RoomInitial, RoomKept, PTL DEF Spec
=============================================================================
