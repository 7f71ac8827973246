-------------------------- MODULE GeneratorProofs ---------------------------
(***************************************************************************)
(* Proofs about sorm_generate for any number of files, columns, foreign    *)
(* keys and names and any declared lengths:                                *)
(*   GeneratorTypes   the types and bounds                                 *)
(*   UnitsDescribed   a unit that is written says what its file says       *)
(*   HeaderMatches    for which tables the two files agree                 *)
(*   AccessorsSafe    the words in front of a value belong to its column   *)
(***************************************************************************)
EXTENDS Generator, CountingTheorems, SequenceTheorems

Types       == {"INT", "INT64", "DOUBLE", "TEXT", "BLOB"}
Mems        == {"NONE", "HEAP", "STACK"}
Constraints == {"NONE", "PK", "UNIQUE"}
Columns     == [name : Names \cup {NoName}, type : Types, mem : Mems, max_len : Nat,
                constraint : Constraints, foreign : Names \cup {NoName}]
Inputs      == [columns : Seq(Declarations), keys : Seq(Names \X Names)]

\* The sets that the variables' values come from.
Shapes ==
    /\ argv_index \in Nat \ {0} /\ i \in Nat
    /\ has_PK \in BOOLEAN
    /\ columns_list \in Seq(Columns) /\ column_desc \in Columns
    /\ table_desc \in [named : BOOLEAN, columns : Seq(Columns), PK_index : Nat]
    /\ input \in Inputs
    /\ out \in [columns : Seq(Columns), PK_index : Nat, input : Inputs,
               header : BOOLEAN]
    /\ phase \in {"typed", "constrained"} => input.columns # <<>>

\* The bounds of TypeOK, which need those of the column in progress.
Bounds ==
    /\ TypeOK
    /\ phase \notin {"open"} => argv_index <= MaxFiles
    /\ phase \in {"typed", "constrained"} => Len(columns_list) < MaxColumns

Parsing == {"column", "typed", "constrained", "columns", "tables"}

AsDeclared(d, k) ==
    [name |-> NoName, type |-> d.type, mem |-> d.mem, max_len |-> d.max_len,
     constraint |-> k, foreign |-> NoName]

ColumnOf(d, foreign) ==
    [name |-> d.name, type |-> d.type, mem |-> d.mem, max_len |-> d.max_len,
     constraint |-> d.constraint, foreign |-> foreign]

DistinctNames(cols) ==
    \A c, d \in DOMAIN cols : cols[c].name = cols[d].name => c = d

(***************************************************************************)
(* What the global descriptors hold while a file is read: the columns      *)
(* read mean what the text says, and column_desc has nothing left over     *)
(* from the column before.                                                 *)
(***************************************************************************)
ReadInv ==
    /\ phase \in {"column", "columns", "tables"} =>
          Len(columns_list) = Len(input.columns)
    /\ phase \in {"typed", "constrained"} =>
          /\ Len(input.columns) = Len(columns_list) + 1
          /\ \A c \in DOMAIN columns_list : columns_list[c].name # Declared.name
    /\ phase \in Parsing \ {"tables"} => input.keys = <<>>
    /\ phase \in {"column", "columns"} => column_desc = Zeroed
    /\ phase = "typed" => column_desc = AsDeclared(Declared, "NONE")
    /\ phase = "constrained" => column_desc = AsDeclared(Declared, Declared.constraint)
    /\ phase \in Parsing \cup {"collect"} =>
          /\ Len(columns_list) <= Len(input.columns)
          /\ \A c \in DOMAIN columns_list : columns_list[c] = Meaning(input)[c]
          /\ DistinctNames(columns_list)

(***************************************************************************)
(* The loop that empties the list: the table descriptor has the first i    *)
(* columns and the index of the primary key among them.                    *)
(***************************************************************************)
CollectInv ==
    /\ phase = "collect" =>
          /\ i <= Len(columns_list)
          /\ Len(table_desc.columns) = i
          /\ \A c \in 1 .. i : table_desc.columns[c] = columns_list[c]
          /\ PrimaryKeys(table_desc.columns) = {table_desc.PK_index} \ {NO_PK}
          /\ table_desc.PK_index # NO_PK => has_PK
          /\ table_desc.named => Len(columns_list) = Len(input.columns)

OutInv ==
    /\ Described
    /\ DistinctNames(out.columns)
-----------------------------------------------------------------------------
(* The layout of the struct.                                               *)

\* Rounding up to the alignments that occur.
LEMMA AlignUpFacts ==
    ASSUME NEW x \in Nat, NEW a \in {1, 4, 8}
    PROVE  /\ AlignUp(x, a) \in Nat /\ AlignUp(x, a) >= x
           /\ x % a = 0 => AlignUp(x, a) = x
           /\ AlignUp(x, a) % a = 0
  <1>1. CASE a = 1
    BY <1>1 DEF AlignUp
  <1>2. CASE a = 4
    BY <1>2 DEF AlignUp
  <1>3. CASE a = 8
    BY <1>3 DEF AlignUp
  <1> QED
    BY <1>1, <1>2, <1>3

\* A column ends behind its start, wherever that is.
LEMMA ColumnPlaced ==
    ASSUME NEW m \in {ILP32, LP64}, NEW start \in Nat, NEW col \in Columns
    PROVE  /\ Alignment(m, col) \in {1, 4, 8}
           /\ StatAt(start, col) \in Nat
           /\ Offset(m, start, col) \in Nat
           /\ Offset(m, start, col) >= StatAt(start, col) + WORD
           /\ End(m, start, col) \in Nat
  <1>1. Alignment(m, col) \in {1, 4, 8} /\ Size(m, col) \in Nat
    BY DEF Alignment, Size, OnHeap, OnStack, ILP32, LP64, WORD, Columns
  <1>2. StatAt(start, col) \in Nat
    BY AlignUpFacts DEF StatAt, WORD
  <1>3. /\ Offset(m, start, col) \in Nat
        /\ Offset(m, start, col) >= StatAt(start, col) + WORD
    BY <1>1, <1>2, AlignUpFacts DEF Offset, WORD
  <1> QED
    BY <1>1, <1>2, <1>3 DEF End

\* Wherever a column starts, the words that the accessors of sorm.c touch lie
\* behind the column before it, on both data models.
LEMMA SlotsApartAnywhere ==
    ASSUME NEW m \in {ILP32, LP64}, NEW start \in Nat, NEW col \in Columns
    PROVE  SlotsApart(m, start, col)
  <1>1. AlignUp(start, WORD) \in Nat /\ AlignUp(start, WORD) >= start
    BY AlignUpFacts DEF WORD
  <1>2. /\ Offset(m, start, col) \in Nat
        /\ Offset(m, start, col) >= StatAt(start, col) + WORD
    BY ColumnPlaced
  <1> QED
    BY <1>1, <1>2 DEF SlotsApart, FirstSlot, LenSlot, StatSlot, StatAt, WORD

\* Where words and pointers have the same size they are the members of the
\* struct: no padding comes between them and the value.
LEMMA SlotsAreMembersAnywhere ==
    ASSUME NEW start \in Nat, NEW col \in Columns
    PROVE  SlotsAreMembers(ILP32, start, col)
  <1>1. /\ AlignUp(start, WORD) \in Nat /\ AlignUp(start, WORD) % 4 = 0
    BY AlignUpFacts DEF WORD
  <1>2. /\ StatAt(start, col) + WORD \in Nat
        /\ (StatAt(start, col) + WORD) % 4 = 0
    <2>1. \A y \in Nat : y % 4 = 0 => (y + 4) % 4 = 0 /\ ((y + 4) + 4) % 4 = 0
      OBVIOUS
    <2>2. StatAt(start, col) = AlignUp(start, WORD)
          \/ StatAt(start, col) = AlignUp(start, WORD) + 4
      BY <1>1 DEF StatAt, WORD
    <2> QED
      BY <1>1, <2>1, <2>2 DEF WORD
  <1>3. Alignment(ILP32, col) \in {1, 4}
    BY DEF Alignment, OnHeap, OnStack, ILP32, WORD, Columns
  <1>4. Offset(ILP32, start, col) = StatAt(start, col) + WORD
    BY <1>2, <1>3 DEF Offset, AlignUp
  <1> QED
    BY <1>1, <1>2, <1>4 DEF SlotsAreMembers, StatSlot, LenSlot, LenAt, StatAt, WORD

\* Every column of a table starts somewhere: the recursion over the columns
\* before it has a value.
LEMMA StartDefined ==
    ASSUME NEW m \in {ILP32, LP64}, NEW cols \in Seq(Columns), NEW n \in DOMAIN cols
    PROVE  Start(m, cols, n) \in Nat
  <1> DEFINE N == Len(cols)
             G == [k \in 1..N |-> [start \in Nat |-> End(m, start, cols[k])]]
             Next1(f) == [k \in 0..N |-> IF k = 0 THEN m.desc ELSE End(m, f[k - 1], cols[k])]
             e == CHOOSE f : f = Next1(f)
  <1>1. m.desc \in Nat /\ N \in Nat
    BY DEF ILP32, LP64
  <1>2. G \in [1..N -> [Nat -> Nat]]
    <2>1. ASSUME NEW k \in 1..N, NEW start \in Nat PROVE End(m, start, cols[k]) \in Nat
      <3>1. cols[k] \in Columns
        OBVIOUS
      <3> QED
        BY <3>1, ColumnPlaced
    <2> QED
      BY <2>1
  <1>3. PICK f \in [0..N -> Nat] : Recursion(f, N, m.desc, G)
    <2> HIDE DEF G, N
    <2> QED
      BY <1>1, <1>2, RecursionExists
  <1>4. f = Next1(f)
    <2>1. ASSUME NEW k \in 0..N
          PROVE  f[k] = IF k = 0 THEN m.desc ELSE End(m, f[k - 1], cols[k])
      <3>1. CASE k = 0
        BY <1>3, <3>1 DEF Recursion
      <3>2. CASE k # 0
        <4>1. k \in 1..N /\ k - 1 \in 0..N
          BY <1>1, <3>2
        <4>2. f[k - 1] \in Nat
          BY <4>1
        <4>3. f[k] = G[k][f[k - 1]]
          BY <1>3, <4>1 DEF Recursion
        <4> QED
          BY <3>2, <4>1, <4>2, <4>3
      <3> QED
        BY <3>1, <3>2
    <2> QED
      BY <2>1
  <1>5. e = Next1(e)
    BY <1>4
  <1> HIDE DEF e
  <1>6. \A k \in Nat : k \in 0..N => e[k] \in Nat
    <2> DEFINE T == {k \in Nat : k \in 0..N => e[k] \in Nat}
    <2>1. 0 \in T
      <3>1. e[0] = m.desc
        BY <1>1, <1>5
      <3> QED
        BY <1>1, <3>1
    <2>2. ASSUME NEW k \in T PROVE k + 1 \in T
      <3> SUFFICES ASSUME k + 1 \in 0..N PROVE e[k + 1] \in Nat
        OBVIOUS
      <3>1. e[k + 1] = End(m, e[k], cols[k + 1])
        BY <1>5
      <3>2. e[k] \in Nat /\ cols[k + 1] \in Columns
        BY <1>1
      <3> QED
        BY <3>1, <3>2, ColumnPlaced
    <2>3. T \in SUBSET Nat
      OBVIOUS
    <2>4. T = Nat
      <3> HIDE DEF T
      <3> QED
        BY <2>1, <2>2, <2>3, SetInduction
    <2> QED
      BY <2>4
  <1>7. Start(m, cols, n) = e[n - 1]
    BY DEF Start, e
  <1> QED
    BY <1>1, <1>6, <1>7
-----------------------------------------------------------------------------
(* The program.                                                            *)

\* What a declaration may be.
LEMMA DeclarationShape ==
    ASSUME NEW d \in Declarations
    PROVE  /\ d.name \in Names /\ d.type \in Types /\ d.mem \in Mems
           /\ d.max_len \in Nat /\ d.constraint \in Constraints
           /\ d.mem = "NONE" => d.max_len = 0
  BY GeneratorAssumption DEF Declarations, Declaration, Types, Mems, Constraints

\* Without a clause there is no foreign table.
LEMMA ForeignNone ==
    ASSUME NEW name
    PROVE  Foreign(<<>>, name) = NoName
  BY DEF Foreign

\* A clause replaces the earlier ones of its column.
LEMMA ForeignAppend ==
    ASSUME NEW keys \in Seq(Names \X Names), NEW key \in Names \X Names, NEW n
    PROVE  Foreign(Append(keys, key), n) = IF n = key[1] THEN key[2] ELSE Foreign(keys, n)
  <1> DEFINE new == Append(keys, key)
             Of(s) == {k \in DOMAIN s : s[k][1] = n}
  <1>1. /\ DOMAIN keys = 1..Len(keys) /\ DOMAIN new = 1..(Len(keys) + 1)
        /\ new[Len(keys) + 1] = key
        /\ \A k \in 1..Len(keys) : new[k] = keys[k]
        /\ Len(keys) \in Nat
    OBVIOUS
  <1> HIDE DEF new
  <1>2. CASE n = key[1]
    <2>1. /\ Len(keys) + 1 \in Of(new)
          /\ \A l \in Of(new) : l <= Len(keys) + 1
          /\ \A k \in Of(new) : (\A l \in Of(new) : l <= k) => k = Len(keys) + 1
      BY <1>1, <1>2
    <2>2. (CHOOSE k \in Of(new) : \A l \in Of(new) : l <= k) = Len(keys) + 1
      BY <2>1
    <2> QED
      BY <1>1, <1>2, <2>1, <2>2 DEF Foreign, new
  <1>3. CASE n # key[1]
    <2>1. Of(new) = Of(keys) /\ \A k \in Of(keys) : new[k] = keys[k] /\ k \in 1..Len(keys)
      BY <1>1, <1>3
    <2>2. CASE Of(keys) = {}
      BY <1>3, <2>1, <2>2 DEF Foreign, new
    <2>3. CASE Of(keys) # {}
      <3>1. \E k \in Of(keys) : \A l \in Of(keys) : l <= k
        <4>1. Of(keys) \in SUBSET (1..Len(keys))
          BY <1>1
        <4> HIDE DEF Of
        <4> QED
          BY <1>1, <2>3, <4>1, GreatestNumber
      <3>2. (CHOOSE k \in Of(keys) : \A l \in Of(keys) : l <= k) \in Of(keys)
        BY <3>1
      <3>3. ASSUME NEW s, Of(s) # {}
            PROVE  Foreign(s, n) = s[CHOOSE k \in Of(s) : \A l \in Of(s) : l <= k][2]
        BY <3>3 DEF Foreign
      <3>4. /\ Foreign(new, n) = new[CHOOSE k \in Of(new) : \A l \in Of(new) : l <= k][2]
            /\ Foreign(keys, n) = keys[CHOOSE k \in Of(keys) : \A l \in Of(keys) : l <= k][2]
        BY <2>1, <2>3, <3>3
      <3>5. Foreign(new, n) = new[CHOOSE k \in Of(keys) : \A l \in Of(keys) : l <= k][2]
        <4> HIDE DEF Of
        <4> QED
          BY <2>1, <3>4
      <3>6. Foreign(new, n) = Foreign(keys, n)
        <4> HIDE DEF Of
        <4> QED
          BY <2>1, <3>2, <3>4, <3>5
      <3> QED
        BY <1>3, <3>6 DEF new
    <2> QED
      BY <2>2, <2>3
  <1> QED
    BY <1>2, <1>3 DEF new

\* The values that the descriptors start with.
LEMMA StartValues ==
    /\ <<>> \in Seq(Columns) /\ Zeroed \in Columns /\ NoInput \in Inputs
    /\ NoTable \in [named : BOOLEAN, columns : Seq(Columns), PK_index : Nat]
    /\ NoUnit \in [columns : Seq(Columns), PK_index : Nat, input : Inputs,
               header : BOOLEAN]
  <1>1. <<>> \in Seq(Columns) /\ Zeroed \in Columns /\ NoInput \in Inputs
    BY DEF Columns, Types, Mems, Constraints, Zeroed, Inputs, NoInput
  <1> QED
    BY <1>1 DEF NoTable, NoUnit, NO_PK

\* Every step keeps the shapes.
LEMMA ShapesStep ==
    ASSUME Shapes, [Next]_vars
    PROVE  Shapes'
  <1> USE DEF Shapes
  <1>1. CASE Open
    BY <1>1, StartValues DEF Open
  <1>2. CASE OpenFails
    BY <1>2, StartValues DEF OpenFails
  <1>3. CASE EmptyFile
    BY <1>3 DEF EmptyFile
  <1>4. ASSUME NEW d \in Declarations, ParseType(d) PROVE Shapes'
    <2>1. column_desc' \in Columns
      <3>1. d.type \in Types /\ d.mem \in Mems /\ d.max_len \in Nat
        BY DeclarationShape
      <3> QED
        BY <1>4, <3>1 DEF ParseType, Columns
    <2>2. input' \in Inputs /\ input'.columns # <<>>
      <3>1. input.columns \in Seq(Declarations)
        BY DEF Inputs
      <3>2. /\ Append(input.columns, d) \in Seq(Declarations)
            /\ Append(input.columns, d) # <<>>
        BY <3>1, AppendProperties, SMTT(30)
      <3> QED
        BY <1>4, <3>2 DEF ParseType, Inputs
    <2> QED
      BY <1>4, <2>1, <2>2 DEF ParseType
  <1>5. CASE ParseConstraint
    <2>1. Declared \in Declarations
      BY <1>5 DEF ParseConstraint, Declared, Inputs
    <2>2. Declared.constraint \in Constraints
      BY <2>1, DeclarationShape
    <2>3. column_desc' \in Columns
      BY <1>5, <2>2 DEF ParseConstraint, Columns
    <2> QED
      BY <1>5, <2>3 DEF ParseConstraint
  <1>6. CASE ParseColumn
    <2>1. Declared \in Declarations
      BY <1>6 DEF ParseColumn, Declared, Inputs
    <2>2. Declared.name \in Names
      BY <2>1, DeclarationShape
    <2>3. [column_desc EXCEPT !.name = Declared.name] \in Columns
      BY <2>2 DEF Columns
    <2> QED
      BY <1>6, <2>3, StartValues DEF ParseColumn
  <1>7. CASE ParseComma
    BY <1>7 DEF ParseComma
  <1>8. ASSUME NEW name \in Names, NEW foreign \in Names,
               ParseForeignKey(name, foreign) PROVE Shapes'
    <2>1. input' \in Inputs
      <3>1. Append(input.keys, <<name, foreign>>) \in Seq(Names \X Names)
        BY DEF Inputs
      <3> QED
        BY <1>8, <3>1 DEF ParseForeignKey, Inputs
    <2>2. columns_list' \in [1..Len(columns_list) -> Columns]
      <3>1. ASSUME NEW c \in 1..Len(columns_list)
            PROVE  /\ columns_list[c] \in Columns
                   /\ [columns_list[c] EXCEPT !.foreign = foreign] \in Columns
        <4>1. columns_list[c] \in Columns
          OBVIOUS
        <4> QED
          BY <4>1 DEF Columns
      <3> QED
        BY <1>8, <3>1 DEF ParseForeignKey
    <2>3. columns_list' \in Seq(Columns)
      <3>1. Len(columns_list) \in Nat
        OBVIOUS
      <3> QED
        BY <2>2, <3>1, SeqDef, ZenonT(60)
    <2> QED
      BY <1>8, <2>1, <2>3 DEF ParseForeignKey
  <1>9. ASSUME NEW ok \in BOOLEAN, ParseEnd(ok) PROVE Shapes'
    BY <1>9, StartValues DEF ParseEnd, NoTable
  <1>10. CASE Collect
    <2> DEFINE col == columns_list[i + 1]
    <2>1. col \in Columns /\ i + 1 \in Nat
      BY <1>10 DEF Collect
    <2>2. CASE col.constraint = "PK" /\ has_PK
      BY <1>10, <2>2 DEF Collect
    <2>3. CASE ~(col.constraint = "PK" /\ has_PK)
      <3> HIDE DEF col
      <3>1. table_desc' \in [named : BOOLEAN, columns : Seq(Columns), PK_index : Nat]
        <4>1. table_desc' = [table_desc EXCEPT
                  !.columns = Append(table_desc.columns, col),
                  !.PK_index = IF col.constraint = "PK" THEN i + 1 ELSE table_desc.PK_index]
          BY <1>10, <2>3 DEF Collect, col
        <4>2. Append(table_desc.columns, col) \in Seq(Columns)
          BY <2>1
        <4> QED
          BY <2>1, <4>1, <4>2
      <3>2. has_PK' \in BOOLEAN /\ i' \in Nat /\ phase' = "collect"
        BY <1>10, <2>1, <2>3 DEF Collect, col
      <3> QED
        BY <1>10, <3>1, <3>2 DEF Collect
    <2> QED
      BY <2>2, <2>3
  <1>11. ASSUME NEW header \in BOOLEAN, Generate(header) PROVE Shapes'
    BY <1>11, StartValues DEF Generate
  <1>12. CASE UseFreed
    BY <1>12 DEF UseFreed
  <1>13. CASE GenerateUndefined
    BY <1>13 DEF GenerateUndefined
  <1>14. CASE UNCHANGED vars
    BY <1>14 DEF vars
  <1> QED
    BY <1>1, <1>2, <1>3, <1>4, <1>5, <1>6, <1>7, <1>8, <1>9, <1>10, <1>11, <1>12,
       <1>13, <1>14 DEF Next, Ended

\* The meaning of a file, column by column.
LEMMA MeaningAt ==
    ASSUME NEW inp \in Inputs, NEW c \in 1..Len(inp.columns)
    PROVE  /\ inp.columns[c] \in Declarations
           /\ Meaning(inp)[c]
                = ColumnOf(inp.columns[c], Foreign(inp.keys, inp.columns[c].name))
  <1>1. inp.columns[c] \in Declarations /\ c \in DOMAIN inp.columns
    BY DEF Inputs
  <1> QED
    BY <1>1 DEF Meaning, ColumnOf

\* A column that is read later does not change the meaning of the others.
LEMMA MeaningAppend ==
    ASSUME NEW inp \in Inputs, NEW d \in Declarations, NEW c \in 1..Len(inp.columns)
    PROVE  Meaning([inp EXCEPT !.columns = Append(inp.columns, d)])[c] = Meaning(inp)[c]
  <1> DEFINE new == [inp EXCEPT !.columns = Append(inp.columns, d)]
  <1>1. inp.columns \in Seq(Declarations)
    BY DEF Inputs
  <1>2. new \in Inputs /\ c \in 1..Len(new.columns) /\ new.columns[c] = inp.columns[c]
        /\ new.keys = inp.keys
    <2> DEFINE cols == Append(inp.columns, d)
    <2>1. /\ cols \in Seq(Declarations) /\ Len(cols) = Len(inp.columns) + 1
          /\ cols[c] = inp.columns[c]
      BY <1>1, AppendProperties
    <2>2. c \in 1..Len(cols)
      BY <1>1, <2>1
    <2> HIDE DEF cols
    <2>3. new = [inp EXCEPT !.columns = cols]
      BY DEF cols
    <2>4. new \in Inputs /\ new.columns = cols /\ new.keys = inp.keys
      BY <2>1, <2>3 DEF Inputs
    <2> QED
      BY <2>1, <2>2, <2>4
  <1> HIDE DEF new
  <1>3. /\ Meaning(new)[c] = ColumnOf(new.columns[c], Foreign(new.keys, new.columns[c].name))
        /\ Meaning(inp)[c] = ColumnOf(inp.columns[c], Foreign(inp.keys, inp.columns[c].name))
    BY <1>2, MeaningAt
  <1>4. Meaning(new)[c] = Meaning(inp)[c]
    BY <1>2, <1>3
  <1> QED
    BY <1>4 DEF new

\* A foreign key clause is about the column that it names.
LEMMA MeaningKey ==
    ASSUME NEW inp \in Inputs, NEW name \in Names, NEW foreign \in Names,
           NEW c \in 1..Len(inp.columns)
    PROVE  Meaning([inp EXCEPT !.keys = Append(inp.keys, <<name, foreign>>)])[c]
              = IF Meaning(inp)[c].name = name
                THEN [Meaning(inp)[c] EXCEPT !.foreign = foreign]
                ELSE Meaning(inp)[c]
  <1> DEFINE new == [inp EXCEPT !.keys = Append(inp.keys, <<name, foreign>>)]
             n == inp.columns[c].name
  <1>1. inp.keys \in Seq(Names \X Names) /\ <<name, foreign>> \in Names \X Names
    BY DEF Inputs
  <1>2. /\ new \in Inputs /\ c \in 1..Len(new.columns) /\ new.columns = inp.columns
        /\ new.keys = Append(inp.keys, <<name, foreign>>)
    BY <1>1, AppendProperties DEF Inputs
  <1>3. Foreign(new.keys, n) = IF n = name THEN foreign ELSE Foreign(inp.keys, n)
    <2>1. \A x : Foreign(Append(inp.keys, <<name, foreign>>), x)
                   = IF x = <<name, foreign>>[1] THEN <<name, foreign>>[2]
                     ELSE Foreign(inp.keys, x)
      BY <1>1, ForeignAppend
    <2> QED
      BY <1>2, <2>1
  <1> HIDE DEF new
  <1>4. /\ Meaning(inp)[c] = ColumnOf(inp.columns[c], Foreign(inp.keys, n))
        /\ Meaning(new)[c] = ColumnOf(inp.columns[c], Foreign(new.keys, n))
    BY <1>2, MeaningAt
  <1>5. Meaning(new)[c] = IF Meaning(inp)[c].name = name
                          THEN [Meaning(inp)[c] EXCEPT !.foreign = foreign]
                          ELSE Meaning(inp)[c]
    BY <1>3, <1>4 DEF ColumnOf, n
  <1> QED
    BY <1>5 DEF new

\* Every step keeps what the descriptors hold while a file is read.
LEMMA ReadStep ==
    ASSUME Shapes, ReadInv, [Next]_vars
    PROVE  ReadInv'
  <1> USE DEF ReadInv, Parsing
  <1>1. CASE Open
    <2>1. DistinctNames(columns_list')
      BY <1>1 DEF Open, DistinctNames
    <2> QED
      BY <1>1, <2>1 DEF Open, NoInput
  <1>2. CASE OpenFails
    BY <1>2 DEF OpenFails
  <1>3. CASE EmptyFile
    BY <1>3 DEF EmptyFile
  <1>4. ASSUME NEW d \in Declarations, ParseType(d) PROVE ReadInv'
    <2>1. input.columns \in Seq(Declarations) /\ input \in Inputs
      BY DEF Shapes, Inputs
    <2>2. input' = [input EXCEPT !.columns = Append(input.columns, d)]
      BY <1>4 DEF ParseType
    <2>3. /\ input'.columns = Append(input.columns, d) /\ input'.keys = input.keys
          /\ Len(input'.columns) = Len(input.columns) + 1
          /\ Declared' = d
      BY <2>1, <2>2, AppendProperties DEF Inputs, Declared
    <2>4. column_desc' = AsDeclared(d, "NONE")
      <3>1. column_desc = Zeroed
        BY <1>4 DEF ParseType
      <3>2. CASE d.mem = "NONE"
        <4>1. d.max_len = 0
          BY <3>2, DeclarationShape
        <4>2. column_desc' = [Zeroed EXCEPT !.type = d.type]
          BY <1>4, <3>1, <3>2 DEF ParseType
        <4> QED
          BY <3>2, <4>1, <4>2 DEF Zeroed, AsDeclared
      <3>3. CASE d.mem # "NONE"
        <4>1. column_desc' = [Zeroed EXCEPT !.type = d.type, !.mem = d.mem,
                                            !.max_len = d.max_len]
          BY <1>4, <3>1, <3>3 DEF ParseType
        <4> QED
          BY <4>1 DEF Zeroed, AsDeclared
      <3> QED
        BY <3>2, <3>3
    <2>5. \A c \in DOMAIN columns_list : columns_list[c] = Meaning(input')[c]
      <3>1. DOMAIN columns_list = 1..Len(input.columns)
        BY <1>4 DEF ParseType, Shapes
      <3>2. \A c \in DOMAIN columns_list : Meaning(input')[c] = Meaning(input)[c]
        BY <2>1, <2>2, <3>1, MeaningAppend
      <3>3. \A c \in DOMAIN columns_list : columns_list[c] = Meaning(input)[c]
        BY <1>4 DEF ParseType
      <3> QED
        BY <3>2, <3>3
    <2>6. Len(input.columns) \in Nat /\ Len(columns_list) = Len(input.columns)
      BY <1>4, <2>1 DEF ParseType
    <2>7. /\ phase' = "typed" /\ columns_list' = columns_list /\ input.keys = <<>>
          /\ DistinctNames(columns_list)
          /\ \A c \in DOMAIN columns_list : columns_list[c].name # d.name
      BY <1>4 DEF ParseType
    <2> QED
      BY <2>3, <2>4, <2>5, <2>6, <2>7
  <1>5. CASE ParseConstraint
    <2>1. column_desc' = AsDeclared(Declared, Declared.constraint)
      BY <1>5 DEF ParseConstraint, AsDeclared
    <2> QED
      BY <1>5, <2>1 DEF ParseConstraint, Declared
  <1>6. CASE ParseColumn
    <2> DEFINE n == Len(columns_list)
               col == [column_desc EXCEPT !.name = Declared.name]
    <2>1. /\ columns_list \in Seq(Columns) /\ n \in Nat /\ input \in Inputs
          /\ Len(input.columns) = n + 1 /\ Declared = input.columns[n + 1]
      BY <1>6 DEF ParseColumn, Shapes, Declared
    <2>2. column_desc = AsDeclared(Declared, Declared.constraint) /\ input.keys = <<>>
      BY <1>6 DEF ParseColumn
    <2>3. col = ColumnOf(Declared, NoName)
      BY <2>2 DEF AsDeclared, ColumnOf
    <2>4. Meaning(input)[n + 1] = col
      <3>1. n + 1 \in 1..Len(input.columns)
        BY <2>1
      <3>2. Meaning(input)[n + 1] = ColumnOf(Declared, Foreign(<<>>, Declared.name))
        BY <2>1, <2>2, <3>1, MeaningAt
      <3> QED
        BY <2>3, <3>2, ForeignNone
    <2>5. columns_list' = Append(columns_list, col)
      BY <1>6 DEF ParseColumn
    <2>6. col.name = Declared.name
      BY <2>3 DEF ColumnOf
    <2> HIDE DEF n, col
    <2>7. /\ Len(columns_list') = n + 1 /\ DOMAIN columns_list' = 1..(n + 1)
          /\ DOMAIN columns_list = 1..n
          /\ \A c \in 1..n : columns_list'[c] = columns_list[c]
          /\ columns_list'[n + 1] = col
      BY <2>1, <2>5 DEF n
    <2>8. \A c \in DOMAIN columns_list' : columns_list'[c] = Meaning(input)[c]
      BY <1>6, <2>1, <2>4, <2>7 DEF ParseColumn
    <2>9. DistinctNames(columns_list')
      BY <1>6, <2>1, <2>6, <2>7 DEF ParseColumn, DistinctNames
    <2> QED
      BY <1>6, <2>1, <2>2, <2>7, <2>8, <2>9 DEF ParseColumn
  <1>7. CASE ParseComma
    BY <1>7 DEF ParseComma
  <1>8. ASSUME NEW name \in Names, NEW foreign \in Names,
               ParseForeignKey(name, foreign) PROVE ReadInv'
    <2>1. input \in Inputs /\ columns_list \in Seq(Columns)
      BY DEF Shapes
    <2>2. /\ input' = [input EXCEPT !.keys = Append(input.keys, <<name, foreign>>)]
          /\ input'.columns = input.columns
      BY <1>8, <2>1 DEF ParseForeignKey, Inputs
    <2>3. /\ Len(columns_list') = Len(columns_list)
          /\ DOMAIN columns_list' = DOMAIN columns_list
          /\ DOMAIN columns_list = 1..Len(columns_list)
      BY <1>8, <2>1 DEF ParseForeignKey
    <2>4. ASSUME NEW c \in DOMAIN columns_list
          PROVE  /\ columns_list'[c] = Meaning(input')[c]
                 /\ columns_list'[c].name = columns_list[c].name
      <3>1. /\ c \in 1..Len(input.columns) /\ columns_list[c] = Meaning(input)[c]
            /\ columns_list[c] \in Columns
        BY <1>8, <2>1, <2>3 DEF ParseForeignKey
      <3>2. columns_list'[c] = IF columns_list[c].name = name
                               THEN [columns_list[c] EXCEPT !.foreign = foreign]
                               ELSE columns_list[c]
        BY <1>8 DEF ParseForeignKey
      <3>3. Meaning(input')[c] = columns_list'[c]
        BY <2>1, <2>2, <3>1, <3>2, MeaningKey
      <3>4. columns_list'[c].name = columns_list[c].name
        BY <3>1, <3>2 DEF Columns
      <3> QED
        BY <3>3, <3>4
    <2>5. DistinctNames(columns_list')
      BY <1>8, <2>3, <2>4 DEF ParseForeignKey, DistinctNames
    <2> QED
      BY <1>8, <2>2, <2>3, <2>4, <2>5 DEF ParseForeignKey
  <1>9. ASSUME NEW ok \in BOOLEAN, ParseEnd(ok) PROVE ReadInv'
    BY <1>9 DEF ParseEnd
  <1>10. CASE Collect
    <2>1. phase' \in {"collect", "two_keys"} /\ UNCHANGED <<columns_list, input>>
      BY <1>10 DEF Collect
    <2> QED
      BY <1>10, <2>1 DEF Collect
  <1>11. ASSUME NEW header \in BOOLEAN, Generate(header) PROVE ReadInv'
    BY <1>11 DEF Generate
  <1>12. CASE UseFreed
    BY <1>12 DEF UseFreed
  <1>13. CASE GenerateUndefined
    BY <1>13 DEF GenerateUndefined
  <1>14. CASE UNCHANGED vars
    BY <1>14 DEF vars, Declared
  <1> QED
    BY <1>1, <1>2, <1>3, <1>4, <1>5, <1>6, <1>7, <1>8, <1>9, <1>10, <1>11, <1>12,
       <1>13, <1>14 DEF Next, Ended

\* The primary keys of a table with one column more.
LEMMA PrimaryKeysAppend ==
    ASSUME NEW cols \in Seq(Columns), NEW col \in Columns
    PROVE  PrimaryKeys(Append(cols, col))
              = PrimaryKeys(cols)
                \cup (IF col.constraint = "PK" THEN {Len(cols) + 1} ELSE {})
  <1> DEFINE new == Append(cols, col)
  <1>1. /\ DOMAIN cols = 1..Len(cols) /\ DOMAIN new = 1..(Len(cols) + 1)
        /\ Len(cols) \in Nat /\ new[Len(cols) + 1] = col
        /\ \A c \in 1..Len(cols) : new[c] = cols[c]
    OBVIOUS
  <1> HIDE DEF new
  <1>2. PrimaryKeys(new) = PrimaryKeys(cols)
                           \cup (IF col.constraint = "PK" THEN {Len(cols) + 1} ELSE {})
    BY <1>1 DEF PrimaryKeys
  <1> QED
    BY <1>2 DEF new

\* Every step keeps what the loop that empties the list has done.
LEMMA CollectStep ==
    ASSUME Shapes, ReadInv, CollectInv, [Next]_vars
    PROVE  CollectInv'
  <1> USE DEF CollectInv
  <1>1. CASE Open
    BY <1>1 DEF Open
  <1>2. CASE OpenFails
    BY <1>2 DEF OpenFails
  <1>3. CASE EmptyFile
    BY <1>3 DEF EmptyFile
  <1>4. ASSUME NEW d \in Declarations, ParseType(d) PROVE CollectInv'
    BY <1>4 DEF ParseType
  <1>5. CASE ParseConstraint
    BY <1>5 DEF ParseConstraint
  <1>6. CASE ParseColumn
    BY <1>6 DEF ParseColumn
  <1>7. CASE ParseComma
    BY <1>7 DEF ParseComma
  <1>8. ASSUME NEW name \in Names, NEW foreign \in Names,
               ParseForeignKey(name, foreign) PROVE CollectInv'
    BY <1>8 DEF ParseForeignKey
  <1>9. ASSUME NEW ok \in BOOLEAN, ParseEnd(ok) PROVE CollectInv'
    <2>1. /\ table_desc' = [named |-> ok, columns |-> <<>>, PK_index |-> NO_PK]
          /\ phase' = "collect" /\ i' = 0
          /\ UNCHANGED <<argv_index, has_PK, columns_list, input>>
      BY <1>9 DEF ParseEnd, NoTable
    <2>2. PrimaryKeys(<<>>) = {}
      BY DEF PrimaryKeys
    <2>3. ok => Len(columns_list) = Len(input.columns)
      BY <1>9 DEF ParseEnd, ReadInv
    <2>4. Len(columns_list) \in Nat
      BY DEF Shapes
    <2> QED
      BY <2>1, <2>2, <2>3, <2>4
  <1>10. CASE Collect
    <2> DEFINE col == columns_list[i + 1]
    <2>1. /\ columns_list \in Seq(Columns) /\ col \in Columns /\ i \in Nat
          /\ phase = "collect" /\ i + 1 <= Len(columns_list) /\ i' = i + 1
          /\ UNCHANGED <<argv_index, columns_list, input>>
      BY <1>10 DEF Collect, Shapes
    <2>2. CASE col.constraint = "PK" /\ has_PK
      BY <1>10, <2>2 DEF Collect
    <2>3. CASE ~(col.constraint = "PK" /\ has_PK)
      <3>1. /\ table_desc' = [table_desc EXCEPT
                  !.columns = Append(table_desc.columns, col),
                  !.PK_index = IF col.constraint = "PK" THEN i + 1 ELSE table_desc.PK_index]
            /\ has_PK' = (has_PK \/ col.constraint = "PK") /\ phase' = "collect"
        BY <1>10, <2>3 DEF Collect
      <3> HIDE DEF col
      <3>2. /\ table_desc'.named = table_desc.named
            /\ table_desc'.columns = Append(table_desc.columns, col)
            /\ table_desc'.PK_index
                 = IF col.constraint = "PK" THEN i + 1 ELSE table_desc.PK_index
            /\ table_desc.columns \in Seq(Columns)
        BY <3>1 DEF Shapes
      <3>3. /\ Len(table_desc'.columns) = i + 1
            /\ \A c \in 1 .. i + 1 : table_desc'.columns[c] = columns_list[c]
        <4>1. /\ Len(Append(table_desc.columns, col)) = i + 1
              /\ Append(table_desc.columns, col)[i + 1] = col
              /\ \A c \in 1 .. i : Append(table_desc.columns, col)[c] = columns_list[c]
          BY <2>1, <3>2
        <4> QED
          BY <2>1, <3>2, <4>1 DEF col
      <3>4. PrimaryKeys(table_desc'.columns) = {table_desc'.PK_index} \ {NO_PK}
        <4>1. PrimaryKeys(table_desc'.columns)
                 = PrimaryKeys(table_desc.columns)
                   \cup (IF col.constraint = "PK" THEN {i + 1} ELSE {})
          BY <2>1, <3>2, PrimaryKeysAppend
        <4>2. CASE col.constraint = "PK"
          <5>1. PrimaryKeys(table_desc.columns) = {}
            BY <2>1, <2>3, <4>2
          <5> QED
            BY <2>1, <3>2, <4>1, <4>2, <5>1 DEF NO_PK
        <4>3. CASE col.constraint # "PK"
          BY <2>1, <3>2, <4>1, <4>3
        <4> QED
          BY <4>2, <4>3
      <3>5. table_desc'.PK_index # NO_PK => has_PK'
        BY <2>1, <3>1, <3>2
      <3> QED
        BY <2>1, <3>1, <3>2, <3>3, <3>4, <3>5
    <2> QED
      BY <2>2, <2>3
  <1>11. ASSUME NEW header \in BOOLEAN, Generate(header) PROVE CollectInv'
    BY <1>11 DEF Generate
  <1>12. CASE UseFreed
    BY <1>12 DEF UseFreed
  <1>13. CASE GenerateUndefined
    BY <1>13 DEF GenerateUndefined
  <1>14. CASE UNCHANGED vars
    BY <1>14 DEF vars
  <1> QED
    BY <1>1, <1>2, <1>3, <1>4, <1>5, <1>6, <1>7, <1>8, <1>9, <1>10, <1>11, <1>12,
       <1>13, <1>14 DEF Next, Ended

\* Every step keeps the bounds.
LEMMA BoundsStep ==
    ASSUME Shapes, CollectInv, Bounds, [Next]_vars
    PROVE  Bounds'
  <1> USE DEF Bounds, TypeOK
  <1>1. CASE Open
    <2>1. MaxColumns \in Nat
      BY GeneratorAssumption
    <2> QED
      BY <1>1, <2>1 DEF Open, NoTable, NO_PK
  <1>2. CASE OpenFails
    <2>1. MaxFiles \in Nat /\ MaxColumns \in Nat
      BY GeneratorAssumption
    <2> QED
      BY <1>2, <2>1 DEF OpenFails, NoTable, NO_PK
  <1>3. CASE EmptyFile
    BY <1>3 DEF EmptyFile
  <1>4. ASSUME NEW d \in Declarations, ParseType(d) PROVE Bounds'
    BY <1>4 DEF ParseType
  <1>5. CASE ParseConstraint
    BY <1>5 DEF ParseConstraint
  <1>6. CASE ParseColumn
    <2>1. Len(columns_list') = Len(columns_list) + 1 /\ Len(columns_list) \in Nat
      BY <1>6 DEF ParseColumn, Shapes
    <2>2. Len(columns_list') <= MaxColumns
      <3>1. Len(columns_list) < MaxColumns
        BY <1>6 DEF ParseColumn
      <3>2. MaxColumns \in Nat
        BY GeneratorAssumption
      <3> QED
        BY <2>1, <3>1, <3>2
    <2> QED
      BY <1>6, <2>2 DEF ParseColumn
  <1>7. CASE ParseComma
    BY <1>7 DEF ParseComma
  <1>8. ASSUME NEW name \in Names, NEW foreign \in Names,
               ParseForeignKey(name, foreign) PROVE Bounds'
    <2>1. Len(columns_list') = Len(columns_list)
      BY <1>8 DEF ParseForeignKey, Shapes
    <2> QED
      BY <1>8, <2>1 DEF ParseForeignKey
  <1>9. ASSUME NEW ok \in BOOLEAN, ParseEnd(ok) PROVE Bounds'
    <2>1. table_desc'.columns = <<>> /\ table_desc'.PK_index = 0
      BY <1>9 DEF ParseEnd, NoTable, NO_PK
    <2>2. MaxColumns \in Nat
      BY GeneratorAssumption
    <2> QED
      BY <1>9, <2>1, <2>2 DEF ParseEnd
  <1>10. CASE Collect
    <2> DEFINE col == columns_list[i + 1]
    <2>1. /\ Len(columns_list) \in Nat /\ i \in Nat /\ MaxColumns \in Nat
          /\ i < Len(columns_list) /\ i' = i + 1
      BY <1>10, GeneratorAssumption DEF Collect, Shapes
    <2>2. i' \in 0 .. MaxColumns + 1
      BY <2>1
    <2>3. table_desc'.PK_index \in 0 .. Len(table_desc'.columns)
      <3>1. CASE col.constraint = "PK" /\ has_PK
        BY <1>10, <3>1 DEF Collect
      <3>2. CASE ~(col.constraint = "PK" /\ has_PK)
        <4>1. /\ Len(table_desc'.columns) = i + 1
              /\ table_desc'.PK_index \in {i + 1, table_desc.PK_index}
          <5>1. /\ table_desc'.columns = Append(table_desc.columns, col)
                /\ table_desc'.PK_index \in {i + 1, table_desc.PK_index}
            BY <1>10, <3>2 DEF Collect, Shapes
          <5>2. table_desc.columns \in Seq(Columns) /\ Len(table_desc.columns) = i
            BY <1>10 DEF Collect, CollectInv, Shapes
          <5> QED
            BY <5>1, <5>2
        <4>2. table_desc.PK_index \in 0 .. i
          BY <1>10 DEF Collect, CollectInv
        <4> QED
          BY <2>1, <4>1, <4>2
      <3> QED
        BY <3>1, <3>2
    <2>4. phase' \in {"collect", "two_keys"} /\ has_PK' \in BOOLEAN
      BY <1>10 DEF Collect
    <2> QED
      BY <1>10, <2>2, <2>3, <2>4 DEF Collect
  <1>11. ASSUME NEW header \in BOOLEAN, Generate(header) PROVE Bounds'
    <2>1. argv_index' = argv_index + 1 /\ argv_index <= MaxFiles /\ MaxFiles \in Nat
      BY <1>11, GeneratorAssumption DEF Generate
    <2>2. /\ phase' = "open" /\ columns_list' = <<>> /\ table_desc' = NoTable
          /\ UNCHANGED <<has_PK, i>>
      BY <1>11 DEF Generate
    <2>3. MaxColumns \in Nat
      BY GeneratorAssumption
    <2> QED
      BY <2>1, <2>2, <2>3 DEF NoTable, NO_PK
  <1>12. CASE UseFreed
    BY <1>12 DEF UseFreed
  <1>13. CASE GenerateUndefined
    BY <1>13 DEF GenerateUndefined
  <1>14. CASE UNCHANGED vars
    BY <1>14 DEF vars
  <1> QED
    BY <1>1, <1>2, <1>3, <1>4, <1>5, <1>6, <1>7, <1>8, <1>9, <1>10, <1>11, <1>12,
       <1>13, <1>14 DEF Next, Ended

\* Every step keeps what is known of the unit that was written last.
LEMMA OutStep ==
    ASSUME Shapes, ReadInv, CollectInv, OutInv, [Next]_vars
    PROVE  OutInv'
  <1> USE DEF OutInv
  <1>1. CASE Open
    <2>1. out' = NoUnit /\ out'.columns = <<>>
      BY <1>1 DEF Open, NoUnit
    <2>2. DistinctNames(<<>>)
      BY DEF DistinctNames
    <2> QED
      BY <2>1, <2>2 DEF Described
  <1>2. CASE OpenFails
    <2>1. UNCHANGED out
      BY <1>2 DEF OpenFails
    <2> QED
      BY <2>1 DEF Described
  <1>3. CASE EmptyFile
    <2>1. UNCHANGED out
      BY <1>3 DEF EmptyFile
    <2> QED
      BY <2>1 DEF Described
  <1>4. ASSUME NEW d \in Declarations, ParseType(d) PROVE OutInv'
    <2>1. UNCHANGED out
      BY <1>4 DEF ParseType
    <2> QED
      BY <2>1 DEF Described
  <1>5. CASE ParseConstraint
    <2>1. UNCHANGED out
      BY <1>5 DEF ParseConstraint
    <2> QED
      BY <2>1 DEF Described
  <1>6. CASE ParseColumn
    <2>1. UNCHANGED out
      BY <1>6 DEF ParseColumn
    <2> QED
      BY <2>1 DEF Described
  <1>7. CASE ParseComma
    <2>1. UNCHANGED out
      BY <1>7 DEF ParseComma
    <2> QED
      BY <2>1 DEF Described
  <1>8. ASSUME NEW name \in Names, NEW foreign \in Names,
               ParseForeignKey(name, foreign) PROVE OutInv'
    <2>1. UNCHANGED out
      BY <1>8 DEF ParseForeignKey
    <2> QED
      BY <2>1 DEF Described
  <1>9. ASSUME NEW ok \in BOOLEAN, ParseEnd(ok) PROVE OutInv'
    <2>1. UNCHANGED out
      BY <1>9 DEF ParseEnd
    <2> QED
      BY <2>1 DEF Described
  <1>10. CASE Collect
    <2>1. UNCHANGED out
      BY <1>10 DEF Collect
    <2> QED
      BY <2>1 DEF Described
  <1>11. ASSUME NEW header \in BOOLEAN, Generate(header) PROVE OutInv'
    <2>1. /\ phase = "collect" /\ i = Len(columns_list) /\ phase' = "open"
          /\ out'.columns = table_desc.columns /\ out'.input = input
          /\ out'.PK_index = table_desc.PK_index /\ table_desc.named
      BY <1>11 DEF Generate
    <2>2. /\ input \in Inputs /\ DOMAIN input.columns = 1..Len(input.columns)
          /\ columns_list \in Seq(Columns) /\ table_desc.columns \in Seq(Columns)
          /\ DOMAIN columns_list = 1..i /\ DOMAIN table_desc.columns = 1..i
          /\ Len(input.columns) = i
      BY <2>1 DEF Shapes, Inputs, CollectInv
    <2>3. \A c \in 1..i : table_desc.columns[c] = Meaning(input)[c]
      BY <2>1, <2>2 DEF CollectInv, ReadInv
    <2>4. table_desc.columns = Meaning(input)
      <3>1. table_desc.columns = [c \in 1..i |-> table_desc.columns[c]]
        BY <2>2
      <3>2. Meaning(input) = [c \in 1..i |-> Meaning(input)[c]]
        BY <2>2 DEF Meaning
      <3> QED
        BY <2>3, <3>1, <3>2
    <2>5. DistinctNames(table_desc.columns)
      BY <2>1, <2>2 DEF DistinctNames, CollectInv, ReadInv
    <2>6. PrimaryKeys(table_desc.columns) = {table_desc.PK_index} \ {NO_PK}
      BY <2>1 DEF CollectInv
    <2> QED
      BY <2>1, <2>4, <2>5, <2>6 DEF Described
  <1>12. CASE UseFreed
    BY <1>12 DEF UseFreed, Described
  <1>13. CASE GenerateUndefined
    BY <1>13 DEF GenerateUndefined, Described
  <1>14. CASE UNCHANGED vars
    BY <1>14 DEF vars, Described
  <1> QED
    BY <1>1, <1>2, <1>3, <1>4, <1>5, <1>6, <1>7, <1>8, <1>9, <1>10, <1>11, <1>12,
       <1>13, <1>14 DEF Next, Ended

\* The five parts hold together.
LEMMA GeneratorInvariant ==
    Spec => [](Shapes /\ Bounds /\ ReadInv /\ CollectInv /\ OutInv)
  <1>1. Init => Shapes /\ Bounds /\ ReadInv /\ CollectInv /\ OutInv
    <2> SUFFICES ASSUME Init PROVE Shapes /\ Bounds /\ ReadInv /\ CollectInv /\ OutInv
      OBVIOUS
    <2> USE DEF Init
    <2>1. Shapes
      <3>1. argv_index \in Nat \ {0} /\ i \in Nat
        OBVIOUS
      <3>2. has_PK \in BOOLEAN
        BY Zenon
      <3> QED
        BY <3>1, <3>2, StartValues DEF Shapes
    <2>2. Bounds
      <3>1. MaxFiles \in Nat /\ MaxColumns \in Nat
        BY GeneratorAssumption
      <3>2. /\ argv_index \in 1 .. MaxFiles + 1 /\ i \in 0 .. MaxColumns + 1
            /\ Len(columns_list) <= MaxColumns
        BY <3>1
      <3>3. table_desc.PK_index \in 0 .. Len(table_desc.columns)
        BY DEF NoTable, NO_PK
      <3> QED
        BY <3>2, <3>3 DEF Bounds, TypeOK
    <2>3. ReadInv /\ CollectInv
      BY DEF ReadInv, CollectInv, Parsing
    <2>4. OutInv
      BY DEF OutInv, Described, DistinctNames, NoUnit
    <2> QED
      BY <2>1, <2>2, <2>3, <2>4
  <1>2. Shapes /\ Bounds /\ ReadInv /\ CollectInv /\ OutInv /\ [Next]_vars
        => (Shapes /\ Bounds /\ ReadInv /\ CollectInv /\ OutInv)'
    BY ShapesStep, BoundsStep, ReadStep, CollectStep, OutStep
  <1> QED
    BY <1>1, <1>2, PTL DEF Spec
-----------------------------------------------------------------------------
(* The properties.                                                         *)

\* Counters, phases and the index of the primary key stay in their bounds.
THEOREM GeneratorTypes == Spec => []TypeOK
  <1>1. Bounds => TypeOK
    BY DEF Bounds
  <1> QED
    BY <1>1, GeneratorInvariant, PTL

\* A unit that main writes says what its file says, whatever was read before
\* it with the same global descriptors.
THEOREM UnitsDescribed == Spec => []Described
  <1>1. OutInv => Described
    BY DEF OutInv
  <1> QED
    BY <1>1, GeneratorInvariant, PTL

\* The tables for which header and C file agree: columns with different names
\* are enough, whatever their types and constraints.
LEMMA FilesCompared ==
    ASSUME NEW cols \in Seq(Columns), DistinctNames(cols)
    PROVE  (/\ HeaderFunctions(cols) = CFunctions(cols)
            /\ \A f, g \in HeaderFunctions(cols) : f[1] = g[1] /\ f[2] = g[2] => f = g)
           <=> \A c \in DOMAIN cols : /\ cols[c].type # "DOUBLE"
                                      /\ ~(IsKey(cols[c]) /\ cols[c].type = "BLOB")
  <1> DEFINE Declares(c) == DeclaredSet(cols[c]) \cup DeclaredBy(cols[c])
             Defines(c)  == DefinedSet(cols[c]) \cup DefinedBy(cols[c])
             Good(c) == /\ cols[c].type # "DOUBLE"
                        /\ ~(IsKey(cols[c]) /\ cols[c].type = "BLOB")
             Kinds == {"set", "delete_by", "select_by"}
  <1>1. /\ HeaderFunctions(cols) = UNION {Declares(c) : c \in DOMAIN cols}
        /\ CFunctions(cols) = UNION {Defines(c) : c \in DOMAIN cols}
    BY DEF HeaderFunctions, CFunctions
  <1>2. ASSUME NEW c \in DOMAIN cols, Good(c)
        PROVE  /\ Declares(c) = Defines(c)
               /\ \A f \in Declares(c) : f = <<f[1], cols[c].name, cols[c].type>>
    BY <1>2 DEF DeclaredSet, DefinedSet, DeclaredBy, DefinedBy
  <1>3. ASSUME NEW c \in DOMAIN cols, NEW f \in Declares(c)
        PROVE  f[1] \in Kinds
    BY DEF DeclaredSet, DeclaredBy
  <1>4. ASSUME NEW c \in DOMAIN cols, cols[c].type = "DOUBLE"
        PROVE  {<<"set", cols[c].name, "DOUBLE">>, <<"set", cols[c].name, "BLOB">>}
                   \subseteq Declares(c)
    BY <1>4 DEF DeclaredSet
  <1>5. ASSUME NEW c \in DOMAIN cols, IsKey(cols[c]), cols[c].type = "BLOB"
        PROVE  <<"brace", cols[c].name, "BLOB">> \in Defines(c)
    BY <1>5 DEF DefinedBy
  <1> HIDE DEF Declares, Defines
  <1>6. ASSUME \A c \in DOMAIN cols : Good(c)
        PROVE  /\ HeaderFunctions(cols) = CFunctions(cols)
               /\ \A f, g \in HeaderFunctions(cols) : f[1] = g[1] /\ f[2] = g[2] => f = g
    <2>1. HeaderFunctions(cols) = CFunctions(cols)
      BY <1>1, <1>2, <1>6
    <2>2. ASSUME NEW f \in HeaderFunctions(cols), NEW g \in HeaderFunctions(cols),
                 f[1] = g[1], f[2] = g[2]
          PROVE  f = g
      <3>1. PICK c \in DOMAIN cols : f \in Declares(c)
        BY <1>1
      <3>2. PICK d \in DOMAIN cols : g \in Declares(d)
        BY <1>1
      <3>3. /\ f = <<f[1], cols[c].name, cols[c].type>>
            /\ g = <<g[1], cols[d].name, cols[d].type>>
        BY <1>2, <1>6, <3>1, <3>2
      <3>4. c = d
        <4>1. f[2] = cols[c].name /\ g[2] = cols[d].name
          BY <3>3
        <4> QED
          BY <2>2, <4>1 DEF DistinctNames
      <3> QED
        BY <2>2, <3>3, <3>4
    <2> QED
      BY <2>1, <2>2
  <1>7. ASSUME HeaderFunctions(cols) = CFunctions(cols),
               \A f, g \in HeaderFunctions(cols) : f[1] = g[1] /\ f[2] = g[2] => f = g,
               NEW c \in DOMAIN cols
        PROVE  Good(c)
    <2>1. cols[c].type # "DOUBLE"
      <3> SUFFICES ASSUME cols[c].type = "DOUBLE" PROVE FALSE
        OBVIOUS
      <3> DEFINE f == <<"set", cols[c].name, "DOUBLE">>
                 g == <<"set", cols[c].name, "BLOB">>
      <3>1. f \in HeaderFunctions(cols) /\ g \in HeaderFunctions(cols)
        BY <1>1, <1>4
      <3>2. f[1] = g[1] /\ f[2] = g[2] /\ f # g
        OBVIOUS
      <3> HIDE DEF f, g
      <3> QED
        BY <1>7, <3>1, <3>2
    <2>2. ~(IsKey(cols[c]) /\ cols[c].type = "BLOB")
      <3> SUFFICES ASSUME IsKey(cols[c]), cols[c].type = "BLOB" PROVE FALSE
        OBVIOUS
      <3> DEFINE f == <<"brace", cols[c].name, "BLOB">>
      <3>1. f \in Defines(c)
        BY <1>5
      <3>2. f[1] \notin Kinds
        OBVIOUS
      <3> HIDE DEF f
      <3>3. f \in HeaderFunctions(cols)
        BY <1>1, <1>7, <3>1
      <3> QED
        BY <1>1, <1>3, <3>2, <3>3
    <2> QED
      BY <2>1, <2>2
  <1> QED
    BY <1>6, <1>7

\* For exactly the tables without a REAL column and without a key of type BLOB
\* the header declares what the C file defines, once each.
THEOREM HeaderMatches == Spec => []FilesAgree
  <1>1. Shapes /\ OutInv => FilesAgree
    <2> SUFFICES ASSUME Shapes, OutInv PROVE FilesAgree
      OBVIOUS
    <2>1. out.columns \in Seq(Columns) /\ DistinctNames(out.columns)
      BY DEF Shapes, OutInv
    <2> QED
      BY <2>1, FilesCompared DEF FilesAgree
  <1> QED
    BY <1>1, GeneratorInvariant, PTL

\* The words that sorm.c takes for the stat and the length of a column lie in
\* that column, for tables of any length and columns of any size.
THEOREM AccessorsSafe == Spec => []AccessorsInStruct
  <1>1. Shapes => AccessorsInStruct
    <2> SUFFICES ASSUME Shapes, NEW c \in DOMAIN out.columns
                 PROVE  /\ \A m \in {ILP32, LP64} :
                              SlotsApart(m, Start(m, out.columns, c), out.columns[c])
                        /\ SlotsAreMembers(ILP32, Start(ILP32, out.columns, c), out.columns[c])
      BY DEF AccessorsInStruct
    <2>1. out.columns \in Seq(Columns)
      BY DEF Shapes
    <2>2. out.columns[c] \in Columns
      BY <2>1
    <2>3. \A m \in {ILP32, LP64} : Start(m, out.columns, c) \in Nat
      BY <2>1, StartDefined
    <2> QED
      BY <2>2, <2>3, SlotsApartAnywhere, SlotsAreMembersAnywhere
  <1> QED
    BY <1>1, GeneratorInvariant, PTL
=============================================================================
