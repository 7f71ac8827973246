----------------------------- MODULE Generator -----------------------------
(***************************************************************************)
(* sorm_generate: main of src/src/generate.c, the actions of               *)
(* parser_yacc.y, and what header_generate.c and c_generate.c write.       *)
(*                                                                         *)
(* The parser fills global descriptors as it reduces: column_desc is the   *)
(* column being read, columns_list the columns read.  main then copies the *)
(* list into the table descriptor, looks for the primary key and writes    *)
(* the two files.  Tokens are left to the parser; each action here is a    *)
(* reduction.  A use of freed memory, of a null name or file, or of a      *)
(* pointer that nothing has set is UNDEFINED, after which nothing is said  *)
(* about the program.                                                      *)
(***************************************************************************)
EXTENDS Layout, FiniteSets

CONSTANTS
    Names,       \* names of columns and foreign tables
    MaxFiles,    \* bound: argc - 1
    MaxColumns,  \* bound: columns of a table
    MaxKeys,     \* bound: foreign keys of a table
    MaxLens      \* the lengths that a TEXT(n) or BLOB(n) declares

ASSUME GeneratorAssumption ==
    {MaxFiles, MaxColumns, MaxKeys} \cup MaxLens \subseteq Nat

VARIABLES
    argv_index, phase,
    has_PK,         \* a primary key was seen, in this file or an earlier one
    table_desc,     \* [named, columns, PK_index]
    columns_list,   \* the columns read, in order
    column_desc,    \* the column that is being read
    i,              \* columns copied from the list
    input,          \* what the current file says: [columns, keys]
    out             \* the last unit written: [columns, PK_index, input, header]

vars == <<argv_index, phase, has_PK, table_desc, columns_list, column_desc, i,
          input, out>>

NO_PK   == 0     \* SORM_NO_PK; columns count from 1 here
NoName  == "NULL"
Zeroed  == [name |-> NoName, type |-> "INT", mem |-> "NONE", max_len |-> 0,
            constraint |-> "NONE", foreign |-> NoName]
NoTable == [named |-> FALSE, columns |-> <<>>, PK_index |-> NO_PK]
NoInput == [columns |-> <<>>, keys |-> <<>>]
NoUnit  == [columns |-> <<>>, PK_index |-> NO_PK, input |-> NoInput,
            header |-> FALSE]

\* What the text of a column may declare (column_def, column_type, text_type,
\* blob_type, use_column_constraint).  PRIMARY KEY ASC and DESC are treated as
\* PRIMARY KEY is.
Declaration(name, type, mem, n, constraint) ==
    [name |-> name, type |-> type, mem |-> mem, max_len |-> n,
     constraint |-> constraint]
Declarations ==
    {Declaration(name, t, "NONE", 0, k) :
        name \in Names, t \in {"INT", "INT64", "DOUBLE"}, k \in {"NONE", "PK", "UNIQUE"}}
    \cup {Declaration(name, t, "HEAP", 0, k) :
        name \in Names, t \in {"TEXT", "BLOB"}, k \in {"NONE", "PK", "UNIQUE"}}
    \cup {Declaration(name, t, "STACK", n, k) :
        name \in Names, t \in {"TEXT", "BLOB"}, n \in MaxLens,
        k \in {"NONE", "PK", "UNIQUE"}}

Init ==
    /\ argv_index = 1 /\ phase = "open"
    /\ has_PK = FALSE
    /\ table_desc = NoTable /\ columns_list = <<>> /\ column_desc = Zeroed
    /\ i = 0
    /\ input = NoInput /\ out = NoUnit

----------------------------------------------------------------------------
(* The loop of main over the files                                         *)

Open ==
    /\ phase = "open" /\ argv_index <= MaxFiles
    /\ phase' = "column"
    /\ table_desc' = NoTable /\ columns_list' = <<>> /\ column_desc' = Zeroed
    /\ input' = NoInput /\ out' = NoUnit
    /\ UNCHANGED <<argv_index, has_PK, i>>

\* fopen fails: the next file.
OpenFails ==
    /\ phase = "open" /\ argv_index <= MaxFiles
    /\ argv_index' = argv_index + 1
    /\ table_desc' = NoTable /\ columns_list' = <<>> /\ column_desc' = Zeroed
    /\ UNCHANGED <<phase, has_PK, i, input, out>>

\* Nothing can be read for create_sql: main returns -1.
EmptyFile ==
    /\ phase = "column" /\ columns_list = <<>>
    /\ phase' = "exit"
    /\ UNCHANGED <<argv_index, has_PK, table_desc, columns_list, column_desc, i,
                   input, out>>

----------------------------------------------------------------------------
(* Reductions of the parser                                                *)

Declared == input.columns[Len(input.columns)]

\* The name and type of the next column, which the file declares as d.  The
\* names of a table differ.  A number sets nothing but the type.
ParseType(d) ==
    /\ phase = "column" /\ Len(columns_list) < MaxColumns
    /\ \A c \in DOMAIN columns_list : columns_list[c].name # d.name
    /\ column_desc' = IF d.mem = "NONE" THEN [column_desc EXCEPT !.type = d.type]
                      ELSE [column_desc EXCEPT !.type = d.type, !.mem = d.mem,
                                               !.max_len = d.max_len]
    /\ input' = [input EXCEPT !.columns = Append(@, d)]
    /\ phase' = "typed"
    /\ UNCHANGED <<argv_index, has_PK, table_desc, columns_list, i, out>>

\* use_column_constraint
ParseConstraint ==
    /\ phase = "typed" /\ Declared.constraint # "NONE"
    /\ column_desc' = [column_desc EXCEPT !.constraint = Declared.constraint]
    /\ phase' = "constrained"
    /\ UNCHANGED <<argv_index, has_PK, table_desc, columns_list, i, input, out>>

\* Mutant: the next column goes on with the descriptor of this one.
ParseColumnKept ==
    /\ \/ phase = "typed" /\ Declared.constraint = "NONE"
       \/ phase = "constrained"
    /\ columns_list' = Append(columns_list, [column_desc EXCEPT !.name = Declared.name])
    /\ column_desc' = [column_desc EXCEPT !.name = Declared.name]
    /\ phase' = "columns"
    /\ UNCHANGED <<argv_index, has_PK, table_desc, i, input, out>>

\* column_def: parse_column appends the descriptor and starts a zeroed one.
ParseColumn ==
    /\ \/ phase = "typed" /\ Declared.constraint = "NONE"
       \/ phase = "constrained"
    /\ columns_list' = Append(columns_list, [column_desc EXCEPT !.name = Declared.name])
    /\ column_desc' = Zeroed
    /\ phase' = "columns"
    /\ UNCHANGED <<argv_index, has_PK, table_desc, i, input, out>>

\* columns_def goes on after a comma.
ParseComma ==
    /\ phase = "columns" /\ Len(columns_list) < MaxColumns
    /\ phase' = "column"
    /\ UNCHANGED <<argv_index, has_PK, table_desc, columns_list, column_desc, i,
                   input, out>>

\* table_def: FOREIGN KEY(name) REFERENCES foreign(...).  A name that no
\* column has is ignored.
ParseForeignKey(name, foreign) ==
    /\ phase \in {"columns", "tables"} /\ Len(input.keys) < MaxKeys
    /\ columns_list' = [c \in DOMAIN columns_list |->
           IF columns_list[c].name = name
           THEN [columns_list[c] EXCEPT !.foreign = foreign]
           ELSE columns_list[c]]
    /\ input' = [input EXCEPT !.keys = Append(@, <<name, foreign>>)]
    /\ phase' = "tables"
    /\ UNCHANGED <<argv_index, has_PK, table_desc, column_desc, i, out>>

\* statement, or an error: main does not look at the result of yyparse, and
\* goes on with an unnamed table.
ParseEnd(ok) ==
    /\ ok => phase \in {"columns", "tables"}
    /\ phase \in {"column", "typed", "constrained", "columns", "tables"}
    /\ table_desc' = [NoTable EXCEPT !.named = ok]
    /\ phase' = "collect" /\ i' = 0
    /\ UNCHANGED <<argv_index, has_PK, columns_list, column_desc, input, out>>

----------------------------------------------------------------------------
(* After the parser                                                        *)

\* Mutant: the index is taken after it was advanced.
CollectLate ==
    /\ phase = "collect" /\ i < Len(columns_list)
    /\ LET col == columns_list[i + 1] IN
       IF col.constraint = "PK" /\ has_PK
       THEN phase' = "two_keys" /\ UNCHANGED <<has_PK, table_desc>>
       ELSE /\ phase' = phase
            /\ has_PK' = (has_PK \/ col.constraint = "PK")
            /\ table_desc' =
                  [table_desc EXCEPT !.columns = Append(@, col),
                      !.PK_index = IF col.constraint = "PK" THEN i + 2 ELSE @]
    /\ i' = i + 1
    /\ UNCHANGED <<argv_index, columns_list, column_desc, input, out>>

\* One round of the loop that empties the list.  has_PK is not reset for the
\* file; at a second key main says that there should be only one in a table.
Collect ==
    /\ phase = "collect" /\ i < Len(columns_list)
    /\ LET col == columns_list[i + 1] IN
       IF col.constraint = "PK" /\ has_PK
       THEN phase' = "two_keys" /\ UNCHANGED <<has_PK, table_desc>>
       ELSE /\ phase' = phase
            /\ has_PK' = (has_PK \/ col.constraint = "PK")
            /\ table_desc' =
                  [table_desc EXCEPT !.columns = Append(@, col),
                      !.PK_index = IF col.constraint = "PK" THEN i + 1 ELSE @]
    /\ i' = i + 1
    /\ UNCHANGED <<argv_index, columns_list, column_desc, input, out>>

\* The list and the table were freed with the message; the loop goes on to use
\* them.
UseFreed ==
    /\ phase = "two_keys"
    /\ phase' = "UNDEFINED"
    /\ UNCHANGED <<argv_index, has_PK, table_desc, columns_list, column_desc, i,
                   input, out>>

\* header_generate and c_generate.  When fopen fails for the header, which is
\* then said with a name already freed, c_generate writes its file all the same.
Generate(header) ==
    /\ phase = "collect" /\ i = Len(columns_list) /\ table_desc.named
    /\ out' = [columns |-> table_desc.columns, PK_index |-> table_desc.PK_index,
               input |-> input, header |-> header]
    /\ phase' = "open"
    /\ argv_index' = argv_index + 1
    /\ table_desc' = NoTable /\ columns_list' = <<>>
    /\ input' = NoInput
    /\ UNCHANGED <<has_PK, column_desc, i>>

\* Both begin with the length of the name, which is null after an error of the
\* parser; c_generate prints to a null file when its fopen fails; and
\* c_generate_func_select frees upper_table_name, which nothing has set, for
\* every table.  Whether the program survives that is chance.
GenerateUndefined ==
    /\ phase = "collect" /\ i = Len(columns_list)
    /\ phase' = "UNDEFINED"
    /\ UNCHANGED <<argv_index, has_PK, table_desc, columns_list, column_desc, i,
                   input, out>>

\* main has returned, or nothing is known of it.
Ended ==
    /\ \/ phase \in {"exit", "UNDEFINED"}
       \/ phase = "open" /\ argv_index > MaxFiles
    /\ UNCHANGED vars

Next ==
    \/ Open \/ OpenFails \/ EmptyFile
    \/ \E d \in Declarations : ParseType(d)
    \/ ParseConstraint \/ ParseColumn \/ ParseComma
    \/ \E name, foreign \in Names : ParseForeignKey(name, foreign)
    \/ \E ok \in BOOLEAN : ParseEnd(ok)
    \/ Collect \/ UseFreed
    \/ \E header \in BOOLEAN : Generate(header)
    \/ GenerateUndefined \/ Ended

Spec == Init /\ [][Next]_vars

----------------------------------------------------------------------------
(* What the files declare and define                                       *)

IsKey(col) == col.constraint \in {"PK", "UNIQUE"}

\* header_generate_func_set_mem: the case of DOUBLE falls through to BLOB.
DeclaredSet(col) ==
    {<<"set", col.name, col.type>>}
    \cup (IF col.type = "DOUBLE" THEN {<<"set", col.name, "BLOB">>} ELSE {})

\* c_generate_func_set_mem
DefinedSet(col) == {<<"set", col.name, col.type>>}

\* Mutant: 64 bit keys are forgotten.
ByColumnShort(col) ==
    IF IsKey(col) /\ col.type \notin {"BLOB", "INT64"}
    THEN {<<"delete_by", col.name, col.type>>, <<"select_by", col.name, col.type>>}
    ELSE {}

\* header_generate_func_delete and header_generate_func_select
DeclaredBy(col) ==
    IF IsKey(col) /\ col.type # "BLOB"
    THEN {<<"delete_by", col.name, col.type>>, <<"select_by", col.name, col.type>>}
    ELSE {}

\* c_generate_func_delete and c_generate_func_select: a key of type BLOB gets
\* the closing brace of a function that is not there.
DefinedBy(col) ==
    IF IsKey(col)
    THEN IF col.type = "BLOB" THEN {<<"brace", col.name, col.type>>}
         ELSE {<<"delete_by", col.name, col.type>>, <<"select_by", col.name, col.type>>}
    ELSE {}

\* The functions that every table has are the same in both files.
HeaderFunctions(cols) ==
    UNION {DeclaredSet(cols[c]) \cup DeclaredBy(cols[c]) : c \in DOMAIN cols}
CFunctions(cols) ==
    UNION {DefinedSet(cols[c]) \cup DefinedBy(cols[c]) : c \in DOMAIN cols}

----------------------------------------------------------------------------
(* Properties                                                              *)

PrimaryKeys(cols) == {c \in DOMAIN cols : cols[c].constraint = "PK"}

\* The table that the last foreign key clause for a column names.
Foreign(keys, name) ==
    LET clauses == {k \in DOMAIN keys : keys[k][1] = name}
    IN  IF clauses = {} THEN NoName
        ELSE keys[CHOOSE k \in clauses : \A l \in clauses : l <= k][2]

\* What the text of a file means: its columns in order, each with its foreign
\* table.
Meaning(inp) ==
    [c \in DOMAIN inp.columns |->
        LET d == inp.columns[c] IN
        [name |-> d.name, type |-> d.type, mem |-> d.mem, max_len |-> d.max_len,
         constraint |-> d.constraint, foreign |-> Foreign(inp.keys, d.name)]]

TypeOK ==
    /\ argv_index \in 1 .. MaxFiles + 1
    /\ phase \in {"open", "column", "typed", "constrained", "columns", "tables",
                  "collect", "two_keys", "exit", "UNDEFINED"}
    /\ has_PK \in BOOLEAN
    /\ i \in 0 .. MaxColumns + 1
    /\ Len(columns_list) <= MaxColumns
    /\ table_desc.PK_index \in 0 .. Len(table_desc.columns)

\* The descriptor of a unit that is written says what its file says, whatever
\* files and columns were read before it with the same global descriptors: the
\* same columns with nothing left over from an earlier one, foreign keys on
\* the columns they name, and the index of the primary key.
Described ==
    out # NoUnit =>
        /\ out.columns = Meaning(out.input)
        /\ PrimaryKeys(out.columns) = {out.PK_index} \ {NO_PK}

\* "There should be only one Primary Key in a table." is said of a table that
\* has more than one (generate.c, the loop over the columns of a file).
TwoKeysInTable ==
    phase = "two_keys" => Cardinality(PrimaryKeys(input.columns)) > 1

\* The functions that the header declares are those that the C file defines,
\* with the same types and once each, for exactly the tables without a REAL
\* column and without a key of type BLOB, when both files could be opened.
FilesAgree ==
    out.header =>
        LET cols == out.columns
            once == \A f, g \in HeaderFunctions(cols) :
                        f[1] = g[1] /\ f[2] = g[2] => f = g
        IN  (HeaderFunctions(cols) = CFunctions(cols) /\ once)
            <=> \A c \in DOMAIN cols : /\ cols[c].type # "DOUBLE"
                                       /\ ~(IsKey(cols[c]) /\ cols[c].type = "BLOB")

\* The words in front of a value that sorm.c reads and writes as its stat and
\* length lie behind the value of the column before, on every data model; with
\* words and pointers of the same size they are the members _stat and _len.
AccessorsInStruct ==
    \A c \in DOMAIN out.columns :
        LET col == out.columns[c] IN
        /\ \A m \in {ILP32, LP64} : SlotsApart(m, Start(m, out.columns, c), col)
        /\ SlotsAreMembers(ILP32, Start(ILP32, out.columns, c), col)
=============================================================================
