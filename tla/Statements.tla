----------------------------- MODULE Statements -----------------------------
(***************************************************************************)
(* How src/sorm.c makes a statement: each call prints pieces of text, one  *)
(* snprintf after the other, into a buffer of SQL_STMT_MAX_LEN + 1 bytes,  *)
(* repairs the last separator, hands the text to sqlite3_prepare and binds *)
(* a value to every placeholder.  A filter by column quotes its value with *)
(* _fix_string (FixString), and a select reads its list of columns again   *)
(* to find the positions of the columns (SelectColumns).                   *)
(*                                                                         *)
(* One behaviour is one call.  A piece of text is a record of its kind,    *)
(* what it says and its length; a call is a program of prints and repairs, *)
(* run step by step.                                                       *)
(***************************************************************************)
EXTENDS Integers, Sequences, FiniteSets, SequencesExt

CONSTANTS
    MaxString,  \* bound: length of the strings that are quoted
    MaxBuffer,  \* bound: parameter len of sorm_fix_string
    Columns,    \* the columns of each table, see SelectColumns
    MaxItems,   \* bound: length of a list of columns
    Constraints, \* the constraint of each column of the first table, or NONE
    Foreign,    \* the columns of the first table that are foreign keys
    NameLength, \* length of every name
    StmtMaxes,  \* the values of SQL_STMT_MAX_LEN
    CallerLens  \* lengths of the text a caller passes

\* The columns of the first table, and sorm_is_unique_column.
Numbers == DOMAIN Columns[1]
Unique == {j \in Numbers : Constraints[j] # "NONE"}

ASSUME StatementsAssumption ==
    /\ MaxString \in Nat /\ MaxBuffer \in Nat /\ MaxItems \in Nat
    /\ Columns \in Seq(Seq(STRING)) /\ Len(Columns) >= 2
    /\ \A t \in DOMAIN Columns : IsInjective(Columns[t]) /\ Columns[t] # <<>>
    /\ Constraints \in [Numbers -> {"PRIMARY KEY", "PRIMARY KEY DESC",
                                    "PRIMARY KEY ASC", "UNIQUE", "NONE"}]
    /\ Foreign \subseteq Numbers
    /\ NameLength \in Nat \ {0}
    /\ StmtMaxes \subseteq Nat \ {0}
    /\ CallerLens \subseteq Nat

\* The text in the format strings.  The proofs take the lengths from here.
Literals ==
    {" ", " (", " = ", " AND", " FOREIGN KEY(", " FROM ", " INTO ", " ON ",
     " SET", " VALUES (", " WHERE ", " WHERE", " { ", "'", "(", ") REFERENCES ",
     ")", "); ", ",", "; ", "=", "=?", "?", "CREATE INDEX ",
     "CREATE INDEX IF NOT EXISTS index_", "CREATE TABLE IF NOT EXISTS ",
     "DELETE FROM ", "DROP INDEX index_", "DROP TABLE ", "INSERT", "INTEGER",
     "REPLACE", "SELECT ", "UPDATE ", "WHERE ", "_index ON ", "null", "}",
     "INNER JOIN", "LEFT JOIN", "PRIMARY KEY", "PRIMARY KEY DESC",
     "PRIMARY KEY ASC", "UNIQUE"}

ASSUME LiteralLengths ==
    /\ \A s \in Literals : Len(s) \in Nat \ {0}
    /\ Len(",") = 1 /\ Len(")") = 1 /\ Len(" AND") = 4 /\ Len(" WHERE") = 6

VARIABLES
    call,     \* the call and its arguments
    max,      \* SQL_STMT_MAX_LEN of this build
    phase,    \* where the call is
    filter,   \* the pieces of the filter, when a column makes it
    program,  \* the prints and repairs still to do
    sql_stmt, \* the text in the buffer
    offset,
    over,     \* how many bytes past the buffer were written
    sent,     \* what SQLite compiles
    bound,    \* the columns bound so far
    ret_val

\* _fix_string and _columns_name_to_select_columns.
VARIABLES string, len, shared, src, dst, pc, iter, i, fixed_string_len, outside
VARIABLES tables_num, items, columns_num, indexes_in_result,
          result_columns_num, result, skipped

FS == INSTANCE FixString
SC == INSTANCE SelectColumns

textVars == <<filter, program, sql_stmt, offset, over, sent, bound>>
fixVars == <<string, len, shared, src, dst, pc, iter, i, fixed_string_len, outside>>
listVars == <<tables_num, items, columns_num, indexes_in_result,
              result_columns_num, result, skipped>>
vars == <<call, max, phase, textVars, ret_val, fixVars, listVars>>
-----------------------------------------------------------------------------
(* Text *)

Piece(kind, what, n) == [kind |-> kind, what |-> what, n |-> n]
Lit(s) == Piece("lit", s, Len(s))
Col(j) == Piece("column", Columns[1][j], NameLength)
Table(t) == Piece("table", <<"first", "second">>[t], NameLength)
List(n) == Piece("list", "", n)
Caller(n) == Piece("caller", "", n)

\* Between two statements of one text.
Semicolon == Lit("; ")

Length(text) ==
    LET upto[k \in 0 .. Len(text)] == IF k = 0 THEN 0 ELSE upto[k - 1] + text[k].n
    IN upto[Len(text)]

\* text without its last n characters, which end its last piece.
Shorten(text, n) ==
    LET p == Last(text)
    IN IF p.n = n THEN Front(text)
       ELSE Append(Front(text), Piece("stump", p.what, p.n - n))

\* The steps of a program.  room is what snprintf is told: the rest of the
\* buffer, one byte more, or the size of the whole buffer.
PrintIn(room, pieces) == [do |-> "print", room |-> room, pieces |-> pieces]
Prints(pieces) == PrintIn("rest", pieces)
Repair(what) == [do |-> "repair", with |-> Lit(what)]
Cut(n, back) == [do |-> "cut", n |-> n, back |-> back]

\* The columns in the set S, in the order of the table, and one step for each.
InOrder(S) ==
    [k \in 1 .. Cardinality(S) |->
        CHOOSE j \in S : Cardinality({m \in S : m < j}) = k - 1]
Each(S, step(_)) == [k \in DOMAIN InOrder(S) |-> step(InOrder(S)[k])]
-----------------------------------------------------------------------------
(* The calls *)

\* A filter is NULL, the caller's text, or made of the value of a column.
Filters == [from : {"NULL", "number", "text", "blob"}, text : {0}]
           \cup [from : {"caller"}, text : CallerLens]

Selects ==
    [op : {"select"}, filter : Filters, list : 0 .. MaxItems, tables : {1}]
    \cup [op : {"select"}, filter : {f \in Filters : f.from \in {"NULL", "caller"}},
          list : 0 .. MaxItems, tables : {2}, join : {"INNER JOIN", "LEFT JOIN"}]

Calls ==
    [op : {"sorm_save", "sorm_replace", "sorm_delete", "sorm_update",
           "sorm_to_string"}, valued : SUBSET Numbers]
    \cup [op : {"sorm_create_table"}, flags : BOOLEAN]
    \cup [op : {"sorm_delete_table", "sorm_fix_string"}]
    \cup [op : {"sorm_run_stmt", "create_sql"}, text : CallerLens]
    \cup [op : {"sorm_create_index", "sorm_drop_index"}, list : 1 .. MaxItems]
    \cup [op : {"sorm_delete_by"}, filter : Filters]
    \cup Selects

Objects == {"sorm_save", "sorm_replace", "sorm_delete", "sorm_update"}
ByColumn == call.op \in {"sorm_delete_by", "select"}
            /\ call.filter.from \in {"number", "text", "blob"}

SaveProgram(verb, valued) ==
    <<Prints(<<Lit(verb), Lit(" INTO "), Table(1), Lit(" (")>>)>>
    \o Each(valued, LAMBDA j : Prints(<<Lit(" "), Col(j), Lit(",")>>))
    \o <<Repair(")"), Prints(<<Lit(" VALUES (")>>)>>
    \o Each(valued, LAMBDA j : Prints(<<Lit(" "), Lit("?"), Lit(",")>>))
    \o <<Repair(")")>>

DeleteProgram(valued) ==
    <<Prints(<<Lit("DELETE FROM "), Table(1), Lit(" WHERE ")>>)>>
    \o Each(valued, LAMBDA j : Prints(<<Lit(" "), Col(j), Lit("=?"), Lit(" AND")>>))
    \o <<Cut(4, FALSE)>>

\* Mutant: without a unique column the whole WHERE is taken back.
UpdateProgramBare(valued) ==
    <<Prints(<<Lit("UPDATE "), Table(1), Lit(" SET")>>)>>
    \o Each(valued, LAMBDA j : Prints(<<Lit(" "), Col(j), Lit("=?"), Lit(",")>>))
    \o <<Cut(1, TRUE), PrintIn("whole", <<Lit(" WHERE")>>)>>
    \o Each(valued \cap Unique,
            LAMBDA j : Prints(<<Lit(" "), Col(j), Lit("=?"), Lit(" AND")>>))
    \o <<Cut(IF valued \cap Unique = {} THEN 6 ELSE 4, FALSE)>>

\* The cut at the end takes the last AND, or, when no unique column has a
\* value, the last letters of WHERE.
UpdateProgram(valued) ==
    <<Prints(<<Lit("UPDATE "), Table(1), Lit(" SET")>>)>>
    \o Each(valued, LAMBDA j : Prints(<<Lit(" "), Col(j), Lit("=?"), Lit(",")>>))
    \o <<Cut(1, TRUE), PrintIn("whole", <<Lit(" WHERE")>>)>>
    \o Each(valued \cap Unique,
            LAMBDA j : Prints(<<Lit(" "), Col(j), Lit("=?"), Lit(" AND")>>))
    \o <<Cut(4, FALSE)>>

Constraint(j) ==
    IF j \in Unique THEN <<Lit(" "), Lit(Constraints[j]), Lit(",")>>
    ELSE <<Lit(",")>>

ForeignKey(j) ==
    <<Lit(" FOREIGN KEY("), Col(j), Lit(") REFERENCES "), Table(2), Lit("("),
      Col(j), Lit(")"), Lit(",")>>

CreateTableProgram(flags) ==
    <<Prints(<<Lit("CREATE TABLE IF NOT EXISTS "), Table(1), Lit("(")>>)>>
    \o FlattenSeq(Each(Numbers,
            LAMBDA j : <<Prints(<<Lit(" "), Col(j), Lit(" "), Lit("INTEGER")>>),
                         Prints(Constraint(j))>>))
    \o (IF flags THEN Each(Foreign, LAMBDA j : Prints(ForeignKey(j))) ELSE <<>>)
    \o <<Repair(")")>>
    \o Each(Foreign,
            LAMBDA j : Prints(<<Semicolon, Lit("CREATE INDEX "), Col(j), Lit("_index ON "),
                                Table(1), Lit("("), Col(j), Lit(")")>>))

FilterPieces ==
    IF ByColumn THEN filter ELSE <<Caller(call.filter.text)>>

DeleteByProgram ==
    <<Prints(<<Lit("DELETE FROM "), Table(1), Lit(" ")>>)>>
    \o (IF call.filter.from = "NULL" THEN <<>>
        ELSE <<Prints(<<Lit("WHERE ")>> \o FilterPieces)>>)

SelectProgram ==
    <<Prints(<<Lit("SELECT "), List(call.list), Lit(" FROM "), Table(1)>>)>>
    \o (IF call.tables = 1 THEN <<>>
        ELSE <<Prints(<<Lit(" "), Lit(call.join), Lit(" "), Table(2),
                        Lit(" ON "), Caller(NameLength), Lit("="),
                        Caller(NameLength)>>)>>)
    \o (IF call.filter.from = "NULL" THEN <<>>
        ELSE <<Prints(<<Lit(" WHERE ")>> \o FilterPieces)>>)

\* _construct_index_suffix drops blanks and turns commas into underscores, so
\* the suffix is as long as the list.
IndexProgram ==
    IF call.op = "sorm_create_index"
    THEN <<Prints(<<Lit("CREATE INDEX IF NOT EXISTS index_"), List(call.list),
                    Lit(" ON "), Table(1), Lit("("), List(call.list), Lit(")")>>)>>
    ELSE <<Prints(<<Lit("DROP INDEX index_"), List(call.list)>>)>>

ToStringProgram(valued) ==
    <<Prints(<<Table(1), Lit(" { ")>>)>>
    \o Each(Numbers,
            LAMBDA j : PrintIn("more", <<Col(j), Lit("("),
                           IF j \in valued THEN Caller(1) ELSE Lit("null"),
                           Lit("); ")>>))
    \o <<PrintIn("more", <<Lit("}")>>)>>

Program ==
    CASE call.op = "sorm_save" -> SaveProgram("INSERT", call.valued)
      [] call.op = "sorm_replace" -> SaveProgram("REPLACE", call.valued)
      [] call.op = "sorm_delete" -> DeleteProgram(call.valued)
      [] call.op = "sorm_update" -> UpdateProgram(call.valued)
      [] call.op = "sorm_create_table" -> CreateTableProgram(call.flags)
      [] call.op = "sorm_delete_table" -> <<Prints(<<Lit("DROP TABLE "), Table(1)>>)>>
      [] call.op \in {"sorm_create_index", "sorm_drop_index"} -> IndexProgram
      [] call.op = "sorm_delete_by" -> DeleteByProgram
      [] call.op = "select" -> SelectProgram
      [] call.op = "sorm_to_string" -> ToStringProgram(call.valued)
      [] OTHER -> <<>>
-----------------------------------------------------------------------------
(* The steps of a call *)

Idle == FS!Start(<<>>, 1, FALSE)

\* The constant is one per build; sorm_fix_string does not use it.
Init ==
    /\ call \in Calls
    /\ max \in StmtMaxes
    /\ IF call.op = "sorm_fix_string"
       THEN FS!Init /\ max = CHOOSE m \in StmtMaxes : TRUE
       ELSE IF ByColumn /\ call.filter.from = "text"
       THEN \E s \in SeqOf(FS!Chars, MaxString) : FS!Start(s, max + 1, FALSE)
       ELSE Idle
    /\ SC!Start(IF call.op = "select" THEN call.tables ELSE 1)
    /\ phase = IF call.op = "sorm_fix_string" THEN "fix"
               ELSE IF ByColumn THEN "filter" ELSE "check"
    /\ filter = <<>> /\ program = <<>> /\ sql_stmt = <<>>
    /\ offset = 0 /\ over = 0 /\ sent = <<>> /\ bound = <<>>
    /\ ret_val = "none"

Return(r) == phase' = "done" /\ ret_val' = r

\* sorm_fix_string, and _fix_string inside _construct_column_filter.
Fix ==
    /\ phase \in {"fix", "filter"}
    /\ phase = "filter" => call.filter.from = "text"
    /\ FS!Next
    /\ UNCHANGED <<call, max, phase, textVars, ret_val, listVars>>

FixReturns ==
    /\ phase = "fix" \/ (phase = "filter" /\ call.filter.from = "text")
    /\ pc = "too_long" \/ (pc = "ok" /\ phase = "fix")
    /\ Return(IF pc = "ok" THEN "SORM_OK" ELSE "SORM_TOO_LONG")
    /\ UNCHANGED <<call, max, textVars, fixVars, listVars>>

\* The value as the filter shows it: a string that starts with a quote has
\* lost one of its quotes.
Value ==
    IF call.filter.from = "number" THEN <<Piece("value", "number", 1)>>
    ELSE <<Lit("'"),
           Piece("value", IF FS!StartsWithQuote THEN "broken" ELSE "quoted",
                 fixed_string_len),
           Lit("'")>>

\* The locals of _fix_string and its buffer are gone.
ForgetString ==
    /\ string' = <<>> /\ len' = 1 /\ shared' = FALSE /\ src' = FS!InMemory(<<>>)
    /\ dst' = src' /\ pc' = "count" /\ iter' = 0 /\ i' = 0
    /\ fixed_string_len' = 0 /\ outside' = {}

\* The rest of _construct_column_filter.
ColumnFilter ==
    /\ phase = "filter"
    /\ call.filter.from = "text" => pc = "ok"
    /\ LET pieces == <<Col(1), Lit(" = ")>> \o Value
       IN IF call.filter.from = "blob"
          THEN Return("SORM_INVALID_TYPE") /\ UNCHANGED filter
          ELSE IF Length(pieces) > max
          THEN Return("SORM_TOO_LONG") /\ UNCHANGED filter
          ELSE phase' = "check" /\ filter' = pieces /\ UNCHANGED ret_val
    /\ ForgetString
    /\ UNCHANGED <<call, max, program, sql_stmt, offset, over, sent, bound, listVars>>

\* An argument is NULL.
Refuse ==
    /\ phase = "check"
    /\ Return("SORM_ARG_NULL")
    /\ UNCHANGED <<call, max, textVars, fixVars, listVars>>

\* What a call returns before it builds a statement, or "none".
EarlyReturn ==
    IF call.op \in Objects /\ call.valued = {} THEN "SORM_OK"
    ELSE IF call.op = "select" /\ call.list = 0 THEN "SORM_COLUMNS_NAME_EMPTY"
    ELSE IF call.op = "select" /\ call.filter.from = "caller" /\ call.filter.text = 0
    THEN "SORM_FILTER_EMPTY"
    ELSE "none"

Check ==
    /\ phase = "check"
    /\ IF EarlyReturn = "none"
       THEN phase' = "build" /\ program' = Program /\ UNCHANGED ret_val
       ELSE Return(EarlyReturn) /\ UNCHANGED program
    /\ UNCHANGED <<call, max, filter, sql_stmt, offset, over, sent, bound,
                   fixVars, listVars>>

Doing(step) == phase = "build" /\ program # <<>> /\ Head(program).do = step

\* Mutant: no print subtracts what is already in the buffer.
RoomWhole(room) == max + 1

\* The size passed to snprintf.
Room(room) ==
    CASE room = "rest" -> max + 1 - offset
      [] room = "more" -> max + 1 - offset + 1
      [] room = "whole" -> max + 1

\* Mutants: the check is off by one, either way.
TooLongLoose(n) == n > max + 1
TooLongEarly(n) == n >= max

TooLong(n) == n > max

\* One snprintf and the check of its result.  It writes at most its room, the
\* NUL included; sorm_to_string returns what it has when it is full.
snprintf ==
    /\ Doing("print")
    /\ LET pieces == Head(program).pieces
           need   == Length(pieces)
           shown  == IF need < Room(Head(program).room) THEN need
                     ELSE Room(Head(program).room) - 1
           last   == offset + shown
       IN /\ offset' = offset + need
          /\ over' = IF last - max > over THEN last - max ELSE over
          /\ sql_stmt' = IF shown = need THEN sql_stmt \o pieces
                         ELSE Append(sql_stmt, Piece("stump", "", shown))
          /\ IF ~TooLong(offset + need)
             THEN program' = Tail(program) /\ UNCHANGED <<phase, ret_val>>
             ELSE /\ Return(IF call.op = "sorm_to_string" THEN "string"
                            ELSE "SORM_TOO_LONG")
                  /\ UNCHANGED program
    /\ UNCHANGED <<call, max, filter, sent, bound, fixVars, listVars>>

\* sql_stmt[offset - 1] = ')'
RepairLast ==
    /\ Doing("repair")
    /\ sql_stmt' = Append(Shorten(sql_stmt, 1), Head(program).with)
    /\ program' = Tail(program)
    /\ UNCHANGED <<call, max, phase, filter, offset, over, sent, bound, ret_val,
                   fixVars, listVars>>

\* sql_stmt[offset - n] = '\0'
CutLast ==
    /\ Doing("cut")
    /\ sql_stmt' = Shorten(sql_stmt, Head(program).n)
    /\ offset' = IF Head(program).back THEN offset - Head(program).n ELSE offset
    /\ program' = Tail(program)
    /\ UNCHANGED <<call, max, phase, filter, over, sent, bound, ret_val,
                   fixVars, listVars>>

\* A caller's text is read up to SQL_STMT_MAX_LEN bytes.
Passed ==
    IF call.op \in {"sorm_run_stmt", "create_sql"}
    THEN <<IF call.text > max THEN Piece("clipped", "", max) ELSE Caller(call.text)>>
    ELSE sql_stmt

\* sqlite3_prepare compiles the first statement of a text.
FirstStatement(text) ==
    SubSeq(text, 1,
           CHOOSE n \in 0 .. Len(text) :
              /\ n < Len(text) => text[n + 1] = Semicolon
              /\ \A k \in 1 .. n : text[k] # Semicolon)

\* The parser accepts no stump of a keyword and no empty filter.
Accepts(text) == \A k \in DOMAIN text : text[k].kind # "stump" /\ text[k].n > 0

Prepare ==
    /\ phase = "build" /\ program = <<>> /\ call.op # "sorm_to_string"
    /\ sent' = FirstStatement(Passed)
    /\ phase' = "prepare"
    /\ UNCHANGED <<call, max, filter, program, sql_stmt, offset, over, bound,
                   ret_val, fixVars, listVars>>

ToStringReturns ==
    /\ phase = "build" /\ program = <<>> /\ call.op = "sorm_to_string"
    /\ Return("string")
    /\ UNCHANGED <<call, max, textVars, fixVars, listVars>>

PrepareFails ==
    /\ phase = "prepare"
    /\ Return("SORM_DB_ERROR")
    /\ UNCHANGED <<call, max, textVars, fixVars, listVars>>

\* The statement runs; how is the subject of SormConn.
Run ==
    /\ phase = "prepare" /\ Accepts(sent)
    /\ call.op \notin Objects \cup {"select"}
    /\ Return("SORM_OK")
    /\ UNCHANGED <<call, max, textVars, fixVars, listVars>>

StartBind ==
    /\ phase = "prepare" /\ Accepts(sent) /\ call.op \in Objects
    /\ phase' = "bind"
    /\ UNCHANGED <<call, max, textVars, ret_val, fixVars, listVars>>

\* Mutant: the columns of WHERE are bound first.
BindOrderKeysFirst ==
    LET all  == InOrder(call.valued)
        keys == InOrder(call.valued \cap Unique)
    IN IF call.op = "sorm_update" THEN keys \o all ELSE all

\* The columns in the order of bind_index.
BindOrder ==
    LET all  == InOrder(call.valued)
        keys == InOrder(call.valued \cap Unique)
    IN IF call.op = "sorm_update" THEN all \o keys ELSE all

Bind ==
    /\ phase = "bind" /\ Len(bound) < Len(BindOrder)
    /\ \/ bound' = Append(bound, BindOrder[Len(bound) + 1])
          /\ UNCHANGED <<phase, ret_val>>
       \/ Return("SORM_DB_ERROR") /\ UNCHANGED bound
    /\ UNCHANGED <<call, max, filter, program, sql_stmt, offset, over, sent,
                   fixVars, listVars>>

Bound ==
    /\ phase = "bind" /\ Len(bound) = Len(BindOrder)
    /\ Return("SORM_OK")
    /\ UNCHANGED <<call, max, textVars, fixVars, listVars>>

\* From here the text is not used any more; forgetting it keeps the state small.
StartList ==
    /\ phase = "prepare" /\ Accepts(sent) /\ call.op = "select"
    /\ phase' = "list"
    /\ call' = [op |-> "select", list |-> call.list]
    /\ max' = 0 /\ filter' = <<>> /\ program' = <<>> /\ sql_stmt' = <<>>
    /\ offset' = 0 /\ over' = 0 /\ sent' = <<>>
    /\ UNCHANGED <<bound, ret_val, fixVars, listVars>>

\* An item of the list.
ListItem ==
    /\ phase = "list" /\ items < call.list
    /\ SC!Next
    /\ UNCHANGED <<call, max, phase, textVars, ret_val, fixVars>>

\* The list ends, or names a column that sorm does not know, such as rowid: the
\* assert at the end of _column_name_to_index_in_tables stops the program.
ListEnds ==
    /\ phase = "list"
    /\ Return(IF items = call.list THEN "SORM_OK" ELSE "abort")
    /\ UNCHANGED <<call, max, textVars, fixVars, listVars>>

Returned == phase = "done" /\ UNCHANGED vars

Next ==
    \/ Fix \/ FixReturns \/ ColumnFilter \/ Refuse \/ Check
    \/ snprintf \/ RepairLast \/ CutLast \/ ToStringReturns
    \/ Prepare \/ PrepareFails \/ Run \/ StartBind \/ Bind \/ Bound
    \/ StartList \/ ListItem \/ ListEnds
    \/ Returned

Spec == Init /\ [][Next]_vars
-----------------------------------------------------------------------------
(* What the statements should say *)

\* The parts with a separator between each two.
Joined(parts, sep) ==
    FlattenSeq([k \in DOMAIN parts |->
                   IF k = Len(parts) THEN parts[k] ELSE Append(parts[k], sep)])

Named(S) == Each(S, LAMBDA j : <<Lit(" "), Col(j)>>)
Equal(S) == Each(S, LAMBDA j : <<Lit(" "), Col(j), Lit("=?")>>)

WantedSave(verb, valued) ==
    <<Lit(verb), Lit(" INTO "), Table(1), Lit(" (")>>
    \o Joined(Named(valued), Lit(",")) \o <<Lit(")"), Lit(" VALUES (")>>
    \o Joined(Each(valued, LAMBDA j : <<Lit(" "), Lit("?")>>), Lit(",")) \o <<Lit(")")>>

WantedDelete(valued) ==
    <<Lit("DELETE FROM "), Table(1), Lit(" WHERE ")>> \o Joined(Equal(valued), Lit(" AND"))

WantedUpdate(valued) ==
    <<Lit("UPDATE "), Table(1), Lit(" SET")>> \o Joined(Equal(valued), Lit(","))
    \o <<Lit(" WHERE")>> \o Joined(Equal(valued \cap Unique), Lit(" AND"))

WantedTable(flags) ==
    <<Lit("CREATE TABLE IF NOT EXISTS "), Table(1), Lit("(")>>
    \o Joined(Each(Numbers, LAMBDA j : <<Lit(" "), Col(j), Lit(" "), Lit("INTEGER")>>
                                       \o Front(Constraint(j)))
              \o (IF flags THEN Each(Foreign, LAMBDA j : Front(ForeignKey(j))) ELSE <<>>),
              Lit(","))
    \o <<Lit(")")>>

\* The other statements are their prints, one after the other.
Wanted ==
    CASE call.op = "sorm_save" -> WantedSave("INSERT", call.valued)
      [] call.op = "sorm_replace" -> WantedSave("REPLACE", call.valued)
      [] call.op = "sorm_delete" -> WantedDelete(call.valued)
      [] call.op = "sorm_update" -> WantedUpdate(call.valued)
      [] call.op = "sorm_create_table" -> WantedTable(call.flags)
      [] call.op \in {"sorm_run_stmt", "create_sql"} -> <<Caller(call.text)>>
      [] OTHER -> FlattenSeq([k \in DOMAIN Program |-> Program[k].pieces])

\* An object without a valued unique column cannot be updated.
NoKey == call.op = "sorm_update" /\ call.valued \cap Unique = {}

\* No snprintf of a statement writes past its buffer, but for the WHERE of
\* sorm_update, whose size ignores the text before it: up to five bytes, and
\* the call then returns SORM_TOO_LONG.  sorm_to_string can write one byte
\* past the length it was given.
OverrunKnown ==
    over > 0 => \/ call.op = "sorm_update" /\ over <= 5 /\ ret_val = "SORM_TOO_LONG"
                \/ call.op = "sorm_to_string" /\ over = 1 /\ ret_val = "string"

\* SQLite never compiles a statement that lost a part: not to the buffer's end,
\* not to a separator cut in the wrong place.  Two exceptions are known: a text
\* of the caller beyond SQL_STMT_MAX_LEN is cut, and an update without a key
\* is a text that no parser accepts.  (The indexes that sorm_create_table adds
\* after the table are a second statement, which is never compiled.)
SentWhole ==
    sent # <<>> =>
        \/ sent = Wanted /\ Length(sent) <= max
        \/ call.op \in {"sorm_run_stmt", "create_sql"} /\ call.text > max
        \/ NoKey /\ ~Accepts(sent)

\* SORM_TOO_LONG is returned only for a statement that does not fit with the
\* separator a loop leaves behind its last column, and sorm_to_string gives a
\* part only if the whole does not fit.
TooLongRight ==
    LET built == call.op # "sorm_fix_string" /\ (ByColumn => filter # <<>>)
        left  == IF call.op \in {"sorm_delete", "sorm_update"} THEN 4 ELSE 0
        more  == IF call.op # "sorm_create_table" THEN 0
                 ELSE Length(FlattenSeq(
                        [k \in DOMAIN Program |->
                            IF Program[k].do = "print" /\ Head(Program[k].pieces) = Semicolon
                            THEN Program[k].pieces ELSE <<>>]))
    IN /\ ret_val = "SORM_TOO_LONG" /\ built => Length(Wanted) + left + more > max
       /\ ret_val = "string" => sql_stmt = Wanted \/ Length(Wanted) > max

\* When a statement is stepped, every placeholder has the value of the column
\* it stands for: the loops that print and the loops that bind agree, also for
\* the keys that an update names twice.
BindsMatch ==
    call.op \in Objects /\ phase = "done" /\ ret_val = "SORM_OK" /\ call.valued # {} =>
        /\ [k \in DOMAIN bound |-> Col(bound[k])]
              = SelectSeq(sent, LAMBDA p : p.kind = "column")
        /\ Len(bound) = Len(SelectSeq(sent, LAMBDA p : p \in {Lit("?"), Lit("=?")}))

\* A delete or an update of an object that SQLite accepts never reaches all
\* rows: it is restricted by at least one column, an update by unique ones.
Restricted ==
    phase = "bind" /\ call.op \in {"sorm_delete", "sorm_update"} =>
        \E w \in DOMAIN sent :
            LET where == SelectSeq(SubSeq(sent, w + 1, Len(sent)),
                                   LAMBDA p : p.kind = "column")
            IN /\ sent[w] \in {Lit(" WHERE"), Lit(" WHERE ")}
               /\ where # <<>>
               /\ call.op = "sorm_update" =>
                     Range(where) = {Col(j) : j \in call.valued \cap Unique}

\* See FixString: quoting a value of a filter and the public sorm_fix_string.
FixedUnlessLeadingQuote == FS!FixedUnlessLeadingQuote

\* See FixString: quoting in place never overwrites what it has still to read.
UnreadKept == FS!UnreadKept

\* See SelectColumns: each column is read at the position SQLite delivers it.
PositionsRight == SC!PositionsRight

\* See SelectColumns: a column is read iff the list selects it.
SelectionRight == SC!SelectionRight
=============================================================================
