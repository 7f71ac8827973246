--------------------------- MODULE SelectColumns ----------------------------
(***************************************************************************)
(* _columns_name_to_select_columns of src/sorm.c: from the list of columns *)
(* in a select it predicts, without asking SQLite, at which position of a  *)
(* result row each column of each table arrives.  _parse_select_result     *)
(* reads the positions blindly, so a wrong one puts a value into the wrong *)
(* member of the object.                                                   *)
(*                                                                         *)
(* One step handles one item of the list: a column, table.column, table.*  *)
(* or *.  SQLite expands the same list into the columns of a row; that is  *)
(* `result`.  SQLite refuses a list with an ambiguous name, and sorm then  *)
(* never reads a row, so such a list does not grow further here.  An       *)
(* expression with a comma of its own, which sorm takes for two items, is  *)
(* left out.                                                               *)
(***************************************************************************)
EXTENDS Integers, Sequences, FiniteSets, SequencesExt

CONSTANTS
    Columns,  \* for each table of the select, in order, the sequence of its
              \* column names
    MaxItems  \* bound: length of the list

VARIABLES
    tables_num,        \* how many of the tables the select joins
    items,             \* how many items were handled
    columns_num,       \* select_columns_of_table[i].columns_num
    indexes_in_result, \* select_columns_of_table[i].indexes_in_result
    result_columns_num,
    result,            \* SQLite's expansion: sequence of <<table, column>>
    skipped            \* how many columns come from items sorm passed over

vars ==
    <<tables_num, items, columns_num, indexes_in_result, result_columns_num,
      result, skipped>>

Tables == 1 .. tables_num
Names == UNION {Range(Columns[i]) : i \in Tables}

NO_INDEXES_IN_RESULT == -1
NO_TABLE == 0
EXPRESSION == <<0, 0>>

\* Column j of table i where an item selects it that sorm passed over.
Unread(i, j) == <<-i, j>>

Start(n) ==
    /\ tables_num = n
    /\ items = 0
    /\ skipped = 0
    /\ columns_num = [i \in Tables |-> 0]
    /\ indexes_in_result =
          [i \in Tables |-> [j \in DOMAIN Columns[i] |-> NO_INDEXES_IN_RESULT]]
    /\ result_columns_num = 0
    /\ result = <<>>

Init == \E n \in DOMAIN Columns : Start(n)

\* The columns an item may name; SQLite demands that there is exactly one.
Matches(table, name) ==
    {m \in UNION {{i} \X DOMAIN Columns[i] : i \in Tables} :
        table \in {NO_TABLE, m[1]} /\ Columns[m[1]][m[2]] = name}

\* _column_name_to_index_in_tables: the first match, table by table.
Find(table, name) ==
    CHOOSE m \in Matches(table, name) :
        \A n \in Matches(table, name) :
            m[1] < n[1] \/ (m[1] = n[1] /\ m[2] <= n[2])

ColumnsOf(i) == [j \in DOMAIN Columns[i] |-> <<i, j>>]

\* Every column of table i gets the next position, starting at first.
Numbered(i, first) == [j \in DOMAIN Columns[i] |-> first + j - 1]

\* The number of columns of the tables before i.
Before(i) == Len(FlattenSeq([k \in 1 .. i - 1 |-> Columns[k]]))

NextItem == items < MaxItems /\ items' = items + 1 /\ UNCHANGED tables_num

\* The item is *.
AllTables ==
    /\ NextItem
    /\ columns_num' = [i \in Tables |-> Len(Columns[i])]
    /\ indexes_in_result' =
          [i \in Tables |-> Numbered(i, result_columns_num + Before(i))]
    /\ result_columns_num' = result_columns_num + Before(tables_num + 1)
    /\ result' = result \o FlattenSeq([i \in Tables |-> ColumnsOf(i)])
    /\ UNCHANGED skipped

\* The item is table.*
OneTable(i) ==
    /\ NextItem
    /\ columns_num' = [columns_num EXCEPT ![i] = Len(Columns[i])]
    /\ indexes_in_result' =
          [indexes_in_result EXCEPT ![i] = Numbered(i, result_columns_num)]
    /\ result_columns_num' = result_columns_num + Len(Columns[i])
    /\ result' = result \o ColumnsOf(i)
    /\ UNCHANGED skipped

\* Mutant: a repeated column is not counted.
OneColumnOnce(table, name) ==
    /\ Cardinality(Matches(table, name)) = 1
    /\ NextItem
    /\ LET i == Find(table, name)[1]
           j == Find(table, name)[2]
       IN /\ IF indexes_in_result[i][j] = NO_INDEXES_IN_RESULT
             THEN /\ indexes_in_result' =
                        [indexes_in_result EXCEPT ![i][j] = result_columns_num]
                  /\ columns_num' = [columns_num EXCEPT ![i] = @ + 1]
                  /\ result_columns_num' = result_columns_num + 1
             ELSE UNCHANGED <<indexes_in_result, columns_num, result_columns_num>>
          /\ result' = Append(result, <<i, j>>)
    /\ UNCHANGED skipped

\* Mutant: columns_num counts a repeated column again.
OneColumnAgain(table, name) ==
    /\ Cardinality(Matches(table, name)) = 1
    /\ NextItem
    /\ LET i == Find(table, name)[1]
           j == Find(table, name)[2]
       IN /\ indexes_in_result' =
                 [indexes_in_result EXCEPT ![i][j] = result_columns_num]
          /\ columns_num' = [columns_num EXCEPT ![i] = @ + 1]
          /\ result' = Append(result, <<i, j>>)
    /\ result_columns_num' = result_columns_num + 1
    /\ UNCHANGED skipped

\* The item is a column, with or without its table.  Only the first position
\* of a column is kept, but every one counts.
OneColumn(table, name) ==
    /\ Cardinality(Matches(table, name)) = 1
    /\ NextItem
    /\ LET i == Find(table, name)[1]
           j == Find(table, name)[2]
       IN /\ IF indexes_in_result[i][j] = NO_INDEXES_IN_RESULT
             THEN /\ indexes_in_result' =
                        [indexes_in_result EXCEPT ![i][j] = result_columns_num]
                  /\ columns_num' = [columns_num EXCEPT ![i] = @ + 1]
             ELSE UNCHANGED <<indexes_in_result, columns_num>>
          /\ result' = Append(result, <<i, j>>)
    /\ result_columns_num' = result_columns_num + 1
    /\ UNCHANGED skipped

\* What SQLite may make of an item that sorm passes over: an expression such as
\* max(device.id), a column (DEVICE.id, main.device.id) or all the columns of a
\* table (DEVICE.*).  SQLite compares the names of tables in any letters.
Deliveries ==
    {<<EXPRESSION>>}
    \cup {[j \in DOMAIN Columns[i] |-> Unread(i, j)] : i \in Tables}
    \cup (UNION {{<<Unread(i, j)>> : j \in DOMAIN Columns[i]} : i \in Tables})

\* What is left of the dot is no name of a table by strcmp: the error of
\* _column_name_to_index_in_tables is swallowed and the item is not counted.
Skip(delivered) ==
    /\ NextItem
    /\ result' = result \o delivered
    /\ skipped' = skipped + Len(delivered)
    /\ UNCHANGED <<columns_num, indexes_in_result, result_columns_num>>

Next ==
    \/ AllTables
    \/ \E i \in Tables : OneTable(i)
    \/ \E table \in {NO_TABLE} \cup Tables, name \in Names : OneColumn(table, name)
    \/ \E delivered \in Deliveries : Skip(delivered)

Spec == Init /\ [][Next]_vars
-----------------------------------------------------------------------------
\* Every position sorm will read holds the column it is read for, whatever mix
\* of *, table.* and repeated columns came before; an item that was passed over
\* shifts what comes after it, never by more than the columns such items deliver.
PositionsRight ==
    \A i \in Tables : \A j \in DOMAIN Columns[i] :
        indexes_in_result[i][j] # NO_INDEXES_IN_RESULT =>
            \E shift \in 0 .. skipped :
                LET at == indexes_in_result[i][j] + shift + 1
                IN at \in DOMAIN result /\ result[at] = <<i, j>>

\* A column is read iff an item that sorm understands selects it, however often
\* and in whatever order, and columns_num counts the columns of a table that are
\* read, which decides whether an object is made for it at all.  What an item
\* delivers that sorm passed over is never read.
SelectionRight ==
    \A i \in Tables :
        LET selected == {j \in DOMAIN Columns[i] : <<i, j>> \in Range(result)}
        IN /\ selected = {j \in DOMAIN Columns[i] :
                             indexes_in_result[i][j] # NO_INDEXES_IN_RESULT}
           /\ columns_num[i] = Cardinality(selected)
=============================================================================
