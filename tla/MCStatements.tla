---------------------------- MODULE MCStatements ----------------------------
(* Two joined tables that share a column name, as device and volume do.  The *)
(* first has a key, a unique and a plain column.                             *)
EXTENDS Statements

TwoTables == << <<"id", "uuid", "size">>, <<"id", "label">> >>
KeyUniquePlain == <<"PRIMARY KEY", "UNIQUE", "NONE">>
UpTo140 == 3 .. 140
=============================================================================
