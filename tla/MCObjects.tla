----------------------------- MODULE MCObjects -----------------------------
(* A small instance of Objects: a table with a text and a bounded text     *)
(* that is its key, joined with a table with a blob.                       *)
EXTENDS Objects

MCColumns == << <<"text", "stack">>, <<"blob">> >>
MCPK      == <<2, 0>>
=============================================================================
