------------------------------- MODULE Layout -------------------------------
(***************************************************************************)
(* The struct that sorm_generate writes for a table                        *)
(* (header_generate_struct of src/src/header_generate.c) and the words of  *)
(* it that sorm.c reads and writes by offset.                              *)
(*                                                                         *)
(* The struct starts with the table descriptor.  Each column adds a word   *)
(* _stat and its value, a blob a word _len before them.  The accessors of  *)
(* sorm.c do not use these members: they take the word in front of the     *)
(* value for the stat and the one before that for the length.  Whether     *)
(* those are the same words depends on the padding that the compiler adds, *)
(* that is, on the data model of the machine.                              *)
(***************************************************************************)
EXTENDS Integers, Sequences

\* Sizes of a data model: sorm_table_descriptor_t, a pointer, and the
\* alignment of the types of eight bytes.
ILP32 == [desc |-> 24, pointer |-> 4, eight |-> 4]
LP64  == [desc |-> 40, pointer |-> 8, eight |-> 8]

WORD == 4    \* sizeof(int) and sizeof(sorm_stat_t)

AlignUp(x, a) == ((x + a - 1) \div a) * a

\* A column here is [type, mem, max_len].
OnHeap(col)  == col.type \in {"TEXT", "BLOB"} /\ col.mem = "HEAP"
OnStack(col) == col.type \in {"TEXT", "BLOB"} /\ col.mem = "STACK"

Alignment(m, col) ==
    CASE OnHeap(col)                      -> m.pointer
      [] OnStack(col)                     -> 1
      [] col.type \in {"INT64", "DOUBLE"} -> m.eight
      [] OTHER                            -> WORD
Size(m, col) ==
    CASE OnHeap(col)                      -> m.pointer
      [] OnStack(col)                     -> col.max_len + 1
      [] col.type \in {"INT64", "DOUBLE"} -> 8
      [] OTHER                            -> WORD

\* The members of a column, when the members before it end at start.
LenAt(start)       == AlignUp(start, WORD)
StatAt(start, col) == AlignUp(start, WORD) + (IF col.type = "BLOB" THEN WORD ELSE 0)
Offset(m, start, col) ==
    AlignUp(StatAt(start, col) + WORD, Alignment(m, col))
End(m, start, col) == Offset(m, start, col) + Size(m, col)

\* Where column n of a table starts: the end of the column before it.
Start(m, cols, n) ==
    LET end[k \in 0 .. Len(cols)] ==
            IF k = 0 THEN m.desc ELSE End(m, end[k - 1], cols[k])
    IN  end[n - 1]
-----------------------------------------------------------------------------
(* _get_column_stat, _set_column_stat, _get_blob_len and _set_blob_len.    *)

\* Mutant: the accessors skip a word too many.
StatSlotFar(m, start, col) == Offset(m, start, col) - 2 * WORD

StatSlot(m, start, col) == Offset(m, start, col) - WORD
LenSlot(m, start, col)  == Offset(m, start, col) - WORD - WORD

\* The first byte that the accessors of the column touch.
FirstSlot(m, start, col) ==
    IF col.type = "BLOB" THEN LenSlot(m, start, col) ELSE StatSlot(m, start, col)

\* The words in front of a value belong to its column alone.
SlotsApart(m, start, col) == FirstSlot(m, start, col) >= start

\* They are the members that the struct declares for the purpose.
SlotsAreMembers(m, start, col) ==
    /\ StatSlot(m, start, col) = StatAt(start, col)
    /\ col.type = "BLOB" => LenSlot(m, start, col) = LenAt(start)
=============================================================================
