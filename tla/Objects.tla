------------------------------ MODULE Objects ------------------------------
(***************************************************************************)
(* Objects of sorm and the memory they own (src/src/sorm.c, memory.h).     *)
(*                                                                         *)
(* An object is a row of a table: a struct with one member for a column,   *)
(* each with a stat word in front of it.  A text or blob column of heap    *)
(* memory is a pointer; the bit NEEDFREE of its stat says that sorm made   *)
(* the pointed memory and sorm_free has to free it.  Selects make arrays   *)
(* and lists of objects, iterators one object at a time.                   *)
(*                                                                         *)
(* The heap is a function from block numbers to their contents, so that a  *)
(* block freed twice, freed with another allocator or never freed can be   *)
(* seen.  What sqlite3_step and the values of a row are is left open: each *)
(* step may yield a row, end the rows or fail.  A failing malloc ends the  *)
(* process in _malloc and is no behaviour of this module.                  *)
(*                                                                         *)
(* The caller uses the library as sorm.h asks for: it frees each result    *)
(* once, with the function for its shape and the allocator it was made     *)
(* with, and its own strings outlive the objects that point to them.       *)
(***************************************************************************)
EXTENDS Integers, Sequences, FiniteSets, Functions

CONSTANTS
    Columns,    \* Columns[t][c]: "number", "text", "blob" (on the heap) or
                \* "stack" (a text or blob of bounded length in the object)
    PK,         \* PK[t]: the primary key of table t, 0 for SORM_NO_PK
    Allocator,  \* the allocator that the caller passes to every call
    MaxBlocks,  \* bound: blocks of the heap
    MaxRows,    \* bound: rows of one result
    MaxLost     \* bound: no call starts when more blocks are lost

ASSUME ConstantsAssumption ==
    /\ Columns \in Seq(Seq({"number", "text", "blob", "stack"}))
    /\ \A t \in DOMAIN Columns : PK[t] \in 0 .. Len(Columns[t])
    /\ MaxBlocks \in Nat /\ MaxRows \in Nat \ {0} /\ MaxLost \in Nat

VARIABLES
    heap,      \* heap[b]: what block b holds
    held,      \* held[t]: the result of a call that the caller has not freed
    iterator,  \* the open iterator, if any
    call,      \* the select that runs, if any
    faults     \* calls of _free that a correct program never makes

vars == <<heap, held, iterator, call, faults>>

----------------------------------------------------------------------------
(* Memory                                                                  *)

Tables == DOMAIN Columns
Blocks == 1 .. MaxBlocks

Null   == 0
Theirs == -1    \* memory of the caller
Gone   == -2    \* a variable of a call that has returned

\* _malloc and _free with a NULL allocator.
NoAllocator == "malloc"

Block(kind, by, table, rows, entries) ==
    [kind |-> kind, by |-> by, table |-> table, rows |-> rows,
     entries |-> entries]
Free == Block("free", NoAllocator, 0, <<>>, <<>>)

Live(h)   == {b \in Blocks : h[b].kind # "free"}
Unused(h) == Blocks \ Live(h)

\* _malloc and _strdup: the k-th block they return from heap h.
Malloc(h, k) ==
    CHOOSE b \in Unused(h) : Cardinality({x \in Unused(h) : x < b}) = k - 1

\* Heap h with the blocks of f in it.
With(h, f) == [b \in Blocks |-> IF b \in DOMAIN f THEN f[b] ELSE h[b]]

\* A call _free(allocator, ptr): ptr, and the place it was read from.
Call(b, r, c, ptr) == [from |-> <<b, r, c>>, ptr |-> ptr]
FreeBlock(b) == Call(b, 0, 0, b)

FreeAll(h, frees) ==
    [b \in Blocks |-> IF \E f \in frees : f.ptr = b THEN Free ELSE h[b]]

\* What is wrong with these calls, made with allocator by.
Faults(h, by, frees) ==
    {[what |-> "foreign", kind |-> "foreign"] :
         f \in {g \in frees : g.ptr \notin Blocks \cup {Null}}}
    \cup {[what |-> "double", kind |-> h[f.ptr].kind] :
         f \in {g \in frees : /\ g.ptr \in Blocks
                              /\ \/ g.ptr \in Unused(h)
                                 \/ \E e \in frees \ {g} : e.ptr = g.ptr}}
    \cup {[what |-> "allocator", kind |-> h[f.ptr].kind] :
         f \in {g \in frees : g.ptr \in Live(h) /\ h[g.ptr].by # by}}

----------------------------------------------------------------------------
(* Objects                                                                 *)

Unset == [ptr |-> Null, valued |-> FALSE, needfree |-> FALSE]
IsHeap(t, c) == Columns[t][c] \in {"text", "blob"}

\* sorm_new_array: one block with n rows of zeroed members.
NewArray(t, n, by) ==
    Block("rows", by, t,
          [r \in 1 .. n |-> [c \in DOMAIN Columns[t] |-> Unset]], <<>>)

\* Mutant: NEEDFREE stays set.
SetMemberKept(t, c, row, ptr) ==
    [row EXCEPT ![c] = [ptr      |-> IF IsHeap(t, c) THEN ptr ELSE Null,
                        valued   |-> TRUE,
                        needfree |-> @.needfree]]

\* sorm_set_column_value: a heap member takes the pointer it is given;
\* NEEDFREE is cleared and the memory it stood for is not freed.
SetMember(t, c, row, ptr) ==
    [row EXCEPT ![c] = [ptr      |-> IF IsHeap(t, c) THEN ptr ELSE Null,
                        valued   |-> TRUE,
                        needfree |-> FALSE]]

\* sorm_free on every row of block b: it frees the members that need it,
\* neither the object itself nor its stat.
MemberFrees(h, b) ==
    {Call(b, x[1], x[2], h[b].rows[x[1]][x[2]].ptr) :
         x \in {y \in (DOMAIN h[b].rows) \X (DOMAIN Columns[h[b].table]) :
                    h[b].rows[y[1]][y[2]].needfree}}

\* sorm_free_array
ArrayFrees(h, b) == MemberFrees(h, b) \cup {FreeBlock(b)}

\* Mutant: the loop frees only what the entries hold.
ListFreesData(h, b) ==
    {FreeBlock(b)} \cup
    UNION {MemberFrees(h, e.data) : e \in Range(h[b].entries)}

\* _list_free with sorm_free: members, entries and head, not the objects.
ListFrees(h, b) ==
    {FreeBlock(b)} \cup
    UNION {MemberFrees(h, e.data) \cup {FreeBlock(e.entry)} :
               e \in Range(h[b].entries)}

\* Mutant: the objects are freed with their members.
CopyFreesMembers(h, b) ==
    {FreeBlock(b)} \cup
    UNION {ArrayFrees(h, e.data) \cup {FreeBlock(e.entry)} :
               e \in Range(h[b].entries)}

\* __list_cpy_free: the rows move into an array; the objects they were in,
\* the entries and the head are freed.
CopyFrees(h, b) ==
    {FreeBlock(b)} \cup
    UNION {{FreeBlock(e.data), FreeBlock(e.entry)} :
               e \in Range(h[b].entries)}
CopiedRows(h, b) ==
    [i \in DOMAIN h[b].entries |-> h[h[b].entries[i].data].rows[1]]

----------------------------------------------------------------------------
(* Rows of a result                                                        *)

\* The values of a column that _sqlite3_column tells apart: a text is copied
\* if it is not NULL, a blob if it is not empty either, and a value may be
\* too long for a stack member.
ValuesOf(kind) ==
    {"null", "fits"} \cup (IF kind = "blob" THEN {"empty"} ELSE {})
                     \cup (IF kind = "stack" THEN {"long"} ELSE {})
RowValues(t) ==
    {vals \in [DOMAIN Columns[t] -> {"null", "empty", "fits", "long"}] :
         \A c \in DOMAIN vals : vals[c] \in ValuesOf(Columns[t][c])}

\* _parse_select_result: the columns in order, up to the first that does not
\* fit.  A column the select does not name is left as a NULL value leaves it.
Converted(vals) ==
    {c \in DOMAIN vals : /\ vals[c] # "null"
                         /\ \A d \in 1 .. c : vals[d] # "long"}
ParseFails(vals) == \E c \in DOMAIN vals : vals[c] = "long"
Copied(t, vals) ==
    {c \in Converted(vals) : IsHeap(t, c) /\ vals[c] = "fits"}
CopyOf(h, t, vals, c) ==
    Malloc(h, Cardinality({d \in Copied(t, vals) : d <= c}))

ParsedRow(h, t, row, vals) ==
    [c \in DOMAIN row |->
        IF c \notin Converted(vals) THEN row[c]
        ELSE [ptr      |-> IF c \in Copied(t, vals) THEN CopyOf(h, t, vals, c)
                           ELSE Null,
              valued   |-> TRUE,
              needfree |-> row[c].needfree \/ c \in Copied(t, vals)]]
WithCopies(h, t, vals, by) ==
    With(h, [b \in {CopyOf(h, t, vals, c) : c \in Copied(t, vals)}
                |-> Block("text", by, 0, <<>>, <<>>)])

----------------------------------------------------------------------------
(* What can be reached                                                     *)

NoResult   == [shape |-> "none", at |-> Null]
NoIterator == [open |-> FALSE, self |-> Null,
               columns |-> Null, tables |-> Null]
NoCall     == [mode |-> "idle", wanted |-> {}, max |-> 0,
               got |-> 0, next |-> 0, at |-> [t \in Tables |-> Null],
               columns |-> Null]

Roots ==
    {held[t].at : t \in Tables}
    \cup {iterator.self, iterator.columns, iterator.tables}
    \cup Range(call.at) \cup {call.columns}
Entries(B) == UNION {Range(heap[b].entries) : b \in B \cap Blocks}
Pointers(B) ==
    UNION {UNION {{m.ptr : m \in Range(row)} : row \in Range(heap[b].rows)} :
               b \in B \cap Blocks}
Containers ==
    Roots \cup UNION {{e.entry, e.data} : e \in Entries(Roots)}
Reachable == Containers \cup Pointers(Containers)

\* Blocks that nobody can free any more.
Lost == Live(heap) \ Reachable

\* The blocks with rows that the caller can use.
CallersRows ==
    {b \in {held[t].at : t \in Tables}
           \cup {e.data : e \in Entries({held[t].at : t \in Tables})} :
         b \in Blocks /\ heap[b].kind = "rows"}

NothingHeld == \A t \in Tables : held[t] = NoResult

\* The caller may start a call.
Ready == call = NoCall /\ Cardinality(Lost) <= MaxLost
Room(blocks) == Cardinality(Unused(heap)) >= blocks

----------------------------------------------------------------------------
(* Calls on objects                                                        *)

\* sorm_new and sorm_new_array
SormNew(t, n) ==
    /\ Room(1) /\ NothingHeld
    /\ heap' = [heap EXCEPT ![Malloc(heap, 1)] = NewArray(t, n, Allocator)]
    /\ held' = [held EXCEPT ![t] = [shape |-> "rows", at |-> Malloc(heap, 1)]]
    /\ UNCHANGED <<iterator, call, faults>>

\* sorm_set_column_value with a value of the caller; one that is too long
\* for a stack member changes no stat.
SetColumnValue(b, r, c) ==
    /\ heap' = [heap EXCEPT ![b].rows[r] =
                   SetMember(heap[b].table, c, @, Theirs)]
    /\ UNCHANGED <<held, iterator, call, faults>>

\* sorm_insert and sorm_replace after a step that stored the row: the key is
\* copied back from a variable of _save.
Save(b, r) ==
    /\ \E c \in DOMAIN heap[b].rows[r] : heap[b].rows[r][c].valued
    /\ PK[heap[b].table] # 0
    /\ heap' = [heap EXCEPT ![b].rows[r] =
                   SetMember(heap[b].table, PK[heap[b].table], @, Gone)]
    /\ UNCHANGED <<held, iterator, call, faults>>

\* The caller frees its result of table t: the calls of _free are frees.
Drop(t, frees) ==
    /\ heap' = FreeAll(heap, frees)
    /\ faults' = faults \cup Faults(heap, Allocator, frees)
    /\ held' = [held EXCEPT ![t] = NoResult]
    /\ UNCHANGED <<iterator, call>>

SormFree(t) ==
    /\ held[t].shape = "rows" /\ Len(heap[held[t].at].rows) = 1
    /\ Drop(t, MemberFrees(heap, held[t].at))

SormFreeArray(t) ==
    /\ held[t].shape = "rows"
    /\ Drop(t, ArrayFrees(heap, held[t].at))

SormListFree(t) ==
    /\ held[t].shape = "list"
    /\ Drop(t, ListFrees(heap, held[t].at))

----------------------------------------------------------------------------
(* Selects                                                                 *)

ArrayMode == "some_array"
ListModes == {"some_list", "all_list", "all_array"}
Modes     == {ArrayMode} \cup ListModes
First(W)  == CHOOSE t \in W : \A u \in W : t <= u

\* _select up to the first step: the column arrays, and for each table whose
\* rows are wanted an array of max rows or the head of a list.
SelectBegin(mode, wanted, max) ==
    LET at(t) == Malloc(heap, 1 + Cardinality({u \in wanted : u <= t}))
        made  == [b \in {at(t) : t \in wanted} |->
                     LET t == CHOOSE u \in wanted : at(u) = b
                     IN  IF mode = ArrayMode THEN NewArray(t, max, Allocator)
                         ELSE Block("list", Allocator, t, <<>>, <<>>)]
    IN  /\ Room(1 + Cardinality(wanted))
        /\ NothingHeld
        /\ heap' = With([heap EXCEPT ![Malloc(heap, 1)] =
                            Block("columns", NoAllocator, 0, <<>>, <<>>)], made)
        /\ call' = [mode |-> mode, wanted |-> wanted, max |-> max,
                    got |-> 0, next |-> First(wanted),
                    at |-> [t \in Tables |-> IF t \in wanted THEN at(t) ELSE Null],
                    columns |-> Malloc(heap, 1)]
        /\ UNCHANGED <<held, iterator, faults>>

\* sorm_select_iterate_by and _by_join up to the step.
IterateBegin(wanted) ==
    /\ iterator.open
    /\ NothingHeld
    /\ call' = [NoCall EXCEPT !.mode = "iterate",
                              !.wanted = wanted, !.max = 1,
                              !.next = First(wanted)]
    /\ UNCHANGED <<heap, held, iterator, faults>>

\* The frees of a select that fails or finds nothing.
Cleanup(h) ==
    UNION {IF call.mode = ArrayMode THEN {FreeBlock(call.at[t])}
           ELSE ListFrees(h, call.at[t]) : t \in call.wanted}

\* sorm_select_all_array_by and _by_join: each list becomes an array.
ArrayOf(h, t) ==
    Malloc(h, Cardinality({u \in call.wanted : u <= t}))
WithArrays(h) ==
    With(h, [b \in {ArrayOf(h, t) : t \in call.wanted} |->
                LET t == CHOOSE u \in call.wanted : ArrayOf(h, u) = b
                IN  Block("rows", Allocator, t, CopiedRows(h, call.at[t]), <<>>)])
AllCopyFrees(h) == UNION {CopyFrees(h, call.at[t]) : t \in call.wanted}

\* The caller gets at[t] for each wanted table, if there is a row.
Give(shape, at) ==
    held' = [t \in Tables |->
                IF t \in call.wanted /\ at[t] # Null
                THEN [shape |-> shape, at |-> at[t]]
                ELSE held[t]]

\* The end of the select, from heap h.
ReturnRows(h) ==
    LET columns == {FreeBlock(call.columns)}
        freed(x, frees) ==
            /\ heap' = FreeAll(FreeAll(x, frees), columns)
            /\ faults' = faults \cup Faults(x, Allocator, frees)
                                \cup Faults(x, NoAllocator, columns)
    IN  /\ call' = NoCall
        /\ UNCHANGED iterator
        /\ IF call.mode = "all_array"
           THEN /\ freed(WithArrays(h), AllCopyFrees(h))
                /\ Give("rows", [t \in call.wanted |-> ArrayOf(h, t)])
           ELSE /\ freed(h, {})
                /\ Give(IF call.mode = ArrayMode THEN "rows" ELSE "list", call.at)

\* Mutant: the column arrays are freed with the caller's allocator.
ReturnNothingPooled(h) ==
    /\ call' = NoCall
    /\ heap' = FreeAll(FreeAll(h, Cleanup(h)), {FreeBlock(call.columns)})
    /\ faults' = faults \cup Faults(h, Allocator, Cleanup(h))
                        \cup Faults(h, Allocator, {FreeBlock(call.columns)})
    /\ UNCHANGED <<held, iterator>>

\* The end of a select without a result, from heap h.
ReturnNothing(h) ==
    /\ call' = NoCall
    /\ heap' = FreeAll(FreeAll(h, Cleanup(h)), {FreeBlock(call.columns)})
    /\ faults' = faults \cup Faults(h, Allocator, Cleanup(h))
                        \cup Faults(h, NoAllocator, {FreeBlock(call.columns)})
    /\ UNCHANGED <<held, iterator>>

\* _select_iterate hands over what it has, also when it fails.
ReturnObjects(h, at) ==
    /\ call' = NoCall
    /\ heap' = h
    /\ Give("rows", at)
    /\ UNCHANGED <<iterator, faults>>

\* Mutant: is_table_select is not asked.
ContinueAll(h, at) ==
    LET later == {u \in Tables : u > call.next}
    IN  /\ heap' = h
        /\ call' = IF later # {}
                   THEN [call EXCEPT !.next = First(later), !.at = at]
                   ELSE [call EXCEPT !.next = First(call.wanted), !.at = at,
                                     !.got = @ + 1]
        /\ UNCHANGED <<held, iterator, faults>>

\* The call goes on after the row of table t, from heap h.
Continue(h, at) ==
    LET later == {u \in call.wanted : u > call.next}
    IN  /\ heap' = h
        /\ call' = IF later # {}
                   THEN [call EXCEPT !.next = First(later), !.at = at]
                   ELSE [call EXCEPT !.next = First(call.wanted), !.at = at,
                                     !.got = @ + 1]
        /\ UNCHANGED <<held, iterator, faults>>

\* sqlite3_step gave a row with values vals for the next table: the place for
\* it is made (an entry and an object, an object, or a row of the array) and
\* the row is converted into it.
SelectRow(vals) ==
    LET t     == call.next
        entry == Malloc(heap, 1)
        data  == IF call.mode = "iterate" THEN Malloc(heap, 1) ELSE Malloc(heap, 2)
        object == NewArray(t, 1, Allocator)
        place == IF call.mode = ArrayMode THEN call.at[t] ELSE data
        r     == IF call.mode = ArrayMode THEN call.got + 1 ELSE 1
        h1    == CASE call.mode = ArrayMode -> heap
                   [] call.mode = "iterate" -> [heap EXCEPT ![data] = object]
                   [] OTHER ->
                        [heap EXCEPT ![call.at[t]].entries =
                                         Append(@, [entry |-> entry, data |-> data]),
                                     ![entry] = Block("entry", Allocator, 0, <<>>, <<>>),
                                     ![data] = object]
        h2    == [WithCopies(h1, t, vals, Allocator) EXCEPT
                     ![place].rows[r] = ParsedRow(h1, t, @, vals)]
        at    == IF call.mode = "iterate" THEN [call.at EXCEPT ![t] = data]
                 ELSE call.at
    IN  /\ call.got < call.max
        /\ Room(2 + Cardinality(Tables) + Cardinality(Copied(t, vals)))
        /\ \/ ~ParseFails(vals) /\ Continue(h2, at)
           \/ ParseFails(vals) /\ call.mode = "iterate" /\ ReturnObjects(h2, at)
           \/ ParseFails(vals) /\ call.mode # "iterate" /\ ReturnNothing(h2)

\* The loop ends: all rows asked for are there, or sqlite3_step gave
\* SQLITE_DONE (ok) or an error.
SelectEnd(ok) ==
    /\ call.next = First(call.wanted)
    /\ call.got = call.max /\ call.mode \notin {"all_list", "all_array"} => ok
    /\ call.mode = "all_array" => Room(Cardinality(call.wanted))
    /\ IF call.mode = "iterate" THEN ReturnObjects(heap, call.at)
       ELSE IF ok /\ call.got > 0 THEN ReturnRows(heap)
       ELSE ReturnNothing(heap)

----------------------------------------------------------------------------
(* Iterators                                                               *)

\* sorm_select_iterate_by_open: the table list comes from the allocator of
\* the caller, the iterator and its column arrays from malloc.  A failing
\* open frees them again.
IterOpen(ok) ==
    LET self == Malloc(heap, 1)  columns == Malloc(heap, 2)
        tables == Malloc(heap, 3)
        own == Block("iterator", NoAllocator, 0, <<>>, <<>>)
        h == [heap EXCEPT ![self] = own, ![columns] = own,
                          ![tables] = Block("tables", Allocator, 0, <<>>, <<>>)]
        mine == {FreeBlock(columns), FreeBlock(self)}
    IN  /\ Room(3) /\ ~iterator.open
        /\ IF ok
           THEN /\ heap' = h
                /\ iterator' = [open |-> TRUE, self |-> self,
                                columns |-> columns, tables |-> tables]
                /\ UNCHANGED faults
           ELSE /\ heap' = FreeAll(FreeAll(h, mine), {FreeBlock(tables)})
                /\ faults' = faults \cup Faults(h, NoAllocator, mine)
                                    \cup Faults(h, Allocator, {FreeBlock(tables)})
                /\ UNCHANGED iterator
        /\ UNCHANGED <<held, call>>

\* sorm_select_iterate_close frees all of it with the caller's allocator.
IterClose ==
    LET frees == {FreeBlock(iterator.columns), FreeBlock(iterator.tables),
                  FreeBlock(iterator.self)}
    IN  /\ iterator.open
        /\ heap' = FreeAll(heap, frees)
        /\ faults' = faults \cup Faults(heap, Allocator, frees)
        /\ iterator' = NoIterator
        /\ UNCHANGED <<held, call>>

----------------------------------------------------------------------------
Init ==
    /\ heap = [b \in Blocks |-> Free]
    /\ held = [t \in Tables |-> NoResult]
    /\ iterator = NoIterator
    /\ call = NoCall
    /\ faults = {}

StartCall ==
    \/ \E t \in Tables, n \in 1 .. MaxRows : SormNew(t, n)
    \/ \E b \in CallersRows : \E r \in DOMAIN heap[b].rows :
           \/ Save(b, r)
           \/ \E c \in DOMAIN heap[b].rows[r] : SetColumnValue(b, r, c)
    \/ \E t \in Tables : SormFree(t)
    \/ \E t \in Tables : SormFreeArray(t)
    \/ \E t \in Tables : SormListFree(t)
    \/ \E mode \in Modes, W \in (SUBSET Tables) \ {{}}, max \in 1 .. MaxRows :
           SelectBegin(mode, W, max)
    \/ \E W \in (SUBSET Tables) \ {{}} : IterateBegin(W)
    \/ \E ok \in BOOLEAN : IterOpen(ok)
    \/ IterClose

GoOn ==
    \/ \E vals \in RowValues(call.next) : SelectRow(vals)
    \/ \E ok \in BOOLEAN : SelectEnd(ok)

\* The caller need not go on.
Pause == call = NoCall /\ UNCHANGED vars

Next ==
    \/ Ready /\ StartCall
    \/ Pause
    \/ call # NoCall /\ GoOn

Spec == Init /\ [][Next]_vars

----------------------------------------------------------------------------
(* Properties                                                              *)

Rows(B) ==
    UNION {{<<b, r>> : r \in DOMAIN heap[b].rows} : b \in B \cap Blocks}
Places(B) ==
    UNION {{<<x[1], x[2], c>> : c \in DOMAIN heap[x[1]].rows[x[2]]} : x \in Rows(B)}
Member(p) == heap[p[1]].rows[p[2]][p[3]]

\* Every block is free, an array or object, a list, an entry, a text or one of
\* the helper blocks of a select, and every handle is of its shape.
TypeOK ==
    /\ \A b \in Blocks :
        /\ heap[b].kind \in {"free", "rows", "list", "entry", "text", "columns",
                             "iterator", "tables"}
        /\ heap[b].by \in {NoAllocator, Allocator}
        /\ heap[b].table \in {0} \cup Tables
        /\ heap[b].entries # <<>> => heap[b].kind = "list"
        /\ heap[b].rows # <<>> => heap[b].kind = "rows"
    /\ \A p \in Places(Blocks) :
           Member(p) \in [ptr : Blocks \cup {Null, Theirs, Gone},
                          valued : BOOLEAN, needfree : BOOLEAN]
    /\ \A t \in Tables :
           \/ held[t] = NoResult
           \/ held[t].shape \in {"rows", "list"} /\ held[t].at \in Blocks
    /\ call.got \in 0 .. call.max /\ call.max \in 0 .. MaxRows
    /\ call.wanted \subseteq Tables
    /\ call # NoCall => call.next \in call.wanted

\* Ownership: whatever select made the rows, however it copied them, and
\* whatever was set since, each member marked NEEDFREE points to memory that
\* sorm_free may free with the caller's allocator: a live copy that belongs
\* to this member of this row alone.  The blocks around it are live too.
OneOwner ==
    LET owners == {p \in Places(Containers) : Member(p).needfree}
    IN  /\ Containers \cap Blocks \subseteq Live(heap)
        /\ \A p \in owners : /\ Member(p).ptr \in Live(heap)
                             /\ heap[Member(p).ptr].kind = "text"
                             /\ heap[Member(p).ptr].by = Allocator
        /\ \A p, q \in owners : Member(p).ptr = Member(q).ptr => p = q

\* A member with a value can be read: a heap text of an object of the caller
\* is a live copy or memory of the caller (a blob may be an empty one).
Readable ==
    \A p \in Places(CallersRows) :
        LET kind == Columns[heap[p[1]].table][p[3]]
            ptr  == Member(p).ptr
        IN  kind \in {"text", "blob"} /\ Member(p).valued =>
                \/ ptr = Theirs
                \/ ptr = Null /\ kind = "blob"
                \/ ptr \in Live(heap) /\ heap[ptr].kind = "text"

\* sorm frees no block twice, nothing of the caller, and each block with the
\* allocator that made it; only the blocks of an iterator, which are made by
\* malloc and freed by sorm_select_iterate_close with the caller's allocator,
\* are exempt.
FreedRight ==
    \A f \in faults :
        f.what = "allocator" /\ f.kind = "iterator"

\* The steps that lose memory, and no others do: sorm_free and
\* sorm_list_free (of the caller or of a select of lists that fails) lose
\* objects, whose members they have freed; sorm_set_column_value loses the
\* copy that it overwrites; a select of arrays that fails loses the copies of
\* the rows it had converted.
LossesKnown ==
    [][\A b \in Lost' \ Lost :
          \/ /\ heap'[b].kind = "rows" /\ Len(heap'[b].rows) = 1
             /\ \A c \in DOMAIN heap'[b].rows[1] :
                    heap'[b].rows[1][c].needfree =>
                        heap'[b].rows[1][c].ptr \notin Live(heap)'
             /\ \/ held' # held
                \/ call.mode \in ListModes /\ call' = NoCall
          \/ /\ heap[b].kind = "text" /\ call = NoCall
             /\ held' = held /\ iterator' = iterator
          \/ /\ heap'[b].kind = "text" /\ call.mode = ArrayMode
             /\ call' = NoCall /\ held' = held]_vars
=============================================================================
