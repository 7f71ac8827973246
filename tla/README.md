# A TLA+ development for sorm

sorm is a small object-relational mapper in C over SQLite 3.7.7.1. A program
opens connections (`sorm_open`), each used by one thread or process (as the
tests do: every thread of `test/test_pthread_transaction.c` opens its own), and
calls functions that build one SQL statement, prepare it, step it and finalize
it. sorm adds to SQLite: a lock shared by the connections (a System V semaphore
or a pthread rwlock), retries, nested transactions by counting, iterators, and
the mapping between rows and C structures.

Paths below are relative to the repository.

## 1. Inventory

| Component | State | Operations | What makes it hard |
|---|---|---|---|
| connections and statements, `src/sorm.c` | `sorm_connection_t`: handle, `transaction_num`, `sem_key`/`rwlock`, `flags`; prepared statements | `_sqlite3_prepare`, `_sqlite3_step`, `_sqlite3_finalize`, the write calls, `_select`, iterators, `sorm_open`, `sorm_close` | interleavings of connections on one file, SQLITE_BUSY at several places, retries, calls that return without finalizing |
| transactions, `src/sorm.c` | `transaction_num`, SQLite's autocommit flag | begin write/read, commit, rollback | nesting by counting; BEGIN, COMMIT, ROLLBACK that fail; SQLite ending a transaction by itself; `_unlock` without `_lock` |
| lock of sorm, `src/sorm.c` | semaphore or rwlock | `_lock`, `_unlock` | ignored results, unmatched unlocks |
| semaphore, `src/semaphore.c` | a System V semaphore, SEM_UNDO adjustments | `sem_init`, `sem_p`, `sem_v` | created lazily by whoever comes first, signals, killed processes |
| text of statements, the calls of `src/sorm.c` | one buffer of `SQL_STMT_MAX_LEN + 1` bytes and an offset; parameter numbers | `snprintf` at an offset, repair of the last separator, prepare, bind | sizes computed by hand at some fifty places; printing loops and binding loops that must agree |
| quoting of strings, `_fix_string` | two pointers into one or two buffers | count, check, copy backwards | in-place widening, off-by-one |
| column lists of selects, `_columns_name_to_select_columns` | predicted position of every column in a result row | one item of the list at a time | must agree with what SQLite does with the same list |
| objects and memory, `sorm_new` .. `sorm_set_column_value`, `src/memory.h` | a stat word per member (VALUED, NEEDFREE), blocks from two allocators | new, set, save, free, free of arrays and lists | who owns a heap column; which allocator frees what |
| rows to objects, the select cores and iterators | arrays, lists and objects under construction | convert a row, stop, copy lists to arrays, hand over or free | failure after some rows; copies that share pointers |
| generator, `src/generate.c`, `src/parser_*`, `src/*_generate.c` | global descriptors filled by the parser | one reduction at a time, then two files written | globals that survive a column or a file; two writers that must agree; structs read through computed offsets |
| logging, lists, timers, zlog | | | |
| SQLite 3.7.7.1 (vendored) | locks on the file, active statements | the rules that matter to sorm | below |

Interactions: every call of a connection goes through `_sqlite3_prepare`, which
takes no lock of sorm, and `_sqlite3_step`, which
takes it only if `transaction_num` is 0; `_lock`/`_unlock` call
`sem_p`/`sem_v` or the rwlock; all connections meet in SQLite's locks on the
file. A call first builds its text (a filter by column quotes its value on the
way), prepares and binds it, then steps it; a select converts each row into
objects at the positions it predicted from the list of columns. The structs it
fills are declared by the generator, which sorm reads through offsets only. The
transaction calls bypass `_sqlite3_step` and never lock, but the
outermost commit and rollback unlock. The hazards that follow from this are
listed, with their lines and the properties aimed at them, in `PROJECT.json`.

## 2. Modules

### SormConn
All connections over one file. A connection's `pc` says where its current call
is; each action is the code between two points where another connection can
matter:

| `pc` | code |
|---|---|
| `idle` | no call in progress |
| `prepare`, `reading` | `_sqlite3_prepare`, outside the lock of sorm: about to read the schema, and reading it under SHARED |
| `lock`, `step`, `unlock` | `_sqlite3_step`: before `_lock`, in the retry loop, before `_unlock` |
| `excl`, `sync` | inside `sqlite3_step`: the commit of a write outside a transaction |
| `undo` | that commit was busy: the write is rolled back, then tried again or given up |
| `row` | a select core has got a row |
| `final` | the call has left its loop and decides about finalize and its result |
| `tstep`, `tsync`, `tfinal` | the step, the commit to the file and the finalize of BEGIN, COMMIT, ROLLBACK |
| `refinal` | `_sqlite3_finalize` is about to finalize a statement it has already freed |
| `close`, `closed`, `dead` | `sorm_close`, no connection, killed |

Data is abstracted to tokens: a token stands for whatever a statement writes,
`db` is the set of committed tokens, `buf[c]` what SQLite holds for `c`
uncommitted. How the statement is made (text, binding: `Statements`)
and what becomes of a row (`Objects`) is left out here: a call that fails before
it touches the file gives back what it took and is a stuttering step. A prepare
touches the file when SQLite must read the schema or check it (first use, a
change by anyone, an unknown name); the model lets that happen at any call whose
connection holds no lock on the file, since with one nothing changes. All
write calls share one shape and differ in how they end: `write` finalizes
always; `save` (`_save`, used by insert and replace) returns early if the
primary key cannot be copied back; `leaky` (`sorm_delete`, `sorm_update`)
returns early if the step failed; `ddl` is a `write` that changes the schema. A lost statement that had halted is counted
in `leaked`; one that was stopped by SQLITE_BUSY is still an active writer of
the connection and is counted in `stuck`.

SQLite is vendored and huge; the model has what `src/sorm.c` depends on, each
rule with its lines of `src/third-part/sqlite3/sqlite3.c` in the map: its five lock levels on the file, shared and
exclusive conditions, deferred and immediate transactions, the commit that
needs the file for itself (of any write transaction, an empty BEGIN IMMEDIATE too), the rules that refuse COMMIT (an active writer) and
ROLLBACK (any active statement), and six more facts: a statement prepared with `sqlite3_prepare` that stops with
SQLITE_BUSY at its first instruction stays active; an autocommit that cannot
have the file is rolled back and `sqlite3_step` returns SQLITE_BUSY
(sqlite3.c:59839), so `_sqlite3_step` executes the whole write again, up to
`BUSY_RETRY_TIME` times, after which `sqlite3_finalize` reports SQLITE_BUSY once
more; a statement that changes the schema has expired with that rollback and
its second execution fails with SQLITE_ERROR; `sqlite3_prepare` takes SHARED
while it reads the schema and compiles once more if it was out of date; with
another active write statement autocommit neither commits nor releases the
file; a full disk or I/O error rolls the whole transaction back.
`sqlite3_finalize` frees the statement whatever it returns; a second call on it
is undefined and the model lets it either report misuse or kill the process
(with its file locks dropped and SEM_UNDO applied).

History variables (`told`, `acked`, `undone`, `extra`, `unmatched`, `faulted`,
`finalizedTwice`) record what the callers were told and what went wrong; no
guard of the code depends on them except the bound `MaxEnded`, and `unmatched`,
which makes a misused rwlock let anyone in (undefined by POSIX).

### TxStore
What the calls promise about data: a store, a nesting depth and pending writes
per connection, the outermost commit publishing everything at once, and tokens
promised only when stored. `SormConn` maps to it with `depth` following
SQLite's end of the transaction (`SqliteEnded`), `ImplementsStore`.

### Semaphore
`src/semaphore.c` system call by system call: `semget`, `semget` with IPC_CREAT
(no IPC_EXCL), `SETVAL`, `semop` with SEM_UNDO, a signal in `semop` (whose
error `_lock` ignores), unmatched `sem_v` from the end of a transaction, and
processes killed at any point. In `SormConn` the semaphore is one atomic
counter; this module shows when that is right (`OneUnit`, `MutexUndisturbed`)
and what remains true when it is not (`NeverLockedOut`, `WaiterServed`).

### Statements, with FixString and SelectColumns
`Statements` is one call of the library from its arguments to the point where
the statement is stepped, and composes the two algorithms it needs (`FS` and
`SC`). Text is a sequence of pieces, each a record of its kind, what it says and
its length; a call is a program of prints (with the size it passes to
`snprintf`), repairs of the last separator and cuts, run step by step against a
buffer of `max` bytes. Every size expression is kept as the code has it, the two
wrong ones included. NULL arguments leave by `Refuse`, `sqlite3_prepare` may
fail whatever it is given, and refuses a text that ends in a stump.

`FixString` keeps memory as a function on positions, so that in-place copying
and writing before the buffer are visible, and compares with the doubled string.
`SelectColumns` handles one item of a column list per step next to `SelectColumns` handles one item of a column list per step next to SQLite's
expansion of the same list, for one or two tables. `Skip` is an item whose table
part sorm does not recognise and passes over without counting; SQLite compares
names in any letters and knows databases, so such an item delivers
(`Deliveries`) an expression, a column that sorm never reads (`DEVICE.id`,
`main.device.id`), or all columns of a table (`DEVICE.*`). Expressions with a
comma of their own, which sorm takes for two items, are left out.

### Objects
The heap as a function from block numbers to blocks; a block knows its kind, its
allocator and its contents. Calls of the caller (`SormNew`, `SetColumnValue`,
`Save`, the three frees) are one action each, as nothing else touches their
objects; a select or an iterator goes row by row (`SelectBegin`, `SelectRow`,
`SelectEnd`), so that it can fail after any row. `faults` collects every `_free`
that a correct program never makes. The caller follows `sorm.h`: it frees each
result once, with the function for its shape and the same allocator. A failing
malloc ends the process in `_malloc` and is no behaviour. The arrays of indexes
of an iterator are one block; the key of an object that is saved is a bounded
text inside it (for a heap text key `_save` stores the address of its local
`row_id` in the object, `src/sorm.c:1948`).

### Generator, Layout
`Generator` is `main` of the generator with one action per reduction of
`parser_yacc.y` on the global descriptors, several files per command line, and
`UNDEFINED` for a use of freed memory, of a NULL name or file, or of a pointer
never set. The last is met on every table (`src/c_generate.c:587`), so a run goes
on from there or not (`Generate`, `GenerateUndefined`), and the properties are
about the runs that go on. `two_keys` is the message about a second primary key.
A unit notes whether its header could be opened. What the two files declare
and define is a set per column. `Layout` computes where the members of a
generated struct are, for ILP32 and LP64, and where `src/sorm.c` looks for the
stat and length words of a column (in front of its value).

### Proof modules
The theorems of section 5: `SormConnProofs`, `SemaphoreProofs`,
`StatementsProofs`, `StatementsRoomProofs` and `StatementsTextProofs` for
Statements, `ObjectsProofs`, `GeneratorProofs`, and `CountingTheorems`, the lemmas
on induction and counting that they share. `MC*.tla` instantiate the modules for TLC.

## 3. Runs

| Run | Instance | Shows |
|---|---|---|
| conn_autocommit | 3 threads that write, delete, update, select and close under the rwlock; no transactions | a writer is alone (`LockExcludes`); no statement is stopped unfinished (`NoneUnfinished`), although a prepare outside the lock can make a commit busy; `Stored`, although halted statements are lost; `FileReleased` |
| conn_tx | 2 connections, 2 tokens, nesting 2, writes and saves, close, semaphore | `TransactionAgrees`, `Stored`, `Isolated`, `RolledBack`, `LockExcludes`, refinement `ImplementsStore` |
| conn_leak | 2 connections, nesting 2, deletes and updates that lose statements, iterator, one fault, semaphore | `TransactionAgrees`, `SemaphoreKept`, `RolledBack`, `FileReleased` |
| conn_live | 2 connections, fairness; no iterators and none of the calls that lose statements | `CallsReturn`, `CloseReturns` |
| sem_shared | 3 processes, crash, interrupt, unmatched unlock | `OneUnit`, `MutexUndisturbed`, `NeverLockedOut`, `WaiterServed` |
| statements | two joined tables sharing a column name; `SQL_STMT_MAX_LEN` 3 to 140; strings up to 5, buffers up to 11, lists up to 4 | only the two known prints leave their buffer (`OverrunKnown`); nothing is compiled that lost a part (`SentWhole`), nothing refused that fits (`TooLongRight`); placeholders and values agree (`BindsMatch`); no delete or update of an object reaches all rows (`Restricted`); `FixedUnlessLeadingQuote`, `UnreadKept`, `PositionsRight`, `SelectionRight` |
| objects | two tables (text and key; blob), 20 blocks, results of up to 2 rows | each NEEDFREE member owns a live copy alone (`OneOwner`), values can be read (`Readable`), frees are right but for the iterator's (`FreedRight`), and memory is lost only in the four known ways (`LossesKnown`) |
| generator | 2 files, 2 columns, 2 foreign keys, parse errors, files that cannot be opened | `Described`, `FilesAgree`, `AccessorsInStruct` |
| doc_tx_lock | expects a violation | no transaction holds the rwlock, though `src/sorm.h` says so |
| doc_finalize_once | expects a violation | a statement is finalized twice after SQLITE_BUSY |
| doc_stored | expects a violation | a write that returned SORM_OK is not stored, after `sorm_delete` lost a busy statement |
| doc_one_key | expects a violation | a second file with one primary key is refused as one with two |

Bounds. Two connections show every conflict on the file, since each rule of
SQLite asks about "some other connection"; three are used for the lock of sorm,
with two readers and a writer, or two in the lock and one that prepares.
`BUSY_RETRY_TIME` is 10 in the code and 2 in the passing runs: 0, 1 and all
retries used are the cases the code tells apart. `MaxNest` 2 has an inner and
an outer transaction; conn_live does without the inner one. Lock modes are
split over the runs: transactions under the semaphore, selects of several
threads under the rwlock; the theorems are about every mode. `MaxEnded` bounds
the units that unmatched unlocks add, `MaxLeak` lost statements, `MaxRows` rows
of a select, `MaxFaults` faults. A token is written successfully once, so
"stored" and "rolled back" are unambiguous. Connections, tokens and processes
are interchangeable and used as symmetry sets in the safety runs; runs with
fairness use none.

In statements, `SQL_STMT_MAX_LEN` is 1023 in the code; names of fixed length 2
against every maximum from 3 to 140 put the end of the buffer at every byte of
every statement, which is what longer names against a fixed maximum would do.
Three columns (key, unique, plain) and every subset of them with a value give
first, middle and last turns of each loop. In objects, `MaxRows` 2 is one row
before the one that fails; a lost block takes part in nothing any more, so calls
start only while nothing is lost (`MaxLost` 0), and the step that loses is still
checked; 20 blocks are never used up by two tables and two rows (a call and a
row start only while the heap has `Room` for what they allocate). The caller
holds the result of one call at a time, as the calls share no memory otherwise. In generator, two
files show what survives a file, two columns what survives a column.

Deadlock is checked except in sem_shared: a process killed between the creation
of the semaphore and SETVAL leaves the value 0, everyone waits, and the code
really stops there.

Fairness. A thread inside a call goes on (WF of its own steps). A waiter gets
the lock if it is free again and again (SF): Linux serves the waiters of a
System V semaphore in order. Nobody is obliged to make a call.

## 4. Disagreements met while modelling

Four are findings with a run (`doc_*` above). Others, seen in the code:

- `src/sorm.h:31` says a read takes the read lock; `_select_iterate` asks for
  the write lock (`src/sorm.c:3959`).
- The comment "always --" at `src/sorm.c:3328` does not hold when finalize
  reports the error of a refused ROLLBACK: the call returns at line 3324.
- After a statement is lost, `sorm_close` repeats `sqlite3_close` for ever
  (`src/sorm.c:3350`). `CloseReturns` holds only where none is lost.
- Two processes that create the semaphore together both set it to 1, the second
  after the first has entered (`src/semaphore.c:45`): this is `Mutex` without
  `Undisturbed`.
- `src/sorm.h:588`, `597`, `605` say transactions "do not support nest"; the
  code counts them and the tests nest them.
- Outside the promise of `TransactionAgrees`: after SQLite itself has rolled a
  transaction back, `transaction_num` stays positive until the connection is
  closed, commits fail, and writes run in autocommit mode without the lock.

Text of statements:

- `_fix_string` does not count a quote at the start of the string
  (`src/sorm.c:966`): `sorm_fix_string` then gives an unbalanced literal or
  writes one byte before the buffer, where `src/sorm.h:396` promises the fixed
  string. `FixedUnlessLeadingQuote` is exact about it.
- `sorm_update` prints " WHERE" with the size of the whole buffer instead of the
  rest (`src/sorm.c:3607`): up to five bytes past the end, then SORM_TOO_LONG.
  `sorm_to_string` (`src/sorm.c:1320` and below) adds one to the rest: one byte.
- `sorm_update` of an object without a value in a unique column makes a text
  that ends in " W", which the parser refuses (`src/sorm.c:3636`): luck, not a
  check, keeps it from updating all rows.
- The "; CREATE INDEX" that `sorm_create_table` adds is a second statement, and
  `sqlite3_prepare` compiles the first only (`src/sorm.c:511`).
- Texts of the caller longer than `SQL_STMT_MAX_LEN` are cut without an error.
- A name in a column list that no table has ends in `assert(0)`
  (`src/sorm.c:772`); an item that is passed over (another case,
  `db.table.column`, an expression) shifts the positions of all later columns
  (`src/sorm.c:844`) by what it delivers. `PositionsRight` allows a shift of
  up to that many columns and no more.

Memory:

- `sorm_select_iterate_close` frees blocks of malloc with the caller's allocator
  (`src/sorm.c:4063`); a failed open leaves `*iterator_p` pointing to freed
  memory (`src/sorm.c:3750`).
- A failing select of arrays loses the copies of the rows it had converted
  (`src/sorm.c:2534`); `sorm_set_column_value` loses the copy it replaces
  (`src/sorm.c:1795`); `sorm_free` and `sorm_list_free` free the members of an
  object but not the object.

Generator:

- `has_PK` is never reset (`src/generate.c:100`), so a second file with a
  primary key is an error that then uses freed memory, though the usage text
  offers several files (doc_one_key).
- The result of `yyparse` is ignored, so a file that does
  not parse may reach the writers with a NULL name.
- `c_generate_func_select` frees `upper_table_name` (`src/c_generate.c:587`),
  which nothing has set: the lines that did are commented out.
- When the header cannot be opened `header_generate` prints its name after
  freeing it and returns (`src/header_generate.c:559`), and main writes the C
  file all the same; when the C file cannot, `c_generate` says so and prints to
  a NULL file (`src/c_generate.c:618`).
- The case of DOUBLE falls through to BLOB in the header (`header_generate.c:320`),
  and a key of type BLOB gets a stray "}" in the C file; the select by a DOUBLE
  key takes a `double *` and passes the address of that pointer.
- On LP64 the words in front of an 8-byte value can be padding and not the
  members `_stat` and `_len`; sorm reads and writes them consistently, but such
  members never change.

## 5. Proofs

TLAPS checks the theorems for every value of the constants that the assumptions
of the modules (`ConstantsAssumption`, `SemaphoreAssumption`,
`StatementsAssumption`, `LiteralLengths`, `GeneratorAssumption`) allow: any number of
connections, processes, tokens, tables, files and columns, any bound, every lock
mode.
A theorem with a further hypothesis states it. The invariants below were checked
by TLC on the instances of section 3 before they were proved. Each is proved
with one step per action; the temporal step comes last.

### SormConnProofs

Transactions and the lock:

- `TypeCorrect`: `Spec => []TypeOK`. Not a formality: that `transaction_num` is
  a natural number needs that the outermost end finds it at 1.
- `TransactionsAgree`: `Spec => []TransactionAgrees`. The property is about idle
  connections; the inductive `TxInv` says how far the counter lags inside
  BEGIN, COMMIT and ROLLBACK (it is 0 in a begin, 1 in an end, and SQLite is
  already ahead once the step is done), and that a faulted connection is outside
  SQLite's transaction with a positive counter.
- `LockExclusive`: `Spec => []LockExcludes`. `LockInv` adds where the holders
  are (in `_sqlite3_step` outside a transaction, so an unmatched unlock is never
  made by a holder) and that the semaphore counts its one holder until then.
- `WritesStored`: if `"leaky" \notin Ops` then `Spec => []Stored`. `StoredInv`
  follows a token from SQLite's transaction or the file to the caller, through
  busy commits that are rolled back and executed again: a
  successful step outside a transaction has committed, one inside is in `buf`,
  and what was told in a transaction is in `buf` until the outermost commit has
  written it. `ReservedInv` ties `buf` to the file (what is there is under
  RESERVED at least, so no COMMIT finds nothing to write) and says which lock a
  prepare starts and reads with. The hypothesis is needed: doc_stored is a counterexample without.

Data and the locks on the file:

- `RollbackKept`: `Spec => []RolledBack`, and `TransactionsHidden`:
  `Spec => []Isolated`. Both say that certain tokens are not in `db`. A commit
  adds all of `buf` to `db`, and an autocommitted write adds `tok`, so they are
  inductive only together with `TokensApart` (no two connections have a token in
  common in `tok`, `buf` or `told`, and none has one that was rolled back) and
  `Hidden` (told tokens and the token in progress are outside `db` until SQLite
  has committed; after SQLite's ROLLBACK `buf` is empty although the call has
  not returned).
- `LocksReleased`: `Spec => []FileReleased`. The property is about idle
  connections; `FileInv` adds the calls in progress: a lock above SHARED only
  while committing or in a transaction, SHARED only while a select or an
  iterator stands on a row, and no call is left with its select on a row.
- `StoreImplemented`: if `"leaky" \notin Ops` and `MaxFaults = 0` then
  `Spec => ImplementsStore`: every step is a step of `TxStore` under the mapping
  of `SormConn` or leaves it alone. The commit point is SQLite's, in the middle
  of the call; the step that tells the caller uses `StoredInv` for the promise
  and `NoFault` (an ended transaction was ended by its caller). Without the
  hypotheses the claim is false, as the store loses no write: doc_stored is the
  counterexample for the first, and for the second SQLite rolls a transaction
  back by itself while sorm still counts it open.

What the lock is for:

- `SemaphoreNeverLost`: `Spec => []SemaphoreKept`. A killed process takes back
  what its unmatched unlocks added, so it is not enough that a unit exists:
  `UnitsKept` says that the units in the semaphore and with the holders cover
  all that may be taken back and one more. The sum over the connections is the
  cardinality of `Units(extra)`, a set of pairs.
- `NoStatementUnfinished`: with the semaphore or the rwlock and without
  transactions, `Spec => []NoneUnfinished`. `OneAtATime`: who steps a statement
  holds the lock, and more than SHARED on the file exists only in the commit of
  such a one, so that the first instruction of a statement never meets it. It is
  not that SQLite is never busy: a prepare, which takes no lock of sorm, or a
  select that stands on a row holds SHARED and makes a commit busy. The
  hypothesis is needed: a transaction keeps RESERVED without the lock of sorm.

### SemaphoreProofs

- `SemaphoreTypes`: `Spec => []TypeOK`; the value is never negative.
- `UnitUnique`: `Spec => []OneUnit`, and `SemaphoreMutex`:
  `Spec => []MutexUndisturbed`, from `OwnerInv` (a unit is owned between the
  semop of sem_p and that of sem_v) and `UnitInv`, which covers the time before
  the SETVAL too: the value is 0 and nobody owns a unit, afterwards the value is
  1 iff nobody does, and SEM_UNDO's adjustment is 1 exactly for the owner.
- `EntryPossible`: `Spec => []NeverLockedOut`. `OwedInv` is like `UnitsKept`: a
  second SETVAL forgets who owns a unit, a lone sem_v can be taken back by a
  crash, and what is there must cover all `Owed` by processes and one more.

### StatementsProofs

- `QuotingRight`: `Spec => []FixedUnlessLeadingQuote`, and `UnreadSafe`:
  `Spec => []UnreadKept`, for strings and buffers of any length. `Width(s, k)`
  is k plus the quotes among the first k characters. `FixInv`: the count is the
  width up to `iter`, but for the first character; the copy has
  `i = Width(iter + 1) - 1`, so `i` is never before `iter`, everything behind
  `i` is the doubled string and everything up to `iter` is unread and intact.
  That the widths are where the characters of the doubled string are
  (`DoubledAt`) is by induction on the string.
- `PositionsFollowList`: `Spec => []PositionsRight`, and `SelectionFollowsList`:
  `Spec => []SelectionRight`, for lists of any length over one or two tables with
  any columns. `ListInv` adds to them that the row SQLite has made so far is as long
  as sorm's count plus the columns of the items sorm passed over (`DeliveriesAre`
  says what those are): only so is the next position
  right up to that shift. For `*`, `ListedAt` shows by induction on the tables
  that `Before` is where the columns of a table start.

### StatementsRoomProofs

- `PrintsStayInside`: `Spec => []OverrunKnown`, for any table, any length of a
  name and any `SQL_STMT_MAX_LEN`. `RoomInv`: while a text is built `offset` is at
  most `max` and nothing was written past the buffer; the steps still to do
  (`Running`) are prints into the rest of the buffer and repairs, in
  `sorm_to_string` also prints told one byte too many, and in `sorm_update` one
  print told the size of the whole buffer, WHERE. That this one writes at most
  five bytes too many, and not six, needs that the comma before it has just been
  taken back (`WhereHasRoom`).
- The lengths of the literals in the format strings are the constants' business:
  `LiteralLengths` states the ones that matter (each is at least 1; a comma and a
  parenthesis 1, " AND" 4, " WHERE" 6), and TLC evaluates it in the run.

### StatementsTextProofs

- `StatementsWhole`: `Spec => []SentWhole`, and `TooLongJustified`:
  `Spec => []TooLongRight`. `Wanted` is written without any repair: the parts of a
  statement with a separator between each two. The program prints a separator
  behind each part and repairs the last one, so the two are equal only at the end.
- `Runs(p, a, b, limit)`: the steps p turn the buffer a (its text and `offset`)
  into b, and `offset` never exceeds limit. One lemma per shape of a step
  (`RunsSay`, `RunsRepair`, `RunsCut`), one per loop (`RunsLoop`, `RunsColumns`,
  `RunsEqual`, `RunsWhere`), and `RunsOn` to put them together give one lemma per
  call (`SaveRuns`, `DeleteRuns`, `UpdateRuns`, `CreateRuns`, `PrintsRun`) and
  `ProgramMakes` for all. `UpdateBare` is the update without a key: its last cut
  leaves " W", which no parser accepts. In `sorm_create_table` the indexes behind
  the table start with the semicolon at which sqlite3_prepare stops (`FirstIs`).
- `WholeInv` carries this through a behaviour: while a text is built, what is left
  of the program leads from the buffer as it is to a text that is right
  (`Building`). With room a print is `After`, without room the offset it would
  need is within the limit, so the limit exceeds `max`: that is `TooLongRight`.
- Lists of pieces are handled as functions on 1..n: `Each`, `InOrder` and `Length`
  are written so in `Statements` (the library's sort and folds take operators,
  which the provers cannot instantiate), and TLC checks the same definitions.

### ObjectsProofs

- `TypeCorrect`: `Spec => []TypeOK`; `OneOwnerHolds`: `Spec => []OneOwner`;
  `FreedRightHolds`: `Spec => []FreedRight`; `ReadableHolds`: if `KeysInside`
  then `Spec => []Readable`. The number of tables, their columns, the rows of a
  select and the size of the heap are arbitrary.
- The argument is one of separation. A result is a tree: its head (an array, or a
  list with its entries and objects) and the copies its members own. `Tree`
  says that all of it is in use, of the right kind and made by the caller's
  allocator, and that within it no two entries share an object and no two
  NEEDFREE members a copy; `Good` that the results of two tables share no block
  (`Uses`). `OneOwner` alone is not inductive, as it does not keep the entries
  of a list apart or its objects in use, and it says nothing of the next free.
- `Inv` is `Sound` (`HeapOK`, `Good`, and `HeldOK`, `IteratorOK`, `CallOK`: what
  the caller, an iterator and a running select refer to is of the kind they take
  it for), `FreshRows` (the rows of an array that a select has not reached yet
  hold nothing, so converting a row overwrites no owned copy), and `FreedRight`.
- Lemmas for the steps: `MallocIs`, `MallocApart` (the k-th new block is unused
  and differs from the others), `TreeFrame` (a result is what it was if the
  blocks it uses are), `TreeRow` (a row is written), `TreeCopy` (from a list to
  an array: the copies change hands, so `__list_cpy_free` must not free them),
  and `FreeOf` (what the frees of a result free is a block of it, each once).
- `KeysInside` says that no primary key is a heap text or blob. It is needed:
  `_save` stores the address of its local in such a member (`src/sorm.c:1948`).
  The generator allows such tables; in the instance of the run the key is a
  bounded text, so TLC checks the case the theorem is about.
- What the proof showed about the model: the outcome of a row and of the end of
  a select was written as a CASE with overlapping guards, which leaves the value
  open in TLA+ although TLC takes the first; the guards are disjoint now.

### GeneratorProofs

- `GeneratorTypes`, `UnitsDescribed`, `HeaderMatches`,
  `AccessorsSafe`: `TypeOK`, `Described`, `FilesAgree` and
  `AccessorsInStruct` are invariants, for any files. `Shapes` are the types and
  `Bounds` the bounds. `ReadInv`: the columns read mean what the text says
  (`Meaning`), and `column_desc` has nothing left of the column before. That it
  is zeroed after a column, not only before one, had to be stated for the
  invariant to be inductive: a second column starts from there. `CollectInv` is
  the loop that empties the list, with the primary key among the first i
  columns. `OutInv` keeps
  what was written while the next file is read.
- `AccessorsSafe` needs that a column starts somewhere: the recursive function
  of `Layout` has a value for each column (`StartDefined`), and wherever a column
  starts, the words in front of its value are behind the column before.

### CountingTheorems

Induction over data is done with sets of numbers instead of predicates:
`SetInduction` (a set with 0 and with n + 1 for each n is Nat), `RecursionExists`
(a function defined by its first value and a step exists), least and greatest
members, and `Units`, which makes a sum over processes a cardinality.

### Only model-checked

Liveness (`CallsReturn`, `CloseReturns`, `WaiterServed`: fairness and ENABLED
are beyond the prover). Of `Statements` `BindsMatch` and `Restricted`: they pick
the placeholders and columns out of the text with `SelectSeq`, whose test is an
operator that the provers cannot instantiate.
Of `Objects` `LossesKnown`: that a block is reachable is a fact about all blocks
at once after each step, where the theorems need only what each result uses.

## 6. Not modelled, and the plan

Not modelled:

- logging, generic lists, timers and zlog: no state that sorm decides on;
- SQLite beyond section 2: over a hundred thousand lines, of which sorm sees a
  handful of rules. The rest of the vendored code is nothing this project can
  speak about, and the share of the repository covered is small because of it;
- of the generator: the lexer (tokens are given), `create_sql` (the first line of
  the file), the `XX_INIT` macro, a table-level UNIQUE clause (it changes
  nothing), and the text of the functions every table has;
- reads fail in `SormConn` only by SQLITE_BUSY or an error that halts the
  statement, a write outside a transaction by a constraint or a conflict;
- in `Objects`, `max` 0 of a select, and failing allocations.

Plan:

1. Iterators in conn_live: their locks outlive a call, which makes the instance
   four times as large as with selects.
2. `LossesKnown` for every heap: the trees of `ObjectsProofs` give the blocks
   that are reachable, what is left is that no other block is in use.
